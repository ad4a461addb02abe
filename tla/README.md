# Traffic Intelligence Platform: a formal model

This directory holds TLA+ models of the backend of the traffic intelligence
platform, the TLC configurations that check them, and machine-checked proofs
about them. Paths below are relative to `src/backend/app` unless they start with
`src/`.

## 1. What the system is

A video is uploaded through the API. The API stores the file, registers a video
and queues one processing job. Worker processes poll the job table, claim a job
under a lease, decode the video, run the detection pipeline, write artifacts and
violation events, and mark the job. Reviewers confirm or reject the events.
PostgreSQL and the file system are the only things the processes share.

| Component | State it keeps | Operations | Interacts with | Module |
|---|---|---|---|---|
| Job queue (`repositories/processing_job.py`) | rows of `processing_jobs`, status of `videos` | create, `claim_next`, `update_progress`, `mark_succeeded`, `mark_failed_or_retry`, `recover_expired_jobs` | workers, upload, deletion | `JobQueue` |
| Worker (`workers/video_worker.py`) | place in its loop, job, frames, stop event | `run_forever` and all it calls | job queue, artifacts, events | `VideoWorker` |
| Artifact writer (`artifacts/traffic_video.py`) | directories `.{job}.part` and `{job}` | constructor, `write`, `finish`, `abort` | worker, deletion, readers | `TrafficArtifacts` |
| Violation events (`services/*_lifecycle.py`) | rows of `violation_events` | persist transitions, attach preview and images | worker, review | `ViolationEvents` |
| Review (`services/violation_event.py`) | review status and metadata of an event | `review_violation` | events | `ViolationEvents` |
| Video deletion (`services/video.py`) | - | check, delete rows, delete files | job queue, artifacts, stored files | `JobQueue`, `VideoWorker`, `VideoIngestion` |
| Upload (`services/video_ingestion.py`, `storage/local.py`) | stored files, checksums | `save`, `ingest`, `delete` | job queue, cameras | `VideoIngestion` |
| Cameras, scenes, accounts (`services/camera.py`, `api/routes/{cameras,auth}.py`, `src/backend/scripts`) | rows of `cameras` and `users` | create, update, scene update, delete, login, create and list users | upload, worker reads the scene | `Administration` |
| Tracker (`tracking/`) | tracks with ids, ages, misses | `update`, `reset` | pipeline | `ObjectTracker`, `Assignment` |
| Riders and helmets (`reasoning/{rider_motorcycle,helmet_rider,temporal_rider}.py`) | relations of persons and motorcycles | `associate`, `update`, `reset` | pipeline, detectors | `RiderScores`, `RiderRelations` |
| Lanes and directions (`reasoning/{lane_occupancy,lane_violation,wrong_way}.py`, `scene/geometry.py`) | - | observations of one frame | detectors | `RoadGeometry`, `LaneRules` |
| Detectors (`reasoning/{triple_riding,no_helmet,wrong_way,lane_violation}.py`) | candidate and confirmation per track | `update`, `flush`, `reset` | pipeline | `ViolationDetector` |
| Traffic-light stabilizer (`reasoning/traffic_light*.py`) | stable state, candidate, counters per region | `update`, `reset` | red-light detector | `TrafficLight` |
| Red-light detector (`reasoning/red_light.py`) | last anchor and charge per track and line | `update`, `reset` | pipeline | `RedLight` |
| Output of an attempt (`artifacts/traffic_video.py`) | counters of frames and images | `write` | pipeline, events | `EvidenceImages` |
| Pipeline (`pipelines/yolo_traffic.py`) | the stateful parts above, created anew for every video | `start`, `process_frame`, `finish` | worker | `TrafficPipeline` |

Detection networks, annotation, the frontend and deployment are not modelled, and
of the HTTP interface only what administers cameras and accounts:
`PROJECT.json` gives the reason for each.

### What is hard here

- **Leases without fencing.** `_get_owned_running_job` checks the worker and
  the status, not the lease; directories and events are written without any
  check. A worker that was declared lost may come back at any step.
- **Transactions that interleave.** Row locks protect job rows. The video row,
  the deletion check and the reviews are read without a lock.
- **Crashes and stops.** A killed worker leaves a lease, a half-written
  directory and some events. A stop request leaves the frame loop through the
  same door as the end of the video.
- **Replay.** A retry processes the video from its first frame and writes the
  transitions of earlier attempts again.
- **Long sequences of frames.** A confirmation, a gap and a reset are counters
  that several branches change; an off-by-one shows only after some frames that
  go a certain way.
- **Limits.** Attempts, recovery batches, clamped progress, evidence images.

### What makes each component correct

- Job queue: a job is with one worker at a time, is attempted at most
  `worker_max_attempts` times, never waits with its attempts spent, and stays
  succeeded or failed once it is; the columns of a row and the video row agree.
- Worker: it answers only for the attempt it claimed; every uploaded job ends.
- Artifacts: a success has exactly the files of the attempt that succeeded; a
  deleted video has none.
- Tracker: no detection has two tracks and no track two detections; a track is
  confirmed and forgotten by the frames that showed it.
- Riders, lights, detectors: a relation, a stable colour and a violation are
  there exactly while the frames of the video say so; the start and the end of a
  violation come in a pair, under a key of their own. The wrong-way and the lane rule agree with each other.
- Red-light detector: a vehicle is charged in exactly the frame in which it
  crosses the line of a red signal, once.
- Cameras and accounts: names and emails stay unique, nobody is refused without
  cause, an update leaves alone what it is not about.
- Upload: a content is in the catalogue at most once; a registered video has its
  file, and an upload that is refused or fails leaves none.
- Events: a replay changes nothing that was complete; a success has every event
  with both transitions; reviews survive replays; image keys name files that exist.

## 2. Modules

```
JobLifecycle            abstract: phases and attempts of a job
   ^ implemented by
JobQueue   <---- JobQueueProofs                    MCJobQueue
   ^ extended by
VideoWorker <--- VideoWorkerProofs                 MCVideoWorker
   | extends
TrafficArtifacts        operators and state of the two directories

ViolationEvents <-- ViolationEventsProofs          MCViolationEvents

VideoCatalogue          abstract: which contents are held
   ^ implemented by
VideoIngestion <-- VideoIngestionProofs            MCVideoIngestion

Administration <-- AdministrationProofs            MCAdministration

TrafficPipeline <-- PipelineProofs                 MCTrafficPipeline
   | extends, the parts of the pipeline
   +- ObjectTracker ---> RoadGeometry, Assignment
   +- RiderRelations --> RiderScores --> RoadGeometry, Assignment
   +- TrafficLight
   +- RedLight --------> LaneRules ----> RoadGeometry
   +- ViolationDetector
   +- EvidenceImages

SignalProofs            of TrafficLight and RedLight
DetectorProofs          of ViolationDetector and RiderRelations
PipelineProofs          extends both
```

**JobLifecycle** says what a user is promised: a submitted job is begun at most
`MaxAttempts` times, goes back to the queue only while attempts are left, fails
only when none are, and is deleted only after its end.

**JobQueue** has one variable per column. A repository call is two steps: the
`SELECT ... FOR UPDATE` that locks rows (`SelectExpired`, `SelectQueued`,
`SelectOwned`) and the commit that writes them (`CommitRecovery`,
`CommitClaim`, `CommitProgress`, `CommitSuccess`, `CommitFailure`) or
`Rollback`. `SKIP LOCKED` is the conjunct `~Locked(j)` in `Recoverable` and
`Claimable`; waiting for a lock is the same conjunct as a guard of
`SelectOwned`. Any worker may call any operation for any job at any time.
Time appears as a lease that is none, live or expired. Columns that nothing in
the backend reads back are left out.

**TrafficArtifacts** describes a directory by who created it, who wrote files
into it, who wrote its summary and whether its detections file is closed. The
distinction between operations by path and through open handles is kept: a
handle follows a directory that is renamed.

**VideoWorker** gives each worker a place (`pc`) between any two points at which
another process could see a difference. `finish` is four places (transcode,
summary, remove, rename). An error may be raised at every place where the code
can raise one, the constructor and `abort` of the writer included, and takes the
way the code's handlers take: abort the writer, record the failure, or just log. `SuccessCommit` may take effect and still
raise. `Mortal` workers may be killed or stopped; `SlowWorkers` says whether a
lease may expire under a worker that is alive.

**ViolationEvents** follows the events of one job. The pipeline is deterministic,
so an attempt is the same sequence of transitions cut off somewhere. A frame's
transitions are persisted kind by kind, each kind in a transaction that locks
the rows it found; the unique key fails an insert that lost a race. A review is
a read and a later write of all it read.

**VideoIngestion** follows any number of uploads through `ingest`, from the
partial file to the answer. The `try` block is one place per call, `Raise` leads
from each of them to the error path, and `CutOff` is what no `except` clause
catches: a death of the server or a cancelled task. The unique index on the
checksum is in `Contended` (an INSERT waits for the open transaction of another)
and in `Refused` (a committed row, or a camera that is gone, raises
`IntegrityError`). The deletion of a video and of a camera run beside it. File,
video and job of an upload share its name, as their keys are never used twice.

**VideoCatalogue** is the same without files, transactions and indexes: an
upload is accepted only while no held video has its content.

**ViolationDetector** has one variable per field of a detector's state and any
set of keys, so that it stands for the four detectors at once: their code differs
in how a candidate that comes back after a gap is dated, which `LaneKeys` tells
apart, and in what makes an observation, which is left open. Frames are counted
as they are analysed. The histories `observed`, `started` and `ended` are not in
the code; they serve the properties. `InViolation` says what a violation is
without any counter: some run of `ConfirmationFrames` frames confirmed it, and
since then no gap was longer than `MaximumMissedFrames`.

What a frame must show so that there is an observation is in the following
modules.

**RoadGeometry** has points in polygons, distances to segments, crossings of a
stop line and overlaps of boxes. The code computes with floats; here lengths are
integers in tenths of a pixel and what is a root or a quotient there is compared
as squares and cross products here.

**LaneRules** says of a tracked vehicle which lane it is in, whether it drives
against it, and whether it has left the lanes, as `wrong_way.py` and
`lane_violation.py` decide before they count.

**RiderScores** and **Assignment** are the scores of a person on a motorcycle and
of a helmet label on a rider, and the choice of pairs. The Hungarian algorithm is
scipy's: `Assignment` says what the code relies on, a choice of as many allowed
pairs as possible at least cost, and leaves open which one.

**RiderRelations** adds the memory of `temporal_rider.py`: a relation has counters
of hits and misses, a person has one motorcycle at a time, and a relation that is
confirmed ends those it replaces.

**ObjectTracker** is the two-stage matching of `tracking/`: confident detections
first, the others with what is left, new tracks from confident detections only,
and the removal after too many misses. The Kalman filter only decides where a
track is expected; any of `Boxes` is tried for it.

**TrafficLight** begins with the shares of the colours of a region (counting
pixels is OpenCV's) and follows `update` of the stabilizer: one record per region
with the stable state, the candidate, its count, the count of unknown frames and
the smoothed confidence in percent.

**RedLight** keeps, per vehicle and stop line, the last anchor, whether it has
been charged and how long it was unseen. A crossing is a step between two
consecutive sightings that begins in the lane before the line, ends behind it, is
at least twice the tolerance deep, passes between the ends of the line and goes
fast enough in the direction of the lane; it is charged if the signal is red with
enough confidence. A vehicle whose steps are shorter than twice the tolerance is
therefore never charged. A docstring reads "Return an observation when the road
anchor crosses." (`src/backend/app/reasoning/red_light.py:427`); the checks that
follow it ask for more, and the model follows the checks.

**EvidenceImages** counts frames, preview frames and images of an attempt, with
the stride, the cooldown and the limit.

**TrafficPipeline** composes these parts in the order of `process_frame`. They
share nothing but what one gives to the next in a frame. In the composition a
video exercises one part: the variable `part` is a bound, it keeps the instance
small, and as the parts before may produce any input, nothing that a part can
meet is lost but coincidences of which no part can know. The riders are exercised
with the two detectors that observe them, the vehicles' rules with theirs. A
video may be broken off in any frame; the next one starts with the parts that
`TrafficPipelineFactory` creates for it and `start` resets.

**Administration** has a request per client: it authenticates, reads the rows it
needs, checks, and writes later, with nothing locked in between; a commit and the
refresh after it are one step, as nothing is decided between them. Unique names
and emails are checked by the code and again by the table. SQLAlchemy writes only
the columns that were changed, so an update leaves the others to whoever changed
them meanwhile; the scene and the rest of the configuration are one column and
overwrite each other. A delete that comes second is no error. The scripts that
create administrators ask for no token; the frontend server may read cameras with
a secret of its own, but not create accounts.

## 3. What the runs check

| Run | Question | Bounds |
|---|---|---|
| `job_queue` | Is the table safe against any caller, and does it implement the lifecycle? | 2 jobs of different priority, 3 workers, 3 attempts, batch of 2 |
| `video_worker` | Are files right as long as leases are not overrun? | 1 job, 2 workers (1 mortal), 2 frames, 3 attempts, 2 failed commits |
| `video_worker_slow` | What still holds when they are? | the same with 2 attempts, 1 failed commit, a frame count that is too small |
| `violation_events` | Are replays harmless, overlapping ones included? | 4 violations of 4 kinds, 3 frames, 3 attempts |
| `violation_review` | Do reviews survive replays, and do images follow the directory across stopped attempts? | 1 violation, 3 attempts in turn, 3 frames, images at frames 1 and 2, 2 reviewers |
| `video_ingestion` | Is a content registered once and with its file, and does every upload end? | 3 uploads of one content, 1 of them for the camera, 1 that may be cut off, each video deleted at most once |
| `traffic_pipeline` | Does each stateful part decide what the frames say, in any video? | 1 vehicle, 1 stop line, 1 light, 2 motorcycles, 2 persons, 4 keys (one of the lane detector); per video 6 frames of lights, 5 of riders, 4 of the tracker with 4 ids, 8 of the detectors, 11 of the output with a stride of 2 |
| `administration` | Are overlapping requests consistent? | 3 requests of 13 kinds about one camera that may exist, two names, one new account |

Why the bounds are enough to meet the interesting cases: two jobs are what a
batch and a priority order need; three workers are an owner, a recoverer and a
latecomer; three attempts contain a first, a middle and a last one; two frames
give a state before, between and after reports; the four violations end in the
video, at its last frame by flushing, as a lane violation, and never; of three
uploads one can win, one wait and be refused, and one take the place of a deleted video; eight frames have room for a
confirmation, a gap within the limit, one beyond it, and a second violation. Six
frames of a light confirm one colour and replace it by another across a dark
frame; five frames of riders confirm a relation, miss it and move the rider to
the other motorcycle; four frames of the tracker confirm a track, lose it and
begin another. Confirmations are 2 and gaps 1 instead of the defaults, which
keeps the instance small; the gap of riders is 2, because with a gap shorter than
a confirmation, as the defaults 3 and 2 are, an older relation has always ended
by itself when a new one is confirmed, and the branch that removes it would never
matter. Three requests are one that reads
early, one that changes what was read, and one that meets the result; which
cameras may exist at the start is bounded by `Existing`.

Symmetry is used for the requests of `administration`, which differ in nothing
and of which no liveness is checked, and nowhere else.

`traffic_pipeline` checks for deadlock: a worker can always go on with the next
frame or the next video. The other systems really stop (jobs are deleted, workers
quit, attempts are used up, requests are answered), so that their configurations
say `CHECK_DEADLOCK FALSE`.

**Fairness** (`FairWorkerSpec`) is weak fairness of each worker's next step, a
process that is not killed keeps being scheduled, and of the expiry of each
lease, time passes. No fairness is assumed of any outcome: a worker may raise
in every attempt, and then the job ends as failed. Weak fairness suffices as a
worker that waits for a row lock waits for a transaction, and each ends by
commit, failure or the death of its connection. Failed commits are bounded by
`MaxFaults`: a database that never commits would stop everything.

`FairIngestionSpec` assumes that an upload that has begun makes its next call,
and that a deletion ends its transaction by commit or rollback. The INSERT has
strong fairness: other transactions may block it again and again, and PostgreSQL
serves those that wait for a key in turn. No upload is assumed to raise.

### Where the code departs from its comments

Four runs with `expect: violation` each check one statement taken from a
docstring, a comment, a page or the release notes, and find that the code does
something else. `findings` in `PROJECT.json` quotes the lines.

| Run | What happens |
|---|---|
| `stale_publication` | an attempt whose transcoding outlived its lease removes its successor's artifacts |
| `stopped_video` | a worker stopped in the middle marks the job as succeeded |
| `lane_replay` | a retry reopens an ended lane violation |
| `review_race` | a review overwrites the end of a violation |

An upload whose camera was deleted meanwhile is refused as a duplicate
(`services/video_ingestion.py:152` takes every `IntegrityError` for one); the
catalogue allows for it, as no text promises a better answer.

The passing properties state their limits for the same reasons. The properties
of the directories are checked with `SlowWorkers = FALSE`, because an attempt
that overran its lease may also rename its directory between the two removals of
a deletion. `ImagesFollow` excepts an attempt that stored no image, because
`attach_images_to_job_events` returns early then. `ReviewAgrees` excepts
a review that was overtaken by another since it read the event: an `UPDATE`
leaves out a status that equals the one read, so that two reviews that overlap
can leave the status of one and the record of the other, until the next review
brings them together. And a published directory is absent between the removal
and the rename in `finish` of a retry: a reader may find none as long as the job
is running, and no text says that it finds one (`SucceededIntact` is about jobs
that succeeded). `RegisteredHasFile` excepts an upload that
was answered with an error although it is registered: when the refresh after the
commit fails, the error path removes the file of a video that stays in the
catalogue.

Three hazards have no property. The removal of files after a committed deletion
(`services/video.py:82`) has no retry: if the API process dies in between, the
files stay, and no later step exists that a property could be about. The refresh
of `services/video_ingestion.py:139` is the exception of `RegisteredHasFile`
above. The division by a speed of 0 in `reasoning/wrong_way.py:477` needs a
setting that the model leaves out (section 5).

## 4. What is proved

TLAPS checks eight proof modules, for all values of the constants that satisfy
the assumptions named in the modules (`QueueAssumption`, `WorkerAssumption`,
`IngestionAssumption`, `EventsAssumption`, `DetectorAssumption`,
`RidersAssumption`, `RulesAssumption`, `LightAssumption`, `RedLightAssumption`,
`TrackerAssumption`, `EvidenceAssumption`, `GeometryAssumption`,
`AdministrationAssumption`). They say what the code validates (the thresholds of
the detectors), what the tables keep unique (ids of lanes, tracks and labels in a
frame) and that lengths are whole numbers of the unit of the model; TLC evaluates
each in a run. A theorem that holds only in part of the instances says so in its
`ASSUME`. Type correctness is proved, not run. Every safety property that a run
checks is a theorem.

**The table.** The inductive invariant is `QueueInv`. `RowsCoherent` and
`VideoFollowsJob` are not inductive alone: a commit writes what an earlier step
selected, so the proof needs to know that the selection still holds when the
commit comes. That is `SelectionStillHolds`, which in turn needs the
exclusion of the database's row locks (`LocksExclusive`, part of `QueueInv`), and for the deletion
`DeleteCheckStillHolds`. The proof has one lemma per operation; the columns a
commit leaves alone are handled once, in `OthersUndisturbed`. The two action
properties and the refinement of `JobLifecycle` follow from `QueueInv`, case by
case: a commit concerns only the rows it holds (`CommitIsLocal`), and each such
row makes the lifecycle's move.

**The fleet.** Every step of a worker is a step of `JobQueue` or leaves its
variables alone (`FleetRefinesQueue`), which carries all theorems of the table
over to the fleet. `AnswersAreForOwnAttempt` needs its own invariant
`FleetInv`: a worker that owns a running job has claimed it in the attempt it
remembers, since only its own claim can make it the owner and it makes none
while it is busy.

The directories are proved for workers that keep their leases (`~SlowWorkers`).
`DirectoryInv` adds to `FleetInv` that a busy worker still owns its job
(`KeepsLease`), what the two directories of a job contain at each place of the
worker who has it (`FilesFit`), and what a deletion has left to remove
(`CleaningFits`). `WritesItsOwnDirectory`, `SucceededIntact` and
`DeletedLeavesNothing` are read off it.

**The events.** `AttemptInv` says what is due at each place of an attempt and
what its transaction may write. The core is `Replayed`: an attempt that stands at
a frame knows that all earlier transitions are on record, whoever wrote them, as
a merge never removes an entry (`RecordFacts`). Hence an end is never recorded
before its start (`HistoryInOrder`), for any number of attempts that overlap in
any way and any reviewers: what a reviewer writes back is an earlier state of the
same history, in the same order (`OrderInv`). `AttemptsNeverReopen` is what
remains true of ended events beside reviewers: only what a reviewer had read
before can reopen one. That nothing reopens one (`EndedEventsStay`), and that a
success is complete (`SuccessesComplete`), is proved for `Reviewers = {}`; the
run `review_race` shows why. `SuccessesComplete` also needs that the job is not
stopped or that its attempts follow each other. Otherwise an attempt that overran
its lease and is stopped after its first frame flushes its detectors, and writes
the early end of a violation over the end that its successor has recorded, which
then succeeds: TLC finds that behaviour when `Stoppable` and `Overlap` are both
true.
`ReviewAgrees` is proved for any number of reviewers. As long as there is one, the
status is the review on record at all times (`LoneReviewAgrees`), because what he
has read is then still on record when he writes. `ImagesFollow` is proved for
attempts that follow each other, with the lemma that the nearest image is one of the
images (`NearestIsOne`).

**The uploads.** The invariant is `IngestionInv`. Neither `RegisteredHasFile` nor
`NoFileLeft` is inductive: both need to know what has become of an upload at each
place (`OutcomeByPlace`) and where its file is then (`FileByPlace`). The
refinement of the catalogue turns on `CommitsAlone`: an upload that has inserted
its row is the only one of its content that is about to commit, and none of the
content is registered, because the INSERT waits for the others. A commit is then
an `Accept` of the catalogue, the commit of a deletion a `Discard`, and what
happens to files is a stutter.

**Detectors and riders.** The core of `DetectorInv` is `CountersCount`, which says
which of the last frames the counters stand for. An update then decides rightly:
`RunNow` shows that the new frame ends a confirming run exactly if the count says
so, `LostNow` that it completes a gap exactly if the state is dropped, and
`PastStays` that it changes nothing that was true of earlier frames; together
they give `ConfirmedInViolation`. The pairing of events follows from
`OpenAreConfirmed` and from the fact that no event is later than the last frame.
`RiderInv` goes the same way, with the person's other relations beside.

`LabelsAreStable` is about the greedy choice of helmet labels: candidates are
sorted by score and taken unless one of the two is taken already. The order is
total because the boxes and the numbers of persons and labels are; ranking it
gives a bijection with `1..n` (`RanksAreAll`), so that the recursion that walks
down the ranks has a solution (`RecursionExists`), and by induction along it each
candidate met so far is taken or collides with a better one
(`GreedyIsStable`). An induction over numbers is done by the least
counterexample (`LeastNumber`, `UpTo`), without the induction theorems of the
library.

**Lights and crossings.** `LightInv` says what the counters of a region count and
that no count reaches its limit without effect; `StableAsShown` follows.
`RedLightInv` (its parts `StatesAgree` and `OthersOutside`) ties what the detector
remembers of a vehicle to the frames in which it was seen; `CaughtExactly` then
holds whatever a crossing is: the geometry plays no part in the proof.

`RulesAlwaysAgree` is geometry. The red-light detector compares the velocity with
the direction of the lane stretched as the image is, the wrong-way detector with
the direction as it is configured. Stretching turns a direction by an angle whose
sine is at most `|w - h| / (w + h)`; if that sine is below the threshold of the
wrong-way detector (`ImageNearlySquare`), no velocity is forward for the one and
against the lane for the other (`NeverBoth`, by the inequality of Cauchy and
Schwarz in `Plane`). At the default threshold of one half, images may be up to
three times wider than high, or higher than wide; at 16:9 the sine is 0.28.

`LaneKeepersAreSpared` says that the tolerance of the lane detector is kept: a
vehicle that has left the lanes is nowhere near a pixel of a lane. Suppose it
were. Between the pixel, which is inside the polygon, and the vehicle, which is
not, lies an edge: along a polygon two points differ in parity only if their
connection meets an edge (`EdgeParity` for one edge, `InsideAlike` for all of
them). Where it is met, the edge is no farther from the vehicle than the pixel
is, so that the distance to the segment is within the tolerance (`MeetIsNear`,
with the triangle inequality). A vehicle beyond the image is moved to its border,
which brings it only nearer to the pixels (`ClampIsNearer`). The code asks the
exact polygon whether a vehicle is inside, but measures the distance to borders
whose corners are rounded to pixels. The theorem therefore assumes that the
corners of the lanes are pixels (`CornersOnPixels`), as they are in the run. For
other lanes `LaneKeepersNearlySpared` proves the same of the tolerance less one
pixel. The hypothesis cannot be dropped: in an image of 12 by 22 pixels, a lane
with the corners (0.4, 0.2), (0, 0), (0.1, 0.8) and (1, 0.8), a tolerance of two
pixels and a vehicle at (10.5, 11.7), the vehicle has left the lanes although the
pixel (9, 13) of the lane is less than two pixels away. Both theorems are about images of
more than one pixel in each direction.

**The pipeline.** `PipelineComposed`: every behaviour of the pipeline is, for each
part, a behaviour of that part alone, where the other parts' steps stutter. So
what is proved of the parts holds in the pipeline (`PipelineDecidesRightly`,
`PipelineRulesAgree`, `PipelineSparesLaneKeepers`). The lemmas about polygons are
in `PipelineProofs`, which has both the plane and the induction at hand. The tracker (`TrackerInv`) and
the output (`EvidenceInv`) are proved there, as parts of the pipeline.

**Administration.** `AdminInv` gives `RequestsKeepTables` (types, unique names and
emails) and `RefusedWithCause`; `OthersKept` is a property of single steps.

Only model-checked: `EveryJobEnds` and `EveryUploadEnds`. They are liveness under
fairness, which is out of the prover's reach.

## 5. What is left out

- The content of files, frames and metrics; the wall clock beyond lease expiry;
  read-only queries; a directory of which an `rmtree` that raised has removed a
  part: it counts as removed or as untouched.
- Errors of the cleanup of an upload: `rollback`, the removal of the stored file
  and the closing of the upload do not raise in the model, so that `NoFileLeft`
  is about cleanups that succeed.
- A minimum speed of 0 for the wrong-way detector, which its constructor allows
  and with which a vehicle at rest divides by zero (`SpeedAssumption`).
- The order in which a full recovery batch picks the oldest leases: any order.
- The Kalman filter, the Hungarian algorithm and the counting of coloured pixels:
  numerical libraries, replaced by what they may answer.
- Smoothed scores, peaks and the confidences of events: they are reported and
  decide nothing. (The confidence of a light does, and is modelled.)
- What makes a scene valid. `Scene` of `LaneRules` is a scene that validation
  lets pass.
- Neural networks, annotation, the frontend, the deployment, and routes that
  only translate a request into a modelled call.

## 6. Plan

Done: every component of the table above, the composition of the pipeline, the
abstract specifications of jobs and of the catalogue, and the proofs of section 4.

Left, in this order:

1. The scene's validation, so that the assumptions on `Scene` are derived.
2. A composition of `TrafficPipeline` with `ViolationEvents`: that what the
   detectors emit is what the events assume (one start, one later end per key) is
   stated on both sides, by `TransitionsPaired` and `EventsAssumption`, and not
   yet as a refinement.
3. Lemmas about the overlap of boxes and the assignments, independent of the
   modules that use them.
