---------------------------- MODULE ViolationEvents ---------------------------
(***************************************************************************)
(* The violation events of one job: what the attempts of the job write     *)
(* through ViolationEventLifecycleService while they replay the same       *)
(* video, and what reviewers write at the same time.                       *)
(*                                                                         *)
(* The pipeline is deterministic: every attempt that decodes frame f       *)
(* emits the same transitions there, so a violation is known by its event  *)
(* key and v ranges over keys.  A violation starts at StartFrame[v]; it    *)
(* ends at EndFrame[v], or is flushed at the last decoded frame when that  *)
(* comes first; a red-light violation never ends.                          *)
(*                                                                         *)
(* An attempt persists the transitions of a frame in one transaction per   *)
(* kind, in a fixed order: the existing rows are read FOR UPDATE, merged   *)
(* and committed.  A review reads the row without a lock and writes the    *)
(* whole metadata back.  A row that does not exist has status "none".      *)
(***************************************************************************)
EXTENDS Integers, Sequences, FiniteSets

CONSTANTS Violations,    \* event keys of the job
          Kind,          \* violation_type of each
          StartFrame,    \* frame of its STARTED transition
          EndFrame,      \* frame of its ENDED transition
          VideoFrames,   \* frames of the video
          EvidenceAt,    \* frames at which an evidence image is stored
          MaxAttempts,   \* attempts of the job
          Reviewers,     \* requests that may review an event at the same time
          Overlap,       \* may an attempt outlive its lease?
          Stoppable      \* may a worker be asked to stop?

Kinds == {"triple_riding", "no_helmet", "wrong_way", "lane_violation", "red_light"}

\* The order in which _persist_violation_transitions writes them.
Turn == [triple_riding |-> 1, no_helmet |-> 2, wrong_way |-> 3, lane_violation |-> 4, red_light |-> 5]

ASSUME EventsAssumption ==
    /\ VideoFrames \in Nat \ {0}
    /\ MaxAttempts \in Nat \ {0}
    /\ Kind \in [Violations -> Kinds]
    /\ StartFrame \in [Violations -> 1..VideoFrames]
    /\ EndFrame \in [Violations -> Nat]
    /\ \A v \in Violations : StartFrame[v] < EndFrame[v]
    /\ EvidenceAt \subseteq 1..VideoFrames
    /\ Overlap \in BOOLEAN
    /\ Stoppable \in BOOLEAN

Attempts == 1..MaxAttempts

VARIABLES meta,       \* event_metadata of each event
          verdict,    \* its review_status
          image,      \* the frame of its evidence image, 0 for none
          stored,     \* frames whose evidence image is in the published directory
          at,         \* where each attempt stands
          frame,      \* frames it has decoded
          due,        \* transitions of the frame that are not written yet
          flushed,    \* the last transitions were those of pipeline.finish
          rows,       \* event rows its transaction has locked
          missing,    \* events its transaction found no row for
          reading     \* what each review has read

eventVars   == <<meta, verdict, image, stored>>
attemptVars == <<at, frame, due, flushed, rows, missing>>
allVars     == <<eventVars, attemptVars, reading>>

-------------------------------------------------------------------------------

TransitionTypes == {"started", "ended"}
Verdicts        == {"confirmed", "rejected"}
Places          == {"waiting", "decoding", "persisting", "saving", "publishing", "attaching",
                    "finished", "done", "failed"}

Metadata == [status  : {"none", "active", "started", "ended"},
             history : Seq(TransitionTypes \X (1..VideoFrames)),
             end     : 0..VideoFrames,
             review  : {"none"} \cup Verdicts]

NoEvent   == [status |-> "none", history |-> <<>>, end |-> 0, review |-> "none"]
NoReading == [of |-> {}, meta |-> NoEvent, verdict |-> "pending"]

EventsTypeOK ==
    /\ meta \in [Violations -> Metadata]
    /\ verdict \in [Violations -> {"pending"} \cup Verdicts]
    /\ image \in [Violations -> 0..VideoFrames]
    /\ stored \subseteq 1..VideoFrames
    /\ at \in [Attempts -> Places]
    /\ frame \in [Attempts -> 0..VideoFrames]
    /\ due \in [Attempts -> SUBSET (Violations \X TransitionTypes)]
    /\ flushed \in [Attempts -> BOOLEAN]
    /\ rows \in [Attempts -> SUBSET Violations]
    /\ missing \in [Attempts -> SUBSET Violations]
    /\ reading \in [Reviewers -> [of : SUBSET Violations, meta : Metadata, verdict : {"pending"} \cup Verdicts]]

EventsInit == /\ meta = [v \in Violations |-> NoEvent]
              /\ verdict = [v \in Violations |-> "pending"]
              /\ image = [v \in Violations |-> 0]
              /\ stored = {}
              /\ at = [a \in Attempts |-> "waiting"]
              /\ frame = [a \in Attempts |-> 0]
              /\ due = [a \in Attempts |-> {}]
              /\ flushed = [a \in Attempts |-> FALSE]
              /\ rows = [a \in Attempts |-> {}]
              /\ missing = [a \in Attempts |-> {}]
              /\ reading = [r \in Reviewers |-> NoReading]

Exists(v) == meta[v].status # "none"
Locked(v) == \E a \in Attempts : v \in rows[a]

-------------------------------------------------------------------------------
(* What the detectors emit *)

Ends(v) == Kind[v] # "red_light"

Emitted(f) == {<<v, "started">> : v \in {w \in Violations : StartFrame[w] = f}}
              \cup {<<v, "ended">> : v \in {w \in Violations : Ends(w) /\ EndFrame[w] = f}}

\* Mutant: one detector is not flushed.
FlushedButOne(f) == {<<v, "ended">> : v \in {w \in Violations : /\ Ends(w) /\ Kind[w] # "wrong_way"
                                                              /\ StartFrame[w] <= f /\ f < EndFrame[w]}}

\* pipeline.finish ends what is active after frame f.
Flushed(f) == {<<v, "ended">> : v \in {w \in Violations : Ends(w) /\ StartFrame[w] <= f /\ f < EndFrame[w]}}

-------------------------------------------------------------------------------
(* How a transition is merged into the metadata of its event *)

\* Mutant: a replayed STARTED reopens its event.
StatusReopened(status, kind, type) ==
    IF type = "ended" THEN "ended" ELSE IF kind = "red_light" THEN "started" ELSE "active"

\* A STARTED that is replayed does not reopen an ended event, except one of a
\* lane violation.
StatusAfter(status, kind, type) ==
    IF type = "ended" THEN "ended"
    ELSE IF kind = "red_light" THEN "started"
    ELSE IF kind # "lane_violation" /\ status = "ended" THEN "ended"
    ELSE "active"

Recorded(history, entry) == \E i \in 1..Len(history) : history[i] = entry

\* Mutant: a replay is recorded again.
RecordAgain(history, entry) == Append(history, entry)

Record(history, entry) == IF Recorded(history, entry) THEN history ELSE Append(history, entry)

\* Mutant: the metadata is built anew.
MergeAnew(m, kind, type, f) == [status  |-> StatusAfter(m.status, kind, type),
                                history |-> Record(m.history, <<type, f>>),
                                end     |-> IF type = "ended" THEN f ELSE m.end,
                                review  |-> "none"]

Merge(m, kind, type, f) == [status  |-> StatusAfter(m.status, kind, type),
                            history |-> Record(m.history, <<type, f>>),
                            end     |-> IF type = "ended" THEN f ELSE m.end,
                            review  |-> m.review]

-------------------------------------------------------------------------------
(* An attempt *)

Move(a, place) == at' = [at EXCEPT ![a] = place]

\* The next attempt starts when the one before has failed, or has lost its
\* lease without noticing.
Begin(a) == /\ at[a] = "waiting"
            /\ a > 1 => at[a - 1] = "failed" \/ (Overlap /\ at[a - 1] \notin {"waiting", "done"})
            /\ Move(a, "decoding")
            /\ UNCHANGED <<eventVars, frame, due, flushed, rows, missing, reading>>

Analyse(a) == /\ at[a] = "decoding"
              /\ frame[a] < VideoFrames
              /\ frame' = [frame EXCEPT ![a] = @ + 1]
              /\ due' = [due EXCEPT ![a] = Emitted(frame[a] + 1)]
              /\ Move(a, IF Emitted(frame[a] + 1) = {} THEN "decoding" ELSE "persisting")
              /\ UNCHANGED <<eventVars, flushed, rows, missing, reading>>

\* The video is over, or a stop was requested: the detectors are flushed.
Finish(a) == /\ at[a] = "decoding"
             /\ frame[a] = VideoFrames \/ (Stoppable /\ frame[a] > 0)
             /\ due' = [due EXCEPT ![a] = Flushed(frame[a])]
             /\ flushed' = [flushed EXCEPT ![a] = TRUE]
             /\ Move(a, IF Flushed(frame[a]) = {} THEN "publishing" ELSE "persisting")
             /\ UNCHANGED <<eventVars, frame, rows, missing, reading>>

\* The violations of the kind whose turn it is.
Batch(a) == {v \in Violations :
                /\ \E t \in TransitionTypes : <<v, t>> \in due[a]
                /\ \A d \in due[a] : Turn[Kind[v]] <= Turn[Kind[d[1]]]}

\* get_by_event_key(for_update=True) for each transition of the batch.  The
\* rows are taken one by one, in the same order by every attempt that replays
\* the frame; taking them at once loses no outcome but a deadlock that the
\* database would resolve by an error, which Fail covers.
SelectEvents(a) ==
    LET found == {v \in Batch(a) : Exists(v)}
    IN  /\ at[a] = "persisting"
        /\ \A v \in found : ~Locked(v)
        /\ rows' = [rows EXCEPT ![a] = found]
        /\ missing' = [missing EXCEPT ![a] = Batch(a) \ found]
        /\ Move(a, "saving")
        /\ UNCHANGED <<eventVars, frame, due, flushed, reading>>

\* event_key is unique: the INSERT of a row that another attempt created in
\* the meantime fails, and the attempt with it.
Clash(a) == \E v \in missing[a] : Exists(v)

Written(a) == rows[a] \cup missing[a]

\* The rows are locked since they were read: their metadata are still those that
\* SelectEvents found.
TypeDue(a, v) == IF <<v, "started">> \in due[a] THEN "started" ELSE "ended"

CommitEvents(a) ==
    LET left == {d \in due[a] : d[1] \notin Written(a)}
    IN  /\ at[a] = "saving"
        /\ ~Clash(a)
        /\ meta' = [v \in Violations |-> IF v \in Written(a)
                                         THEN Merge(meta[v], Kind[v], TypeDue(a, v), frame[a])
                                         ELSE meta[v]]
        /\ due' = [due EXCEPT ![a] = left]
        /\ rows' = [rows EXCEPT ![a] = {}]
        /\ missing' = [missing EXCEPT ![a] = {}]
        /\ Move(a, IF left # {} THEN "persisting" ELSE IF flushed[a] THEN "publishing" ELSE "decoding")
        /\ UNCHANGED <<verdict, image, stored, frame, flushed, reading>>

EvidenceOf(a) == {f \in EvidenceAt : f <= frame[a]}

\* The artifact directory of the attempt replaces the one published before.
Publish(a) == /\ at[a] = "publishing"
              /\ stored' = EvidenceOf(a)
              /\ Move(a, "attaching")
              /\ UNCHANGED <<meta, verdict, image, frame, due, flushed, rows, missing, reading>>

Distance(f, g) == IF f < g THEN g - f ELSE f - g

Nearest(f, frames) == CHOOSE g \in frames : /\ \A h \in frames : Distance(f, g) <= Distance(f, h)
                                            /\ \A h \in frames : Distance(f, g) = Distance(f, h) => g <= h

\* Mutant: an event that has an image keeps it.
AttachOnce(a) == /\ at[a] = "attaching"
                 /\ \A v \in Violations : ~Locked(v)
                 /\ image' = IF EvidenceOf(a) = {} THEN image
                             ELSE [v \in Violations |-> IF Exists(v) /\ image[v] = 0
                                                        THEN Nearest(StartFrame[v], EvidenceOf(a))
                                                        ELSE image[v]]
                 /\ Move(a, "finished")
                 /\ UNCHANGED <<meta, verdict, stored, frame, due, flushed, rows, missing, reading>>

\* attach_images_to_job_events: every event of the job gets the nearest image;
\* without images nothing is touched.  (The preview key is the same in every
\* attempt.)
Attach(a) == /\ at[a] = "attaching"
             /\ \A v \in Violations : ~Locked(v)
             /\ image' = IF EvidenceOf(a) = {} THEN image
                         ELSE [v \in Violations |-> IF Exists(v) THEN Nearest(StartFrame[v], EvidenceOf(a))
                                                    ELSE image[v]]
             /\ Move(a, "finished")
             /\ UNCHANGED <<meta, verdict, stored, frame, due, flushed, rows, missing, reading>>

\* mark_succeeded by the owner of the job.
Succeed(a) == /\ at[a] = "finished"
              /\ \A b \in Attempts : b > a => at[b] = "waiting"
              /\ Move(a, "done")
              /\ UNCHANGED <<eventVars, frame, due, flushed, rows, missing, reading>>

\* The worker dies, an operation raises, the unique key clashes or the lease
\* turns out to be lost; the open transaction is rolled back.
Fail(a) == /\ at[a] \notin {"waiting", "done", "failed"}
           /\ Move(a, "failed")
           /\ due' = [due EXCEPT ![a] = {}]
           /\ rows' = [rows EXCEPT ![a] = {}]
           /\ missing' = [missing EXCEPT ![a] = {}]
           /\ UNCHANGED <<eventVars, frame, flushed, reading>>

-------------------------------------------------------------------------------
(* A review *)

ReadEvent(r, v) == /\ reading[r].of = {}
                   /\ Exists(v)
                   /\ reading' = [reading EXCEPT ![r] = [of |-> {v}, meta |-> meta[v], verdict |-> verdict[v]]]
                   /\ UNCHANGED <<eventVars, attemptVars>>

\* Mutant: only the first review sets the status.
WriteFirstReview(r, v, decision) ==
    /\ v \in reading[r].of
    /\ ~Locked(v)
    /\ meta' = [meta EXCEPT ![v] = [reading[r].meta EXCEPT !.review = decision]]
    /\ verdict' = IF reading[r].verdict = "pending" THEN [verdict EXCEPT ![v] = decision] ELSE verdict
    /\ reading' = [reading EXCEPT ![r] = NoReading]
    /\ UNCHANGED <<image, stored, attemptVars>>

\* UPDATE sets the columns whose value differs from the one read: the metadata
\* always (the time of the review is new), the status when it does.
WriteReview(r, v, decision) ==
    /\ v \in reading[r].of
    /\ ~Locked(v)
    /\ meta' = [meta EXCEPT ![v] = [reading[r].meta EXCEPT !.review = decision]]
    /\ verdict' = IF decision = reading[r].verdict THEN verdict ELSE [verdict EXCEPT ![v] = decision]
    /\ reading' = [reading EXCEPT ![r] = NoReading]
    /\ UNCHANGED <<image, stored, attemptVars>>

-------------------------------------------------------------------------------

Attempt(a) == \/ Begin(a) \/ Analyse(a) \/ Finish(a) \/ SelectEvents(a) \/ CommitEvents(a)
              \/ Publish(a) \/ Attach(a) \/ Succeed(a) \/ Fail(a)

Review(r) == \E v \in Violations :
                ReadEvent(r, v) \/ (\E decision \in Verdicts : WriteReview(r, v, decision))

EventsNext == (\E a \in Attempts : Attempt(a)) \/ (\E r \in Reviewers : Review(r))

EventsSpec == EventsInit /\ [][EventsNext]_allVars

-------------------------------------------------------------------------------
(* What the attempts guarantee when nobody reviews meanwhile *)

LastFrame(v) == IF EndFrame[v] <= VideoFrames THEN EndFrame[v] ELSE VideoFrames

\* Once an attempt that decoded the whole video has succeeded, every violation
\* has its one event with both transitions, whatever earlier attempts had
\* written and whatever attempts that lost the job still write.
SucceededComplete ==
    \A a \in Attempts : at[a] = "done" /\ frame[a] = VideoFrames =>
        \A v \in Violations :
            /\ Recorded(meta[v].history, <<"started", StartFrame[v]>>)
            /\ Ends(v) => /\ Recorded(meta[v].history, <<"ended", LastFrame(v)>>)
                          /\ meta[v].end = LastFrame(v)

\* A replay never records a transition twice, nor an end before its start.
HistoryInOrder ==
    \A v \in Violations : Exists(v) =>
        /\ meta[v].history[1] = <<"started", StartFrame[v]>>
        /\ \A i, k \in 1..Len(meta[v].history) : i # k => meta[v].history[i] # meta[v].history[k]
        /\ meta[v].status = "ended" => \E i \in 2..Len(meta[v].history) : meta[v].history[i][1] = "ended"

\* "A completed event should not be reopened when the same job is replayed
\* after a worker retry.", for the three kinds whose merge checks it.
EndedStaysEnded ==
    [][\A v \in Violations : Kind[v] # "lane_violation" /\ meta[v].status = "ended"
                             => meta'[v].status = "ended"]_allVars

\* The same for every kind.
NeverReopened ==
    [][\A v \in Violations : meta[v].status = "ended" => meta'[v].status = "ended"]_allVars

\* "Attach the nearest evidence image to each violation.": if the attempt that
\* succeeded stored images, those of the events of the job are among them,
\* although every attempt publishes anew, stops somewhere else and finds the
\* events of the attempts before.  (One that stored none attaches none, and the
\* events keep images that are gone.)
ImagesFollow ==
    (\E a \in Attempts : at[a] = "done") /\ stored # {}
        => \A v \in Violations : image[v] # 0 => image[v] \in stored

-------------------------------------------------------------------------------
(* Reviews *)

\* A review is never lost to the replay of the job: only another review
\* changes it, and the status column with it.
ReviewKept ==
    [][(\E a \in Attempts : Attempt(a))
        => \A v \in Violations : meta'[v].review = meta[v].review /\ verdict'[v] = verdict[v]]_allVars

\* The status that filters and lists see is the one of the review on record.
Agreed(v) == verdict[v] = IF meta[v].review = "none" THEN "pending" ELSE meta[v].review

\* Another review has changed the status since r read it.
Overtaken(r, v) == v \in reading[r].of /\ reading[r].verdict # verdict[v]

\* "Confirm or reject a detected violation.": only a review that was overtaken
\* can leave the status of one decision and the record of another.  Whatever the
\* attempts replay meanwhile, and however many review, any other review leaves
\* the two in agreement, even when an overtaken one had parted them.
ReviewAgrees ==
    [][\A v \in Violations :
        \/ Agreed(v)'
        \/ verdict'[v] = verdict[v] /\ meta'[v].review = meta[v].review
        \/ \E r \in Reviewers : Overtaken(r, v) /\ reading'[r].of = {}]_allVars

===============================================================================
