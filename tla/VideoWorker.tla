----------------------------- MODULE VideoWorker ------------------------------
(***************************************************************************)
(* The fleet of video workers: run_forever and everything it calls, in     *)
(* backend/app/workers/video_worker.py, over the job table (JobQueue) and  *)
(* the artifact directories (TrafficArtifacts).                            *)
(*                                                                         *)
(* pc[w] says where worker w stands.  A worker is sequential; a step is    *)
(* what it does between two points at which another process can be seen:   *)
(* a transaction opens, commits or fails, a directory changes.  Persisting *)
(* violation events is one of the ways a frame can raise here; the events  *)
(* are the subject of another module.                                      *)
(***************************************************************************)
EXTENDS JobQueue, TrafficArtifacts

CONSTANTS NoJob,
          VideoFrames,    \* frames the capture yields for the stored video
          ExpectedFrames, \* video.frame_count, 0 when unknown
          ReportEvery,    \* settings.worker_progress_interval_frames
          Mortal,         \* workers that may be killed or asked to stop
          SlowWorkers,    \* may a live worker overrun its lease?
          MaxFaults       \* bound on failed commits in a behaviour

Percent(f) == IF ExpectedFrames = 0 THEN 0
              ELSE IF f >= ExpectedFrames THEN 99 ELSE (100 * f) \div ExpectedFrames

ASSUME WorkerAssumption ==
    /\ NoJob \notin Jobs
    /\ NoDir \notin Directories(1..MaxAttempts)
    /\ VideoFrames \in Nat
    /\ ExpectedFrames \in Nat
    /\ ReportEvery \in Nat \ {0}
    /\ Mortal \subseteq Workers
    /\ SlowWorkers \in BOOLEAN
    /\ MaxFaults \in Nat
    /\ \A f \in 1..VideoFrames : Percent(f) \in Percents

VARIABLES pc,          \* where each worker stands
          cur,         \* the job it is processing
          run,         \* the attempt it claimed
          frame,       \* processed_frames
          published,   \* artifact_writer.finished
          stop,        \* stop_event.is_set()
          decoded,     \* decoded[j]: processed_frames in the metrics of a success
          cleaning,    \* what a delete request still has to remove of the files
          faults       \* failed commits so far

localVars  == <<pc, cur, run, frame, published, stop>>
workerVars == <<queueVars, artifactVars, localVars, decoded, cleaning, faults>>

Idling == {"recover", "recovering", "claim", "claiming", "waiting"}

\* Processing a job, from the claim to the outcome.
Busy == {"loading", "opening", "decoding", "reporting", "progressing", "transcoding",
         "summarizing", "clearing", "publishing", "attaching", "succeeding", "committing",
         "rejecting", "aborting", "leaving", "failing", "recording"}

Gone == {"stopped", "dead"}

WorkerTypeOK == /\ TypeOK
                /\ ArtifactsTypeOK(Jobs, 1..MaxAttempts)
                /\ pc \in [Workers -> Idling \cup Busy \cup Gone]
                /\ cur \in [Workers -> Jobs \cup {NoJob}]
                /\ run \in [Workers -> 0..MaxAttempts]
                /\ frame \in [Workers -> 0..VideoFrames]
                /\ published \in [Workers -> BOOLEAN]
                /\ stop \in [Workers -> BOOLEAN]
                /\ decoded \in [Jobs -> 0..VideoFrames]
                /\ cleaning \in [Jobs -> {"nothing", "both", "partial"}]
                /\ faults \in 0..MaxFaults

WorkerInit == /\ Init
              /\ ArtifactsInit(Jobs)
              /\ pc = [w \in Workers |-> "recover"]
              /\ cur = [w \in Workers |-> NoJob]
              /\ run = [w \in Workers |-> 0]
              /\ frame = [w \in Workers |-> 0]
              /\ published = [w \in Workers |-> FALSE]
              /\ stop = [w \in Workers |-> FALSE]
              /\ decoded = [j \in Jobs |-> 0]
              /\ cleaning = [j \in Jobs |-> "nothing"]
              /\ faults = 0

-------------------------------------------------------------------------------
(* Moving a worker *)

GoTo(w, place) == /\ pc' = [pc EXCEPT ![w] = place]
                  /\ UNCHANGED <<cur, run, frame, published, stop>>

\* The worker starts on attempt r of job j.
Take(w, j, r) == /\ pc' = [pc EXCEPT ![w] = "loading"]
                 /\ cur' = [cur EXCEPT ![w] = j]
                 /\ run' = [run EXCEPT ![w] = r]
                 /\ UNCHANGED <<frame, published, stop>>

\* _process_job returns or raises: the worker is back in its loop.
Leave(w, place) == /\ pc' = [pc EXCEPT ![w] = place]
                   /\ cur' = [cur EXCEPT ![w] = NoJob]
                   /\ run' = [run EXCEPT ![w] = 0]
                   /\ frame' = [frame EXCEPT ![w] = 0]
                   /\ published' = [published EXCEPT ![w] = FALSE]
                   /\ UNCHANGED stop

At(w, place) == pc[w] = place

Fault == faults < MaxFaults /\ faults' = faults + 1
NoFault == UNCHANGED faults

-------------------------------------------------------------------------------
(* run_forever *)

\* while not self.stop_event.is_set()
Quit(w) == /\ At(w, "recover")
           /\ stop[w]
           /\ GoTo(w, "stopped")
           /\ UNCHANGED <<queueVars, artifactVars, decoded, cleaning, faults>>

Recover(w) == /\ At(w, "recover")
              /\ ~stop[w]
              /\ \/ \E batch \in SUBSET Jobs : SelectExpired(w, batch) /\ GoTo(w, "recovering")
                 \/ Recoverable = {} /\ GoTo(w, "claim") /\ UNCHANGED queueVars
              /\ UNCHANGED <<artifactVars, decoded, cleaning, faults>>

RecoverCommit(w) == /\ At(w, "recovering")
                    /\ CommitRecovery(w)
                    /\ GoTo(w, "claim")
                    /\ UNCHANGED <<artifactVars, decoded, cleaning, faults>>

Claim(w) == /\ At(w, "claim")
            /\ \/ \E j \in Jobs : SelectQueued(w, j) /\ GoTo(w, "claiming")
               \/ Claimable = {} /\ GoTo(w, "waiting") /\ UNCHANGED queueVars
            /\ UNCHANGED <<artifactVars, decoded, cleaning, faults>>

\* The claim commits, then the row is refreshed: when the refresh fails the
\* job is claimed and nobody works on it.
ClaimCommit(w) == /\ At(w, "claiming")
                  /\ CommitClaim(w)
                  /\ \E j \in txn[w].rows :
                        \/ Take(w, j, attempts'[j]) /\ NoFault
                        \/ GoTo(w, "waiting") /\ Fault
                  /\ UNCHANGED <<artifactVars, decoded, cleaning>>

\* Mutant: expired jobs are recovered only once, when the worker starts.
PollForWork(w) == /\ At(w, "waiting")
                  /\ GoTo(w, "claim")
                  /\ UNCHANGED <<queueVars, artifactVars, decoded, cleaning, faults>>

\* _wait_for_next_poll
Poll(w) == /\ At(w, "waiting")
           /\ GoTo(w, "recover")
           /\ UNCHANGED <<queueVars, artifactVars, decoded, cleaning, faults>>

-------------------------------------------------------------------------------
(* _process_job and _decode_and_process *)

\* _load_job_and_video, the pipeline and the capture; a deleted job, an
\* invalid scene, a missing model or a file that does not open raises.
Load(w) == /\ At(w, "loading")
           /\ \/ status[cur[w]] # "deleted" /\ GoTo(w, "opening")
              \/ GoTo(w, "failing")
           /\ UNCHANGED <<queueVars, artifactVars, decoded, cleaning, faults>>

\* The writer is constructed before the try: when that raises nothing aborts it.
OpenWriter(w) == /\ At(w, "opening")
                 /\ \/ Create(cur[w], run[w]) /\ GoTo(w, "decoding")
                    \/ CreateFails(cur[w], run[w]) /\ GoTo(w, "failing")
                 /\ UNCHANGED <<queueVars, decoded, cleaning, faults>>

\* should_report or is_final_expected_frame
Reports(f) == f % ReportEvery = 0 \/ (ExpectedFrames # 0 /\ f >= ExpectedFrames)

\* One frame is read, analysed and written.  It may need the directory (the
\* preview is opened, an evidence image is stored) or only open handles;
\* analysing it or persisting its transitions may raise.
DecodeFrame(w) ==
    /\ At(w, "decoding")
    /\ ~stop[w]
    /\ frame[w] < VideoFrames
    /\ frame' = [frame EXCEPT ![w] = @ + 1]
    /\ \/ /\ \/ WriteFiles(cur[w], run[w])
             \/ UNCHANGED artifactVars
          /\ pc' = [pc EXCEPT ![w] = IF Reports(frame[w] + 1) THEN "reporting" ELSE "decoding"]
       \/ ~CanWrite(cur[w]) /\ pc' = [pc EXCEPT ![w] = "aborting"] /\ UNCHANGED artifactVars
    /\ UNCHANGED <<queueVars, cur, run, published, stop, decoded, cleaning, faults>>

\* The analysis, ffmpeg, the file system or the database raises.
Raise(w) == /\ pc[w] \in {"decoding", "transcoding", "summarizing", "clearing", "publishing",
                         "attaching"}
            /\ At(w, "decoding") => frame[w] > 0 \/ ~stop[w]
            /\ GoTo(w, "aborting")
            /\ UNCHANGED <<queueVars, artifactVars, decoded, cleaning, faults>>

\* The loop ends at the end of the video, or because a stop was requested.
\* Zero frames raise InvalidVideoError.
EndOfLoop(w) == /\ At(w, "decoding")
                /\ stop[w] \/ frame[w] = VideoFrames
                /\ GoTo(w, IF frame[w] = 0 THEN "rejecting" ELSE "transcoding")
                /\ UNCHANGED <<queueVars, artifactVars, decoded, cleaning, faults>>

\* The owner's calls wait for the row lock and raise WorkerLostLeaseError
\* when the job is no longer theirs.
CallAsOwner(w, op, granted, refused) ==
    /\ \/ SelectOwned(w, op, cur[w]) /\ GoTo(w, granted)
       \/ LeaseLost(w, cur[w]) /\ refused /\ UNCHANGED queueVars
    /\ UNCHANGED <<artifactVars, decoded, cleaning, faults>>

ReportProgress(w) == /\ At(w, "reporting")
                     /\ CallAsOwner(w, "progress", "progressing", GoTo(w, "leaving"))

ProgressCommit(w) == /\ At(w, "progressing")
                     /\ CommitProgress(w, Percent(frame[w]))
                     /\ GoTo(w, "decoding")
                     /\ UNCHANGED <<artifactVars, decoded, cleaning, faults>>

Transcode(w) == /\ At(w, "transcoding")
                /\ CloseAndTranscode(cur[w], run[w])
                /\ GoTo(w, "summarizing")
                /\ UNCHANGED <<queueVars, decoded, cleaning, faults>>

Summarize(w) == /\ At(w, "summarizing")
                /\ \/ WriteSummary(cur[w], run[w]) /\ GoTo(w, "clearing")
                   \/ ~CanWrite(cur[w]) /\ GoTo(w, "aborting") /\ UNCHANGED artifactVars
                /\ UNCHANGED <<queueVars, decoded, cleaning, faults>>

Clear(w) == /\ At(w, "clearing")
            /\ RemovePublished(cur[w])
            /\ GoTo(w, "publishing")
            /\ UNCHANGED <<queueVars, decoded, cleaning, faults>>

Rename(w) == /\ At(w, "publishing")
             /\ \/ /\ Publish(cur[w])
                   /\ pc' = [pc EXCEPT ![w] = "attaching"]
                   /\ published' = [published EXCEPT ![w] = TRUE]
                   /\ UNCHANGED <<cur, run, frame, stop>>
                \/ ~CanPublish(cur[w]) /\ GoTo(w, "aborting") /\ UNCHANGED artifactVars
             /\ UNCHANGED <<queueVars, decoded, cleaning, faults>>

\* The preview and the evidence images are attached to the events of the job.
Attach(w) == /\ At(w, "attaching")
             /\ GoTo(w, "succeeding")
             /\ UNCHANGED <<queueVars, artifactVars, decoded, cleaning, faults>>

Succeed(w) == /\ At(w, "succeeding")
              /\ CallAsOwner(w, "succeed", "committing", GoTo(w, "leaving"))

\* The commit may succeed and still raise, as when the connection breaks.
SuccessCommit(w) == /\ At(w, "committing")
                    /\ CommitSuccess(w)
                    /\ decoded' = [decoded EXCEPT ![cur[w]] = frame[w]]
                    /\ \/ Leave(w, "recover") /\ NoFault
                       \/ GoTo(w, "aborting") /\ Fault
                    /\ UNCHANGED <<artifactVars, cleaning>>

\* except Exception: artifact_writer.abort(); raise.  "leaving" is the same
\* after WorkerLostLeaseError, which _process_job only logs, unless what abort
\* raises takes its place.
AbortWriter(w) == /\ pc[w] \in {"rejecting", "aborting", "leaving"}
                  /\ \/ /\ IF published[w] THEN UNCHANGED artifactVars ELSE Abort(cur[w], run[w])
                        /\ IF At(w, "leaving") THEN Leave(w, "recover") ELSE GoTo(w, "failing")
                     \/ ~published[w] /\ AbortFails(cur[w], run[w]) /\ GoTo(w, "failing")
                  /\ UNCHANGED <<queueVars, decoded, cleaning, faults>>

\* Mutant: the failure is recorded without asking whether the job is still owned.
RecordFailureUnasked(w) == /\ At(w, "failing")
                           /\ EndAttempt({cur[w]}, "attempt_failed")
                           /\ Leave(w, "recover")
                           /\ UNCHANGED <<owner, txn, deleting, artifactVars, decoded, cleaning, faults>>

RecordFailure(w) == /\ At(w, "failing")
                    /\ CallAsOwner(w, "fail", "recording", Leave(w, "recover"))

FailureCommit(w) == /\ At(w, "recording")
                    /\ CommitFailure(w)
                    /\ Leave(w, "recover")
                    /\ UNCHANGED <<artifactVars, decoded, cleaning, faults>>

\* A commit fails: an error before or after the claim is logged by the loop,
\* so is one while the failure is recorded (the job then stays running until
\* its lease expires); any other is an error of the attempt.
CommitFails(w) == /\ Rollback(w)
                  /\ Fault
                  /\ \/ pc[w] \in {"recovering", "claiming"} /\ GoTo(w, "waiting")
                     \/ pc[w] \in {"progressing", "committing"} /\ GoTo(w, "aborting")
                     \/ pc[w] = "recording" /\ Leave(w, "waiting")
                  /\ UNCHANGED <<artifactVars, decoded, cleaning>>

-------------------------------------------------------------------------------
(* Signals, crashes, the clock and the other services *)

\* SIGTERM sets the stop event ...
RequestStop(w) == /\ w \in Mortal
                  /\ pc[w] \notin Gone
                  /\ stop' = [stop EXCEPT ![w] = TRUE]
                  /\ UNCHANGED <<queueVars, artifactVars, pc, cur, run, frame, published,
                                 decoded, cleaning, faults>>

\* ... and SIGKILL, or a crash, leaves everything as it is; the database
\* rolls back the transaction of a connection that is gone.
Crash(w) == /\ w \in Mortal
            /\ pc[w] \notin Gone
            /\ GoTo(w, "dead")
            /\ IF Idle(w) THEN UNCHANGED queueVars ELSE Rollback(w)
            /\ UNCHANGED <<artifactVars, decoded, cleaning, faults>>

WorkedOn(j) == \E w \in Workers : cur[w] = j /\ pc[w] \in Busy

Elapse(j) == /\ SlowWorkers \/ ~WorkedOn(j)
             /\ ExpireLease(j)
             /\ UNCHANGED <<artifactVars, localVars, decoded, cleaning, faults>>

Upload(j) == /\ Submit(j)
             /\ UNCHANGED <<artifactVars, localVars, decoded, cleaning, faults>>

RequestDelete(j) == /\ CheckDelete(j)
                    /\ UNCHANGED <<artifactVars, localVars, decoded, cleaning, faults>>

DeleteRows(j) == /\ CommitDelete(j)
                 /\ cleaning' = [cleaning EXCEPT ![j] = "both"]
                 /\ UNCHANGED <<artifactVars, localVars, decoded, faults>>

\* After the commit {job} is removed, then .{job}.part.
DeleteFiles(j) == /\ \/ /\ cleaning[j] = "both"
                        /\ RemovePublished(j)
                        /\ cleaning' = [cleaning EXCEPT ![j] = "partial"]
                     \/ /\ cleaning[j] = "partial"
                        /\ RemovePartial(j)
                        /\ cleaning' = [cleaning EXCEPT ![j] = "nothing"]
                  /\ UNCHANGED <<queueVars, localVars, decoded, faults>>

-------------------------------------------------------------------------------

\* What a worker that is scheduled does next.
Work(w) == \/ Quit(w) \/ Recover(w) \/ RecoverCommit(w) \/ Claim(w) \/ ClaimCommit(w) \/ Poll(w)
           \/ Load(w) \/ OpenWriter(w) \/ DecodeFrame(w) \/ Raise(w) \/ EndOfLoop(w)
           \/ ReportProgress(w) \/ ProgressCommit(w)
           \/ Transcode(w) \/ Summarize(w) \/ Clear(w) \/ Rename(w) \/ Attach(w)
           \/ Succeed(w) \/ SuccessCommit(w)
           \/ AbortWriter(w) \/ RecordFailure(w) \/ FailureCommit(w) \/ CommitFails(w)

Signal(w) == RequestStop(w) \/ Crash(w)

Outside(j) == Upload(j) \/ RequestDelete(j) \/ DeleteRows(j) \/ DeleteFiles(j) \/ Elapse(j)

WorkerNext == \/ \E w \in Workers : Work(w) \/ Signal(w)
              \/ \E j \in Jobs : Outside(j)

WorkerSpec == WorkerInit /\ [][WorkerNext]_workerVars

\* A process that is not killed keeps being scheduled, and time passes.
FairWorkerSpec == /\ WorkerSpec
                  /\ \A w \in Workers : WF_workerVars(Work(w))
                  /\ \A j \in Jobs : WF_workerVars(Elapse(j))

-------------------------------------------------------------------------------
(* What the fleet guarantees, whether or not leases are overrun *)

\* The open transaction of a worker that reports, finishes or fails is about
\* the attempt it claimed: a worker that was declared lost and comes back never
\* moves the job, or its lease, on behalf of a later attempt.
AnswersForItsAttempt ==
    \A w \in Workers : pc[w] \in {"progressing", "committing", "recording"} =>
        /\ owner[cur[w]] = w
        /\ run[w] = attempts[cur[w]]

\* Whatever the workers do, the rows move as the table's own specification
\* says: recoveries, claims and answers are its transactions, a crash is a
\* rollback, files are none of its business.
RefinesQueue == Spec

\* Every uploaded job ends, or is deleted after it ended: crashes, stops, failed
\* commits and overrun leases are survived while one worker keeps running.
EveryJobEnds == \A j \in Jobs : status[j] = "queued" ~> status[j] \in Terminal \cup {"deleted"}

-------------------------------------------------------------------------------
(* What it guarantees as long as no live worker overruns its lease *)

\* The directory a worker writes by name is the one it created itself.
WritesItsOwnDirectory ==
    \A w \in Workers :
        pc[w] \in {"decoding", "reporting", "progressing", "transcoding", "summarizing",
                  "clearing", "publishing"}
        => part[cur[w]] # NoDir /\ part[cur[w]].maker = run[w]

\* A succeeded job has the complete artifacts of the attempt that succeeded,
\* with no file of another attempt among them.
SucceededIntact ==
    \A j \in Jobs : status[j] = "succeeded" => Intact(final[j], attempts[j])

\* "Delete a completed video, related records and stored files.": once a delete
\* request is through, no file of the job is left or comes back.
DeletedLeavesNothing ==
    \A j \in Jobs : status[j] = "deleted" /\ cleaning[j] = "nothing" => part[j] = NoDir /\ final[j] = NoDir

-------------------------------------------------------------------------------
(* What the comments of the code promise and the code does not keep *)

\* "Preview becomes available after processing completes.": a job that
\* succeeded keeps a published directory.
SucceededPublished == \A j \in Jobs : status[j] = "succeeded" => final[j] # NoDir

\* "Mark a worker-owned job as successfully completed.": every frame of the
\* video was analysed.
SucceededSawWholeVideo == \A j \in Jobs : status[j] = "succeeded" => decoded[j] = VideoFrames

===============================================================================
