------------------------------- MODULE JobQueue -------------------------------
(***************************************************************************)
(* The processing_jobs table as the worker fleet uses it: the repository   *)
(* of backend/app/repositories/processing_job.py over PostgreSQL, together *)
(* with the two other writers of its rows, the upload that creates a job   *)
(* and the request that deletes a video.                                   *)
(*                                                                         *)
(* Every operation of the repository is one transaction:                   *)
(*   SELECT ... FOR UPDATE     the row locks are taken (Select... actions) *)
(*   assignments and COMMIT    the rows are written (Commit... actions)    *)
(*   or ROLLBACK               nothing is written (Rollback)               *)
(* and other sessions run between the two.  Nothing is assumed of the      *)
(* callers: any worker may call any operation for any job at any time,     *)
(* which is what a worker that lost its lease long ago looks like.         *)
(*                                                                         *)
(* A variable is a column.  One video has one job, so the status of the    *)
(* video of job j is video[j].  Times are abstracted to what the code      *)
(* decides with them: a lease is live until it expires.  Columns that are  *)
(* written and never read by the backend (claimed_at, heartbeat_at,        *)
(* started_at, completed_at, last_processed_frame, job_metrics, the text   *)
(* of error messages) are left out.                                        *)
(***************************************************************************)
EXTENDS Integers, FiniteSets

CONSTANTS Jobs,          \* processing-job ids
          Workers,       \* worker ids: one per worker process ever started
          NoWorker,      \* worker_id IS NULL
          MaxAttempts,   \* settings.worker_max_attempts
          BatchSize,     \* settings.worker_recovery_batch_size
          Priority,      \* processing_jobs.priority
          CreatedAt,     \* processing_jobs.created_at, as a rank
          Percents       \* progress percentages a worker may report

ASSUME QueueAssumption ==
    /\ NoWorker \notin Workers
    /\ MaxAttempts \in Nat \ {0}
    /\ BatchSize \in Nat \ {0}
    /\ Priority \in [Jobs -> Int]
    /\ CreatedAt \in [Jobs -> Nat]
    /\ Percents \subseteq Int

VARIABLES status,     \* processing_jobs.status
          owner,      \* processing_jobs.worker_id
          lease,      \* processing_jobs.lease_expires_at: none, live or expired
          attempts,   \* processing_jobs.attempt_count
          progress,   \* processing_jobs.progress_percent
          error,      \* processing_jobs.error_message: none or why
          video,      \* videos.status of the video of the job
          txn,        \* txn[w]: the open transaction of worker w
          deleting    \* jobs whose delete request has passed its check

rowVars   == <<status, owner, lease, attempts, progress, error, video>>
queueVars == <<status, owner, lease, attempts, progress, error, video, txn, deleting>>

-------------------------------------------------------------------------------
(* Types and the empty table *)

JobStatuses   == {"absent", "queued", "running", "succeeded", "failed", "deleted"}
VideoStatuses == {"absent", "queued", "processing", "completed", "failed", "deleted"}
Terminal      == {"succeeded", "failed"}

OwnerOps   == {"progress", "succeed", "fail"}
Operations == {"recover", "claim"} \cup OwnerOps

NoTxn == [op |-> "none", rows |-> {}]
Txns  == [op : Operations \cup {"none"}, rows : SUBSET Jobs]

TypeOK == /\ status \in [Jobs -> JobStatuses]
          /\ owner \in [Jobs -> Workers \cup {NoWorker}]
          /\ lease \in [Jobs -> {"none", "live", "expired"}]
          /\ attempts \in [Jobs -> 0..MaxAttempts]
          /\ progress \in [Jobs -> 0..100]
          /\ error \in [Jobs -> {"none", "lease_expired", "attempt_failed"}]
          /\ video \in [Jobs -> VideoStatuses]
          /\ txn \in [Workers -> Txns]
          /\ deleting \subseteq Jobs

Init == /\ status = [j \in Jobs |-> "absent"]
        /\ owner = [j \in Jobs |-> NoWorker]
        /\ lease = [j \in Jobs |-> "none"]
        /\ attempts = [j \in Jobs |-> 0]
        /\ progress = [j \in Jobs |-> 0]
        /\ error = [j \in Jobs |-> "none"]
        /\ video = [j \in Jobs |-> "absent"]
        /\ txn = [w \in Workers |-> NoTxn]
        /\ deleting = {}

-------------------------------------------------------------------------------
(* Row locks and transactions *)

Idle(w) == txn[w].op = "none"

\* A row is locked from the SELECT ... FOR UPDATE that read it to the end of
\* that transaction.
Locked(j) == \E w \in Workers : j \in txn[w].rows

\* SELECT ... FOR UPDATE: the rows are locked, nothing is written yet.
Lock(w, op, rows) == /\ Idle(w)
                     /\ txn' = [txn EXCEPT ![w] = [op |-> op, rows |-> rows]]
                     /\ UNCHANGED <<rowVars, deleting>>

\* COMMIT of the transaction that performs op.
Commits(w, op) == /\ txn[w].op = op
                  /\ txn' = [txn EXCEPT ![w] = NoTxn]
                  /\ UNCHANGED deleting

\* The connection fails, or the worker dies, before COMMIT.
Rollback(w) == /\ ~Idle(w)
               /\ txn' = [txn EXCEPT ![w] = NoTxn]
               /\ UNCHANGED <<rowVars, deleting>>

\* UPDATE ... SET column = value for a set of rows
Set(column, rows, value) == [j \in Jobs |-> IF j \in rows THEN value ELSE column[j]]

\* Mutant: one attempt too many is granted.
ExhaustedTooLate(rows) == {j \in rows : attempts[j] > MaxAttempts}

Exhausted(rows) == {j \in rows : attempts[j] >= MaxAttempts}

\* Mutant: the progress of the lost attempt is kept.
EndAttemptKeepsProgress(rows, reason) ==
    LET spent == Exhausted(rows)
        again == rows \ spent
    IN  /\ status' = Set(Set(status, spent, "failed"), again, "queued")
        /\ video' = Set(Set(video, spent, "failed"), again, "queued")
        /\ error' = Set(error, rows, reason)
        /\ lease' = Set(lease, rows, "none")
        /\ UNCHANGED <<attempts, progress>>

\* A lost attempt: back to the queue while attempts are left, else failed for
\* good.  The two operations that end an attempt this way share the columns
\* below; they differ in worker_id.
EndAttempt(rows, reason) ==
    LET spent == Exhausted(rows)
        again == rows \ spent
    IN  /\ status' = Set(Set(status, spent, "failed"), again, "queued")
        /\ video' = Set(Set(video, spent, "failed"), again, "queued")
        /\ progress' = Set(progress, again, 0)
        /\ error' = Set(error, rows, reason)
        /\ lease' = Set(lease, rows, "none")
        /\ UNCHANGED attempts

-------------------------------------------------------------------------------
(* recover_expired_jobs *)

\* Mutant: the lease is not looked at.
RecoverableAnyLease == {j \in Jobs : status[j] = "running" /\ ~Locked(j)}

Recoverable == {j \in Jobs : status[j] = "running" /\ lease[j] = "expired" /\ ~Locked(j)}

\* FOR UPDATE SKIP LOCKED LIMIT batch_size, oldest lease first: which leases
\* are the oldest is not modelled, so a full batch is any BatchSize of them.
SelectExpired(w, batch) ==
    /\ batch # {}
    /\ batch \subseteq Recoverable
    /\ \/ batch = Recoverable /\ Cardinality(batch) <= BatchSize
       \/ Cardinality(batch) = BatchSize
    /\ Lock(w, "recover", batch)

CommitRecovery(w) ==
    /\ Commits(w, "recover")
    /\ EndAttempt(txn[w].rows, "lease_expired")
    /\ owner' = Set(owner, txn[w].rows, NoWorker)

-------------------------------------------------------------------------------
(* claim_next *)

Claimable == {j \in Jobs : status[j] = "queued" /\ attempts[j] < MaxAttempts /\ ~Locked(j)}

\* ORDER BY priority DESC, created_at ASC
GoesBefore(j, k) == \/ Priority[j] > Priority[k]
                    \/ Priority[j] = Priority[k] /\ CreatedAt[j] < CreatedAt[k]

SelectQueued(w, j) ==
    /\ j \in Claimable
    /\ \A k \in Claimable : ~GoesBefore(k, j)
    /\ Lock(w, "claim", {j})

\* Mutant: the attempt is not counted.
CommitClaimUncounted(w) ==
    /\ Commits(w, "claim")
    /\ LET rows == txn[w].rows
       IN  /\ status' = Set(status, rows, "running")
           /\ owner' = Set(owner, rows, w)
           /\ lease' = Set(lease, rows, "live")
           /\ progress' = Set(progress, rows, 0)
           /\ error' = Set(error, rows, "none")
           /\ video' = Set(video, rows, "processing")
           /\ UNCHANGED attempts

CommitClaim(w) ==
    /\ Commits(w, "claim")
    /\ LET rows == txn[w].rows
       IN  /\ status' = Set(status, rows, "running")
           /\ owner' = Set(owner, rows, w)
           /\ lease' = Set(lease, rows, "live")
           /\ attempts' = [j \in Jobs |-> IF j \in rows THEN attempts[j] + 1 ELSE attempts[j]]
           /\ progress' = Set(progress, rows, 0)
           /\ error' = Set(error, rows, "none")
           /\ video' = Set(video, rows, "processing")

-------------------------------------------------------------------------------
(* The operations of the owner.  _get_owned_running_job waits for the row  *)
(* lock, then looks for a RUNNING row whose worker_id is the caller's: it  *)
(* does not look at the lease.                                             *)

\* Mutants of the WHERE clause: one condition is dropped.
OwnedAtAll(w, j)    == owner[j] = w
RunningAtAll(w, j)  == status[j] = "running"

OwnedRunning(w, j) == status[j] = "running" /\ owner[j] = w

\* Mutant: a plain SELECT does not wait for the row lock.
SelectOwnedUnlocked(w, op, j) ==
    /\ op \in OwnerOps
    /\ OwnedRunning(w, j)
    /\ Lock(w, op, {j})

SelectOwned(w, op, j) ==
    /\ op \in OwnerOps
    /\ ~Locked(j)
    /\ OwnedRunning(w, j)
    /\ Lock(w, op, {j})

\* The caller gets WorkerLostLeaseError instead.
LeaseLost(w, j) == Idle(w) /\ ~Locked(j) /\ ~OwnedRunning(w, j)

Clamp(p) == IF p < 0 THEN 0 ELSE IF p > 99 THEN 99 ELSE p

\* update_progress
CommitProgress(w, p) ==
    /\ Commits(w, "progress")
    /\ progress' = Set(progress, txn[w].rows, Clamp(p))
    /\ lease' = Set(lease, txn[w].rows, "live")
    /\ UNCHANGED <<status, owner, attempts, error, video>>

\* Mutant: the video row is forgotten.
CommitSuccessForgetsVideo(w) ==
    /\ Commits(w, "succeed")
    /\ status' = Set(status, txn[w].rows, "succeeded")
    /\ progress' = Set(progress, txn[w].rows, 100)
    /\ lease' = Set(lease, txn[w].rows, "none")
    /\ error' = Set(error, txn[w].rows, "none")
    /\ UNCHANGED <<owner, attempts, video>>

\* mark_succeeded; worker_id is kept.
CommitSuccess(w) ==
    /\ Commits(w, "succeed")
    /\ status' = Set(status, txn[w].rows, "succeeded")
    /\ progress' = Set(progress, txn[w].rows, 100)
    /\ lease' = Set(lease, txn[w].rows, "none")
    /\ error' = Set(error, txn[w].rows, "none")
    /\ video' = Set(video, txn[w].rows, "completed")
    /\ UNCHANGED <<owner, attempts>>

\* mark_failed_or_retry; worker_id is kept by a row that fails for good.
CommitFailure(w) ==
    /\ Commits(w, "fail")
    /\ EndAttempt(txn[w].rows, "attempt_failed")
    /\ owner' = Set(owner, txn[w].rows \ Exhausted(txn[w].rows), NoWorker)

-------------------------------------------------------------------------------
(* The other writers of the rows, and the clock *)

\* The upload commits a queued video and its queued job together.
Submit(j) == /\ status[j] = "absent"
             /\ status' = Set(status, {j}, "queued")
             /\ video' = Set(video, {j}, "queued")
             /\ UNCHANGED <<owner, lease, attempts, progress, error, txn, deleting>>

\* Mutant: only a running job refuses the deletion.
CheckDeleteQueuedToo(j) == /\ status[j] \in Terminal \cup {"queued"}
                           /\ deleting' = deleting \cup {j}
                           /\ UNCHANGED <<rowVars, txn>>

\* delete_video reads the video and its job without a lock and refuses while
\* the job is queued or running ...
CheckDelete(j) == /\ status[j] \in Terminal
                  /\ deleting' = deleting \cup {j}
                  /\ UNCHANGED <<rowVars, txn>>

\* ... and deletes both rows some time later.
CommitDelete(j) == /\ j \in deleting
                   /\ ~Locked(j)
                   /\ status' = Set(status, {j}, "deleted")
                   /\ video' = Set(video, {j}, "deleted")
                   /\ deleting' = deleting \ {j}
                   /\ UNCHANGED <<owner, lease, attempts, progress, error, txn>>

\* lease_expires_at < now becomes true.
ExpireLease(j) == /\ lease[j] = "live"
                  /\ lease' = Set(lease, {j}, "expired")
                  /\ UNCHANGED <<status, owner, attempts, progress, error, video, txn, deleting>>

-------------------------------------------------------------------------------

Select(w) == \/ \E batch \in SUBSET Jobs : SelectExpired(w, batch)
             \/ \E j \in Jobs : SelectQueued(w, j)
             \/ \E op \in OwnerOps, j \in Jobs : SelectOwned(w, op, j)

Commit(w) == \/ CommitRecovery(w)
             \/ CommitClaim(w)
             \/ \E p \in Percents : CommitProgress(w, p)
             \/ CommitSuccess(w)
             \/ CommitFailure(w)

Environment(j) == Submit(j) \/ CheckDelete(j) \/ CommitDelete(j) \/ ExpireLease(j)

Next == \/ \E w \in Workers : Select(w) \/ Commit(w) \/ Rollback(w)
        \/ \E j \in Jobs : Environment(j)

Spec == Init /\ [][Next]_queueVars

-------------------------------------------------------------------------------
(* What the table guarantees *)

\* The columns of one row tell one story after any interleaving of
\* recoveries, claims, retries and late calls: a lease and an owner while the
\* job runs, no progress left from an attempt that was lost, 100 percent
\* exactly when it succeeded, and a reason and no attempt left when it failed.
RowCoherent(j) ==
    /\ status[j] = "running" <=> lease[j] # "none"
    /\ status[j] = "running" => owner[j] \in Workers /\ attempts[j] > 0 /\ error[j] = "none"
    /\ status[j] = "absent" => attempts[j] = 0
    /\ status[j] \in {"absent", "queued"} => owner[j] = NoWorker /\ progress[j] = 0
    /\ status[j] = "succeeded" => progress[j] = 100 /\ error[j] = "none"
    /\ progress[j] = 100 => status[j] \in {"succeeded", "deleted"}
    /\ status[j] = "failed" => attempts[j] = MaxAttempts /\ error[j] # "none"

RowsCoherent == \A j \in Jobs : RowCoherent(j)

\* The video row is written by every commit that moves the job, although no
\* transaction of the repository locks it: the two never disagree.
VideoStatusOf(s) == IF s = "running" THEN "processing"
                    ELSE IF s = "succeeded" THEN "completed" ELSE s

VideoFollowsJob == \A j \in Jobs : video[j] = VideoStatusOf(status[j])

\* claim_next passes over a queued job whose attempts are spent and
\* recover_expired_jobs only looks at running ones: such a job would wait
\* for ever.  No path puts one in the queue.
NoStrandedJob == \A j \in Jobs : status[j] = "queued" => attempts[j] < MaxAttempts

\* What a SELECT ... FOR UPDATE saw is still so when its transaction writes:
\* the rows of a claim are queued, those of a recovery run with an expired
\* lease, that of an owner's call is running and the caller's own.
SelectionStillHolds ==
    \A w \in Workers : \A j \in txn[w].rows :
        /\ txn[w].op = "claim" => status[j] = "queued" /\ attempts[j] < MaxAttempts
        /\ txn[w].op = "recover" => status[j] = "running" /\ lease[j] = "expired"
        /\ txn[w].op \in OwnerOps => OwnedRunning(w, j)

\* The job of a delete request that passed its check has still ended when the
\* rows go: the check takes no lock and needs none.
DeleteCheckStillHolds == \A j \in deleting : status[j] \in Terminal

\* A worker whose lease is live keeps its job: nobody else can end the
\* attempt or take the job over.  (An owner whose lease has expired but was
\* not recovered yet may still report, finish or fail.)
LiveLeaseKept ==
    [][\A j \in Jobs :
        (lease[j] = "live" /\ (status'[j] # "running" \/ owner'[j] # owner[j]))
        => j \in txn[owner[j]].rows]_queueVars

\* Succeeded and failed are final: a late report, recovery or retry can only
\* be refused, and deletion is the one way out.
EndedStaysEnded ==
    [][\A j \in Jobs : status[j] \in Terminal
        => /\ status'[j] \in {status[j], "deleted"}
           /\ <<owner'[j], attempts'[j], progress'[j], error'[j]>>
                = <<owner[j], attempts[j], progress[j], error[j]>>]_queueVars

\* The table implements the lifecycle the platform promises.
Lifecycle == INSTANCE JobLifecycle WITH phase <- status, tries <- attempts

ImplementsLifecycle == Lifecycle!LifecycleSpec

===============================================================================
