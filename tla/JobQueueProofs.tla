---------------------------- MODULE JobQueueProofs ----------------------------
(***************************************************************************)
(* What TLAPS proves of JobQueue, for every set of jobs and workers and    *)
(* every attempt limit, batch size, priority and creation order.           *)
(*                                                                         *)
(* The safety invariants are not inductive one by one: a row is coherent   *)
(* after a commit because the row lock kept true what the SELECT saw, and  *)
(* the lock does so because locks are exclusive.  QueueInv is their        *)
(* conjunction with that exclusion, which is the database's and not the    *)
(* program's doing, and the fact that an idle worker holds no lock.        *)
(***************************************************************************)
EXTENDS JobQueue, TLAPS

\* What the database's row locks are: a row is in one open transaction.
LocksExclusive == \A v, w \in Workers : v # w => txn[v].rows \cap txn[w].rows = {}

IdleHoldsNothing == \A w \in Workers : Idle(w) => txn[w].rows = {}

QueueInv == /\ TypeOK
            /\ RowsCoherent
            /\ VideoFollowsJob
            /\ NoStrandedJob
            /\ LocksExclusive
            /\ SelectionStillHolds
            /\ DeleteCheckStillHolds
            /\ IdleHoldsNothing

-------------------------------------------------------------------------------

LEMMA InitEstablishes == Init => QueueInv
BY QueueAssumption
   DEF Init, QueueInv, TypeOK, JobStatuses, VideoStatuses, Txns, NoTxn, RowsCoherent, RowCoherent,
       VideoFollowsJob, VideoStatusOf, NoStrandedJob, LocksExclusive, SelectionStillHolds,
       DeleteCheckStillHolds, IdleHoldsNothing, OwnerOps, Terminal

\* Taking row locks: the rows are those of no other transaction, and they are
\* in the state the operation asks for.
LEMMA LockPreserves ==
    ASSUME QueueInv, NEW w \in Workers, NEW op \in Operations, NEW rows \in SUBSET Jobs,
           Lock(w, op, rows),
           \A j \in rows : ~Locked(j),
           \A j \in rows : /\ op = "claim" => status[j] = "queued" /\ attempts[j] < MaxAttempts
                           /\ op = "recover" => status[j] = "running" /\ lease[j] = "expired"
                           /\ op \in OwnerOps => OwnedRunning(w, j)
    PROVE  QueueInv'
<1> USE DEF QueueInv
<1>0. /\ txn' = [txn EXCEPT ![w] = [op |-> op, rows |-> rows]]
      /\ UNCHANGED <<rowVars, deleting>>
  BY DEF Lock
<1>1. TypeOK'
  BY <1>0 DEF TypeOK, Txns, rowVars
<1>2. RowsCoherent' /\ VideoFollowsJob' /\ NoStrandedJob' /\ DeleteCheckStillHolds'
  BY <1>0 DEF RowsCoherent, RowCoherent, VideoFollowsJob, NoStrandedJob, DeleteCheckStillHolds, rowVars
<1>3. LocksExclusive'
  BY <1>0 DEF LocksExclusive, Locked, TypeOK, Txns
<1>4. SelectionStillHolds'
  BY <1>0 DEF SelectionStillHolds, OwnedRunning, TypeOK, Txns, rowVars
<1>5. IdleHoldsNothing'
  BY <1>0 DEF IdleHoldsNothing, Idle, TypeOK, Txns, Operations, OwnerOps
<1> QED BY <1>1, <1>2, <1>3, <1>4, <1>5

\* Ending a transaction gives up its row locks and takes none.
LEMMA UnlockPreserves ==
    ASSUME TypeOK, LocksExclusive, IdleHoldsNothing,
           NEW w \in Workers, txn' = [txn EXCEPT ![w] = NoTxn]
    PROVE  LocksExclusive' /\ IdleHoldsNothing' /\ txn' \in [Workers -> Txns]
BY DEF LocksExclusive, IdleHoldsNothing, Idle, TypeOK, Txns, NoTxn

LEMMA RollbackPreserves ==
    ASSUME QueueInv, NEW w \in Workers, Rollback(w)
    PROVE  QueueInv'
<1> USE DEF QueueInv, Rollback
<1>1. TypeOK'
  BY UnlockPreserves DEF TypeOK, rowVars
<1>2. RowsCoherent' /\ VideoFollowsJob' /\ NoStrandedJob' /\ DeleteCheckStillHolds'
  BY DEF RowsCoherent, RowCoherent, VideoFollowsJob, NoStrandedJob, DeleteCheckStillHolds, rowVars
<1>3. SelectionStillHolds'
  BY DEF SelectionStillHolds, OwnedRunning, TypeOK, Txns, NoTxn, rowVars
<1> QED BY <1>1, <1>2, <1>3, UnlockPreserves

\* A commit of w writes only rows that w holds, so whatever the other open
\* transactions selected is untouched.
LEMMA OthersUndisturbed ==
    ASSUME TypeOK, LocksExclusive, SelectionStillHolds,
           NEW w \in Workers, txn' = [txn EXCEPT ![w] = NoTxn],
           \A j \in Jobs \ txn[w].rows : /\ status'[j] = status[j]
                                         /\ owner'[j] = owner[j]
                                         /\ lease'[j] = lease[j]
                                         /\ attempts'[j] = attempts[j]
    PROVE  SelectionStillHolds'
<1> SUFFICES ASSUME NEW v \in Workers, NEW j \in txn'[v].rows
             PROVE  /\ txn'[v].op = "claim" => status'[j] = "queued" /\ attempts'[j] < MaxAttempts
                    /\ txn'[v].op = "recover" => status'[j] = "running" /\ lease'[j] = "expired"
                    /\ txn'[v].op \in OwnerOps => OwnedRunning(v, j)'
  BY DEF SelectionStillHolds
<1>1. v # w /\ txn'[v] = txn[v]
  BY DEF TypeOK, NoTxn
<1>2. j \in Jobs \ txn[w].rows
  BY <1>1 DEF LocksExclusive, TypeOK, Txns
<1> QED BY <1>1, <1>2 DEF SelectionStillHolds, OwnedRunning

LEMMA ClaimPreserves ==
    ASSUME QueueInv, NEW w \in Workers, CommitClaim(w)
    PROVE  QueueInv'
<1> USE QueueAssumption DEF QueueInv
<1>1. txn' = [txn EXCEPT ![w] = NoTxn] /\ deleting' = deleting /\ txn[w].rows \subseteq Jobs
  BY DEF CommitClaim, Commits, TypeOK, Txns
<1>2. \A j \in txn[w].rows : status[j] = "queued" /\ attempts[j] < MaxAttempts
  BY DEF CommitClaim, Commits, SelectionStillHolds
<1>3. TypeOK'
  <2>1. status' \in [Jobs -> JobStatuses] /\ video' \in [Jobs -> VideoStatuses]
    BY DEF CommitClaim, Set, TypeOK, JobStatuses, VideoStatuses
  <2>2. owner' \in [Jobs -> Workers \cup {NoWorker}]
    BY DEF CommitClaim, Set, TypeOK
  <2>3. attempts' \in [Jobs -> 0..MaxAttempts]
    BY <1>1, <1>2 DEF CommitClaim, TypeOK
  <2>4. /\ lease' \in [Jobs -> {"none", "live", "expired"}]
        /\ progress' \in [Jobs -> 0..100]
        /\ error' \in [Jobs -> {"none", "lease_expired", "attempt_failed"}]
    BY DEF CommitClaim, Set, TypeOK
  <2> QED BY <1>1, <2>1, <2>2, <2>3, <2>4, UnlockPreserves DEF TypeOK
<1>4. RowsCoherent'
  BY <1>1, <1>2 DEF CommitClaim, Set, RowsCoherent, RowCoherent, TypeOK
<1>5. VideoFollowsJob' /\ NoStrandedJob'
  BY <1>1, <1>2 DEF CommitClaim, Set, VideoFollowsJob, VideoStatusOf, NoStrandedJob, TypeOK
<1>6. SelectionStillHolds'
  BY <1>1, OthersUndisturbed DEF CommitClaim, Set, TypeOK
<1>7. DeleteCheckStillHolds'
  BY <1>1, <1>2 DEF CommitClaim, Set, DeleteCheckStillHolds, Terminal, TypeOK
<1> QED BY <1>1, <1>3, <1>4, <1>5, <1>6, <1>7, UnlockPreserves

\* A lost attempt, whoever ends it, leaves a coherent row: queued and blank,
\* or failed with no attempt left.
LEMMA EndAttemptPreserves ==
    ASSUME QueueInv, NEW w \in Workers, NEW reason \in {"lease_expired", "attempt_failed"},
           txn[w].op \in {"recover", "fail"},
           txn' = [txn EXCEPT ![w] = NoTxn], deleting' = deleting,
           EndAttempt(txn[w].rows, reason),
           owner' \in [Jobs -> Workers \cup {NoWorker}],
           \A j \in Jobs \ txn[w].rows : owner'[j] = owner[j],
           \A j \in txn[w].rows : attempts[j] < MaxAttempts => owner'[j] = NoWorker
    PROVE  QueueInv'
<1> USE QueueAssumption DEF QueueInv, EndAttempt
<1>1. txn[w].rows \subseteq Jobs
  BY DEF TypeOK, Txns
<1>2. \A j \in txn[w].rows : status[j] = "running"
  BY DEF SelectionStillHolds, OwnedRunning, OwnerOps
<1>3. TypeOK'
  <2>1. status' \in [Jobs -> JobStatuses] /\ video' \in [Jobs -> VideoStatuses]
    BY DEF Set, TypeOK, JobStatuses, VideoStatuses
  <2>2. attempts' \in [Jobs -> 0..MaxAttempts] /\ progress' \in [Jobs -> 0..100]
    BY DEF Set, TypeOK
  <2>3. /\ lease' \in [Jobs -> {"none", "live", "expired"}]
        /\ error' \in [Jobs -> {"none", "lease_expired", "attempt_failed"}]
    BY DEF Set, TypeOK
  <2> QED BY <2>1, <2>2, <2>3, UnlockPreserves DEF TypeOK
<1>4. RowsCoherent'
  <2> SUFFICES ASSUME NEW j \in Jobs PROVE RowCoherent(j)'
    BY DEF RowsCoherent
  <2>1. CASE j \notin txn[w].rows
    BY <2>1 DEF Set, Exhausted, RowsCoherent, RowCoherent, TypeOK
  <2>2. CASE j \in txn[w].rows /\ attempts[j] >= MaxAttempts
    BY <1>2, <2>2 DEF Set, Exhausted, RowsCoherent, RowCoherent, TypeOK
  <2>3. CASE j \in txn[w].rows /\ attempts[j] < MaxAttempts
    BY <1>2, <2>3 DEF Set, Exhausted, RowsCoherent, RowCoherent, TypeOK
  <2> QED BY <2>1, <2>2, <2>3 DEF TypeOK
<1>5. VideoFollowsJob' /\ NoStrandedJob'
  BY <1>1, <1>2 DEF Set, Exhausted, VideoFollowsJob, VideoStatusOf, NoStrandedJob, TypeOK
<1>6. SelectionStillHolds'
  BY <1>1, OthersUndisturbed DEF Set, Exhausted, TypeOK
<1>7. DeleteCheckStillHolds'
  BY <1>1, <1>2 DEF Set, Exhausted, DeleteCheckStillHolds, Terminal, TypeOK
<1> QED BY <1>3, <1>4, <1>5, <1>6, <1>7, UnlockPreserves

LEMMA RecoveryPreserves ==
    ASSUME QueueInv, NEW w \in Workers, CommitRecovery(w)
    PROVE  QueueInv'
<1>1. txn' = [txn EXCEPT ![w] = NoTxn] /\ deleting' = deleting /\ txn[w].op = "recover"
  BY DEF CommitRecovery, Commits
<1>2. EndAttempt(txn[w].rows, "lease_expired")
  BY DEF CommitRecovery
<1>3. /\ owner' \in [Jobs -> Workers \cup {NoWorker}]
      /\ \A j \in Jobs \ txn[w].rows : owner'[j] = owner[j]
      /\ \A j \in txn[w].rows : owner'[j] = NoWorker
  BY DEF CommitRecovery, Set, QueueInv, TypeOK, Txns
<1> QED BY <1>1, <1>2, <1>3, EndAttemptPreserves

LEMMA FailurePreserves ==
    ASSUME QueueInv, NEW w \in Workers, CommitFailure(w)
    PROVE  QueueInv'
<1>1. txn' = [txn EXCEPT ![w] = NoTxn] /\ deleting' = deleting /\ txn[w].op = "fail"
  BY DEF CommitFailure, Commits
<1>2. EndAttempt(txn[w].rows, "attempt_failed")
  BY DEF CommitFailure
<1>3. /\ owner' \in [Jobs -> Workers \cup {NoWorker}]
      /\ \A j \in Jobs \ txn[w].rows : owner'[j] = owner[j]
  BY DEF CommitFailure, Set, QueueInv, TypeOK
<1>4. \A j \in txn[w].rows : attempts[j] < MaxAttempts => owner'[j] = NoWorker
  BY QueueAssumption DEF CommitFailure, Set, Exhausted, QueueInv, TypeOK, Txns
<1> QED BY <1>1, <1>2, <1>3, <1>4, EndAttemptPreserves

LEMMA ProgressPreserves ==
    ASSUME QueueInv, NEW w \in Workers, NEW p \in Percents, CommitProgress(w, p)
    PROVE  QueueInv'
<1> USE QueueAssumption DEF QueueInv
<1>1. txn' = [txn EXCEPT ![w] = NoTxn] /\ deleting' = deleting /\ txn[w].rows \subseteq Jobs
  BY DEF CommitProgress, Commits, TypeOK, Txns
<1>2. \A j \in txn[w].rows : status[j] = "running"
  BY DEF CommitProgress, Commits, SelectionStillHolds, OwnedRunning, OwnerOps
<1>3. Clamp(p) \in 0..99
  BY DEF Clamp
<1>4. TypeOK'
  <2>1. progress' \in [Jobs -> 0..100]
    BY <1>3 DEF CommitProgress, Set, TypeOK
  <2>2. lease' \in [Jobs -> {"none", "live", "expired"}]
    BY DEF CommitProgress, Set, TypeOK
  <2> QED BY <1>1, <2>1, <2>2, UnlockPreserves DEF CommitProgress, TypeOK
<1>5. RowsCoherent'
  BY <1>2, <1>3 DEF CommitProgress, Set, RowsCoherent, RowCoherent, TypeOK
<1>6. VideoFollowsJob' /\ NoStrandedJob' /\ DeleteCheckStillHolds'
  BY <1>1 DEF CommitProgress, VideoFollowsJob, NoStrandedJob, DeleteCheckStillHolds
<1>7. SelectionStillHolds'
  BY <1>1, OthersUndisturbed DEF CommitProgress, Set
<1> QED BY <1>1, <1>4, <1>5, <1>6, <1>7, UnlockPreserves

LEMMA SuccessPreserves ==
    ASSUME QueueInv, NEW w \in Workers, CommitSuccess(w)
    PROVE  QueueInv'
<1> USE QueueAssumption DEF QueueInv
<1>1. txn' = [txn EXCEPT ![w] = NoTxn] /\ deleting' = deleting /\ txn[w].rows \subseteq Jobs
  BY DEF CommitSuccess, Commits, TypeOK, Txns
<1>2. \A j \in txn[w].rows : status[j] = "running"
  BY DEF CommitSuccess, Commits, SelectionStillHolds, OwnedRunning, OwnerOps
<1>3. TypeOK'
  <2>1. status' \in [Jobs -> JobStatuses] /\ video' \in [Jobs -> VideoStatuses]
    BY DEF CommitSuccess, Set, TypeOK, JobStatuses, VideoStatuses
  <2>2. /\ progress' \in [Jobs -> 0..100]
        /\ lease' \in [Jobs -> {"none", "live", "expired"}]
        /\ error' \in [Jobs -> {"none", "lease_expired", "attempt_failed"}]
    BY DEF CommitSuccess, Set, TypeOK
  <2> QED BY <1>1, <2>1, <2>2, UnlockPreserves DEF CommitSuccess, TypeOK
<1>4. RowsCoherent'
  BY <1>2 DEF CommitSuccess, Set, RowsCoherent, RowCoherent, TypeOK
<1>5. VideoFollowsJob' /\ NoStrandedJob'
  BY <1>2 DEF CommitSuccess, Set, VideoFollowsJob, VideoStatusOf, NoStrandedJob, TypeOK
<1>6. SelectionStillHolds'
  BY <1>1, OthersUndisturbed DEF CommitSuccess, Set
<1>7. DeleteCheckStillHolds'
  BY <1>1, <1>2 DEF CommitSuccess, Set, DeleteCheckStillHolds, Terminal, TypeOK
<1> QED BY <1>1, <1>3, <1>4, <1>5, <1>6, <1>7, UnlockPreserves

LEMMA EnvironmentPreserves ==
    ASSUME QueueInv, NEW j \in Jobs, Environment(j)
    PROVE  QueueInv'
<1> USE QueueAssumption DEF QueueInv
<1>1. CASE Submit(j)
  <2> USE <1>1 DEF Submit, Set
  <2>1. TypeOK' /\ RowsCoherent' /\ LocksExclusive' /\ IdleHoldsNothing'
    BY DEF TypeOK, JobStatuses, VideoStatuses, RowsCoherent, RowCoherent,
           LocksExclusive, IdleHoldsNothing, Idle
  <2>2. VideoFollowsJob' /\ NoStrandedJob' /\ DeleteCheckStillHolds'
    BY DEF TypeOK, VideoFollowsJob, VideoStatusOf, NoStrandedJob, DeleteCheckStillHolds,
           RowsCoherent, RowCoherent, Terminal
  <2>3. \A w \in Workers : j \notin txn[w].rows
    BY DEF SelectionStillHolds, OwnedRunning, IdleHoldsNothing, Idle, TypeOK, Txns, Operations
  <2>4. SelectionStillHolds'
    BY <2>3 DEF SelectionStillHolds, OwnedRunning, TypeOK, Txns
  <2> QED BY <2>1, <2>2, <2>4
<1>2. CASE CheckDelete(j)
  BY <1>2 DEF CheckDelete, rowVars, TypeOK, RowsCoherent, RowCoherent, VideoFollowsJob, NoStrandedJob,
              LocksExclusive, SelectionStillHolds, OwnedRunning, DeleteCheckStillHolds,
              IdleHoldsNothing, Idle
<1>3. CASE CommitDelete(j)
  <2> USE <1>3 DEF CommitDelete, Set
  <2>1. TypeOK' /\ LocksExclusive' /\ IdleHoldsNothing'
    BY DEF TypeOK, JobStatuses, VideoStatuses, LocksExclusive, IdleHoldsNothing, Idle
  <2>2. RowsCoherent' /\ VideoFollowsJob' /\ NoStrandedJob' /\ DeleteCheckStillHolds'
    BY DEF TypeOK, RowsCoherent, RowCoherent, VideoFollowsJob, VideoStatusOf, NoStrandedJob,
           DeleteCheckStillHolds, Terminal
  <2>3. SelectionStillHolds'
    BY DEF SelectionStillHolds, OwnedRunning, Locked, TypeOK, Txns
  <2> QED BY <2>1, <2>2, <2>3
<1>4. CASE ExpireLease(j)
  <2> USE <1>4 DEF ExpireLease, Set
  <2>1. TypeOK' /\ RowsCoherent' /\ LocksExclusive' /\ IdleHoldsNothing'
    BY DEF TypeOK, RowsCoherent, RowCoherent, LocksExclusive, IdleHoldsNothing, Idle
  <2>2. VideoFollowsJob' /\ NoStrandedJob' /\ DeleteCheckStillHolds' /\ SelectionStillHolds'
    BY DEF TypeOK, VideoFollowsJob, NoStrandedJob, DeleteCheckStillHolds,
           SelectionStillHolds, OwnedRunning, Txns
  <2> QED BY <2>1, <2>2
<1> QED BY <1>1, <1>2, <1>3, <1>4 DEF Environment

LEMMA SelectPreserves ==
    ASSUME QueueInv, NEW w \in Workers, Select(w)
    PROVE  QueueInv'
<1>1. CASE \E batch \in SUBSET Jobs : SelectExpired(w, batch)
  BY <1>1, LockPreserves DEF SelectExpired, Recoverable, Operations, OwnerOps
<1>2. CASE \E j \in Jobs : SelectQueued(w, j)
  BY <1>2, LockPreserves DEF SelectQueued, Claimable, Operations, OwnerOps
<1>3. CASE \E op \in OwnerOps, j \in Jobs : SelectOwned(w, op, j)
  BY <1>3, LockPreserves DEF SelectOwned, Operations, OwnerOps
<1> QED BY <1>1, <1>2, <1>3 DEF Select

LEMMA StepPreserves == QueueInv /\ [Next]_queueVars => QueueInv'
<1> SUFFICES ASSUME QueueInv, [Next]_queueVars PROVE QueueInv'
  OBVIOUS
<1>1. ASSUME NEW w \in Workers, Select(w) PROVE QueueInv'
  BY <1>1, SelectPreserves
<1>2. ASSUME NEW w \in Workers, Commit(w) PROVE QueueInv'
  BY <1>2, RecoveryPreserves, ClaimPreserves, ProgressPreserves, SuccessPreserves, FailurePreserves
     DEF Commit
<1>3. ASSUME NEW w \in Workers, Rollback(w) PROVE QueueInv'
  BY <1>3, RollbackPreserves
<1>4. ASSUME NEW j \in Jobs, Environment(j) PROVE QueueInv'
  BY <1>4, EnvironmentPreserves
<1>5. CASE UNCHANGED queueVars
  BY <1>5 DEF queueVars, QueueInv, TypeOK, RowsCoherent, RowCoherent, VideoFollowsJob, NoStrandedJob,
              LocksExclusive, SelectionStillHolds, OwnedRunning, DeleteCheckStillHolds,
              IdleHoldsNothing, Idle
<1> QED BY <1>1, <1>2, <1>3, <1>4, <1>5 DEF Next

-------------------------------------------------------------------------------
(* The theorems *)

\* The inductive invariant: what the row locks protect is true in every
\* reachable state of the table.
THEOREM QueueSafe == Spec => []QueueInv
<1>1. Init => QueueInv
  BY InitEstablishes
<1>2. QueueInv /\ [Next]_queueVars => QueueInv'
  BY StepPreserves
<1> QED BY <1>1, <1>2, PTL DEF Spec

\* The rows of the table have their types.
THEOREM TypeCorrect == Spec => []TypeOK
<1>1. QueueInv => TypeOK
  BY DEF QueueInv
<1> QED BY <1>1, QueueSafe, PTL

\* No interleaving of recoveries, claims, retries and late calls leaves a row
\* whose columns contradict each other.
THEOREM RowsAlwaysCoherent == Spec => []RowsCoherent
<1>1. QueueInv => RowsCoherent
  BY DEF QueueInv
<1> QED BY <1>1, QueueSafe, PTL

\* The status of a video is that of its job, although no transaction locks
\* the video row.
THEOREM VideoAlwaysFollows == Spec => []VideoFollowsJob
<1>1. QueueInv => VideoFollowsJob
  BY DEF QueueInv
<1> QED BY <1>1, QueueSafe, PTL

\* Every queued job has an attempt left, so claim_next can take it.
THEOREM NeverStranded == Spec => []NoStrandedJob
<1>1. QueueInv => NoStrandedJob
  BY DEF QueueInv
<1> QED BY <1>1, QueueSafe, PTL

\* What the SELECT ... FOR UPDATE saw still holds at the COMMIT.
THEOREM ChecksStayValid == Spec => []SelectionStillHolds
<1>1. QueueInv => SelectionStillHolds
  BY DEF QueueInv
<1> QED BY <1>1, QueueSafe, PTL

\* What delete_video checked without a lock still holds when it deletes.
THEOREM DeleteChecksHold == Spec => []DeleteCheckStillHolds
<1>1. QueueInv => DeleteCheckStillHolds
  BY DEF QueueInv
<1> QED BY <1>1, QueueSafe, PTL

-------------------------------------------------------------------------------
(* What one step does to one row *)

\* A commit of w changes only rows that w holds.
LEMMA CommitIsLocal ==
    ASSUME QueueInv, NEW w \in Workers, Commit(w), NEW j \in Jobs, j \notin txn[w].rows
    PROVE  /\ status'[j] = status[j] /\ owner'[j] = owner[j] /\ lease'[j] = lease[j]
           /\ attempts'[j] = attempts[j] /\ progress'[j] = progress[j] /\ error'[j] = error[j]
<1> USE DEF QueueInv, TypeOK, Set, Exhausted
<1>1. CASE CommitRecovery(w)
  BY <1>1 DEF CommitRecovery, EndAttempt
<1>2. CASE CommitClaim(w)
  BY <1>2 DEF CommitClaim
<1>3. CASE \E p \in Percents : CommitProgress(w, p)
  BY <1>3 DEF CommitProgress
<1>4. CASE CommitSuccess(w)
  BY <1>4 DEF CommitSuccess
<1>5. CASE CommitFailure(w)
  BY <1>5 DEF CommitFailure, EndAttempt
<1> QED BY <1>1, <1>2, <1>3, <1>4, <1>5 DEF Commit

\* Only a queued or running row is ever in a transaction, and a row whose
\* lease is live only in its owner's.
LEMMA HeldRows ==
    ASSUME QueueInv, NEW w \in Workers, NEW j \in txn[w].rows
    PROVE  /\ j \in Jobs
           /\ status[j] \in {"queued", "running"}
           /\ lease[j] = "live" => owner[j] = w
<1> USE DEF QueueInv
<1>1. j \in Jobs /\ txn[w].op \in Operations
  BY DEF IdleHoldsNothing, Idle, TypeOK, Txns
<1>2. CASE txn[w].op = "claim"
  BY <1>1, <1>2 DEF SelectionStillHolds, RowsCoherent, RowCoherent
<1>3. CASE txn[w].op = "recover"
  BY <1>1, <1>3 DEF SelectionStillHolds
<1>4. CASE txn[w].op \in OwnerOps
  BY <1>1, <1>4 DEF SelectionStillHolds, OwnedRunning
<1> QED BY <1>1, <1>2, <1>3, <1>4 DEF Operations

\* Selecting rows and rolling back write no row.
LEMMA SelectWritesNothing ==
    ASSUME NEW w \in Workers, Select(w) \/ Rollback(w)
    PROVE  UNCHANGED <<rowVars, deleting>>
BY DEF Select, SelectExpired, SelectQueued, SelectOwned, Lock, Rollback

\* A live lease is only ended by its owner.
THEOREM LiveLeasesKept == Spec => LiveLeaseKept
<1>1. QueueInv /\ [Next]_queueVars =>
        [\A j \in Jobs :
            (lease[j] = "live" /\ (status'[j] # "running" \/ owner'[j] # owner[j]))
            => j \in txn[owner[j]].rows]_queueVars
  <2> SUFFICES ASSUME QueueInv, Next, NEW j \in Jobs, lease[j] = "live",
                      status'[j] # "running" \/ owner'[j] # owner[j]
               PROVE  j \in txn[owner[j]].rows
    OBVIOUS
  <2>1. status[j] = "running" /\ owner[j] \in Workers
    BY DEF QueueInv, RowsCoherent, RowCoherent
  <2>2. ASSUME NEW w \in Workers, Select(w) \/ Rollback(w) PROVE FALSE
    BY <2>1, <2>2, SelectWritesNothing DEF rowVars
  <2>3. ASSUME NEW w \in Workers, Commit(w) PROVE j \in txn[owner[j]].rows
    BY <2>1, <2>3, CommitIsLocal, HeldRows
  <2>4. ASSUME NEW k \in Jobs, Environment(k) PROVE FALSE
    BY <2>1, <2>4 DEF Environment, Submit, CheckDelete, CommitDelete, ExpireLease, Set, rowVars,
                      QueueInv, DeleteCheckStillHolds, Terminal, TypeOK
  <2> QED BY <2>2, <2>3, <2>4 DEF Next
<1> QED BY <1>1, QueueSafe, PTL DEF Spec, LiveLeaseKept

\* A job that ended keeps its outcome until it is deleted.
THEOREM EndedJobsStayEnded == Spec => EndedStaysEnded
<1>1. QueueInv /\ [Next]_queueVars =>
        [\A j \in Jobs : status[j] \in Terminal
          => /\ status'[j] \in {status[j], "deleted"}
             /\ <<owner'[j], attempts'[j], progress'[j], error'[j]>>
                  = <<owner[j], attempts[j], progress[j], error[j]>>]_queueVars
  <2> SUFFICES ASSUME QueueInv, Next, NEW j \in Jobs, status[j] \in Terminal
               PROVE  /\ status'[j] \in {status[j], "deleted"}
                      /\ owner'[j] = owner[j] /\ attempts'[j] = attempts[j]
                      /\ progress'[j] = progress[j] /\ error'[j] = error[j]
    OBVIOUS
  <2>1. ASSUME NEW w \in Workers, Select(w) \/ Rollback(w) PROVE UNCHANGED rowVars
    BY <2>1, SelectWritesNothing
  <2>2. ASSUME NEW w \in Workers, Commit(w)
        PROVE  /\ status'[j] = status[j] /\ owner'[j] = owner[j] /\ attempts'[j] = attempts[j]
               /\ progress'[j] = progress[j] /\ error'[j] = error[j]
    BY <2>2, CommitIsLocal, HeldRows DEF Terminal
  <2>3. ASSUME NEW k \in Jobs, Environment(k)
        PROVE  /\ status'[j] \in {status[j], "deleted"}
               /\ owner'[j] = owner[j] /\ attempts'[j] = attempts[j]
               /\ progress'[j] = progress[j] /\ error'[j] = error[j]
    BY <2>3 DEF Environment, Submit, CheckDelete, CommitDelete, ExpireLease, Set, rowVars,
                QueueInv, TypeOK, Terminal
  <2> QED BY <2>1, <2>2, <2>3 DEF Next, rowVars
<1> QED BY <1>1, QueueSafe, PTL DEF Spec, EndedStaysEnded

-------------------------------------------------------------------------------
(* The table implements the lifecycle *)

LEMMA CommitIsLifecycleStep ==
    ASSUME QueueInv, NEW w \in Workers, Commit(w)
    PROVE  Lifecycle!LifecycleNext
<1> SUFFICES ASSUME NEW j \in Jobs PROVE Lifecycle!JobStep(j)
  BY DEF Lifecycle!LifecycleNext
<1> USE QueueAssumption DEF QueueInv, TypeOK, Set, Lifecycle!JobStep, Lifecycle!Goes
<1>1. CASE j \notin txn[w].rows
  BY <1>1, CommitIsLocal DEF Lifecycle!Stays
<1>2. CASE j \in txn[w].rows /\ (CommitRecovery(w) \/ CommitFailure(w))
  <2>1. status[j] = "running" /\ EndAttempt(txn[w].rows, IF txn[w].op = "fail" THEN "attempt_failed" ELSE "lease_expired")
    BY <1>2 DEF CommitRecovery, CommitFailure, Commits, SelectionStillHolds, OwnedRunning, OwnerOps
  <2>2. CASE attempts[j] >= MaxAttempts
    BY <1>2, <2>1, <2>2 DEF EndAttempt, Exhausted, Lifecycle!Fail
  <2>3. CASE attempts[j] < MaxAttempts
    BY <1>2, <2>1, <2>3 DEF EndAttempt, Exhausted, Lifecycle!GiveBack
  <2> QED BY <2>2, <2>3
<1>3. CASE j \in txn[w].rows /\ CommitClaim(w)
  BY <1>3 DEF CommitClaim, Commits, SelectionStillHolds, Lifecycle!Begin
<1>4. CASE j \in txn[w].rows /\ \E p \in Percents : CommitProgress(w, p)
  BY <1>4 DEF CommitProgress, Lifecycle!Stays
<1>5. CASE j \in txn[w].rows /\ CommitSuccess(w)
  BY <1>5 DEF CommitSuccess, Commits, SelectionStillHolds, OwnedRunning, OwnerOps, Lifecycle!Succeed
<1> QED BY <1>1, <1>2, <1>3, <1>4, <1>5 DEF Commit

LEMMA EnvironmentIsLifecycleStep ==
    ASSUME QueueInv, NEW k \in Jobs, Environment(k)
    PROVE  Lifecycle!LifecycleNext
<1> SUFFICES ASSUME NEW j \in Jobs PROVE Lifecycle!JobStep(j)
  BY DEF Lifecycle!LifecycleNext
<1> USE DEF QueueInv, TypeOK, Set, Lifecycle!JobStep, Lifecycle!Goes, Lifecycle!Stays
<1>1. CASE Submit(k)
  BY <1>1 DEF Submit, Lifecycle!Submit
<1>2. CASE CheckDelete(k) \/ ExpireLease(k)
  BY <1>2 DEF CheckDelete, ExpireLease, rowVars
<1>3. CASE CommitDelete(k)
  BY <1>3 DEF CommitDelete, DeleteCheckStillHolds, Terminal, Lifecycle!Discard
<1> QED BY <1>1, <1>2, <1>3 DEF Environment

\* Every behaviour of the table, whatever the workers do, is a behaviour of
\* the lifecycle: at most MaxAttempts attempts, failure only after the last,
\* nothing after the end but deletion.
THEOREM QueueImplementsLifecycle == Spec => ImplementsLifecycle
<1>1. Init => Lifecycle!LifecycleInit
  BY DEF Init, Lifecycle!LifecycleInit
<1>2. QueueInv /\ [Next]_queueVars => [Lifecycle!LifecycleNext]_<<status, attempts>>
  <2> SUFFICES ASSUME QueueInv, Next
               PROVE  Lifecycle!LifecycleNext \/ UNCHANGED <<status, attempts>>
    BY DEF queueVars
  <2>1. ASSUME NEW w \in Workers, Select(w) \/ Rollback(w) PROVE UNCHANGED <<status, attempts>>
    BY <2>1, SelectWritesNothing DEF rowVars
  <2> QED BY <2>1, CommitIsLifecycleStep, EnvironmentIsLifecycleStep DEF Next
<1> QED BY <1>1, <1>2, QueueSafe, PTL
        DEF Spec, ImplementsLifecycle, Lifecycle!LifecycleSpec, Lifecycle!lifecycleVars

===============================================================================
