--------------------------- MODULE VideoWorkerProofs --------------------------
(***************************************************************************)
(* What TLAPS proves of the worker fleet, for every set of jobs and        *)
(* workers, every video length, report interval and fault bound, and       *)
(* whether or not live workers overrun their leases.                       *)
(*                                                                         *)
(* The fleet implements the job table, so every theorem of JobQueueProofs  *)
(* is a theorem about it; and a worker answers only for the attempt it     *)
(* claimed.  FleetInv says what a worker's place in the program means: the *)
(* transaction it has open, the frames it has read, and that the attempt   *)
(* it remembers is the job's attempt whenever the job is still its own.    *)
(*                                                                         *)
(* The artifact directories are safe as long as live workers keep their    *)
(* leases (KeepsLease): then the directory of a job is in the hands of one *)
(* attempt at a time (FilesFit), and a deletion cleans up behind the last  *)
(* (CleaningFits).  Together these are DirectoryInv.                       *)
(***************************************************************************)
EXTENDS VideoWorker, JobQueueProofs

\* The transaction of a worker that stands at a place.
OpFits(op, place) ==
    \/ place = "recovering" /\ op = "recover"
    \/ place = "claiming" /\ op = "claim"
    \/ place = "progressing" /\ op = "progress"
    \/ place = "committing" /\ op = "succeed"
    \/ place = "recording" /\ op = "fail"
    \/ /\ place \notin {"recovering", "claiming", "progressing", "committing", "recording"}
       /\ op = "none"

LocalTypes == /\ pc \in [Workers -> Idling \cup Busy \cup Gone]
              /\ cur \in [Workers -> Jobs \cup {NoJob}]
              /\ run \in [Workers -> 0..MaxAttempts]
              /\ frame \in [Workers -> 0..VideoFrames]
              /\ published \in [Workers -> BOOLEAN]
              /\ stop \in [Workers -> BOOLEAN]

\* The transaction a worker has open is the one of its place, on its own job.
OpFitsPlace == \A w \in Workers :
    /\ OpFits(txn[w].op, pc[w])
    /\ txn[w].op \in OwnerOps => txn[w].rows = {cur[w]}

BusyOnAJob == \A w \in Workers : pc[w] \in Busy => cur[w] \in Jobs /\ run[w] \in 1..MaxAttempts

ReportsAFrame == \A w \in Workers :
    pc[w] \in {"reporting", "progressing"} => frame[w] \in 1..VideoFrames

\* As long as the job is the worker's own, its attempt is the one it claimed.
OwnAttempt == \A w \in Workers :
    pc[w] \in Busy /\ OwnedRunning(w, cur[w]) => run[w] = attempts[cur[w]]

FleetInv == /\ QueueInv
            /\ LocalTypes
            /\ OpFitsPlace
            /\ BusyOnAJob
            /\ ReportsAFrame
            /\ OwnAttempt

-------------------------------------------------------------------------------
(* Every step of the fleet is a step of the table *)

LEMMA ProgressIsReported ==
    ASSUME ReportsAFrame, NEW w \in Workers, At(w, "progressing")
    PROVE  Percent(frame[w]) \in Percents
BY WorkerAssumption DEF ReportsAFrame, At

LEMMA StepIsTableStep ==
    ASSUME LocalTypes, BusyOnAJob, ReportsAFrame, WorkerNext
    PROVE  [Next]_queueVars
<1>1. ASSUME NEW w \in Workers, Work(w) PROVE [Next]_queueVars
  <2> SUFFICES ASSUME ~UNCHANGED queueVars
               PROVE  Select(w) \/ Commit(w) \/ Rollback(w)
    BY DEF Next
  <2>1. CASE Recover(w) \/ Claim(w)
    BY <2>1 DEF Recover, Claim, Select
  <2>2. CASE RecoverCommit(w) \/ ClaimCommit(w) \/ SuccessCommit(w) \/ FailureCommit(w)
    BY <2>2 DEF RecoverCommit, ClaimCommit, SuccessCommit, FailureCommit, Commit
  <2>3. CASE ProgressCommit(w)
    BY <2>3, ProgressIsReported DEF ProgressCommit, Commit
  <2>4. CASE ReportProgress(w) \/ Succeed(w) \/ RecordFailure(w)
    <3>1. cur[w] \in Jobs
      BY <2>4 DEF ReportProgress, Succeed, RecordFailure, At, BusyOnAJob, Busy
    <3> QED BY <2>4, <3>1 DEF ReportProgress, Succeed, RecordFailure, CallAsOwner, Select, OwnerOps
  <2>5. CASE CommitFails(w)
    BY <2>5 DEF CommitFails
  <2>6. CASE \/ Quit(w) \/ Poll(w) \/ Load(w) \/ OpenWriter(w) \/ DecodeFrame(w) \/ Raise(w)
             \/ EndOfLoop(w) \/ Transcode(w) \/ Summarize(w) \/ Clear(w) \/ Rename(w)
             \/ Attach(w) \/ AbortWriter(w)
    BY <2>6 DEF Quit, Poll, Load, OpenWriter, DecodeFrame, Raise, EndOfLoop, Transcode, Summarize,
                Clear, Rename, Attach, AbortWriter
  <2> QED BY <1>1, <2>1, <2>2, <2>3, <2>4, <2>5, <2>6 DEF Work
<1>2. ASSUME NEW w \in Workers, Signal(w) PROVE [Next]_queueVars
  BY <1>2 DEF Signal, RequestStop, Crash, Next
<1>3. ASSUME NEW j \in Jobs, Outside(j) PROVE [Next]_queueVars
  BY <1>3 DEF Outside, Upload, RequestDelete, DeleteRows, DeleteFiles, Elapse, Next, Environment
<1> QED BY <1>1, <1>2, <1>3 DEF WorkerNext

-------------------------------------------------------------------------------
(* FleetInv is inductive *)

LEMMA FleetInit == WorkerInit => FleetInv
<1> SUFFICES ASSUME WorkerInit PROVE FleetInv
  OBVIOUS
<1>1. QueueInv
  BY InitEstablishes DEF WorkerInit
<1>2. LocalTypes /\ BusyOnAJob /\ ReportsAFrame /\ OwnAttempt
  BY WorkerAssumption, QueueAssumption
     DEF WorkerInit, LocalTypes, BusyOnAJob, ReportsAFrame, OwnAttempt, Idling, Busy
<1>3. OpFitsPlace
  BY DEF WorkerInit, Init, NoTxn, OpFitsPlace, OpFits, OwnerOps
<1> QED BY <1>1, <1>2, <1>3 DEF FleetInv

\* A step of one worker leaves the others where they are.
OthersStay(w) == \A v \in Workers \ {w} :
    /\ pc'[v] = pc[v] /\ cur'[v] = cur[v] /\ run'[v] = run[v]
    /\ frame'[v] = frame[v] /\ published'[v] = published[v] /\ txn'[v] = txn[v]

Places == Idling \cup Busy \cup Gone

LEMMA GoToIsLocal ==
    ASSUME LocalTypes, NEW w \in Workers, NEW place \in Places, GoTo(w, place),
           \A v \in Workers \ {w} : txn'[v] = txn[v]
    PROVE  LocalTypes' /\ OthersStay(w) /\ pc'[w] = place /\ cur'[w] = cur[w]
BY DEF LocalTypes, Places, GoTo, OthersStay

LEMMA LeaveIsLocal ==
    ASSUME LocalTypes, NEW w \in Workers, NEW place \in Places, Leave(w, place),
           \A v \in Workers \ {w} : txn'[v] = txn[v]
    PROVE  LocalTypes' /\ OthersStay(w) /\ pc'[w] = place
BY WorkerAssumption, QueueAssumption DEF LocalTypes, Places, Leave, OthersStay

LEMMA TakeIsLocal ==
    ASSUME LocalTypes, NEW w \in Workers, NEW j \in Jobs, NEW r \in 0..MaxAttempts, Take(w, j, r),
           \A v \in Workers \ {w} : txn'[v] = txn[v]
    PROVE  LocalTypes' /\ OthersStay(w) /\ pc'[w] = "loading" /\ cur'[w] = j /\ run'[w] = r
BY DEF LocalTypes, Take, OthersStay, Busy

LEMMA WorkIsLocal ==
    ASSUME FleetInv, NEW w \in Workers, Work(w)
    PROVE  LocalTypes' /\ OthersStay(w)
<1> USE GoToIsLocal, LeaveIsLocal, TakeIsLocal DEF Places, Idling, Busy, Gone
<1>1. LocalTypes /\ txn \in [Workers -> Txns]
  BY DEF FleetInv, QueueInv, TypeOK
<1> DEFINE Ends == \/ RecoverCommit(w) \/ ProgressCommit(w) \/ SuccessCommit(w) \/ FailureCommit(w)
                  \/ CommitFails(w) \/ ClaimCommit(w)
<1>2. CASE UNCHANGED queueVars /\ ~Ends
  <2>1. UNCHANGED txn
    BY <1>2 DEF queueVars
  <2>2. CASE Quit(w) \/ Poll(w) \/ Load(w) \/ OpenWriter(w) \/ Raise(w) \/ EndOfLoop(w)
    BY <1>1, <2>1, <2>2 DEF Quit, Poll, Load, OpenWriter, Raise, EndOfLoop
  <2>3. CASE Transcode(w) \/ Summarize(w) \/ Clear(w) \/ Attach(w) \/ AbortWriter(w)
    BY <1>1, <2>1, <2>3 DEF Transcode, Summarize, Clear, Attach, AbortWriter
  <2>4. CASE DecodeFrame(w) \/ Rename(w)
    <3>1. /\ \E place \in Places : pc' = [pc EXCEPT ![w] = place]
          /\ \/ frame' = [frame EXCEPT ![w] = @ + 1] /\ frame[w] < VideoFrames
             \/ UNCHANGED frame
          /\ published' \in {published, [published EXCEPT ![w] = TRUE]}
          /\ UNCHANGED <<cur, run, stop>>
      BY <2>4 DEF DecodeFrame, Rename, GoTo
    <3>2. frame' \in [Workers -> 0..VideoFrames] /\ \A v \in Workers \ {w} : frame'[v] = frame[v]
      BY <1>1, <3>1, WorkerAssumption DEF LocalTypes
    <3>3. published' \in [Workers -> BOOLEAN]
      <4>1. \A b \in BOOLEAN : [published EXCEPT ![w] = b] \in [Workers -> BOOLEAN]
        BY <1>1 DEF LocalTypes
      <4> QED BY <1>1, <3>1, <4>1 DEF LocalTypes
    <3>4. pc' \in [Workers -> Places]
      BY <1>1, <3>1 DEF LocalTypes
    <3>5. LocalTypes'
      BY <1>1, <3>1, <3>2, <3>3, <3>4 DEF LocalTypes
    <3> QED BY <1>1, <2>1, <3>1, <3>2, <3>5 DEF LocalTypes, OthersStay
  <2>5. CASE Recover(w) \/ Claim(w)
    BY <1>1, <2>1, <2>5 DEF Recover, Claim
  <2>6. CASE ReportProgress(w) \/ Succeed(w) \/ RecordFailure(w)
    BY <1>1, <2>1, <2>6 DEF ReportProgress, Succeed, RecordFailure, CallAsOwner
  <2> QED BY <1>2, <2>2, <2>3, <2>4, <2>5, <2>6 DEF Work
<1>3. CASE (Recover(w) \/ Claim(w) \/ ReportProgress(w) \/ Succeed(w) \/ RecordFailure(w)) /\ ~UNCHANGED queueVars
  <2>1. \A v \in Workers \ {w} : txn'[v] = txn[v]
    BY <1>1, <1>3 DEF Recover, Claim, ReportProgress, Succeed, RecordFailure, CallAsOwner,
          SelectExpired, SelectQueued, SelectOwned, Lock
  <2>2. \E place \in Places : GoTo(w, place)
    BY <1>3 DEF Recover, Claim, ReportProgress, Succeed, RecordFailure, CallAsOwner
  <2> QED BY <1>1, <2>1, <2>2
<1>4. CASE RecoverCommit(w) \/ ProgressCommit(w) \/ SuccessCommit(w) \/ FailureCommit(w)
  <2>1. txn' = [txn EXCEPT ![w] = NoTxn]
    BY <1>4 DEF RecoverCommit, ProgressCommit, SuccessCommit, FailureCommit, CommitRecovery,
          CommitProgress, CommitSuccess, CommitFailure, Commits
  <2>2. \E place \in Places : GoTo(w, place) \/ Leave(w, place)
    BY <1>4 DEF RecoverCommit, ProgressCommit, SuccessCommit, FailureCommit
  <2> QED BY <1>1, <2>1, <2>2
<1>5. CASE CommitFails(w)
  BY <1>1, <1>5 DEF CommitFails, Rollback
<1>6. CASE ClaimCommit(w)
  <2>1. \A j \in txn[w].rows : j \in Jobs /\ attempts'[j] \in 0..MaxAttempts
    BY <1>1, <1>6, QueueAssumption
       DEF ClaimCommit, CommitClaim, Commits, FleetInv, QueueInv, SelectionStillHolds, TypeOK, Txns
  <2> QED BY <1>1, <1>6, <2>1 DEF ClaimCommit, CommitClaim, Commits
<1> QED BY <1>2, <1>3, <1>4, <1>5, <1>6 DEF Work, Quit, Poll, Load, OpenWriter, DecodeFrame, Raise,
           EndOfLoop, Transcode, Summarize, Clear, Rename, Attach, AbortWriter

\* What FleetInv says of one worker, its attempt aside.
InPlace(w) == /\ OpFits(txn[w].op, pc[w])
              /\ txn[w].op \in OwnerOps => txn[w].rows = {cur[w]}
              /\ pc[w] \in Busy => cur[w] \in Jobs /\ run[w] \in 1..MaxAttempts
              /\ pc[w] \in {"reporting", "progressing"} => frame[w] \in 1..VideoFrames

\* A worker at work on its job stays on it, in the attempt it claimed.
StaysOnItsJob(w) == pc'[w] \in Busy => pc[w] \in Busy /\ cur'[w] = cur[w] /\ run'[w] = run[w]

LEMMA WorkKeepsPlace ==
    ASSUME FleetInv, NEW w \in Workers, Work(w)
    PROVE  InPlace(w)' /\ (ClaimCommit(w) \/ StaysOnItsJob(w))
<1> USE WorkerAssumption DEF InPlace, StaysOnItsJob, OpFits, At, Busy, OwnerOps
<1>1. LocalTypes /\ txn \in [Workers -> Txns] /\ InPlace(w)
  BY DEF FleetInv, QueueInv, TypeOK, OpFitsPlace, BusyOnAJob, ReportsAFrame
<1>2. CASE \/ Quit(w) \/ Poll(w) \/ Load(w) \/ OpenWriter(w) \/ Raise(w) \/ EndOfLoop(w)
           \/ Transcode(w) \/ Summarize(w) \/ Clear(w) \/ Attach(w)
  BY <1>1, <1>2 DEF Quit, Poll, Load, OpenWriter, Raise, EndOfLoop, Transcode, Summarize, Clear,
        Attach, GoTo, LocalTypes, queueVars
<1>3. CASE DecodeFrame(w)
  <2>1. frame'[w] = frame[w] + 1 /\ frame[w] \in 0..(VideoFrames - 1)
    BY <1>1, <1>3 DEF DecodeFrame, LocalTypes
  <2>2. /\ pc[w] = "decoding" /\ pc'[w] \in {"reporting", "decoding", "aborting"}
        /\ UNCHANGED <<txn, cur, run>>
    BY <1>1, <1>3 DEF DecodeFrame, LocalTypes, queueVars
  <2> QED BY <1>1, <2>1, <2>2
<1>4. CASE Rename(w) \/ AbortWriter(w)
  BY <1>1, <1>4 DEF Rename, AbortWriter, GoTo, Leave, LocalTypes, queueVars
<1>5. CASE Recover(w) \/ Claim(w)
  BY <1>1, <1>5 DEF Recover, Claim, SelectExpired, SelectQueued, Lock, GoTo, LocalTypes, queueVars
<1>6. CASE ReportProgress(w) \/ Succeed(w) \/ RecordFailure(w)
  BY <1>1, <1>6 DEF ReportProgress, Succeed, RecordFailure, CallAsOwner, SelectOwned, Lock, GoTo, Leave,
        LocalTypes, queueVars
<1>7. CASE RecoverCommit(w) \/ ProgressCommit(w) \/ SuccessCommit(w) \/ FailureCommit(w)
  <2>1. txn'[w] = NoTxn
    BY <1>1, <1>7 DEF RecoverCommit, ProgressCommit, SuccessCommit, FailureCommit, CommitRecovery,
          CommitProgress, CommitSuccess, CommitFailure, Commits
  <2> QED BY <1>1, <1>7, <2>1 DEF RecoverCommit, ProgressCommit, SuccessCommit, FailureCommit, GoTo,
          Leave, LocalTypes, NoTxn
<1>8. CASE CommitFails(w)
  BY <1>1, <1>8 DEF CommitFails, Rollback, GoTo, Leave, LocalTypes, NoTxn
<1>9. CASE ClaimCommit(w)
  <2>1. \A j \in txn[w].rows : j \in Jobs /\ attempts'[j] \in 1..MaxAttempts
    BY <1>1, <1>9, QueueAssumption
       DEF ClaimCommit, CommitClaim, Commits, FleetInv, QueueInv, SelectionStillHolds, TypeOK, Txns
  <2>2. txn'[w] = NoTxn
    BY <1>1, <1>9 DEF ClaimCommit, CommitClaim, Commits
  <2>3. \/ pc'[w] = "waiting"
        \/ pc'[w] = "loading" /\ \E j \in txn[w].rows : cur'[w] = j /\ run'[w] = attempts'[j]
    BY <1>1, <1>9 DEF ClaimCommit, GoTo, Take, LocalTypes
  <2> QED BY <1>9, <2>1, <2>2, <2>3 DEF NoTxn
<1> QED BY <1>2, <1>3, <1>4, <1>5, <1>6, <1>7, <1>8, <1>9 DEF Work

LEMMA SignalKeepsPlace ==
    ASSUME FleetInv, NEW w \in Workers, Signal(w)
    PROVE  LocalTypes' /\ OthersStay(w) /\ InPlace(w)' /\ StaysOnItsJob(w)
<1> USE DEF InPlace, StaysOnItsJob, OpFits, OthersStay, Busy, OwnerOps, Gone
<1>1. LocalTypes /\ txn \in [Workers -> Txns] /\ InPlace(w)
  BY DEF FleetInv, QueueInv, TypeOK, OpFitsPlace, BusyOnAJob, ReportsAFrame
<1>2. CASE RequestStop(w)
  <2>1. stop' \in [Workers -> BOOLEAN]
    BY <1>1, <1>2 DEF RequestStop, LocalTypes
  <2> QED BY <1>1, <1>2, <2>1 DEF RequestStop, LocalTypes, queueVars
<1>3. CASE Crash(w)
  BY <1>1, <1>3 DEF Crash, GoTo, Rollback, Idle, NoTxn, LocalTypes, queueVars
<1> QED BY <1>2, <1>3 DEF Signal

\* A job becomes a worker's own only by its own claim, and only a claim counts
\* an attempt.
LEMMA OwnershipIsClaimed ==
    ASSUME TypeOK, [Next]_queueVars, NEW w \in Workers, NEW j \in Jobs, ~CommitClaim(w), OwnedRunning(w, j)'
    PROVE  OwnedRunning(w, j) /\ attempts'[j] = attempts[j]
<1> USE DEF TypeOK, OwnedRunning, Set
<1>1. CASE UNCHANGED queueVars
  BY <1>1 DEF queueVars
<1>2. ASSUME NEW v \in Workers, Select(v) \/ Rollback(v)
      PROVE  OwnedRunning(w, j) /\ attempts'[j] = attempts[j]
  BY <1>2, SelectWritesNothing DEF rowVars
<1>3. ASSUME NEW v \in Workers, CommitClaim(v)
      PROVE  OwnedRunning(w, j) /\ attempts'[j] = attempts[j]
  BY <1>3 DEF CommitClaim
<1>4. ASSUME NEW v \in Workers, CommitRecovery(v) \/ CommitFailure(v)
      PROVE  OwnedRunning(w, j) /\ attempts'[j] = attempts[j]
  BY <1>4 DEF CommitRecovery, CommitFailure, EndAttempt
<1>5. ASSUME NEW v \in Workers, (\E p \in Percents : CommitProgress(v, p)) \/ CommitSuccess(v)
      PROVE  OwnedRunning(w, j) /\ attempts'[j] = attempts[j]
  BY <1>5 DEF CommitProgress, CommitSuccess
<1>6. ASSUME NEW k \in Jobs, Environment(k)
      PROVE  OwnedRunning(w, j) /\ attempts'[j] = attempts[j]
  BY <1>6 DEF Environment, Submit, CheckDelete, CommitDelete, ExpireLease, rowVars
<1> QED BY <1>1, <1>2, <1>3, <1>4, <1>5, <1>6 DEF Next, Commit

LEMMA ClaimIsOfTheClaimer ==
    ASSUME FleetInv, NEW w \in Workers, pc[w] \in Busy
    PROVE  ~CommitClaim(w)
BY DEF FleetInv, OpFitsPlace, OpFits, Busy, CommitClaim, Commits

LEMMA AttemptKept ==
    ASSUME FleetInv, WorkerNext, NEW w \in Workers, StaysOnItsJob(w)
    PROVE  pc'[w] \in Busy /\ OwnedRunning(w, cur[w])' => run'[w] = attempts'[cur'[w]]
<1> SUFFICES ASSUME pc'[w] \in Busy, OwnedRunning(w, cur[w])'
             PROVE  run'[w] = attempts'[cur'[w]]
  OBVIOUS
<1>1. /\ pc[w] \in Busy /\ cur'[w] = cur[w] /\ run'[w] = run[w]
      /\ cur[w] \in Jobs
      /\ OwnedRunning(w, cur[w]) => run[w] = attempts[cur[w]]
  BY DEF StaysOnItsJob, FleetInv, BusyOnAJob, OwnAttempt
<1>2. [Next]_queueVars
  BY StepIsTableStep DEF FleetInv
<1>3. status'[cur[w]] = "running" /\ owner'[cur[w]] = w
  BY <1>1 DEF OwnedRunning
<1>4. ASSUME NEW j \in Jobs, j = cur[w] PROVE OwnedRunning(w, j) /\ attempts'[j] = attempts[j]
  BY <1>1, <1>2, <1>3, <1>4, ClaimIsOfTheClaimer, OwnershipIsClaimed DEF FleetInv, QueueInv, OwnedRunning
<1> QED BY <1>1, <1>4

LEMMA FleetStep == FleetInv /\ [WorkerNext]_workerVars => FleetInv'
<1> SUFFICES ASSUME FleetInv, [WorkerNext]_workerVars PROVE FleetInv'
  OBVIOUS
<1>1. CASE UNCHANGED workerVars
  <2>1. QueueInv'
    BY <1>1, StepPreserves DEF FleetInv, workerVars
  <2>2. UNCHANGED <<txn, status, owner, attempts, pc, cur, run, frame, published, stop>>
    BY <1>1 DEF workerVars, queueVars, localVars
  <2> QED BY <2>1, <2>2 DEF FleetInv, LocalTypes, OpFitsPlace, BusyOnAJob, ReportsAFrame, OwnAttempt,
             OwnedRunning
<1>2. CASE WorkerNext
  <2>1. QueueInv'
    BY <1>2, StepIsTableStep, StepPreserves DEF FleetInv
  <2>2. LocalTypes' /\ \A v \in Workers : InPlace(v)' /\ (ClaimCommit(v) \/ StaysOnItsJob(v))
    <3>1. \A v \in Workers : InPlace(v)
      BY DEF FleetInv, InPlace, OpFitsPlace, BusyOnAJob, ReportsAFrame
    <3>2. ASSUME NEW w \in Workers, Work(w) \/ Signal(w)
          PROVE  LocalTypes' /\ \A v \in Workers : InPlace(v)' /\ (ClaimCommit(v) \/ StaysOnItsJob(v))
      <4>1. LocalTypes' /\ OthersStay(w) /\ InPlace(w)' /\ (ClaimCommit(w) \/ StaysOnItsJob(w))
        BY <3>2, WorkIsLocal, WorkKeepsPlace, SignalKeepsPlace
      <4>2. \A v \in Workers \ {w} : InPlace(v)' /\ StaysOnItsJob(v)
        BY <3>1, <4>1 DEF OthersStay, InPlace, StaysOnItsJob
      <4> QED BY <4>1, <4>2
    <3>3. ASSUME NEW j \in Jobs, Outside(j)
          PROVE  LocalTypes' /\ \A v \in Workers : InPlace(v)' /\ StaysOnItsJob(v)
      <4>1. UNCHANGED <<txn, pc, cur, run, frame, published, stop>>
        BY <3>3 DEF Outside, Upload, RequestDelete, DeleteRows, DeleteFiles, Elapse, Submit, CheckDelete,
              CommitDelete, ExpireLease, localVars, queueVars
      <4> QED BY <3>1, <4>1 DEF FleetInv, LocalTypes, InPlace, StaysOnItsJob
    <3> QED BY <1>2, <3>2, <3>3 DEF WorkerNext
  <2>3. OwnAttempt'
    <3> SUFFICES ASSUME NEW w \in Workers, pc'[w] \in Busy, OwnedRunning(w, cur[w])'
                 PROVE  run'[w] = attempts'[cur'[w]]
      BY DEF OwnAttempt
    <3>1. CASE StaysOnItsJob(w)
      BY <1>2, <3>1, AttemptKept
    <3>2. CASE ClaimCommit(w)
      BY <3>2 DEF ClaimCommit, Take, GoTo, FleetInv, LocalTypes, Busy, At
    <3> QED BY <2>2, <3>1, <3>2
  <2> QED BY <2>1, <2>2, <2>3
          DEF FleetInv, InPlace, OpFitsPlace, BusyOnAJob, ReportsAFrame
<1> QED BY <1>1, <1>2

-------------------------------------------------------------------------------

\* The inductive invariant holds in every state of every fleet.
THEOREM FleetSafe == WorkerSpec => []FleetInv
BY FleetInit, FleetStep, PTL DEF WorkerSpec

\* The worker loop uses the job table only through the table's own
\* transactions: the fleet implements the specification of the table.
THEOREM FleetRefinesQueue == WorkerSpec => RefinesQueue
<1>1. WorkerInit => Init
  BY DEF WorkerInit
<1>2. FleetInv /\ [WorkerNext]_workerVars => [Next]_queueVars
  BY StepIsTableStep DEF FleetInv, workerVars, queueVars
<1> QED BY <1>1, <1>2, FleetSafe, PTL DEF WorkerSpec, Spec, RefinesQueue

\* Hence what was proved of the table holds of the fleet, the promised
\* lifecycle included.
THEOREM FleetKeepsLifecycle ==
    WorkerSpec => [](RowsCoherent /\ VideoFollowsJob) /\ EndedStaysEnded /\ ImplementsLifecycle
BY FleetRefinesQueue, RowsAlwaysCoherent, VideoAlwaysFollows, EndedJobsStayEnded,
   QueueImplementsLifecycle, PTL DEF RefinesQueue

\* A worker that was declared lost never answers for a later attempt.
THEOREM AnswersAreForOwnAttempt == WorkerSpec => []AnswersForItsAttempt
<1>1. FleetInv => AnswersForItsAttempt
  <2> SUFFICES ASSUME FleetInv, NEW w \in Workers,
                      pc[w] \in {"progressing", "committing", "recording"}
               PROVE  owner[cur[w]] = w /\ run[w] = attempts[cur[w]]
    BY DEF AnswersForItsAttempt
  <2>1. txn[w].op \in OwnerOps /\ txn[w].rows = {cur[w]} /\ pc[w] \in Busy
    BY DEF FleetInv, OpFitsPlace, OpFits, OwnerOps, Busy
  <2>2. OwnedRunning(w, cur[w])
    BY <2>1 DEF FleetInv, QueueInv, SelectionStillHolds
  <2> QED BY <2>1, <2>2 DEF FleetInv, OwnAttempt, OwnedRunning
<1> QED BY <1>1, FleetSafe, PTL

-------------------------------------------------------------------------------
(* Types of the files and of the rest *)

OtherTypes == /\ decoded \in [Jobs -> 0..VideoFrames]
              /\ cleaning \in [Jobs -> {"nothing", "both", "partial"}]
              /\ faults \in 0..MaxFaults

FileTypes == ArtifactsTypeOK(Jobs, 1..MaxAttempts)

\* What the operations of the writer leave of directories are directories.
LEMMA FilesStayTyped ==
    ASSUME FileTypes, NEW j \in Jobs, NEW r \in 1..MaxAttempts,
           \/ Create(j, r) \/ WriteFiles(j, r) \/ CloseAndTranscode(j, r) \/ WriteSummary(j, r)
           \/ RemovePublished(j) \/ Publish(j) \/ Abort(j, r) \/ RemovePartial(j)
           \/ CreateFails(j, r) \/ AbortFails(j, r)
    PROVE  FileTypes'
<1> USE DEF FileTypes, ArtifactsTypeOK
<1>1. \A dir \in Directories(1..MaxAttempts) \cup {NoDir} : CloseIn(dir, r) \in Directories(1..MaxAttempts) \cup {NoDir}
  BY DEF CloseIn, Directories
<1>2. CASE Create(j, r)
  BY <1>2 DEF Create, Directories
<1>3. CASE WriteFiles(j, r)
  <2>1. part[j] \in Directories(1..MaxAttempts)
    BY <1>3 DEF WriteFiles, CanWrite
  <2>2. [part[j] EXCEPT !.files = part[j].files \cup {r}] \in Directories(1..MaxAttempts)
    BY <2>1 DEF Directories
  <2> QED BY <1>3, <2>2 DEF WriteFiles
<1>4. CASE CloseAndTranscode(j, r)
  <2>1. Transcoded(part[j], r) \in Directories(1..MaxAttempts) \cup {NoDir}
    <3>1. CASE part[j] # NoDir
      <4>1. part[j] \in Directories(1..MaxAttempts)
        BY <3>1
      <4>2. CloseIn(part[j], r) \in Directories(1..MaxAttempts)
        BY <3>1, <4>1 DEF CloseIn, Directories
      <4>3. \A dir \in Directories(1..MaxAttempts) :
                [dir EXCEPT !.files = dir.files \cup {r}] \in Directories(1..MaxAttempts)
        BY DEF Directories
      <4> QED BY <4>2, <4>3 DEF Transcoded
    <3>2. CASE part[j] = NoDir
      BY <1>1, <3>2 DEF Transcoded
    <3> QED BY <3>1, <3>2
  <2> QED BY <1>1, <1>4, <2>1 DEF CloseAndTranscode
<1>5. CASE WriteSummary(j, r)
  <2>1. part[j] \in Directories(1..MaxAttempts)
    BY <1>5 DEF WriteSummary, CanWrite
  <2>2. [part[j] EXCEPT !.summary = r] \in Directories(1..MaxAttempts)
    BY <2>1 DEF Directories
  <2> QED BY <1>5, <2>2 DEF WriteSummary
<1>6. CASE RemovePublished(j) \/ Publish(j) \/ RemovePartial(j)
  BY <1>6 DEF RemovePublished, Publish, RemovePartial
<1>7. CASE Abort(j, r) \/ AbortFails(j, r)
  BY <1>1, <1>7 DEF Abort, AbortFails
<1>8. CASE CreateFails(j, r)
  BY <1>2, <1>8 DEF CreateFails, artifactVars
<1> QED BY <1>2, <1>3, <1>4, <1>5, <1>6, <1>7, <1>8

\* Places at which a worker may change files; a writer that has published is
\* not aborted.
Handling(w) == /\ pc[w] \in Busy \ {"loading", "failing", "recording"}
               /\ pc[w] = "aborting" => ~published[w]

LEMMA WorkOnFiles ==
    ASSUME NEW w \in Workers, Work(w), ~UNCHANGED artifactVars
    PROVE  /\ Handling(w)
           /\ \/ Create(cur[w], run[w]) \/ WriteFiles(cur[w], run[w]) \/ CloseAndTranscode(cur[w], run[w])
              \/ WriteSummary(cur[w], run[w]) \/ RemovePublished(cur[w]) \/ Publish(cur[w])
              \/ Abort(cur[w], run[w]) \/ CreateFails(cur[w], run[w]) \/ AbortFails(cur[w], run[w])
BY DEF Handling, Work, Quit, Recover, RecoverCommit, Claim, ClaimCommit, Poll, Load, OpenWriter, DecodeFrame,
   Raise, EndOfLoop, ReportProgress, ProgressCommit, Transcode, Summarize, Clear, Rename, Attach,
   Succeed, SuccessCommit, AbortWriter, RecordFailure, FailureCommit, CommitFails, CallAsOwner, At, Busy

LEMMA WorkKeepsTypes ==
    ASSUME FleetInv, FileTypes, OtherTypes, NEW w \in Workers, Work(w)
    PROVE  FileTypes' /\ OtherTypes'
<1>1. LocalTypes /\ (pc[w] \in Busy => cur[w] \in Jobs /\ run[w] \in 1..MaxAttempts)
  BY DEF FleetInv, BusyOnAJob
<1>2. OtherTypes'
  <2> USE WorkerAssumption DEF OtherTypes
  <2>1. CASE SuccessCommit(w)
    <3>1. decoded' \in [Jobs -> 0..VideoFrames]
      BY <1>1, <2>1 DEF SuccessCommit, LocalTypes
    <3> QED BY <2>1, <3>1 DEF SuccessCommit, Fault, NoFault
  <2>2. CASE ClaimCommit(w) \/ CommitFails(w)
    BY <2>2 DEF ClaimCommit, CommitFails, Fault, NoFault
  <2> QED BY <2>1, <2>2 DEF Work, Quit, Recover, RecoverCommit, Claim, Poll, Load, OpenWriter, DecodeFrame,
        Raise, EndOfLoop, ReportProgress, ProgressCommit, Transcode, Summarize, Clear, Rename, Attach,
        Succeed, AbortWriter, RecordFailure, FailureCommit, CallAsOwner
<1>3. FileTypes'
  <2>1. CASE UNCHANGED artifactVars
    BY <2>1 DEF FileTypes, ArtifactsTypeOK, artifactVars
  <2>2. CASE ~UNCHANGED artifactVars
    <3> QED BY <1>1, <2>2, WorkOnFiles, FilesStayTyped DEF Handling
  <2> QED BY <2>1, <2>2
<1> QED BY <1>2, <1>3

LEMMA TypesStep == FleetInv /\ FileTypes /\ OtherTypes /\ [WorkerNext]_workerVars => FileTypes' /\ OtherTypes'
<1> SUFFICES ASSUME FleetInv, FileTypes, OtherTypes, [WorkerNext]_workerVars PROVE FileTypes' /\ OtherTypes'
  OBVIOUS
<1>1. CASE UNCHANGED <<artifactVars, decoded, cleaning, faults>>
  BY <1>1 DEF FileTypes, ArtifactsTypeOK, artifactVars, OtherTypes
<1>2. ASSUME NEW w \in Workers, Work(w) PROVE FileTypes' /\ OtherTypes'
  BY <1>2, WorkKeepsTypes
<1>3. ASSUME NEW w \in Workers, Signal(w) PROVE UNCHANGED <<artifactVars, decoded, cleaning, faults>>
  BY <1>3 DEF Signal, RequestStop, Crash
<1>4. ASSUME NEW j \in Jobs, Upload(j) \/ RequestDelete(j) \/ Elapse(j)
      PROVE  UNCHANGED <<artifactVars, decoded, cleaning, faults>>
  BY <1>4 DEF Upload, RequestDelete, Elapse
<1>5. ASSUME NEW j \in Jobs, DeleteRows(j) \/ DeleteFiles(j) PROVE FileTypes' /\ OtherTypes'
  <2>1. OtherTypes'
    BY <1>5 DEF DeleteRows, DeleteFiles, OtherTypes
  <2>2. CASE UNCHANGED artifactVars
    BY <2>1, <2>2 DEF FileTypes, ArtifactsTypeOK, artifactVars
  <2>3. CASE RemovePublished(j) \/ RemovePartial(j)
    <3>1. 1 \in 1..MaxAttempts
      BY QueueAssumption
    <3> QED BY <2>1, <2>3, <3>1, FilesStayTyped
  <2> QED BY <1>5, <2>2, <2>3 DEF DeleteRows, DeleteFiles
<1>6. CASE UNCHANGED workerVars
  BY <1>1, <1>6 DEF workerVars
<1> QED BY <1>1, <1>2, <1>3, <1>4, <1>5, <1>6 DEF WorkerNext, Outside

\* The type invariant of the fleet.
THEOREM FleetTypes == WorkerSpec => []WorkerTypeOK
<1>1. WorkerInit => FileTypes /\ OtherTypes
  BY WorkerAssumption DEF WorkerInit, FileTypes, ArtifactsTypeOK, ArtifactsInit, OtherTypes
<1>2. FleetInv /\ FileTypes /\ OtherTypes => WorkerTypeOK
  BY DEF FleetInv, QueueInv, LocalTypes, FileTypes, OtherTypes, WorkerTypeOK
<1> QED BY <1>1, <1>2, FleetSafe, TypesStep, PTL DEF WorkerSpec

-------------------------------------------------------------------------------
(* The directories, as long as no live worker overruns its lease *)

\* The job of a worker at work is its own and its lease is live, unless the
\* commit of its success raised although it took effect.
KeepsLease == \A w \in Workers : pc[w] \in Busy =>
    \/ OwnedRunning(w, cur[w]) /\ lease[cur[w]] = "live"
    \/ /\ status[cur[w]] \in {"succeeded", "deleted"}
       /\ pc[w] \in {"aborting", "failing"}
       /\ published[w]

Writing == {"decoding", "reporting", "progressing", "transcoding", "summarizing", "clearing",
            "publishing"}

\* What a worker has made of the directory of its job when it is at a place.
FilesFit(w) ==
    /\ pc[w] \in Writing => /\ part[cur[w]] # NoDir
                            /\ part[cur[w]].maker = run[w]
                            /\ part[cur[w]].files \subseteq {run[w]}
    /\ pc[w] \in {"summarizing", "clearing", "publishing"} => part[cur[w]].closed
    /\ pc[w] \in {"clearing", "publishing"} => part[cur[w]].summary = run[w]
    /\ pc[w] \in {"attaching", "succeeding", "committing"} =>
          published[w] /\ Intact(final[cur[w]], run[w])

\* Files are removed from deleted jobs, the published directory first.
CleaningFits == \A j \in Jobs :
    /\ cleaning[j] # "nothing" => status[j] = "deleted"
    /\ status[j] = "deleted" /\ cleaning[j] # "both" => final[j] = NoDir
    /\ status[j] = "deleted" /\ cleaning[j] = "nothing" => part[j] = NoDir

DirectoryInv == /\ FleetInv
                /\ FileTypes
                /\ OtherTypes
                /\ KeepsLease
                /\ \A w \in Workers : FilesFit(w)
                /\ CleaningFits
                /\ SucceededIntact

\* A row that no transaction of its worker may hold is left alone by what that
\* worker does.
LEMMA WorkOnRows ==
    ASSUME FleetInv, NEW w \in Workers, Work(w), NEW j \in Jobs, j \notin txn[w].rows
    PROVE  status'[j] = status[j] /\ owner'[j] = owner[j] /\ lease'[j] = lease[j] /\ attempts'[j] = attempts[j]
<1>1. UNCHANGED rowVars \/ Commit(w)
  <2>1. CASE Recover(w) \/ Claim(w)
    BY <2>1 DEF Recover, Claim, SelectExpired, SelectQueued, Lock, queueVars, rowVars
  <2>2. CASE RecoverCommit(w) \/ ClaimCommit(w) \/ SuccessCommit(w) \/ FailureCommit(w)
    BY <2>2 DEF RecoverCommit, ClaimCommit, SuccessCommit, FailureCommit, Commit
  <2>3. CASE ProgressCommit(w)
    BY <2>3, ProgressIsReported DEF ProgressCommit, Commit, FleetInv
  <2>4. CASE ReportProgress(w) \/ Succeed(w) \/ RecordFailure(w)
    BY <2>4 DEF ReportProgress, Succeed, RecordFailure, CallAsOwner, SelectOwned, Lock, queueVars, rowVars
  <2>5. CASE CommitFails(w)
    BY <2>5 DEF CommitFails, Rollback
  <2> QED BY <2>1, <2>2, <2>3, <2>4, <2>5 DEF Work, Quit, Poll, Load, OpenWriter, DecodeFrame, Raise,
        EndOfLoop, Transcode, Summarize, Clear, Rename, Attach, AbortWriter, queueVars, rowVars
<1>2. CASE UNCHANGED rowVars
  BY <1>2 DEF rowVars
<1>3. CASE Commit(w)
  BY <1>3, CommitIsLocal DEF FleetInv
<1> QED BY <1>1, <1>2, <1>3

\* A job that ended is in no transaction; neither is one with a live lease in
\* any but its owner's.
LEMMA RowsNotHeld ==
    ASSUME FleetInv, NEW w \in Workers, NEW j \in Jobs,
           status[j] \in {"absent", "succeeded", "failed", "deleted"} \/ (lease[j] = "live" /\ owner[j] # w)
    PROVE  j \notin txn[w].rows
BY HeldRows DEF FleetInv

\* Nothing ends, takes over or expires the job of a worker at work but the
\* worker itself.
LEMMA KeptByOthers ==
    ASSUME DirectoryInv, ~SlowWorkers, NEW v \in Workers, pc[v] \in Busy,
           OwnedRunning(v, cur[v]), lease[cur[v]] = "live",
           \/ \E w \in Workers \ {v} : Work(w)
           \/ \E w \in Workers : Signal(w)
           \/ \E k \in Jobs : Outside(k)
    PROVE  /\ status'[cur[v]] = "running" /\ owner'[cur[v]] = v /\ lease'[cur[v]] = "live"
<1> DEFINE j == cur[v]
<1>0. /\ FleetInv /\ TypeOK /\ j \in Jobs /\ status[j] = "running" /\ owner[j] = v /\ lease[j] = "live"
  BY DEF DirectoryInv, FleetInv, QueueInv, BusyOnAJob, OwnedRunning
<1> HIDE DEF j
<1>1. ASSUME NEW w \in Workers \ {v}, Work(w)
      PROVE  status'[j] = "running" /\ owner'[j] = v /\ lease'[j] = "live"
  BY <1>0, <1>1, RowsNotHeld, WorkOnRows
<1>2. ASSUME NEW w \in Workers, Signal(w)
      PROVE  status'[j] = "running" /\ owner'[j] = v /\ lease'[j] = "live"
  BY <1>0, <1>2 DEF Signal, RequestStop, Crash, Rollback, queueVars, rowVars
<1>3. ASSUME NEW k \in Jobs, Outside(k)
      PROVE  status'[j] = "running" /\ owner'[j] = v /\ lease'[j] = "live"
  <2>1. CASE Upload(k)
    BY <1>0, <2>1 DEF Upload, Submit, Set
  <2>2. CASE RequestDelete(k) \/ DeleteFiles(k)
    BY <1>0, <2>2 DEF RequestDelete, CheckDelete, DeleteFiles, queueVars, rowVars
  <2>3. CASE DeleteRows(k)
    <3>1. k # j
      BY <1>0, <2>3 DEF DeleteRows, CommitDelete, FleetInv, QueueInv, DeleteCheckStillHolds, Terminal
    <3> QED BY <1>0, <2>3, <3>1 DEF DeleteRows, CommitDelete, Set
  <2>4. CASE Elapse(k)
    <3>1. k # j
      BY <2>4 DEF Elapse, WorkedOn, j
    <3> QED BY <1>0, <2>4, <3>1 DEF Elapse, ExpireLease, Set
  <2> QED BY <1>3, <2>1, <2>2, <2>3, <2>4 DEF Outside
<1> QED BY <1>1, <1>2, <1>3 DEF j

\* What succeeded has succeeded or is deleted, and what is deleted stays so.
LEMMA EndedStays ==
    ASSUME FleetInv, WorkerNext, NEW j \in Jobs
    PROVE  /\ status[j] = "succeeded" => status'[j] \in {"succeeded", "deleted"} /\ attempts'[j] = attempts[j]
           /\ status[j] = "deleted" => status'[j] = "deleted"
<1> SUFFICES ASSUME status[j] \in {"succeeded", "deleted"}
             PROVE  status'[j] \in {status[j], "deleted"} /\ attempts'[j] = attempts[j]
  OBVIOUS
<1>0. TypeOK
  BY DEF FleetInv, QueueInv
<1>1. ASSUME NEW w \in Workers, Work(w) PROVE status'[j] = status[j] /\ attempts'[j] = attempts[j]
  BY <1>1, RowsNotHeld, WorkOnRows
<1>2. ASSUME NEW w \in Workers, Signal(w) PROVE status'[j] = status[j] /\ attempts'[j] = attempts[j]
  BY <1>2 DEF Signal, RequestStop, Crash, Rollback, queueVars, rowVars
<1>3. ASSUME NEW k \in Jobs, Outside(k) PROVE status'[j] \in {status[j], "deleted"} /\ attempts'[j] = attempts[j]
  BY <1>0, <1>3 DEF Outside, Upload, Submit, RequestDelete, CheckDelete, DeleteFiles, DeleteRows, CommitDelete,
     Elapse, ExpireLease, Set, queueVars, rowVars, TypeOK
<1> QED BY <1>1, <1>2, <1>3 DEF WorkerNext

\* A worker changes the files of its own job only.
LEMMA FilesOfOthers ==
    ASSUME DirectoryInv, NEW w \in Workers, Work(w), NEW j \in Jobs,
           ~(pc[w] \in Busy /\ cur[w] = j /\ OwnedRunning(w, j))
    PROVE  part'[j] = part[j] /\ final'[j] = final[j]
<1>0. FileTypes /\ KeepsLease
  BY DEF DirectoryInv
<1>1. CASE UNCHANGED artifactVars
  BY <1>1 DEF artifactVars
<1>2. CASE ~UNCHANGED artifactVars
  <2>1. cur[w] # j
    <3>1. Handling(w)
      BY <1>2, WorkOnFiles
    <3> QED BY <1>0, <3>1 DEF Handling, KeepsLease
  <2> QED BY <1>0, <1>2, <2>1, WorkOnFiles DEF Create, WriteFiles, CloseAndTranscode, WriteSummary,
        RemovePublished, Publish, Abort, CreateFails, AbortFails, FileTypes, ArtifactsTypeOK, artifactVars
<1> QED BY <1>1, <1>2

LEMMA LeaseStep == DirectoryInv /\ ~SlowWorkers /\ WorkerNext => KeepsLease'
<1> SUFFICES ASSUME DirectoryInv, ~SlowWorkers, WorkerNext, NEW v \in Workers, pc'[v] \in Busy
             PROVE  \/ OwnedRunning(v, cur[v])' /\ lease'[cur'[v]] = "live"
                    \/ /\ status'[cur'[v]] \in {"succeeded", "deleted"}
                       /\ pc'[v] \in {"aborting", "failing"}
                       /\ published'[v]
  BY DEF KeepsLease
<1>0. FleetInv /\ LocalTypes /\ TypeOK /\ KeepsLease /\ (pc[v] \in Busy => cur[v] \in Jobs)
  BY DEF DirectoryInv, FleetInv, QueueInv, BusyOnAJob
<1>1. CASE \/ \E w \in Workers \ {v} : Work(w)
           \/ \E w \in Workers : Signal(w)
           \/ \E k \in Jobs : Outside(k)
  <2>1. /\ pc'[v] = pc[v] /\ cur'[v] = cur[v] /\ published'[v] = published[v]
    <3>1. ASSUME NEW w \in Workers \ {v}, Work(w)
          PROVE  pc'[v] = pc[v] /\ cur'[v] = cur[v] /\ published'[v] = published[v]
      BY <1>0, <3>1, WorkIsLocal DEF OthersStay
    <3>2. ASSUME NEW w \in Workers, Signal(w)
          PROVE  pc'[v] = pc[v] /\ cur'[v] = cur[v] /\ published'[v] = published[v]
      BY <1>0, <3>2 DEF Signal, RequestStop, Crash, GoTo, LocalTypes, Busy
    <3>3. ASSUME NEW k \in Jobs, Outside(k)
          PROVE  pc'[v] = pc[v] /\ cur'[v] = cur[v] /\ published'[v] = published[v]
      BY <3>3 DEF Outside, Upload, RequestDelete, DeleteRows, DeleteFiles, Elapse, localVars
    <3> QED BY <1>1, <3>1, <3>2, <3>3
  <2>2. CASE OwnedRunning(v, cur[v]) /\ lease[cur[v]] = "live"
    BY <1>1, <2>1, <2>2, KeptByOthers DEF OwnedRunning
  <2>3. CASE status[cur[v]] \in {"succeeded", "deleted"} /\ pc[v] \in {"aborting", "failing"} /\ published[v]
    BY <1>0, <2>1, <2>3, EndedStays
  <2> QED BY <1>0, <2>1, <2>2, <2>3 DEF KeepsLease
<1>2. CASE Work(v)
  <2>1. CASE ClaimCommit(v)
    <3>1. PICK k \in txn[v].rows : Take(v, k, attempts'[k])
      BY <1>0, <2>1 DEF ClaimCommit, GoTo, LocalTypes, Busy
    <3>2. k \in Jobs /\ txn[v].rows \subseteq Jobs
      BY <1>0 DEF TypeOK, Txns
    <3>3. cur'[v] = k
      BY <1>0, <3>1 DEF Take, LocalTypes
    <3> QED BY <1>0, <2>1, <3>2, <3>3 DEF ClaimCommit, CommitClaim, Set, OwnedRunning, TypeOK
  <2>2. CASE ~ClaimCommit(v)
    <3>1. pc[v] \in Busy /\ cur'[v] = cur[v]
      BY <1>0, <1>2, <2>2, WorkKeepsPlace DEF StaysOnItsJob
    <3> DEFINE j == cur[v]
    <3>2. CASE OwnedRunning(v, j) /\ lease[j] = "live"
      <4>1. CASE SuccessCommit(v)
        <5>1. pc'[v] = "aborting" /\ published'[v] = published[v] /\ status'[j] = "succeeded"
          <6>1. txn[v].rows = {j}
            BY <1>0, <4>1 DEF SuccessCommit, CommitSuccess, Commits, FleetInv, OpFitsPlace, OwnerOps
          <6>2. GoTo(v, "aborting")
            BY <1>0, <4>1 DEF SuccessCommit, Leave, LocalTypes, Busy
          <6> QED BY <1>0, <3>1, <4>1, <6>1, <6>2 DEF SuccessCommit, CommitSuccess, Set, GoTo, LocalTypes
        <5>2. published[v]
          BY <4>1 DEF SuccessCommit, At, DirectoryInv, FilesFit
        <5> QED BY <3>1, <5>1, <5>2
      <4>2. CASE FailureCommit(v)
        BY <1>0, <4>2 DEF FailureCommit, Leave, LocalTypes, Busy
      <4>3. CASE ProgressCommit(v)
        BY <1>0, <3>1, <3>2, <4>3 DEF ProgressCommit, CommitProgress, Set, OwnedRunning, TypeOK
      <4>4. CASE UNCHANGED rowVars
        BY <3>1, <3>2, <4>4 DEF rowVars, OwnedRunning
      <4> QED BY <1>2, <2>2, <3>1, <4>1, <4>2, <4>3, <4>4
              DEF Work, Quit, Recover, RecoverCommit, Claim, Poll, Load, OpenWriter, DecodeFrame, Raise,
                  EndOfLoop, ReportProgress, Transcode, Summarize, Clear, Rename, Attach, Succeed,
                  AbortWriter, RecordFailure, CommitFails, CallAsOwner, SelectOwned, Lock, Rollback,
                  At, Busy, queueVars, rowVars
    <3>3. CASE status[j] \in {"succeeded", "deleted"} /\ pc[v] \in {"aborting", "failing"} /\ published[v]
      <4>1. status'[j] \in {"succeeded", "deleted"}
        BY <1>0, <3>1, <3>3, EndedStays
      <4>2. pc'[v] = "failing" /\ published'[v] = published[v]
        <5>1. CASE pc[v] = "aborting"
          BY <1>0, <1>2, <2>2, <3>3, <5>1
             DEF Work, Quit, Recover, RecoverCommit, Claim, Poll, Load, OpenWriter, DecodeFrame, Raise,
                 EndOfLoop, ReportProgress, ProgressCommit, Transcode, Summarize, Clear, Rename, Attach,
                 Succeed, SuccessCommit, AbortWriter, RecordFailure, FailureCommit, CommitFails, At,
                 GoTo, LocalTypes
        <5>2. CASE pc[v] = "failing"
          <6>1. RecordFailure(v)
            BY <1>2, <2>2, <5>2
               DEF Work, Quit, Recover, RecoverCommit, Claim, Poll, Load, OpenWriter, DecodeFrame, Raise,
                   EndOfLoop, ReportProgress, ProgressCommit, Transcode, Summarize, Clear, Rename, Attach,
                   Succeed, SuccessCommit, AbortWriter, FailureCommit, CommitFails, At
          <6>2. Leave(v, "recover")
            BY <3>3, <6>1 DEF RecordFailure, CallAsOwner, SelectOwned, OwnedRunning
          <6> QED BY <1>0, <6>2 DEF Leave, LocalTypes, Busy
        <5> QED BY <3>3, <5>1, <5>2
      <4> QED BY <3>1, <3>3, <4>1, <4>2
    <3> QED BY <1>0, <3>1, <3>2, <3>3 DEF KeepsLease
  <2> QED BY <2>1, <2>2
<1> QED BY <1>1, <1>2 DEF WorkerNext

FilePlaces == Writing \cup {"attaching", "succeeding", "committing"}

\* What a worker that is at work on its job makes of its directory.
LEMMA OwnFilesStep ==
    ASSUME DirectoryInv, NEW w \in Workers, Work(w), pc'[w] \in FilePlaces
    PROVE  FilesFit(w)'
<1> DEFINE j == cur[w]
           r == run[w]
<1>0. FleetInv /\ LocalTypes /\ FileTypes /\ FilesFit(w)
  BY DEF DirectoryInv, FleetInv
<1>1. \/ OpenWriter(w) \/ DecodeFrame(w) \/ ReportProgress(w) \/ ProgressCommit(w) \/ EndOfLoop(w)
      \/ Transcode(w) \/ Summarize(w) \/ Clear(w) \/ Rename(w) \/ Attach(w) \/ Succeed(w)
  BY <1>0 DEF Work, Quit, Recover, RecoverCommit, Claim, ClaimCommit, Poll, Load, Raise, SuccessCommit,
     AbortWriter, RecordFailure, FailureCommit, CommitFails, CallAsOwner, GoTo, Leave, Take, LocalTypes,
     FilePlaces, Writing
<1>2. pc[w] \in Busy /\ j \in Jobs /\ r \in 1..MaxAttempts /\ cur'[w] = j /\ run'[w] = r
  <2>1. pc[w] \in Busy
    BY <1>1 DEF OpenWriter, DecodeFrame, ReportProgress, ProgressCommit, EndOfLoop, Transcode, Summarize,
       Clear, Rename, Attach, Succeed, At, Busy
  <2>2. ~ClaimCommit(w) /\ pc'[w] \in Busy
    BY <2>1, ClaimIsOfTheClaimer, <1>0 DEF ClaimCommit, FilePlaces, Writing, Busy
  <2> QED BY <1>0, <2>1, <2>2, WorkKeepsPlace DEF StaysOnItsJob, FleetInv, BusyOnAJob
<1>3. part[j] # NoDir => part[j] \in Directories(1..MaxAttempts)
  BY <1>0, <1>2 DEF FileTypes, ArtifactsTypeOK
<1>4. final[j] # NoDir => final[j] \in Directories(1..MaxAttempts)
  BY <1>0, <1>2 DEF FileTypes, ArtifactsTypeOK
<1> HIDE DEF j, r
<1>5. CASE OpenWriter(w)
  <2> DEFINE new == [maker |-> r, files |-> {}, summary |-> NoRun, closed |-> FALSE]
  <2>1. pc'[w] = "decoding" /\ part'[j] = new
    <3>1. pc'[w] = "decoding" /\ Create(cur[w], run[w])
      BY <1>0, <1>5 DEF OpenWriter, GoTo, LocalTypes, FilePlaces, Writing
    <3> QED BY <1>0, <1>2, <3>1 DEF Create, FileTypes, ArtifactsTypeOK, j, r
  <2>2. new # NoDir
    <3>1. new \in Directories(1..MaxAttempts)
      BY <1>2 DEF Directories
    <3> QED BY <3>1, WorkerAssumption
  <2> QED BY <1>2, <2>1, <2>2 DEF FilesFit, Writing
<1>6. CASE DecodeFrame(w)
  <2>1. pc[w] = "decoding" /\ pc'[w] \in {"decoding", "reporting"}
    BY <1>0, <1>6 DEF DecodeFrame, At, LocalTypes, FilePlaces, Writing
  <2>2. part[j] # NoDir /\ part[j].maker = r /\ part[j].files \subseteq {r}
    BY <1>0, <2>1 DEF FilesFit, Writing, j, r
  <2>3. part'[j] \in {part[j], [part[j] EXCEPT !.files = part[j].files \cup {r}]}
    BY <1>0, <1>2, <1>6, <2>1 DEF DecodeFrame, WriteFiles, FileTypes, ArtifactsTypeOK, artifactVars, j, r
  <2>4. part'[j] # NoDir
    <3>1. [part[j] EXCEPT !.files = part[j].files \cup {r}] \in Directories(1..MaxAttempts)
      BY <1>2, <1>3, <2>2 DEF Directories
    <3> QED BY <2>2, <2>3, <3>1, WorkerAssumption
  <2>5. part'[j].maker = r /\ part'[j].files \subseteq {r}
    BY <1>3, <2>2, <2>3 DEF Directories
  <2> QED BY <1>2, <2>1, <2>4, <2>5 DEF FilesFit, Writing
<1>7. CASE ReportProgress(w) \/ ProgressCommit(w) \/ EndOfLoop(w)
  <2>1. /\ pc[w] \in {"reporting", "progressing", "decoding"}
        /\ pc'[w] \in {"progressing", "decoding", "transcoding"}
        /\ part' = part
    BY <1>0, <1>7 DEF ReportProgress, ProgressCommit, EndOfLoop, CallAsOwner, GoTo, At, LocalTypes,
       FilePlaces, Writing, artifactVars
  <2> QED BY <1>0, <1>2, <2>1 DEF FilesFit, Writing, j, r
<1>8. CASE Transcode(w)
  <2>1. pc[w] = "transcoding" /\ pc'[w] = "summarizing" /\ part'[j] = Transcoded(part[j], r)
    BY <1>0, <1>2, <1>8 DEF Transcode, CloseAndTranscode, GoTo, At, LocalTypes, FileTypes, ArtifactsTypeOK, j, r
  <2>2. part[j] # NoDir /\ part[j].maker = r /\ part[j].files \subseteq {r}
    BY <1>0, <2>1 DEF FilesFit, Writing, j, r
  <2>3. /\ Transcoded(part[j], r) \in Directories(1..MaxAttempts)
        /\ Transcoded(part[j], r).maker = r
        /\ Transcoded(part[j], r).files \subseteq {r}
        /\ Transcoded(part[j], r).closed
    BY <1>2, <1>3, <2>2 DEF Transcoded, CloseIn, Directories
  <2> QED BY <1>2, <2>1, <2>3, WorkerAssumption DEF FilesFit, Writing
<1>9. CASE Summarize(w)
  <2>1. pc[w] = "summarizing" /\ pc'[w] = "clearing" /\ part'[j] = [part[j] EXCEPT !.summary = r]
    BY <1>0, <1>2, <1>9 DEF Summarize, WriteSummary, GoTo, At, LocalTypes, FilePlaces, Writing, FileTypes,
       ArtifactsTypeOK, j, r
  <2>2. part[j] # NoDir /\ part[j].maker = r /\ part[j].files \subseteq {r} /\ part[j].closed
    BY <1>0, <2>1 DEF FilesFit, Writing, j, r
  <2>3. /\ [part[j] EXCEPT !.summary = r] \in Directories(1..MaxAttempts)
        /\ [part[j] EXCEPT !.summary = r].maker = r
        /\ [part[j] EXCEPT !.summary = r].files \subseteq {r}
        /\ [part[j] EXCEPT !.summary = r].closed
        /\ [part[j] EXCEPT !.summary = r].summary = r
    BY <1>2, <1>3, <2>2 DEF Directories
  <2> QED BY <1>2, <2>1, <2>3, WorkerAssumption DEF FilesFit, Writing
<1>10. CASE Clear(w)
  <2>1. pc[w] = "clearing" /\ pc'[w] = "publishing" /\ part' = part
    BY <1>0, <1>10 DEF Clear, RemovePublished, GoTo, At, LocalTypes
  <2> QED BY <1>0, <1>2, <2>1 DEF FilesFit, Writing, j, r
<1>11. CASE Rename(w)
  <2>1. pc[w] = "publishing" /\ pc'[w] = "attaching" /\ published'[w] /\ final'[j] = part[j]
    BY <1>0, <1>2, <1>11 DEF Rename, Publish, GoTo, At, LocalTypes, FilePlaces, Writing, FileTypes,
       ArtifactsTypeOK, j, r
  <2> QED BY <1>0, <1>2, <2>1 DEF FilesFit, Writing, Intact, j, r
<1>12. CASE Attach(w) \/ Succeed(w)
  <2>1. /\ pc[w] \in {"attaching", "succeeding"} /\ pc'[w] \in {"succeeding", "committing"}
        /\ final' = final /\ published'[w] = published[w]
    BY <1>0, <1>12 DEF Attach, Succeed, CallAsOwner, GoTo, At, LocalTypes, FilePlaces, Writing, artifactVars
  <2> QED BY <1>0, <1>2, <2>1 DEF FilesFit, Writing, j, r
<1> QED BY <1>1, <1>5, <1>6, <1>7, <1>8, <1>9, <1>10, <1>11, <1>12

LEMMA FilesStep == DirectoryInv /\ WorkerNext => \A v \in Workers : FilesFit(v)'
<1> SUFFICES ASSUME DirectoryInv, WorkerNext, NEW v \in Workers, pc'[v] \in FilePlaces
             PROVE  FilesFit(v)'
  BY DEF FilesFit, FilePlaces, Writing
<1>0. FleetInv /\ LocalTypes /\ KeepsLease /\ CleaningFits /\ FilesFit(v) /\ (pc[v] \in Busy => cur[v] \in Jobs)
  BY DEF DirectoryInv, FleetInv, BusyOnAJob
<1>1. ASSUME pc'[v] = pc[v], cur'[v] = cur[v], run'[v] = run[v], published'[v] = published[v],
             OwnedRunning(v, cur[v]) /\ cur[v] \in Jobs => part'[cur[v]] = part[cur[v]] /\ final'[cur[v]] = final[cur[v]]
      PROVE  FilesFit(v)'
  <2>1. pc[v] \in FilePlaces /\ pc[v] \in Busy /\ pc[v] \notin {"aborting", "failing"}
    BY <1>1 DEF FilePlaces, Writing, Busy
  <2>2. OwnedRunning(v, cur[v]) /\ cur[v] \in Jobs
    BY <1>0, <2>1 DEF KeepsLease
  <2> QED BY <1>0, <1>1, <2>1, <2>2 DEF FilesFit, Writing, FilePlaces
<1>2. CASE Work(v)
  BY <1>2, OwnFilesStep
<1>3. ASSUME NEW w \in Workers \ {v}, Work(w) PROVE FilesFit(v)'
  <2>1. /\ pc'[v] = pc[v] /\ cur'[v] = cur[v] /\ run'[v] = run[v] /\ published'[v] = published[v]
    BY <1>0, <1>3, WorkIsLocal DEF OthersStay
  <2>2. ASSUME OwnedRunning(v, cur[v]), cur[v] \in Jobs
        PROVE  part'[cur[v]] = part[cur[v]] /\ final'[cur[v]] = final[cur[v]]
    <3>1. ~OwnedRunning(w, cur[v])
      BY <2>2 DEF OwnedRunning
    <3> QED BY <1>3, <2>2, <3>1, FilesOfOthers
  <2> QED BY <1>1, <2>1, <2>2
<1>4. ASSUME NEW w \in Workers, Signal(w) PROVE FilesFit(v)'
  <2>1. /\ pc'[v] = pc[v] /\ cur'[v] = cur[v] /\ run'[v] = run[v] /\ published'[v] = published[v]
        /\ UNCHANGED artifactVars
    BY <1>0, <1>4 DEF Signal, RequestStop, Crash, GoTo, LocalTypes, FilePlaces, Writing
  <2> QED BY <1>1, <2>1 DEF artifactVars
<1>5. ASSUME NEW k \in Jobs, Outside(k) PROVE FilesFit(v)'
  <2>1. /\ pc'[v] = pc[v] /\ cur'[v] = cur[v] /\ run'[v] = run[v] /\ published'[v] = published[v]
    BY <1>5 DEF Outside, Upload, RequestDelete, DeleteRows, DeleteFiles, Elapse, localVars
  <2>2. ASSUME OwnedRunning(v, cur[v]), cur[v] \in Jobs
        PROVE  part'[cur[v]] = part[cur[v]] /\ final'[cur[v]] = final[cur[v]]
    <3>1. CASE UNCHANGED artifactVars
      BY <3>1 DEF artifactVars
    <3>2. CASE DeleteFiles(k)
      <4>1. status[k] = "deleted"
        BY <1>0, <3>2 DEF DeleteFiles, CleaningFits
      <4>2. k # cur[v]
        BY <2>2, <4>1 DEF OwnedRunning
      <4> QED BY <2>2, <3>2, <4>2 DEF DeleteFiles, RemovePublished, RemovePartial, DirectoryInv, FileTypes,
            ArtifactsTypeOK
    <3> QED BY <1>5, <3>1, <3>2 DEF Outside, Upload, RequestDelete, DeleteRows, Elapse
  <2> QED BY <1>1, <2>1, <2>2
<1> QED BY <1>2, <1>3, <1>4, <1>5 DEF WorkerNext

\* A job is deleted by the commit of its deletion only, and succeeds only by
\* that of its owner.
LEMMA EndIsByOwner ==
    ASSUME FleetInv, NEW w \in Workers, Work(w), NEW j \in Jobs, status'[j] # status[j],
           status'[j] \in {"succeeded", "deleted"}
    PROVE  SuccessCommit(w) /\ cur[w] = j /\ OwnedRunning(w, j) /\ status'[j] = "succeeded"
<1>0. TypeOK /\ SelectionStillHolds
  BY DEF FleetInv, QueueInv
<1>1. ~UNCHANGED rowVars
  BY DEF rowVars
<1>2. CASE SuccessCommit(w)
  <2>1. txn[w].op = "succeed" /\ txn[w].rows = {cur[w]}
    BY <1>2 DEF SuccessCommit, CommitSuccess, Commits, FleetInv, OpFitsPlace, OwnerOps
  <2> QED BY <1>0, <1>2, <2>1 DEF SuccessCommit, CommitSuccess, Set, SelectionStillHolds, OwnerOps
<1>3. CASE RecoverCommit(w) \/ FailureCommit(w)
  BY <1>0, <1>3 DEF RecoverCommit, FailureCommit, CommitRecovery, CommitFailure, EndAttempt, Set
<1>4. CASE ClaimCommit(w) \/ ProgressCommit(w)
  BY <1>0, <1>4 DEF ClaimCommit, ProgressCommit, CommitClaim, CommitProgress, Set
<1> QED BY <1>1, <1>2, <1>3, <1>4
        DEF Work, Quit, Recover, Claim, Poll, Load, OpenWriter, DecodeFrame, Raise, EndOfLoop,
            ReportProgress, Transcode, Summarize, Clear, Rename, Attach, Succeed, AbortWriter, RecordFailure,
            CommitFails, CallAsOwner, SelectExpired, SelectQueued, SelectOwned, Lock, Rollback, queueVars,
            rowVars

LEMMA WorkOnEnded ==
    ASSUME DirectoryInv, NEW w \in Workers, Work(w), NEW j \in Jobs, status[j] \in {"succeeded", "deleted"}
    PROVE  /\ status'[j] = status[j] /\ attempts'[j] = attempts[j]
           /\ part'[j] = part[j] /\ final'[j] = final[j]
<1>1. FleetInv
  BY DEF DirectoryInv
<1>2. status'[j] = status[j] /\ attempts'[j] = attempts[j]
  BY <1>1, RowsNotHeld, WorkOnRows
<1> QED BY <1>2, FilesOfOthers DEF OwnedRunning

LEMMA SuccessStep == DirectoryInv /\ WorkerNext => SucceededIntact'
<1> SUFFICES ASSUME DirectoryInv, WorkerNext, NEW j \in Jobs, status'[j] = "succeeded"
             PROVE  Intact(final'[j], attempts'[j])
  BY DEF SucceededIntact
<1>0. FleetInv /\ TypeOK /\ CleaningFits /\ (status[j] = "succeeded" => Intact(final[j], attempts[j]))
  BY DEF DirectoryInv, FleetInv, QueueInv, SucceededIntact
<1>1. ASSUME NEW w \in Workers, Work(w) PROVE Intact(final'[j], attempts'[j])
  <2>1. CASE status[j] = "succeeded"
    BY <1>0, <1>1, <2>1, WorkOnEnded
  <2>2. CASE status[j] # "succeeded"
    <3>1. SuccessCommit(w) /\ cur[w] = j /\ OwnedRunning(w, j)
      BY <1>0, <1>1, <2>2, EndIsByOwner
    <3>2. Intact(final[j], run[w]) /\ run[w] = attempts[j]
      BY <1>0, <3>1 DEF SuccessCommit, At, DirectoryInv, FilesFit, FleetInv, OwnAttempt, Busy
    <3>3. final' = final /\ attempts' = attempts
      BY <3>1 DEF SuccessCommit, CommitSuccess, artifactVars
    <3> QED BY <3>2, <3>3
  <2> QED BY <2>1, <2>2
<1>2. ASSUME NEW w \in Workers, Signal(w) PROVE Intact(final'[j], attempts'[j])
  BY <1>0, <1>2 DEF Signal, RequestStop, Crash, Rollback, queueVars, rowVars, artifactVars
<1>3. ASSUME NEW k \in Jobs, Outside(k) PROVE Intact(final'[j], attempts'[j])
  <2>1. status[j] = "succeeded" /\ attempts'[j] = attempts[j]
    BY <1>0, <1>3 DEF Outside, Upload, Submit, RequestDelete, CheckDelete, DeleteRows, CommitDelete, DeleteFiles,
       Elapse, ExpireLease, Set, queueVars, rowVars
  <2>2. final'[j] = final[j]
    <3>1. CASE DeleteFiles(k)
      <4>1. k # j
        BY <1>0, <2>1, <3>1 DEF DeleteFiles, CleaningFits
      <4> QED BY <3>1, <4>1 DEF DeleteFiles, RemovePublished, RemovePartial, DirectoryInv, FileTypes, ArtifactsTypeOK
    <3> QED BY <1>3, <3>1 DEF Outside, Upload, RequestDelete, DeleteRows, Elapse, artifactVars
  <2> QED BY <1>0, <2>1, <2>2
<1> QED BY <1>1, <1>2, <1>3 DEF WorkerNext

LEMMA CleaningStep == DirectoryInv /\ WorkerNext => CleaningFits'
<1> SUFFICES ASSUME DirectoryInv, WorkerNext, NEW j \in Jobs
             PROVE  /\ cleaning'[j] # "nothing" => status'[j] = "deleted"
                    /\ status'[j] = "deleted" /\ cleaning'[j] # "both" => final'[j] = NoDir
                    /\ status'[j] = "deleted" /\ cleaning'[j] = "nothing" => part'[j] = NoDir
  BY DEF CleaningFits
<1> DEFINE Goal == /\ cleaning'[j] # "nothing" => status'[j] = "deleted"
                   /\ status'[j] = "deleted" /\ cleaning'[j] # "both" => final'[j] = NoDir
                   /\ status'[j] = "deleted" /\ cleaning'[j] = "nothing" => part'[j] = NoDir
<1>0. /\ FleetInv /\ TypeOK /\ FileTypes
      /\ cleaning[j] # "nothing" => status[j] = "deleted"
      /\ status[j] = "deleted" /\ cleaning[j] # "both" => final[j] = NoDir
      /\ status[j] = "deleted" /\ cleaning[j] = "nothing" => part[j] = NoDir
      /\ cleaning \in [Jobs -> {"nothing", "both", "partial"}]
  BY DEF DirectoryInv, FleetInv, QueueInv, CleaningFits, OtherTypes
<1>1. ASSUME NEW w \in Workers, Work(w) PROVE Goal
  <2>1. cleaning' = cleaning
    BY <1>1 DEF Work, Quit, Recover, RecoverCommit, Claim, ClaimCommit, Poll, Load, OpenWriter, DecodeFrame,
       Raise, EndOfLoop, ReportProgress, ProgressCommit, Transcode, Summarize, Clear, Rename, Attach,
       Succeed, SuccessCommit, AbortWriter, RecordFailure, FailureCommit, CommitFails, CallAsOwner
  <2>2. CASE status[j] = "deleted"
    BY <1>0, <1>1, <2>1, <2>2, WorkOnEnded
  <2>3. CASE status[j] # "deleted"
    <3>1. status'[j] # "deleted"
      BY <1>0, <1>1, <2>3, EndIsByOwner
    <3> QED BY <1>0, <2>1, <2>3, <3>1
  <2> QED BY <2>2, <2>3
<1>2. ASSUME NEW w \in Workers, Signal(w) PROVE Goal
  BY <1>0, <1>2 DEF Signal, RequestStop, Crash, Rollback, queueVars, rowVars, artifactVars
<1>3. ASSUME NEW k \in Jobs, Outside(k) PROVE Goal
  <2>1. CASE Upload(k)
    BY <1>0, <2>1 DEF Upload, Submit, Set, artifactVars, TypeOK
  <2>2. CASE RequestDelete(k) \/ Elapse(k)
    BY <1>0, <2>2 DEF RequestDelete, CheckDelete, Elapse, ExpireLease, artifactVars, rowVars
  <2>3. CASE DeleteRows(k)
    BY <1>0, <2>3 DEF DeleteRows, CommitDelete, Set, artifactVars
  <2>4. CASE DeleteFiles(k)
    <3>1. status' = status
      BY <2>4 DEF DeleteFiles, queueVars
    <3>2. CASE k # j
      BY <1>0, <2>4, <3>1, <3>2 DEF DeleteFiles, RemovePublished, RemovePartial, FileTypes, ArtifactsTypeOK
    <3>3. CASE k = j
      BY <1>0, <2>4, <3>1, <3>3 DEF DeleteFiles, RemovePublished, RemovePartial, FileTypes, ArtifactsTypeOK
    <3> QED BY <3>2, <3>3
  <2> QED BY <1>3, <2>1, <2>2, <2>3, <2>4 DEF Outside
<1> QED BY <1>1, <1>2, <1>3 DEF WorkerNext

\* As long as leases are kept, the directories belong to those who work on them.
THEOREM DirectoriesSafe == ASSUME ~SlowWorkers PROVE WorkerSpec => []DirectoryInv
<1>1. WorkerInit => DirectoryInv
  <2> SUFFICES ASSUME WorkerInit PROVE DirectoryInv
    OBVIOUS
  <2>1. FileTypes /\ OtherTypes
    BY WorkerAssumption DEF WorkerInit, FileTypes, ArtifactsTypeOK, ArtifactsInit, OtherTypes
  <2>2. KeepsLease /\ (\A w \in Workers : FilesFit(w))
    BY DEF WorkerInit, KeepsLease, FilesFit, Writing, Busy
  <2>3. CleaningFits /\ SucceededIntact
    BY DEF WorkerInit, Init, CleaningFits, SucceededIntact
  <2> QED BY <2>1, <2>2, <2>3, FleetInit DEF DirectoryInv
<1>2. DirectoryInv /\ [WorkerNext]_workerVars => DirectoryInv'
  <2> SUFFICES ASSUME DirectoryInv, [WorkerNext]_workerVars PROVE DirectoryInv'
    OBVIOUS
  <2>1. FleetInv' /\ FileTypes' /\ OtherTypes'
    BY FleetStep, TypesStep DEF DirectoryInv
  <2>2. CASE WorkerNext
    BY <2>1, <2>2, LeaseStep, FilesStep, CleaningStep, SuccessStep DEF DirectoryInv
  <2>3. CASE UNCHANGED workerVars
    <3>1. UNCHANGED <<pc, cur, run, published, status, owner, lease, attempts, part, final, cleaning>>
      BY <2>3 DEF workerVars, queueVars, artifactVars, localVars
    <3>2. KeepsLease' /\ CleaningFits' /\ SucceededIntact'
      BY <3>1 DEF DirectoryInv, KeepsLease, OwnedRunning, CleaningFits, SucceededIntact
    <3>3. \A w \in Workers : FilesFit(w)'
      BY <3>1 DEF DirectoryInv, FilesFit
    <3> QED BY <2>1, <3>2, <3>3 DEF DirectoryInv
  <2> QED BY <2>2, <2>3
<1> QED BY <1>1, <1>2, PTL DEF WorkerSpec

\* The directory a worker writes by name is the one it created itself.
THEOREM DirectoriesAreOwn == ASSUME ~SlowWorkers PROVE WorkerSpec => []WritesItsOwnDirectory
<1>1. DirectoryInv => WritesItsOwnDirectory
  BY DEF DirectoryInv, FilesFit, Writing, WritesItsOwnDirectory
<1> QED BY <1>1, DirectoriesSafe, PTL

\* A succeeded job has the complete artifacts of the attempt that succeeded.
THEOREM SuccessesAreIntact == ASSUME ~SlowWorkers PROVE WorkerSpec => []SucceededIntact
<1>1. DirectoryInv => SucceededIntact
  BY DEF DirectoryInv
<1> QED BY <1>1, DirectoriesSafe, PTL

\* No file of a deleted job is left or comes back.
THEOREM DeletionsAreComplete == ASSUME ~SlowWorkers PROVE WorkerSpec => []DeletedLeavesNothing
<1>1. DirectoryInv => DeletedLeavesNothing
  BY DEF DirectoryInv, CleaningFits, DeletedLeavesNothing
<1> QED BY <1>1, DirectoriesSafe, PTL

===============================================================================
