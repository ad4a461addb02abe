----------------------------- MODULE JobLifecycle -----------------------------
(***************************************************************************)
(* What the platform promises about a processing job, with no worker, no   *)
(* lease, no lock and no database in sight.  A job is submitted with its   *)
(* video, is attempted at most MaxAttempts times, and ends either          *)
(* succeeded or failed; it fails only when the last attempt has been spent *)
(* and it is deleted (with its video) only after it has ended.             *)
(*                                                                         *)
(* One commit may move several jobs (a batch of expired leases is          *)
(* recovered in one transaction), so a step moves any set of jobs, each    *)
(* by a move of its own.                                                   *)
(***************************************************************************)
EXTENDS Integers

CONSTANTS Jobs, MaxAttempts

VARIABLES phase,     \* phase[j]: where job j stands
          tries      \* tries[j]: how many attempts were started

lifecycleVars == <<phase, tries>>

LifecycleInit == /\ phase = [j \in Jobs |-> "absent"]
                 /\ tries = [j \in Jobs |-> 0]

Goes(j, from, to) == phase[j] = from /\ phase'[j] = to

Stays(j) == phase'[j] = phase[j] /\ tries'[j] = tries[j]

Submit(j) == Goes(j, "absent", "queued") /\ tries'[j] = tries[j]

\* The number of attempts is the only budget a job has.
Begin(j) == /\ Goes(j, "queued", "running")
            /\ tries[j] < MaxAttempts
            /\ tries'[j] = tries[j] + 1

\* A failed attempt goes back to the queue while attempts are left ...
GiveBack(j) == /\ Goes(j, "running", "queued")
               /\ tries[j] < MaxAttempts
               /\ tries'[j] = tries[j]

\* ... and fails for good only when there are none.
Fail(j) == /\ Goes(j, "running", "failed")
           /\ tries[j] = MaxAttempts
           /\ tries'[j] = tries[j]

Succeed(j) == Goes(j, "running", "succeeded") /\ tries'[j] = tries[j]

Discard(j) == /\ Goes(j, "succeeded", "deleted") \/ Goes(j, "failed", "deleted")
              /\ tries'[j] = tries[j]

JobStep(j) == \/ Stays(j)
              \/ Submit(j)
              \/ Begin(j)
              \/ GiveBack(j)
              \/ Fail(j)
              \/ Succeed(j)
              \/ Discard(j)

LifecycleNext == \A j \in Jobs : JobStep(j)

LifecycleSpec == LifecycleInit /\ [][LifecycleNext]_lifecycleVars

===============================================================================
