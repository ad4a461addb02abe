------------------------------ MODULE MCJobQueue ------------------------------
(* Two jobs, the newer one more urgent, for TLC. *)
EXTENDS JobQueue, TLC

CONSTANTS j1, j2

MCPriority  == j1 :> 0 @@ j2 :> 1
MCCreatedAt == j1 :> 1 @@ j2 :> 2

===============================================================================
