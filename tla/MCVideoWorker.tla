----------------------------- MODULE MCVideoWorker ----------------------------
(* One job and two workers, one of which may be stopped or killed, for TLC. *)
EXTENDS VideoWorker, TLC

CONSTANT j1

MCPriority  == j1 :> 0
MCCreatedAt == j1 :> 1

===============================================================================
