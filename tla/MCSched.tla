------------------------------ MODULE MCSched ------------------------------
(* The scheduler with an idle thread, two threads of one priority and one  *)
(* more urgent thread.                                                     *)
EXTENDS Sched, TLC

CONSTANTS idle, a, b, c

MCThreads  == {idle, a, b, c}
MCPriority == (idle :> 2) @@ (a :> 1) @@ (b :> 1) @@ (c :> 0)
MCSleeping == {"SLEEPING"}
=============================================================================
