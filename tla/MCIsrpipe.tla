----------------------------- MODULE MCIsrpipe -----------------------------
(* A reader between the idle thread and a more urgent one; a buffer of two *)
(* bytes whose counters wrap at eight.                                     *)
EXTENDS Isrpipe, TLC

CONSTANTS idle, a, b

MCThreads  == {idle, a, b}
MCPriority == (idle :> 2) @@ (a :> 1) @@ (b :> 0)
MCSleeping == {"SLEEPING"}

(* Bound: kernel_init creates the threads in one order; they do not end.   *)
Order == <<idle, b, a>>

Bounded ==
    /\ booted' => numof' = MaxThreads
    /\ \A i \in DOMAIN Order :
         /\ pid'[Order[i]] \in {PidUndef, i}
         /\ booted => sched'.status[Order[i]] # "STOPPED"

MCSpec     == PipeInit /\ [][PipeNext /\ Bounded]_allVars
MCFairSpec == MCSpec /\ PipeFairness
=============================================================================
