------------------------------ MODULE MCEvents ------------------------------
(* A consumer with two events, and threads that post to it, more and less  *)
(* urgent than it.                                                         *)
EXTENDS Events, TLC

CONSTANTS idle, a, b, e1, e2

MCThreads  == {idle, a, b}
MCPriority == (idle :> 2) @@ (a :> 1) @@ (b :> 0)
MCSleeping == {"SLEEPING"}
MCTarget   == (e1 :> a) @@ (e2 :> a)

(* Bound: kernel_init creates the threads in one order, they do not end,   *)
(* and only b sleeps.  Only the consumer has flags.                        *)
Order == <<idle, b, a>>

Bounded ==
    /\ booted' => numof' = MaxThreads
    /\ \A i \in DOMAIN Order :
         /\ pid'[Order[i]] \in {PidUndef, i}
         /\ sched'.status[Order[i]] = "SLEEPING" => Order[i] = b
         /\ booted => sched'.status[Order[i]] # "STOPPED"
    /\ \A t \in Threads \ Consumers : flags'[t] = {} /\ wait'[t] = NoWait

MCSpec     == EventsInit /\ [][EventsNext /\ Bounded]_allVars
MCFairSpec == MCSpec /\ EventsFairness
=============================================================================
