------------------------------ MODULE MCMutex ------------------------------
(* One lock and one signal, used by threads of three priorities.           *)
EXTENDS Mutex, TLC

CONSTANTS idle, a, b, c, l

MCThreads  == {idle, a, b, c}
MCPriority == (idle :> 2) @@ (a :> 1) @@ (b :> 1) @@ (c :> 0)
MCSleeping == {"SLEEPING"}
MCLocks    == {l}

(* Bound: kernel_init creates the threads in one order; after boot no      *)
(* thread is created, and of the threads only c may end.                   *)
Order == <<idle, a, b, c>>

FixedThreads ==
    IF booted THEN /\ numof' <= numof
                   /\ \A t \in {a, b} : sched'.status[t] # "STOPPED"
    ELSE /\ \A i \in DOMAIN Order : pid'[Order[i]] \in {PidUndef, i}
         /\ booted' => numof' = MaxThreads

MCSpec     == MutexInit /\ [][MutexNext /\ FixedThreads]_vars
MCFairSpec == MCSpec /\ MutexFairness
=============================================================================
