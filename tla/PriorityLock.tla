---------------------------- MODULE PriorityLock ----------------------------
(***************************************************************************)
(* What mutexes used as locks promise, each independent of the others: at  *)
(* most one owner, and a release that passes the lock straight to one of   *)
(* the most urgent of the threads that wait, if any waits.  Nothing        *)
(* overtakes a waiter between a release and the moment the waiter runs.    *)
(***************************************************************************)
EXTENDS Integers

CONSTANTS Threads, Priority, Locks, Free

VARIABLES
    owner,      \* the owner of each lock, or Free
    waiting     \* the threads that wait for it

Init ==
    /\ owner = [l \in Locks |-> Free]
    /\ waiting = [l \in Locks |-> {}]

Acquire(t, l) ==
    /\ owner[l] = Free
    /\ owner' = [owner EXCEPT ![l] = t]
    /\ UNCHANGED waiting

Wait(t, l) ==
    /\ owner[l] # Free
    /\ waiting' = [waiting EXCEPT ![l] = @ \cup {t}]
    /\ UNCHANGED owner

Release(l) ==
    /\ owner[l] # Free
    /\ waiting[l] = {}
    /\ owner' = [owner EXCEPT ![l] = Free]
    /\ UNCHANGED waiting

Pass(t, l) ==
    /\ owner[l] # Free
    /\ t \in waiting[l]
    /\ \A u \in waiting[l] : Priority[t] <= Priority[u]
    /\ owner' = [owner EXCEPT ![l] = t]
    /\ waiting' = [waiting EXCEPT ![l] = @ \ {t}]

Next ==
    \E l \in Locks :
        Release(l) \/ \E t \in Threads : Acquire(t, l) \/ Wait(t, l) \/ Pass(t, l)

Spec == Init /\ [][Next]_<<owner, waiting>>
=============================================================================
