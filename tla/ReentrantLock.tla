--------------------------- MODULE ReentrantLock ---------------------------
(***************************************************************************)
(* What a recursive mutex promises: one thread holds it, and holds it      *)
(* until it has unlocked it as often as it has locked it.                  *)
(***************************************************************************)
EXTENDS Naturals

CONSTANTS Threads, NoThread

VARIABLES
    holder,
    depth,      \* how often it is locked
    mine        \* what each thread thinks of that

Init == holder = NoThread /\ depth = 0 /\ mine = [t \in Threads |-> 0]

Lock(t) ==
    /\ holder \in {NoThread, t}
    /\ holder' = t
    /\ depth' = depth + 1
    /\ mine' = [mine EXCEPT ![t] = @ + 1]

Unlock(t) ==
    /\ holder = t
    /\ depth' = depth - 1
    /\ mine' = [mine EXCEPT ![t] = @ - 1]
    /\ holder' = IF mine'[t] = 0 THEN NoThread ELSE t

Spec == Init /\ [][\E t \in Threads : Lock(t) \/ Unlock(t)]_<<holder, depth, mine>>
=============================================================================
