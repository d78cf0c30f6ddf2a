---------------------------- MODULE BoundedFifo ----------------------------
(***************************************************************************)
(* What a message queue promises: first in, first out, room for Size       *)
(* items, and a put that fails exactly when there is no room.              *)
(***************************************************************************)
EXTENDS Integers, Sequences

CONSTANTS Items, Size, None

VARIABLES
    content,    \* the items, the oldest first
    result      \* what the last call returned

Init == content = <<>> /\ result = None

Put(x) ==
    /\ IF Len(content) < Size
       THEN content' = Append(content, x) /\ result' = x
       ELSE UNCHANGED content /\ result' = None

Get ==
    IF content = <<>> THEN UNCHANGED content /\ result' = None
    ELSE content' = Tail(content) /\ result' = Head(content)

Next == Get \/ \E x \in Items : Put(x)

Spec == Init /\ [][Next]_<<content, result>>
=============================================================================
