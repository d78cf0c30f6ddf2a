------------------------------- MODULE Clist -------------------------------
(***************************************************************************)
(* The circular list (source/core/clist.hpp) under the run queues and the  *)
(* event queues, at the level of its pointers.  The list points at its     *)
(* rightmost node, which points at the leftmost.  A node that leaves the   *)
(* list keeps its pointer.  Every call runs with interrupts disabled, so a *)
(* call, loops included, is one step.                                      *)
(***************************************************************************)
EXTENDS Integers, SequencesExt

CONSTANTS Nodes, Null

ASSUME ClistAssumption == Null \notin Nodes /\ IsFiniteSet(Nodes)

VARIABLES
    next,       \* node->next
    last,       \* this->next
    returned    \* what the last call returned

clistVars == <<next, last, returned>>

ClistInit ==
    /\ next = [n \in Nodes |-> Null]
    /\ last = Null
    /\ returned = Null

-----------------------------------------------------------------------------
(* The nodes in the order the loops of the list visit them, from last on,  *)
(* until they are back at it.                                              *)
Hop[i \in Nat] == IF i = 0 THEN last ELSE next[Hop[i - 1]]

Length == Min({i \in 1 .. Cardinality(Nodes) : Hop[i] = last})

Ring == IF last = Null THEN <<>> ELSE [i \in 1 .. Length |-> Hop[i]]

(* The node before n, or Null. *)
FindBefore(n) ==
    LET found == {i \in 1 .. Length : next[Hop[i]] = n}
    IN  IF last = Null \/ found = {} THEN Null ELSE Hop[Min(found)]

Find(n) == IF FindBefore(n) = Null THEN Null ELSE next[FindBefore(n)]

Count == IF last = Null THEN 0 ELSE Length

LeftPeek == IF last = Null THEN Null ELSE next[last]

RightPeek == last

-----------------------------------------------------------------------------
(* The caller pushes no node that is in the list. *)
CanPush(n) == n \notin ToSet(Ring)

Insert(n) ==
    next' = IF last = Null THEN [next EXCEPT ![n] = n]
            ELSE [next EXCEPT ![n] = next[last], ![last] = n]

RightPush(n) ==
    /\ CanPush(n)
    /\ Insert(n)
    /\ last' = n
    /\ returned' = Null

LeftPush(n) ==
    /\ CanPush(n)
    /\ Insert(n)
    /\ last' = IF last = Null THEN n ELSE last
    /\ returned' = Null

(* Fault: leave the list pointing at its only node. *)
UnlinkLeftKept(nx, l) ==
    [next |-> [nx EXCEPT ![l] = nx[nx[l]]], last |-> l]

(* What popping the leftmost node leaves of pointers nx and l # Null.      *)
UnlinkLeft(nx, l) ==
    IF nx[l] = l THEN [next |-> nx, last |-> Null]
                 ELSE [next |-> [nx EXCEPT ![l] = nx[nx[l]]], last |-> l]

LeftPopFrom(l) ==
    IF l = Null THEN returned' = Null /\ UNCHANGED <<next, last>>
    ELSE /\ returned' = next[l]
         /\ next' = UnlinkLeft(next, l).next
         /\ last' = UnlinkLeft(next, l).last

LeftPop == LeftPopFrom(last)

(* Rotate until the rightmost node is the leftmost, and pop it.            *)
RightPop == LeftPopFrom(IF last = Null THEN Null ELSE FindBefore(last))

LeftPopRightPush ==
    /\ last' = IF last = Null THEN Null ELSE next[last]
    /\ returned' = Null
    /\ UNCHANGED next

(* Fault: do not notice that the rightmost node is removed. *)
NewLastStale(n, before) == last

NewLast(n, before) == IF n = last THEN before ELSE last

RemoveLeft(n) ==
    /\ LeftPeek = n
    /\ LeftPop

RemoveInside(n) ==
    /\ LeftPeek # n
    /\ FindBefore(n) # Null
    /\ next' = [next EXCEPT ![FindBefore(n)] = next[n]]
    /\ last' = NewLast(n, FindBefore(n))
    /\ returned' = n

RemoveNothing(n) ==
    /\ LeftPeek # n /\ FindBefore(n) = Null
    /\ returned' = Null
    /\ UNCHANGED <<next, last>>

RemoveNode(n) == RemoveLeft(n) \/ RemoveInside(n) \/ RemoveNothing(n)

(* The calls that change nothing, all at once. *)
Query ==
    /\ returned' = [left |-> LeftPeek, right |-> RightPeek, count |-> Count,
                    found |-> [n \in Nodes |-> Find(n)]]
    /\ UNCHANGED <<next, last>>

ClistNext ==
    \/ LeftPop \/ RightPop \/ LeftPopRightPush \/ Query
    \/ \E n \in Nodes : RightPush(n) \/ LeftPush(n) \/ RemoveNode(n)

ClistSpec == ClistInit /\ [][ClistNext]_clistVars

-----------------------------------------------------------------------------
(* Properties.                                                             *)

(* The pointers form a ring through last: from last one comes back to it,  *)
(* visiting no node twice and never Null.  The loops of find_before(),     *)
(* right_pop() and count() end only because of this.  A node of the list   *)
(* has a pointer that is not Null, which event_post() relies upon.         *)
RingIsClosed ==
    last # Null =>
        /\ \E i \in 1 .. Cardinality(Nodes) : Hop[i] = last
        /\ \A i \in 1 .. Length : Hop[i] \in Nodes /\ next[Hop[i]] # Null
        /\ IsInjective(Ring)

D == INSTANCE Deque WITH content <- Ring, result <- returned

(* The list of pointers implements a double-ended queue: every call has    *)
(* the effect and the result the sequence says, at every length, on a list *)
(* of one node and on nodes that are not in the list; find(), the peeks    *)
(* and count() say what the sequence holds.                                *)
ImplementsDeque == D!Spec
=============================================================================
