----------------------------- MODULE Allocator -----------------------------
(***************************************************************************)
(* What a heap promises: aligned, disjoint regions of an array, zero when  *)
(* they are given and then left to the user; when nothing is in use, any   *)
(* request up to the capacity is met.                                      *)
(***************************************************************************)
EXTENDS Integers

CONSTANTS MemorySize, AlignSize, Requests, Capacity, NoPtr

VARIABLES
    regions,    \* the size of each region in use, by its address
    data,       \* what the user finds in it
    result      \* what the last call returned, 0 if nothing

Init == regions = [p \in {} |-> 0] /\ data = [p \in {} |-> "zero"] /\ result = 0

Addresses == {p \in 1 .. MemorySize : p % AlignSize = 0}

Give(n, p) ==
    /\ result' = p
    /\ p + n <= MemorySize
    /\ \A q \in DOMAIN regions : p + n <= q \/ q + regions[q] <= p
    /\ regions' = [q \in DOMAIN regions \cup {p} |-> IF q = p THEN n ELSE regions[q]]
    /\ data' = [q \in DOMAIN regions' |-> IF q = p THEN "zero" ELSE data[q]]

Refuse(n) ==
    /\ n > Capacity \/ DOMAIN regions # {}
    /\ result' = NoPtr
    /\ UNCHANGED <<regions, data>>

TakeBack(p) ==
    /\ regions' = [q \in DOMAIN regions \ {p} |-> regions[q]]
    /\ data' = [q \in DOMAIN regions' |-> data[q]]
    /\ result' = 0

Fill(p) ==
    /\ data' = [data EXCEPT ![p] = "filled"]
    /\ UNCHANGED <<regions, result>>

Next ==
    \/ \E n \in Requests : Refuse(n) \/ \E p \in Addresses : Give(n, p)
    \/ \E p \in DOMAIN regions : TakeBack(p) \/ Fill(p)

Spec == Init /\ [][Next]_<<regions, data, result>>
=============================================================================
