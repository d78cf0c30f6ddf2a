----------------------------- MODULE ByteQueue -----------------------------
(***************************************************************************)
(* What a RingBuffer promises: the last bytes added and not yet taken, in  *)
(* order, at most Size of them.  add() takes what there is room for;       *)
(* add_one() makes room by giving up the oldest byte.                      *)
(***************************************************************************)
EXTENDS Integers, SequencesExt

CONSTANTS Bytes, Size

VARIABLES
    content,    \* the bytes, the oldest first
    result      \* the bytes the last call returned

Inputs == BoundedSeq(Bytes, Size + 1)

Init == content = <<>> /\ result = <<>>

Taken(k) == IF k < Len(content) THEN k ELSE Len(content)

AddOne(x) ==
    IF Len(content) < Size
    THEN content' = Append(content, x) /\ result' = <<>>
    ELSE content' = Append(Tail(content), x) /\ result' = <<Head(content)>>

Add(xs) ==
    /\ content' = LET all == content \o xs
                  IN  IF Len(all) > Size THEN SubSeq(all, 1, Size) ELSE all
    /\ result' = <<>>

Get(k) ==
    /\ result' = SubSeq(content, 1, Taken(k))
    /\ content' = SubSeq(content, Taken(k) + 1, Len(content))

Discard(k) ==
    /\ result' = <<>>
    /\ content' = SubSeq(content, Taken(k) + 1, Len(content))

Next ==
    \/ \E x \in Bytes : AddOne(x)
    \/ \E xs \in Inputs : Add(xs)
    \/ \E k \in 0 .. Size + 1 : Get(k) \/ Discard(k)

Spec == Init /\ [][Next]_<<content, result>>
=============================================================================
