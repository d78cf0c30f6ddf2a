----------------------------- MODULE RingBuffer -----------------------------
(***************************************************************************)
(* The ring buffer of bytes (source/utils/ringbuffer.cpp), which one       *)
(* thread uses, or several under a lock: a call is one step.  Indexes are  *)
(* corrected by comparison with the size, not by a mask.                   *)
(***************************************************************************)
EXTENDS Integers, SequencesExt

CONSTANTS
    Bytes,
    Unknown,        \* what a read outside the buffer returns
    Capacity,       \* _size, any positive number
    RemovesToEnd    \* whether the program calls remove() with a number that
                    \* takes the head just past the last cell

ASSUME RingBufferAssumption ==
    /\ Bytes # {} /\ Unknown \notin Bytes
    /\ Capacity \in Nat \ {0}
    /\ RemovesToEnd \in BOOLEAN

VARIABLES
    buf,        \* _buf
    start,      \* _start
    avail,      \* _avail
    taken       \* the bytes the last call returned

ringVars == <<buf, start, avail, taken>>

Cells == 0 .. Capacity - 1

RingInit ==
    /\ buf \in [Cells -> {CHOOSE b \in Bytes : TRUE}]
    /\ start = 0
    /\ avail = 0
    /\ taken = <<>>

-----------------------------------------------------------------------------
Cell(i) == IF i \in Cells THEN buf[i] ELSE Unknown

IsFull == avail = Capacity

(* Fault: wrap one cell too late. *)
WrappedLate(pos) == IF pos > Capacity THEN pos - Capacity ELSE pos

Wrapped(pos) == IF pos >= Capacity THEN pos - Capacity ELSE pos

(* add_tail() of each of xs, to a buffer whose head is at s with n bytes.  *)
Filled(s, n, xs) ==
    [i \in Cells |->
        LET written == {j \in DOMAIN xs : Wrapped(s + n + j - 1) = i}
        IN  IF written = {} THEN buf[i] ELSE xs[Min(written)]]

(* _start after get_head(). *)
HeadAfterOne == IF avail = 1 \/ start + 1 = Capacity THEN 0 ELSE start + 1

AddToFull(x) ==
    /\ IsFull
    /\ taken' = <<Cell(start)>>
    /\ start' = HeadAfterOne
    /\ buf' = Filled(HeadAfterOne, avail - 1, <<x>>)
    /\ UNCHANGED avail

AddToRoom(x) ==
    /\ ~IsFull
    /\ buf' = Filled(start, avail, <<x>>)
    /\ avail' = avail + 1
    /\ taken' = <<>>
    /\ UNCHANGED start

Add(xs) ==
    LET room == Capacity - avail
        n    == IF Len(xs) < room THEN Len(xs) ELSE room
    IN  /\ buf' = Filled(start, avail, SubSeq(xs, 1, n))
        /\ avail' = avail + n
        /\ taken' = <<>>
        /\ UNCHANGED start

GetOne ==
    /\ avail > 0
    /\ taken' = <<Cell(start)>>
    /\ start' = HeadAfterOne
    /\ avail' = avail - 1
    /\ UNCHANGED buf

(* get_one() of an empty buffer; peek_one() and peek() work on a copy.     *)
GetNone ==
    /\ avail = 0
    /\ taken' = <<>>
    /\ UNCHANGED <<buf, start, avail>>

(* The cell i after the head, for get(): the bytes till the end are counted *)
(* with unsigned numbers, so a head past the end never wraps.              *)
Ahead(i) == IF start > Capacity THEN start + i ELSE Wrapped(start + i)

GetMany(size) ==
    LET n == IF size > avail THEN avail ELSE size
    IN  /\ taken' = [i \in 1 .. n |-> Cell(Ahead(i - 1))]
        /\ start' = IF n > 0 THEN Ahead(n) ELSE start
        /\ avail' = avail - n
        /\ UNCHANGED buf

(* remove() corrects the head only when it is past the end by two.         *)
HeadAfterRemove(n) == IF start + n > Capacity THEN start + n - Capacity ELSE start + n

Discard(size) ==
    /\ start + size = Capacity => RemovesToEnd \/ size > avail
    /\ IF size > avail
       THEN start' = 0 /\ avail' = 0
       ELSE start' = HeadAfterRemove(size) /\ avail' = avail - size
    /\ taken' = <<>>
    /\ UNCHANGED buf

Inputs == BoundedSeq(Bytes, Capacity + 1)

RingNext ==
    \/ \E x \in Bytes : AddToFull(x) \/ AddToRoom(x)
    \/ \E xs \in Inputs : Add(xs)
    \/ GetOne \/ GetNone
    \/ \E size \in 0 .. Capacity + 1 : GetMany(size) \/ Discard(size)

RingSpec == RingInit /\ [][RingNext]_ringVars

-----------------------------------------------------------------------------
(* Properties.                                                             *)

RingContent == [i \in 1 .. avail |-> Cell(Wrapped(start + i - 1))]

Q == INSTANCE ByteQueue WITH
        Size <- Capacity, content <- RingContent, result <- taken

(* However calls that take one byte, many, or none are mixed with those    *)
(* that add, and wherever the head and the tail wrap, the buffer is the    *)
(* queue of the bytes added and not yet taken, overwriting only in         *)
(* add_one() of a full buffer.                                             *)
ImplementsByteQueue == Q!Spec

(* test_ringbuffer.cpp expects that what is taken after remove() are the   *)
(* bytes added after those removed: no call returns a byte from outside    *)
(* the buffer.                                                             *)
OnlyAddedBytes == Unknown \notin ToSet(taken)
=============================================================================
