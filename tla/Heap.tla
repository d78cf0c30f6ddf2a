-------------------------------- MODULE Heap --------------------------------
(***************************************************************************)
(* The heap (source/utils/heap.cpp): blocks that tile a static array of    *)
(* 16-bit cells, and a list of the free ones sorted by size.  A block is   *)
(* its offset in bytes.  Its first cell is its size; the cell after its    *)
(* payload is the offset of the next free block, 0 in a block in use,      *)
(* where the block to its right can see it.  The first cell of the array   *)
(* is mfree_size.                                                          *)
(*                                                                         *)
(* One thread calls at a time, and asks for sizes that fit 16 bits.        *)
(***************************************************************************)
EXTENDS Integers, SequencesExt, FiniteSetsExt

CONSTANTS
    MemorySize,     \* VCRTOS_CONFIG_HEAP_SIZE
    AlignSize,      \* sizeof(void *)
    Requests,       \* bound: the sizes asked for
    NoPtr           \* nullptr

ASSUME HeapAssumption ==
    /\ AlignSize \in {4, 8}
    /\ MemorySize % AlignSize = 0
    /\ MemorySize \in 4 * AlignSize .. 2 ^ 15
    /\ Requests \subseteq 1 .. 2 ^ 15
    /\ NoPtr \notin Nat

VARIABLES
    mem,        \* the cells, by offset
    live,       \* history: the size asked for, by pointer in use
    pointer     \* what the last call returned, 0 if nothing

heapVars == <<mem, live, pointer>>

Offsets == {i \in 0 .. MemorySize - 1 : i % 2 = 0}

Header    == 4          \* sizeof(Block)
GuardSize == 65535
Remainder == AlignSize - 4
Super     == AlignSize - 2
First     == 2 * AlignSize - 2
Guard     == MemorySize - 2

FirstSize == MemorySize - 3 * AlignSize + Remainder

Pattern == GuardSize    \* what a user writes into its memory

-----------------------------------------------------------------------------
(* Blocks of a memory m.                                                   *)

NextCell(m, b) == b + 2 + m[b]
Next(m, b)     == m[NextCell(m, b)]
RightOf(m, b)  == b + Header + m[b]
IsFree(m, b)   == m[b] # GuardSize /\ Next(m, b) # 0

SetNext(m, b, n) == [m EXCEPT ![NextCell(m, b)] = n]
SetSize(m, b, n) == [m EXCEPT ![b] = n]

IsLeftFree(m, b) == b # First /\ m[b - 2] # 0

(* The blocks on the list one after the other, starting from one of them   *)
(* or from the super block, until the guard.                               *)
Hops(m, from) ==
    LET hop[i \in Nat] == IF i = 0 THEN from
                          ELSE LET b == hop[i - 1] IN IF b = Guard THEN b ELSE Next(m, b)
    IN  hop

(* Fault: stop in front of a block that is still too small. *)
LastSmallerEarly(m, from, n) ==
    LET hop == Hops(m, from)
        i   == CHOOSE i \in 0 .. MemorySize : /\ m[Next(m, hop[i])] >= n - Header
                                             /\ \A j \in 0 .. i - 1 : m[Next(m, hop[j])] < n - Header
    IN  hop[i]

(* The last block, on the list after from, before one of n bytes or more.  *)
LastSmaller(m, from, n) ==
    LET hop == Hops(m, from)
        i   == CHOOSE i \in 0 .. MemorySize : /\ m[Next(m, hop[i])] >= n
                                             /\ \A j \in 0 .. i - 1 : m[Next(m, hop[j])] < n
    IN  hop[i]

(* The block whose next is off, on the list after from. *)
Before(m, from, off) ==
    LET hop == Hops(m, from)
        i   == CHOOSE i \in 0 .. MemorySize : /\ Next(m, hop[i]) = off
                                             /\ \A j \in 0 .. i - 1 : Next(m, hop[j]) # off
    IN  hop[i]

BlockInsert(m, from, b) ==
    LET prev == LastSmaller(m, from, m[b])
    IN  SetNext(SetNext(m, b, Next(m, prev)), prev, b)

Unlink(m, prev, b) == SetNext(SetNext(m, prev, Next(m, b)), b, 0)

AddFree(m, n) == [m EXCEPT ![0] = (@ + n) % 2 ^ 16]

HeapInit ==
    /\ mem = LET zero  == [i \in Offsets |-> 0]
                 sizes == [zero EXCEPT ![Super] = Remainder, ![First] = FirstSize,
                                       ![Guard] = GuardSize, ![0] = FirstSize]
             IN  SetNext(SetNext(sizes, Super, First), First, Guard)
    /\ live = [p \in {} |-> 0]
    /\ pointer = 0

-----------------------------------------------------------------------------
(* calloc(), which for a size of zero returns nullptr and changes nothing. *)

Rounded(n) ==
    ((n + AlignSize - 1 - Remainder) \div AlignSize) * AlignSize + Remainder

(* Cut b, which is off the list, after n bytes and put the rest on the     *)
(* list; prev was before b.                                                *)
Split(m, prev, b, n) ==
    LET rest == m[b] - n - Header
        cut  == SetSize(m, b, n)
        new  == RightOf(cut, b)
        made == SetNext(SetSize(cut, new, rest), new, 0)
    IN  AddFree(BlockInsert(made, IF m[prev] < rest THEN prev ELSE Super, new), -Header)

Zeroed(m, b, n) == [i \in Offsets |-> IF i \in b + 2 .. b + 1 + n THEN 0 ELSE m[i]]

Calloc(n) ==
    LET size == Rounded(n)
        prev == LastSmaller(mem, Super, size)
        b    == Next(mem, prev)
        off  == SetNext(mem, prev, Next(mem, b))
        fit  == IF off[b] > size + Header THEN Split(off, prev, b, size) ELSE off
    IN  /\ IsFree(mem, b)
        /\ mem' = Zeroed(SetNext(AddFree(fit, -fit[b]), b, 0), b, size)
        /\ pointer' = b + 2
        /\ live' = [p \in DOMAIN live \cup {b + 2} |-> IF p = b + 2 THEN n ELSE live[p]]

CallocFails(n) ==
    /\ ~IsFree(mem, Next(mem, LastSmaller(mem, Super, Rounded(n))))
    /\ pointer' = NoPtr
    /\ UNCHANGED <<mem, live>>

-----------------------------------------------------------------------------
(* free().                                                                 *)

(* Merge b with its left, which is free, and its right, if it is free.     *)
FreeWithLeft(m, b) ==
    LET right == RightOf(m, b)
        left  == Before(m, Next(m, Super), m[b - 2])
        prev1 == Before(m, Super, left)
        m1    == Unlink(AddFree(m, m[b] + Header), prev1, left)
        prev2 == IF m1[right] > m1[left] THEN Before(m1, prev1, right)
                                         ELSE Before(m1, Super, right)
        m2    == Unlink(AddFree(m1, Header), prev2, right)
        m3    == SetSize(m2, left, m2[left] + m2[right] + Header)
        alone == ~IsFree(m1, right)
        m4    == IF alone THEN m1 ELSE m3
    IN  BlockInsert(SetSize(m4, left, m4[left] + m4[b] + Header),
                    IF alone THEN prev1 ELSE prev2, left)

FreeWithRight(m, b) ==
    LET right == RightOf(m, b)
        prev  == Before(m, Super, right)
        m1    == SetNext(AddFree(m, m[b] + Header), prev, Next(m, right))
    IN  BlockInsert(SetSize(m1, b, m1[b] + m1[right] + Header), prev, b)

(* Fault: never look to the right. *)
FreedAlone(m, b) ==
    IF IsLeftFree(m, b) THEN FreeWithLeft(m, b) ELSE BlockInsert(AddFree(m, m[b]), Super, b)

Freed(m, b) ==
    IF IsLeftFree(m, b) THEN FreeWithLeft(m, b)
    ELSE IF IsFree(m, RightOf(m, b)) THEN FreeWithRight(m, b)
    ELSE BlockInsert(AddFree(m, m[b]), Super, b)

(* free() of a null pointer changes nothing. *)
Free(p) ==
    /\ p \in DOMAIN live
    /\ mem' = Freed(mem, p - 2)
    /\ live' = [q \in DOMAIN live \ {p} |-> live[q]]
    /\ pointer' = 0

(* The user fills the memory it has been given. *)
Fill(p) ==
    /\ p \in DOMAIN live
    /\ mem' = [i \in Offsets |-> IF i \in p .. p + live[p] - 1 THEN Pattern ELSE mem[i]]
    /\ UNCHANGED <<live, pointer>>

HeapNext ==
    \/ \E n \in Requests : Calloc(n) \/ CallocFails(n)
    \/ \E p \in Offsets : Free(p) \/ Fill(p)

HeapSpec == HeapInit /\ [][HeapNext]_heapVars

-----------------------------------------------------------------------------
(* Properties.                                                             *)

(* What hop visits before it comes to the guard. *)
UpToGuard(hop) ==
    LET n == CHOOSE n \in 1 .. MemorySize : hop[n] = Guard /\ hop[n - 1] # Guard
    IN  [i \in 1 .. n |-> hop[i - 1]]

(* The blocks from the first to the guard, stepping to the right. *)
Blocks ==
    LET hop[i \in Nat] == IF i = 0 THEN First
                          ELSE LET b == hop[i - 1] IN IF b = Guard THEN b ELSE RightOf(mem, b)
    IN  ToSet(UpToGuard(hop))

FreeBlocks == {b \in Blocks : Next(mem, b) # 0}

(* The free blocks in the order of the list. *)
FreeList == Tail(UpToGuard(Hops(mem, Super)))

(* The sum of the sizes of a set of blocks. *)
TotalSize(m, bs) ==
    LET sum[i \in Nat] == IF i = 0 THEN 0
                          ELSE sum[i - 1] + (IF i - 1 \in bs THEN m[i - 1] ELSE 0)
    IN  sum[MemorySize]

(* The blocks tile the array, those in use are the ones whose memory was   *)
(* handed out, and each is large enough; no two free ones are neighbours;  *)
(* the list holds each free block once and is sorted by size, which the    *)
(* first fit, the insertion and the end of every loop rest upon; and       *)
(* mfree_size is what they sum up to.                                      *)
HeapConsistent ==
    LET free == FreeBlocks
        list == FreeList
    IN  /\ {b + 2 : b \in Blocks \ free} = DOMAIN live
        /\ \A p \in DOMAIN live : live[p] <= mem[p - 2]
        /\ \A b \in free : RightOf(mem, b) \notin free
        /\ ToSet(list) = free /\ IsInjective(list)
        /\ \A i \in 1 .. Len(list) - 1 : mem[list[i]] <= mem[list[i + 1]]
        /\ mem[0] = TotalSize(mem, free)

(* What the user finds in the memory it was given at p.                    *)
Found(p) ==
    LET cells == {i \in p .. p + live[p] - 1 : i % 2 = 0}
    IN  IF \A i \in cells : mem[i] = 0 THEN "zero"
        ELSE IF \A i \in cells : mem[i] = Pattern THEN "filled" ELSE "spoiled"

A == INSTANCE Allocator WITH
         Capacity <- FirstSize, regions <- live, result <- pointer,
         data <- [p \in DOMAIN live |-> Found(p)]

(* test_heap.cpp frees in random order and expects memory that is zero     *)
(* when it is given and, when all is free, an array as good as new: blocks *)
(* in use are aligned and disjoint, the heap never writes into one, and    *)
(* when there is none the whole capacity can be had.                       *)
ImplementsAllocator == A!Spec
=============================================================================
