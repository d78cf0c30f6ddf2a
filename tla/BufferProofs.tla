---------------------------- MODULE BufferProofs ----------------------------
(***************************************************************************)
(* Theorems about the buffers whose counters wrap: the pipe from an        *)
(* interrupt handler to a thread, and the circular index buffer, for any   *)
(* size that divides the range of the counters; and the line buffer and    *)
(* the output ring of the command line, for every size and every text.     *)
(***************************************************************************)
EXTENDS Isrpipe, Cib, Cli, MutexProofs, SequenceTheorems, FiniteSetTheorems,
        WellFoundedInduction

-----------------------------------------------------------------------------
(* Arithmetic: counters that wrap at m, and the cells they stand for, which *)
(* the unsigned counters of cib.hpp and isrpipe.hpp rely on.                *)

(* A remainder is what is left in 0 .. m-1 after whole multiples of m. *)
LEMMA ModIs ==
    ASSUME NEW m \in Nat \ {0}, NEW q \in Int, NEW r \in 0 .. m - 1
    PROVE  (q * m + r) % m = r
OBVIOUS

LEMMA ModSmall ==
    ASSUME NEW m \in Nat \ {0}, NEW x \in 0 .. m - 1
    PROVE  x % m = x
OBVIOUS

LEMMA ModRange ==
    ASSUME NEW m \in Nat \ {0}, NEW x \in Int
    PROVE  x % m \in 0 .. m - 1
OBVIOUS

(* One wrap up or down. *)
LEMMA ModOver ==
    ASSUME NEW m \in Nat \ {0}, NEW x \in m .. 2 * m - 1
    PROVE  x % m = x - m
<1>1. x - m \in 0 .. m - 1 /\ 1 * m + (x - m) = x
  OBVIOUS
<1> QED BY <1>1, ModIs

LEMMA ModUnder ==
    ASSUME NEW m \in Nat \ {0}, NEW x \in (-m) .. -1
    PROVE  x % m = x + m
<1>1. x + m \in 0 .. m - 1 /\ (-1) * m + (x + m) = x
  OBVIOUS
<1> QED BY <1>1, ModIs

LEMMA DivMod ==
    ASSUME NEW m \in Nat \ {0}, NEW x \in Nat
    PROVE  \E q \in Nat, r \in 0 .. m - 1 : x = q * m + r /\ x % m = r
<1>1. x = (x \div m) * m + (x % m)
  OBVIOUS
<1>2. x \div m \in Int /\ x % m \in 0 .. m - 1
  OBVIOUS
<1>3. x \div m \in Nat
  BY <1>1, <1>2
<1> QED BY <1>1, <1>2, <1>3

(* A counter below the range still stands for its cell after it has        *)
(* wrapped, as the range is a multiple of the size.                        *)
LEMMA WrapKeepsCell ==
    ASSUME NEW size \in Nat \ {0}, NEW range \in Nat \ {0}, range % size = 0,
           NEW x \in 0 .. 2 * range - 1
    PROVE  (x % range) % size = x % size
<1>1. CASE x < range
  BY <1>1, ModSmall
<1>2. CASE x >= range
  <2> DEFINE y == x - range
  <2>1. x % range = y /\ y \in Nat
    BY <1>2, ModOver
  <2>4. x = y + range
    OBVIOUS
  <2> HIDE DEF y
  <2>2. PICK k \in Nat : range = k * size
    BY DivMod
  <2>3. PICK j \in Nat, r \in 0 .. size - 1 : y = j * size + r /\ y % size = r
    BY <2>1, DivMod
  <2>5. (k + j) \in Int /\ x = (k + j) * size + r
    BY <2>2, <2>3, <2>4
  <2>6. x % size = r
    BY <2>3, <2>5, ModIs
  <2> QED BY <2>1, <2>3, <2>6
<1> QED BY <1>1, <1>2

(* Counters less than the size apart stand for different cells. *)
LEMMA CellsDiffer ==
    ASSUME NEW size \in Nat \ {0}, NEW x \in Nat, NEW d \in 1 .. size - 1
    PROVE  (x + d) % size # x % size
<1>1. PICK j \in Nat, r \in 0 .. size - 1 : x = j * size + r /\ x % size = r
  BY DivMod
<1>3. CASE r + d < size
  <2>1. x + d = j * size + (r + d) /\ r + d \in 0 .. size - 1
    BY <1>1, <1>3
  <2>2. (x + d) % size = r + d
    BY <1>1, <2>1, ModIs
  <2> QED BY <1>1, <2>2
<1>4. CASE r + d >= size
  <2>1. x + d = (j + 1) * size + (r + d - size) /\ r + d - size \in 0 .. size - 1
    BY <1>1, <1>4
  <2>2. ((j + 1) * size + (r + d - size)) % size = r + d - size
    <3>1. j + 1 \in Int
      BY <1>1
    <3> QED BY <2>1, <3>1, ModIs
  <2>3. (x + d) % size = r + d - size
    BY <2>1, <2>2
  <2> QED BY <1>1, <2>3
<1> QED BY <1>1, <1>3, <1>4

-----------------------------------------------------------------------------
(* A writer's counter w and a reader's r, both below the range m.          *)

(* The difference as the unsigned subtraction gives it. *)
LEMMA Difference ==
    ASSUME NEW m \in Nat \ {0}, NEW w \in 0 .. m - 1, NEW r \in 0 .. m - 1
    PROVE  /\ (w - r) % m = IF w >= r THEN w - r ELSE w - r + m
           /\ (w - r) % m \in 0 .. m - 1
           /\ (w - r) % m = 0 <=> w = r
<1>1. (w - r) % m = IF w >= r THEN w - r ELSE w - r + m
  <2>1. CASE w >= r
    <3>1. w - r \in 0 .. m - 1
      BY <2>1
    <3> QED BY <2>1, <3>1, ModSmall
  <2>2. CASE w < r
    <3>1. w - r \in (-m) .. -1
      BY <2>2
    <3>2. (w - r) % m = w - r + m
      BY <3>1, ModUnder
    <3> QED BY <2>2, <3>2
  <2> QED BY <2>1, <2>2
<1> QED BY <1>1

(* The counter n further. *)
LEMMA Further ==
    ASSUME NEW m \in Nat \ {0}, NEW r \in 0 .. m - 1, NEW n \in 0 .. m
    PROVE  /\ (r + n) % m = IF r + n < m THEN r + n ELSE r + n - m
           /\ (r + n) % m \in 0 .. m - 1
<1>1. (r + n) % m = IF r + n < m THEN r + n ELSE r + n - m
  BY ModSmall, ModOver
<1> QED BY <1>1

(* One more written: one more between the two, unless that is the range. *)
LEMMA WriteOne ==
    ASSUME NEW m \in Nat \ {0}, NEW w \in 0 .. m - 1, NEW r \in 0 .. m - 1,
           ((w - r) % m) + 1 < m
    PROVE  (((w + 1) % m) - r) % m = ((w - r) % m) + 1
<1> DEFINE v == (w + 1) % m
<1>1. v \in 0 .. m - 1 /\ v = IF w + 1 < m THEN w + 1 ELSE w + 1 - m
  <2>1. 1 \in 0 .. m
    OBVIOUS
  <2> QED BY <2>1, Further
<1>2. (w - r) % m = IF w >= r THEN w - r ELSE w - r + m
  BY Difference
<1> HIDE DEF v
<1>3. (v - r) % m = IF v >= r THEN v - r ELSE v - r + m
  BY <1>1, Difference
<1>4. (v - r) % m = ((w - r) % m) + 1
  BY <1>1, <1>2, <1>3
<1> QED BY <1>4 DEF v

(* One read: one less. *)
LEMMA ReadOne ==
    ASSUME NEW m \in Nat \ {0}, NEW w \in 0 .. m - 1, NEW r \in 0 .. m - 1, w # r
    PROVE  (w - ((r + 1) % m)) % m = ((w - r) % m) - 1
<1> DEFINE v == (r + 1) % m
<1>1. v \in 0 .. m - 1 /\ v = IF r + 1 < m THEN r + 1 ELSE r + 1 - m
  <2>1. 1 \in 0 .. m
    OBVIOUS
  <2> QED BY <2>1, Further
<1>2. (w - r) % m = IF w >= r THEN w - r ELSE w - r + m
  BY Difference
<1> HIDE DEF v
<1>3. (w - v) % m = IF w >= v THEN w - v ELSE w - v + m
  BY <1>1, Difference
<1>4. (w - v) % m = ((w - r) % m) - 1
  BY <1>1, <1>2, <1>3
<1> QED BY <1>4 DEF v

(* The reader's counter, as far on as there are items, is the writer's. *)
LEMMA Caught ==
    ASSUME NEW m \in Nat \ {0}, NEW w \in 0 .. m - 1, NEW r \in 0 .. m - 1
    PROVE  (r + ((w - r) % m)) % m = w
<1> DEFINE n == (w - r) % m
<1>1. n \in 0 .. m - 1 /\ n = IF w >= r THEN w - r ELSE w - r + m
  BY Difference
<1> HIDE DEF n
<1>2. (r + n) % m = w
  BY <1>1, Further
<1> QED BY <1>2 DEF n

(* Counting on from a counter that has been counted on. *)
LEMMA CountOn ==
    ASSUME NEW m \in Nat \ {0}, NEW r \in 0 .. m - 1, NEW i \in 0 .. m - 1
    PROVE  (((r + 1) % m) + i) % m = (r + (i + 1)) % m
<1> DEFINE v == (r + 1) % m
<1>1. v \in 0 .. m - 1 /\ v = IF r + 1 < m THEN r + 1 ELSE r + 1 - m
  <2>1. 1 \in 0 .. m
    OBVIOUS
  <2> QED BY <2>1, Further
<1> HIDE DEF v
<1>2. (v + i) % m = IF v + i < m THEN v + i ELSE v + i - m
  <2>1. i \in 0 .. m
    OBVIOUS
  <2> QED BY <1>1, <2>1, Further
<1>3. (r + (i + 1)) % m = IF r + (i + 1) < m THEN r + (i + 1) ELSE r + (i + 1) - m
  <2>1. i + 1 \in 0 .. m
    OBVIOUS
  <2> QED BY <2>1, Further
<1>4. (v + i) % m = (r + (i + 1)) % m
  BY <1>1, <1>2, <1>3
<1> QED BY <1>4 DEF v

LEMMA OneMore ==
    ASSUME NEW m \in Nat \ {0}, NEW x \in 0 .. m - 1, NEW n \in 0 .. m - 1
    PROVE  (((x + n) % m) + 1) % m = (x + (n + 1)) % m
<1> DEFINE u == (x + n) % m
<1>1. u \in 0 .. m - 1 /\ u = IF x + n < m THEN x + n ELSE x + n - m
  <2>1. n \in 0 .. m
    OBVIOUS
  <2> QED BY <2>1, Further
<1>2. (x + (n + 1)) % m = IF x + (n + 1) < m THEN x + (n + 1) ELSE x + (n + 1) - m
  <2>1. n + 1 \in 0 .. m
    OBVIOUS
  <2> QED BY <2>1, Further
<1> HIDE DEF u
<1>3. (u + 1) % m = IF u + 1 < m THEN u + 1 ELSE u + 1 - m
  <2>1. 1 \in 0 .. m
    OBVIOUS
  <2> QED BY <1>1, <2>1, Further
<1>4. (u + 1) % m = (x + (n + 1)) % m
  BY <1>1, <1>2, <1>3
<1> QED BY <1>4 DEF u

(* Of fewer items than there are cells, one more goes to a cell of its own. *)
LEMMA FreshCell ==
    ASSUME NEW size \in Nat \ {0}, NEW range \in Nat \ {0}, range % size = 0,
           size <= range, NEW r \in 0 .. range - 1,
           NEW n \in 0 .. size - 1, NEW i \in 0 .. n - 1
    PROVE  ((r + i) % range) % size # ((r + n) % range) % size
<1>1. /\ r + i \in 0 .. 2 * range - 1 /\ r + n \in 0 .. 2 * range - 1
      /\ r + i \in Nat /\ n - i \in 1 .. size - 1
      /\ r + n = (r + i) + (n - i)
  OBVIOUS
<1>2. ((r + i) % range) % size = (r + i) % size
  BY <1>1, WrapKeepsCell
<1>3. ((r + n) % range) % size = (r + n) % size
  BY <1>1, WrapKeepsCell
<1>4. ((r + i) + (n - i)) % size # (r + i) % size
  BY <1>1, CellsDiffer
<1> QED BY <1>1, <1>2, <1>3, <1>4


-----------------------------------------------------------------------------
(* The pipe.  Its mutex and its buffer meet in two facts: only the reader  *)
(* waits for the mutex, and a reader about to lock a locked mutex, or      *)
(* already in its list, asks for nothing or has an empty buffer.           *)

Unread == (writes - reads) % UnsignedRange

PipeTypes ==
    /\ buf \in [0 .. BufSize - 1 -> Bytes]
    /\ reads \in 0 .. UnsignedRange - 1
    /\ writes \in 0 .. UnsignedRange - 1
    /\ rstep \in ReadSteps
    /\ left \in 0 .. MaxRead
    /\ some \in BOOLEAN
    /\ byte \in Bytes
    /\ wrote \in Bytes /\ next \in Bytes

(* What a pop() between its two steps has in its hands. *)
PopUnderWay ==
    rstep = "pop" =>
        /\ left > 0
        /\ CountsFirst => byte \in 0 .. BufSize - 1
        /\ ~CountsFirst => ~IsEmpty /\ byte = buf[Masked(reads)]

Signalled ==
    /\ ToSet(waiters[PipeMutex]) \subseteq {Reader}
    /\ Reader \in ToSet(waiters[PipeMutex]) => rstep = "loop" /\ GetEnds
    /\ rstep = "lock" /\ locked[PipeMutex] => GetEnds

PInv == MInv /\ PipeTypes /\ Unread <= BufSize /\ PopUnderWay /\ Signalled

LEMMA PipeConstants ==
    /\ Reader \in Threads /\ PipeMutex \in Mutexes /\ PipeMutex \notin Locks
    /\ PipeMutex \in Signals
    /\ BufSize \in Nat \ {0} /\ UnsignedRange \in Nat \ {0}
    /\ BufSize < UnsignedRange /\ UnsignedRange % BufSize = 0
    /\ MaxRead \in Nat /\ NumBytes \in Nat \ {0} /\ BufSize + 1 < NumBytes
BY IsrpipeAssumption, MutexAssumption DEF Mutexes

LEMMA InitPInv ==
    ASSUME PipeInit
    PROVE  PInv
<1>1. MInv /\ waiters[PipeMutex] = <<>>
  BY InitMInv, PipeConstants DEF PipeInit, MutexInit
<1>2. PipeTypes
  <2>1. 0 \in 0 .. UnsignedRange - 1 /\ 0 \in 0 .. MaxRead /\ 0 \in Bytes
    BY PipeConstants DEF Bytes
  <2> QED BY <2>1 DEF PipeInit, PipeTypes, ReadSteps
<1>3. Unread <= BufSize
  BY PipeConstants, Difference DEF PipeInit, Unread
<1>4. Signalled /\ PopUnderWay
  BY <1>1 DEF PipeInit, Signalled, PopUnderWay, ToSet
<1> QED BY <1>1, <1>2, <1>3, <1>4 DEF PInv

(* The list and the lock bit of the mutex, when a read() locks it ...      *)
LEMMA ReadLocksMutex ==
    ASSUME PInv, ReadLocks
    PROVE  /\ MInv'
           /\ GetEnds \/ ~locked[PipeMutex]
           /\ ToSet(waiters'[PipeMutex]) \subseteq {Reader}
           /\ Reader \in ToSet(waiters'[PipeMutex]) => locked[PipeMutex]
<1>1. /\ MInv /\ rstep = "lock"
      /\ waiters[PipeMutex] # <<>> => locked[PipeMutex]
  BY PipeConstants DEF PInv, ReadLocks, At, MInv, ListsInv, WaitersAreBlocked
<1>2. CASE LockFree(Reader, PipeMutex)
  <2>1. MInv'
    BY <1>1, <1>2, LockFreeMInv, PipeConstants
  <2>2. waiters' = waiters /\ ~locked[PipeMutex]
    BY <1>2 DEF LockFree
  <2> QED BY <1>1, <2>1, <2>2 DEF ToSet
<1>3. CASE LockBlock(Reader, PipeMutex)
  <2>1. MInv'
    BY <1>1, <1>3, LockBlockMInv, PipeConstants
  <2>2. ToSet(waiters'[PipeMutex]) = ToSet(waiters[PipeMutex]) \cup {Reader}
    BY <1>1, <1>3, LockBlockLists, PipeConstants
  <2>3. locked[PipeMutex]
    BY <1>3 DEF LockBlock
  <2>4. GetEnds /\ ToSet(waiters[PipeMutex]) \subseteq {Reader}
    BY <1>1, <2>3 DEF PInv, Signalled
  <2> QED BY <2>1, <2>2, <2>3, <2>4
<1> QED BY <1>2, <1>3 DEF ReadLocks

(* ... and when the handler unlocks it. *)
LEMMA SignalMutex ==
    ASSUME PInv, Signal
    PROVE  /\ MInv'
           /\ ToSet(waiters'[PipeMutex]) = {}
           /\ rstep = "lock" => ~locked'[PipeMutex]
<1>1. /\ MInv
      /\ waiters[PipeMutex] # <<>> => locked[PipeMutex]
      /\ ToSet(waiters[PipeMutex]) \subseteq {Reader}
      /\ Reader \in ToSet(waiters[PipeMutex]) => rstep = "loop"
      /\ locked \in [Mutexes -> BOOLEAN]
  BY PipeConstants DEF PInv, Signalled, MInv, ListsInv, WaitersAreBlocked, MutexTypeOK
<1>2. CASE IsrUnlockFree(PipeMutex)
  <2>1. FreesMutex(Reader, PipeMutex)
    BY <1>2, PipeConstants DEF FreesMutex
  <2>2. MInv' /\ waiters'[PipeMutex] = <<>>
    BY <1>1, <2>1, UnlockFreeMInv, PipeConstants
  <2>3. ~locked'[PipeMutex]
    BY <1>1, <1>2, PipeConstants DEF IsrUnlockFree
  <2> QED BY <2>2, <2>3 DEF ToSet
<1>3. CASE IsrUnlockNothing(PipeMutex)
  <2>1. UNCHANGED <<schedVars, mutexVars>> /\ ~locked[PipeMutex]
    BY <1>3 DEF IsrUnlockNothing
  <2>2. MInv'
    BY <1>1, <2>1, SchedStepMInv
  <2> QED BY <1>1, <2>1, <2>2 DEF mutexVars, ToSet
<1>4. CASE IsrUnlockGive(PipeMutex)
  <2>1. GivesMutex(Reader, PipeMutex)
    BY <1>4, PipeConstants DEF GivesMutex, IsrUnlockGive
  <2>2. /\ MInv' /\ Head(waiters[PipeMutex]) \in ToSet(waiters[PipeMutex])
        /\ ToSet(waiters'[PipeMutex]) =
              ToSet(waiters[PipeMutex]) \ {Head(waiters[PipeMutex])}
    BY <1>1, <2>1, UnlockGiveMInv, PipeConstants
  <2> QED BY <1>1, <2>2
<1> QED BY <1>2, <1>3, <1>4 DEF Signal, IsrUnlock

(* Steps that leave the pipe alone. *)
LEMMA OtherPipeSteps ==
    ASSUME PInv, UNCHANGED <<pipeVars, waiters, locked>>, MInv'
    PROVE  PInv'
BY DEF PInv, PipeTypes, Unread, PopUnderWay, Signalled, pipeVars, GetEnds, IsEmpty

(* A reader that takes a step in read() is in no list. *)
LEMMA ReaderRuns ==
    ASSUME PInv, NEW s, At(s)
    PROVE  rstep = s /\ Reader \notin ToSet(waiters[PipeMutex])
BY CallerRuns, PipeConstants DEF PInv, At

-----------------------------------------------------------------------------
(* The steps of the pipe keep the types, the distance of the counters and  *)
(* what pop() has in its hands.                                            *)

(* A cell that is not the next to be written keeps its byte when it is.    *)
LEMMA AddOneKeeps ==
    ASSUME PipeTypes, Unread <= BufSize, AddOne
    PROVE  /\ buf' \in [0 .. BufSize - 1 -> Bytes]
           /\ writes' \in 0 .. UnsignedRange - 1 /\ wrote' \in Bytes
           /\ \/ /\ Unread = BufSize
                 /\ UNCHANGED <<buf, writes, wrote>>
              \/ /\ Unread < BufSize
                 /\ writes' = (writes + 1) % UnsignedRange
                 /\ (writes' - reads) % UnsignedRange = Unread + 1
                 /\ wrote' = (wrote + 1) % NumBytes
                 /\ buf'[Masked((reads + Unread) % UnsignedRange)] = wrote
                 /\ \A i \in 0 .. Unread - 1 :
                      buf'[Masked((reads + i) % UnsignedRange)] =
                          buf[Masked((reads + i) % UnsignedRange)]
<1>1. /\ reads \in 0 .. UnsignedRange - 1 /\ writes \in 0 .. UnsignedRange - 1
      /\ wrote \in Bytes /\ buf \in [0 .. BufSize - 1 -> Bytes]
  BY DEF PipeTypes
<1>2. Unread \in Nat /\ Unread < UnsignedRange
  BY <1>1, Difference, PipeConstants DEF Unread
<1>3. CASE IsFull
  BY <1>1, <1>3 DEF AddOne, IsFull, Unread
<1>4. CASE ~IsFull
  <2>1. /\ buf' = [buf EXCEPT ![Masked(writes)] = wrote]
        /\ writes' = (writes + 1) % UnsignedRange
        /\ wrote' = (wrote + 1) % NumBytes
    BY <1>4 DEF AddOne, Plus1
  <2>2. Unread < BufSize
    BY <1>2, <1>4, PipeConstants DEF IsFull, Unread
  <2>3. Masked(writes) \in 0 .. BufSize - 1
    <3>1. writes \in Int
      BY <1>1, PipeConstants
    <3> QED BY <3>1, ModRange, PipeConstants DEF Masked
  <2>4. (reads + Unread) % UnsignedRange = writes
    BY <1>1, Caught, PipeConstants DEF Unread
  <2>5. ASSUME NEW i \in 0 .. Unread - 1
        PROVE  Masked((reads + i) % UnsignedRange) # Masked(writes)
    <3>1. Unread \in 0 .. BufSize - 1 /\ BufSize <= UnsignedRange
      BY <1>2, <2>2, PipeConstants
    <3>2. Masked((reads + i) % UnsignedRange)
              # Masked((reads + Unread) % UnsignedRange)
      <4>1. /\ BufSize \in Nat \ {0} /\ UnsignedRange \in Nat \ {0}
            /\ UnsignedRange % BufSize = 0 /\ reads \in 0 .. UnsignedRange - 1
        BY <1>1, PipeConstants
      <4>2. ((reads + i) % UnsignedRange) % BufSize
                # ((reads + Unread) % UnsignedRange) % BufSize
        BY <3>1, <4>1, FreshCell
      <4> QED BY <4>2 DEF Masked
    <3> QED BY <2>4, <3>2
  <2>6. \A i \in 0 .. Unread - 1 :
          buf'[Masked((reads + i) % UnsignedRange)] =
              buf[Masked((reads + i) % UnsignedRange)]
    <3>1. \A c : c # Masked(writes) /\ c \in 0 .. BufSize - 1 => buf'[c] = buf[c]
      BY <1>1, <2>1
    <3>2. ASSUME NEW i \in 0 .. Unread - 1
          PROVE  Masked((reads + i) % UnsignedRange) \in 0 .. BufSize - 1
      <4>1. (reads + i) % UnsignedRange \in Int
        BY <1>1, <1>2, ModRange, PipeConstants
      <4> QED BY <4>1, ModRange, PipeConstants DEF Masked
    <3> QED BY <2>5, <3>1, <3>2
  <2>7. buf'[Masked((reads + Unread) % UnsignedRange)] = wrote
    BY <1>1, <2>1, <2>3, <2>4
  <2>8. (writes' - reads) % UnsignedRange = Unread + 1
    BY <1>1, <1>2, <2>1, <2>2, WriteOne, PipeConstants, SMTT(60) DEF Unread
  <2>9. writes' \in 0 .. UnsignedRange - 1 /\ wrote' \in Bytes
    <3>1. writes + 1 \in Int /\ wrote + 1 \in Int
      BY <1>1, PipeConstants DEF Bytes
    <3> QED BY <2>1, <3>1, ModRange, PipeConstants DEF Bytes
  <2>10. buf' \in [0 .. BufSize - 1 -> Bytes]
    BY <1>1, <2>1
  <2> QED BY <2>1, <2>2, <2>6, <2>7, <2>8, <2>9, <2>10
<1> QED BY <1>3, <1>4

(* pop() counts. *)
LEMMA CountRead ==
    ASSUME PipeTypes, Unread <= BufSize, ~IsEmpty,
           reads' = Plus1(reads), UNCHANGED writes
    PROVE  /\ reads' \in 0 .. UnsignedRange - 1
           /\ Unread \in 1 .. BufSize /\ Unread' = Unread - 1
<1>1. /\ reads \in 0 .. UnsignedRange - 1 /\ writes \in 0 .. UnsignedRange - 1
      /\ writes # reads /\ reads' = (reads + 1) % UnsignedRange
  BY DEF PipeTypes, Plus1, IsEmpty
<1>2. (writes - ((reads + 1) % UnsignedRange)) % UnsignedRange = Unread - 1
  BY <1>1, ReadOne, PipeConstants DEF Unread
<1>3. Unread \in 1 .. BufSize
  BY <1>1, Difference, PipeConstants DEF Unread
<1>4. reads' \in 0 .. UnsignedRange - 1
  <2>1. reads + 1 \in Int
    BY <1>1, PipeConstants
  <2> QED BY <1>1, <2>1, ModRange, PipeConstants
<1>5. Unread' = Unread - 1
  <2>1. Unread' = (writes - reads') % UnsignedRange
    BY DEF Unread
  <2>2. (writes - reads') % UnsignedRange =
            (writes - ((reads + 1) % UnsignedRange)) % UnsignedRange
    BY <1>1
  <2> QED BY <1>2, <2>1, <2>2
<1> QED BY <1>3, <1>4, <1>5

(* The cell of the next byte. *)
LEMMA NextCell ==
    ASSUME PipeTypes
    PROVE  /\ Masked(reads) \in 0 .. BufSize - 1
           /\ Masked(reads) \in Bytes /\ buf[Masked(reads)] \in Bytes
           /\ (reads + 0) % UnsignedRange = reads
           /\ UNCHANGED writes /\ UNCHANGED reads => Unread' = Unread
<1>1. reads \in Int /\ reads \in 0 .. UnsignedRange - 1
  BY PipeConstants DEF PipeTypes
<1>2. Masked(reads) \in 0 .. BufSize - 1
  BY <1>1, ModRange, PipeConstants DEF Masked
<1>3. Masked(reads) \in Bytes /\ buf[Masked(reads)] \in Bytes
  BY <1>2, PipeConstants DEF PipeTypes, Bytes
<1>4. (reads + 0) % UnsignedRange = reads
  <2>1. reads + 0 = reads
    BY <1>1
  <2> QED BY <1>1, <2>1, ModSmall, PipeConstants
<1> QED BY <1>2, <1>3, <1>4 DEF Unread

(* The steps of read(), except the one that locks the mutex. *)
ReadsOnly == Read \/ PopStarts \/ PopEnds \/ ReadReturns \/ ReadFindsNone

LEMMA ReadsOnlyPInv ==
    ASSUME PInv, ReadsOnly
    PROVE  PInv'
<1>1. /\ MInv /\ PipeTypes /\ Unread <= BufSize /\ PopUnderWay /\ Signalled
      /\ UNCHANGED <<schedVars, mutexVars>> /\ UNCHANGED <<buf, writes, wrote>>
  BY DEF PInv, ReadsOnly, Read, PopStarts, PopEnds, ReadReturns, ReadFindsNone
<1>2. MInv'
  BY <1>1, SchedStepMInv
<1>3. Reader \notin ToSet(waiters[PipeMutex])
  BY ReaderRuns DEF ReadsOnly, Read, PopStarts, PopEnds, ReadReturns, ReadFindsNone
<1>4. ToSet(waiters'[PipeMutex]) \subseteq {} /\ locked' = locked
  BY <1>1, <1>3 DEF mutexVars, Signalled
<1>5. \A x \in Int : x % NumBytes \in Bytes
  BY ModRange, PipeConstants DEF Bytes
<1>6. /\ buf \in [0 .. BufSize - 1 -> Bytes] /\ reads \in 0 .. UnsignedRange - 1
      /\ writes \in 0 .. UnsignedRange - 1 /\ left \in 0 .. MaxRead
      /\ byte \in Bytes /\ byte \in Int /\ wrote \in Bytes /\ next \in Bytes
      /\ \A c \in 0 .. BufSize - 1 : buf[c] + 1 \in Int
  BY <1>1, PipeConstants DEF PipeTypes, Bytes
<1>7. CASE Read \/ ReadReturns \/ ReadFindsNone
  <2>1. /\ UNCHANGED <<buf, writes, wrote, reads, byte, next>>
        /\ rstep' \in {"none", "loop", "lock"} /\ left' \in 0 .. MaxRead
        /\ some' \in BOOLEAN
        /\ rstep' = "lock" => GetEnds /\ left' = left
    <3>1. CASE Read
      BY <1>1, <3>1, PipeConstants DEF Read, PipeTypes
    <3>2. CASE ReadReturns
      <4>1. /\ UNCHANGED <<buf, writes, wrote, reads, byte, next>>
            /\ rstep' = "none" /\ left' = 0 /\ some' = FALSE
        BY <3>2 DEF ReadReturns
      <4>2. some' \in BOOLEAN
        BY <4>1
      <4>3. left' \in 0 .. MaxRead
        BY <4>1, PipeConstants
      <4> QED BY <4>1, <4>2, <4>3
    <3>3. CASE ReadFindsNone
      BY <1>1, <3>3, PipeConstants DEF ReadFindsNone, PipeTypes
    <3> QED BY <1>7, <3>1, <3>2, <3>3
  <2>2. PipeTypes' /\ Unread' = Unread
    BY <1>6, <2>1 DEF PipeTypes, ReadSteps, Unread
  <2>3. PopUnderWay' /\ Signalled'
    BY <1>4, <2>1 DEF PopUnderWay, Signalled, GetEnds, IsEmpty
  <2> QED BY <1>1, <1>2, <2>2, <2>3 DEF PInv
<1>8. CASE PopStarts
  <2>1. /\ UNCHANGED <<buf, writes, left, some, wrote, next>>
        /\ left > 0 /\ ~IsEmpty /\ rstep' = "pop"
        /\ CountsFirst => byte' = Masked(reads) /\ reads' = Plus1(reads)
        /\ ~CountsFirst => byte' = buf[Masked(reads)] /\ reads' = reads
    BY <1>8 DEF PopStarts
  <2>2. /\ reads' \in 0 .. UnsignedRange - 1 /\ byte' \in Bytes
        /\ Unread' <= BufSize
    BY <1>1, <1>6, <2>1, CountRead, NextCell, PipeConstants
  <2>3. PipeTypes'
    BY <1>1, <1>6, <2>1, <2>2 DEF PipeTypes, ReadSteps
  <2>4. PopUnderWay'
    BY <1>1, <2>1, NextCell DEF PopUnderWay, IsEmpty, Masked
  <2>5. Signalled'
    BY <1>4, <2>1 DEF Signalled
  <2> QED BY <1>2, <2>2, <2>3, <2>4, <2>5 DEF PInv
<1>9. CASE PopEnds
  <2>1. /\ UNCHANGED <<buf, writes, wrote>> /\ byte' = 0
        /\ left' = left - 1 /\ some' = TRUE /\ rstep = "pop" /\ rstep' = "loop"
        /\ CountsFirst => next' = (buf[byte] + 1) % NumBytes /\ reads' = reads
        /\ ~CountsFirst => next' = (byte + 1) % NumBytes /\ reads' = Plus1(reads)
    BY <1>9 DEF PopEnds, At
  <2>2. /\ left > 0
        /\ CountsFirst => byte \in 0 .. BufSize - 1
        /\ ~CountsFirst => ~IsEmpty
    BY <1>1, <2>1 DEF PopUnderWay
  <2>3. reads' \in 0 .. UnsignedRange - 1 /\ Unread' <= BufSize
    <3>1. CASE CountsFirst
      <4>1. Unread' = Unread
        BY <2>1, <3>1 DEF Unread
      <4> QED BY <1>1, <1>6, <2>1, <3>1, <4>1
    <3>2. CASE ~CountsFirst
      <4>1. Unread \in 1 .. BufSize /\ Unread' = Unread - 1
            /\ reads' \in 0 .. UnsignedRange - 1
        BY <1>1, <2>1, <2>2, <3>2, CountRead
      <4> QED BY <4>1, PipeConstants
    <3> QED BY <3>1, <3>2
  <2>4. next' \in Bytes
    <3>1. CASE CountsFirst
      <4>1. buf[byte] + 1 \in Int
        BY <1>6, <2>2, <3>1
      <4> QED BY <1>5, <2>1, <3>1, <4>1
    <3>2. CASE ~CountsFirst
      <4>1. byte + 1 \in Int
        BY <1>6
      <4> QED BY <1>5, <2>1, <3>2, <4>1
    <3> QED BY <3>1, <3>2
  <2>5. left' \in 0 .. MaxRead /\ byte' \in Bytes
    BY <1>6, <2>1, <2>2, PipeConstants DEF Bytes
  <2>6. PipeTypes'
    BY <1>6, <2>1, <2>3, <2>4, <2>5 DEF PipeTypes, ReadSteps
  <2>7. PopUnderWay' /\ Signalled'
    BY <1>4, <2>1 DEF PopUnderWay, Signalled
  <2> QED BY <1>2, <2>3, <2>6, <2>7 DEF PInv
<1> QED BY <1>7, <1>8, <1>9 DEF ReadsOnly

LEMMA ReadLocksPInv ==
    ASSUME PInv, ReadLocks
    PROVE  PInv'
<1>1. /\ PipeTypes /\ Unread <= BufSize /\ rstep = "lock" /\ rstep' = "loop"
      /\ UNCHANGED <<buf, reads, writes, left, some, byte, wrote, next>>
  BY DEF PInv, ReadLocks, At
<1>2. PipeTypes' /\ Unread' <= BufSize /\ PopUnderWay'
  BY <1>1 DEF PipeTypes, ReadSteps, Unread, PopUnderWay
<1>3. Signalled'
  BY <1>1, ReadLocksMutex DEF Signalled, GetEnds, IsEmpty
<1> QED BY <1>2, <1>3, ReadLocksMutex DEF PInv

LEMMA WritePInv ==
    ASSUME PInv, IsrWriteOne
    PROVE  PInv'
<1>1. /\ PipeTypes /\ Unread <= BufSize /\ PopUnderWay /\ AddOne /\ Signal
      /\ UNCHANGED <<reads, rstep, left, some, byte, next>>
  BY DEF PInv, IsrWriteOne
<1>2. PipeTypes'
  BY <1>1, AddOneKeeps DEF PipeTypes
<1>3. Unread' <= BufSize
  <2>1. Unread' = (writes' - reads) % UnsignedRange
    BY <1>1 DEF Unread
  <2>2. Unread \in Int
    BY <1>1, Difference, PipeConstants DEF PipeTypes, Unread
  <2>3. writes' = writes => Unread' = Unread
    BY <2>1 DEF Unread
  <2> QED BY <1>1, <2>1, <2>2, <2>3, AddOneKeeps, PipeConstants
<1>4. PopUnderWay'
  <2>1. ASSUME rstep = "pop", ~CountsFirst
        PROVE  ~IsEmpty' /\ byte' = buf'[Masked(reads)]
    <3>1. ~IsEmpty /\ byte = buf[Masked(reads)]
      BY <1>1, <2>1 DEF PopUnderWay
    <3>2. Unread \in Int /\ Unread # 0 /\ 0 \in 0 .. Unread - 1
      BY <1>1, <3>1, Difference, PipeConstants DEF PipeTypes, IsEmpty, Unread
    <3>3. buf'[Masked(reads)] = buf[Masked(reads)]
      BY <1>1, <3>2, AddOneKeeps, NextCell
    <3>4. writes' # reads
      <4>1. reads \in 0 .. UnsignedRange - 1 /\ writes' \in 0 .. UnsignedRange - 1
        BY <1>1, AddOneKeeps DEF PipeTypes
      <4>2. (writes' - reads) % UnsignedRange = 0 <=> writes' = reads
        <5>1. \A w \in 0 .. UnsignedRange - 1 :
                (w - reads) % UnsignedRange = 0 <=> w = reads
          BY <4>1, Difference, PipeConstants
        <5> QED BY <4>1, <5>1
      <4>3. writes' = writes \/ (writes' - reads) % UnsignedRange = Unread + 1
        BY <1>1, AddOneKeeps
      <4>4. Unread >= 0
        BY <1>1, Difference, PipeConstants DEF PipeTypes, Unread
      <4> QED BY <3>1, <3>2, <4>2, <4>3, <4>4 DEF IsEmpty
    <3> QED BY <1>1, <3>1, <3>3, <3>4 DEF IsEmpty
  <2> QED BY <1>1, <2>1 DEF PopUnderWay, Masked
<1>5. Signalled'
  BY <1>1, SignalMutex DEF Signalled
<1> QED BY <1>1, <1>2, <1>3, <1>4, <1>5, SignalMutex DEF PInv

LEMMA PipeSteps ==
    ASSUME PInv, [PipeNext]_allVars
    PROVE  PInv'
<1>1. MInv /\ \A t \in Threads : NoMutex # PipeMutex
  BY MutexAssumption, PipeConstants DEF PInv
<1>2. CASE /\ UNCHANGED <<mutexVars, pipeVars>>
           /\ SystemStep \/ (\E t \in Threads : SchedCall(t)) \/ UNCHANGED schedVars
  BY <1>1, <1>2, SchedStepMInv, OtherPipeSteps DEF mutexVars
<1>3. CASE LockReturn(Reader) /\ UNCHANGED pipeVars
  <2>1. MInv' /\ UNCHANGED <<waiters, locked>>
    BY <1>1, <1>3, LockReturnMInv, PipeConstants DEF LockReturn
  <2> QED BY <1>3, <2>1, OtherPipeSteps
<1>4. CASE UNCHANGED allVars
  BY <1>2, <1>4 DEF allVars
<1>5. CASE (Boot \/ SwitchContextExit \/ PendSV) /\ UNCHANGED <<mutexVars, pipeVars>>
  BY <1>2, <1>5 DEF SystemStep
<1>6. CASE \E t \in Threads : KernelStep(t) /\ UNCHANGED <<mutexVars, pipeVars>>
  BY <1>2, <1>6 DEF SystemStep
<1>7. CASE (\E u \in Threads : IsrWakeup(u)) /\ UNCHANGED <<mutexVars, pipeVars>>
  BY <1>2, <1>7 DEF SystemStep
<1>8. CASE \E t \in Threads : OtherCall(t)
  BY <1>2, <1>8 DEF OtherCall, SchedCall
<1>9. CASE Read \/ ReadStep \/ IsrWriteOne
  BY <1>9, ReadsOnlyPInv, ReadLocksPInv, WritePInv DEF ReadStep, ReadsOnly
<1> QED BY <1>3, <1>4, <1>5, <1>6, <1>7, <1>8, <1>9 DEF PipeNext

THEOREM PipeInvariance == PipeSpec => []PInv
<1>1. PInv /\ [PipeNext]_allVars => PInv'
  BY PipeSteps
<1> QED BY InitPInv, <1>1, PTL DEF PipeSpec

(* No variable of the pipe leaves its type, and the writer is never more   *)
(* than a buffer ahead of the reader, whichever step of pop() comes first. *)
THEOREM PipeTypeCorrect == PipeSpec => []PipeTypeOK
<1>1. PInv => PipeTypeOK
  <2> SUFFICES ASSUME PInv PROVE PipeTypeOK
    OBVIOUS
  <2>1. MutexTypeOK
    BY DEF PInv, MInv, ListsInv
  <2>2. PipeTypes /\ (writes - reads) % UnsignedRange <= BufSize
    BY DEF PInv, Unread
  <2> QED BY <2>1, <2>2 DEF PipeTypes, PipeTypeOK, Bytes
<1> QED BY <1>1, PipeInvariance, PTL

(* The reader never waits with bytes in the buffer, whichever step of      *)
(* pop() comes first.                                                      *)
THEOREM ReaderIsSignalled == PipeSpec => []ReaderNotStranded
<1>1. PInv => ReaderNotStranded
  BY DEF PInv, Signalled, GetEnds, ReaderNotStranded
<1> QED BY <1>1, PipeInvariance, PTL

-----------------------------------------------------------------------------
(* The order of the bytes, when pop() loads before it counts.              *)

(* Counting on from a byte. *)
LEMMA NextBytes ==
    ASSUME NEW b \in Bytes
    PROVE  /\ (b + 0) % NumBytes = b
           /\ \A i \in 0 .. NumBytes - 1 : (((b + 1) % NumBytes) + i) % NumBytes
                                               = (b + (i + 1)) % NumBytes
<1>1. b \in 0 .. NumBytes - 1 /\ b + 0 = b
  BY PipeConstants DEF Bytes
<1>2. (b + 0) % NumBytes = b
  BY <1>1, ModSmall, PipeConstants
<1> QED BY <1>1, <1>2, CountOn, PipeConstants

InOrder ==
    /\ (next + Unread) % NumBytes = wrote
    /\ \A i \in 0 .. Unread - 1 :
         buf[Masked((reads + i) % UnsignedRange)] = (next + i) % NumBytes

LEMMA WriteInOrder ==
    ASSUME PInv, InOrder, IsrWriteOne
    PROVE  InOrder'
<1>1. /\ PipeTypes /\ Unread <= BufSize /\ AddOne
      /\ UNCHANGED <<reads, next>>
  BY DEF PInv, IsrWriteOne
<1>2. Unread \in Nat /\ next \in Bytes /\ next \in Nat /\ wrote \in Bytes
  BY <1>1, Difference, PipeConstants DEF PipeTypes, Unread, Bytes
<1>3. Unread' = (writes' - reads) % UnsignedRange
  BY <1>1 DEF Unread
<1>4. CASE UNCHANGED <<buf, writes, wrote>>
  BY <1>1, <1>4 DEF InOrder, Unread, Masked
<1>5. CASE /\ Unread < BufSize /\ Unread' = Unread + 1
           /\ wrote' = (wrote + 1) % NumBytes
           /\ buf'[Masked((reads + Unread) % UnsignedRange)] = wrote
           /\ \A i \in 0 .. Unread - 1 :
                buf'[Masked((reads + i) % UnsignedRange)] =
                    buf[Masked((reads + i) % UnsignedRange)]
  <2>1. (next + Unread) % NumBytes = wrote
    BY DEF InOrder
  <2>2. (next + (Unread + 1)) % NumBytes = (wrote + 1) % NumBytes
    <3>1. (((next + Unread) % NumBytes) + 1) % NumBytes = (next + (Unread + 1)) % NumBytes
      <4>1. next \in 0 .. NumBytes - 1 /\ Unread \in 0 .. NumBytes - 1
        BY <1>2, <1>5, PipeConstants DEF Bytes
      <4> QED BY <4>1, OneMore, PipeConstants
    <3> QED BY <2>1, <3>1
  <2>3. ASSUME NEW i \in 0 .. Unread
        PROVE  buf'[Masked((reads + i) % UnsignedRange)] = (next + i) % NumBytes
    <3>1. CASE i = Unread
      BY <1>5, <2>1, <3>1
    <3>2. CASE i \in 0 .. Unread - 1
      BY <1>5, <3>2 DEF InOrder
    <3> QED BY <1>2, <3>1, <3>2
  <2>4. (next + Unread') % NumBytes = wrote'
    BY <1>5, <2>2
  <2>5. 0 .. Unread' - 1 = 0 .. Unread
    BY <1>2, <1>5
  <2> QED BY <1>1, <2>3, <2>4, <2>5 DEF InOrder, Masked
<1> QED BY <1>1, <1>3, <1>4, <1>5, AddOneKeeps

LEMMA PopInOrder ==
    ASSUME ~CountsFirst, PInv, InOrder, PopEnds
    PROVE  InOrder'
<1>1. /\ PipeTypes /\ Unread <= BufSize /\ UNCHANGED <<buf, writes, wrote>>
      /\ ~IsEmpty /\ byte = buf[Masked(reads)]
      /\ next' = (byte + 1) % NumBytes /\ reads' = Plus1(reads)
  BY DEF PInv, PopUnderWay, PopEnds, At
<1>2. Unread \in 1 .. BufSize /\ Unread' = Unread - 1
  BY <1>1, CountRead
<1>3. reads \in 0 .. UnsignedRange - 1 /\ next \in Bytes
  BY <1>1 DEF PipeTypes
<1>4. byte = next
  <2>1. 0 \in 0 .. Unread - 1
    BY <1>2, PipeConstants
  <2>2. buf[Masked((reads + 0) % UnsignedRange)] = (next + 0) % NumBytes
    BY <2>1 DEF InOrder
  <2> QED BY <1>1, <1>3, <2>2, NextBytes, NextCell
<1>5. ASSUME NEW i \in 0 .. Unread - 1
      PROVE  (next' + i) % NumBytes = (next + (i + 1)) % NumBytes
  <2>1. i \in 0 .. NumBytes - 1
    BY <1>2, PipeConstants
  <2> QED BY <1>1, <1>3, <1>4, <2>1, NextBytes
<1>6. ASSUME NEW i \in 0 .. Unread - 2
      PROVE  buf[Masked((reads' + i) % UnsignedRange)] = (next' + i) % NumBytes
  <2>1. /\ i + 1 \in 0 .. Unread - 1 /\ i \in 0 .. Unread - 1
        /\ i \in 0 .. UnsignedRange - 1
    BY <1>2, PipeConstants
  <2>2. (reads' + i) % UnsignedRange = (reads + (i + 1)) % UnsignedRange
    BY <1>1, <1>3, <2>1, CountOn, PipeConstants DEF Plus1
  <2>3. buf[Masked((reads + (i + 1)) % UnsignedRange)] = (next + (i + 1)) % NumBytes
    BY <2>1 DEF InOrder
  <2> QED BY <1>5, <2>1, <2>2, <2>3
<1>7. (next' + (Unread - 1)) % NumBytes = wrote
  <2>1. Unread - 1 \in 0 .. Unread - 1 /\ (Unread - 1) + 1 = Unread
    BY <1>2, PipeConstants
  <2> QED BY <1>5, <2>1 DEF InOrder
<1>8. 0 .. Unread' - 1 = 0 .. Unread - 2
  BY <1>2, PipeConstants
<1> QED BY <1>1, <1>2, <1>6, <1>7, <1>8 DEF InOrder, Masked

(* The bytes come out as they went in, each once, when pop() loads before  *)
(* it counts: a handler in between writes another cell.  (The run          *)
(* isrpipe_race shows that the other order loses bytes.)                   *)
THEOREM BytesArriveInOrder ==
    ASSUME ~CountsFirst
    PROVE  PipeSpec => []BytesInOrder
<1>1. PipeInit => InOrder
  <2> SUFFICES ASSUME PipeInit PROVE InOrder
    OBVIOUS
  <2>1. Unread = 0 /\ next = 0 /\ wrote = 0
    BY Difference, PipeConstants DEF PipeInit, Unread
  <2>2. 0 \in Bytes
    BY PipeConstants DEF Bytes
  <2> QED BY <2>1, <2>2, NextBytes DEF InOrder
<1>2. PInv /\ InOrder /\ [PipeNext]_allVars => InOrder'
  <2> SUFFICES ASSUME PInv, InOrder, [PipeNext]_allVars PROVE InOrder'
    OBVIOUS
  <2>1. CASE UNCHANGED <<buf, reads, writes, next, wrote>>
    BY <2>1 DEF InOrder, Unread, Masked
  <2>2. CASE UNCHANGED pipeVars
    BY <2>1, <2>2 DEF pipeVars
  <2>3. CASE Read \/ PopStarts \/ ReadReturns \/ ReadFindsNone \/ ReadLocks
    BY <2>1, <2>3 DEF Read, PopStarts, ReadReturns, ReadFindsNone, ReadLocks
  <2>4. CASE PopEnds
    BY <2>4, PopInOrder
  <2>5. CASE IsrWriteOne
    BY <2>5, WriteInOrder
  <2> QED BY <2>2, <2>3, <2>4, <2>5 DEF PipeNext, OtherCall, ReadStep, allVars
<1>3. InOrder => BytesInOrder
  BY DEF InOrder, BytesInOrder, Unread
<1> QED BY <1>1, <1>2, <1>3, PipeInvariance, PTL DEF PipeSpec

-----------------------------------------------------------------------------
(* The circular index buffer implements a bounded queue.                   *)

(* The item i places behind the oldest. *)
Behind(i) == array[Index((read_count + i) % CountRange)]

CInv ==
    /\ array \in [Indexes -> Items \cup {None}]
    /\ read_count \in 0 .. CountRange - 1
    /\ write_count \in 0 .. CountRange - 1
    /\ Avail <= Size
    /\ \A i \in 0 .. Avail - 1 : Behind(i) \in Items

LEMMA CibConstants ==
    /\ Size \in Nat \ {0} /\ CountRange \in Nat \ {0}
    /\ Size < CountRange /\ Size <= CountRange /\ CountRange % Size = 0
    /\ None \notin Items
BY CibAssumption

LEMMA InitCInv ==
    ASSUME CibInit
    PROVE  CInv /\ Avail = 0
<1>1. 0 \in 0 .. CountRange - 1
  BY CibConstants
<1>2. Avail = 0
  BY <1>1, Difference, CibConstants DEF CibInit, Avail
<1> QED BY <1>1, <1>2, CibConstants DEF CibInit, CInv

(* What each successful call does to the items that are there. *)
LEMMA PutItems ==
    ASSUME CInv, NEW x \in Items, Put(x)
    PROVE  /\ CInv' /\ Avail \in 0 .. Size - 1 /\ Avail' = Avail + 1
           /\ \A n \in Nat : n = Avail => Behind(n)' = x
           /\ \A i \in 0 .. Avail - 1 : Behind(i)' = Behind(i)
<1>1. /\ read_count \in 0 .. CountRange - 1 /\ write_count \in 0 .. CountRange - 1
      /\ array \in [Indexes -> Items \cup {None}] /\ read_count' = read_count
      /\ array' = [array EXCEPT ![Index(write_count)] = x]
      /\ write_count' = (write_count + 1) % CountRange
      /\ \A i \in 0 .. Avail - 1 : Behind(i) \in Items
  BY DEF CInv, Put, Succ
<1>2. Avail \in 0 .. Size - 1 /\ Avail + 1 < CountRange
  <2>1. Avail \in 0 .. CountRange - 1 /\ Avail <= Size - 1
    BY <1>1, Difference, CibConstants DEF Avail, Put, HasRoom
  <2> QED BY <2>1, CibConstants
<1>3. write_count' \in 0 .. CountRange - 1
  <2>1. write_count + 1 \in Int
    BY <1>1, CibConstants
  <2> QED BY <1>1, <2>1, ModRange, CibConstants
<1>4. (((write_count + 1) % CountRange) - read_count) % CountRange = Avail + 1
  BY <1>1, <1>2, WriteOne, CibConstants DEF Avail
<1>5. Avail' = Avail + 1
  <2>1. Avail' = (write_count' - read_count) % CountRange
    BY <1>1 DEF Avail
  <2>2. (write_count' - read_count) % CountRange =
            (((write_count + 1) % CountRange) - read_count) % CountRange
    BY <1>1
  <2> QED BY <1>4, <2>1, <2>2
<1>6. (read_count + Avail) % CountRange = write_count
  BY <1>1, Caught, CibConstants DEF Avail
<1>7. \A c \in Int : Index(c) \in Indexes
  BY ModRange, CibConstants DEF Index, Indexes
<1>8. Index(write_count) \in Indexes
  <2>1. write_count \in Int
    BY <1>1, CibConstants
  <2> QED BY <1>7, <2>1
<1>9. \A i : Behind(i)' = array'[Index((read_count + i) % CountRange)]
  BY <1>1 DEF Behind, Index
<1>10. \A n \in Nat : n = Avail => Behind(n)' = x
  <2>1. array'[Index(write_count)] = x
    BY <1>1, <1>8
  <2>2. array'[Index((read_count + Avail) % CountRange)] = x
    BY <1>6, <2>1
  <2> QED BY <1>9, <2>2
<1>11. ASSUME NEW i \in 0 .. Avail - 1
       PROVE  Behind(i)' = Behind(i)
  <2>1. Index((read_count + i) % CountRange) # Index((read_count + Avail) % CountRange)
    BY <1>1, <1>2, FreshCell, CibConstants DEF Index
  <2>2. Index((read_count + i) % CountRange) \in Indexes
    <3>1. read_count + i \in Int
      BY <1>1, <1>2, CibConstants
    <3>2. (read_count + i) % CountRange \in Int
      BY <3>1, ModRange, CibConstants
    <3> QED BY <1>7, <3>2
  <2> QED BY <1>1, <1>6, <1>9, <2>1, <2>2 DEF Behind
<1>12. \A i \in 0 .. Avail' - 1 : Behind(i)' \in Items
  <2>1. ASSUME NEW i \in 0 .. Avail
        PROVE  Behind(i)' \in Items
    <3>1. CASE i = Avail
      BY <1>2, <1>10, <3>1
    <3>2. CASE i \in 0 .. Avail - 1
      BY <1>1, <1>11, <3>2
    <3> QED BY <1>2, <3>1, <3>2, CibConstants
  <2>2. 0 .. Avail' - 1 = 0 .. Avail
    BY <1>2, <1>5, CibConstants
  <2> QED BY <2>1, <2>2
<1>13. array' \in [Indexes -> Items \cup {None}] /\ Avail' <= Size
  <2>1. array' \in [Indexes -> Items \cup {None}]
    BY <1>1
  <2>2. Avail' <= Size
    BY <1>2, <1>5, CibConstants
  <2> QED BY <2>1, <2>2
<1> QED BY <1>1, <1>2, <1>3, <1>5, <1>10, <1>11, <1>12, <1>13 DEF CInv

LEMMA GetItems ==
    ASSUME CInv, Get
    PROVE  /\ CInv' /\ Avail \in 1 .. Size /\ Avail' = Avail - 1
           /\ item' = Behind(0)
           /\ \A i \in 0 .. Avail - 2 : Behind(i)' = Behind(i + 1)
<1>1. /\ read_count \in 0 .. CountRange - 1 /\ write_count \in 0 .. CountRange - 1
      /\ array \in [Indexes -> Items \cup {None}] /\ Avail <= Size
      /\ read_count' = (read_count + 1) % CountRange
      /\ UNCHANGED <<array, write_count>> /\ item' = array[Index(read_count)]
      /\ \A i \in 0 .. Avail - 1 : Behind(i) \in Items
  BY DEF CInv, Get, Succ
<1>2. Avail \in 1 .. Size /\ write_count # read_count
  <2>1. /\ Avail \in 0 .. CountRange - 1
        /\ Avail = 0 <=> write_count = read_count
    BY <1>1, Difference, CibConstants DEF Avail
  <2>2. Avail > 0
    BY DEF Get
  <2> QED BY <1>1, <2>1, <2>2, CibConstants
<1>3. read_count' \in 0 .. CountRange - 1
  <2>1. read_count + 1 \in Int
    BY <1>1, CibConstants
  <2> QED BY <1>1, <2>1, ModRange, CibConstants
<1>4. Avail' = Avail - 1
  <2>1. (write_count - ((read_count + 1) % CountRange)) % CountRange = Avail - 1
    BY <1>1, <1>2, ReadOne, CibConstants DEF Avail
  <2>2. Avail' = (write_count - read_count') % CountRange
    BY <1>1 DEF Avail
  <2>3. (write_count - read_count') % CountRange =
            (write_count - ((read_count + 1) % CountRange)) % CountRange
    BY <1>1
  <2> QED BY <2>1, <2>2, <2>3
<1>5. item' = Behind(0)
  <2>1. read_count + 0 = read_count
    BY <1>1, CibConstants
  <2>2. (read_count + 0) % CountRange = read_count
    BY <1>1, <2>1, ModSmall, CibConstants
  <2> QED BY <1>1, <2>2 DEF Behind
<1>6. ASSUME NEW i \in 0 .. Avail - 2
      PROVE  Behind(i)' = Behind(i + 1)
  <2>1. i \in 0 .. CountRange - 1
    BY <1>2, CibConstants
  <2>2. (((read_count + 1) % CountRange) + i) % CountRange
            = (read_count + (i + 1)) % CountRange
    BY <1>1, <2>1, CountOn, CibConstants
  <2>3. (read_count' + i) % CountRange = (read_count + (i + 1)) % CountRange
    BY <1>1, <2>2
  <2>4. Behind(i)' = array[Index((read_count' + i) % CountRange)]
    BY <1>1 DEF Behind, Index
  <2> QED BY <2>3, <2>4 DEF Behind
<1>7. \A i \in 0 .. Avail' - 1 : Behind(i)' \in Items
  <2>1. ASSUME NEW i \in 0 .. Avail - 2
        PROVE  Behind(i)' \in Items
    <3>1. i + 1 \in 0 .. Avail - 1
      BY <1>2, CibConstants
    <3> QED BY <1>1, <1>6, <3>1
  <2>2. 0 .. Avail' - 1 = 0 .. Avail - 2
    BY <1>2, <1>4, CibConstants
  <2> QED BY <2>1, <2>2
<1>8. Avail' <= Size
  BY <1>2, <1>4, CibConstants
<1> QED BY <1>1, <1>2, <1>3, <1>4, <1>5, <1>6, <1>7, <1>8 DEF CInv

LEMMA ContentIs ==
    ASSUME CInv
    PROVE  /\ CibContent \in Seq(Items) /\ Len(CibContent) = Avail
           /\ Avail \in 0 .. Size
           /\ \A i \in 1 .. Avail : CibContent[i] = Behind(i - 1)
<1>1. /\ read_count \in 0 .. CountRange - 1 /\ write_count \in 0 .. CountRange - 1
      /\ Avail <= Size /\ \A i \in 0 .. Avail - 1 : Behind(i) \in Items
  BY DEF CInv
<1>2. Avail \in 0 .. Size
  BY <1>1, Difference, CibConstants DEF Avail
<1>3. ASSUME NEW i \in 1 .. Avail
      PROVE  CibContent[i] = Behind(i - 1) /\ Behind(i - 1) \in Items
  <2>1. i - 1 \in 0 .. Avail - 1 /\ read_count + (i - 1) = read_count + i - 1
    BY <1>1, <1>2, CibConstants
  <2>2. Behind(i - 1) \in Items
    BY <1>1, <2>1
  <2> QED BY <2>1, <2>2 DEF CibContent, Behind
<1>4. CibContent = [i \in 1 .. Avail |-> CibContent[i]]
  BY DEF CibContent
<1>5. CibContent \in [1 .. Avail -> Items]
  BY <1>3, <1>4
<1>6. CibContent \in Seq(Items) /\ Len(CibContent) = Avail
  BY <1>2, <1>5, CibConstants
<1> QED BY <1>2, <1>3, <1>6

(* The same after a step. *)
ItemsBehind ==
    /\ CibContent \in Seq(Items) /\ Len(CibContent) = Avail
    /\ \A i \in 1 .. Avail : CibContent[i] = Behind(i - 1)

LEMMA ItemsBehindNext == CInv' => ItemsBehind'
<1>1. CInv => ItemsBehind
  BY ContentIs DEF ItemsBehind
<1> QED BY <1>1, PTL

LEMMA ContentNext ==
    ASSUME CInv'
    PROVE  /\ CibContent' \in Seq(Items) /\ Len(CibContent') = Avail'
           /\ \A i \in 1 .. Avail' : CibContent'[i] = Behind(i - 1)'
BY ItemsBehindNext DEF ItemsBehind

LEMMA SameItems ==
    ASSUME NEW S, NEW s \in Seq(S), NEW r \in Seq(S), Len(s) = Len(r),
           \A i \in 1 .. Len(s) : s[i] = r[i]
    PROVE  s = r
OBVIOUS

LEMMA PutImplements ==
    ASSUME CInv, NEW x \in Items, Put(x)
    PROVE  F!Put(x)
<1>1. /\ CibContent \in Seq(Items) /\ Len(CibContent) = Avail
      /\ \A i \in 1 .. Avail : CibContent[i] = Behind(i - 1)
  BY ContentIs
<1>2. /\ CInv' /\ Avail \in 0 .. Size - 1 /\ Avail' = Avail + 1
      /\ \A n \in Nat : n = Avail => Behind(n)' = x
      /\ \A i \in 0 .. Avail - 1 : Behind(i)' = Behind(i)
  BY PutItems
<1>3. /\ CibContent' \in Seq(Items) /\ Len(CibContent') = Avail + 1
      /\ \A i \in 1 .. Avail + 1 : CibContent'[i] = Behind(i - 1)'
  BY <1>2, ContentNext
<1>4. ASSUME NEW i \in 1 .. Avail + 1
      PROVE  CibContent'[i] = Append(CibContent, x)[i]
  <2>1. CASE i = Avail + 1
    <3>1. i - 1 \in Nat /\ i - 1 = Avail
      BY <1>2, <2>1, CibConstants
    <3>2. Behind(i - 1)' = x
      BY <1>2, <3>1
    <3> QED BY <1>1, <1>3, <2>1, <3>2
  <2>2. CASE i \in 1 .. Avail
    <3>1. i - 1 \in 0 .. Avail - 1
      BY <1>2, <2>2, CibConstants
    <3>2. Behind(i - 1)' = Behind(i - 1)
      BY <1>2, <3>1
    <3> QED BY <1>1, <1>3, <2>2, <3>2
  <2>3. i = Avail + 1 \/ i \in 1 .. Avail
    BY <1>2, CibConstants
  <2> QED BY <2>1, <2>2, <2>3
<1>5. Append(CibContent, x) \in Seq(Items) /\ Len(Append(CibContent, x)) = Avail + 1
  BY <1>1
<1>6. CibContent' = Append(CibContent, x)
  BY <1>3, <1>4, <1>5, SameItems
<1>7. item' = x /\ Len(CibContent) < Size
  BY <1>1, <1>2, CibConstants DEF Put
<1> QED BY <1>6, <1>7 DEF F!Put

LEMMA GetImplements ==
    ASSUME CInv, Get
    PROVE  F!Get
<1>1. /\ CibContent \in Seq(Items) /\ Len(CibContent) = Avail
      /\ \A i \in 1 .. Avail : CibContent[i] = Behind(i - 1)
  BY ContentIs
<1>2. /\ CInv' /\ Avail \in 1 .. Size /\ Avail' = Avail - 1 /\ item' = Behind(0)
      /\ \A i \in 0 .. Avail - 2 : Behind(i)' = Behind(i + 1)
  BY GetItems
<1>3. /\ CibContent' \in Seq(Items) /\ Len(CibContent') = Avail - 1
      /\ \A i \in 1 .. Avail - 1 : CibContent'[i] = Behind(i - 1)'
  BY <1>2, ContentNext
<1>4. CibContent # <<>> /\ Head(CibContent) = CibContent[1]
  BY <1>1, <1>2, CibConstants
<1>5. item' = Head(CibContent)
  <2>1. 1 \in 1 .. Avail /\ 1 - 1 = 0
    BY <1>2, CibConstants
  <2>2. CibContent[1] = Behind(1 - 1)
    BY <1>1, <2>1
  <2> QED BY <1>2, <1>4, <2>1, <2>2
<1>6. ASSUME NEW i \in 1 .. Avail - 1
      PROVE  CibContent'[i] = Tail(CibContent)[i]
  <2>1. i - 1 \in 0 .. Avail - 2 /\ i + 1 \in 1 .. Avail /\ (i - 1) + 1 = (i + 1) - 1
    BY <1>2, CibConstants
  <2>2. Behind(i - 1)' = Behind((i - 1) + 1)
    BY <1>2, <2>1
  <2>3. CibContent[i + 1] = Behind((i + 1) - 1)
    BY <1>1, <2>1
  <2>4. Tail(CibContent)[i] = CibContent[i + 1]
    BY <1>1, <1>2, <1>4
  <2> QED BY <1>3, <2>1, <2>2, <2>3, <2>4
<1>7. Tail(CibContent) \in Seq(Items) /\ Len(Tail(CibContent)) = Avail - 1
  BY <1>1, <1>4
<1>8. CibContent' = Tail(CibContent)
  BY <1>3, <1>6, <1>7, SameItems
<1> QED BY <1>4, <1>5, <1>8 DEF F!Get

(* A queue of messages is first in, first out, and refuses an item exactly *)
(* when it holds Size of them, for every size that divides the range of    *)
(* the counters: their wrapping never shows.                               *)
THEOREM CibRefines == CibSpec => ImplementsFifo
<1>1. CibInit => F!Init
  <2> SUFFICES ASSUME CibInit PROVE F!Init
    OBVIOUS
  <2>1. CibContent \in Seq(Items) /\ Len(CibContent) = 0
    BY InitCInv, ContentIs
  <2>2. CibContent = <<>>
    BY <2>1
  <2> QED BY <2>2 DEF CibInit, F!Init
<1>2. CInv /\ [CibNext]_cibVars => CInv' /\ [F!Next]_<<CibContent, item>>
  <2> SUFFICES ASSUME CInv, [CibNext]_cibVars
               PROVE  CInv' /\ [F!Next]_<<CibContent, item>>
    OBVIOUS
  <2>1. /\ CibContent \in Seq(Items) /\ Len(CibContent) = Avail
        /\ Avail \in 0 .. Size
        /\ \A i \in 1 .. Avail : CibContent[i] = Behind(i - 1)
    BY ContentIs
  <2>2. ASSUME UNCHANGED <<array, read_count, write_count>>
        PROVE  CInv' /\ UNCHANGED CibContent
    BY <2>2 DEF CInv, CibContent, Avail, Index, Behind
  <2>3. CASE \E x \in Items : Put(x)
    BY <2>3, PutItems, PutImplements DEF F!Next
  <2>4. CASE PutFails
    <3>1. Avail = Size
      BY <2>1, <2>4, CibConstants DEF PutFails, HasRoom
    <3>2. CibContent[1] \in Items
      BY <2>1, <3>1, CibConstants
    <3>3. F!Put(CibContent[1])
      BY <2>1, <2>2, <2>4, <3>1, CibConstants DEF PutFails, F!Put
    <3> QED BY <2>2, <2>4, <3>2, <3>3 DEF PutFails, F!Next
  <2>5. CASE Get
    BY <2>5, GetItems, GetImplements DEF F!Next
  <2>6. CASE GetFails
    <3>1. CibContent = <<>>
      BY <2>1, <2>6 DEF GetFails
    <3>2. F!Get
      BY <2>2, <2>6, <3>1 DEF GetFails, F!Get
    <3> QED BY <2>2, <2>6, <3>2 DEF GetFails, F!Next
  <2>7. CASE UNCHANGED cibVars
    BY <2>2, <2>7 DEF cibVars
  <2> QED BY <2>3, <2>4, <2>5, <2>6, <2>7 DEF CibNext
<1>3. CibInit => CInv
  BY InitCInv
<1> QED BY <1>1, <1>2, <1>3, PTL DEF CibSpec, ImplementsFifo, F!Spec

-----------------------------------------------------------------------------
(* The command line.                                                       *)

(* A set of numbers has a least one, from which induction follows. *)
LEMMA Least ==
    ASSUME NEW T, T \subseteq Nat, T # {}
    PROVE  \E x \in T : \A y \in T : x <= y
<1> DEFINE R == {ss \in Nat \X Nat : ss[1] < ss[2]}
<1>1. IsWellFoundedOn(R, Nat)
  <2>1. OpToRel(<, Nat) = {ss \in Nat \X Nat : ss[1] < ss[2]}
    BY DEF OpToRel
  <2> QED BY <2>1, NatLessThanWellFounded
<1>2. \A x, y \in Nat : y < x => <<y, x>> \in R
  OBVIOUS
<1> HIDE DEF R
<1>3. PICK x \in T : \A y \in T : ~(<<y, x>> \in R)
  BY <1>1, WFMin
<1>4. \A y \in T : ~(y < x)
  BY <1>2, <1>3
<1>5. \A y \in T : x <= y
  BY <1>4
<1> QED BY <1>5

LEMMA Induction ==
    ASSUME NEW G, 0 \in G, \A n \in Nat : n \in G => n + 1 \in G
    PROVE  Nat \subseteq G
<1> SUFFICES ASSUME Nat \ G # {} PROVE FALSE
  OBVIOUS
<1>1. PICK x \in Nat \ G : \A y \in Nat \ G : x <= y
  <2>1. Nat \ G \subseteq Nat
    OBVIOUS
  <2> QED BY <2>1, Least
<1>2. x # 0 /\ x - 1 \in Nat /\ x - 1 \in G
  BY <1>1
<1>3. (x - 1) + 1 = x
  BY <1>1
<1> QED BY <1>1, <1>2, <1>3

(* A function may be defined by recursion over the numbers up to n. *)
Follows(h, v, step, n) == h[0] = v /\ \A i \in 1 .. n : h[i] = step[i][h[i - 1]]

LEMMA Recursion ==
    ASSUME NEW V, NEW v \in V, NEW n \in Nat, NEW step \in [1 .. n -> [V -> V]]
    PROVE  \E h \in [0 .. n -> V] : Follows(h, v, step, n)
<1> DEFINE Upto(k, h) ==
               /\ h \in [0 .. k -> V] /\ h[0] = v
               /\ \A i \in 1 .. k : h[i] = step[i][h[i - 1]]
           G == {k \in Nat : k <= n => \E h : Upto(k, h)}
<1>1. 0 \in G
  <2> DEFINE h == [i \in 0 .. 0 |-> v]
  <2>1. Upto(0, h)
    OBVIOUS
  <2> QED BY <2>1
<1>2. ASSUME NEW k \in Nat, k \in G PROVE k + 1 \in G
  <2> SUFFICES ASSUME k + 1 <= n PROVE \E h : Upto(k + 1, h)
    OBVIOUS
  <2>1. PICK h : Upto(k, h)
    BY <1>2
  <2> DEFINE x == step[k + 1][h[k]]
             g == [i \in 0 .. k + 1 |-> IF i = k + 1 THEN x ELSE h[i]]
  <2>2. x \in V
    <3>1. k + 1 \in 1 .. n /\ h[k] \in V
      BY <2>1
    <3>2. step[k + 1] \in [V -> V]
      BY <3>1
    <3> QED BY <3>1, <3>2
  <2> HIDE DEF x
  <2>3. \A i \in 0 .. k : h[i] \in V
    BY <2>1
  <2>4. g \in [0 .. k + 1 -> V] /\ g[k + 1] = x /\ \A i \in 0 .. k : g[i] = h[i]
    <3>1. \A i \in 0 .. k + 1 : i # k + 1 => i \in 0 .. k
      OBVIOUS
    <3>2. \A i \in 0 .. k : i \in 0 .. k + 1 /\ i # k + 1
      OBVIOUS
    <3> QED BY <2>2, <2>3, <3>1, <3>2
  <2> HIDE DEF g
  <2>5. g[0] = v
    BY <2>1, <2>4
  <2>6. ASSUME NEW i \in 1 .. k + 1 PROVE g[i] = step[i][g[i - 1]]
    <3>1. CASE i = k + 1
      <4>1. i - 1 = k /\ k \in 0 .. k
        BY <3>1
      <4> QED BY <2>4, <3>1, <4>1 DEF x
    <3>2. CASE i # k + 1
      <4>1. i \in 1 .. k /\ i \in 0 .. k /\ i - 1 \in 0 .. k
        BY <3>2
      <4> QED BY <2>1, <2>4, <4>1
    <3> QED BY <3>1, <3>2
  <2> QED BY <2>4, <2>5, <2>6
<1> HIDE DEF G
<1>3. n \in G
  BY <1>1, <1>2, Induction
<1> QED BY <1>3 DEF G, Follows

(* The least and the greatest of a set of numbers. *)
LEMMA MinIs ==
    ASSUME NEW S, S \subseteq Int, NEW m \in S, \A x \in S : m <= x
    PROVE  Min(S) = m
<1>1. \A x \in S : (\A y \in S : x <= y) => x = m
  <2> SUFFICES ASSUME NEW x \in S, \A y \in S : x <= y PROVE x = m
    OBVIOUS
  <2>1. x <= m /\ m <= x /\ x \in Int /\ m \in Int
    OBVIOUS
  <2> QED BY <2>1
<1> QED BY <1>1 DEF Min

LEMMA MaxIs ==
    ASSUME NEW S, S \subseteq Int, NEW m \in S, \A x \in S : x <= m
    PROVE  Max(S) = m
<1>1. \A x \in S : (\A y \in S : x >= y) => x = m
  <2> SUFFICES ASSUME NEW x \in S, \A y \in S : x >= y PROVE x = m
    OBVIOUS
  <2>1. x >= m /\ x <= m /\ x \in Int /\ m \in Int
    OBVIOUS
  <2> QED BY <2>1
<1> QED BY <1>1 DEF Max

LEMMA MinOfTwo ==
    ASSUME NEW a \in Int, NEW b \in Int
    PROVE  Min({a, b}) = IF a <= b THEN a ELSE b
<1> DEFINE S == {a, b}
           m == IF a <= b THEN a ELSE b
<1>1. S \subseteq Int /\ m \in S /\ \A x \in S : m <= x
  OBVIOUS
<1> HIDE DEF S, m
<1>2. Min(S) = m
  BY <1>1, MinIs
<1> QED BY <1>2 DEF S, m

(* The first place from j to n, or n + 1, where P holds. *)
LEMMA FirstIn ==
    ASSUME NEW P, NEW j \in Nat, NEW n \in Nat, j <= n + 1
    PROVE  LET e == Min({p \in j .. n : p \in P} \cup {n + 1})
           IN  /\ e \in j .. n + 1
               /\ \A p \in j .. e - 1 : p \notin P
               /\ e <= n => e \in P
<1> DEFINE T == {p \in j .. n : p \in P} \cup {n + 1}
<1>1. PICK m \in T : \A x \in T : m <= x
  <2>1. T \subseteq Nat /\ T # {}
    OBVIOUS
  <2> HIDE DEF T
  <2> QED BY <2>1, Least
<1>2. Min(T) = m
  <2>1. T \subseteq Int
    OBVIOUS
  <2> HIDE DEF T
  <2> QED BY <1>1, <2>1, MinIs
<1>3. /\ m \in j .. n + 1 /\ (m <= n => m \in P)
      /\ \A p \in j .. m - 1 : p \notin P
  BY <1>1
<1> HIDE DEF T
<1> QED BY <1>2, <1>3 DEF T

-----------------------------------------------------------------------------
(* Text: what the ring sends is what is put into it.                       *)
Chars == Letters \cup {Space, "CR", "LF", ">", "BS", "Unknown command: ", "Done"}

Texts == Seq(Chars)

CharSet == Letters \cup {Space}

LEMMA CutIs ==
    ASSUME NEW S, NEW s \in Seq(S), NEW n \in Nat
    PROVE  /\ AtMost(n, s) = C!Cut(n, s) /\ AtMost(n, s) \in Seq(S)
           /\ Len(AtMost(n, s)) <= n
           /\ Len(s) <= n => AtMost(n, s) = s
<1>1. Len(s) \in Nat /\ \A i \in 1 .. Len(s) : s[i] \in S
  BY LenProperties, ElementOfSeq
<1>2. CASE Len(s) <= n
  <2>1. Min({n, Len(s)}) = Len(s)
    <3>1. n \in Int /\ Len(s) \in Int /\ (IF n <= Len(s) THEN n ELSE Len(s)) = Len(s)
      BY <1>1, <1>2
    <3> QED BY <3>1, MinOfTwo
  <2>2. AtMost(n, s) = s
    BY <2>1, SubSeqFull DEF AtMost
  <2> QED BY <1>2, <2>2 DEF C!Cut
<1>3. CASE ~(Len(s) <= n)
  <2>1. Min({n, Len(s)}) = n
    <3>1. n \in Int /\ Len(s) \in Int /\ n <= Len(s)
      BY <1>1, <1>3
    <3> QED BY <3>1, MinOfTwo
  <2>2. AtMost(n, s) = SubSeq(s, 1, n) /\ C!Cut(n, s) = SubSeq(s, 1, n)
    BY <1>3, <2>1 DEF AtMost, C!Cut
  <2>3. \A i \in 1 .. n : s[i] \in S
    BY <1>1, <1>3
  <2>4. SubSeq(s, 1, n) \in Seq(S) /\ Len(SubSeq(s, 1, n)) = IF 1 <= n THEN n - 1 + 1 ELSE 0
    BY <2>3, SubSeqProperties
  <2> QED BY <1>3, <2>2, <2>4
<1> QED BY <1>2, <1>3

LEMMA ChunksAre ==
    ASSUME NEW S, NEW s \in Seq(S), NEW head \in 0 .. TxBufferSize - 1, Len(s) <= TxBufferSize
    PROVE  Chunks(head, s) = s
<1> DEFINE T == TxBufferSize
           cell == [j \in 0 .. T - 1 |-> ((j - head) % T) + 1]
           first == Min({Len(s), T - head})
           at(i) == IF i <= first THEN head + i - 1 ELSE i - 1 - first
<1>1. T \in Nat \ {0} /\ Len(s) \in Nat /\ head \in Nat /\ head < T /\ Len(s) <= T
  BY CliAssumption, LenProperties
<1>2. first = IF Len(s) <= T - head THEN Len(s) ELSE T - head
  <2> HIDE DEF cell, T
  <2>1. T - head \in Int /\ Len(s) \in Int
    BY <1>1
  <2> QED BY <2>1, MinOfTwo
<1>3. Chunks(head, s) = [i \in 1 .. Len(s) |-> s[cell[at(i)]]]
  BY DEF Chunks
<1> HIDE DEF T, first
<1>4. ASSUME NEW i \in 1 .. Len(s) PROVE cell[at(i)] = i
  <2> DEFINE r == i - 1
  <2>1. r \in 0 .. T - 1 /\ r + 1 = i /\ r < Len(s)
    BY <1>1
  <2>2. at(i) \in 0 .. T - 1 /\ (at(i) - head = 0 * T + r \/ at(i) - head = (-1) * T + r)
    <3> HIDE DEF cell
    <3>1. CASE i <= first
      BY <1>1, <1>2, <3>1
    <3>2. CASE ~(i <= first)
      <4>1. first = T - head /\ at(i) = i - 1 - first
        <5>1. at(i) = i - 1 - first
          BY <3>2
        <5> HIDE DEF at, r
        <5>2. i \in Int /\ i <= Len(s)
          BY <1>1
        <5>3. Len(s) # first
          BY <3>2, <5>2
        <5> QED BY <1>2, <5>1, <5>3
      <4>2. at(i) = (r - T) + head
        BY <1>1, <4>1
      <4>3. i > T - head /\ i \in Int
        BY <1>1, <3>2, <4>1
      <4> HIDE DEF at
      <4>4. at(i) \in 0 .. T - 1 /\ at(i) - head = (-1) * T + r
        BY <1>1, <2>1, <4>2, <4>3
      <4> QED BY <4>4
    <3> QED BY <3>1, <3>2
  <2>3. cell[at(i)] = ((at(i) - head) % T) + 1
    <3> HIDE DEF at, r
    <3> QED BY <2>2
  <2> HIDE DEF cell, at, r
  <2>4. (0 * T + r) % T = r /\ ((-1) * T + r) % T = r
    <3>1. 0 \in Int /\ -1 \in Int
      OBVIOUS
    <3> QED BY <1>1, <2>1, <3>1, ModIs
  <2>5. (at(i) - head) % T = r
    BY <2>2, <2>4
  <2> QED BY <2>1, <2>3, <2>5
<1> HIDE DEF cell, at
<1>5. Chunks(head, s) = [i \in 1 .. Len(s) |-> s[i]]
  BY <1>3, <1>4
<1> QED BY <1>5, LenProperties

(* One call of output() sends s, cut to the size of the ring. *)
LEMMA OutputIs ==
    ASSUME NEW S, NEW s \in Seq(S),
           NEW tx \in [head : 0 .. TxBufferSize - 1, sent : Seq(S)]
    PROVE  /\ Output(tx, s) \in [head : 0 .. TxBufferSize - 1, sent : Seq(S)]
           /\ Output(tx, s).sent = tx.sent \o AtMost(TxBufferSize, s)
<1>1. TxBufferSize \in Nat \ {0} /\ tx.head \in 0 .. TxBufferSize - 1 /\ tx.sent \in Seq(S)
  BY CliAssumption
<1> DEFINE in == AtMost(TxBufferSize, s)
<1>2. in \in Seq(S) /\ Len(in) <= TxBufferSize /\ Len(in) \in Nat
  BY <1>1, CutIs, LenProperties
<1> HIDE DEF in
<1>3. Chunks(tx.head, in) = in
  BY <1>1, <1>2, ChunksAre
<1>4. (tx.head + Len(in)) % TxBufferSize \in 0 .. TxBufferSize - 1
  <2> DEFINE x == tx.head + Len(in)
  <2>1. x \in Int
    BY <1>1, <1>2
  <2> HIDE DEF x
  <2>2. x % TxBufferSize \in 0 .. TxBufferSize - 1
    BY <1>1, <2>1, ModRange
  <2> QED BY <2>2 DEF x
<1>5. tx.sent \o in \in Seq(S)
  BY <1>1, <1>2, ConcatProperties
<1>6. Output(tx, s) = [head |-> (tx.head + Len(in)) % TxBufferSize, sent |-> tx.sent \o in]
  BY <1>3 DEF Output, in
<1> QED BY <1>4, <1>5, <1>6 DEF in

(* The calls of output() that a step makes, by the equations of tx.        *)
Sends(tx, head, pieces) ==
    /\ tx[0] = [head |-> head, sent |-> <<>>]
    /\ \A i \in 1 .. Len(pieces) : tx[i].sent = tx[i - 1].sent \o AtMost(TxBufferSize, pieces[i])
    /\ Outputs(head, pieces) = tx[Len(pieces)]

LEMMA OutputsAre ==
    ASSUME NEW S, NEW head \in 0 .. TxBufferSize - 1, NEW pieces \in Seq(Seq(S))
    PROVE  \E tx \in [0 .. Len(pieces) -> [head : 0 .. TxBufferSize - 1, sent : Seq(S)]] :
               Sends(tx, head, pieces)
<1> DEFINE V == [head : 0 .. TxBufferSize - 1, sent : Seq(S)]
           n == Len(pieces)
           v == [head |-> head, sent |-> <<>>]
           step == [i \in 1 .. n |-> [x \in V |-> Output(x, pieces[i])]]
<1>1. n \in Nat /\ \A i \in 1 .. n : pieces[i] \in Seq(S)
  BY LenProperties, ElementOfSeq
<1>2. \A i \in 1 .. n, x \in V : /\ Output(x, pieces[i]) \in V
                                  /\ Output(x, pieces[i]).sent = x.sent \o AtMost(TxBufferSize, pieces[i])
  BY <1>1, OutputIs
<1>3. v \in V
  BY EmptySeq
<1> HIDE DEF V, v, n
<1>4. step \in [1 .. n -> [V -> V]]
  BY <1>2
<1>5. \A i \in 1 .. n, x \in V : step[i][x] = Output(x, pieces[i])
  OBVIOUS
<1> HIDE DEF step
<1>6. PICK h \in [0 .. n -> V] : Follows(h, v, step, n)
  BY <1>1, <1>3, <1>4, Recursion
<1>7. ASSUME NEW i \in 1 .. n PROVE h[i] = Output(h[i - 1], pieces[i]) /\ h[i - 1] \in V
  <2>1. h[i - 1] \in V
    BY <1>1, <1>6
  <2> QED BY <1>5, <1>6, <2>1 DEF Follows
<1>8. h = [i \in 0 .. n |-> IF i = 0 THEN v ELSE Output(h[i - 1], pieces[i])]
  <2>1. ASSUME NEW i \in 0 .. n PROVE h[i] = IF i = 0 THEN v ELSE Output(h[i - 1], pieces[i])
    <3>1. i # 0 => i \in 1 .. n
      BY <1>1
    <3> QED BY <1>6, <1>7, <3>1 DEF Follows
  <2> QED BY <1>6, <2>1
<1> DEFINE tx == CHOOSE tx : tx = [i \in 0 .. n |-> IF i = 0 THEN v ELSE Output(tx[i - 1], pieces[i])]
<1>9. tx = [i \in 0 .. n |-> IF i = 0 THEN v ELSE Output(tx[i - 1], pieces[i])]
  BY <1>8
<1>10. Outputs(head, pieces) = tx[n]
  BY DEF Outputs, n, v
<1> HIDE DEF tx
<1>11. tx[0] = v /\ \A i \in 1 .. n : tx[i] = Output(tx[i - 1], pieces[i])
  <2>1. tx[0] = v
    BY <1>1, <1>9
  <2>2. ASSUME NEW i \in 1 .. n PROVE tx[i] = Output(tx[i - 1], pieces[i])
    <3>1. i \in 0 .. n /\ i # 0
      BY <1>1
    <3> QED BY <1>9, <3>1
  <2> QED BY <2>1, <2>2
<1>12. \A i \in Nat : i <= n => tx[i] \in V
  <2> DEFINE G == {i \in Nat : i <= n => tx[i] \in V}
  <2>1. 0 \in G
    BY <1>3, <1>11
  <2>2. ASSUME NEW i \in Nat, i \in G PROVE i + 1 \in G
    <3> SUFFICES ASSUME i + 1 <= n PROVE tx[i + 1] \in V
      OBVIOUS
    <3>1. tx[i] \in V /\ i + 1 \in 1 .. n /\ (i + 1) - 1 = i
      BY <1>1, <2>2
    <3>2. tx[i + 1] = Output(tx[i], pieces[i + 1])
      BY <1>11, <3>1
    <3> QED BY <1>2, <3>1, <3>2
  <2> HIDE DEF G
  <2>3. Nat \subseteq G
    BY <2>1, <2>2, Induction
  <2> QED BY <2>3 DEF G
<1>13. \A i \in 0 .. n : tx[i] \in V
  BY <1>1, <1>12
<1>14. tx \in [0 .. n -> V]
  <2>1. tx = [i \in 0 .. n |-> tx[i]]
    BY <1>9
  <2> QED BY <1>13, <2>1
<1>15. ASSUME NEW i \in 1 .. n PROVE tx[i].sent = tx[i - 1].sent \o AtMost(TxBufferSize, pieces[i])
  <2>1. tx[i - 1] \in V
    BY <1>1, <1>13
  <2> QED BY <1>2, <1>11, <2>1
<1>16. Sends(tx, head, pieces)
  BY <1>10, <1>11, <1>15 DEF Sends, v, n
<1> QED BY <1>14, <1>16 DEF V, n

(* What a step prints is its pieces, each cut to the size of the ring. *)
LEMMA PrintsAre ==
    ASSUME NEW S, NEW pieces \in Seq(Seq(S)), txHead \in 0 .. TxBufferSize - 1, Prints(pieces)
    PROVE  LET sent(i) == AtMost(TxBufferSize, pieces[i])
           IN  /\ txHead' \in 0 .. TxBufferSize - 1
               /\ Len(pieces) = 0 => printed' = <<>>
               /\ Len(pieces) = 1 => printed' = sent(1)
               /\ Len(pieces) = 2 => printed' = sent(1) \o sent(2)
               /\ Len(pieces) = 3 => printed' = sent(1) \o sent(2) \o sent(3)
<1> DEFINE V == [head : 0 .. TxBufferSize - 1, sent : Seq(S)]
           n == Len(pieces)
           A(i) == AtMost(TxBufferSize, pieces[i])
<1>13. PICK tx \in [0 .. n -> V] : Sends(tx, txHead, pieces)
  BY OutputsAre
<1>1. /\ tx[0] = [head |-> txHead, sent |-> <<>>]
      /\ \A i \in 1 .. n : tx[i].sent = tx[i - 1].sent \o A(i)
      /\ Outputs(txHead, pieces) = tx[n]
  BY <1>13 DEF Sends
<1>2. n \in Nat /\ \A i \in 1 .. n : A(i) \in Seq(S)
  BY LenProperties, ElementOfSeq, CutIs, CliAssumption
<1>3. tx[n] \in V /\ txHead' = tx[n].head /\ printed' = tx[n].sent
  BY <1>1, <1>2 DEF Prints
<1>4. txHead' \in 0 .. TxBufferSize - 1
  BY <1>3
<1> HIDE DEF A, n, V
<1>5. tx[0].sent = <<>>
  BY <1>1
<1>6. n >= 1 => tx[1].sent = A(1)
  <2> SUFFICES ASSUME n >= 1 PROVE tx[1].sent = A(1)
    OBVIOUS
  <2>1. 1 \in 1 .. n /\ 1 - 1 = 0
    BY <1>2
  <2>2. tx[1].sent = <<>> \o A(1) /\ A(1) \in Seq(S)
    BY <1>1, <1>2, <1>5, <2>1
  <2> QED BY <2>2, ConcatEmptySeq
<1>7. n >= 2 => tx[2].sent = A(1) \o A(2)
  <2> SUFFICES ASSUME n >= 2 PROVE tx[2].sent = A(1) \o A(2)
    OBVIOUS
  <2>1. 2 \in 1 .. n /\ 2 - 1 = 1 /\ n >= 1
    BY <1>2
  <2> QED BY <1>1, <1>6, <2>1
<1>8. n >= 3 => tx[3].sent = A(1) \o A(2) \o A(3)
  <2> SUFFICES ASSUME n >= 3 PROVE tx[3].sent = A(1) \o A(2) \o A(3)
    OBVIOUS
  <2>1. 3 \in 1 .. n /\ 3 - 1 = 2 /\ n >= 2
    BY <1>2
  <2> QED BY <1>1, <1>7, <2>1
<1>9. n = 0 => printed' = <<>>
  BY <1>3, <1>5
<1>10. n = 1 => printed' = A(1)
  BY <1>3, <1>6
<1>11. n = 2 => printed' = A(1) \o A(2)
  BY <1>3, <1>7
<1>12. n = 3 => printed' = A(1) \o A(2) \o A(3)
  BY <1>3, <1>8
<1> QED BY <1>4, <1>9, <1>10, <1>11, <1>12 DEF A, n

-----------------------------------------------------------------------------
(* Words: the text from j up to the first space, of the first i characters. *)
WordEnd(s, j, i) == Min({p \in j .. i : s[p] = Space} \cup {i + 1})

WordAt(s, j, i) == SubSeq(s, j, WordEnd(s, j, i) - 1)

LEMMA WordEndIs ==
    ASSUME NEW s, NEW j \in Nat, NEW i \in Nat, j <= i + 1
    PROVE  /\ WordEnd(s, j, i) \in j .. i + 1
           /\ \A p \in j .. WordEnd(s, j, i) - 1 : s[p] # Space
           /\ WordEnd(s, j, i) <= i => s[WordEnd(s, j, i)] = Space
<1> DEFINE P == {p \in j .. i : s[p] = Space}
           e == Min({p \in j .. i : p \in P} \cup {i + 1})
<1>1. {p \in j .. i : p \in P} = P
  OBVIOUS
<1>2. WordEnd(s, j, i) = e
  BY <1>1 DEF WordEnd
<1>3. \A p \in j .. i : p \in P <=> s[p] = Space
  OBVIOUS
<1> HIDE DEF P
<1>4. /\ e \in j .. i + 1
      /\ \A p \in j .. e - 1 : p \notin P
      /\ e <= i => e \in P
  BY FirstIn
<1> HIDE DEF e
<1>5. \A p \in j .. e - 1 : s[p] # Space
  BY <1>3, <1>4
<1>6. e <= i => s[e] = Space
  BY <1>3, <1>4
<1> QED BY <1>2, <1>4, <1>5, <1>6

LEMMA EndsAt ==
    ASSUME NEW s, NEW j \in Nat, NEW i \in Nat, NEW e \in j .. i + 1,
           \A p \in j .. e - 1 : s[p] # Space, e <= i => s[e] = Space
    PROVE  WordEnd(s, j, i) = e
<1> DEFINE x == WordEnd(s, j, i)
<1>1. /\ x \in j .. i + 1 /\ \A p \in j .. x - 1 : s[p] # Space
      /\ x <= i => s[x] = Space
  <2>1. j <= i + 1
    OBVIOUS
  <2> QED BY <2>1, WordEndIs
<1> HIDE DEF x
<1>2. ~(x < e)
  <2> SUFFICES ASSUME x < e PROVE FALSE
    OBVIOUS
  <2>1. x \in j .. e - 1 /\ x <= i
    BY <1>1
  <2> QED BY <1>1, <2>1
<1>3. ~(e < x)
  <2> SUFFICES ASSUME e < x PROVE FALSE
    OBVIOUS
  <2>1. e \in j .. x - 1 /\ e <= i
    BY <1>1
  <2> QED BY <1>1, <2>1
<1> QED BY <1>1, <1>2, <1>3 DEF x

(* w is the part of s from j on that ends before e. *)
Part(w, S, s, j, e) ==
    /\ w \in Seq(S) /\ Len(w) = e - j
    /\ \A k \in 1 .. e - j : w[k] = s[j + k - 1]

LEMMA WordIs ==
    ASSUME NEW S, NEW s \in Seq(S), NEW i \in 0 .. Len(s), NEW j \in 1 .. i + 1
    PROVE  /\ WordEnd(s, j, i) \in j .. i + 1
           /\ Part(WordAt(s, j, i), S, s, j, WordEnd(s, j, i))
<1> DEFINE e == WordEnd(s, j, i)
<1>1. Len(s) \in Nat /\ \A p \in 1 .. Len(s) : s[p] \in S
  BY LenProperties, ElementOfSeq
<1>2. e \in j .. i + 1
  <2>1. i \in Nat /\ j \in Nat /\ j <= i + 1
    BY <1>1
  <2> QED BY <2>1, WordEndIs
<1> HIDE DEF e
<1> DEFINE n == e - 1
<1>3. n \in Int /\ j \in Int /\ \A p \in j .. n : s[p] \in S
  BY <1>1, <1>2
<1> HIDE DEF n
<1>4. /\ SubSeq(s, j, n) \in Seq(S)
      /\ Len(SubSeq(s, j, n)) = IF j <= n THEN n - j + 1 ELSE 0
      /\ \A k \in 1 .. n - j + 1 : SubSeq(s, j, n)[k] = s[j + k - 1]
  BY <1>3, SubSeqProperties
<1>5. n - j + 1 = e - j /\ (IF j <= n THEN n - j + 1 ELSE 0) = e - j
  BY <1>2 DEF n
<1>6. WordAt(s, j, i) = SubSeq(s, j, n)
  BY DEF WordAt, e, n
<1>7. Part(WordAt(s, j, i), S, s, j, e)
  BY <1>4, <1>5, <1>6 DEF Part
<1> QED BY <1>2, <1>7 DEF e

(* Reading one more character: a word that has ended stays, and the one    *)
(* that has not grows, unless it is a space.                               *)
LEMMA WordStays ==
    ASSUME NEW S, NEW s \in Seq(S), NEW i \in 0 .. Len(s) - 1, NEW j \in 1 .. i + 1,
           s[i + 1] = Space \/ \E p \in j .. i : s[p] = Space
    PROVE  WordAt(s, j, i + 1) = WordAt(s, j, i)
<1> DEFINE e == WordEnd(s, j, i)
<1>1. Len(s) \in Nat /\ i \in Nat /\ j \in Nat /\ j <= i + 1 /\ i + 1 \in Nat
  BY LenProperties
<1>2. /\ e \in j .. i + 1 /\ \A p \in j .. e - 1 : s[p] # Space
      /\ e <= i => s[e] = Space
  BY <1>1, WordEndIs
<1> HIDE DEF e
<1>3. e \in j .. (i + 1) + 1
  BY <1>1, <1>2
<1>4. e <= i + 1 => s[e] = Space
  <2>1. CASE e <= i
    BY <1>2, <2>1
  <2>2. CASE e = i + 1
    <3>1. \A p \in j .. i : s[p] # Space
      BY <1>1, <1>2, <2>2
    <3> QED BY <2>2, <3>1
  <2> QED BY <1>1, <1>2, <2>1, <2>2
<1>5. WordEnd(s, j, i + 1) = e
  BY <1>1, <1>2, <1>3, <1>4, EndsAt
<1> QED BY <1>5 DEF WordAt, e

LEMMA WordGrows ==
    ASSUME NEW S, NEW s \in Seq(S), NEW i \in 0 .. Len(s) - 1, NEW j \in 1 .. i + 1,
           \A p \in j .. i + 1 : s[p] # Space
    PROVE  WordAt(s, j, i + 1) = Append(WordAt(s, j, i), s[i + 1])
<1>1. Len(s) \in Nat /\ i \in Nat /\ j \in Nat /\ j <= i + 1 /\ i + 1 \in Nat
      /\ i + 1 \in 1 .. Len(s)
  BY LenProperties
<1>2. WordEnd(s, j, i) = i + 1
  <2>1. i + 1 \in j .. i + 1 /\ ~(i + 1 <= i) /\ \A p \in j .. (i + 1) - 1 : s[p] # Space
    BY <1>1
  <2> QED BY <1>1, <2>1, EndsAt
<1>3. WordEnd(s, j, i + 1) = i + 2
  <2> DEFINE e == i + 2
             m == i + 1
  <2>1. /\ e \in j .. m + 1 /\ ~(e <= m) /\ m \in Nat /\ e - 1 = m
        /\ \A p \in j .. m : s[p] # Space
    BY <1>1
  <2> HIDE DEF e, m
  <2>2. WordEnd(s, j, m) = e
    BY <1>1, <2>1, EndsAt
  <2> QED BY <2>2 DEF e, m
<1> DEFINE a == WordAt(s, j, i)
           b == WordAt(s, j, i + 1)
           x == s[i + 1]
<1>4. x \in S
  BY <1>1, ElementOfSeq
<1>5. Part(a, S, s, j, i + 1)
  <2>1. i \in 0 .. Len(s)
    BY <1>1
  <2> QED BY <1>2, <2>1, WordIs
<1>6. Part(b, S, s, j, i + 2)
  <2> DEFINE m == i + 1
  <2>1. m \in 0 .. Len(s) /\ j \in 1 .. m + 1
    BY <1>1
  <2>2. WordEnd(s, j, m) = i + 2
    BY <1>3
  <2> HIDE DEF m
  <2>3. Part(WordAt(s, j, m), S, s, j, i + 2)
    BY <2>1, <2>2, WordIs
  <2> QED BY <2>3 DEF m
<1> HIDE DEF a, b, x
<1>7. /\ Append(a, x) \in Seq(S) /\ Len(Append(a, x)) = i + 2 - j
      /\ \A k \in 1 .. i + 1 - j : Append(a, x)[k] = a[k]
      /\ Append(a, x)[i + 2 - j] = x
  <2>1. (i + 1 - j) + 1 = i + 2 - j
    BY <1>1
  <2> QED BY <1>4, <1>5, <2>1, AppendProperties DEF Part
<1>8. ASSUME NEW k \in 1 .. i + 2 - j PROVE b[k] = Append(a, x)[k]
  <2>1. CASE k = i + 2 - j
    <3>1. j + k - 1 = i + 1
      BY <1>1, <2>1
    <3> QED BY <1>6, <1>7, <2>1, <3>1 DEF x, Part
  <2>2. CASE k # i + 2 - j
    <3>1. k \in 1 .. i + 1 - j
      BY <1>1, <2>2
    <3> QED BY <1>5, <1>6, <1>7, <3>1 DEF Part
  <2> QED BY <2>1, <2>2
<1>9. b = Append(a, x)
  <2>1. b \in Seq(S) /\ Len(b) = i + 2 - j
    BY <1>6 DEF Part
  <2> QED BY <1>7, <1>8, <2>1, SameItems
<1> QED BY <1>9 DEF a, b, x

(* Reading one character of the words so far, as Console does. *)
Reading(ws, c) == IF c = " " THEN Append(ws, <<>>) ELSE [ws EXCEPT ![Len(ws)] = Append(@, c)]

Reads(read, s) ==
    /\ read[0] = << <<>> >>
    /\ \A i \in 1 .. Len(s) : read[i] = Reading(read[i - 1], s[i])
    /\ C!Words(s) = LET all == read[Len(s)]
                    IN  IF Len(all) > 1 /\ Last(all) = <<>> THEN Front(all) ELSE all

LEMMA WordsRead ==
    ASSUME NEW S, NEW s \in Seq(S)
    PROVE  \E read : Reads(read, s)
<1> DEFINE V == Seq(Seq(S)) \ {<<>>}
           n == Len(s)
           v == << <<>> >>
           step == [i \in 1 .. n |-> [ws \in V |-> Reading(ws, s[i])]]
           whole(all) == IF Len(all) > 1 /\ Last(all) = <<>> THEN Front(all) ELSE all
<1>1. n \in Nat /\ \A i \in 1 .. n : s[i] \in S
  BY LenProperties, ElementOfSeq
<1>2. ASSUME NEW c \in S, NEW ws \in V PROVE Reading(ws, c) \in V
  <2>1. ws \in Seq(Seq(S)) /\ ws # <<>> /\ <<>> \in Seq(S)
    BY EmptySeq
  <2>2. CASE c = " "
    <3>1. Append(ws, <<>>) \in Seq(Seq(S)) /\ Append(ws, <<>>) # <<>>
      BY <2>1, AppendProperties
    <3> QED BY <2>2, <3>1 DEF Reading
  <2>3. CASE c # " "
    <3> DEFINE m == Len(ws)
               x == Append(ws[m], c)
    <3>1. m \in 1 .. Len(ws) /\ Len(ws) \in Nat \ {0}
      BY <2>1, EmptySeq
    <3>2. ws[m] \in Seq(S)
      BY <2>1, <3>1, ElementOfSeq
    <3>3. x \in Seq(S)
      BY <3>2, AppendProperties
    <3>4. Reading(ws, c) = [ws EXCEPT ![m] = x]
      BY <2>3 DEF Reading
    <3> HIDE DEF x, m
    <3>5. [ws EXCEPT ![m] = x] \in Seq(Seq(S)) /\ Len([ws EXCEPT ![m] = x]) = Len(ws)
      BY <2>1, <3>1, <3>3, ExceptSeq
    <3>6. [ws EXCEPT ![m] = x] # <<>>
      <4>1. Len(<<>>) = 0
        BY EmptySeq
      <4> QED BY <3>1, <3>5, <4>1
    <3> QED BY <3>4, <3>5, <3>6
  <2> QED BY <2>2, <2>3
<1>3. v \in V
  <2>1. <<>> \in Seq(S)
    BY EmptySeq
  <2> QED BY <2>1
<1> HIDE DEF V, v
<1>4. step \in [1 .. n -> [V -> V]]
  BY <1>1, <1>2
<1>5. \A i \in 1 .. n, x \in V : step[i][x] = Reading(x, s[i])
  OBVIOUS
<1> HIDE DEF step, n
<1>6. PICK h \in [0 .. n -> V] : Follows(h, v, step, n)
  BY <1>1, <1>3, <1>4, Recursion
<1>7. ASSUME NEW i \in 0 .. n PROVE h[i] = IF i = 0 THEN v ELSE Reading(h[i - 1], s[i])
  <2>1. CASE i = 0
    BY <1>6, <2>1 DEF Follows
  <2>2. CASE i # 0
    <3>1. i \in 1 .. n /\ h[i - 1] \in V
      BY <1>1, <1>6, <2>2
    <3>2. h[i] = step[i][h[i - 1]]
      BY <1>6, <3>1 DEF Follows
    <3> QED BY <1>5, <2>2, <3>1, <3>2
  <2> QED BY <2>1, <2>2
<1>8. h = [i \in 0 .. n |-> IF i = 0 THEN v ELSE Reading(h[i - 1], s[i])]
  BY <1>6, <1>7
<1> DEFINE read == CHOOSE read : read = [i \in 0 .. n |-> IF i = 0 THEN v ELSE Reading(read[i - 1], s[i])]
<1>9. read = [i \in 0 .. n |-> IF i = 0 THEN v ELSE Reading(read[i - 1], s[i])]
  BY <1>8
<1>10. C!Words(s) = whole(read[n])
  BY DEF C!Words, C!Last, C!Front, Last, Front, Reading, n, v
<1> HIDE DEF read, whole
<1>11. read[0] = v /\ \A i \in 1 .. n : read[i] = Reading(read[i - 1], s[i])
  <2>1. read[0] = v
    BY <1>1, <1>9
  <2>2. ASSUME NEW i \in 1 .. n PROVE read[i] = Reading(read[i - 1], s[i])
    <3>1. i \in 0 .. n /\ i # 0
      BY <1>1
    <3> QED BY <1>9, <3>1
  <2> QED BY <2>1, <2>2
<1>12. Reads(read, s)
  BY <1>10, <1>11 DEF Reads, v, n, whole
<1> QED BY <1>12

(* argv after i characters, by its equations. *)
Begins(argv, s, n) ==
    /\ argv[0] = <<>>
    /\ \A i \in 1 .. n : argv[i] = IF i < 2 THEN <<>>
                                  ELSE IF s[i - 1] = Space THEN Append(argv[i - 1], i)
                                  ELSE argv[i - 1]

LEMMA BegunIs ==
    ASSUME NEW s, NEW n \in Nat
    PROVE  /\ Begins(Begun(s, n), s, n)
           /\ \A i \in 0 .. n : Begun(s, n)[i] \in Seq(1 .. i)
<1> DEFINE V == Seq(Nat)
           argv == Begun(s, n)
           after(a, i) == IF i < 2 THEN <<>> ELSE IF s[i - 1] = Space THEN Append(a, i) ELSE a
           step == [i \in 1 .. n |-> [a \in V |-> after(a, i)]]
<1>1. <<>> \in V
  BY EmptySeq
<1>2. \A i \in 1 .. n, a \in V : after(a, i) \in V
  <2> SUFFICES ASSUME NEW i \in 1 .. n, NEW a \in V PROVE after(a, i) \in V
    OBVIOUS
  <2>1. Append(a, i) \in V
    BY AppendProperties
  <2> QED BY <1>1, <2>1
<1> HIDE DEF V, after
<1>3. step \in [1 .. n -> [V -> V]]
  BY <1>2
<1>4. \A i \in 1 .. n, a \in V : step[i][a] = after(a, i)
  OBVIOUS
<1> HIDE DEF step
<1>5. PICK h \in [0 .. n -> V] : Follows(h, <<>>, step, n)
  BY <1>1, <1>3, Recursion
<1>6. ASSUME NEW i \in 0 .. n
      PROVE  h[i] = IF i < 2 THEN <<>>
                    ELSE IF s[i - 1] = Space THEN Append(h[i - 1], i) ELSE h[i - 1]
  <2>1. CASE i = 0
    BY <1>5, <2>1 DEF Follows
  <2>2. CASE i # 0
    <3>1. i \in 1 .. n /\ h[i - 1] \in V
      BY <1>5, <2>2
    <3>2. h[i] = step[i][h[i - 1]]
      BY <1>5, <3>1 DEF Follows
    <3>3. h[i] = after(h[i - 1], i)
      BY <1>4, <3>1, <3>2
    <3> QED BY <3>3 DEF after
  <2> QED BY <2>1, <2>2
<1>7. h = [i \in 0 .. n |-> IF i < 2 THEN <<>>
                          ELSE IF s[i - 1] = Space THEN Append(h[i - 1], i) ELSE h[i - 1]]
  BY <1>5, <1>6
<1>8. argv = [i \in 0 .. n |-> IF i < 2 THEN <<>>
                              ELSE IF s[i - 1] = Space THEN Append(argv[i - 1], i)
                              ELSE argv[i - 1]]
  BY <1>7 DEF Begun
<1> HIDE DEF argv
<1>9. Begins(argv, s, n)
  <2>1. argv[0] = <<>>
    BY <1>8
  <2>2. ASSUME NEW i \in 1 .. n
        PROVE  argv[i] = IF i < 2 THEN <<>>
                         ELSE IF s[i - 1] = Space THEN Append(argv[i - 1], i) ELSE argv[i - 1]
    <3>1. i \in 0 .. n
      OBVIOUS
    <3> QED BY <1>8, <3>1
  <2> QED BY <2>1, <2>2 DEF Begins
<1>10. \A i \in Nat : i <= n => argv[i] \in Seq(1 .. i)
  <2> DEFINE G == {i \in Nat : i <= n => argv[i] \in Seq(1 .. i)}
  <2>1. 0 \in G
    BY <1>9, EmptySeq DEF Begins
  <2>2. ASSUME NEW i \in Nat, i \in G PROVE i + 1 \in G
    <3> SUFFICES ASSUME i + 1 <= n PROVE argv[i + 1] \in Seq(1 .. i + 1)
      OBVIOUS
    <3>1. argv[i] \in Seq(1 .. i) /\ 1 .. i \subseteq 1 .. i + 1
      BY <2>2
    <3>2. argv[i] \in Seq(1 .. i + 1)
      BY <3>1, SeqMonotonic
    <3>3. i + 1 \in 1 .. n /\ (i + 1) - 1 = i /\ i + 1 \in 1 .. i + 1
      OBVIOUS
    <3>4. Append(argv[i], i + 1) \in Seq(1 .. i + 1) /\ <<>> \in Seq(1 .. i + 1)
      BY <3>2, <3>3, AppendProperties, EmptySeq
    <3>5. argv[i + 1] \in {<<>>, Append(argv[i], i + 1), argv[i]}
      BY <1>9, <3>3 DEF Begins
    <3> QED BY <3>2, <3>4, <3>5
  <2> HIDE DEF G
  <2>3. Nat \subseteq G
    BY <2>1, <2>2, Induction
  <2> QED BY <2>3 DEF G
<1>11. \A i \in 0 .. n : argv[i] \in Seq(1 .. i)
  BY <1>10
<1> QED BY <1>9, <1>11 DEF argv

(* After i characters of s, the words r begin at t, and only the last has  *)
(* not ended.                                                              *)
Splits(t, r, S, s, i) ==
    /\ t \in Seq(1 .. i + 1) /\ Len(t) \in Nat \ {0}
    /\ r \in Seq(Seq(S)) /\ Len(r) = Len(t)
    /\ \A k \in 1 .. Len(t) : r[k] = WordAt(s, t[k], i)
    /\ \A k \in 1 .. Len(t) - 1 : \E p \in t[k] .. i : s[p] = Space
    /\ \A p \in t[Len(t)] .. i : s[p] # Space

LEMMA EmptyWord ==
    ASSUME NEW S, NEW s \in Seq(S), NEW i \in 0 .. Len(s)
    PROVE  WordAt(s, i + 1, i) = <<>>
<1>1. i + 1 \in 1 .. i + 1 /\ i \in Nat
  OBVIOUS
<1>2. WordEnd(s, i + 1, i) \in i + 1 .. i + 1 /\ WordAt(s, i + 1, i) \in Seq(S)
      /\ Len(WordAt(s, i + 1, i)) = WordEnd(s, i + 1, i) - (i + 1)
  BY <1>1, WordIs DEF Part
<1>3. Len(WordAt(s, i + 1, i)) = 0
  BY <1>1, <1>2
<1> QED BY <1>2, <1>3, EmptySeq

LEMMA SplitsAtSpace ==
    ASSUME NEW S, NEW s \in Seq(S), NEW i \in 0 .. Len(s) - 1, NEW t, NEW r,
           Splits(t, r, S, s, i), s[i + 1] = Space
    PROVE  Splits(Append(t, i + 2), Append(r, <<>>), S, s, i + 1)
<1> DEFINE m == Len(t)
           t2 == Append(t, i + 2)
           r2 == Append(r, <<>>)
           j == i + 1
<1>1. /\ t \in Seq(1 .. j) /\ m \in Nat \ {0} /\ r \in Seq(Seq(S)) /\ Len(r) = m
      /\ \A k \in 1 .. m : r[k] = WordAt(s, t[k], i)
      /\ \A k \in 1 .. m - 1 : \E p \in t[k] .. i : s[p] = Space
  BY DEF Splits
<1>2. i \in Nat /\ j \in Nat /\ j \in 0 .. Len(s) /\ j = i + 1 /\ i + 2 = j + 1 /\ Len(s) \in Nat
  BY LenProperties
<1>3. \A k \in 1 .. m : t[k] \in 1 .. j
  BY <1>1, ElementOfSeq
<1>4. t \in Seq(1 .. j + 1)
  <2>1. 1 .. j \subseteq 1 .. j + 1
    BY <1>2
  <2> QED BY <1>1, <2>1, SeqMonotonic
<1>5. /\ t2 \in Seq(1 .. j + 1) /\ Len(t2) = m + 1
      /\ \A k \in 1 .. m : t2[k] = t[k]
      /\ t2[m + 1] = j + 1
  <2>1. i + 2 \in 1 .. j + 1
    BY <1>2
  <2> QED BY <1>2, <1>4, <2>1, AppendProperties
<1>6. /\ r2 \in Seq(Seq(S)) /\ Len(r2) = m + 1
      /\ \A k \in 1 .. m : r2[k] = r[k]
      /\ r2[m + 1] = <<>>
  <2>1. <<>> \in Seq(S)
    BY EmptySeq
  <2> QED BY <1>1, <2>1, AppendProperties
<1> HIDE DEF t2, r2, m
<1>7. ASSUME NEW k \in 1 .. m + 1 PROVE r2[k] = WordAt(s, t2[k], j)
  <2>1. CASE k = m + 1
    <3>1. WordAt(s, j + 1, j) = <<>>
      BY <1>2, EmptyWord
    <3> QED BY <1>5, <1>6, <2>1, <3>1
  <2>2. CASE k # m + 1
    <3>1. k \in 1 .. m
      BY <1>1, <2>2
    <3>2. t[k] \in 1 .. i + 1
      BY <1>3, <3>1
    <3>3. WordAt(s, t[k], i + 1) = WordAt(s, t[k], i)
      BY <3>2, WordStays
    <3> QED BY <1>1, <1>5, <1>6, <3>1, <3>3
  <2> QED BY <2>1, <2>2
<1>8. ASSUME NEW k \in 1 .. (m + 1) - 1 PROVE \E p \in t2[k] .. j : s[p] = Space
  <2>1. k \in 1 .. m /\ t[k] \in 1 .. j /\ t2[k] = t[k]
    BY <1>1, <1>3, <1>5
  <2>2. j \in t2[k] .. j
    BY <1>2, <2>1
  <2> QED BY <2>2
<1>9. ASSUME NEW p \in t2[m + 1] .. j PROVE s[p] # Space
  BY <1>2, <1>5
<1>10. m + 1 \in Nat \ {0}
  BY <1>1
<1> HIDE DEF j
<1>11. Splits(t2, r2, S, s, j)
  BY <1>5, <1>6, <1>7, <1>8, <1>9, <1>10 DEF Splits
<1> QED BY <1>11 DEF t2, r2, j

LEMMA SplitsAtLetter ==
    ASSUME NEW S, NEW s \in Seq(S), NEW i \in 0 .. Len(s) - 1, NEW t, NEW r,
           Splits(t, r, S, s, i), s[i + 1] # Space
    PROVE  Splits(t, [r EXCEPT ![Len(r)] = Append(@, s[i + 1])], S, s, i + 1)
<1> DEFINE m == Len(t)
           x == Append(r[m], s[i + 1])
           r2 == [r EXCEPT ![m] = x]
           j == i + 1
<1>1. /\ t \in Seq(1 .. j) /\ m \in Nat \ {0} /\ r \in Seq(Seq(S)) /\ Len(r) = m
      /\ \A k \in 1 .. m : r[k] = WordAt(s, t[k], i)
      /\ \A k \in 1 .. m - 1 : \E p \in t[k] .. i : s[p] = Space
      /\ \A p \in t[m] .. i : s[p] # Space
  BY DEF Splits
<1>2. i \in Nat /\ j \in Nat /\ j \in 1 .. Len(s) /\ j = i + 1 /\ Len(s) \in Nat
  BY LenProperties
<1>3. \A k \in 1 .. m : t[k] \in 1 .. j
  BY <1>1, ElementOfSeq
<1>4. t \in Seq(1 .. j + 1)
  <2>1. 1 .. j \subseteq 1 .. j + 1
    BY <1>2
  <2> QED BY <1>1, <2>1, SeqMonotonic
<1>5. m \in 1 .. m /\ \A k \in 1 .. m : k # m => k \in 1 .. m - 1
  BY <1>1
<1>6. x \in Seq(S)
  <2>1. r[m] \in Seq(S) /\ s[i + 1] \in S
    BY <1>1, <1>2, <1>5, ElementOfSeq
  <2> QED BY <2>1, AppendProperties
<1>7. [r EXCEPT ![Len(r)] = Append(@, s[i + 1])] = r2
  BY <1>1
<1> HIDE DEF x, m
<1>8. /\ r2 \in Seq(Seq(S)) /\ Len(r2) = m
      /\ \A k \in 1 .. m : r2[k] = IF k = m THEN x ELSE r[k]
  BY <1>1, <1>5, <1>6, ExceptSeq
<1> HIDE DEF r2
<1>9. \A p \in t[m] .. j : s[p] # Space
  <2> SUFFICES ASSUME NEW p \in t[m] .. j PROVE s[p] # Space
    OBVIOUS
  <2>1. t[m] \in 1 .. j
    BY <1>3, <1>5
  <2>2. p = i + 1 \/ p \in t[m] .. i
    BY <1>2, <2>1
  <2> QED BY <1>1, <2>2
<1>10. ASSUME NEW k \in 1 .. m PROVE r2[k] = WordAt(s, t[k], j)
  <2>1. CASE k = m
    <3>1. t[m] \in 1 .. i + 1
      BY <1>3, <1>5
    <3>2. WordAt(s, t[m], i + 1) = Append(WordAt(s, t[m], i), s[i + 1])
      BY <1>9, <3>1, WordGrows
    <3>3. r[m] = WordAt(s, t[m], i)
      BY <1>1, <1>5
    <3> QED BY <1>5, <1>8, <2>1, <3>2, <3>3 DEF x
  <2>2. CASE k # m
    <3>1. t[k] \in 1 .. i + 1 /\ \E p \in t[k] .. i : s[p] = Space
      BY <1>1, <1>3, <1>5, <2>2
    <3>2. WordAt(s, t[k], i + 1) = WordAt(s, t[k], i)
      BY <3>1, WordStays
    <3> QED BY <1>1, <1>8, <2>2, <3>2
  <2> QED BY <2>1, <2>2
<1>11. ASSUME NEW k \in 1 .. m - 1 PROVE \E p \in t[k] .. j : s[p] = Space
  <2>1. PICK p \in t[k] .. i : s[p] = Space
    BY <1>1
  <2>2. t[k] \in 1 .. j
    BY <1>1, <1>3
  <2>3. p \in t[k] .. j
    BY <1>2, <2>2
  <2> QED BY <2>1, <2>3
<1> HIDE DEF j
<1>12. Splits(t, r2, S, s, j)
  BY <1>1, <1>4, <1>8, <1>9, <1>10, <1>11 DEF Splits, m
<1> QED BY <1>7, <1>12 DEF j

LEMMA SplitsNothing ==
    ASSUME NEW S, NEW s \in Seq(S)
    PROVE  Splits(<<1>>, << <<>> >>, S, s, 0)
<1> DEFINE t == <<1>>
           r == << <<>> >>
<1>1. t \in Seq(1 .. 0 + 1) /\ Len(t) = 1 /\ t[1] = 1
  OBVIOUS
<1>2. r \in Seq(Seq(S)) /\ Len(r) = 1 /\ r[1] = <<>>
  <2>1. <<>> \in Seq(S)
    BY EmptySeq
  <2> QED BY <2>1
<1>3. WordAt(s, 1, 0) = <<>>
  <2>1. 0 \in 0 .. Len(s) /\ 0 + 1 = 1
    BY LenProperties
  <2> QED BY <2>1, EmptyWord
<1> HIDE DEF t, r
<1>4. \A k \in 1 .. 1 : r[k] = WordAt(s, t[k], 0)
  BY <1>1, <1>2, <1>3
<1>5. Splits(t, r, S, s, 0)
  BY <1>1, <1>2, <1>4 DEF Splits
<1> QED BY <1>5 DEF t, r

LEMMA AppendBehind ==
    ASSUME NEW S, NEW a \in Seq(S), NEW b \in Seq(S), NEW x \in S
    PROVE  a \o Append(b, x) = Append(a \o b, x)
OBVIOUS

(* Where the words begin, when a line that begins with a letter is read:   *)
(* at its start, at the arguments, and behind a space that ends it.        *)
LEMMA SplitsAll ==
    ASSUME NEW S, NEW s \in Seq(S), s # <<>>, s[1] # Space, NEW read, Reads(read, s)
    PROVE  LET n == Len(s)
               t == <<1>> \o Begun(s, n)[n]
           IN  /\ s[n] = Space => Splits(Append(t, n + 1), read[n], S, s, n)
               /\ s[n] # Space => Splits(t, read[n], S, s, n)
<1> DEFINE n == Len(s)
           argv == Begun(s, n)
           t(i) == <<1>> \o argv[i]
           Right(i) == /\ s[i] = Space => Splits(Append(t(i), i + 1), read[i], S, s, i)
                       /\ s[i] # Space => Splits(t(i), read[i], S, s, i)
<1>1. n \in Nat \ {0}
  BY EmptySeq
<1>2. Begins(argv, s, n) /\ \A i \in 0 .. n : argv[i] \in Seq(1 .. i)
  BY <1>1, BegunIs
<1>3. read[0] = << <<>> >> /\ \A i \in 1 .. n : read[i] = Reading(read[i - 1], s[i])
  BY DEF Reads
<1> HIDE DEF n, argv
<1>4. ASSUME NEW i \in 0 .. n - 1, NEW a, Splits(a, read[i], S, s, i)
      PROVE  /\ s[i + 1] = Space => Splits(Append(a, i + 2), read[i + 1], S, s, i + 1)
             /\ s[i + 1] # Space => Splits(a, read[i + 1], S, s, i + 1)
  <2>1. i \in 0 .. Len(s) - 1 /\ i + 1 \in 1 .. n /\ (i + 1) - 1 = i
    BY <1>1 DEF n
  <2>2. read[i + 1] = Reading(read[i], s[i + 1])
    BY <1>3, <2>1
  <2>3. CASE s[i + 1] = Space
    <3>1. read[i + 1] = Append(read[i], <<>>)
      BY <2>2, <2>3 DEF Reading, Space
    <3>2. Splits(Append(a, i + 2), Append(read[i], <<>>), S, s, i + 1)
      BY <1>4, <2>1, <2>3, SplitsAtSpace
    <3> QED BY <2>3, <3>1, <3>2
  <2>4. CASE s[i + 1] # Space
    <3>1. read[i + 1] = [read[i] EXCEPT ![Len(read[i])] = Append(@, s[i + 1])]
      BY <2>2, <2>4 DEF Reading, Space
    <3>2. Splits(a, [read[i] EXCEPT ![Len(read[i])] = Append(@, s[i + 1])], S, s, i + 1)
      BY <1>4, <2>1, <2>4, SplitsAtLetter
    <3> QED BY <2>4, <3>1, <3>2
  <2> QED BY <2>3, <2>4
<1>5. Right(1)
  <2>1. argv[1] = <<>>
    BY <1>1, <1>2 DEF Begins
  <2>2. t(1) = <<1>>
    <3>1. <<1>> \in Seq(Nat)
      OBVIOUS
    <3> QED BY <2>1, <3>1, ConcatEmptySeq
  <2>3. Splits(<<1>>, read[0], S, s, 0)
    BY <1>3, SplitsNothing
  <2>4. 0 \in 0 .. n - 1 /\ 0 + 1 = 1
    BY <1>1
  <2>5. Splits(<<1>>, read[1], S, s, 1)
    BY <1>4, <2>3, <2>4
  <2> QED BY <2>2, <2>5
<1>6. ASSUME NEW i \in 1 .. n - 1, Right(i) PROVE Right(i + 1)
  <2> DEFINE a == t(i + 1)
             j == i + 1
  <2>1. i \in 0 .. n - 1 /\ j \in 1 .. n /\ ~(j < 2) /\ j - 1 = i /\ j + 1 = i + 2 /\ i \in 0 .. n
    BY <1>1
  <2>2. argv[j] = IF s[i] = Space THEN Append(argv[i], j) ELSE argv[i]
    BY <1>2, <2>1 DEF Begins
  <2>3. Splits(a, read[i], S, s, i)
    <3>1. CASE s[i] = Space
      <4>1. argv[i] \in Seq(Nat) /\ j \in Nat /\ <<1>> \in Seq(Nat)
        <5>1. 1 .. i \subseteq Nat /\ argv[i] \in Seq(1 .. i)
          BY <1>2, <2>1
        <5> QED BY <2>1, <5>1, SeqMonotonic
      <4>2. <<1>> \o Append(argv[i], j) = Append(<<1>> \o argv[i], j)
        <5> DEFINE b == argv[i]
                   o == <<1>>
        <5>1. b \in Seq(Nat) /\ o \in Seq(Nat) /\ j \in Nat
          BY ONLY <4>1
        <5> HIDE DEF b, o, j
        <5>2. o \o Append(b, j) = Append(o \o b, j)
          BY ONLY <5>1, AppendBehind, SMTT(30)
        <5> QED BY ONLY <5>2 DEF b, o
      <4>3. a = Append(t(i), i + 1)
        BY <2>2, <3>1, <4>2
      <4> QED BY <1>6, <3>1, <4>3
    <3>2. CASE s[i] # Space
      BY <1>6, <2>2, <3>2
    <3> QED BY <3>1, <3>2
  <2> HIDE DEF a
  <2>4. /\ s[i + 1] = Space => Splits(Append(a, i + 2), read[i + 1], S, s, i + 1)
        /\ s[i + 1] # Space => Splits(a, read[i + 1], S, s, i + 1)
    BY <1>4, <2>1, <2>3
  <2>5. (i + 1) + 1 = i + 2
    OBVIOUS
  <2> QED BY <2>4, <2>5 DEF a
<1> HIDE DEF Right
<1>7. Right(n)
  <2> DEFINE G == {k \in Nat : k + 1 <= n => Right(k + 1)}
  <2>1. 0 \in G
    BY <1>5
  <2>2. ASSUME NEW k \in Nat, k \in G PROVE k + 1 \in G
    <3> SUFFICES ASSUME (k + 1) + 1 <= n PROVE Right((k + 1) + 1)
      OBVIOUS
    <3>1. k + 1 \in 1 .. n - 1 /\ Right(k + 1)
      BY <1>1, <2>2
    <3> QED BY <1>6, <3>1
  <2> HIDE DEF G
  <2>3. n - 1 \in G
    BY <1>1, <2>1, <2>2, Induction
  <2>4. (n - 1) + 1 = n /\ n <= n
    BY <1>1
  <2> QED BY <2>3, <2>4 DEF G
<1> QED BY <1>7 DEF Right, n, argv

(* The command and its arguments, as process_line() finds them.            *)
LEMMA StringsAre ==
    ASSUME NEW S, NEW s \in Seq(S)
    PROVE  LET n == Len(s)
               t == <<1>> \o Begun(s, n)[n]
               r == <<StringAt(s, n, 1)>> \o ArgV(s, n)
           IN  /\ Begun(s, n)[n] \in Seq(1 .. n)
               /\ t \in Seq(Nat) /\ Len(t) = Len(Begun(s, n)[n]) + 1
               /\ t[1] = 1 /\ \A k \in 2 .. Len(t) : t[k] \in 1 .. n
               /\ StringAt(s, n, 1) \in Seq(S) /\ ArgV(s, n) \in Seq(Seq(S))
               /\ r \in Seq(Seq(S)) /\ Len(r) = Len(t)
               /\ \A k \in 1 .. Len(t) : r[k] = WordAt(s, t[k], n)
<1> DEFINE n == Len(s)
           a == Begun(s, n)[n]
           t == <<1>> \o a
           c == StringAt(s, n, 1)
           v == ArgV(s, n)
           r == <<c>> \o v
           m == Len(a)
<1>1. n \in Nat
  BY LenProperties
<1>2. a \in Seq(1 .. n)
  <2>1. n \in 0 .. n
    BY <1>1
  <2> HIDE DEF n
  <2> QED BY <1>1, <2>1, BegunIs
<1>3. m \in Nat /\ DOMAIN a = 1 .. m /\ \A k \in 1 .. m : a[k] \in 1 .. n
  BY <1>2, LenProperties, ElementOfSeq
<1>4. \A j \in 1 .. n + 1 : StringAt(s, n, j) = WordAt(s, j, n) /\ StringAt(s, n, j) \in Seq(S)
  <2> SUFFICES ASSUME NEW j \in 1 .. n + 1
               PROVE  StringAt(s, n, j) = WordAt(s, j, n) /\ StringAt(s, n, j) \in Seq(S)
    OBVIOUS
  <2>1. StringAt(s, n, j) = WordAt(s, j, n)
    BY DEF StringAt, WordAt, WordEnd
  <2>2. n \in 0 .. Len(s)
    BY <1>1
  <2>3. WordAt(s, j, n) \in Seq(S)
    <3> HIDE DEF n
    <3> QED BY <2>2, WordIs DEF Part
  <2> QED BY <2>1, <2>3
<1>5. c \in Seq(S) /\ c = WordAt(s, 1, n)
  <2>1. 1 \in 1 .. n + 1
    BY <1>1
  <2> HIDE DEF n
  <2> QED BY <1>4, <2>1
<1>6. v = [k \in 1 .. m |-> StringAt(s, n, a[k])]
  <2>1. v = [k \in DOMAIN a |-> StringAt(s, n, a[k])]
    BY DEF ArgV
  <2> HIDE DEF v, a, n, m
  <2> QED BY <1>3, <2>1
<1> HIDE DEF n, a, c, v, m
<1>7. v \in Seq(Seq(S)) /\ Len(v) = m /\ \A k \in 1 .. m : v[k] = WordAt(s, a[k], n)
  <2>1. \A k \in 1 .. m : StringAt(s, n, a[k]) \in Seq(S) /\ StringAt(s, n, a[k]) = WordAt(s, a[k], n)
    <3>1. 1 .. n \subseteq 1 .. n + 1
      BY <1>1
    <3> QED BY <1>3, <1>4, <3>1
  <2> QED BY <1>3, <1>6, <2>1
<1>8. t \in Seq(Nat) /\ Len(t) = m + 1 /\ \A k \in 1 .. m + 1 : t[k] = IF k = 1 THEN 1 ELSE a[k - 1]
  <2>1. a \in Seq(Nat)
    <3>1. 1 .. n \subseteq Nat
      BY <1>1
    <3> QED BY <1>2, <3>1, SeqMonotonic
  <2> QED BY <1>3, <2>1 DEF m
<1>9. r \in Seq(Seq(S)) /\ Len(r) = m + 1 /\ \A k \in 1 .. m + 1 : r[k] = IF k = 1 THEN c ELSE v[k - 1]
  BY <1>3, <1>5, <1>7
<1> HIDE DEF t, r
<1>10. ASSUME NEW k \in 1 .. m + 1
       PROVE  r[k] = WordAt(s, t[k], n) /\ (k # 1 => t[k] \in 1 .. n)
  <2>1. CASE k = 1
    BY <1>3, <1>5, <1>8, <1>9, <2>1
  <2>2. CASE k # 1
    <3>1. k - 1 \in 1 .. m
      BY <1>3, <2>2
    <3> QED BY <1>3, <1>7, <1>8, <1>9, <2>2, <3>1
  <2> QED BY <2>1, <2>2
<1>11. t[1] = 1
  BY <1>3, <1>8
<1>12. \A k \in 2 .. m + 1 : k \in 1 .. m + 1 /\ k # 1
  BY <1>3
<1>13. \A k \in 2 .. m + 1 : t[k] \in 1 .. n
  BY <1>10, <1>12
<1> QED BY <1>2, <1>5, <1>7, <1>8, <1>9, <1>10, <1>11, <1>13 DEF n, a, t, c, v, r, m

(* They are the words of the line.                                         *)
LEMMA WordsAre ==
    ASSUME NEW S, NEW s \in Seq(S), s = <<>> \/ s[1] # Space
    PROVE  C!Words(s) = <<StringAt(s, Len(s), 1)>> \o ArgV(s, Len(s))
<1> DEFINE n == Len(s)
           a == Begun(s, n)[n]
           t == <<1>> \o a
           r == <<StringAt(s, n, 1)>> \o ArgV(s, n)
           m == Len(t)
<1>1. n \in Nat
  BY LenProperties
<1>2. /\ a \in Seq(1 .. n) /\ t \in Seq(Nat) /\ Len(t) = Len(a) + 1
      /\ t[1] = 1 /\ \A k \in 2 .. m : t[k] \in 1 .. n
      /\ r \in Seq(Seq(S)) /\ Len(r) = m
      /\ \A k \in 1 .. m : r[k] = WordAt(s, t[k], n)
  BY StringsAre
<1>3. m \in Nat \ {0}
  BY <1>2, LenProperties
<1>4. PICK read : Reads(read, s)
  BY WordsRead
<1> DEFINE all == read[n]
<1>5. C!Words(s) = IF Len(all) > 1 /\ Last(all) = <<>> THEN Front(all) ELSE all
  BY <1>4 DEF Reads
<1> HIDE DEF a, t, r, m
<1>6. CASE n = 0
  <2>1. all = << <<>> >>
    BY <1>4, <1>6 DEF Reads
  <2>2. Len(a) = 0
    <3> HIDE DEF n
    <3>1. \A k \in 1 .. Len(a) : a[k] \in 1 .. n
      BY <1>2, ElementOfSeq
    <3>2. Len(a) \in Nat /\ ~(1 \in 1 .. n)
      BY <1>2, <1>6, LenProperties
    <3>3. ASSUME Len(a) # 0 PROVE FALSE
      <4>1. 1 \in 1 .. Len(a)
        BY <3>2, <3>3
      <4> QED BY <1>6, <3>1, <4>1
    <3> QED BY <3>3
  <2>3. Len(r) = 1 /\ r[1] = WordAt(s, 1, 0)
    <3>1. m = 1
      BY <1>2, <2>2 DEF m
    <3> QED BY <1>2, <1>6, <3>1
  <2>4. WordAt(s, 1, 0) = <<>>
    <3>1. 0 \in 0 .. Len(s) /\ 0 + 1 = 1
      BY <1>1
    <3> QED BY <3>1, EmptyWord
  <2>5. all \in Seq(Seq(S)) /\ Len(all) = 1 /\ all[1] = <<>>
    <3>1. <<>> \in Seq(S)
      BY EmptySeq
    <3> QED BY <2>1, <3>1
  <2> HIDE DEF all
  <2>6. all = r
    BY <1>2, <2>3, <2>4, <2>5, SameItems
  <2>7. C!Words(s) = all
    BY <1>5, <2>5
  <2> QED BY <2>6, <2>7 DEF r, n
<1>7. ASSUME n # 0, s[n] # Space PROVE C!Words(s) = r
  <2>1. Splits(t, all, S, s, n)
    <3>1. s # <<>> /\ s[1] # Space
      BY <1>7, EmptySeq
    <3> QED BY <1>4, <1>7, <3>1, SplitsAll DEF t, a
  <2> HIDE DEF all, n
  <2>2. /\ all \in Seq(Seq(S)) /\ Len(all) = m
        /\ \A k \in 1 .. m : all[k] = WordAt(s, t[k], n)
        /\ \A p \in t[m] .. n : s[p] # Space
    BY <2>1 DEF Splits, m
  <2>3. all = r
    <3>1. \A k \in 1 .. m : all[k] = r[k]
      BY <1>2, <2>2
    <3> QED BY <1>2, <2>2, <3>1, SameItems
  <2>4. t[m] \in 1 .. n
    <3>1. CASE m = 1
      <4>1. 1 \in 1 .. n
        BY <1>1, <1>7
      <4> QED BY <1>2, <3>1, <4>1
    <3>2. CASE m # 1
      <4>1. m \in 2 .. m
        BY <1>3, <3>2
      <4> QED BY <1>2, <4>1
    <3> QED BY <3>1, <3>2
  <2>5. Last(all) # <<>>
    <3>1. WordEnd(s, t[m], n) = n + 1
      <4>1. t[m] \in Nat /\ n + 1 \in t[m] .. n + 1 /\ (n + 1) - 1 = n /\ ~(n + 1 <= n)
        BY <1>1, <2>4
      <4> QED BY <1>1, <2>2, <4>1, EndsAt
    <3>2. n \in 0 .. Len(s) /\ t[m] \in 1 .. n + 1
      BY <1>1, <2>4 DEF n
    <3>3. Part(WordAt(s, t[m], n), S, s, t[m], n + 1)
      BY <3>1, <3>2, WordIs
    <3>4. Len(WordAt(s, t[m], n)) = (n + 1) - t[m]
      BY <3>3 DEF Part
    <3>5. (n + 1) - t[m] # 0
      BY <1>1, <2>4
    <3>6. WordAt(s, t[m], n) # <<>>
      BY <3>4, <3>5, EmptySeq
    <3>7. m \in 1 .. m
      BY <1>3
    <3> QED BY <2>2, <3>6, <3>7 DEF Last
  <2> QED BY <1>5, <2>3, <2>5
<1>8. ASSUME n # 0, s[n] = Space PROVE C!Words(s) = r
  <2> DEFINE u == Append(t, n + 1)
  <2>1. Splits(u, all, S, s, n)
    <3>1. s # <<>> /\ s[1] # Space
      BY <1>8, EmptySeq
    <3> QED BY <1>4, <1>8, <3>1, SplitsAll DEF t, a
  <2> HIDE DEF all, n
  <2>2. Len(u) = m + 1 /\ u[m + 1] = n + 1 /\ \A k \in 1 .. m : u[k] = t[k]
    <3>1. n + 1 \in Nat
      BY <1>1
    <3> QED BY <1>2, <3>1, AppendProperties DEF m
  <2> HIDE DEF u
  <2>3. /\ all \in Seq(Seq(S)) /\ Len(all) = m + 1
        /\ \A k \in 1 .. m + 1 : all[k] = WordAt(s, u[k], n)
    BY <2>1, <2>2 DEF Splits
  <2>4. Last(all) = <<>> /\ Len(all) > 1
    <3>1. m + 1 \in 1 .. m + 1 /\ n \in 0 .. Len(s) /\ m + 1 > 1
      BY <1>1, <1>3 DEF n
    <3>2. WordAt(s, n + 1, n) = <<>>
      BY <3>1, EmptyWord
    <3> QED BY <2>2, <2>3, <3>1, <3>2 DEF Last
  <2> DEFINE f == SubSeq(all, 1, m)
  <2>5. Front(all) = f
    <3>1. (m + 1) - 1 = m
      BY <1>3
    <3> QED BY <2>3, <3>1 DEF Front
  <2>6. f \in Seq(Seq(S)) /\ Len(f) = m /\ \A k \in 1 .. m : f[k] = all[k]
    <3>1. \A k \in 1 .. m : all[k] \in Seq(S)
      <4>1. \A k \in 1 .. m : k \in 1 .. m + 1
        BY <1>3
      <4> QED BY <2>3, <4>1, ElementOfSeq
    <3>2. m \in Int /\ 1 \in Int /\ m - 1 + 1 = m /\ 1 <= m /\ \A k \in 1 .. m : 1 + k - 1 = k
      BY <1>3
    <3> QED BY <3>1, <3>2, SubSeqProperties
  <2> HIDE DEF f
  <2>7. ASSUME NEW k \in 1 .. m PROVE f[k] = r[k]
    <3>1. k \in 1 .. m + 1
      BY <1>3
    <3> QED BY <1>2, <2>2, <2>3, <2>6, <3>1
  <2>8. f = r
    BY <1>2, <2>6, <2>7, SameItems
  <2> QED BY <1>5, <2>4, <2>5, <2>8
<1> QED BY <1>6, <1>7, <1>8 DEF r, n

(* Two lines have the same arguments as far as they are the same.          *)
LEMMA BegunSame ==
    ASSUME NEW f, NEW s, NEW m \in Nat, NEW n \in Nat, m <= n,
           \A i \in 1 .. m : f[i] = s[i]
    PROVE  Begun(f, m)[m] = Begun(s, n)[m]
<1> DEFINE a == Begun(f, m)
           b == Begun(s, n)
<1>1. Begins(a, f, m) /\ Begins(b, s, n)
  BY BegunIs
<1> HIDE DEF a, b
<1> DEFINE G == {i \in Nat : i <= m => a[i] = b[i]}
<1>2. 0 \in G
  BY <1>1 DEF Begins
<1>3. ASSUME NEW i \in Nat, i \in G PROVE i + 1 \in G
  <2> SUFFICES ASSUME i + 1 <= m PROVE a[i + 1] = b[i + 1]
    OBVIOUS
  <2> DEFINE k == i + 1
  <2>1. /\ k \in 1 .. m /\ k \in 1 .. n /\ k - 1 = i /\ a[i] = b[i]
        /\ (k < 2 \/ f[i] = s[i])
    BY <1>3
  <2> HIDE DEF k, G
  <2>2. a[k] = IF k < 2 THEN <<>> ELSE IF f[k - 1] = Space THEN Append(a[k - 1], k) ELSE a[k - 1]
    BY <1>1, <2>1 DEF Begins
  <2>3. b[k] = IF k < 2 THEN <<>> ELSE IF s[k - 1] = Space THEN Append(b[k - 1], k) ELSE b[k - 1]
    BY <1>1, <2>1 DEF Begins
  <2>4. a[k] = b[k]
    BY <2>1, <2>2, <2>3
  <2> QED BY <2>4 DEF k
<1> HIDE DEF G
<1>4. Nat \subseteq G
  BY <1>2, <1>3, Induction
<1>5. a[m] = b[m]
  BY <1>4 DEF G
<1> QED BY <1>5 DEF a, b

(* A line is given up just when its front has the arguments that fit.      *)
LEMMA FullIs ==
    ASSUME NEW S, NEW s \in Seq(S), s = <<>> \/ s[1] # Space
    PROVE  TooManyArgs(s, Len(s)) <=> C!Full(s)
<1> DEFINE n == Len(s)
           e == n - 1
           f == C!Front(s)
           m == Len(f)
           a == Begun(f, m)[m]
<1>1. n \in Nat /\ MaxArgs \in Nat \ {0} /\ e \in Int /\ 1 \in Int
      /\ \A i \in 1 .. e : s[i] \in S
  BY LenProperties, ElementOfSeq, CliAssumption
<1>2. f = SubSeq(s, 1, e)
  BY DEF C!Front
<1> HIDE DEF n
<1>3. f \in Seq(S) /\ m = (IF n > 1 THEN n - 1 ELSE 0) /\ \A i \in 1 .. m : f[i] = s[i]
  <2> DEFINE g == SubSeq(s, 1, e)
  <2>1. e - 1 + 1 = e /\ (1 <= e <=> n > 1) /\ \A i \in 1 .. e : 1 + i - 1 = i
    BY <1>1
  <2>2. /\ g \in Seq(S) /\ Len(g) = (IF 1 <= e THEN e - 1 + 1 ELSE 0)
        /\ \A i \in 1 .. e - 1 + 1 : g[i] = s[1 + i - 1]
    <3> HIDE DEF e
    <3> QED BY <1>1, SubSeqProperties
  <2>3. \A i \in 1 .. e : g[i] = s[i]
    <3> HIDE DEF g, e
    <3> QED BY <2>1, <2>2
  <2> HIDE DEF g
  <2>4. f = g
    BY <1>2 DEF g
  <2>5. f \in Seq(S) /\ m = (IF n > 1 THEN n - 1 ELSE 0)
    BY <1>1, <2>1, <2>2, <2>4
  <2>6. ASSUME NEW i \in 1 .. m PROVE f[i] = s[i]
    <3>1. i \in 1 .. e
      BY <1>1, <2>5
    <3> QED BY <2>3, <2>4, <3>1
  <2> QED BY <2>5, <2>6
<1> HIDE DEF f
<1>4. f = <<>> \/ f[1] # Space
  <2>1. CASE m = 0
    BY <1>3, <2>1, EmptySeq
  <2>2. CASE m # 0
    <3>1. 1 \in 1 .. m /\ n > 1
      BY <1>1, <1>3, <2>2
    <3>2. s # <<>>
      BY <3>1, EmptySeq DEF n
    <3> QED BY <1>3, <3>1, <3>2
  <2> QED BY <2>1, <2>2
<1>5. /\ C!Words(f) = <<StringAt(f, m, 1)>> \o ArgV(f, m)
      /\ Len(<<StringAt(f, m, 1)>> \o ArgV(f, m)) = Len(<<1>> \o a)
      /\ Len(<<1>> \o a) = Len(a) + 1 /\ a \in Seq(1 .. m)
  BY <1>3, <1>4, WordsAre, StringsAre
<1> HIDE DEF m
<1>6. Len(a) \in Nat
  <2> HIDE DEF a
  <2> QED BY <1>5, LenProperties
<1>7. C!Full(s) <=> Len(a) >= MaxArgs
  <2> DEFINE w == Len(C!Words(f))
  <2>1. w = Len(a) + 1 /\ (C!Full(s) <=> w - 1 >= MaxArgs)
    BY <1>5 DEF C!Full, f
  <2> HIDE DEF a, w
  <2> QED BY <1>1, <1>6, <2>1
<1>8. CASE n > 1
  <2>1. m \in Nat /\ m <= n /\ m = n - 1 /\ \A i \in 1 .. m : f[i] = s[i]
    BY <1>1, <1>3, <1>8
  <2>2. a = Begun(s, n)[n - 1]
    BY <1>1, <2>1, BegunSame
  <2>3. TooManyArgs(s, n) <=> Len(a) >= MaxArgs
    BY <1>8, <2>2 DEF TooManyArgs
  <2> QED BY <1>7, <2>3 DEF n
<1>9. CASE ~(n > 1)
  <2>1. m = 0
    BY <1>3, <1>9
  <2>2. a = <<>>
    BY <2>1, BegunIs DEF Begins
  <2>3. Len(a) = 0
    BY <2>2, EmptySeq
  <2>4. ~TooManyArgs(s, n)
    BY <1>9 DEF TooManyArgs
  <2> HIDE DEF a
  <2>5. ~(Len(a) >= MaxArgs)
    BY <1>1, <2>3
  <2> QED BY <1>7, <2>4, <2>5 DEF n
<1> QED BY <1>8, <1>9

(* The line without the spaces in front. *)
LEMMA StrippedIs ==
    ASSUME NEW S, NEW s \in Seq(S)
    PROVE  /\ Stripped(s) = C!Trim(s) /\ Stripped(s) \in Seq(S)
           /\ Stripped(s) = <<>> \/ Stripped(s)[1] # Space
           /\ s # <<>> /\ s[1] # Space => Stripped(s) = s
<1> DEFINE n == Len(s)
           P == {i \in 1 .. n : s[i] # Space}
           f == Min({i \in 1 .. n : i \in P} \cup {n + 1})
           B == {i \in 0 .. n : \A j \in 1 .. i : s[j] = Space}
<1>1. n \in Nat /\ \A i \in 1 .. n : s[i] \in S
  BY LenProperties, ElementOfSeq
<1>2. {i \in 1 .. n : i \in P} = P /\ \A i \in 1 .. n : i \in P <=> s[i] # Space
  OBVIOUS
<1>3. C!Trim(s) = SubSeq(s, f, n)
  <2>1. {i \in 1 .. n : i \in P} = {i \in 1 .. n : s[i] # " "}
    BY DEF Space
  <2>2. f = C!Min({i \in 1 .. n : s[i] # " "} \cup {n + 1})
    BY <2>1 DEF Min, C!Min
  <2> HIDE DEF f
  <2> QED BY <2>2 DEF C!Trim
<1>4. Stripped(s) = SubSeq(s, Max(B) + 1, n)
  BY DEF Stripped
<1> HIDE DEF n, P
<1>5. /\ f \in 1 .. n + 1 /\ \A p \in 1 .. f - 1 : p \notin P
      /\ f <= n => f \in P
  <2> DEFINE j == 1
             e == Min({p \in j .. n : p \in P} \cup {n + 1})
  <2>1. j \in Nat /\ j <= n + 1
    BY <1>1
  <2>2. f = e
    OBVIOUS
  <2> HIDE DEF f, j
  <2>3. /\ e \in j .. n + 1
        /\ \A p \in j .. e - 1 : p \notin P
        /\ e <= n => e \in P
    BY <1>1, <2>1, FirstIn
  <2> HIDE DEF e
  <2> QED BY <2>2, <2>3 DEF j
<1> HIDE DEF f
<1>6. Max(B) = f - 1
  <2>1. B \subseteq Int
    OBVIOUS
  <2>2. f - 1 \in B
    <3>1. f - 1 \in 0 .. n /\ 1 .. f - 1 \subseteq 1 .. n
      BY <1>1, <1>5
    <3>2. \A j \in 1 .. f - 1 : s[j] = Space
      BY <1>2, <1>5, <3>1
    <3> QED BY <3>1, <3>2
  <2>3. ASSUME NEW i \in B PROVE i <= f - 1
    <3> SUFFICES ASSUME ~(i <= f - 1) PROVE FALSE
      OBVIOUS
    <3>1. i \in 0 .. n /\ \A j \in 1 .. i : s[j] = Space
      OBVIOUS
    <3>2. f \in 1 .. i /\ f <= n /\ f \in 1 .. n
      <4> HIDE DEF B
      <4> QED BY <1>1, <1>5, <3>1
    <3> QED BY <1>2, <1>5, <3>1, <3>2
  <2> HIDE DEF B
  <2> QED BY <2>1, <2>2, <2>3, MaxIs
<1> HIDE DEF B
<1>7. Stripped(s) = SubSeq(s, f, n)
  <2>1. (f - 1) + 1 = f
    BY <1>5
  <2> QED BY <1>4, <1>6, <2>1
<1> DEFINE r == SubSeq(s, f, n)
<1>8. r \in Seq(S) /\ \A k \in 1 .. n - f + 1 : r[k] = s[f + k - 1]
  <2>1. f \in Int /\ n \in Int /\ \A i \in f .. n : s[i] \in S
    BY <1>1, <1>5
  <2> QED BY <2>1, SubSeqProperties
<1>9. r = <<>> \/ r[1] # Space
  <2>1. CASE f > n
    BY <1>1, <1>5, <2>1, SubSeqEmpty
  <2>2. CASE f <= n
    <3>1. 1 \in 1 .. n - f + 1 /\ f + 1 - 1 = f /\ f \in 1 .. n
      BY <1>1, <1>5, <2>2
    <3>2. r[1] = s[f]
      BY <1>8, <3>1
    <3> QED BY <1>2, <1>5, <2>2, <3>1, <3>2
  <2> QED BY <1>1, <1>5, <2>1, <2>2
<1>10. ASSUME s # <<>>, s[1] # Space PROVE r = s
  <2>1. 1 \in 1 .. n
    BY <1>1, <1>10, EmptySeq DEF n
  <2>2. f = 1
    <3>1. 1 \in P
      BY <1>2, <1>10, <2>1
    <3>2. ~(1 \in 1 .. f - 1)
      BY <1>5, <3>1
    <3> QED BY <1>1, <1>5, <3>2
  <2> QED BY <2>2, SubSeqFull DEF n
<1> HIDE DEF r
<1> QED BY <1>3, <1>7, <1>8, <1>9, <1>10 DEF r

-----------------------------------------------------------------------------
(* What the steps print. *)

LEMMA PiecesAre ==
    /\ Newline \in Texts /\ AtMost(TxBufferSize, Newline) = Newline
    /\ Prompt \in Texts /\ AtMost(TxBufferSize, Prompt) = Prompt
    /\ Rubout \in Texts /\ AtMost(TxBufferSize, Rubout) = Rubout
    /\ <<"Done">> \in Texts /\ <<"Unknown command: ">> \in Texts /\ <<>> \in Texts
    /\ Seq(CharSet) \subseteq Texts
<1>1. Newline \in Texts /\ Len(Newline) = 2
  BY DEF Newline, Texts, Chars
<1>2. Prompt \in Texts /\ Len(Prompt) = 2
  BY DEF Prompt, Texts, Chars
<1>3. Rubout \in Texts /\ Len(Rubout) = 3
  BY DEF Rubout, Texts, Chars
<1>4. <<"Done">> \in Texts /\ <<"Unknown command: ">> \in Texts /\ <<>> \in Texts
  BY DEF Texts, Chars
<1>5. Seq(CharSet) \subseteq Texts
  <2>1. CharSet \subseteq Chars
    BY DEF CharSet, Chars
  <2> QED BY <2>1, SeqMonotonic DEF Texts
<1>6. TxBufferSize \in Nat /\ 3 <= TxBufferSize
  BY CliAssumption
<1>7. \A s \in Texts : Len(s) <= TxBufferSize => AtMost(TxBufferSize, s) = s
  BY <1>6, CutIs DEF Texts
<1>8. /\ AtMost(TxBufferSize, Newline) = Newline
      /\ AtMost(TxBufferSize, Prompt) = Prompt
      /\ AtMost(TxBufferSize, Rubout) = Rubout
  <2>1. 2 <= TxBufferSize
    BY <1>6
  <2> QED BY <1>1, <1>2, <1>3, <1>6, <1>7, <2>1
<1> QED BY <1>1, <1>2, <1>3, <1>4, <1>5, <1>8

LEMMA Pair ==
    ASSUME NEW S, NEW a \in S, NEW b \in S
    PROVE  <<a, b>> \in Seq(S) /\ Len(<<a, b>>) = 2 /\ <<a, b>>[1] = a /\ <<a, b>>[2] = b
OBVIOUS

LEMMA Triple ==
    ASSUME NEW S, NEW a \in S, NEW b \in S, NEW c \in S
    PROVE  /\ <<a, b, c>> \in Seq(S) /\ Len(<<a, b, c>>) = 3
           /\ <<a, b, c>>[1] = a /\ <<a, b, c>>[2] = b /\ <<a, b, c>>[3] = c
OBVIOUS

LEMMA SaysNothing ==
    ASSUME txHead \in 0 .. TxBufferSize - 1, Prints(<<Newline, Prompt>>)
    PROVE  txHead' \in 0 .. TxBufferSize - 1 /\ C!Says(<<>>)
<1> DEFINE pieces == <<Newline, Prompt>>
<1>1. pieces \in Seq(Texts) /\ Len(pieces) = 2 /\ pieces[1] = Newline /\ pieces[2] = Prompt
  <2>1. Newline \in Texts /\ Prompt \in Texts
    BY PiecesAre
  <2> QED BY <2>1, Pair
<1>2. Prints(pieces)
  OBVIOUS
<1> HIDE DEF pieces
<1>3. /\ txHead' \in 0 .. TxBufferSize - 1
      /\ printed' = AtMost(TxBufferSize, pieces[1]) \o AtMost(TxBufferSize, pieces[2])
  BY <1>1, <1>2, PrintsAre DEF Texts
<1>4. printed' = Newline \o Prompt
  BY <1>1, <1>3, PiecesAre
<1>5. C!Cut(TxBufferSize, C!Cut(MaxLineLength - 1, <<>>)) = <<>>
  BY CliAssumption, EmptySeq DEF C!Cut
<1>6. Newline \o <<>> = Newline
  BY PiecesAre, ConcatEmptySeq DEF Texts
<1>7. C!Newline = Newline /\ C!Prompt = Prompt
  BY DEF C!Newline, Newline, C!Prompt, Prompt, Space
<1>8. printed' = (Newline \o <<>>) \o Prompt
  BY <1>4, <1>6
<1>9. C!Says(<<>>)
  BY <1>5, <1>7, <1>8 DEF C!Says
<1> QED BY <1>3, <1>9

LEMMA SaysMessage ==
    ASSUME NEW m \in Texts, txHead \in 0 .. TxBufferSize - 1,
           Prints(<<Newline, Format(m), Prompt>>)
    PROVE  txHead' \in 0 .. TxBufferSize - 1 /\ C!Says(m)
<1> DEFINE f == Format(m)
           pieces == <<Newline, f, Prompt>>
<1>1. MaxLineLength - 1 \in Nat /\ TxBufferSize \in Nat
  BY CliAssumption
<1>2. f \in Texts /\ f = C!Cut(MaxLineLength - 1, m)
  BY <1>1, CutIs DEF Texts, Format
<1>3. AtMost(TxBufferSize, f) = C!Cut(TxBufferSize, C!Cut(MaxLineLength - 1, m))
  <2> HIDE DEF f
  <2>1. AtMost(TxBufferSize, f) = C!Cut(TxBufferSize, f)
    BY <1>1, <1>2, CutIs DEF Texts
  <2> QED BY <1>2, <2>1
<1>4. Prints(pieces)
  OBVIOUS
<1> HIDE DEF f
<1>5. /\ pieces \in Seq(Texts) /\ Len(pieces) = 3
      /\ pieces[1] = Newline /\ pieces[2] = f /\ pieces[3] = Prompt
  <2>1. Newline \in Texts /\ f \in Texts /\ Prompt \in Texts
    BY <1>2, PiecesAre
  <2> QED BY <2>1, Triple
<1> HIDE DEF pieces
<1>6. /\ txHead' \in 0 .. TxBufferSize - 1
      /\ printed' = AtMost(TxBufferSize, pieces[1]) \o AtMost(TxBufferSize, pieces[2])
                        \o AtMost(TxBufferSize, pieces[3])
  BY <1>4, <1>5, PrintsAre DEF Texts
<1>7. printed' = Newline \o AtMost(TxBufferSize, f) \o Prompt
  BY <1>5, <1>6, PiecesAre
<1>8. C!Newline = Newline /\ C!Prompt = Prompt
  BY DEF C!Newline, Newline, C!Prompt, Prompt, Space
<1>9. C!Says(m)
  BY <1>3, <1>7, <1>8 DEF C!Says
<1> QED BY <1>6, <1>9

(* A step that prints one piece, or nothing. *)
LEMMA PrintsPiece ==
    ASSUME NEW s \in Texts, txHead \in 0 .. TxBufferSize - 1, Prints(<<s>>)
    PROVE  txHead' \in 0 .. TxBufferSize - 1 /\ printed' = AtMost(TxBufferSize, s)
<1> DEFINE pieces == <<s>>
<1>1. pieces \in Seq(Texts) /\ Len(pieces) = 1 /\ pieces[1] = s
  OBVIOUS
<1>2. Prints(pieces)
  OBVIOUS
<1> HIDE DEF pieces
<1>3. txHead' \in 0 .. TxBufferSize - 1 /\ printed' = AtMost(TxBufferSize, pieces[1])
  BY <1>1, <1>2, PrintsAre DEF Texts
<1> QED BY <1>1, <1>3

LEMMA PrintsNothing ==
    ASSUME txHead \in 0 .. TxBufferSize - 1, Prints(<<>>)
    PROVE  txHead' \in 0 .. TxBufferSize - 1 /\ printed' = <<>>
<1>1. <<>> \in Seq(Seq(Chars)) /\ Len(<<>>) = 0
  BY EmptySeq
<1> QED BY <1>1, PrintsAre

-----------------------------------------------------------------------------
(* The line is text that fits the buffer, and the head of the ring is one  *)
(* of its cells.                                                           *)
CliIInv ==
    /\ rx \in Seq(CharSet) /\ Len(rx) <= RxBufferSize
    /\ txHead \in 0 .. TxBufferSize - 1

(* process_line() of the whole line runs its words. *)
LEMMA ProcessesWords ==
    ASSUME CliIInv, rx # <<>>, ProcessLine(Stripped(rx), Len(Stripped(rx))),
           rx' = <<>>, UNCHANGED commands
    PROVE  txHead' \in 0 .. TxBufferSize - 1 /\ C!Enter
<1> DEFINE text == Stripped(rx)
           n == Len(text)
           cmd == StringAt(text, n, 1)
           v == ArgV(text, n)
           words == <<cmd>> \o v
<1>1. text \in Seq(CharSet) /\ text = C!Trim(rx) /\ (text = <<>> \/ text[1] # Space)
  BY StrippedIs DEF CliIInv
<1>2. ProcessLine(text, n)
  OBVIOUS
<1> HIDE DEF text
<1>3. C!Words(text) = words
  BY <1>1, WordsAre
<1>4. cmd \in Seq(CharSet) /\ v \in Seq(Seq(CharSet)) /\ words \in Seq(Seq(CharSet))
  <2> HIDE DEF words, cmd, v
  <2> QED BY <1>1, StringsAre DEF words, cmd, v
<1>7. TooManyArgs(text, n) <=> C!Full(text)
  BY <1>1, FullIs
<1> HIDE DEF n
<1>8. Head(words) = cmd
  <2> HIDE DEF cmd, v
  <2> QED BY <1>4
<1> HIDE DEF cmd, v
<1>9. CASE TooManyArgs(text, n) \/ commands = {}
  <2>1. ran' = <<>> /\ Prints(<<Newline, Prompt>>)
    BY <1>2, <1>9 DEF ProcessLine
  <2>2. txHead' \in 0 .. TxBufferSize - 1 /\ C!Ignore
    BY <2>1, SaysNothing DEF CliIInv, C!Ignore
  <2>3. C!Enter
    BY <1>1, <1>3, <1>7, <1>9, <2>2 DEF C!Enter
  <2> QED BY <2>2, <2>3
<1>10. ASSUME ~(TooManyArgs(text, n) \/ commands = {}), C!Run(words) PROVE C!Enter
  <2> HIDE DEF words
  <2> QED BY <1>1, <1>3, <1>7, <1>10 DEF C!Enter
<1>11. C!Newline = Newline
  BY DEF C!Newline, Newline
<1>12. ASSUME ~(TooManyArgs(text, n) \/ commands = {}), cmd \in commands
       PROVE  txHead' \in 0 .. TxBufferSize - 1 /\ C!Enter
  <2> DEFINE m == <<"Done">> \o Newline
  <2>1. ran' = words /\ Prints(<<Newline, Done, Prompt>>)
    BY <1>2, <1>12 DEF ProcessLine, cmd, v
  <2>2. m \in Texts
    BY PiecesAre, ConcatProperties DEF Texts
  <2>3. Prints(<<Newline, Format(m), Prompt>>)
    BY <2>1 DEF Done
  <2> HIDE DEF m
  <2>4. txHead' \in 0 .. TxBufferSize - 1 /\ C!Says(m)
    BY <2>2, <2>3, SaysMessage DEF CliIInv
  <2>5. C!Run(words)
    <3> HIDE DEF words
    <3> QED BY <1>8, <1>11, <1>12, <2>1, <2>4 DEF C!Run, m
  <2> QED BY <1>10, <1>12, <2>4, <2>5
<1>13. ASSUME ~(TooManyArgs(text, n) \/ commands = {}), cmd \notin commands
       PROVE  txHead' \in 0 .. TxBufferSize - 1 /\ C!Enter
  <2> DEFINE m == <<"Unknown command: ">> \o cmd \o Newline
  <2>1. ran' = <<>> /\ Prints(<<Newline, UnknownCommand(cmd), Prompt>>)
    BY <1>2, <1>13 DEF ProcessLine, cmd
  <2>2. m \in Texts
    <3>1. cmd \in Texts
      BY <1>4, PiecesAre
    <3> QED BY <3>1, PiecesAre, ConcatProperties DEF Texts
  <2>3. Prints(<<Newline, Format(m), Prompt>>)
    BY <2>1 DEF UnknownCommand
  <2> HIDE DEF m
  <2>4. txHead' \in 0 .. TxBufferSize - 1 /\ C!Says(m)
    BY <2>2, <2>3, SaysMessage DEF CliIInv
  <2>5. C!Run(words)
    <3> HIDE DEF words
    <3> QED BY <1>8, <1>11, <1>13, <2>1, <2>4 DEF C!Run, m
  <2> QED BY <1>10, <1>13, <2>4, <2>5
<1> QED BY <1>9, <1>12, <1>13

(* Told no length, process_line() runs the line as one word. *)
LEMMA ProcessesLine ==
    ASSUME CliIInv, rx # <<>>, Len(rx) = RxBufferSize, ProcessLine(rx, 0),
           rx' = <<>>, UNCHANGED commands
    PROVE  txHead' \in 0 .. TxBufferSize - 1 /\ C!Enter
<1> DEFINE cmd == StringAt(rx, 0, 1)
           v == ArgV(rx, 0)
<1>1. Len(rx) \in Nat /\ rx \in Seq(CharSet)
  BY LenProperties DEF CliIInv
<1>2. cmd = rx
  <2> DEFINE T == {j \in 1 .. 0 : rx[j] = Space} \cup {Len(rx) + 1}
  <2>1. T = {Len(rx) + 1}
    OBVIOUS
  <2>2. Min({Len(rx) + 1}) = Len(rx) + 1
    <3>1. {Len(rx) + 1} \subseteq Int /\ \A x \in {Len(rx) + 1} : Len(rx) + 1 <= x
      BY <1>1
    <3> QED BY <3>1, MinIs
  <2>3. (Len(rx) + 1) - 1 = Len(rx)
    BY <1>1
  <2>4. cmd = SubSeq(rx, 1, (Len(rx) + 1) - 1)
    BY <2>1, <2>2 DEF StringAt
  <2> QED BY <1>1, <2>3, <2>4, SubSeqFull
<1>3. v = <<>>
  <2>1. Begun(rx, 0)[0] = <<>>
    BY BegunIs DEF Begins
  <2> QED BY <2>1 DEF ArgV
<1>4. ~TooManyArgs(rx, 0)
  BY DEF TooManyArgs
<1> HIDE DEF cmd, v
<1>5. <<rx>> \o <<>> = <<rx>> /\ Head(<<rx>>) = rx
  <2>1. <<rx>> \in Seq(Seq(CharSet))
    BY <1>1
  <2> QED BY <2>1, ConcatEmptySeq
<1>6. C!Newline = Newline
  BY DEF C!Newline, Newline
<1>7. CASE commands = {}
  <2>1. ran' = <<>> /\ Prints(<<Newline, Prompt>>)
    BY <1>7 DEF ProcessLine
  <2>2. txHead' \in 0 .. TxBufferSize - 1 /\ C!Ignore
    BY <2>1, SaysNothing DEF CliIInv, C!Ignore
  <2>3. C!Enter
    BY <1>7, <2>2 DEF C!Enter
  <2> QED BY <2>2, <2>3
<1>8. ASSUME commands # {}, C!Run(<<rx>>) PROVE C!Enter
  BY <1>8 DEF C!Enter
<1>9. ASSUME commands # {}, rx \in commands
      PROVE  txHead' \in 0 .. TxBufferSize - 1 /\ C!Enter
  <2> DEFINE m == <<"Done">> \o Newline
  <2>1. ran' = <<rx>> /\ Prints(<<Newline, Done, Prompt>>)
    BY <1>2, <1>3, <1>4, <1>5, <1>9 DEF ProcessLine, cmd, v
  <2>2. m \in Texts
    BY PiecesAre, ConcatProperties DEF Texts
  <2>3. Prints(<<Newline, Format(m), Prompt>>)
    BY <2>1 DEF Done
  <2> HIDE DEF m
  <2>4. txHead' \in 0 .. TxBufferSize - 1 /\ C!Says(m)
    BY <2>2, <2>3, SaysMessage DEF CliIInv
  <2>5. C!Run(<<rx>>)
    BY <1>5, <1>6, <1>9, <2>1, <2>4 DEF C!Run, m
  <2> QED BY <1>8, <1>9, <2>4, <2>5
<1>10. ASSUME commands # {}, rx \notin commands
       PROVE  txHead' \in 0 .. TxBufferSize - 1 /\ C!Enter
  <2> DEFINE m == <<"Unknown command: ">> \o rx \o Newline
  <2>1. ran' = <<>> /\ Prints(<<Newline, UnknownCommand(rx), Prompt>>)
    BY <1>2, <1>4, <1>10 DEF ProcessLine, cmd
  <2>2. m \in Texts
    <3>1. rx \in Texts
      BY <1>1, PiecesAre
    <3> QED BY <3>1, PiecesAre, ConcatProperties DEF Texts
  <2>3. Prints(<<Newline, Format(m), Prompt>>)
    BY <2>1 DEF UnknownCommand
  <2> HIDE DEF m
  <2>4. txHead' \in 0 .. TxBufferSize - 1 /\ C!Says(m)
    BY <2>2, <2>3, SaysMessage DEF CliIInv
  <2>5. C!Run(<<rx>>)
    BY <1>5, <1>6, <1>10, <2>1, <2>4 DEF C!Run, m
  <2> QED BY <1>8, <1>10, <2>4, <2>5
<1> QED BY <1>7, <1>9, <1>10

(* Every step keeps the invariant and is a step of the console, or none.   *)
LEMMA CliStep ==
    ASSUME CliIInv, [CliNext]_cliVars
    PROVE  CliIInv' /\ [C!Next]_<<rx, commands, printed, ran>>
<1>1. /\ rx \in Seq(CharSet) /\ Len(rx) \in Nat /\ Len(rx) <= RxBufferSize
      /\ txHead \in 0 .. TxBufferSize - 1
  BY LenProperties DEF CliIInv
<1>2. RxBufferSize \in Nat \ {0} /\ TxBufferSize \in Nat /\ 3 <= TxBufferSize
  BY CliAssumption
<1>3. <<>> \in Seq(CharSet) /\ Len(<<>>) <= RxBufferSize
  BY <1>2, EmptySeq
<1>4. CASE EnterNothing
  <2>1. rx = <<>> /\ rx' = rx /\ UNCHANGED commands /\ ran' = <<>> /\ Prints(<<Newline, Prompt>>)
    BY <1>4 DEF EnterNothing
  <2>2. txHead' \in 0 .. TxBufferSize - 1 /\ C!Ignore
    BY <1>1, <2>1, SaysNothing DEF C!Ignore
  <2>3. C!Enter
    BY <2>1, <2>2 DEF C!Enter
  <2> QED BY <1>1, <2>1, <2>2, <2>3 DEF CliIInv, C!Next
<1>5. CASE Enter
  <2>1. rx # <<>> /\ rx' = <<>> /\ UNCHANGED commands
    BY <1>5 DEF Enter
  <2> DEFINE s == Stripped(rx)
  <2>2. PICK n \in ToldLengths : ProcessLine(s, n - (Len(rx) - Len(s)))
    BY <1>5 DEF Enter
  <2>3. s \in Seq(CharSet) /\ Len(s) \in Nat /\ (rx[1] # Space => s = rx)
    BY <1>1, <2>1, StrippedIs, LenProperties
  <2> HIDE DEF s
  <2>4. CASE n = Len(rx)
    <3>1. n - (Len(rx) - Len(s)) = Len(s)
      BY <1>1, <2>3, <2>4
    <3>2. txHead' \in 0 .. TxBufferSize - 1 /\ C!Enter
      BY <2>1, <2>2, <3>1, ProcessesWords DEF s
    <3> QED BY <1>3, <2>1, <3>2 DEF CliIInv, C!Next
  <2>5. CASE n # Len(rx)
    <3>1. n = 0 /\ Len(rx) = RxBufferSize
      BY <2>5 DEF ToldLengths
    <3>2. s = rx
      BY <1>5, <2>3, <3>1 DEF Enter
    <3>3. n - (Len(rx) - Len(s)) = 0
      BY <1>1, <3>1, <3>2
    <3>4. ProcessLine(rx, 0)
      BY <2>2, <3>2, <3>3
    <3>5. txHead' \in 0 .. TxBufferSize - 1 /\ C!Enter
      BY <2>1, <3>1, <3>4, ProcessesLine
    <3> QED BY <1>3, <2>1, <3>5 DEF CliIInv, C!Next
  <2> QED BY <2>4, <2>5
<1>6. CASE Erase
  <2>1. ran' = <<>> /\ UNCHANGED commands
    BY <1>6 DEF Erase
  <2>2. CASE rx = <<>>
    <3>1. rx' = rx /\ Prints(<<>>)
      BY <1>6, <2>2 DEF Erase
    <3>2. txHead' \in 0 .. TxBufferSize - 1 /\ printed' = <<>>
      BY <1>1, <3>1, PrintsNothing
    <3>3. C!Erase
      BY <2>1, <2>2, <3>1, <3>2 DEF C!Erase
    <3> QED BY <1>1, <3>1, <3>2, <3>3 DEF CliIInv, C!Next
  <2>3. CASE rx # <<>>
    <3>1. rx' = Front(rx) /\ Prints(<<Rubout>>)
      BY <1>6, <2>3 DEF Erase
    <3>2. txHead' \in 0 .. TxBufferSize - 1 /\ printed' = Rubout
      BY <1>1, <3>1, PiecesAre, PrintsPiece
    <3>3. Front(rx) \in Seq(CharSet) /\ Len(Front(rx)) = Len(rx) - 1
      <4> DEFINE n == Len(rx) - 1
      <4>1. n \in Nat /\ \A i \in 1 .. n : rx[i] \in CharSet
        <5>1. Len(rx) # 0
          BY <1>1, <2>3, EmptySeq
        <5>2. n \in Nat /\ 1 .. n \subseteq 1 .. Len(rx)
          BY <1>1, <5>1
        <5> QED BY <1>1, <5>2, ElementOfSeq
      <4>2. Front(rx) = SubSeq(rx, 1, n)
        BY DEF Front
      <4> HIDE DEF n
      <4>3. n \in Int /\ 1 \in Int /\ (IF 1 <= n THEN n - 1 + 1 ELSE 0) = n
        BY <4>1
      <4>4. SubSeq(rx, 1, n) \in Seq(CharSet) /\ Len(SubSeq(rx, 1, n)) = n
        BY <4>1, <4>3, SubSeqProperties
      <4> QED BY <4>2, <4>4 DEF n
    <3>4. rx' # rx /\ Len(rx') <= RxBufferSize
      BY <1>1, <1>2, <3>1, <3>3
    <3>5. C!Front(rx) = Front(rx)
      BY DEF C!Front, Front
    <3>6. Rubout = <<"BS", " ", "BS">>
      BY DEF Rubout, Space
    <3>7. C!Erase
      BY <2>1, <2>3, <3>1, <3>2, <3>4, <3>5, <3>6 DEF C!Erase
    <3>8. rx' \in Seq(CharSet)
      BY <3>1, <3>3
    <3> QED BY <3>2, <3>4, <3>7, <3>8 DEF CliIInv, C!Next
  <2> QED BY <2>2, <2>3
<1>7. ASSUME NEW c \in Letters \cup {Space}, Type(c)
      PROVE  CliIInv' /\ [C!Next]_<<rx, commands, printed, ran>>
  <2>1. ran' = <<>> /\ UNCHANGED commands /\ c \in CharSet
    BY <1>7 DEF Type, CharSet
  <2> DEFINE longer == Append(rx, c)
  <2>2. /\ longer \in Seq(CharSet) /\ Len(longer) = Len(rx) + 1
        /\ \A i \in 1 .. Len(rx) : longer[i] = rx[i]
    BY <1>1, <2>1, AppendProperties
  <2> HIDE DEF longer
  <2>3. ASSUME C!Type(c) PROVE C!Next
    BY <2>3 DEF C!Next, Space
  <2>4. CASE Len(rx) < RxBufferSize
    <3>1. rx' = longer /\ Prints(<< <<c>> >>)
      BY <1>7, <2>4 DEF Type, longer
    <3>2. <<c>> \in Texts /\ Len(<<c>>) = 1
      <4>1. <<c>> \in Seq(CharSet) /\ Len(<<c>>) = 1
        BY <2>1
      <4> QED BY <4>1, PiecesAre
    <3>3. AtMost(TxBufferSize, <<c>>) = <<c>>
      <4>1. Len(<<c>>) <= TxBufferSize
        BY <1>2, <3>2
      <4> QED BY <1>2, <3>2, <4>1, CutIs DEF Texts
    <3>4. txHead' \in 0 .. TxBufferSize - 1 /\ printed' = <<c>>
      BY <1>1, <3>1, <3>2, <3>3, PrintsPiece
    <3>5. Len(longer) <= RxBufferSize /\ longer # rx
      BY <1>1, <1>2, <2>2, <2>4
    <3>6. C!Cut(RxBufferSize, longer) = longer
      BY <3>5 DEF C!Cut
    <3>7. C!Type(c)
      BY <2>1, <3>1, <3>4, <3>5, <3>6 DEF C!Type, longer
    <3> QED BY <2>2, <2>3, <3>1, <3>4, <3>5, <3>7 DEF CliIInv
  <2>5. CASE ~(Len(rx) < RxBufferSize)
    <3>1. rx' = rx /\ Prints(<<>>)
      BY <1>7, <2>5 DEF Type
    <3>2. txHead' \in 0 .. TxBufferSize - 1 /\ printed' = <<>>
      BY <1>1, <3>1, PrintsNothing
    <3>3. Len(rx) = RxBufferSize
      BY <1>1, <1>2, <2>5
    <3>4. C!Cut(RxBufferSize, longer) = SubSeq(longer, 1, Len(rx))
      BY <1>1, <2>2, <3>3 DEF C!Cut
    <3>5. SubSeq(longer, 1, Len(rx)) = rx
      <4> DEFINE n == Len(rx)
                 f == SubSeq(longer, 1, n)
      <4>1. n \in Int /\ 1 \in Int /\ (IF 1 <= n THEN n - 1 + 1 ELSE 0) = n /\ n - 1 + 1 = n
            /\ \A i \in 1 .. n : 1 + i - 1 = i
        BY <1>1
      <4>2. \A i \in 1 .. n : longer[i] \in CharSet
        BY <1>1, <2>2, ElementOfSeq
      <4> HIDE DEF n
      <4>3. f \in Seq(CharSet) /\ Len(f) = n /\ \A i \in 1 .. n : f[i] = longer[i]
        BY <4>1, <4>2, SubSeqProperties
      <4> HIDE DEF f
      <4>4. \A i \in 1 .. n : f[i] = rx[i]
        BY <2>2, <4>3 DEF n
      <4>5. f = rx
        BY <1>1, <4>3, <4>4, SameItems DEF n
      <4> QED BY <4>5 DEF f, n
    <3>6. C!Type(c)
      BY <2>1, <3>1, <3>2, <3>4, <3>5 DEF C!Type, longer
    <3> QED BY <1>1, <2>3, <3>1, <3>2, <3>6 DEF CliIInv
  <2> QED BY <2>4, <2>5
<1>8. ASSUME NEW s \in UserTexts, VccliOutput(s)
      PROVE  CliIInv' /\ [C!Next]_<<rx, commands, printed, ran>>
  <2>1. ran' = <<>> /\ UNCHANGED <<rx, commands>> /\ Prints(<<s>>)
    BY <1>8 DEF VccliOutput
  <2>2. s \in Texts
    BY CliAssumption, PiecesAre DEF CharSet
  <2>3. txHead' \in 0 .. TxBufferSize - 1 /\ printed' = AtMost(TxBufferSize, s)
    BY <1>1, <2>1, <2>2, PrintsPiece
  <2>4. AtMost(TxBufferSize, s) = C!Cut(TxBufferSize, s)
    BY <1>2, <2>2, CutIs DEF Texts
  <2>5. C!Write(s)
    BY <2>1, <2>3, <2>4 DEF C!Write
  <2> QED BY <1>1, <2>1, <2>3, <2>5 DEF CliIInv, C!Next
<1>9. ASSUME NEW names \in CommandSets, SetUserCommands(names)
      PROVE  CliIInv' /\ [C!Next]_<<rx, commands, printed, ran>>
  <2>1. C!SetUserCommands(names) /\ UNCHANGED <<rx, txHead>>
    BY <1>9 DEF SetUserCommands, C!SetUserCommands
  <2> QED BY <1>1, <2>1 DEF CliIInv, C!Next
<1>10. CASE UNCHANGED cliVars
  BY <1>1, <1>10 DEF CliIInv, cliVars
<1> QED BY <1>4, <1>5, <1>6, <1>7, <1>8, <1>9, <1>10 DEF CliNext

(* For every size of the buffers and every text, what the line editor of   *)
(* cli_uart.cpp and the parser of cli.cpp print, keep and run is what      *)
(* Console promises.                                                       *)
THEOREM ConsoleRefines == CliSpec => ImplementsConsole
<1>1. CliInit => CliIInv /\ C!Init
  <2> SUFFICES ASSUME CliInit PROVE CliIInv /\ C!Init
    OBVIOUS
  <2> DEFINE tx == [head |-> 0, sent |-> <<>>]
  <2>1. Prompt \in Seq(Chars) /\ <<>> \in Seq(Chars) /\ TxBufferSize \in Nat \ {0}
    <3>1. TxBufferSize \in Nat \ {0}
      BY CliAssumption
    <3>2. Prompt \in Seq(Chars)
      BY PiecesAre DEF Texts
    <3> QED BY <3>1, <3>2, EmptySeq
  <2>2. /\ Started.head \in 0 .. TxBufferSize - 1
        /\ Started.sent = <<>> \o AtMost(TxBufferSize, Prompt)
    <3>1. tx \in [head : 0 .. TxBufferSize - 1, sent : Seq(Chars)] /\ tx.sent = <<>>
      BY <2>1
    <3>2. Started = Output(tx, Prompt)
      BY DEF Started
    <3> HIDE DEF tx
    <3>3. /\ Started \in [head : 0 .. TxBufferSize - 1, sent : Seq(Chars)]
          /\ Started.sent = tx.sent \o AtMost(TxBufferSize, Prompt)
      BY <2>1, <3>1, <3>2, OutputIs
    <3> QED BY <3>1, <3>3
  <2>3. Started.sent = Prompt
    BY <2>1, <2>2, PiecesAre, ConcatEmptySeq
  <2>4. Prompt = C!Prompt
    BY DEF Prompt, C!Prompt, Space
  <2> QED BY <2>2, <2>3, <2>4, CliAssumption, EmptySeq DEF CliInit, CliIInv, C!Init
<1>2. CliIInv /\ [CliNext]_cliVars => CliIInv'
  BY CliStep
<1>3. CliIInv /\ [CliNext]_cliVars => [C!Next]_<<rx, commands, printed, ran>>
  BY CliStep
<1> QED BY <1>1, <1>2, <1>3, PTL DEF CliSpec, ImplementsConsole, C!Spec
=============================================================================
