------------------------------ MODULE Isrpipe ------------------------------
(***************************************************************************)
(* A pipe from an interrupt handler to a thread (source/utils/isrpipe.cpp) *)
(* on top of the mutexes.  The handler writes bytes to a ring buffer and   *)
(* unlocks the mutex; the thread takes bytes, and locks the mutex when it  *)
(* finds none, without ever disabling interrupts for the buffer.           *)
(*                                                                         *)
(* pop() is `_buf[_reads++ & mask]`: the language leaves open whether the  *)
(* counter is stored before or after the byte is loaded.  The two are two  *)
(* steps here, in the order CountsFirst says; a handler may come between.  *)
(* Bytes are numbers counted modulo NumBytes in the order they are written.*)
(***************************************************************************)
EXTENDS Mutex

CONSTANTS
    Reader,         \* the thread that reads
    PipeMutex,      \* _mutex, initially locked
    BufSize,        \* _size, a power of two
    UnsignedRange,  \* how many values an unsigned int has
    MaxRead,        \* bound: bytes asked for in a read()
    NumBytes,       \* bound: distinct bytes
    CountsFirst     \* pop() stores the counter before it loads the byte

(* BufSize and UnsignedRange are powers of two (vcassert in the constructor of *)
(* Tsrb); that one divides the other is what the code needs of it.         *)
ASSUME IsrpipeAssumption ==
    /\ Reader \in Threads \ {Idle}
    /\ PipeMutex \in Signals
    /\ BufSize \in Nat \ {0}
    /\ UnsignedRange \in Nat /\ UnsignedRange > BufSize
    /\ UnsignedRange % BufSize = 0
    /\ MaxRead \in Nat
    /\ NumBytes \in Nat /\ NumBytes > BufSize + 1
    /\ CountsFirst \in BOOLEAN

VARIABLES
    buf, reads, writes,
    rstep,      \* where read() stands
    left,       \* bytes read() still wants
    some,       \* read() has taken a byte
    byte,       \* the byte or the index that a pop() under way has loaded
    wrote,      \* history: the next byte to be written
    next        \* history: the byte to be read next

pipeVars == <<buf, reads, writes, rstep, left, some, byte, wrote, next>>
allVars  == <<schedVars, mutexVars, pipeVars>>

Bytes == 0 .. NumBytes - 1

(* "loop": about to look whether there is a byte to take; "pop": between   *)
(* the two steps of pop(); "lock": about to lock the mutex.                *)
ReadSteps == {"none", "loop", "pop", "lock"}

PipeInit ==
    /\ MutexInit
    /\ buf = [i \in 0 .. BufSize - 1 |-> 0]
    /\ reads = 0 /\ writes = 0
    /\ rstep = "none" /\ left = 0 /\ some = FALSE /\ byte = 0
    /\ wrote = 0 /\ next = 0

-----------------------------------------------------------------------------
Masked(count) == count % BufSize
Plus1(count)  == (count + 1) % UnsignedRange

IsEmpty == reads = writes

(* Fault: leave one cell more than there is. *)
IsFullLate == (writes - reads) % UnsignedRange = BufSize + 1

IsFull == (writes - reads) % UnsignedRange = BufSize

(* add_one() *)
AddOne ==
    IF IsFull THEN UNCHANGED <<buf, writes, wrote>>
    ELSE /\ buf' = [buf EXCEPT ![Masked(writes)] = wrote]
         /\ writes' = Plus1(writes)
         /\ wrote' = (wrote + 1) % NumBytes

(* Fault: signal only a reader that waits already. *)
SignalWaiter == \/ IsrUnlockGive(PipeMutex)
                \/ /\ IsrEnabled /\ waiters[PipeMutex] = <<>>
                   /\ UNCHANGED <<schedVars, mutexVars>>

(* unlock() by the handler. *)
Signal == IsrUnlock(PipeMutex)

IsrWriteOne ==
    /\ AddOne
    /\ Signal
    /\ UNCHANGED <<reads, rstep, left, some, byte, next>>

-----------------------------------------------------------------------------
At(s) == InUser(Reader) /\ rstep = s

Read ==
    /\ At("none")
    /\ left' \in 0 .. MaxRead
    /\ rstep' = "loop"
    /\ UNCHANGED <<schedVars, mutexVars, buf, reads, writes, some, byte, wrote, next>>

(* The first step of pop().                                                *)
PopStarts ==
    /\ At("loop") /\ left > 0 /\ ~IsEmpty
    /\ IF CountsFirst THEN byte' = Masked(reads) /\ reads' = Plus1(reads)
                      ELSE byte' = buf[Masked(reads)] /\ UNCHANGED reads
    /\ rstep' = "pop"
    /\ UNCHANGED <<schedVars, mutexVars, buf, writes, left, some, wrote, next>>

(* The second; the byte is then one that read() has taken.                 *)
PopEnds ==
    /\ At("pop")
    /\ IF CountsFirst THEN next' = (buf[byte] + 1) % NumBytes /\ UNCHANGED reads
                      ELSE next' = (byte + 1) % NumBytes /\ reads' = Plus1(reads)
    /\ byte' = 0
    /\ left' = left - 1
    /\ some' = TRUE
    /\ rstep' = "loop"
    /\ UNCHANGED <<schedVars, mutexVars, buf, writes, wrote>>

(* get() ends when it has what it was asked for or finds nothing more.     *)
GetEnds == left = 0 \/ IsEmpty

ReadReturns ==
    /\ At("loop") /\ GetEnds /\ some
    /\ rstep' = "none" /\ left' = 0 /\ some' = FALSE
    /\ UNCHANGED <<schedVars, mutexVars, buf, reads, writes, byte, wrote, next>>

(* It has taken nothing: read() locks, and looks again when it has locked. *)
(* A read() of no bytes does so for ever.                                  *)
ReadFindsNone ==
    /\ At("loop") /\ GetEnds /\ ~some
    /\ rstep' = "lock"
    /\ UNCHANGED <<schedVars, mutexVars, buf, reads, writes, left, some, byte,
                   wrote, next>>

ReadLocks ==
    /\ At("lock")
    /\ LockFree(Reader, PipeMutex) \/ LockBlock(Reader, PipeMutex)
    /\ rstep' = "loop"
    /\ UNCHANGED <<buf, reads, writes, left, some, byte, wrote, next>>

ReadStep == PopStarts \/ PopEnds \/ ReadReturns \/ ReadFindsNone \/ ReadLocks

(* Only the pipe uses its mutex, and the reader does not end.              *)
OtherCall(t) ==
    /\ t = Reader => rstep = "none"
    /\ SchedCall(t)
    /\ sched.status[Reader] # "STOPPED" => sched'.status[Reader] # "STOPPED"
    /\ UNCHANGED pipeVars

PipeNext ==
    \/ (Boot \/ SwitchContextExit \/ PendSV) /\ UNCHANGED <<mutexVars, pipeVars>>
    \/ \E t \in Threads : OtherCall(t)
    \/ \E t \in Threads : KernelStep(t) /\ UNCHANGED <<mutexVars, pipeVars>>
    \/ LockReturn(Reader) /\ UNCHANGED pipeVars
    \/ (\E u \in Threads : IsrWakeup(u)) /\ UNCHANGED <<mutexVars, pipeVars>>
    \/ Read \/ ReadStep \/ IsrWriteOne

PipeSpec == PipeInit /\ [][PipeNext]_allVars

(* Exceptions are taken, and calls return. *)
PipeFairness ==
    /\ WF_allVars(PendSV /\ UNCHANGED <<mutexVars, pipeVars>>)
    /\ WF_allVars(booted /\ SwitchContextExit /\ UNCHANGED <<mutexVars, pipeVars>>)
    /\ \A t \in Threads : WF_allVars(KernelStep(t) /\ UNCHANGED <<mutexVars, pipeVars>>)
    /\ WF_allVars(LockReturn(Reader) /\ UNCHANGED pipeVars)
    /\ WF_allVars(ReadStep)

-----------------------------------------------------------------------------
(* Properties.                                                             *)

(* Every variable of the pipe keeps its type, and the counters are never   *)
(* further apart than the buffer is long.                                  *)
PipeTypeOK ==
    /\ MutexTypeOK
    /\ buf \in [0 .. BufSize - 1 -> Bytes]
    /\ reads \in 0 .. UnsignedRange - 1
    /\ writes \in 0 .. UnsignedRange - 1
    /\ (writes - reads) % UnsignedRange <= BufSize
    /\ rstep \in ReadSteps
    /\ left \in 0 .. MaxRead
    /\ some \in BOOLEAN
    /\ byte \in 0 .. NumBytes - 1
    /\ wrote \in Bytes /\ next \in Bytes

(* The reader never waits with bytes in the buffer: if its lock() has      *)
(* blocked it and it asks for any, the buffer is empty.  The mutex carries *)
(* the signal over the gap between finding the buffer empty and locking.   *)
ReaderNotStranded ==
    Reader \in ToSet(waiters[PipeMutex]) /\ left > 0 => IsEmpty

(* test_isrpipe.cpp expects that bytes are popped in the order they were   *)
(* added: the bytes in the buffer, after the one a pop() has yet to count  *)
(* or to load, are those written and not yet read, in order, each once.    *)
BytesInOrder ==
    LET pending == rstep = "pop" /\ CountsFirst
        first   == IF pending THEN (reads - 1) % UnsignedRange ELSE reads
        n       == (writes - first) % UnsignedRange
    IN  /\ (next + n) % NumBytes = wrote
        /\ \A i \in 0 .. n - 1 :
             buf[Masked((first + i) % UnsignedRange)] = (next + i) % NumBytes

(* A read() that asks for a byte or has one, with a byte in the buffer,    *)
(* returns, once its thread is the first in the run queues and stays so.   *)
ReadEnds ==
    First(Reader) /\ rstep # "none" /\ (left > 0 \/ some) /\ ~IsEmpty
        ~> (rstep = "none" \/ ~First(Reader))
=============================================================================
