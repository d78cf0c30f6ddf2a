-------------------------------- MODULE Cib --------------------------------
(***************************************************************************)
(* The circular index buffer (source/core/cib.hpp) with the array it       *)
(* indexes: the message queue of a thread (Thread::queued_msg and          *)
(* Msg::receive).  The two counters are unsigned, are never reset and wrap *)
(* at CountRange; an index is a counter masked with Size - 1, that is,     *)
(* modulo Size, a power of two.                                            *)
(***************************************************************************)
EXTENDS Integers, Sequences

CONSTANTS
    Items, None,
    CountRange, \* how many values an unsigned int has
    Size        \* what init() was called with

(* Both numbers are powers of two (vcassert in init()); that one divides   *)
(* the other is what the code needs of it.  put() casts counts to an int,  *)
(* which has to hold them.                                                 *)
ASSUME CibAssumption ==
    /\ Size \in Nat \ {0}
    /\ CountRange \in Nat /\ CountRange >= 2 * Size
    /\ CountRange % Size = 0
    /\ None \notin Items

VARIABLES
    array,          \* msg_array
    read_count,
    write_count,
    item            \* what the last call returned

cibVars == <<array, read_count, write_count, item>>

Indexes == 0 .. Size - 1

Index(count) == count % Size
Succ(count)  == (count + 1) % CountRange

(* Fault: subtract as integers do that do not wrap. *)
AvailUnwrapped == IF write_count >= read_count THEN write_count - read_count ELSE 0

Avail == (write_count - read_count) % CountRange

HasRoom == Avail <= Size - 1

CibInit ==
    /\ array = [i \in Indexes |-> None]
    /\ read_count = 0
    /\ write_count = 0
    /\ item = None

(* queued_msg() *)
Put(x) ==
    /\ HasRoom
    /\ array' = [array EXCEPT ![Index(write_count)] = x]
    /\ write_count' = Succ(write_count)
    /\ item' = x
    /\ UNCHANGED read_count

PutFails ==
    /\ ~HasRoom
    /\ item' = None
    /\ UNCHANGED <<array, read_count, write_count>>

Get ==
    /\ Avail > 0
    /\ item' = array[Index(read_count)]
    /\ read_count' = Succ(read_count)
    /\ UNCHANGED <<array, write_count>>

GetFails ==
    /\ Avail = 0
    /\ item' = None
    /\ UNCHANGED <<array, read_count, write_count>>

CibNext == (\E x \in Items : Put(x)) \/ PutFails \/ Get \/ GetFails

CibSpec == CibInit /\ [][CibNext]_cibVars

-----------------------------------------------------------------------------
(* Properties.                                                             *)

CibContent == [i \in 1 .. Avail |-> array[Index((read_count + i - 1) % CountRange)]]

F == INSTANCE BoundedFifo WITH content <- CibContent, result <- item

(* A queue is first in, first out, and refuses an item exactly when it     *)
(* holds Size of them, also when the counters wrap between a put and the   *)
(* get that goes with it.                                                  *)
ImplementsFifo == F!Spec
=============================================================================
