# A verification of vcrtos in TLA+

vcrtos is the kernel of a small real-time operating system: fixed-priority
preemptive threads on one core, mutexes, messages, thread flags and event
queues, plus a few utilities. This directory holds TLA+ modules translated from
its source, the TLC configurations that check them on small instances, and
theorems about the scheduler, what is built on it and the data structures below
it, that TLAPS proves for every size.

    tlc -config MCMutex.cfg MCMutex      # a run; PROJECT.json lists them all
    tlapm MutexProofs.tla                # the proofs of a module

## 1. The system

| Part | Source | State | Operations |
|---|---|---|---|
| Scheduler | `core/thread.cpp`, `thread.hpp` | status, priority and pid of each thread; a circular run queue per priority; the ready bitmap; `threads_container`; the active thread; the switch request | create (plain, sleeping, without yield), sleep, wakeup, yield, exit, terminate, `context_switch`, `run` |
| Mutex | `core/mutex.cpp` | `queue.next`: null, `MUTEX_LOCKED`, or the first waiter | lock, try_lock, unlock, unlock_and_sleep, peek |
| Messages | `core/msg.cpp`, part of `thread.cpp` | per thread: `msg_array` with its Cib, `msg_waiters`, `wait_data` | send, try_send, receive, try_receive, send_receive, reply, and the variants for handlers |
| Cib | `core/cib.hpp` | two counters and a mask | put, get |
| Clist, List | `core/clist.hpp`, `list.hpp` | `next` of each node | push and pop at both ends, rotate, find, remove, count |
| Thread flags | `core/thread.cpp` | `flags`, `waited_flags` | set, clear, wait_any, wait_one, wait_all |
| Event queues | `core/thread.cpp` | a Clist of events; `next` of an event marks it as linked | post, cancel, get, wait, release |
| Isrpipe, Tsrb | `utils/isrpipe.*` | a ring buffer and a mutex | write_one (handler), read (thread) |
| RingBuffer | `utils/ringbuffer.*` | buffer, head, count | add, add_one, get, get_one, remove, peek |
| Recursive mutex | `core/rmutex.c` | mutex, owner, count | lock, trylock, unlock |
| Semaphore | `core/sema.c` | value, state, mutex | create, destroy, post |
| Heap | `utils/heap.*` | blocks in a static array, a free list sorted by size | calloc, free |
| Command line | `cli/*` | a line buffer, an output buffer | receive_task, output, process_line |
| C API | `core/api/*` | none | one wrapper per operation |
| Processor layer | not in the repository; `tests/unit/stubs` | interrupt mask, PendSV | `cpu_irq_disable`, `cpu_switch_context_exit`, `thread_arch_yield_higher` |

**Interaction.** Everything rests on `set_thread_status`, `context_switch` and
`yield_higher_priority_thread`. A thread has *one* list node: it is in the run
queue of its priority, or in the list of a mutex, or in the `msg_waiters` of
another thread. Mutexes and messages put it there and take it back. Events use
flags, flags use the scheduler, the pipe uses a mutex as a signal. Interrupt
handlers call the same functions; what differs is that a switch is only
recorded, and becomes a pending PendSV in `cpu_end_of_isr`.

**What is hard.** Critical sections are short and every function does something
after it has restored interrupts: it decides on a switch, reads a status again,
raises a flag, unlinks an event. Another thread or a handler may run in each of
those gaps. `left_pop` takes the head off a run queue *without looking whose it
is*. A mutex passes to a waiter before the waiter runs. One `Msg` holds both a
request and its reply. Waits do not check again. PROJECT.json lists the hazards
with their lines and the properties aimed at them.

**What makes each part correct.**
- Scheduler: queues, bitmap and statuses agree; an executing thread heads its
  queue; no thread computes while a more urgent one is ready; pids identify
  threads; the first thread gets the core.
- Mutex: one owner; a release passes to the first of the most urgent waiters; a
  node is in one list; a thread given the mutex returns.
- Messages: delivered once and in order per sender; blocking calls return only
  when done; a request can be answered while it is owed an answer.
- Flags: no lost wakeup, no spurious one, no flag cleared by another thread.
- Events: linked means in one place; no event overlooked by a sleeping consumer.
- Recursive mutex: one holder, for as long as it has locked more often than
  unlocked; its assertions hold; nobody, itself included, waits without a holder.
- Semaphore: the first unit reaches a waiter although the post is in two steps.
- Heap: blocks tile the array, the free list is complete and sorted, neighbours
  are merged; memory in use is disjoint, zero when given, and left alone.
- Command line: what is typed, echoed and printed comes out in order whatever the
  index of the output ring; the words of the line reach the right command.
- Lists, buffers: the pointers or counters implement the sequence they stand for.

## 2. The modules

One step is one section with interrupts disabled; what a function does after
restoring them is another step of the same thread, named by `pc` (or `call`,
`wait`, `step`, `rstep`). A handler is one step: handlers neither nest nor are
preempted. `Executing(t)` says that `t` has the core: it is active, and no
PendSV is pending that could be taken.

| Module | What it models |
|---|---|
| `Sched` | the scheduler. `sched` is the record of statuses, run queues and bitmap that `SetThreadStatus` and `Run` transform; `arg` and `pc` hold a thread between its critical section and the switch; `deferred` remembers the threads created without one |
| `Mutex` EXTENDS `Sched` | mutexes used as locks (only the holder unlocks) and as signals (anyone does). `want` is the lock() a thread is blocked in, `held` a history of what has returned. lock() does not ask who holds the mutex: a thread that locks a lock twice waits for itself |
| `PriorityLock` | abstract: of each lock one owner, and a release that passes it to a most urgent waiter |
| `Msg` EXTENDS `Sched` | messages. `box` is the Msg that `wait_data` points at, `owed` the requests received and unanswered, `sent` and `got` histories. A request left in a queue takes its caller off the run queue first and looks at its status again later: `call` is then "recheck" until `Recheck` |
| `Flags` EXTENDS `Sched`, `Events` EXTENDS `Flags` | thread flags; event queues on top of them |
| `Isrpipe` EXTENDS `Mutex` | the pipe; `pop()` is two steps whose order is the constant `CountsFirst`. A read() of no bytes is among the calls: it locks again and again and never returns, so what is said of a reader is said of one that asks for a byte |
| `Rmutex` EXTENDS `Mutex`, `ReentrantLock` | the recursive mutex; `rstep` holds a thread between two accesses to the mutex, the owner and the count, `nest` is a history of its calls. The abstract lock has a holder, a depth, and what each thread thinks of it; the holder is the thread on record while the count is not zero, since the code leaves the record behind |
| `Sema` EXTENDS `Mutex` | the semaphore; `posting` are the threads that have counted from zero and not yet unlocked its mutex |
| `Heap`, `Allocator` | the array as its 16-bit cells, so that the tricks of the code (a size read to find the cell of `next`, a `next` read from the left) are what they are; and the disjoint regions it implements |
| `Cli`, `Console` | the line buffer, the output ring and the parsing of a line; and the console they implement, which splits a line letter by letter. The first prompt, which the thread prints before it reads, is part of the initial state |
| `Clist`, `Deque` | the list of pointers, and the double-ended queue it implements |
| `Cib`, `BoundedFifo` | the counters and the array, and the queue they implement. `CountRange` is how many values an unsigned int has; all that matters is that Size divides it |
| `RingBuffer`, `ByteQueue` | the ring buffer, and the queue of bytes it implements |
| `MCSched`, `MCMutex`, `MCMsg`, `MCEvents`, `MCIsrpipe`, `MCSync`, `MCStructures`, `MCHeap.cfg` | constants, and named bounds, for TLC |
| `SchedProofs`, `MutexProofs`, `SyncProofs`, `EventsProofs`, `MsgProofs`, `BufferProofs`, `StructureProofs`, `HeapProofs` | the theorems of section 4; `EventsProofs` has those about flags, `StructureProofs` those about `Clist` and `RingBuffer`, `BufferProofs` those about `Isrpipe`, `Cib` and `Cli` |

Lists are sequences in the modules on top of `Sched`; `Clist` shows, for the run
and event queues, that this is what the pointers do. Queues of messages are
sequences in `Msg`; `Cib` shows it for them. Definitions marked *Fault* are
mistakes an implementation could make, kept beside the definition they would
replace; no behaviour uses them.

**Assumptions on the program and the processor.** One core; handlers are atomic
and do not nest; PendSV has the lowest urgency and is taken once interrupts
allow it. `kernel_init` creates the idle thread first and the idle thread never
blocks. Only sleeping threads are terminated by others (`Terminable`; the code
would take the wrong thread off a run queue otherwise, and would leave a thread
that waits for a mutex or for room in a queue in the list of that mutex or
queue). A lock is unlocked by
its holder, and its holder does not end. Messages go to threads that exist and
own a queue, which does not end; a request is answered at most once. An event is
posted to one thread, and taken, cancelled and released by it. One thread reads
a pipe, one handler writes. A recursive mutex starts zeroed, as a static object,
is unlocked only by a thread that has locked it, and its holder does not end; a
semaphore is created before it is used. The heap and the command line have one
caller at a time, as nothing in them excludes another; sizes fit 16 bits.

A line of `RX_BUFFER_SIZE` characters is ended one past `_rx_buffer`, in the low
byte of `_rx_length`, which the build then reads again or not: `ToldLengths` has
both outcomes, and `Console` therefore allows a full line to be split or to be
taken as one word: nothing is claimed about which. Such a line that begins with a
space would have its length wrap below zero, and is left out. Of the limit of
arguments `Console` says exactly what the code does: a line is ignored when
`MaxArgs` arguments have begun before its last character, or the user has set no
commands, and runs otherwise.

## 3. The runs

| Run | Question | Result |
|---|---|---|
| `sched` | do queues, bitmap, statuses, pids and priorities stay consistent under every interleaving of four threads, handlers and PendSV, and does the first thread get the core | holds |
| `mutex` | one owner, order of waiters, one list per node, refinement of `PriorityLock`; does a lock() that was given its mutex return | holds |
| `mutex_peek` | does lock() of a held mutex block, also after peek() | **violated**: peek() leaves interrupts disabled |
| `msg` | are blocked senders, receivers and clients where their statuses say, do calls return, and only when done; is each message delivered once and in order | holds |
| `msg_full` | do senders wait only while the queue is full, as a comment in receive() says | **violated**: the branch for it cannot be reached |
| `events` | no lost, no spurious wakeup; an event is in one place and is not overlooked; event_wait() returns | holds |
| `isrpipe` | is the reader never stranded, do bytes arrive in order, does read() return | holds |
| `isrpipe_race` | do bytes arrive in order if the build counts before it loads | **violated**: a handler overwrites the byte about to be read |
| `sync` | do owner and count, read and written with interrupts enabled, make a lock that one thread holds and may lock again, and do the assertions of unlock hold; does a waiter always have a holder to wait for; is the first unit of a semaphore lost between counting and unlocking | holds |
| `heap` | is the free list complete, sorted and merged after any calls; is memory in use disjoint, zero when given, never written to; does an empty heap give its whole capacity | holds |
| `structures` | do the pointers of a list implement a double-ended queue, wrapping counters a bounded queue, head and count of the ring buffer a queue of bytes, line buffer and output ring a console | holds |
| `ringbuffer_remove` | do calls return only bytes that were added, after any remove() | **violated**: remove() up to the last cell leaves the head outside |

**Bounds, and why they are enough.** Three priorities: a thread above, at and
below any other. Three or four threads, one of them idle: two of one priority
(order of arrival, yield) and one above them (preemption). In `sched` threads
are created in every order, before and after boot, and end, so a pid is used
again by another thread; `Thread::init` with no pid free changes nothing. The
composed runs create their threads in one order and then keep them
(`FixedThreads`, `Bounded`); in `mutex` one thread may end while others wait,
and threads sleep. One lock and one signal, since two mutexes meet only in the
statuses of threads. Queues with room for one message, so that full, empty and
waiting senders all occur with two messages; `MCMaxSends` bounds the messages
from each sender to each thread, two from one of them so that order shows. One
thread waits for flags, since a thread's flags are its own: it has two, which
separate any, one and all, and two events. Counters with eight values over two cells
wrap after eight items. Four list nodes give both ends and two nodes inside. A
buffer of three bytes is not a power of two. A line of six characters has room
for three arguments, one more than `MaxArgs`, some of them empty; the output
ring of five wraps within every piece that is printed, and user text of six is
cut. What `structures` combines shares no state: a behaviour uses one of them,
and so it is with the mutex and the semaphore of `sync`. Its three threads have
different priorities: one waits while one holds and the idle thread tries; lists
of several waiters are the subject of `mutex`. Two nested locks make the count
differ from a flag, and a semaphore that counts to two has a post from zero, one
above, and one at the limit. `heap` has `AlignSize` 4, as on the target, where a
block can be given larger than asked for; 52 bytes leave room for the left and
right neighbours of a freed block with a third free block between them in the
list, which takes blocks of two sizes (requests of 1 and 5 bytes); 40 is the
whole capacity. (With `AlignSize` 8 and 64 bytes both properties hold as well.)

**Fairness.** PendSV is taken when interrupts allow it; `cpu_switch_context_exit`
follows `exit()`; a thread that executes takes the next step of the kernel call
it is in. Nothing obliges a program to call, nor a device to interrupt. The
liveness properties are therefore conditional: while a thread stays the *first*
in the run queues, the call it is in ends. A less urgent thread may starve, by
design of the scheduler.

## 4. The proofs

TLAPS proves for every value of the constants:

| Module | Theorem | Property |
|---|---|---|
| `SchedProofs` | `TypeCorrect` | `TypeOK` |
| | `RunqueuesAgree` | `RunqueueConsistent` |
| | `ExecutingHeads` | `ExecutingIsHead` |
| | `SingleRunner` | `OnlyActiveRuns` |
| | `Preemption` | `PriorityHonoured` |
| | `PidsAgree` | `PidsIdentifyThreads` |
| | `RoundRobin` | `OnlyYieldReorders` |
| `MutexProofs` | `MutexTypeCorrect` | `MutexTypeOK` |
| | `OneListPerThread` | `WaitersAreBlocked` |
| | `MutualExclusion` | `OneOwner` |
| | `LockWaits` | `LockBlocks` |
| | `WaitersInOrder` | `ArrivalOrder` |
| | `LocksRefine` | `ImplementsPriorityLock` |
| `SyncProofs` | `WaitersNotAlone` | `WaitersHaveHolder` |
| | `ReentrantLockRefines` | `ImplementsReentrantLock` |
| | `FirstUnitNotLost` | `FirstUnitArrives` |
| `EventsProofs` | `FlagsTypeCorrect` | `FlagsTypeOK` |
| | `NoWakeupLost` | `BlockedUnsatisfied` |
| | `NoWakeupSpurious` | `PassedSatisfied` |
| | `FlagsKept` | `FlagsAreKept` |
| | `EventsTypeCorrect` | `EventsTypeOK` |
| | `EventsInOnePlace` | `LinkedIsSomewhere` |
| | `PostsAreNoticed` | `NoEventOverlooked` |
| `MsgProofs` | `MsgTypeCorrect` | `MsgTypeOK` |
| | `WaitForRoom` | `SendersAreBlocked` |
| | `CallsWait` | `CallsReturnDone` |
| | `RequestsAreAnswerable` | `ClientsAwaitReply` |
| | `Delivery` | `DeliveredInOrder` |
| `BufferProofs` | `PipeTypeCorrect` | `PipeTypeOK` |
| | `ReaderIsSignalled` | `ReaderNotStranded` |
| | `BytesArriveInOrder` | `BytesInOrder` |
| | `CibRefines` | `ImplementsFifo` |
| | `ConsoleRefines` | `ImplementsConsole` |
| `StructureProofs` | `ClistClosed` | `RingIsClosed` |
| | `ClistRefines` | `ImplementsDeque` |
| | `RingBufferRefines` | `ImplementsByteQueue` |
| | `NothingFromOutside` | `OnlyAddedBytes` |
| `HeapProofs` | `HeapIsConsistent` | `HeapConsistent` |
| | `HeapRefines` | `ImplementsAllocator` |

**Assumptions.** The assumptions of the modules about their constants, and in
three places the choice of a constant that the runs make as well. The theorems of
`MutexProofs` assume `~PeeksAtWaiters`: after peek() of a mutex with waiters
interrupts stay off, and the run `mutex_peek` shows that a lock() then does not
block. `BytesArriveInOrder` assumes `~CountsFirst`; `isrpipe_race` shows the
other order of pop() to lose a byte. `ReaderIsSignalled` and `PipeTypeCorrect`
hold for both orders. `RingBufferRefines` and `NothingFromOutside` assume `~RemovesToEnd`:
remove() exactly up to the last cell leaves the head outside, which the run
`ringbuffer_remove` shows. `Terminable` excludes `MUTEX_BLOCKED` and `SEND_BLOCKED`
(section 2); what stands for nothing (`NoWait`, `NoMsg`, `NoMutex`, ...) is not
a value of what it stands for. Of powers of two the proofs about counters use
only that the size divides the range.

**The scheduler.** `RunqueueConsistent` is not inductive: a step that blocks the
active thread pops the head of its queue, and keeps the queues consistent only
if that head is the active thread. So the induction runs over the conjunction of
the type invariant, the consistency of `sched`, `ExecutingIsHead`, and facts
about the core: when it has an active thread, when interrupts are off, and that
a thread that is not executing stands at a place in the kernel where it can be
resumed. `ExecutingIsHead` in turn needs the consistency (the thread `run()`
picks is the head of the queue of the lowest bit) and that the pending PendSV
intervenes before a thread that was made ready again executes. The lemmas at the
beginning say what `Append`, popping and rotating do to a sequence without
duplicates, and what `SetThreadStatus` and `Run` do to a consistent `sched`;
each action then has its step. `Preemption`, `PidsAgree` and `RoundRobin` are
inductions on top of it. This invariant (`IInv`) is the first conjunct of every
invariant below: blocking and waking a thread, for whatever it waits, are two
lemmas that every module uses (`BlockIInv`, `ReadyIInv`).

**Mutexes.** `WaitersAreBlocked` needs that lists are sorted by urgency (what
makes the head the thread to give the mutex to), and that a thread inside lock()
is either in a list or ready, never asleep or ended. With it `OneOwner` is an
induction over who owns a lock, where a waiter becomes the owner when the lock is
handed over and not when it runs. The refinement follows step by step: LockFree
acquires, LockBlock waits, an unlock releases or passes, all else stutters.

**Recursive mutex, semaphore.** Owner and count are not protected by anything
but the order of the steps. The invariant says at which steps a thread has the
inner mutex (`OwnsInner`), that at most one does, and that owner and count are
that thread's own; so what a thread reads between two steps is still true when
it acts on it. For the semaphore: while the count is above zero and its mutex is
still locked, a post is on its way to unlock it.

**Flags, events.** `BlockedUnsatisfied` and `PassedSatisfied` are proved
together: the flags a thread had when it was woken stay set until it runs,
because only it clears them. For events the invariant follows each event (in its
queue, taken, being unlinked) and each consumer: one that has seen its queue
empty, or sleeps since, has its flag set or a post about to set it.

**Messages.** A request is followed through its four places: with a sender that
waits for room, in a queue, in the Msg of a receive() that has not returned, owed
by the server. It is in one of them, once, and its client is blocked as the place
demands: that is why the one Msg that holds request and reply is never read as
the wrong one, and why a reply in a handler between queueing a request and
looking again (`Recheck`) is harmless. `Delivery` is a second induction on top:
for each pair of threads the messages from the last received to the last sent
are exactly those on their way, at positions in the order of their numbers.

**Pipe, index buffer, ring buffer.** `BufferProofs` begins with the arithmetic:
the difference of two wrapping counters, and that fewer items than cells never share a cell when the
size divides the range. For the pipe the invariant ties the mutex to the buffer:
a reader in the list, or about to lock a locked mutex, has an empty buffer
(unless it asks for no bytes), because a handler unlocks after it writes. `CibRefines` shows each call to be the
call of the bounded queue. The ring buffer has no wrapping counters but places
corrected by comparison; its invariant is that the head is a cell. Then every
call either writes cells behind the last byte, and no other (`Extended`), or
moves the head over bytes it leaves where they are (`Shortened`), and the five
places that correct an index agree.

**Circular list.** What the loops of `Clist` see is a recursive function along
the pointers. The invariant speaks of none: there is a sequence of different
nodes that the pointers spell, each node's `next` the one after it and the last
one's the first. That following the pointers then yields this sequence, and
comes back after as many hops as it has nodes, is an induction over the number
of hops, written as an induction over a subset of the numbers (`SetInduction`,
from the library's facts about well-founded relations that have no operator
parameter). Each call is then shown to leave pointers that spell what the deque
says, where they spell it from another place as well: `right_pop()` pops behind
the node before the last, which spells the same ring one node earlier (a
rotation).

**Heap.** The model of the heap has no block and no list, only cells; the
invariant (`Kept`, in `HInv`) says that there are some. There is a set of blocks
that tile the array between the first place and the guard, aligned, each a legal
size; a subset of them, the free ones, no two of them neighbours; a sequence of
these between the super block and the guard, sorted by size, that their cells of
`next` spell; and `mfree_size` is what they sum up to. A block in use has 0
there, which is why a block finds out from the cell left of it whether its
neighbour is free (`LeftFreeIs`), and every payload in use holds what was asked
for. `Shaped` allows for blocks that are neither in use nor on the list, since
calloc() and free() work on a heap that is not whole: the lemmas follow them
through taking a block off (`TakenBlock`, `Unlinked`), cutting it (`CutInTwo`),
joining neighbours (`Joined`), counting (`AddFreed`) and putting it back
(`Inserted`), and each says what it spares. That the searches end, and where
(`LastSmallerIs`, `BeforeIs`), rests on the order of the list: free() may begin
its search for the right neighbour behind the left one only because the list is
sorted. `CallocKeeps` and `FreeKeeps` put these together, one case of free() for
each of the four combinations of free neighbours. The refinement then needs that
blocks that tile do not overlap, that whole payloads are spared, and, to refuse
nothing when none is in use, that merging leaves one block of the full size.

**Command line.** The invariant is small (the line is text that fits, the head of
the ring is one of its cells); the work is in what a step computes. The walks
over characters and pieces are recursive functions, and that such a function
exists and obeys its equations is a lemma (`Recursion`, from the same induction).
Output: in whichever cell the head stands, what `send()` finds in the cells of a
piece is the piece, so a step prints its pieces, each cut to the ring
(`PrintsAre`). Parsing: code and console split a line in different ways, the one
by remembering where arguments begin and ending them at the spaces, the other by
growing a list of words. The invariant between the two walks (`Splits`) is that
after i characters the words are the parts of the line from those beginnings, and
that only the last has not met a space; a space at the end of a line begins a
word for the console that it drops and the code never begins (`WordsAre`). That
the code gives up a line just when the console does is the same fact about the
line without its last character (`FullIs`).

**Model-checked only.** Liveness (`FirstIsDispatched`, `GivenLockReturns`,
`CallReturns`, `EventIsTaken`, `ReadEnds`): fairness and ENABLED are out of the
prover's reach. Every other property of the passing runs is proved.

## 5. What is not modelled

Statistics, names, stacks and the text of statuses (data no property is about);
the C API beyond its being a wrapper; the processor layer, which is external;
`List::remove`, which nothing calls, and the calls of Tsrb that only tests use;
the formatting of numbers, and what the commands of a user do; misuse that the
assumptions above exclude. `event_wait` and `Isrpipe::read` are modelled as the
product builds them, with their loops, and not as the unit tests do.

Two threads that allocate, or that print, at the same time are not modelled:
the code shares its state without protection, and no document says that it may
be called so. `rmutex_init()` leaves its mutex locked without an owner, after
which the first lock waits for ever; no document says what it should leave.

## 6. Plan

1. Done: `Sched` with its proofs, `Mutex`, `Msg`, `Flags`, `Events`, `Isrpipe`,
   `Clist`, `Cib`, `RingBuffer`, `Rmutex`, `Sema`, `Heap`, `Cli`.
2. Done: the proofs of section 4. No safety property of a passing run is left
   without a theorem.
