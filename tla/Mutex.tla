------------------------------- MODULE Mutex -------------------------------
(***************************************************************************)
(* Mutexes (source/core/mutex.cpp) on top of the scheduler.                *)
(*                                                                         *)
(* queue.next of a mutex is nullptr (unlocked), MUTEX_LOCKED (locked and   *)
(* no waiter) or the first waiter; here locked[m] and waiters[m].  A       *)
(* waiter is linked through the same node as in a run queue.  unlock()     *)
(* hands the mutex over to the first waiter without unlocking it.          *)
(*                                                                         *)
(* The program uses a mutex as a lock, which only its holder unlocks, or   *)
(* as a signal, which a thread waits for with lock() and anyone, interrupt *)
(* handlers included, gives with unlock().                                 *)
(***************************************************************************)
EXTENDS Sched

CONSTANTS
    Locks,      \* mutexes used as locks
    Signals,    \* mutexes used as signals, initially locked
    NoMutex,
    PeeksAtWaiters  \* whether the program calls peek() of mutexes with waiters

Mutexes == Locks \cup Signals

ASSUME MutexAssumption ==
    /\ Locks \cap Signals = {}
    /\ NoMutex \notin Mutexes
    /\ PeeksAtWaiters \in BOOLEAN
    /\ "MUTEX_BLOCKED" \notin Terminable

VARIABLES
    locked,     \* queue.next is not nullptr
    waiters,    \* the list behind queue.next
    want,       \* the mutex whose lock() has blocked a thread and not returned
    held        \* history: the threads whose lock() returned, by lock

mutexVars == <<locked, waiters, want, held>>
vars == <<schedVars, mutexVars>>

(* mutex_init() makes the mutexes of a set locked, mutex_init_unlocked()   *)
(* makes the others.                                                       *)
MutexInitLocked(ms) ==
    /\ Init
    /\ locked = [m \in Mutexes |-> m \in ms]
    /\ waiters = [m \in Mutexes |-> <<>>]
    /\ want = [t \in Threads |-> NoMutex]
    /\ held = [m \in Mutexes |-> {}]

MutexInit == MutexInitLocked(Signals)

-----------------------------------------------------------------------------
(* t is in user code and not inside a lock() that has yet to return. *)
InUser(t) == Executing(t) /\ pc[t] = "user" /\ want[t] = NoMutex

Holds(t) == \E m \in Locks : t \in held[m]

Acquired(t, m) == held' = IF m \in Locks
                          THEN [held EXCEPT ![m] = @ \cup {t}] ELSE held

(* lock() or try_lock() of a mutex that is free.  A try_lock() of one that *)
(* is not changes nothing.                                                 *)
LockFree(t, m) ==
    /\ InUser(t)
    /\ ~locked[m]
    /\ locked' = [locked EXCEPT ![m] = TRUE]
    /\ Acquired(t, m)
    /\ UNCHANGED <<schedVars, waiters, want>>

(* lock() of a mutex that is locked: the code does not ask by whom, so a   *)
(* thread that locks a lock twice waits for itself.                        *)
LockBlock(t, m) ==
    /\ InUser(t) /\ t # Idle
    /\ locked[m]
    /\ sched' = SetThreadStatus(sched, t, "MUTEX_BLOCKED")
    /\ waiters' = [waiters EXCEPT ![m] = AddToList(@, t)]
    /\ want' = [want EXCEPT ![t] = m]
    /\ pc' = [pc EXCEPT ![t] = "yield"]
    /\ UNCHANGED <<active, cpuVars, pidVars, arg, deferred, locked, held>>

(* The blocked lock() returns when its thread executes again. *)
LockReturn(t) ==
    /\ Executing(t) /\ pc[t] = "user" /\ want[t] # NoMutex
    /\ Acquired(t, want[t])
    /\ want' = [want EXCEPT ![t] = NoMutex]
    /\ UNCHANGED <<schedVars, locked, waiters>>

MayUnlock(t, m) == m \in Locks => t \in held[m]

(* Fault: unlock the mutex although it goes to the first waiter. *)
GiveAndUnlock(m) ==
    /\ locked' = [locked EXCEPT ![m] = FALSE]
    /\ waiters' = [waiters EXCEPT ![m] = Tail(@)]
    /\ sched' = SetThreadStatus(sched, Head(waiters[m]), "PENDING")

(* Hand m over to its first waiter. *)
Give(m) ==
    /\ waiters' = [waiters EXCEPT ![m] = Tail(@)]
    /\ sched' = SetThreadStatus(sched, Head(waiters[m]), "PENDING")
    /\ UNCHANGED locked

Released(t, m) == held' = [held EXCEPT ![m] = @ \ {t}]

(* unlock() of an unlocked mutex changes nothing. *)
UnlockFree(t, m) ==
    /\ InUser(t) /\ MayUnlock(t, m)
    /\ locked[m] /\ waiters[m] = <<>>
    /\ locked' = [locked EXCEPT ![m] = FALSE]
    /\ Released(t, m)
    /\ UNCHANGED <<schedVars, waiters, want>>

UnlockNothing(t, m) ==
    /\ InUser(t) /\ MayUnlock(t, m)
    /\ ~locked[m]
    /\ UNCHANGED <<schedVars, mutexVars>>

UnlockGive(t, m) ==
    /\ InUser(t) /\ MayUnlock(t, m)
    /\ waiters[m] # <<>>
    /\ Give(m)
    /\ Released(t, m)
    /\ pc' = [pc EXCEPT ![t] = "switch"]
    /\ arg' = [arg EXCEPT ![t] = Priority[Head(waiters[m])]]
    /\ UNCHANGED <<active, cpuVars, pidVars, deferred, want>>

Unlock(t, m) == UnlockFree(t, m) \/ UnlockNothing(t, m) \/ UnlockGive(t, m)

(* Interrupts are restored before sleep() disables them again.             *)
UnlockAndSleep(t, m) ==
    /\ InUser(t) /\ MayUnlock(t, m) /\ t # Idle
    /\ IF waiters[m] = <<>>
       THEN locked' = [locked EXCEPT ![m] = FALSE] /\ UNCHANGED <<sched, waiters>>
       ELSE Give(m)
    /\ Released(t, m)
    /\ pc' = [pc EXCEPT ![t] = "sleep"]
    /\ UNCHANGED <<active, cpuVars, pidVars, arg, deferred, want>>

(* peek() of a mutex with a waiter returns without restoring interrupts.   *)
Peek(t, m) ==
    /\ InUser(t)
    /\ waiters[m] = <<>> \/ PeeksAtWaiters
    /\ irqOff' = (irqOff \/ waiters[m] # <<>>)
    /\ UNCHANGED <<sched, active, request, pendsv, booted, pidVars, codeVars,
                   deferred, mutexVars>>

(* unlock() in an interrupt handler. *)
IsrUnlockFree(m) ==
    /\ IsrEnabled
    /\ locked[m] /\ waiters[m] = <<>>
    /\ locked' = [locked EXCEPT ![m] = FALSE]
    /\ UNCHANGED <<schedVars, waiters, want, held>>

IsrUnlockGive(m) ==
    /\ IsrEnabled
    /\ waiters[m] # <<>>
    /\ Give(m)
    /\ request' = (request \/ NeedsSwitch(sched', Priority[Head(waiters[m])]))
    /\ pendsv' = EndOfIsr(request')
    /\ UNCHANGED <<active, irqOff, booted, pidVars, codeVars, deferred, want, held>>

IsrUnlockNothing(m) == IsrEnabled /\ ~locked[m] /\ UNCHANGED <<schedVars, mutexVars>>

IsrUnlock(m) == IsrUnlockFree(m) \/ IsrUnlockNothing(m) \/ IsrUnlockGive(m)

-----------------------------------------------------------------------------
(* A thread that ends, or is terminated, holds no lock. *)
SchedCall(t) ==
    /\ want[t] = NoMutex
    /\ UserCall(t)
    /\ \A u \in Threads : sched'.status[u] = "STOPPED" => ~Holds(u)
    /\ UNCHANGED mutexVars

MutexCall(t) ==
    \/ \E m \in Mutexes :
         \/ LockFree(t, m) \/ LockBlock(t, m)
         \/ Unlock(t, m) \/ UnlockAndSleep(t, m)
         \/ Peek(t, m)
    \/ LockReturn(t)

MutexIsr == \E m \in Signals : IsrUnlock(m)

MutexNext ==
    \/ (Boot \/ SwitchContextExit \/ PendSV) /\ UNCHANGED mutexVars
    \/ \E t \in Threads : SchedCall(t) \/ MutexCall(t)
    \/ \E t \in Threads : KernelStep(t) /\ UNCHANGED mutexVars
    \/ (\E u \in Threads : IsrWakeup(u)) /\ UNCHANGED mutexVars
    \/ MutexIsr

MutexSpec == MutexInit /\ [][MutexNext]_vars

(* As for the scheduler: exceptions are taken and calls return. *)
MutexFairness ==
    /\ WF_vars(PendSV /\ UNCHANGED mutexVars)
    /\ WF_vars(booted /\ SwitchContextExit /\ UNCHANGED mutexVars)
    /\ \A t \in Threads :
         /\ WF_vars(KernelStep(t) /\ UNCHANGED mutexVars)
         /\ WF_vars(pc[t] = "sleep" /\ SchedCall(t))
         /\ WF_vars(LockReturn(t))

MutexFairSpec == MutexSpec /\ MutexFairness

-----------------------------------------------------------------------------
(* Properties.                                                             *)

(* Every variable of the mutexes keeps its type. *)
MutexTypeOK ==
    /\ TypeOK
    /\ locked \in [Mutexes -> BOOLEAN]
    /\ waiters \in [Mutexes -> Seq(Threads)]
    /\ want \in [Threads -> Mutexes \cup {NoMutex}]
    /\ held \in [Mutexes -> SUBSET Threads]

(* A thread has one list node for its run queue and for the mutex it waits *)
(* for.  It is in the list of a mutex exactly when its status says that it *)
(* waits and it is inside lock() of that mutex; it is in one list once;    *)
(* and an unlocked mutex has no waiter.  With RunqueueConsistent: no node  *)
(* is ever in two lists.                                                   *)
WaitersAreBlocked ==
    /\ \A m \in Mutexes : IsInjective(waiters[m])
    /\ \A m \in Mutexes, t \in Threads :
         t \in ToSet(waiters[m]) <=>
             (sched.status[t] = "MUTEX_BLOCKED" /\ want[t] = m)
    /\ \A m \in Mutexes : waiters[m] # <<>> => locked[m]

(* Waiters of one priority are served in the order they came: a thread is  *)
(* ahead of one that is no less urgent only if it came first.              *)
ArrivalOrder ==
    [][\A m \in Mutexes, u, v \in Threads :
         /\ u \in ToSet(waiters[m])
         /\ Priority[u] <= Priority[v]
         /\ Before(waiters[m], v, u)'
         => Before(waiters[m], v, u)]_vars

(* The thread a lock belongs to: its lock() has returned, or has been      *)
(* given the lock and will return when the thread executes.                *)
Owners(m) == held[m] \cup {t \in Threads : want[t] = m /\ t \notin ToSet(waiters[m])}

(* Mutual exclusion, across the handover: a lock has at most one owner,    *)
(* and it is locked exactly when it has one.                               *)
OneOwner ==
    \A m \in Locks :
        /\ Cardinality(Owners(m)) <= 1
        /\ locked[m] <=> Owners(m) # {}

(* test_mutex.cpp says of lock() of a locked mutex "this will blocked      *)
(* thread1": a thread that waits for a mutex does not continue before the  *)
(* mutex is given to it.                                                   *)
LockBlocks ==
    \A t \in Threads :
        Executing(t) /\ pc[t] = "user" /\ want[t] # NoMutex =>
            t \notin ToSet(waiters[want[t]])

AnyOf(S) == IF S = {} THEN NoThread ELSE CHOOSE t \in S : TRUE

OwnerOf(m) == AnyOf(Owners(m))

PL == INSTANCE PriorityLock WITH
          Free <- NoThread,
          owner <- [l \in Locks |-> OwnerOf(l)],
          waiting <- [l \in Locks |-> ToSet(waiters[l])]

(* The locks, as lock(), unlock() and unlock_and_sleep() treat them, are   *)
(* locks that one thread owns at a time and that a release passes straight *)
(* to a most urgent waiter.                                                *)
ImplementsPriorityLock == PL!Spec

(* A lock() whose mutex has been given to the thread returns, once the     *)
(* thread is the first in the run queues and stays so.                     *)
GivenLockReturns ==
    \A t \in Threads :
        First(t) /\ want[t] # NoMutex ~> (want[t] = NoMutex \/ ~First(t))
=============================================================================
