------------------------------- MODULE Rmutex -------------------------------
(***************************************************************************)
(* The recursive mutex (source/core/rmutex.c): a mutex, the pid of its     *)
(* owner, and how often the owner has locked it.  Interrupts stay enabled  *)
(* between the steps of a call, of which only those on the mutex itself    *)
(* are critical sections.                                                  *)
(*                                                                         *)
(* It starts as a zeroed static object does, unlocked; rmutex_init() would *)
(* leave the mutex locked.  A thread unlocks only what it has locked.      *)
(***************************************************************************)
EXTENDS Mutex

CONSTANTS
    Inner,      \* the mutex inside; nothing is assumed of who unlocks it
    MaxNest     \* bound: how deep a thread locks

ASSUME RmutexAssumption == Inner \in Signals /\ MaxNest \in 1 .. 2 ^ 16 - 1

VARIABLES
    owner, refcount,
    trying,     \* the call a thread is in is a trylock()
    rstep,      \* what that call does next, "none" if there is none
    nest        \* history: lock() calls that returned less unlock() calls

rmutexVars == <<owner, refcount, trying, rstep, nest>>
rlockVars  == <<schedVars, mutexVars, rmutexVars>>

RmutexInit ==
    /\ owner = PidUndef /\ refcount = 0
    /\ trying = [t \in Threads |-> FALSE]
    /\ rstep = [t \in Threads |-> "none"]
    /\ nest = [t \in Threads |-> 0]

Goes(t, from, to) ==
    /\ InUser(t) /\ rstep[t] = from
    /\ rstep' = [rstep EXCEPT ![t] = to]

-----------------------------------------------------------------------------
(* _lock() *)

(* The mutex_try_lock() it begins with. *)
Enter(t, try) ==
    /\ nest[t] < MaxNest
    /\ t = Idle => try
    /\ trying' = [trying EXCEPT ![t] = try]
    /\ \/ LockFree(t, Inner) /\ Goes(t, "none", "own")
       \/ locked[Inner] /\ Goes(t, "none", "compare") /\ UNCHANGED <<schedVars, mutexVars>>
    /\ UNCHANGED <<owner, refcount, nest>>

(* Fault: the owner has unlocked, so the caller need not wait. *)
AfterCompareUnowned(t) ==
    IF owner \in {pid[t], PidUndef} THEN "own" ELSE IF trying[t] THEN "none" ELSE "lock"

AfterCompare(t) ==
    IF owner = pid[t] THEN "own" ELSE IF trying[t] THEN "none" ELSE "lock"

Compare(t) ==
    /\ Goes(t, "compare", AfterCompare(t))
    /\ UNCHANGED <<schedVars, mutexVars, owner, refcount, trying, nest>>

Wait(t) ==
    /\ Goes(t, "lock", "own")
    /\ LockFree(t, Inner) \/ LockBlock(t, Inner)
    /\ UNCHANGED <<owner, refcount, trying, nest>>

(* Fault: the first lock() leaves the owner unset. *)
OwnSkipped(t) ==
    /\ Goes(t, "own", "count")
    /\ UNCHANGED <<schedVars, mutexVars, owner, refcount, trying, nest>>

Own(t) ==
    /\ Goes(t, "own", "count")
    /\ owner' = pid[t]
    /\ UNCHANGED <<schedVars, mutexVars, refcount, trying, nest>>

CountLock(t) ==
    /\ Goes(t, "count", "none")
    /\ refcount' = (refcount + 1) % 2 ^ 16
    /\ nest' = [nest EXCEPT ![t] = @ + 1]
    /\ UNCHANGED <<schedVars, mutexVars, owner, trying>>

-----------------------------------------------------------------------------
(* rmutex_unlock() *)

CountUnlock(t) ==
    /\ nest[t] > 0
    /\ Goes(t, "none", IF refcount = 1 THEN "disown" ELSE "none")
    /\ refcount' = (refcount - 1) % 2 ^ 16
    /\ nest' = [nest EXCEPT ![t] = @ - 1]
    /\ UNCHANGED <<schedVars, mutexVars, owner, trying>>

Disown(t) ==
    /\ Goes(t, "disown", "unlock")
    /\ owner' = PidUndef
    /\ UNCHANGED <<schedVars, mutexVars, refcount, trying, nest>>

Release(t) ==
    /\ Goes(t, "unlock", "none")
    /\ Unlock(t, Inner)
    /\ UNCHANGED <<owner, refcount, trying, nest>>

-----------------------------------------------------------------------------
RmutexCall(t) ==
    \/ \E try \in BOOLEAN : Enter(t, try)
    \/ Compare(t) \/ Wait(t) \/ Own(t) \/ CountLock(t)
    \/ CountUnlock(t) \/ Disown(t) \/ Release(t)

(* A thread that ends, or is terminated, holds no recursive mutex. *)
OtherCall(t) ==
    /\ rstep[t] = "none"
    /\ SchedCall(t)
    /\ \A u \in Threads : sched'.status[u] = "STOPPED" => nest[u] = 0

RmutexNext ==
    \/ \E t \in Threads : RmutexCall(t)
    \/ /\ \/ (Boot \/ SwitchContextExit \/ PendSV) /\ UNCHANGED mutexVars
          \/ \E t \in Threads : \/ OtherCall(t)
                                \/ KernelStep(t) /\ UNCHANGED mutexVars
                                \/ LockReturn(t)
          \/ (\E u \in Threads : IsrWakeup(u)) /\ UNCHANGED mutexVars
       /\ UNCHANGED rmutexVars

RmutexSpec == MutexInitLocked(Signals \ {Inner}) /\ RmutexInit /\ [][RmutexNext]_rlockVars

-----------------------------------------------------------------------------
(* Properties.                                                             *)

(* Nobody waits in vain, and least of all the holder for itself: while     *)
(* threads wait, another one holds the mutex, or is between the mutex and  *)
(* the count, on its way in or out.                                        *)
WaitersHaveHolder ==
    waiters[Inner] # <<>> =>
        \E t \in Threads \ ToSet(waiters[Inner]) :
            nest[t] > 0 \/ rstep[t] \in {"own", "count", "disown", "unlock"}

RL == INSTANCE ReentrantLock WITH
          holder <- IF refcount = 0 THEN NoThread ELSE container[owner],
          depth <- refcount, mine <- nest

(* Owner and count, as the steps of all callers interleave on them, are a  *)
(* lock that one thread holds and may lock again.  A thread that unlocks   *)
(* what it has locked is the holder, so the vcasserts of rmutex_unlock()   *)
(* hold.                                                                   *)
ImplementsReentrantLock == RL!Spec
=============================================================================
