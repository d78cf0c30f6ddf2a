----------------------------- MODULE SyncProofs -----------------------------
(***************************************************************************)
(* Theorems about the recursive mutex, for any number of threads and any   *)
(* depth below 2^16, and about the semaphore, for any limit of the count.  *)
(***************************************************************************)
EXTENDS Rmutex, Sema, MutexProofs

-----------------------------------------------------------------------------
(* The recursive mutex.  The inductive invariant says at which steps of    *)
(* its calls a thread has the inner mutex, at which of them it is the      *)
(* owner on record, and that the count is that thread's own.               *)

RSteps == {"none", "compare", "lock", "own", "count", "disown", "unlock"}

(* t has the inner mutex. *)
OwnsInner(t) ==
    \/ nest[t] > 0
    \/ rstep[t] \in {"count", "disown", "unlock"}
    \/ rstep[t] = "own" /\ t \notin ToSet(waiters[Inner])

(* owner is the pid of t. *)
OnRecord(t) == nest[t] > 0 \/ rstep[t] \in {"count", "disown"}

RTypeOK ==
    /\ owner \in Pids \cup {PidUndef}
    /\ refcount \in Nat
    /\ rstep \in [Threads -> RSteps]
    /\ nest \in [Threads -> 0 .. MaxNest]

(* A thread inside a call is ready or waits for the inner mutex, and one   *)
(* that holds the recursive mutex exists.                                  *)
CallersLive ==
    \A t \in Threads :
        /\ rstep[t] # "none" => sched.status[t] \in OnRunqueue \cup {"MUTEX_BLOCKED"}
        /\ nest[t] > 0 => sched.status[t] # "STOPPED"
        /\ want[t] # NoMutex => want[t] = Inner /\ rstep[t] = "own" /\ nest[t] = 0

InnerOwned ==
    /\ \A t, u \in Threads : OwnsInner(t) /\ OwnsInner(u) => t = u
    /\ locked[Inner] <=> \E t \in Threads : OwnsInner(t)

OwnerRecorded ==
    /\ \A t \in Threads : OnRecord(t) => owner = pid[t]
    /\ owner # PidUndef => \E t \in Threads : OnRecord(t)

CountRight ==
    /\ \A t \in Threads : nest[t] > 0 => refcount = nest[t]
    /\ (\A t \in Threads : nest[t] = 0) => refcount = 0
    /\ \A t \in Threads :
         /\ rstep[t] \in {"compare", "lock", "own", "count"} => nest[t] < MaxNest
         /\ rstep[t] \in {"lock", "disown", "unlock"} => nest[t] = 0

RInv == RTypeOK /\ CallersLive /\ InnerOwned /\ OwnerRecorded /\ CountRight

LEMMA InitRInv ==
    ASSUME MutexInitLocked(Signals \ {Inner}), RmutexInit
    PROVE  MInv /\ RInv
<1>1. /\ MInv
      /\ waiters = [m \in Mutexes |-> <<>>] /\ want = [t \in Threads |-> NoMutex]
      /\ ~locked[Inner] /\ Inner \in Mutexes
  BY InitMInv, RmutexAssumption DEF MutexInitLocked, Mutexes
<1>2. MaxNest \in Nat /\ MaxNest >= 1
  BY RmutexAssumption
<1>3. RTypeOK /\ CallersLive /\ OwnerRecorded
  BY <1>1, <1>2 DEF RmutexInit, RTypeOK, RSteps, CallersLive, OwnerRecorded, OnRecord
<1>4. InnerOwned
  BY <1>1 DEF RmutexInit, InnerOwned, OwnsInner
<1>5. CountRight
  BY <1>2 DEF RmutexInit, CountRight
<1> QED BY <1>1, <1>3, <1>4, <1>5 DEF RInv

(* What holds of the thread that takes a step of a call. *)
LEMMA RCaller ==
    ASSUME MInv, RInv, NEW t \in Threads, InUser(t)
    PROVE  /\ Exists(t) /\ pid[t] # PidUndef /\ container[pid[t]] = t
           /\ sched.status[t] \in OnRunqueue /\ want[t] = NoMutex
           /\ t \notin ToSet(waiters[Inner]) /\ Inner \in Mutexes \ Locks
           /\ pid[t] \in Pids
<1>1. Executing(t) /\ pc[t] = "user" /\ want[t] = NoMutex
  BY DEF InUser
<1>2. Exists(t) /\ sched.status[t] \in OnRunqueue
  BY <1>1, ExecutingExists DEF MInv
<1>3. Inner \in Mutexes \ Locks
  BY RmutexAssumption, MutexAssumption DEF Mutexes
<1>4. t \notin ToSet(waiters[Inner])
  BY <1>3, CallerRuns
<1>5. pid[t] # PidUndef /\ container[pid[t]] = t /\ pid[t] \in Pids
  BY <1>2 DEF MInv, IInv, PidsIdentifyThreads, TypeOK
<1> QED BY <1>1, <1>2, <1>3, <1>4, <1>5

(* Existing threads are told apart by their pids. *)
LEMMA RPids ==
    ASSUME MInv, RInv, NEW t \in Threads, Exists(t), NEW u \in Threads, OnRecord(u),
           pid[t] = pid[u]
    PROVE  t = u
<1>1. Exists(u)
  BY DEF OnRecord, RInv, CallersLive, MInv, IInv, PidsIdentifyThreads, OnRunqueue
<1> QED BY <1>1 DEF MInv, IInv, PidsIdentifyThreads

-----------------------------------------------------------------------------
(* One lemma per kind of step.                                             *)

(* Steps of the rest of the kernel. *)
LEMMA OtherRInv ==
    ASSUME MInv, RInv, UNCHANGED <<mutexVars, rmutexVars>>,
           SystemStep \/ (\E t \in Threads : OtherCall(t)) \/ UNCHANGED schedVars
    PROVE  /\ MInv' /\ RInv'
           /\ \A u \in Threads : OnRecord(u) => pid'[u] = pid[u]
<1>1. MInv'
  BY SchedStepMInv DEF OtherCall
<1>2. UNCHANGED <<locked, waiters, want, owner, refcount, rstep, nest>>
  BY DEF mutexVars, rmutexVars
<1>3. ASSUME NEW u \in Threads
      PROVE  /\ rstep[u] # "none" => sched'.status[u] \in OnRunqueue \cup {"MUTEX_BLOCKED"}
             /\ nest[u] > 0 => sched'.status[u] # "STOPPED"
  <2>1. /\ rstep[u] # "none" => sched.status[u] \in OnRunqueue \cup {"MUTEX_BLOCKED"}
        /\ nest[u] > 0 => sched.status[u] # "STOPPED"
    BY DEF RInv, CallersLive
  <2>2. CASE SystemStep \/ UNCHANGED schedVars
    <3>1. Moved(u)
      BY <2>2, SystemMoves, SchedUnchanged DEF MInv
    <3> QED BY <2>1, <3>1 DEF Moved, OnRunqueue
  <2>3. ASSUME NEW t \in Threads, OtherCall(t)
        PROVE  /\ rstep[u] # "none" => sched'.status[u] \in OnRunqueue \cup {"MUTEX_BLOCKED"}
               /\ nest[u] > 0 => sched'.status[u] # "STOPPED"
    <3>1. /\ rstep[t] = "none" /\ UserCall(t)
          /\ sched'.status[u] = "STOPPED" => nest[u] = 0
      BY <2>3 DEF OtherCall, SchedCall
    <3>2. \/ Moved(u)
          \/ u = t /\ sched'.status[u] \in {"SLEEPING", "STOPPED"}
          \/ sched.status[u] \in Terminable /\ sched'.status[u] = "STOPPED"
      BY <3>1, UserCallMoves DEF MInv
    <3>3. Terminable \subseteq OffRunqueue /\ "MUTEX_BLOCKED" \notin Terminable
      BY SchedAssumption, MutexAssumption
    <3>4. nest[u] \in Nat
      BY DEF RInv, RTypeOK
    <3> QED BY <2>1, <3>1, <3>2, <3>3, <3>4 DEF Moved, OnRunqueue, OffRunqueue
  <2> QED BY <2>2, <2>3
<1>4. ASSUME NEW u \in Threads, OnRecord(u) PROVE pid'[u] = pid[u]
  <2>1. Exists(u)
    BY <1>4 DEF OnRecord, RInv, CallersLive, MInv, IInv, PidsIdentifyThreads, OnRunqueue
  <2> QED BY <2>1, PidStays DEF OtherCall, SchedCall, MInv
<1>5. RTypeOK' /\ CallersLive'
  BY <1>2, <1>3 DEF RInv, RTypeOK, CallersLive
<1>6. InnerOwned' /\ CountRight'
  BY <1>2 DEF RInv, InnerOwned, OwnsInner, CountRight
<1>7. OwnerRecorded'
  BY <1>2, <1>4 DEF RInv, OwnerRecorded, OnRecord
<1> QED BY <1>1, <1>4, <1>5, <1>6, <1>7 DEF RInv

(* The blocked lock() of the inner mutex returns. *)
LEMMA ReturnRInv ==
    ASSUME MInv, RInv, NEW t \in Threads, LockReturn(t), UNCHANGED rmutexVars
    PROVE  MInv' /\ RInv' /\ UNCHANGED pid
<1>1. MInv'
  BY LockReturnMInv
<1>2. /\ UNCHANGED <<sched, pid, locked, waiters, owner, refcount, rstep, nest>>
      /\ want' = [want EXCEPT ![t] = NoMutex]
  BY DEF LockReturn, schedVars, rmutexVars
<1>3. want \in [Threads -> Mutexes \cup {NoMutex}]
  BY DEF MInv, ListsInv, MutexTypeOK
<1>4. RTypeOK' /\ CallersLive'
  BY <1>2, <1>3 DEF RInv, RTypeOK, CallersLive
<1>5. InnerOwned' /\ CountRight' /\ OwnerRecorded'
  BY <1>2 DEF RInv, InnerOwned, OwnsInner, CountRight, OwnerRecorded, OnRecord
<1> QED BY <1>1, <1>2, <1>4, <1>5 DEF RInv

EnterLocked(t) ==
    /\ nest[t] < MaxNest
    /\ Goes(t, "none", "compare") /\ UNCHANGED <<schedVars, mutexVars>>
    /\ UNCHANGED <<owner, refcount, nest>>

LEMMA RTypes ==
    ASSUME RInv
    PROVE  /\ refcount \in Nat /\ rstep \in [Threads -> RSteps] /\ MaxNest \in Nat
           /\ nest \in [Threads -> 0 .. MaxNest] /\ owner \in Pids \cup {PidUndef}
           /\ MaxNest < 2 ^ 16 /\ 2 ^ 16 = 65536 /\ PidUndef \notin Pids
           /\ \A u \in Threads : nest[u] \in Nat
BY RmutexAssumption DEF RInv, RTypeOK, Pids, PidUndef

(* The try_lock() of a lock() that finds the inner mutex locked. *)
LEMMA EnterRInv ==
    ASSUME MInv, RInv, NEW t \in Threads, EnterLocked(t)
    PROVE  MInv' /\ RInv' /\ UNCHANGED pid
<1>1. /\ InUser(t) /\ Exists(t) /\ pid[t] # PidUndef /\ container[pid[t]] = t
      /\ sched.status[t] \in OnRunqueue /\ want[t] = NoMutex
      /\ t \notin ToSet(waiters[Inner]) /\ pid[t] \in Pids
  BY RCaller DEF EnterLocked, Goes
<1>2. /\ MInv' /\ UNCHANGED <<sched, pid, locked, waiters, want>>
  BY SchedStepMInv DEF EnterLocked, schedVars, mutexVars
<1>3. /\ rstep[t] = "none" /\ rstep' = [rstep EXCEPT ![t] = "compare"]
      /\ nest[t] < MaxNest /\ UNCHANGED <<owner, refcount, nest>>
  BY DEF EnterLocked, Goes
<1>4. RTypeOK' /\ CallersLive'
  BY <1>1, <1>2, <1>3, RTypes DEF RInv, RTypeOK, CallersLive, RSteps
<1>5. InnerOwned' /\ OwnerRecorded'
  BY <1>1, <1>2, <1>3, RTypes DEF RInv, InnerOwned, OwnsInner, OwnerRecorded, OnRecord
<1>6. CountRight'
  BY <1>1, <1>2, <1>3, RTypes DEF RInv, CountRight
<1> QED BY <1>2, <1>4, <1>5, <1>6 DEF RInv

(* The comparison of the owner with the caller tells whether it holds the lock. *)
LEMMA CompareRInv ==
    ASSUME MInv, RInv, NEW t \in Threads, Compare(t)
    PROVE  MInv' /\ RInv' /\ UNCHANGED pid
<1>1. /\ InUser(t) /\ Exists(t) /\ pid[t] # PidUndef /\ container[pid[t]] = t
      /\ sched.status[t] \in OnRunqueue /\ want[t] = NoMutex
      /\ t \notin ToSet(waiters[Inner]) /\ pid[t] \in Pids
  BY RCaller DEF Compare, Goes
<1>2. /\ MInv' /\ UNCHANGED <<sched, pid, locked, waiters, want>>
  BY SchedStepMInv DEF Compare, schedVars, mutexVars
<1>3. /\ rstep[t] = "compare" /\ rstep' = [rstep EXCEPT ![t] = AfterCompare(t)]
      /\ UNCHANGED <<owner, refcount, nest>>
  BY DEF Compare, Goes
<1>4. owner = pid[t] <=> nest[t] > 0
  <2>1. ASSUME owner = pid[t] PROVE nest[t] > 0
    <3>1. PICK u \in Threads : OnRecord(u)
      BY <1>1, <2>1 DEF RInv, OwnerRecorded
    <3>2. t = u
      BY <1>1, <2>1, <3>1, RPids DEF RInv, OwnerRecorded
    <3> QED BY <1>3, <3>1, <3>2 DEF OnRecord
  <2> QED BY <2>1 DEF RInv, OwnerRecorded, OnRecord
<1>5. /\ AfterCompare(t) \in {"own", "none", "lock"}
      /\ AfterCompare(t) = "own" <=> nest[t] > 0
  BY <1>4 DEF AfterCompare
<1>6. \A u \in Threads : rstep'[u] = IF u = t THEN AfterCompare(t) ELSE rstep[u]
  BY <1>3, RTypes
<1>7. RTypeOK' /\ CallersLive'
  BY <1>1, <1>2, <1>3, <1>5, <1>6, RTypes DEF RInv, RTypeOK, CallersLive, RSteps
<1>8. InnerOwned' /\ OwnerRecorded'
  <2>1. \A u \in Threads : (OwnsInner(u)' <=> OwnsInner(u)) /\ (OnRecord(u)' <=> OnRecord(u))
    BY <1>1, <1>2, <1>3, <1>5, <1>6 DEF OwnsInner, OnRecord
  <2> QED BY <1>2, <1>3, <2>1 DEF RInv, InnerOwned, OwnerRecorded
<1>9. CountRight'
  BY <1>3, <1>5, <1>6, RTypes DEF RInv, CountRight
<1> QED BY <1>2, <1>7, <1>8, <1>9 DEF RInv

(* The thread that has the inner mutex records itself. *)
LEMMA OwnRInv ==
    ASSUME MInv, RInv, NEW t \in Threads, Own(t)
    PROVE  /\ MInv' /\ RInv' /\ UNCHANGED pid
           /\ refcount = nest[t]
           /\ nest[t] = 0 \/ owner' = owner
<1>1. /\ InUser(t) /\ Exists(t) /\ pid[t] # PidUndef /\ container[pid[t]] = t
      /\ sched.status[t] \in OnRunqueue /\ want[t] = NoMutex
      /\ t \notin ToSet(waiters[Inner]) /\ pid[t] \in Pids
  BY RCaller DEF Own, Goes
<1>2. /\ MInv' /\ UNCHANGED <<sched, pid, locked, waiters, want>>
  BY SchedStepMInv DEF Own, schedVars, mutexVars
<1>3. /\ rstep[t] = "own" /\ rstep' = [rstep EXCEPT ![t] = "count"]
      /\ owner' = pid[t] /\ UNCHANGED <<refcount, nest>>
  BY DEF Own, Goes
<1>4. OwnsInner(t) /\ \A u \in Threads : OwnsInner(u) => u = t
  BY <1>1, <1>3 DEF OwnsInner, RInv, InnerOwned
<1>5. \A u \in Threads : rstep'[u] = IF u = t THEN "count" ELSE rstep[u]
  BY <1>3, RTypes
<1>6. RTypeOK' /\ CallersLive'
  BY <1>1, <1>2, <1>3, <1>5, RTypes DEF RInv, RTypeOK, CallersLive, RSteps
<1>7. \A u \in Threads : (OwnsInner(u)' <=> OwnsInner(u)) /\ (OnRecord(u)' <=> u = t)
  BY <1>2, <1>3, <1>4, <1>5 DEF OwnsInner, OnRecord
<1>8. InnerOwned' /\ OwnerRecorded'
  BY <1>2, <1>3, <1>7 DEF RInv, InnerOwned, OwnerRecorded
<1>9. CountRight'
  BY <1>3, <1>5, RTypes DEF RInv, CountRight
<1>10. nest[t] = 0 \/ owner' = owner
  BY <1>3, RTypes DEF RInv, OwnerRecorded, OnRecord
<1>11. refcount = nest[t]
  <2>1. \A u \in Threads : u # t => nest[u] = 0
    BY <1>4, RTypes DEF OwnsInner
  <2> QED BY <2>1, RTypes DEF RInv, CountRight
<1> QED BY <1>2, <1>6, <1>8, <1>9, <1>10, <1>11 DEF RInv

(* It counts, and there is no overflow. *)
LEMMA CountLockRInv ==
    ASSUME MInv, RInv, NEW t \in Threads, CountLock(t)
    PROVE  /\ MInv' /\ RInv' /\ UNCHANGED pid
           /\ owner = pid[t] /\ container[owner] = t
           /\ refcount = nest[t] /\ refcount' = refcount + 1
<1>1. /\ InUser(t) /\ Exists(t) /\ pid[t] # PidUndef /\ container[pid[t]] = t
      /\ sched.status[t] \in OnRunqueue /\ want[t] = NoMutex
      /\ t \notin ToSet(waiters[Inner]) /\ pid[t] \in Pids
  BY RCaller DEF CountLock, Goes
<1>2. /\ MInv' /\ UNCHANGED <<sched, pid, locked, waiters, want>>
  BY SchedStepMInv DEF CountLock, schedVars, mutexVars
<1>3. /\ rstep[t] = "count" /\ rstep' = [rstep EXCEPT ![t] = "none"]
      /\ refcount' = (refcount + 1) % 2 ^ 16
      /\ nest' = [nest EXCEPT ![t] = @ + 1] /\ UNCHANGED owner
  BY DEF CountLock, Goes
<1>4. OwnsInner(t) /\ \A u \in Threads : OwnsInner(u) => u = t
  BY <1>1, <1>3 DEF OwnsInner, RInv, InnerOwned
<1>5. \A u \in Threads : u # t => nest[u] = 0 /\ rstep[u] \notin {"count", "disown"}
  BY <1>4, RTypes DEF OwnsInner
<1>6. refcount = nest[t] /\ nest[t] < MaxNest
  BY <1>3, <1>5, RTypes DEF RInv, CountRight
<1>7. refcount' = refcount + 1
  BY <1>3, <1>6, RTypes
<1>8. \A u \in Threads : /\ rstep'[u] = IF u = t THEN "none" ELSE rstep[u]
                        /\ nest'[u] = IF u = t THEN nest[t] + 1 ELSE nest[u]
  BY <1>3, RTypes
<1>9. RTypeOK'
  BY <1>3, <1>6, <1>7, <1>8, RTypes DEF RTypeOK, RSteps
<1>10. CallersLive'
  BY <1>1, <1>2, <1>5, <1>8, RTypes DEF RInv, CallersLive, OnRunqueue
<1>11. \A u \in Threads : (OwnsInner(u)' <=> OwnsInner(u)) /\ (OnRecord(u)' <=> OnRecord(u))
  BY <1>2, <1>3, <1>4, <1>8, RTypes DEF OwnsInner, OnRecord
<1>12. InnerOwned' /\ OwnerRecorded'
  BY <1>2, <1>3, <1>11 DEF RInv, InnerOwned, OwnerRecorded
<1>13. CountRight'
  BY <1>3, <1>5, <1>6, <1>7, <1>8, RTypes DEF RInv, CountRight
<1>14. owner = pid[t]
  BY <1>3 DEF RInv, OwnerRecorded, OnRecord
<1> QED BY <1>1, <1>2, <1>6, <1>7, <1>9, <1>10, <1>12, <1>13, <1>14 DEF RInv

(* A thread that unlocks what it has locked is on record. *)
LEMMA CountUnlockRInv ==
    ASSUME MInv, RInv, NEW t \in Threads, CountUnlock(t)
    PROVE  /\ MInv' /\ RInv' /\ UNCHANGED pid
           /\ owner = pid[t] /\ container[owner] = t
           /\ refcount = nest[t] /\ refcount' = refcount - 1
<1>1. /\ InUser(t) /\ Exists(t) /\ pid[t] # PidUndef /\ container[pid[t]] = t
      /\ sched.status[t] \in OnRunqueue /\ want[t] = NoMutex
      /\ t \notin ToSet(waiters[Inner]) /\ pid[t] \in Pids
  BY RCaller DEF CountUnlock, Goes
<1>2. /\ MInv' /\ UNCHANGED <<sched, pid, locked, waiters, want>>
  BY SchedStepMInv DEF CountUnlock, schedVars, mutexVars
<1>3. /\ rstep[t] = "none" /\ nest[t] > 0
      /\ rstep' = [rstep EXCEPT ![t] = IF refcount = 1 THEN "disown" ELSE "none"]
      /\ refcount' = (refcount - 1) % 2 ^ 16
      /\ nest' = [nest EXCEPT ![t] = @ - 1] /\ UNCHANGED owner
  BY DEF CountUnlock, Goes
<1>4. OwnsInner(t) /\ \A u \in Threads : OwnsInner(u) => u = t
  BY <1>1, <1>3 DEF OwnsInner, RInv, InnerOwned
<1>5. \A u \in Threads : u # t => nest[u] = 0 /\ rstep[u] \notin {"count", "disown"}
  BY <1>4, RTypes DEF OwnsInner
<1>6. refcount = nest[t]
  BY <1>3 DEF RInv, CountRight
<1>7. refcount' = refcount - 1
  BY <1>3, <1>6, RTypes
<1>8. \A u \in Threads :
         /\ rstep'[u] = IF u = t THEN (IF refcount = 1 THEN "disown" ELSE "none")
                        ELSE rstep[u]
         /\ nest'[u] = IF u = t THEN nest[t] - 1 ELSE nest[u]
  BY <1>3, RTypes
<1>9. RTypeOK'
  BY <1>3, <1>6, <1>7, <1>8, RTypes DEF RTypeOK, RSteps
<1>10. CallersLive'
  BY <1>1, <1>2, <1>5, <1>8, RTypes DEF RInv, CallersLive, OnRunqueue
<1>11. \A u \in Threads : (OwnsInner(u)' <=> OwnsInner(u)) /\ (OnRecord(u)' <=> OnRecord(u))
  BY <1>2, <1>3, <1>4, <1>6, <1>8, RTypes DEF OwnsInner, OnRecord
<1>12. InnerOwned' /\ OwnerRecorded'
  BY <1>2, <1>3, <1>11 DEF RInv, InnerOwned, OwnerRecorded
<1>13. CountRight'
  <2>1. \A u \in Threads : nest'[u] > 0 => refcount' = nest'[u]
    BY <1>5, <1>6, <1>7, <1>8
  <2>2. (\A u \in Threads : nest'[u] = 0) => refcount' = 0
    BY <1>6, <1>7, <1>8
  <2>3. \A u \in Threads :
           /\ rstep'[u] \in {"compare", "lock", "own", "count"} => nest'[u] < MaxNest
           /\ rstep'[u] \in {"lock", "disown", "unlock"} => nest'[u] = 0
    BY <1>6, <1>8, RTypes DEF RInv, CountRight
  <2> QED BY <2>1, <2>2, <2>3 DEF CountRight
<1>14. owner = pid[t]
  BY <1>3 DEF RInv, OwnerRecorded, OnRecord
<1> QED BY <1>1, <1>2, <1>6, <1>7, <1>9, <1>10, <1>12, <1>13, <1>14 DEF RInv

(* The thread that has unlocked for the last time strikes itself off. *)
LEMMA DisownRInv ==
    ASSUME MInv, RInv, NEW t \in Threads, Disown(t)
    PROVE  MInv' /\ RInv' /\ UNCHANGED pid /\ refcount = 0
<1>1. /\ InUser(t) /\ Exists(t) /\ pid[t] # PidUndef /\ container[pid[t]] = t
      /\ sched.status[t] \in OnRunqueue /\ want[t] = NoMutex
      /\ t \notin ToSet(waiters[Inner]) /\ pid[t] \in Pids
  BY RCaller DEF Disown, Goes
<1>2. /\ MInv' /\ UNCHANGED <<sched, pid, locked, waiters, want>>
  BY SchedStepMInv DEF Disown, schedVars, mutexVars
<1>3. /\ rstep[t] = "disown" /\ rstep' = [rstep EXCEPT ![t] = "unlock"]
      /\ owner' = PidUndef /\ UNCHANGED <<refcount, nest>>
  BY DEF Disown, Goes
<1>4. OwnsInner(t) /\ \A u \in Threads : OwnsInner(u) => u = t
  BY <1>1, <1>3 DEF OwnsInner, RInv, InnerOwned
<1>5. \A u \in Threads : rstep'[u] = IF u = t THEN "unlock" ELSE rstep[u]
  BY <1>3, RTypes
<1>6. nest[t] = 0
  BY <1>3 DEF RInv, CountRight
<1>7. RTypeOK' /\ CallersLive'
  BY <1>1, <1>2, <1>3, <1>5, RTypes DEF RInv, RTypeOK, CallersLive, RSteps
<1>8. \A u \in Threads : (OwnsInner(u)' <=> OwnsInner(u)) /\ ~OnRecord(u)'
  BY <1>2, <1>3, <1>4, <1>5, <1>6, RTypes DEF OwnsInner, OnRecord
<1>9. InnerOwned' /\ OwnerRecorded'
  BY <1>2, <1>3, <1>8 DEF RInv, InnerOwned, OwnerRecorded
<1>10. CountRight'
  BY <1>3, <1>5, <1>6, RTypes DEF RInv, CountRight
<1>11. refcount = 0
  <2>1. \A u \in Threads : nest[u] = 0
    BY <1>4, <1>6, RTypes DEF OwnsInner
  <2> QED BY <2>1 DEF RInv, CountRight
<1> QED BY <1>2, <1>7, <1>9, <1>10, <1>11 DEF RInv

(* lock() or try_lock() of the free inner mutex. *)
GoesFree(t) ==
    /\ LockFree(t, Inner)
    /\ \/ nest[t] < MaxNest /\ Goes(t, "none", "own")
       \/ Goes(t, "lock", "own")
    /\ UNCHANGED <<owner, refcount, nest>>

LEMMA FreeRInv ==
    ASSUME MInv, RInv, NEW t \in Threads, GoesFree(t)
    PROVE  MInv' /\ RInv' /\ UNCHANGED pid
<1>1. /\ InUser(t) /\ Inner \in Mutexes \ Locks /\ want[t] = NoMutex
      /\ sched.status[t] \in OnRunqueue /\ t \notin ToSet(waiters[Inner])
  BY RCaller DEF GoesFree, LockFree
<1>2. MInv'
  BY <1>1, LockFreeMInv DEF GoesFree
<1>3. /\ rstep[t] \in {"none", "lock"} /\ rstep' = [rstep EXCEPT ![t] = "own"]
      /\ nest[t] < MaxNest /\ UNCHANGED <<owner, refcount, nest>>
  BY DEF GoesFree, Goes, RInv, CountRight
<1>4. /\ ~locked[Inner] /\ locked'[Inner] /\ UNCHANGED <<sched, pid, waiters, want>>
  BY <1>1 DEF GoesFree, LockFree, schedVars, MInv, ListsInv, MutexTypeOK
<1>5. \A u \in Threads : ~OwnsInner(u) /\ nest[u] = 0
  BY <1>4, RTypes DEF RInv, InnerOwned, OwnsInner
<1>6. \A u \in Threads : rstep'[u] = IF u = t THEN "own" ELSE rstep[u]
  BY <1>3, RTypes
<1>7. RTypeOK' /\ CallersLive'
  BY <1>1, <1>3, <1>4, <1>6, RTypes DEF RInv, RTypeOK, CallersLive, RSteps
<1>8. \A u \in Threads : (OwnsInner(u)' <=> u = t) /\ (OnRecord(u)' <=> OnRecord(u))
  BY <1>1, <1>3, <1>4, <1>5, <1>6, RTypes DEF OwnsInner, OnRecord
<1>9. InnerOwned' /\ OwnerRecorded'
  BY <1>3, <1>4, <1>8 DEF RInv, InnerOwned, OwnerRecorded
<1>10. CountRight'
  BY <1>3, <1>6, RTypes DEF RInv, CountRight
<1> QED BY <1>2, <1>4, <1>7, <1>9, <1>10 DEF RInv

(* lock() of the inner mutex that another thread has. *)
GoesBlocked(t) ==
    /\ LockBlock(t, Inner) /\ Goes(t, "lock", "own")
    /\ UNCHANGED <<owner, refcount, nest>>

LEMMA BlockedRInv ==
    ASSUME MInv, RInv, NEW t \in Threads, GoesBlocked(t)
    PROVE  MInv' /\ RInv' /\ UNCHANGED pid
<1>1. /\ InUser(t) /\ Inner \in Mutexes \ Locks /\ want[t] = NoMutex
  BY RCaller DEF GoesBlocked, LockBlock
<1>2. MInv' /\ ToSet(waiters'[Inner]) = ToSet(waiters[Inner]) \cup {t}
  BY <1>1, LockBlockMInv, LockBlockLists DEF GoesBlocked
<1>3. /\ rstep[t] = "lock" /\ rstep' = [rstep EXCEPT ![t] = "own"]
      /\ nest[t] = 0 /\ UNCHANGED <<owner, refcount, nest>>
  BY DEF GoesBlocked, Goes, RInv, CountRight
<1>4. /\ UNCHANGED <<locked, pid>> /\ want' = [want EXCEPT ![t] = Inner]
      /\ sched'.status = [sched.status EXCEPT ![t] = "MUTEX_BLOCKED"]
  BY DEF GoesBlocked, LockBlock, SetThreadStatus, pidVars
<1>5. /\ sched.status \in [Threads -> Statuses]
      /\ want \in [Threads -> Mutexes \cup {NoMutex}]
  BY DEF MInv, ListsInv, MutexTypeOK, TypeOK
<1>6. \A u \in Threads : rstep'[u] = IF u = t THEN "own" ELSE rstep[u]
  BY <1>3, RTypes
<1>7. RTypeOK'
  BY <1>3, RTypes DEF RInv, RTypeOK, RSteps
<1>8. CallersLive'
  BY <1>3, <1>4, <1>5, <1>6, RTypes DEF RInv, CallersLive
<1>9. \A u \in Threads : (OwnsInner(u)' <=> OwnsInner(u)) /\ (OnRecord(u)' <=> OnRecord(u))
  BY <1>2, <1>3, <1>6, RTypes DEF OwnsInner, OnRecord
<1>10. InnerOwned' /\ OwnerRecorded'
  BY <1>3, <1>4, <1>9 DEF RInv, InnerOwned, OwnerRecorded
<1>11. CountRight'
  BY <1>3, <1>6, RTypes DEF RInv, CountRight
<1> QED BY <1>2, <1>4, <1>7, <1>8, <1>10, <1>11 DEF RInv

LEMMA ReleaseRInv ==
    ASSUME MInv, RInv, NEW t \in Threads, Release(t)
    PROVE  MInv' /\ RInv' /\ UNCHANGED pid
<1>1. /\ InUser(t) /\ Inner \in Mutexes \ Locks /\ want[t] = NoMutex
      /\ sched.status[t] \in OnRunqueue
  BY RCaller DEF Release, Goes
<1>2. /\ rstep[t] = "unlock" /\ rstep' = [rstep EXCEPT ![t] = "none"]
      /\ nest[t] = 0 /\ UNCHANGED <<owner, refcount, nest>> /\ Unlock(t, Inner)
  BY DEF Release, Goes, RInv, CountRight
<1>3. OwnsInner(t) /\ (\A u \in Threads : OwnsInner(u) => u = t) /\ locked[Inner]
  BY <1>2 DEF OwnsInner, RInv, InnerOwned
<1>4. \A u \in Threads : rstep'[u] = IF u = t THEN "none" ELSE rstep[u]
  BY <1>2, RTypes
<1>5. RTypeOK'
  BY <1>2, RTypes DEF RInv, RTypeOK, RSteps
<1>6. CountRight'
  BY <1>2, <1>4, RTypes DEF RInv, CountRight
<1>7. UNCHANGED <<pid, want>>
  BY <1>2 DEF Unlock, UnlockFree, UnlockGive, UnlockNothing, schedVars, mutexVars, pidVars
<1>8. \A u \in Threads : u # t => ~OwnsInner(u)
  BY <1>3
<1>9. OwnerRecorded'
  <2>1. \A u \in Threads : (OnRecord(u)' <=> OnRecord(u))
    BY <1>2, <1>4, RTypes DEF OnRecord
  <2> QED BY <1>2, <1>7, <2>1 DEF RInv, OwnerRecorded
<1>10. CASE UnlockFree(t, Inner)
  <2>1. MInv' /\ waiters[Inner] = <<>> /\ UNCHANGED <<waiters, sched>> /\ ~locked'[Inner]
    BY <1>1, <1>10, UnlockFreeMInv
       DEF FreesMutex, UnlockFree, schedVars, MInv, ListsInv, MutexTypeOK
  <2>2. CallersLive'
    BY <1>2, <1>4, <1>7, <2>1 DEF RInv, CallersLive
  <2>3. \A u \in Threads : ~OwnsInner(u)'
    BY <1>2, <1>4, <1>8, <2>1, RTypes DEF OwnsInner
  <2>4. InnerOwned'
    BY <2>1, <2>3 DEF InnerOwned
  <2> QED BY <1>5, <1>6, <1>7, <1>9, <2>1, <2>2, <2>4 DEF RInv
<1>11. CASE UnlockGive(t, Inner)
  <2> DEFINE h == Head(waiters[Inner])
  <2>1. waiters[Inner] # <<>> /\ Give(Inner)
    BY <1>11 DEF UnlockGive
  <2>2. /\ MInv' /\ h \in Threads /\ h \in ToSet(waiters[Inner])
        /\ ToSet(waiters'[Inner]) = ToSet(waiters[Inner]) \ {h}
    BY <1>1, <1>11, <2>1, UnlockGiveMInv DEF GivesMutex
  <2>3. /\ sched.status[h] = "MUTEX_BLOCKED" /\ want[h] = Inner
        /\ sched' = SetThreadStatus(sched, h, "PENDING") /\ UNCHANGED locked
    BY <1>1, <2>1, GiveLists DEF Give
  <2> HIDE DEF h
  <2>4. sched'.status = [sched.status EXCEPT ![h] = "PENDING"]
    BY <2>3 DEF SetThreadStatus
  <2>5. rstep[h] = "own" /\ nest[h] = 0 /\ h # t
    BY <1>1, <2>2, <2>3, RmutexAssumption, MutexAssumption DEF RInv, CallersLive, Mutexes
  <2>6. CallersLive'
    BY <1>2, <1>4, <1>7, <2>4 DEF RInv, CallersLive, MInv, IInv, TypeOK, OnRunqueue
  <2>7. \A u \in Threads : (OwnsInner(u)' <=> u = h)
    BY <1>2, <1>4, <1>8, <2>2, <2>5, RTypes DEF OwnsInner
  <2>8. InnerOwned'
    BY <1>3, <2>2, <2>3, <2>7 DEF InnerOwned
  <2> QED BY <1>5, <1>6, <1>7, <1>9, <2>2, <2>6, <2>8 DEF RInv
<1> QED BY <1>2, <1>3, <1>10, <1>11 DEF Unlock, UnlockNothing

-----------------------------------------------------------------------------
(* Every step is of one of these kinds.                                    *)

(* What a step does to the pids and to the count. *)
CountStays ==
    /\ UNCHANGED <<refcount, nest>>
    /\ refcount > 0 => owner' = owner /\ container'[owner] = container[owner]

LEMMA RmutexSteps ==
    ASSUME MInv, RInv, [RmutexNext]_rlockVars
    PROVE  /\ MInv' /\ RInv'
           /\ \/ CountStays
              \/ \E t \in Threads : CountLock(t) \/ CountUnlock(t)
<1>1. ASSUME MInv', RInv', UNCHANGED <<refcount, nest, owner>>,
             \A u \in Threads : OnRecord(u) => pid'[u] = pid[u]
      PROVE  CountStays
  <2> SUFFICES ASSUME refcount > 0 PROVE container'[owner] = container[owner]
    BY <1>1 DEF CountStays
  <2>1. PICK u \in Threads : nest[u] > 0
    BY RTypes DEF RInv, CountRight
  <2>2. owner = pid[u] /\ pid'[u] = pid[u]
    BY <1>1, <2>1 DEF OnRecord, RInv, OwnerRecorded
  <2>3. nest'[u] > 0 /\ sched.status[u] # "STOPPED" /\ sched'.status[u] # "STOPPED"
    BY <1>1, <2>1 DEF RInv, CallersLive
  <2>4. container[pid[u]] = u /\ container'[pid'[u]] = u
    BY <1>1, <2>3 DEF MInv, IInv, PidsIdentifyThreads
  <2> QED BY <2>2, <2>4
<1>2. ASSUME NEW t \in Threads, RmutexCall(t)
      PROVE  /\ MInv' /\ RInv'
             /\ CountStays \/ CountLock(t) \/ CountUnlock(t)
  <2>1. ASSUME NEW try \in BOOLEAN, Enter(t, try)
        PROVE  MInv' /\ RInv' /\ UNCHANGED <<pid, refcount, nest, owner>>
    <3>1. EnterLocked(t) \/ GoesFree(t)
      BY <2>1 DEF Enter, EnterLocked, GoesFree
    <3> QED BY <2>1, <3>1, EnterRInv, FreeRInv DEF Enter
  <2>2. CASE Compare(t)
    BY <1>1, <2>2, CompareRInv DEF Compare
  <2>3. CASE Wait(t)
    <3>1. GoesFree(t) \/ GoesBlocked(t)
      BY <2>3 DEF Wait, GoesFree, GoesBlocked
    <3> QED BY <1>1, <2>3, <3>1, FreeRInv, BlockedRInv DEF Wait
  <2>4. CASE Own(t)
    <3>1. MInv' /\ RInv' /\ UNCHANGED <<container, refcount, nest>>
      BY <2>4, OwnRInv DEF Own, schedVars
    <3>2. refcount > 0 => owner' = owner
      BY <2>4, OwnRInv
    <3> QED BY <3>1, <3>2 DEF CountStays
  <2>5. CASE CountLock(t)
    BY <2>5, CountLockRInv
  <2>6. CASE CountUnlock(t)
    BY <2>6, CountUnlockRInv
  <2>7. CASE Disown(t)
    <3>1. MInv' /\ RInv' /\ UNCHANGED <<refcount, nest>> /\ refcount = 0
      BY <2>7, DisownRInv DEF Disown
    <3> QED BY <3>1 DEF CountStays
  <2>8. CASE Release(t)
    BY <1>1, <2>8, ReleaseRInv DEF Release
  <2> QED BY <1>1, <1>2, <2>1, <2>2, <2>3, <2>4, <2>5, <2>6, <2>7, <2>8 DEF RmutexCall
<1>3. ASSUME NEW t \in Threads, LockReturn(t), UNCHANGED rmutexVars
      PROVE  MInv' /\ RInv' /\ CountStays
  BY <1>1, <1>3, ReturnRInv DEF rmutexVars
<1>4. ASSUME UNCHANGED <<mutexVars, rmutexVars>>,
             SystemStep \/ (\E t \in Threads : OtherCall(t)) \/ UNCHANGED schedVars
      PROVE  MInv' /\ RInv' /\ CountStays
  BY <1>1, <1>4, OtherRInv DEF rmutexVars
<1>5. CASE UNCHANGED rlockVars
  BY <1>4, <1>5 DEF rlockVars
<1>6. CASE RmutexNext
  <2>1. CASE \E t \in Threads : RmutexCall(t)
    BY <1>2, <2>1
  <2>2. CASE \E t \in Threads : LockReturn(t) /\ UNCHANGED rmutexVars
    BY <1>3, <2>2
  <2>3. CASE /\ SystemStep \/ \E t \in Threads : OtherCall(t)
             /\ UNCHANGED <<mutexVars, rmutexVars>>
    BY <1>4, <2>3
  <2> QED BY <1>6, <2>1, <2>2, <2>3 DEF RmutexNext, SystemStep, OtherCall, SchedCall
<1> QED BY <1>5, <1>6

(* The invariant of the recursive mutex holds in every state. *)
THEOREM RmutexInvariance == RmutexSpec => [](MInv /\ RInv)
<1>1. MInv /\ RInv /\ [RmutexNext]_rlockVars => MInv' /\ RInv'
  BY RmutexSteps
<1>2. MutexInitLocked(Signals \ {Inner}) /\ RmutexInit => MInv /\ RInv
  BY InitRInv
<1> QED BY <1>1, <1>2, PTL DEF RmutexSpec

(* Nobody waits in vain: while threads wait for the inner mutex, another   *)
(* one has it, or is between it and the count.                             *)
THEOREM WaitersNotAlone == RmutexSpec => []WaitersHaveHolder
<1>1. ASSUME MInv, RInv, waiters[Inner] # <<>>
      PROVE  \E t \in Threads \ ToSet(waiters[Inner]) :
                nest[t] > 0 \/ rstep[t] \in {"own", "count", "disown", "unlock"}
  <2>1. Inner \in Mutexes
    BY RmutexAssumption DEF Mutexes
  <2>2. PICK t \in Threads : OwnsInner(t)
    BY <1>1, <2>1 DEF MInv, ListsInv, WaitersAreBlocked, RInv, InnerOwned
  <2>3. t \in ToSet(waiters[Inner]) => want[t] = Inner
    BY <2>1, <1>1 DEF MInv, ListsInv, WaitersAreBlocked
  <2>4. t \in ToSet(waiters[Inner]) => rstep[t] = "own" /\ nest[t] = 0
    BY <2>1, <2>3, <1>1, MutexAssumption DEF RInv, CallersLive
  <2>5. t \notin ToSet(waiters[Inner])
    BY <2>2, <2>4 DEF OwnsInner
  <2> QED BY <2>2, <2>5 DEF OwnsInner
<1>2. MInv /\ RInv => WaitersHaveHolder
  BY <1>1 DEF WaitersHaveHolder
<1> QED BY <1>2, RmutexInvariance, PTL

(* Owner and count implement a lock that one thread holds and may lock     *)
(* again, for every number of threads and every depth the count can hold.  *)
THEOREM ReentrantLockRefines == RmutexSpec => ImplementsReentrantLock
<1> DEFINE H == IF refcount = 0 THEN NoThread ELSE container[owner]
<1>1. MutexInitLocked(Signals \ {Inner}) /\ RmutexInit => RL!Init
  BY DEF RmutexInit, RL!Init
<1>2. ASSUME MInv, RInv, [RmutexNext]_rlockVars
      PROVE  (\E t \in Threads : RL!Lock(t) \/ RL!Unlock(t)) \/ UNCHANGED <<H, refcount, nest>>
  <2>1. MInv' /\ RInv'
    BY <1>2, RmutexSteps
  <2>2. CASE CountStays
    BY <1>2, <2>2, RTypes DEF CountStays
  <2>3. ASSUME NEW t \in Threads, CountLock(t) PROVE RL!Lock(t)
    <3>1. /\ container[owner] = t /\ refcount = nest[t] /\ refcount' = refcount + 1
          /\ UNCHANGED <<owner, container>> /\ nest' = [nest EXCEPT ![t] = @ + 1]
      BY <1>2, <2>3, CountLockRInv DEF CountLock, schedVars
    <3>2. refcount \in Nat
      BY <1>2, RTypes
    <3>3. refcount' # 0
      BY <3>1, <3>2
    <3> QED BY <3>1, <3>3 DEF RL!Lock
  <2>4. ASSUME NEW t \in Threads, CountUnlock(t) PROVE RL!Unlock(t)
    <3>1. /\ container[owner] = t /\ refcount = nest[t] /\ refcount' = refcount - 1
          /\ UNCHANGED <<owner, container>> /\ nest' = [nest EXCEPT ![t] = @ - 1]
          /\ nest[t] > 0
      BY <1>2, <2>4, CountUnlockRInv DEF CountUnlock, schedVars
    <3>2. refcount \in Nat /\ nest'[t] = nest[t] - 1
      BY <1>2, <2>4, <3>1, RTypes
    <3>3. refcount # 0 /\ (refcount' = 0 <=> nest'[t] = 0)
      BY <3>1, <3>2
    <3> QED BY <3>1, <3>3 DEF RL!Unlock
  <2> QED BY <1>2, <2>2, <2>3, <2>4, RmutexSteps
<1>3. MInv /\ RInv /\ [RmutexNext]_rlockVars =>
          [\E t \in Threads : RL!Lock(t) \/ RL!Unlock(t)]_<<
              IF refcount = 0 THEN NoThread ELSE container[owner], refcount, nest>>
  BY <1>2
<1> QED BY <1>1, <1>3, RmutexInvariance, PTL
        DEF RmutexSpec, ImplementsReentrantLock, RL!Spec

-----------------------------------------------------------------------------
(* The semaphore.  While nobody has been let through, the mutex is locked  *)
(* only if the count is zero or some thread is about to unlock it; and a   *)
(* thread about to unlock it stays ready until it has.                     *)

Posters ==
    \A t \in posting :
        t \in Threads /\ sched.status[t] \in OnRunqueue /\ want[t] = NoMutex

NotCreated == state = "none" => waiters[SemaMutex] = <<>> /\ ~passed /\ posting = {}

UnlockPending ==
    state # "none" /\ ~passed /\ locked[SemaMutex] => value = 0 \/ posting # {}

SInv == value \in Nat /\ Posters /\ NotCreated /\ UnlockPending

LEMMA TheMutex == SemaMutex \in Mutexes /\ SemaMutex \in Signals /\ SemaMutex \notin Locks
BY SemaAssumption, MutexAssumption DEF Mutexes

LEMMA InitSInv ==
    ASSUME MutexInit, SemaInit
    PROVE  MInv /\ SInv
<1>1. MInv /\ waiters[SemaMutex] = <<>>
  BY InitMInv, TheMutex DEF MutexInit
<1> QED BY <1>1 DEF SemaInit, SInv, Posters, NotCreated, UnlockPending

(* Steps of the rest of the kernel. *)
LEMMA OtherSInv ==
    ASSUME MInv, SInv, UNCHANGED <<mutexVars, semaVars>>,
           \/ SystemStep \/ UNCHANGED schedVars
           \/ \E t \in Threads : t \notin posting /\ SchedCall(t)
    PROVE  MInv' /\ SInv'
<1>1. MInv'
  BY SchedStepMInv
<1>2. UNCHANGED <<locked, waiters, want, value, state, posting, passed>>
  BY DEF mutexVars, semaVars
<1>3. ASSUME NEW u \in posting PROVE sched'.status[u] \in OnRunqueue
  <2>1. u \in Threads /\ sched.status[u] \in OnRunqueue
    BY DEF SInv, Posters
  <2>2. CASE SystemStep \/ UNCHANGED schedVars
    <3>1. Moved(u)
      BY <2>1, <2>2, SystemMoves, SchedUnchanged DEF MInv
    <3> QED BY <2>1, <3>1 DEF Moved, OnRunqueue
  <2>3. ASSUME NEW t \in Threads, t \notin posting, SchedCall(t)
        PROVE  sched'.status[u] \in OnRunqueue
    <3>1. \/ Moved(u)
          \/ u = t /\ sched'.status[u] \in {"SLEEPING", "STOPPED"}
          \/ sched.status[u] \in Terminable /\ sched'.status[u] = "STOPPED"
      BY <2>1, <2>3, UserCallMoves DEF MInv, SchedCall
    <3>2. Terminable \subseteq OffRunqueue
      BY SchedAssumption
    <3> QED BY <2>1, <2>3, <3>1, <3>2 DEF Moved, OnRunqueue, OffRunqueue
  <2> QED BY <2>2, <2>3
<1>4. Posters'
  BY <1>2, <1>3 DEF SInv, Posters
<1> QED BY <1>1, <1>2, <1>4 DEF SInv, NotCreated, UnlockPending

LEMMA CreateSInv ==
    ASSUME MInv, SInv, NEW t \in Threads, SemaCreate(t)
    PROVE  MInv' /\ SInv'
<1>1. /\ UNCHANGED <<schedVars, waiters, want, held, posting, passed>>
      /\ waiters[SemaMutex] = <<>> /\ value' \in Nat /\ state' # "none"
      /\ locked' = [locked EXCEPT ![SemaMutex] = value' = 0]
  BY SemaAssumption DEF SemaCreate, SInv, NotCreated
<1>2. /\ locked \in [Mutexes -> BOOLEAN] /\ held \in [Mutexes -> SUBSET Threads]
  BY DEF MInv, ListsInv, MutexTypeOK
<1>3. locked' \in [Mutexes -> BOOLEAN] /\ \A m \in Mutexes \ {SemaMutex} : locked'[m] = locked[m]
  BY <1>1, <1>2
<1>4. IInv' /\ TypeOK' /\ \A v \in Threads : Moved(v)
  BY <1>1, SchedUnchanged
<1>5. ListsInv'
  BY <1>1, <1>2, <1>3, <1>4, OtherLists
<1>6. UniqueOwner'
  BY <1>1, <1>3, TheMutex DEF MInv, UniqueOwner, Owners, Mutexes
<1>7. Posters'
  BY <1>1 DEF SInv, Posters, schedVars
<1>8. UnlockPending'
  BY <1>1, <1>2, TheMutex DEF UnlockPending
<1> QED BY <1>1, <1>4, <1>5, <1>6, <1>7, <1>8 DEF SInv, MInv, NotCreated

(* Only the count changes, and a post of the first unit is announced. *)
LEMMA PostSInv ==
    ASSUME MInv, SInv, NEW t \in Threads, SemaPost(t)
    PROVE  MInv' /\ SInv'
<1>1. /\ UNCHANGED <<schedVars, mutexVars, state, passed>> /\ state # "none"
      /\ value' = value + 1 /\ value \in Nat /\ InUser(t)
      /\ posting' = IF value = 0 THEN posting \cup {t} ELSE posting
  BY DEF SemaPost, Ready, SInv, IsFirstPost
<1>2. MInv' /\ UNCHANGED <<sched, locked, waiters, want>>
  BY <1>1, SchedStepMInv DEF mutexVars, schedVars
<1>3. sched.status[t] \in OnRunqueue /\ want[t] = NoMutex
  BY <1>1, CallerRuns
<1>4. Posters'
  BY <1>1, <1>2, <1>3 DEF SInv, Posters
<1>5. UnlockPending'
  BY <1>1, <1>2 DEF SInv, UnlockPending
<1> QED BY <1>1, <1>2, <1>4, <1>5 DEF SInv, NotCreated

(* An unlock() of the mutex by a thread or by a handler. *)
Unlocks(t) == Unlock(t, SemaMutex) \/ IsrUnlock(SemaMutex)

LEMMA UnlocksSInv ==
    ASSUME MInv, SInv, NEW t \in Threads, Unlocks(t), LetsThrough,
           state # "none", state' # "none", value' \in Nat, posting' \subseteq posting
    PROVE  MInv' /\ SInv'
<1>1. \/ FreesMutex(t, SemaMutex) \/ GivesMutex(t, SemaMutex)
      \/ ~locked[SemaMutex] /\ UNCHANGED <<schedVars, mutexVars>>
  BY TheMutex DEF Unlocks, Unlock, UnlockNothing, UnlockGive, IsrUnlock, IsrUnlockNothing,
     IsrUnlockGive, FreesMutex, GivesMutex
<1>2. locked \in [Mutexes -> BOOLEAN] /\ sched.status \in [Threads -> Statuses]
  BY DEF MInv, ListsInv, MutexTypeOK, TypeOK
<1>3. passed' = (passed \/ waiters[SemaMutex] # <<>>)
  BY DEF LetsThrough
<1>4. UNCHANGED want
  BY DEF Unlocks, Unlock, UnlockFree, UnlockNothing, UnlockGive, IsrUnlock, IsrUnlockFree,
     IsrUnlockNothing, IsrUnlockGive, mutexVars
<1>5. /\ MInv'
      /\ ~locked'[SemaMutex] \/ passed'
      /\ \A u \in Threads : sched.status[u] \in OnRunqueue => sched'.status[u] \in OnRunqueue
  <2>1. CASE FreesMutex(t, SemaMutex)
    <3>1. MInv'
      BY <2>1, UnlockFreeMInv, TheMutex
    <3>2. UNCHANGED sched /\ locked' = [locked EXCEPT ![SemaMutex] = FALSE]
      BY <2>1 DEF FreesMutex, UnlockFree, UnlockAndSleep, IsrUnlockFree, schedVars
    <3> QED BY <1>2, <3>1, <3>2, TheMutex
  <2>2. CASE GivesMutex(t, SemaMutex)
    <3>1. MInv' /\ waiters[SemaMutex] # <<>> /\ Give(SemaMutex)
      BY <2>2, UnlockGiveMInv, TheMutex
         DEF GivesMutex, UnlockGive, UnlockAndSleep, IsrUnlockGive
    <3>2. sched'.status = [sched.status EXCEPT ![Head(waiters[SemaMutex])] = "PENDING"]
      BY <3>1 DEF Give, SetThreadStatus
    <3> QED BY <1>2, <1>3, <3>1, <3>2 DEF OnRunqueue
  <2>3. CASE ~locked[SemaMutex] /\ UNCHANGED <<schedVars, mutexVars>>
    BY <2>3, SchedStepMInv DEF schedVars, mutexVars
  <2> QED BY <1>1, <2>1, <2>2, <2>3
<1>6. Posters'
  BY <1>4, <1>5 DEF SInv, Posters
<1> QED BY <1>5, <1>6 DEF SInv, NotCreated, UnlockPending

LEMMA WaitSInv ==
    ASSUME MInv, SInv, NEW t \in Threads, SemaWait(t)
    PROVE  MInv' /\ SInv'
<1>1. UNCHANGED <<value, state, posting>> /\ state # "none" /\ t \notin posting
  BY DEF SemaWait, Ready
<1>2. CASE LockFree(t, SemaMutex) /\ passed' = TRUE
  <2>1. MInv' /\ UNCHANGED <<sched, want>>
    BY <1>2, LockFreeMInv, TheMutex DEF LockFree, schedVars
  <2> QED BY <1>1, <1>2, <2>1 DEF SInv, Posters, NotCreated, UnlockPending
<1>3. CASE LockBlock(t, SemaMutex) /\ UNCHANGED passed
  <2>1. MInv' /\ UNCHANGED locked
    BY <1>3, LockBlockMInv, TheMutex DEF LockBlock
  <2>2. /\ sched'.status = [sched.status EXCEPT ![t] = "MUTEX_BLOCKED"]
        /\ want' = [want EXCEPT ![t] = SemaMutex]
    BY <1>3 DEF LockBlock, SetThreadStatus
  <2>3. /\ sched.status \in [Threads -> Statuses]
        /\ want \in [Threads -> Mutexes \cup {NoMutex}]
    BY DEF MInv, ListsInv, MutexTypeOK, TypeOK
  <2>4. Posters'
    BY <1>1, <2>2, <2>3 DEF SInv, Posters
  <2> QED BY <1>1, <1>3, <2>1, <2>4 DEF SInv, NotCreated, UnlockPending
<1> QED BY <1>2, <1>3 DEF SemaWait

LEMMA SemaSteps ==
    ASSUME MInv, SInv, [SemaNext]_semaphoreVars
    PROVE  MInv' /\ SInv'
<1>1. ASSUME NEW t \in Threads, SemaCall(t) PROVE MInv' /\ SInv'
  <2>1. CASE SemaDestroy(t)
    BY <2>1, UnlocksSInv DEF SemaDestroy, Unlocks, SInv
  <2>2. CASE SemaPostEnds(t)
    <3>1. state # "none"
      BY <2>2 DEF SemaPostEnds, SInv, NotCreated
    <3> QED BY <2>2, <3>1, UnlocksSInv DEF SemaPostEnds, Unlocks, SInv
  <2> QED BY <1>1, <2>1, <2>2, CreateSInv, PostSInv, WaitSInv DEF SemaCall
<1>2. CASE IsrSemaPost
  <2>1. value \in Nat /\ value' = value + 1 /\ state # "none" /\ UNCHANGED <<state, posting>>
    BY <1>2 DEF IsrSemaPost, SInv
  <2>2. CASE IsFirstPost
    <3>1. Idle \in Threads
      BY SchedAssumption
    <3> QED BY <1>2, <2>1, <2>2, <3>1, UnlocksSInv DEF IsrSemaPost, Unlocks
  <2>3. CASE ~IsFirstPost
    <3>1. UNCHANGED <<schedVars, mutexVars, passed>> /\ value # 0
      BY <1>2, <2>3 DEF IsrSemaPost, IsFirstPost
    <3>2. MInv' /\ UNCHANGED <<sched, locked, waiters, want>>
      BY <3>1, SchedStepMInv DEF schedVars, mutexVars
    <3> QED BY <2>1, <3>1, <3>2 DEF SInv, Posters, NotCreated, UnlockPending
  <2> QED BY <2>2, <2>3
<1>3. ASSUME NEW t \in Threads, LockReturn(t), UNCHANGED semaVars PROVE MInv' /\ SInv'
  <2>1. MInv' /\ UNCHANGED <<sched, locked, waiters>> /\ want' = [want EXCEPT ![t] = NoMutex]
    BY <1>3, LockReturnMInv DEF LockReturn, schedVars
  <2>2. want \in [Threads -> Mutexes \cup {NoMutex}]
    BY DEF MInv, ListsInv, MutexTypeOK
  <2> QED BY <1>3, <2>1, <2>2 DEF semaVars, SInv, Posters, NotCreated, UnlockPending
<1>4. CASE UNCHANGED semaphoreVars
  BY <1>4, OtherSInv DEF semaphoreVars
<1>5. CASE /\ SystemStep \/ \E t \in Threads : t \notin posting /\ SchedCall(t)
           /\ UNCHANGED <<mutexVars, semaVars>>
  BY <1>5, OtherSInv
<1> QED BY <1>1, <1>2, <1>3, <1>4, <1>5 DEF SemaNext, SystemStep, SchedCall

(* The invariant of the semaphore holds in every state. *)
THEOREM SemaInvariance == SemaSpec => [](MInv /\ SInv)
<1>1. MInv /\ SInv /\ [SemaNext]_semaphoreVars => MInv' /\ SInv'
  BY SemaSteps
<1>2. MutexInit /\ SemaInit => MInv /\ SInv
  BY InitSInv
<1> QED BY <1>1, <1>2, PTL DEF SemaSpec

(* The first unit is not lost between counting it and unlocking: as long   *)
(* as nobody has been let through, threads wait only while the count is    *)
(* zero or a thread that counted from zero is ready and about to unlock.   *)
THEOREM FirstUnitNotLost == SemaSpec => []FirstUnitArrives
<1>1. ASSUME MInv, SInv, waiters[SemaMutex] # <<>>, ~passed
      PROVE  value = 0 \/ \E t \in posting : sched.status[t] \in OnRunqueue
  <2>1. locked[SemaMutex] /\ state # "none"
    BY <1>1, TheMutex DEF MInv, ListsInv, WaitersAreBlocked, SInv, NotCreated
  <2> QED BY <1>1, <2>1 DEF SInv, UnlockPending, Posters
<1>2. MInv /\ SInv => FirstUnitArrives
  BY <1>1 DEF FirstUnitArrives
<1> QED BY <1>2, SemaInvariance, PTL
=============================================================================
