---------------------------- MODULE MutexProofs ----------------------------
(***************************************************************************)
(* Theorems about mutexes, for any number of threads, priorities, locks    *)
(* and signals.  All but the lemmas about single calls assume a program    *)
(* that never calls peek() of a mutex with a waiter: that call leaves      *)
(* interrupts disabled, a thread that then blocks keeps the core, and what *)
(* is proved here fails (the run mutex_peek).                              *)
(***************************************************************************)
EXTENDS Mutex, SchedProofs

-----------------------------------------------------------------------------
(* The inductive invariant.  WaitersAreBlocked is inductive together with  *)
(* the invariant of the scheduler and what a thread inside lock() may be   *)
(* doing; that the first waiter is a most urgent one needs the lists       *)
(* sorted; and a lock has one owner only if it is locked while it has one. *)

WaitersSorted == \A m \in Mutexes : ByUrgency(waiters[m])

(* A thread inside lock() waits, or has been given the mutex and is ready. *)
LockersStay ==
    \A t \in Threads :
        want[t] # NoMutex => sched.status[t] \in OnRunqueue \cup {"MUTEX_BLOCKED"}

UniqueOwner ==
    \A m \in Locks :
        /\ \A t, u \in Owners(m) : t = u
        /\ locked[m] <=> Owners(m) # {}

ListsInv == MutexTypeOK /\ WaitersAreBlocked /\ WaitersSorted /\ LockersStay

MInv == IInv /\ ListsInv /\ UniqueOwner

LEMMA InitMInv ==
    ASSUME NEW ms \in SUBSET Signals, MutexInitLocked(ms)
    PROVE  MInv /\ \A m \in Mutexes : waiters[m] = <<>>
<1>1. IInv
  BY InitIInv DEF MutexInitLocked
<1>2. MutexTypeOK
  BY <1>1 DEF MutexInitLocked, MutexTypeOK, IInv
<1>3. WaitersAreBlocked
  BY DEF MutexInitLocked, WaitersAreBlocked, Init, ToSet, IsInjective
<1>4. WaitersSorted
  BY DEF MutexInitLocked, WaitersSorted, ByUrgency
<1>5. LockersStay
  BY DEF MutexInitLocked, LockersStay
<1>6. \A m \in Locks : Owners(m) = {} /\ ~locked[m]
  BY MutexAssumption DEF MutexInitLocked, Mutexes, Owners
<1> QED BY <1>1, <1>2, <1>3, <1>4, <1>5, <1>6
        DEF MInv, ListsInv, UniqueOwner, MutexInitLocked

(* What a thread that may call lock() or unlock() satisfies. *)
LEMMA CallerRuns ==
    ASSUME MInv, NEW t \in Threads, InUser(t)
    PROVE  /\ sched.status[t] \in OnRunqueue /\ active = t
           /\ pc[t] = "user" /\ want[t] = NoMutex
           /\ \A m \in Mutexes : t \notin ToSet(waiters[m])
<1>1. Executing(t) /\ pc[t] = "user" /\ want[t] = NoMutex
  BY DEF InUser
<1>2. sched.status[t] \in OnRunqueue /\ active = t
  BY <1>1, ExecutingExists DEF MInv
<1> QED BY <1>1, <1>2 DEF MInv, ListsInv, WaitersAreBlocked, OnRunqueue

-----------------------------------------------------------------------------
(* The two changes of a list of waiters.                                   *)

(* lock() of a locked mutex. *)
LEMMA LockBlockLists ==
    ASSUME MInv, NEW t \in Threads, NEW m \in Mutexes, LockBlock(t, m)
    PROVE  /\ IInv' /\ ListsInv'
           /\ ToSet(waiters'[m]) = ToSet(waiters[m]) \cup {t}
           /\ \A u \in ToSet(waiters[m]), v \in Threads :
                Priority[u] <= Priority[v] /\ Before(waiters'[m], v, u)
                    => Before(waiters[m], v, u)
<1>1. /\ sched.status[t] \in OnRunqueue /\ active = t /\ want[t] = NoMutex
      /\ t \notin ToSet(waiters[m]) /\ pc[t] = "user" /\ Executing(t)
  BY CallerRuns DEF LockBlock, InUser
<1>2. IInv'
  BY <1>1, BlockIInv DEF LockBlock, OffRunqueue, MInv
<1> DEFINE q == waiters[m]
           r == AddToList(q, t)
<1>3. q \in Seq(Threads) /\ IsInjective(q) /\ ByUrgency(q)
  BY DEF MInv, ListsInv, MutexTypeOK, WaitersAreBlocked, WaitersSorted
<1>4. /\ r \in Seq(Threads) /\ r # <<>> /\ IsInjective(r)
      /\ ToSet(r) = ToSet(q) \cup {t} /\ ByUrgency(r)
      /\ \A u \in ToSet(q), v \in Threads :
           Priority[u] <= Priority[v] /\ Before(r, v, u) => Before(q, v, u)
  BY <1>1, <1>3, AddToListSorted
<1>5. /\ waiters' = [waiters EXCEPT ![m] = r] /\ want' = [want EXCEPT ![t] = m]
      /\ UNCHANGED <<locked, held>> /\ locked[m]
  BY DEF LockBlock
<1>6. sched'.status = [sched.status EXCEPT ![t] = "MUTEX_BLOCKED"]
  BY DEF LockBlock, SetThreadStatus
<1>7. /\ sched.status \in [Threads -> Statuses]
      /\ waiters \in [Mutexes -> Seq(Threads)]
      /\ want \in [Threads -> Mutexes \cup {NoMutex}]
  BY DEF MInv, ListsInv, MutexTypeOK, TypeOK
<1> HIDE DEF q, r
<1>8. waiters'[m] = r /\ \A n \in Mutexes \ {m} : waiters'[n] = waiters[n]
  BY <1>5, <1>7
<1>9. MutexTypeOK'
  BY <1>2, <1>4, <1>5, <1>7 DEF MInv, ListsInv, MutexTypeOK, IInv
<1>10. WaitersAreBlocked'
  <2>1. ASSUME NEW n \in Mutexes, NEW u \in Threads
        PROVE  u \in ToSet(waiters'[n]) <=>
                  (sched'.status[u] = "MUTEX_BLOCKED" /\ want'[u] = n)
    <3>1. u \in ToSet(waiters[n]) <=>
             (sched.status[u] = "MUTEX_BLOCKED" /\ want[u] = n)
      BY DEF MInv, ListsInv, WaitersAreBlocked
    <3>2. t \notin ToSet(waiters[n])
      BY CallerRuns DEF LockBlock
    <3>3. CASE u = t
      BY <1>4, <1>5, <1>6, <1>7, <1>8, <3>2, <3>3
    <3>4. CASE u # t
      BY <1>4, <1>5, <1>6, <1>7, <1>8, <3>1, <3>4 DEF q
    <3> QED BY <3>3, <3>4
  <2>2. \A n \in Mutexes : IsInjective(waiters'[n]) /\ (waiters'[n] # <<>> => locked'[n])
    BY <1>4, <1>5, <1>8 DEF MInv, ListsInv, WaitersAreBlocked
  <2> QED BY <2>1, <2>2 DEF WaitersAreBlocked
<1>11. WaitersSorted'
  BY <1>4, <1>8 DEF MInv, ListsInv, WaitersSorted
<1>12. LockersStay'
  BY <1>5, <1>6, <1>7 DEF MInv, ListsInv, LockersStay
<1> QED BY <1>2, <1>4, <1>8, <1>9, <1>10, <1>11, <1>12 DEF ListsInv, q

(* unlock() of a mutex with waiters: the first of them is a most urgent    *)
(* one, waits inside lock() of this mutex, and leaves the list for the run *)
(* queue.                                                                  *)
LEMMA GiveLists ==
    ASSUME MInv, NEW m \in Mutexes, waiters[m] # <<>>, Give(m)
    PROVE  LET h == Head(waiters[m])
           IN  /\ h \in Threads /\ h \in ToSet(waiters[m])
               /\ sched.status[h] = "MUTEX_BLOCKED" /\ want[h] = m
               /\ \A u \in ToSet(waiters[m]) : Priority[h] <= Priority[u]
               /\ sched' = SetThreadStatus(sched, h, "PENDING")
               /\ waiters' = [waiters EXCEPT ![m] = Tail(waiters[m])]
               /\ ToSet(waiters'[m]) = ToSet(waiters[m]) \ {h}
               /\ TypeOK' /\ UNCHANGED want /\ held' \in [Mutexes -> SUBSET Threads]
                    => ListsInv'
<1> DEFINE q == waiters[m]
           h == Head(waiters[m])
<1>1. q \in Seq(Threads) /\ IsInjective(q) /\ ByUrgency(q) /\ locked[m]
  BY DEF MInv, ListsInv, MutexTypeOK, WaitersAreBlocked, WaitersSorted
<1>2. h \in Threads /\ h \in ToSet(q)
  BY <1>1 DEF ToSet
<1>3. sched.status[h] = "MUTEX_BLOCKED" /\ want[h] = m
  BY <1>2 DEF MInv, ListsInv, WaitersAreBlocked
<1>4. /\ Tail(q) \in Seq(Threads) /\ IsInjective(Tail(q))
      /\ ToSet(Tail(q)) = ToSet(q) \ {h}
      /\ ByUrgency(Tail(q)) /\ \A u \in ToSet(q) : Priority[h] <= Priority[u]
  BY <1>1, LeftPopDistinct, SortedTail DEF LeftPop
<1>5. /\ sched' = SetThreadStatus(sched, h, "PENDING")
      /\ waiters' = [waiters EXCEPT ![m] = Tail(q)] /\ UNCHANGED locked
  BY DEF Give
<1>6. sched'.status = [sched.status EXCEPT ![h] = "PENDING"]
  BY <1>5 DEF SetThreadStatus
<1>7. /\ sched.status \in [Threads -> Statuses]
      /\ waiters \in [Mutexes -> Seq(Threads)]
  BY DEF MInv, ListsInv, MutexTypeOK, TypeOK
<1>8. waiters'[m] = Tail(q) /\ \A n \in Mutexes \ {m} : waiters'[n] = waiters[n]
  BY <1>5, <1>7
<1> HIDE DEF q, h
<1>9. ASSUME TypeOK', UNCHANGED want, held' \in [Mutexes -> SUBSET Threads]
      PROVE  ListsInv'
  <2>1. MutexTypeOK'
    BY <1>4, <1>5, <1>7, <1>9 DEF MInv, ListsInv, MutexTypeOK
  <2>2. WaitersAreBlocked'
    <3>1. ASSUME NEW n \in Mutexes, NEW u \in Threads
          PROVE  u \in ToSet(waiters'[n]) <=>
                    (sched'.status[u] = "MUTEX_BLOCKED" /\ want'[u] = n)
      <4>1. u \in ToSet(waiters[n]) <=>
               (sched.status[u] = "MUTEX_BLOCKED" /\ want[u] = n)
        BY DEF MInv, ListsInv, WaitersAreBlocked
      <4>2. sched'.status[u] = IF u = h THEN "PENDING" ELSE sched.status[u]
        BY <1>2, <1>6, <1>7
      <4>3. CASE n = m
        BY <1>4, <1>8, <1>9, <4>1, <4>2, <4>3 DEF q
      <4>4. CASE n # m
        BY <1>3, <1>8, <1>9, <4>1, <4>2, <4>4
      <4> QED BY <4>3, <4>4
    <3>2. \A n \in Mutexes : IsInjective(waiters'[n]) /\ (waiters'[n] # <<>> => locked'[n])
      BY <1>1, <1>4, <1>5, <1>8 DEF MInv, ListsInv, WaitersAreBlocked
    <3> QED BY <3>1, <3>2 DEF WaitersAreBlocked
  <2>3. WaitersSorted'
    BY <1>4, <1>8 DEF MInv, ListsInv, WaitersSorted
  <2>4. LockersStay'
    BY <1>6, <1>7, <1>9 DEF MInv, ListsInv, LockersStay, OnRunqueue
  <2> QED BY <2>1, <2>2, <2>3, <2>4 DEF ListsInv
<1> QED BY <1>2, <1>3, <1>4, <1>5, <1>8, <1>9 DEF q, h

(* A step that touches no list of waiters and blocks or ends no thread     *)
(* that is inside lock().                                                  *)
LEMMA OtherLists ==
    ASSUME MInv, TypeOK', UNCHANGED <<waiters, want>>,
           locked' \in [Mutexes -> BOOLEAN],
           \A m \in Mutexes : locked'[m] # locked[m] => waiters[m] = <<>>,
           held' \in [Mutexes -> SUBSET Threads],
           \A v \in Threads :
              \/ Moved(v)
              \/ /\ want[v] = NoMutex /\ sched.status[v] \in OnRunqueue
                 /\ sched'.status[v] \in {"SLEEPING", "STOPPED"}
              \/ sched.status[v] \in Terminable /\ sched'.status[v] = "STOPPED"
    PROVE  ListsInv'
<1>1. ASSUME NEW v \in Threads
      PROVE  /\ sched'.status[v] = "MUTEX_BLOCKED" <=> sched.status[v] = "MUTEX_BLOCKED"
             /\ want[v] # NoMutex =>
                  sched'.status[v] \in OnRunqueue \cup {"MUTEX_BLOCKED"}
  <2>1. Terminable \subseteq OffRunqueue /\ "MUTEX_BLOCKED" \notin Terminable
    BY SchedAssumption, MutexAssumption
  <2>2. want[v] # NoMutex => sched.status[v] \in OnRunqueue \cup {"MUTEX_BLOCKED"}
    BY DEF MInv, ListsInv, LockersStay
  <2> QED BY <2>1, <2>2 DEF Moved, OnRunqueue, OffRunqueue
<1>2. MutexTypeOK'
  BY DEF MInv, ListsInv, MutexTypeOK
<1>3. WaitersAreBlocked'
  BY <1>1 DEF MInv, ListsInv, WaitersAreBlocked
<1>4. WaitersSorted' /\ LockersStay'
  BY <1>1 DEF MInv, ListsInv, WaitersSorted, LockersStay
<1> QED BY <1>2, <1>3, <1>4 DEF ListsInv

LEMMA SchedUnchanged ==
    ASSUME MInv, UNCHANGED schedVars
    PROVE  IInv' /\ TypeOK' /\ \A v \in Threads : Moved(v)
BY StutterIInv DEF MInv, IInv, schedVars, Moved

-----------------------------------------------------------------------------
(* One lemma per kind of step.                                             *)

LEMMA LockFreeMInv ==
    ASSUME MInv, NEW t \in Threads, NEW m \in Mutexes, LockFree(t, m)
    PROVE  MInv' /\ (m \in Locks => Owners(m) = {} /\ Owners(m)' = {t})
<1>1. /\ locked \in [Mutexes -> BOOLEAN] /\ held \in [Mutexes -> SUBSET Threads]
      /\ waiters \in [Mutexes -> Seq(Threads)]
  BY DEF MInv, ListsInv, MutexTypeOK
<1>2. /\ locked' = [locked EXCEPT ![m] = TRUE] /\ ~locked[m]
      /\ held' = IF m \in Locks THEN [held EXCEPT ![m] = @ \cup {t}] ELSE held
      /\ UNCHANGED <<waiters, want>> /\ UNCHANGED schedVars
  BY DEF LockFree, Acquired
<1>3. /\ waiters[m] = <<>>
      /\ locked' \in [Mutexes -> BOOLEAN] /\ held' \in [Mutexes -> SUBSET Threads]
  BY <1>1, <1>2 DEF MInv, ListsInv, WaitersAreBlocked
<1>4. IInv' /\ ListsInv'
  BY <1>1, <1>2, <1>3, SchedUnchanged, OtherLists
<1>5. \A n \in Mutexes : Owners(n)' =
          IF n = m /\ m \in Locks THEN Owners(n) \cup {t} ELSE Owners(n)
  BY <1>1, <1>2 DEF Owners
<1>6. m \in Locks => Owners(m) = {}
  BY <1>2 DEF MInv, UniqueOwner
<1>7. UniqueOwner'
  <2> SUFFICES ASSUME NEW n \in Locks
               PROVE  /\ \A x, y \in Owners(n)' : x = y
                      /\ locked'[n] <=> Owners(n)' # {}
    BY DEF UniqueOwner
  <2>1. n \in Mutexes
    BY DEF Mutexes
  <2>2. CASE n = m
    BY <1>1, <1>2, <1>5, <1>6, <2>1, <2>2
  <2>3. CASE n # m
    BY <1>1, <1>2, <1>5, <2>1, <2>3 DEF MInv, UniqueOwner
  <2> QED BY <2>2, <2>3
<1> QED BY <1>4, <1>5, <1>6, <1>7 DEF MInv

LEMMA LockBlockMInv ==
    ASSUME MInv, NEW t \in Threads, NEW m \in Mutexes, LockBlock(t, m)
    PROVE  MInv' /\ \A n \in Mutexes : Owners(n)' = Owners(n)
<1>1. /\ IInv' /\ ListsInv' /\ ToSet(waiters'[m]) = ToSet(waiters[m]) \cup {t}
      /\ want[t] = NoMutex /\ m # NoMutex
  BY LockBlockLists, CallerRuns, MutexAssumption DEF LockBlock
<1>2. /\ waiters \in [Mutexes -> Seq(Threads)]
      /\ want \in [Threads -> Mutexes \cup {NoMutex}]
  BY DEF MInv, ListsInv, MutexTypeOK
<1>3. /\ want' = [want EXCEPT ![t] = m] /\ UNCHANGED <<locked, held>>
      /\ \A n \in Mutexes \ {m} : waiters'[n] = waiters[n]
  BY <1>2 DEF LockBlock
<1>4. ASSUME NEW n \in Mutexes PROVE Owners(n)' = Owners(n)
  <2>1. CASE n = m
    BY <1>1, <1>2, <1>3, <2>1 DEF Owners
  <2>2. CASE n # m
    <3>1. want[t] # n
      BY <1>1, MutexAssumption
    <3> QED BY <1>1, <1>2, <1>3, <2>2, <3>1 DEF Owners
  <2> QED BY <2>1, <2>2
<1>5. UniqueOwner'
  BY <1>3, <1>4 DEF MInv, UniqueOwner, Mutexes
<1> QED BY <1>1, <1>4, <1>5 DEF MInv

LEMMA LockReturnMInv ==
    ASSUME MInv, NEW t \in Threads, LockReturn(t)
    PROVE  /\ MInv' /\ \A n \in Locks : Owners(n)' = Owners(n)
           /\ t \notin ToSet(waiters[want[t]])
<1>1. /\ want[t] \in Mutexes /\ Executing(t) /\ pc[t] = "user"
      /\ locked \in [Mutexes -> BOOLEAN] /\ held \in [Mutexes -> SUBSET Threads]
      /\ waiters \in [Mutexes -> Seq(Threads)]
      /\ want \in [Threads -> Mutexes \cup {NoMutex}]
  BY DEF MInv, ListsInv, MutexTypeOK, LockReturn
<1>2. sched.status[t] \in OnRunqueue
  BY <1>1, ExecutingExists DEF MInv
<1>3. \A n \in Mutexes : t \notin ToSet(waiters[n])
  BY <1>2 DEF MInv, ListsInv, WaitersAreBlocked, OnRunqueue
<1>4. /\ want' = [want EXCEPT ![t] = NoMutex]
      /\ held' = IF want[t] \in Locks
                 THEN [held EXCEPT ![want[t]] = @ \cup {t}] ELSE held
      /\ UNCHANGED <<locked, waiters>> /\ UNCHANGED schedVars
  BY DEF LockReturn, Acquired
<1>5. IInv' /\ TypeOK' /\ sched' = sched
  BY <1>4, SchedUnchanged DEF schedVars
<1>6. ListsInv'
  <2>1. MutexTypeOK'
    BY <1>1, <1>4, <1>5 DEF MutexTypeOK
  <2>2. WaitersAreBlocked'
    <3>1. ASSUME NEW n \in Mutexes, NEW u \in Threads
          PROVE  u \in ToSet(waiters'[n]) <=>
                    (sched'.status[u] = "MUTEX_BLOCKED" /\ want'[u] = n)
      BY <1>1, <1>2, <1>3, <1>4, <1>5 DEF MInv, ListsInv, WaitersAreBlocked, OnRunqueue
    <3> QED BY <1>4, <3>1 DEF MInv, ListsInv, WaitersAreBlocked
  <2>3. WaitersSorted' /\ LockersStay'
    BY <1>1, <1>4, <1>5 DEF MInv, ListsInv, WaitersSorted, LockersStay
  <2> QED BY <2>1, <2>2, <2>3 DEF ListsInv
<1>7. ASSUME NEW n \in Locks PROVE Owners(n)' = Owners(n)
  <2>1. n \in Mutexes /\ n # NoMutex
    BY MutexAssumption DEF Mutexes
  <2>2. CASE n = want[t]
    BY <1>1, <1>3, <1>4, <2>1, <2>2 DEF Owners
  <2>3. CASE n # want[t]
    BY <1>1, <1>4, <2>1, <2>3 DEF Owners
  <2> QED BY <2>2, <2>3
<1>8. UniqueOwner'
  BY <1>4, <1>7 DEF MInv, UniqueOwner
<1> QED BY <1>1, <1>3, <1>5, <1>6, <1>7, <1>8 DEF MInv

(* Without a waiter, unlock() of a lock leaves it without an owner. *)
LEMMA FreeOwners ==
    ASSUME MInv, NEW t \in Threads, NEW m \in Mutexes, waiters[m] = <<>>,
           locked' = [locked EXCEPT ![m] = FALSE], UNCHANGED <<waiters, want>>,
           \A n \in Mutexes \ {m} : held'[n] = held[n],
           m \in Locks => /\ t \in held[m] /\ want[t] = NoMutex
                         /\ held'[m] = held[m] \ {t}
    PROVE  /\ UniqueOwner'
           /\ m \in Locks => Owners(m) = {t} /\ Owners(m)' = {}
           /\ \A n \in Locks \ {m} : Owners(n)' = Owners(n)
<1>1. \A n \in Locks : n \in Mutexes /\ n # NoMutex
  BY MutexAssumption DEF Mutexes
<1>2. \A n \in Locks \ {m} : Owners(n)' = Owners(n)
  BY <1>1 DEF Owners
<1>3. ASSUME m \in Locks PROVE Owners(m) = {t} /\ Owners(m)' = {}
  <2>1. t \in Owners(m) /\ \A x, y \in Owners(m) : x = y
    BY <1>3 DEF Owners, MInv, UniqueOwner
  <2>2. Owners(m)' = Owners(m) \ {t}
    BY <1>1, <1>3 DEF Owners
  <2> QED BY <2>1, <2>2
<1>4. locked \in [Mutexes -> BOOLEAN]
  BY DEF MInv, ListsInv, MutexTypeOK
<1>5. UniqueOwner'
  <2> SUFFICES ASSUME NEW n \in Locks
               PROVE  /\ \A x, y \in Owners(n)' : x = y
                      /\ locked'[n] <=> Owners(n)' # {}
    BY DEF UniqueOwner
  <2>1. CASE n = m
    BY <1>1, <1>3, <1>4, <2>1
  <2>2. CASE n # m
    BY <1>1, <1>2, <1>4, <2>2 DEF MInv, UniqueOwner
  <2> QED BY <2>1, <2>2
<1> QED BY <1>2, <1>3, <1>5

(* With one, unlock() of a lock makes the first waiter the owner. *)
LEMMA GiveOwners ==
    ASSUME MInv, NEW t \in Threads, NEW m \in Mutexes, waiters[m] # <<>>,
           Give(m), UNCHANGED want,
           \A n \in Mutexes \ {m} : held'[n] = held[n],
           m \in Locks => /\ t \in held[m] /\ want[t] = NoMutex
                         /\ held'[m] = held[m] \ {t}
    PROVE  /\ UniqueOwner'
           /\ m \in Locks => Owners(m) = {t} /\ Owners(m)' = {Head(waiters[m])}
           /\ \A n \in Locks \ {m} : /\ Owners(n)' = Owners(n)
                                    /\ waiters'[n] = waiters[n]
<1> DEFINE h == Head(waiters[m])
<1>1. \A n \in Locks : n \in Mutexes /\ n # NoMutex
  BY MutexAssumption DEF Mutexes
<1>2. /\ h \in Threads /\ h \in ToSet(waiters[m]) /\ want[h] = m
      /\ waiters' = [waiters EXCEPT ![m] = Tail(waiters[m])]
      /\ ToSet(waiters'[m]) = ToSet(waiters[m]) \ {h}
      /\ UNCHANGED locked /\ locked[m]
  BY GiveLists DEF Give, MInv, ListsInv, WaitersAreBlocked
<1> HIDE DEF h
<1>3. waiters \in [Mutexes -> Seq(Threads)]
  BY DEF MInv, ListsInv, MutexTypeOK
<1>4. \A n \in Locks \ {m} : waiters'[n] = waiters[n] /\ Owners(n)' = Owners(n)
  BY <1>1, <1>2, <1>3 DEF Owners
<1>5. ASSUME m \in Locks PROVE Owners(m) = {t} /\ Owners(m)' = {h}
  <2>1. t \in Owners(m) /\ \A x, y \in Owners(m) : x = y
    BY <1>5 DEF Owners, MInv, UniqueOwner
  <2>2. Owners(m)' = (Owners(m) \ {t}) \cup {h}
    BY <1>1, <1>2, <1>5 DEF Owners
  <2> QED BY <2>1, <2>2
<1>6. UniqueOwner'
  BY <1>2, <1>4, <1>5 DEF MInv, UniqueOwner
<1> QED BY <1>4, <1>5, <1>6 DEF h

(* unlock() and unlock_and_sleep() of a mutex without a waiter, in a       *)
(* thread or in a handler.                                                 *)
FreesMutex(t, m) ==
    \/ UnlockFree(t, m)
    \/ UnlockAndSleep(t, m) /\ waiters[m] = <<>>
    \/ m \in Signals /\ IsrUnlockFree(m)

LEMMA UnlockFreeMInv ==
    ASSUME MInv, NEW t \in Threads, NEW m \in Mutexes, FreesMutex(t, m)
    PROVE  /\ MInv' /\ waiters[m] = <<>> /\ UNCHANGED waiters
           /\ m \in Locks => Owners(m) = {t} /\ Owners(m)' = {}
           /\ \A n \in Locks \ {m} : Owners(n)' = Owners(n)
<1>1. /\ locked \in [Mutexes -> BOOLEAN] /\ held \in [Mutexes -> SUBSET Threads]
  BY DEF MInv, ListsInv, MutexTypeOK
<1>2. /\ waiters[m] = <<>> /\ locked' = [locked EXCEPT ![m] = FALSE]
      /\ UNCHANGED <<sched, waiters, want>>
  BY DEF FreesMutex, UnlockFree, UnlockAndSleep, IsrUnlockFree, schedVars
<1>3. /\ held' \in [Mutexes -> SUBSET Threads]
      /\ \A n \in Mutexes \ {m} : held'[n] = held[n]
      /\ m \in Locks => /\ t \in held[m] /\ want[t] = NoMutex
                        /\ held'[m] = held[m] \ {t}
  BY <1>1, MutexAssumption DEF FreesMutex, UnlockFree, UnlockAndSleep, IsrUnlockFree,
     Released, MayUnlock, InUser
<1>4. IInv'
  <2>1. CASE UNCHANGED schedVars
    BY <2>1, SchedUnchanged
  <2>2. CASE UnlockAndSleep(t, m)
    <3>1. /\ Executing(t) /\ pc[t] = "user" /\ "sleep" \in PcLabels
          /\ pc' = [pc EXCEPT ![t] = "sleep"] /\ request' \in BOOLEAN
          /\ UNCHANGED <<active, cpuVars, pidVars, arg, deferred>>
      BY <2>2 DEF UnlockAndSleep, InUser, PcLabels, MInv, IInv, TypeOK, cpuVars
    <3> QED BY <1>2, <3>1, PlaceIInv DEF MInv, cpuVars
  <2> QED BY <2>1, <2>2 DEF FreesMutex, UnlockFree, IsrUnlockFree
<1>5. ListsInv'
  <2>1. \A v \in Threads : Moved(v)
    BY <1>2 DEF Moved
  <2> QED BY <1>1, <1>2, <1>3, <1>4, <2>1, OtherLists DEF IInv
<1> QED BY <1>2, <1>3, <1>4, <1>5, FreeOwners DEF MInv

(* The same of a mutex with a waiter. *)
GivesMutex(t, m) ==
    /\ waiters[m] # <<>>
    /\ \/ UnlockGive(t, m) \/ UnlockAndSleep(t, m)
       \/ m \in Signals /\ IsrUnlockGive(m)

LEMMA UnlockGiveMInv ==
    ASSUME MInv, NEW t \in Threads, NEW m \in Mutexes, GivesMutex(t, m)
    PROVE  LET h == Head(waiters[m])
           IN  /\ MInv' /\ h \in ToSet(waiters[m]) /\ h \in Threads
               /\ \A u \in ToSet(waiters[m]) : Priority[h] <= Priority[u]
               /\ waiters' = [waiters EXCEPT ![m] = Tail(waiters[m])]
               /\ ToSet(waiters'[m]) = ToSet(waiters[m]) \ {h}
               /\ m \in Locks => Owners(m) = {t} /\ Owners(m)' = {h}
               /\ \A n \in Locks \ {m} : /\ Owners(n)' = Owners(n)
                                        /\ waiters'[n] = waiters[n]
<1> DEFINE h == Head(waiters[m])
<1>1. /\ held \in [Mutexes -> SUBSET Threads]
      /\ waiters[m] # <<>> /\ Give(m) /\ UNCHANGED want
  BY DEF MInv, ListsInv, MutexTypeOK, GivesMutex, UnlockGive, UnlockAndSleep, IsrUnlockGive
<1>2. /\ h \in Threads /\ h \in ToSet(waiters[m])
      /\ sched.status[h] = "MUTEX_BLOCKED" /\ want[h] = m
      /\ \A u \in ToSet(waiters[m]) : Priority[h] <= Priority[u]
      /\ sched' = SetThreadStatus(sched, h, "PENDING")
      /\ waiters' = [waiters EXCEPT ![m] = Tail(waiters[m])]
      /\ ToSet(waiters'[m]) = ToSet(waiters[m]) \ {h}
  BY <1>1, GiveLists
<1> HIDE DEF h
<1>3. /\ held' \in [Mutexes -> SUBSET Threads]
      /\ \A n \in Mutexes \ {m} : held'[n] = held[n]
      /\ m \in Locks => /\ t \in held[m] /\ want[t] = NoMutex
                        /\ held'[m] = held[m] \ {t}
  BY <1>1, MutexAssumption DEF GivesMutex, UnlockGive, UnlockAndSleep, IsrUnlockGive,
     Released, MayUnlock, InUser
<1>4. IInv'
  <2>1. /\ pc \in [Threads -> PcLabels] /\ arg \in [Threads -> Prios \cup {0}]
        /\ request \in BOOLEAN /\ pendsv \in BOOLEAN
        /\ Priority[h] \in Prios /\ "switch" \in PcLabels /\ "sleep" \in PcLabels
        /\ pendsv => active # NoThread
    BY <1>2, SchedAssumption DEF MInv, IInv, TypeOK, PcLabels, CpuConsistent
  <2>2. /\ UNCHANGED <<active, irqOff, booted, pidVars, deferred>>
        /\ pendsv => pendsv'
        /\ pendsv' => active # NoThread
        /\ request' \in BOOLEAN /\ pendsv' \in BOOLEAN
        /\ pc' \in [Threads -> PcLabels] /\ arg' \in [Threads -> Prios \cup {0}]
        /\ \A v \in Threads : v = active /\ pc'[v] # "yield" => pc[v] # "yield"
    <3>1. CASE UnlockGive(t, m)
      BY <2>1, <3>1, SchedAssumption DEF UnlockGive, InUser, Executing, cpuVars, h
    <3>2. CASE UnlockAndSleep(t, m)
      BY <2>1, <3>2, SchedAssumption DEF UnlockAndSleep, InUser, Executing, cpuVars
    <3>3. CASE IsrUnlockGive(m)
      BY <2>1, <3>3 DEF IsrUnlockGive, IsrEnabled, EndOfIsr, codeVars
    <3> QED BY <3>1, <3>2, <3>3 DEF GivesMutex
  <2>3. sched.status[h] \in OffRunqueue \ {"STOPPED"}
    BY <1>2 DEF OffRunqueue
  <2>4. IInv
    BY DEF MInv
  <2> QED BY <1>2, <2>2, <2>3, <2>4, ReadyIInv
<1>5. ListsInv'
  <2>1. TypeOK'
    BY <1>4 DEF IInv
  <2> QED BY <1>1, <1>3, <2>1, GiveLists
<1>6. /\ UniqueOwner'
      /\ m \in Locks => Owners(m) = {t} /\ Owners(m)' = {Head(waiters[m])}
      /\ \A n \in Locks \ {m} : /\ Owners(n)' = Owners(n)
                               /\ waiters'[n] = waiters[n]
  BY <1>1, <1>3, GiveOwners
<1> QED BY <1>2, <1>4, <1>5, <1>6 DEF MInv, h

(* The steps of the rest of the kernel, and calls that change nothing. *)
LEMMA SchedStepMInv ==
    ASSUME MInv, UNCHANGED mutexVars,
           SystemStep \/ (\E t \in Threads : SchedCall(t)) \/ UNCHANGED schedVars
    PROVE  MInv'
<1>1. IInv'
  BY SchedStepIInv DEF SchedCall, MInv
<1>2. \A v \in Threads :
         \/ Moved(v)
         \/ /\ want[v] = NoMutex /\ sched.status[v] \in OnRunqueue
            /\ sched'.status[v] \in {"SLEEPING", "STOPPED"}
         \/ sched.status[v] \in Terminable /\ sched'.status[v] = "STOPPED"
  <2>1. CASE SystemStep
    BY <2>1, SystemMoves DEF MInv
  <2>2. CASE \E t \in Threads : SchedCall(t)
    BY <2>2, UserCallMoves DEF SchedCall, MInv
  <2>3. CASE UNCHANGED schedVars
    BY <2>3, SchedUnchanged
  <2> QED BY <2>1, <2>2, <2>3
<1>3. /\ UNCHANGED <<locked, waiters, want, held>>
      /\ locked \in [Mutexes -> BOOLEAN] /\ held \in [Mutexes -> SUBSET Threads]
  BY DEF mutexVars, MInv, ListsInv, MutexTypeOK
<1>4. ListsInv'
  BY <1>1, <1>2, <1>3, OtherLists DEF IInv
<1>5. UniqueOwner'
  BY <1>3 DEF MInv, UniqueOwner, Owners
<1> QED BY <1>1, <1>4, <1>5 DEF MInv

(* Who owns which lock, and who waits, stays. *)
Quiet == UNCHANGED waiters /\ \A n \in Locks : Owners(n)' = Owners(n)

(* Every step keeps the invariant, and is one of five kinds. *)
LEMMA MutexSteps ==
    ASSUME ~PeeksAtWaiters, MInv, [MutexNext]_vars
    PROVE  /\ MInv'
           /\ \/ Quiet
              \/ \E t \in Threads, m \in Mutexes :
                   \/ LockFree(t, m) \/ LockBlock(t, m)
                   \/ FreesMutex(t, m) \/ GivesMutex(t, m)
<1>1. ASSUME UNCHANGED mutexVars,
             SystemStep \/ (\E t \in Threads : SchedCall(t)) \/ UNCHANGED schedVars
      PROVE  MInv' /\ Quiet
  BY <1>1, SchedStepMInv DEF mutexVars, Quiet, Owners
<1>2. CASE /\ UNCHANGED mutexVars
           /\ Boot \/ SwitchContextExit \/ PendSV
              \/ (\E t \in Threads : KernelStep(t)) \/ \E u \in Threads : IsrWakeup(u)
  BY <1>1, <1>2 DEF SystemStep
<1>3. CASE \E t \in Threads : SchedCall(t)
  BY <1>1, <1>3 DEF SchedCall
<1>4. ASSUME NEW t \in Threads, NEW m \in Mutexes,
             LockFree(t, m) \/ LockBlock(t, m) \/ FreesMutex(t, m) \/ GivesMutex(t, m)
      PROVE  MInv'
  BY <1>4, LockFreeMInv, LockBlockMInv, UnlockFreeMInv, UnlockGiveMInv
<1>5. ASSUME NEW t \in Threads, NEW m \in Mutexes, Unlock(t, m) \/ UnlockAndSleep(t, m)
      PROVE  FreesMutex(t, m) \/ GivesMutex(t, m)
                \/ UNCHANGED <<schedVars, mutexVars>>
  BY <1>5 DEF Unlock, UnlockGive, UnlockNothing, FreesMutex, GivesMutex
<1>6. ASSUME NEW t \in Threads, NEW m \in Mutexes, Peek(t, m)
      PROVE  UNCHANGED <<schedVars, mutexVars>>
  BY <1>6 DEF Peek, MInv, IInv, TypeOK, pidVars, codeVars, schedVars
<1>7. CASE \E t \in Threads : MutexCall(t)
  <2>1. PICK t \in Threads : MutexCall(t)
    BY <1>7
  <2>2. CASE LockReturn(t)
    BY <2>2, LockReturnMInv DEF Quiet, LockReturn
  <2>3. CASE \E m \in Mutexes : \/ LockFree(t, m) \/ LockBlock(t, m) \/ Unlock(t, m)
                               \/ UnlockAndSleep(t, m) \/ Peek(t, m)
    BY <1>1, <1>4, <1>5, <1>6, <2>3
  <2> QED BY <2>1, <2>2, <2>3 DEF MutexCall
<1>8. CASE MutexIsr
  <2>1. PICK m \in Signals : IsrUnlock(m)
    BY <1>8 DEF MutexIsr
  <2>2. m \in Mutexes /\ Idle \in Threads
    BY SchedAssumption DEF Mutexes
  <2>3. \/ FreesMutex(Idle, m) \/ GivesMutex(Idle, m)
        \/ UNCHANGED <<schedVars, mutexVars>>
    BY <2>1 DEF IsrUnlock, IsrUnlockNothing, IsrUnlockGive, FreesMutex, GivesMutex
  <2> QED BY <1>1, <1>4, <2>2, <2>3
<1>9. CASE UNCHANGED vars
  BY <1>1, <1>9 DEF vars
<1> QED BY <1>2, <1>3, <1>7, <1>8, <1>9 DEF MutexNext

-----------------------------------------------------------------------------
(* Every state a program reaches that does not peek() at waiters satisfies *)
(* the invariant.                                                          *)
THEOREM MutexInvariance ==
    ASSUME ~PeeksAtWaiters
    PROVE  MutexSpec => []MInv
<1>1. MInv /\ [MutexNext]_vars => MInv'
  BY MutexSteps
<1>2. MutexInit => MInv
  BY InitMInv DEF MutexInit
<1> QED BY <1>1, <1>2, PTL DEF MutexSpec

(* No variable of the mutexes leaves its type. *)
THEOREM MutexTypeCorrect ==
    ASSUME ~PeeksAtWaiters
    PROVE  MutexSpec => []MutexTypeOK
<1>1. MInv => MutexTypeOK
  BY DEF MInv, ListsInv
<1> QED BY <1>1, MutexInvariance, PTL

(* The one list node of a thread is never in two lists: it is in the list  *)
(* of a mutex exactly while the thread waits for it, and with              *)
(* RunqueuesAgree then in no run queue.                                    *)
THEOREM OneListPerThread ==
    ASSUME ~PeeksAtWaiters
    PROVE  MutexSpec => [](WaitersAreBlocked /\ RunqueueConsistent)
<1>1. MInv => WaitersAreBlocked /\ RunqueueConsistent
  BY DEF MInv, ListsInv, IInv
<1> QED BY <1>1, MutexInvariance, PTL

(* Mutual exclusion: lock() returns to one thread at a time, also when     *)
(* unlock() hands the lock over to a thread that does not run yet.         *)
THEOREM MutualExclusion ==
    ASSUME ~PeeksAtWaiters
    PROVE  MutexSpec => []OneOwner
<1>1. ASSUME MInv PROVE OneOwner
  <2> SUFFICES ASSUME NEW m \in Locks
               PROVE  Cardinality(Owners(m)) <= 1 /\ (locked[m] <=> Owners(m) # {})
    BY DEF OneOwner
  <2>1. /\ \A x, y \in Owners(m) : x = y
        /\ locked[m] <=> Owners(m) # {}
    BY <1>1 DEF MInv, UniqueOwner
  <2>2. CASE Owners(m) = {}
    BY <2>1, <2>2, FS_EmptySet
  <2>3. CASE Owners(m) # {}
    <3>1. PICK x : Owners(m) = {x}
      BY <2>1, <2>3
    <3>2. Cardinality(Owners(m)) = 1
      BY <3>1, FS_Singleton
    <3> QED BY <2>1, <3>2
  <2> QED BY <2>2, <2>3
<1> QED BY <1>1, MutexInvariance, PTL

(* A thread that waits for a mutex does not go on before the mutex is      *)
(* given to it.  Without the assumption on peek() this is refuted.         *)
THEOREM LockWaits ==
    ASSUME ~PeeksAtWaiters
    PROVE  MutexSpec => []LockBlocks
<1>1. ASSUME MInv PROVE LockBlocks
  <2> SUFFICES ASSUME NEW t \in Threads, Executing(t), pc[t] = "user", want[t] # NoMutex
               PROVE  t \notin ToSet(waiters[want[t]])
    BY DEF LockBlocks
  <2>1. sched.status[t] \in OnRunqueue
    BY <1>1, ExecutingExists DEF MInv
  <2>2. want[t] \in Mutexes
    BY <1>1 DEF MInv, ListsInv, MutexTypeOK
  <2> QED BY <1>1, <2>1, <2>2 DEF MInv, ListsInv, WaitersAreBlocked, OnRunqueue
<1> QED BY <1>1, MutexInvariance, PTL

LEMMA ArrivalNext ==
    ASSUME ~PeeksAtWaiters, MInv, [MutexNext]_vars, NEW n \in Mutexes,
           NEW u \in Threads, NEW v \in Threads, u \in ToSet(waiters[n]),
           Priority[u] <= Priority[v], Before(waiters'[n], v, u)
    PROVE  Before(waiters[n], v, u)
<1>1. waiters \in [Mutexes -> Seq(Threads)]
  BY DEF MInv, ListsInv, MutexTypeOK
<1>2. CASE UNCHANGED waiters
  BY <1>2
<1>3. ASSUME NEW t \in Threads, NEW m \in Mutexes, LockBlock(t, m)
      PROVE  Before(waiters[n], v, u)
  <2>1. CASE n = m
    BY <1>3, <2>1, LockBlockLists
  <2>2. CASE n # m
    BY <1>1, <1>3, <2>2 DEF LockBlock
  <2> QED BY <2>1, <2>2
<1>4. ASSUME NEW t \in Threads, NEW m \in Mutexes, GivesMutex(t, m)
      PROVE  Before(waiters[n], v, u)
  <2>1. waiters' = [waiters EXCEPT ![m] = Tail(waiters[m])] /\ waiters[m] # <<>>
    BY <1>4, UnlockGiveMInv DEF GivesMutex
  <2>2. CASE n = m
    BY <1>1, <2>1, <2>2, TailKeepsOrder
  <2>3. CASE n # m
    BY <1>1, <2>1, <2>3
  <2> QED BY <2>2, <2>3
<1>5. ASSUME NEW t \in Threads, NEW m \in Mutexes, LockFree(t, m) \/ FreesMutex(t, m)
      PROVE  UNCHANGED waiters
  BY <1>5, UnlockFreeMInv DEF LockFree
<1> QED BY <1>2, <1>3, <1>4, <1>5, MutexSteps DEF Quiet

(* Waiters of one priority get the mutex in the order of their calls. *)
THEOREM WaitersInOrder ==
    ASSUME ~PeeksAtWaiters
    PROVE  MutexSpec => ArrivalOrder
<1> DEFINE Kept == \A m \in Mutexes, u, v \in Threads :
                      /\ u \in ToSet(waiters[m])
                      /\ Priority[u] <= Priority[v]
                      /\ Before(waiters[m], v, u)'
                      => Before(waiters[m], v, u)
<1>1. MInv /\ [MutexNext]_vars => Kept
  <2> SUFFICES ASSUME MInv, [MutexNext]_vars, NEW m \in Mutexes,
                      NEW u \in Threads, NEW v \in Threads,
                      u \in ToSet(waiters[m]), Priority[u] <= Priority[v],
                      Before(waiters[m], v, u)'
               PROVE  Before(waiters[m], v, u)
    OBVIOUS
  <2>1. Before(waiters'[m], v, u)
    BY DEF Before
  <2> QED BY <2>1, ArrivalNext
<1>2. ArrivalOrder <=> [][Kept]_vars
  BY DEF ArrivalOrder
<1> HIDE DEF Kept
<1>3. MutexSpec => [][Kept]_vars
  BY <1>1, MutexInvariance, PTL DEF MutexSpec
<1> QED BY <1>2, <1>3

-----------------------------------------------------------------------------
(* The locks implement the abstract locks of PriorityLock.                 *)

ownerMap == [l \in Locks |-> OwnerOf(l)]
waitingMap == [l \in Locks |-> ToSet(waiters[l])]

LEMMA AnyOfEmpty == AnyOf({}) = NoThread
BY DEF AnyOf

LEMMA AnyOfOne ==
    ASSUME NEW x
    PROVE  AnyOf({x}) = x
BY DEF AnyOf

(* What a step leaves of the owners and the waiters of the other locks. *)
LEMMA OthersMap ==
    ASSUME NEW m \in Locks,
           \A n \in Locks \ {m} : Owners(n)' = Owners(n) /\ waiters'[n] = waiters[n]
    PROVE  /\ ownerMap' = [ownerMap EXCEPT ![m] = OwnerOf(m)']
           /\ waitingMap' = [waitingMap EXCEPT ![m] = ToSet(waiters'[m])]
<1>1. \A n \in Locks \ {m} : OwnerOf(n)' = OwnerOf(n)
  BY DEF OwnerOf
<1> QED BY <1>1 DEF ownerMap, waitingMap

LEMMA QuietMap ==
    ASSUME Quiet
    PROVE  UNCHANGED <<ownerMap, waitingMap>>
<1>1. \A n \in Locks : OwnerOf(n)' = OwnerOf(n)
  BY DEF OwnerOf, Quiet
<1> QED BY <1>1 DEF ownerMap, waitingMap, Quiet

(* The step of the abstract lock m. *)
LockStep(m) ==
    \/ PL!Release(m)
    \/ \E t \in Threads : PL!Acquire(t, m) \/ PL!Wait(t, m) \/ PL!Pass(t, m)

LEMMA MapsToLock ==
    ASSUME MInv, NEW t \in Threads, NEW m \in Locks,
           \/ LockFree(t, m) \/ LockBlock(t, m)
           \/ FreesMutex(t, m) \/ GivesMutex(t, m)
    PROVE  LockStep(m)
<1>1. /\ m \in Mutexes /\ NoThread \notin Threads
      /\ waiters \in [Mutexes -> Seq(Threads)] /\ \A n \in Locks : n \in Mutexes
  BY SchedAssumption DEF Mutexes, MInv, ListsInv, MutexTypeOK
<1>2. /\ ownerMap[m] = OwnerOf(m) /\ waitingMap[m] = ToSet(waiters[m])
      /\ ownerMap = [n \in Locks |-> OwnerOf(n)]
      /\ waitingMap = [n \in Locks |-> ToSet(waiters[n])]
  BY DEF ownerMap, waitingMap
<1>3. CASE LockFree(t, m)
  <2>1. /\ Owners(m) = {} /\ Owners(m)' = {t} /\ UNCHANGED waiters
        /\ \A n \in Locks \ {m} : Owners(n)' = Owners(n)
    BY <1>1, <1>3, LockFreeMInv DEF LockFree, Owners, Acquired, MInv, ListsInv, MutexTypeOK
  <2>2. OwnerOf(m) = NoThread /\ OwnerOf(m)' = t
    BY <2>1, AnyOfEmpty, AnyOfOne DEF OwnerOf
  <2>3. ownerMap' = [ownerMap EXCEPT ![m] = t] /\ UNCHANGED waitingMap
    BY <2>1, <2>2, OthersMap DEF waitingMap
  <2> QED BY <1>2, <2>2, <2>3 DEF LockStep, PL!Acquire, ownerMap, waitingMap
<1>4. CASE LockBlock(t, m)
  <2>1. /\ \A n \in Locks : Owners(n)' = Owners(n)
        /\ ToSet(waiters'[m]) = ToSet(waiters[m]) \cup {t}
        /\ \A n \in Locks \ {m} : waiters'[n] = waiters[n]
    BY <1>1, <1>4, LockBlockMInv, LockBlockLists DEF LockBlock
  <2>2. Owners(m) # {}
    BY <1>4 DEF LockBlock, MInv, UniqueOwner
  <2>3. OwnerOf(m) \in Owners(m) /\ OwnerOf(m) # NoThread /\ OwnerOf(m)' = OwnerOf(m)
    <3>1. Owners(m) \subseteq Threads
      BY <1>1 DEF Owners, MInv, ListsInv, MutexTypeOK
    <3>2. OwnerOf(m) \in Owners(m)
      BY <2>2 DEF OwnerOf, AnyOf
    <3>3. OwnerOf(m)' = OwnerOf(m)
      BY <2>1 DEF OwnerOf
    <3> QED BY <1>1, <3>1, <3>2, <3>3
  <2>4. /\ ownerMap' = ownerMap
        /\ waitingMap' = [waitingMap EXCEPT ![m] = ToSet(waiters[m]) \cup {t}]
    BY <1>2, <2>1, <2>3, OthersMap DEF ownerMap
  <2> QED BY <1>2, <2>1, <2>3, <2>4 DEF LockStep, PL!Wait, ownerMap, waitingMap
<1>5. CASE FreesMutex(t, m)
  <2>1. /\ Owners(m) = {t} /\ Owners(m)' = {} /\ UNCHANGED waiters
        /\ waiters[m] = <<>> /\ \A n \in Locks \ {m} : Owners(n)' = Owners(n)
    BY <1>1, <1>5, UnlockFreeMInv
  <2>2. OwnerOf(m) = t /\ OwnerOf(m)' = NoThread /\ ToSet(waiters[m]) = {}
    BY <2>1, AnyOfEmpty, AnyOfOne DEF OwnerOf, ToSet
  <2>3. ownerMap' = [ownerMap EXCEPT ![m] = NoThread] /\ UNCHANGED waitingMap
    BY <2>1, <2>2, OthersMap DEF waitingMap
  <2> QED BY <1>1, <1>2, <2>2, <2>3 DEF LockStep, PL!Release, ownerMap, waitingMap
<1>6. CASE GivesMutex(t, m)
  <2> DEFINE h == Head(waiters[m])
  <2>1. /\ h \in ToSet(waiters[m]) /\ h \in Threads
        /\ \A u \in ToSet(waiters[m]) : Priority[h] <= Priority[u]
        /\ ToSet(waiters'[m]) = ToSet(waiters[m]) \ {h}
        /\ Owners(m) = {t} /\ Owners(m)' = {h}
        /\ \A n \in Locks \ {m} : Owners(n)' = Owners(n) /\ waiters'[n] = waiters[n]
    BY <1>1, <1>6, UnlockGiveMInv
  <2> HIDE DEF h
  <2>2. OwnerOf(m) = t /\ OwnerOf(m)' = h
    BY <2>1, AnyOfEmpty, AnyOfOne DEF OwnerOf
  <2>3. /\ ownerMap' = [ownerMap EXCEPT ![m] = h]
        /\ waitingMap' = [waitingMap EXCEPT ![m] = ToSet(waiters[m]) \ {h}]
    BY <2>1, <2>2, OthersMap
  <2> QED BY <1>1, <1>2, <2>1, <2>2, <2>3 DEF LockStep, PL!Pass, ownerMap, waitingMap
<1> QED BY <1>3, <1>4, <1>5, <1>6

(* A step on a signal is none of any lock. *)
LEMMA SignalIsQuiet ==
    ASSUME MInv, NEW t \in Threads, NEW m \in Mutexes, m \notin Locks,
           \/ LockFree(t, m) \/ LockBlock(t, m)
           \/ FreesMutex(t, m) \/ GivesMutex(t, m)
    PROVE  \A n \in Locks : Owners(n)' = Owners(n) /\ waiters'[n] = waiters[n]
<1>1. /\ waiters \in [Mutexes -> Seq(Threads)] /\ \A n \in Locks : n \in Mutexes
      /\ \A n \in Locks : n # m
  BY DEF Mutexes, MInv, ListsInv, MutexTypeOK
<1>2. CASE LockFree(t, m)
  BY <1>1, <1>2 DEF LockFree, Owners, Acquired
<1>3. CASE LockBlock(t, m)
  BY <1>1, <1>3, LockBlockMInv DEF LockBlock
<1>4. CASE FreesMutex(t, m)
  BY <1>1, <1>4, UnlockFreeMInv
<1>5. CASE GivesMutex(t, m)
  BY <1>1, <1>5, UnlockGiveMInv
<1> QED BY <1>2, <1>3, <1>4, <1>5

(* The locks are locks that one thread owns at a time and that a release   *)
(* passes straight to a most urgent waiter, for every number of locks.     *)
THEOREM LocksRefine ==
    ASSUME ~PeeksAtWaiters
    PROVE  MutexSpec => ImplementsPriorityLock
<1>1. MutexInit => PL!Init
  <2> SUFFICES ASSUME MutexInit PROVE PL!Init
    OBVIOUS
  <2>1. ASSUME NEW n \in Locks PROVE OwnerOf(n) = NoThread /\ ToSet(waiters[n]) = {}
    <3>1. Owners(n) = {} /\ waiters[n] = <<>>
      BY MutexAssumption DEF MutexInit, MutexInitLocked, Mutexes, Owners
    <3> QED BY <3>1, AnyOfEmpty DEF OwnerOf, ToSet
  <2> QED BY <2>1 DEF PL!Init
<1>2. MInv /\ [MutexNext]_vars => [PL!Next]_<<ownerMap, waitingMap>>
  <2> SUFFICES ASSUME MInv, [MutexNext]_vars
               PROVE  PL!Next \/ UNCHANGED <<ownerMap, waitingMap>>
    OBVIOUS
  <2>1. CASE Quiet
    BY <2>1, QuietMap
  <2>2. ASSUME NEW t \in Threads, NEW m \in Mutexes,
               \/ LockFree(t, m) \/ LockBlock(t, m)
               \/ FreesMutex(t, m) \/ GivesMutex(t, m)
        PROVE  PL!Next \/ UNCHANGED <<ownerMap, waitingMap>>
    <3>1. CASE m \in Locks
      BY <2>2, <3>1, MapsToLock DEF LockStep, PL!Next
    <3>2. CASE m \notin Locks
      <4>1. \A n \in Locks : Owners(n)' = Owners(n) /\ waiters'[n] = waiters[n]
        BY <2>2, <3>2, SignalIsQuiet
      <4>2. \A n \in Locks : OwnerOf(n)' = OwnerOf(n)
        BY <4>1 DEF OwnerOf
      <4> QED BY <4>1, <4>2 DEF ownerMap, waitingMap
    <3> QED BY <3>1, <3>2
  <2> QED BY <2>1, <2>2, MutexSteps
<1>3. MInv /\ [MutexNext]_vars =>
          [PL!Next]_<<[l \in Locks |-> OwnerOf(l)], [l \in Locks |-> ToSet(waiters[l])]>>
  BY <1>2 DEF ownerMap, waitingMap
<1> QED BY <1>1, <1>3, MutexInvariance, PTL
        DEF MutexSpec, ImplementsPriorityLock, PL!Spec

=============================================================================
