-------------------------------- MODULE Sema --------------------------------
(***************************************************************************)
(* The semaphore (source/core/sema.c): a count and a mutex that is locked  *)
(* as long as the count is zero.  The code has no wait; a thread waits by  *)
(* locking the mutex.  sema_create() runs once, before any other use.      *)
(***************************************************************************)
EXTENDS Mutex

CONSTANTS
    SemaMutex,      \* sema->mutex
    MaxValue        \* UINT_MAX

ASSUME SemaAssumption == SemaMutex \in Signals /\ MaxValue \in Nat \ {0}

VARIABLES
    value,
    state,          \* "none" before sema_create()
    posting,        \* the threads in sema_post() about to unlock the mutex
    passed          \* history: the mutex has been locked, or handed to a waiter

semaVars  == <<value, state, posting, passed>>
semaphoreVars == <<schedVars, mutexVars, semaVars>>

SemaInit == value = 0 /\ state = "none" /\ posting = {} /\ passed = FALSE

Ready(t) == InUser(t) /\ t \notin posting

(* sema_create() of a count of zero locks the mutex it has initialised.    *)
SemaCreate(t) ==
    /\ Ready(t) /\ state = "none"
    /\ value' \in 0 .. MaxValue
    /\ state' = "SEMA_OK"
    /\ locked' = [locked EXCEPT ![SemaMutex] = value' = 0]
    /\ UNCHANGED <<schedVars, waiters, want, held, posting, passed>>

(* An unlock() hands the mutex to a waiter if there is one. *)
LetsThrough == passed' = (passed \/ waiters[SemaMutex] # <<>>)

(* sema_destroy() *)
SemaDestroy(t) ==
    /\ Ready(t) /\ state # "none"
    /\ state' = "SEMA_DESTROY"
    /\ Unlock(t, SemaMutex) /\ LetsThrough
    /\ UNCHANGED <<value, posting>>

(* Fault: unlock only if the count is above zero already. *)
IsFirstPostLate == value = 1

(* The post that counts from zero unlocks the mutex. *)
IsFirstPost == value = 0

(* sema_post(), which fails if the count is at its limit. *)
SemaPost(t) ==
    /\ Ready(t) /\ state # "none"
    /\ value < MaxValue
    /\ value' = value + 1
    /\ posting' = IF IsFirstPost THEN posting \cup {t} ELSE posting
    /\ UNCHANGED <<schedVars, mutexVars, state, passed>>

(* Interrupts were enabled since the count. *)
SemaPostEnds(t) ==
    /\ t \in posting
    /\ posting' = posting \ {t}
    /\ Unlock(t, SemaMutex) /\ LetsThrough
    /\ UNCHANGED <<value, state>>

(* sema_post() in an interrupt handler. *)
IsrSemaPost ==
    /\ state # "none"
    /\ value < MaxValue
    /\ value' = value + 1
    /\ IF IsFirstPost THEN IsrUnlock(SemaMutex) /\ LetsThrough
       ELSE IsrEnabled /\ UNCHANGED <<schedVars, mutexVars, passed>>
    /\ UNCHANGED <<state, posting>>

(* lock() of the mutex by a thread that waits. *)
SemaWait(t) ==
    /\ Ready(t) /\ state # "none"
    /\ \/ LockFree(t, SemaMutex) /\ passed' = TRUE
       \/ LockBlock(t, SemaMutex) /\ UNCHANGED passed
    /\ UNCHANGED <<value, state, posting>>

SemaCall(t) ==
    SemaCreate(t) \/ SemaDestroy(t) \/ SemaPost(t) \/ SemaPostEnds(t) \/ SemaWait(t)

SemaNext ==
    \/ \E t \in Threads : SemaCall(t)
    \/ IsrSemaPost
    \/ /\ \/ (Boot \/ SwitchContextExit \/ PendSV) /\ UNCHANGED mutexVars
          \/ \E t \in Threads : \/ t \notin posting /\ SchedCall(t)
                                \/ KernelStep(t) /\ UNCHANGED mutexVars
                                \/ LockReturn(t)
          \/ (\E u \in Threads : IsrWakeup(u)) /\ UNCHANGED mutexVars
       /\ UNCHANGED semaVars

SemaSpec == MutexInit /\ SemaInit /\ [][SemaNext]_semaphoreVars

-----------------------------------------------------------------------------
(* Properties.                                                             *)

(* The first unit is not lost between counting it and unlocking: as long   *)
(* as nobody has been let through, threads wait only while the count is    *)
(* zero or a thread that counted from zero is ready and about to unlock.   *)
FirstUnitArrives ==
    waiters[SemaMutex] # <<>> /\ ~passed =>
        value = 0 \/ \E t \in posting : sched.status[t] \in OnRunqueue
=============================================================================
