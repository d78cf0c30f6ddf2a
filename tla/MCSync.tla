------------------------------- MODULE MCSync -------------------------------
(* A recursive mutex, and a semaphore, each used by three threads of       *)
(* different priorities; the idle one tries and posts but does not wait.   *)
(* A thread locks twice at most, and the semaphore counts to two.          *)
EXTENDS Rmutex, Sema, TLC

CONSTANTS idle, a, c

MCThreads  == {idle, a, c}
MCPriority == (idle :> 2) @@ (a :> 1) @@ (c :> 0)
MCSleeping == {"SLEEPING"}

(* Bound: they share no state beyond the mutexes, so a behaviour uses one. *)
VARIABLE inUse

(* Bound: kernel_init creates the threads in one order, and no thread is   *)
(* created or ends after boot.                                             *)
Order == <<idle, a, c>>

FixedThreads ==
    IF booted THEN numof' = numof
    ELSE /\ \A i \in DOMAIN Order : pid'[Order[i]] \in {PidUndef, i}
         /\ booted' => numof' = MaxThreads

MCInit == MutexInitLocked({SemaMutex}) /\ RmutexInit /\ SemaInit /\ inUse \in {"Rmutex", "Sema"}

MCNext ==
    /\ \/ inUse = "Rmutex" /\ RmutexNext /\ UNCHANGED <<inUse, semaVars>>
       \/ inUse = "Sema" /\ SemaNext /\ UNCHANGED <<inUse, rmutexVars>>
    /\ FixedThreads

allVars == <<inUse, schedVars, mutexVars, rmutexVars, semaVars>>

MCSpec == MCInit /\ [][MCNext]_allVars
=============================================================================
