------------------------------- MODULE Flags -------------------------------
(***************************************************************************)
(* Thread flags (source/core/thread.cpp) on top of the scheduler: a thread *)
(* waits until any, one or all of a set of its flags are set; any thread   *)
(* or interrupt handler sets them; only the thread itself clears them.     *)
(*                                                                         *)
(* A wait first checks, and blocks, with interrupts disabled, and later    *)
(* clears what it returns with interrupts disabled once more.              *)
(***************************************************************************)
EXTENDS Sched

CONSTANTS
    FlagBits,   \* the bits of thread_flags_t the program uses
    NoWait

WaitKinds == {"any", "one", "all"}

(* A call is [kind, mask]; once wait_one has chosen, "clear" and its choice. *)
WaitCalls == [kind : WaitKinds \cup {"clear"}, mask : SUBSET FlagBits]

ASSUME FlagsAssumption == FlagBits \subseteq Nat /\ NoWait \notin WaitCalls

VARIABLES
    flags,      \* thread->flags
    waited,     \* thread->waited_flags
    wait        \* the thread_flags_wait_* call that has checked or blocked

flagVars == <<flags, waited, wait>>
vars     == <<schedVars, flagVars>>

FlagsInit ==
    /\ Init
    /\ flags = [t \in Threads |-> {}]
    /\ waited = [t \in Threads |-> {}]
    /\ wait = [t \in Threads |-> NoWait]

-----------------------------------------------------------------------------
InUser(t) == Executing(t) /\ pc[t] = "user" /\ wait[t] = NoWait

(* Whether flags f satisfy a wait.                                         *)
Satisfies(f, kind, mask) ==
    IF kind = "all" THEN mask \subseteq f ELSE f \cap mask # {}

BlockedFor(kind) == IF kind = "all" THEN "FLAG_BLOCKED_ALL" ELSE "FLAG_BLOCKED_ANY"

(* Fault: wake the thread for any of the flags it waits for. *)
WakesOnAny(s, u, f) ==
    /\ s.status[u] \in {"FLAG_BLOCKED_ANY", "FLAG_BLOCKED_ALL"}
    /\ f \cap waited[u] # {}

(* Fault: take the flags the thread already had for the new ones. *)
WakesOnOld(s, u, f) ==
    \/ s.status[u] = "FLAG_BLOCKED_ANY" /\ flags[u] \cap waited[u] # {}
    \/ s.status[u] = "FLAG_BLOCKED_ALL" /\ waited[u] \subseteq flags[u]

(* thread_flags_wake: whether u, with flags f, is to be woken.             *)
Wakes(s, u, f) ==
    \/ s.status[u] = "FLAG_BLOCKED_ANY" /\ Satisfies(f, "any", waited[u])
    \/ s.status[u] = "FLAG_BLOCKED_ALL" /\ Satisfies(f, "all", waited[u])

(* thread_flags_set up to the yield.                                       *)
Raise(u, mask) ==
    LET f == flags[u] \cup mask
    IN  /\ flags' = [flags EXCEPT ![u] = f]
        /\ sched' = IF Wakes(sched, u, f) THEN SetThreadStatus(sched, u, "PENDING")
                    ELSE sched
        /\ request' = (request \/ Wakes(sched, u, f))

FlagsSet(t, u, mask) ==
    /\ InUser(t) /\ Exists(u)
    /\ Raise(u, mask)
    /\ pc' = IF Wakes(sched, u, flags'[u]) THEN [pc EXCEPT ![t] = "yield"] ELSE pc
    /\ UNCHANGED <<active, pendsv, irqOff, booted, pidVars, arg, deferred,
                   waited, wait>>

IsrFlagsSet(u, mask) ==
    /\ IsrEnabled /\ Exists(u)
    /\ Raise(u, mask)
    /\ pendsv' = EndOfIsr(request')
    /\ UNCHANGED <<active, irqOff, booted, pidVars, codeVars, deferred,
                   waited, wait>>

(* Block t in a wait, or let it pass on to its clear.                      *)
CheckFlags(t, kind, mask) ==
    /\ wait' = [wait EXCEPT ![t] = [kind |-> kind, mask |-> mask]]
    /\ IF Satisfies(flags[t], kind, mask)
       THEN UNCHANGED <<sched, pc, waited>>
       ELSE /\ waited' = [waited EXCEPT ![t] = mask]
            /\ sched' = SetThreadStatus(sched, t, BlockedFor(kind))
            /\ pc' = [pc EXCEPT ![t] = "yield"]
    /\ UNCHANGED <<active, cpuVars, pidVars, arg, deferred, flags>>

FlagsWait(t, kind, mask) ==
    /\ InUser(t) /\ t # Idle
    /\ CheckFlags(t, kind, mask)

WaitPassed(t) == Executing(t) /\ pc[t] = "user" /\ wait[t] # NoWait

(* thread_flags_wait_one chooses the least flag before it clears it.       *)
ChooseOne(t) ==
    /\ WaitPassed(t) /\ wait[t].kind = "one"
    /\ wait' = [wait EXCEPT ![t] =
                   [kind |-> "clear", mask |-> {LowestBit(flags[t] \cap @.mask)}]]
    /\ UNCHANGED <<schedVars, flags, waited>>

(* Fault: clear every flag, asked for or not. *)
ClearedAll(f, mask) == {}

(* thread_flags_clear_atomic *)
Cleared(f, mask) == f \ mask

ClearFlags(t) ==
    /\ WaitPassed(t) /\ wait[t].kind # "one"
    /\ flags' = [flags EXCEPT ![t] = Cleared(@, wait[t].mask)]
    /\ wait' = [wait EXCEPT ![t] = NoWait]
    /\ UNCHANGED <<schedVars, waited>>

FlagsClear(t, mask) ==
    /\ InUser(t)
    /\ flags' = [flags EXCEPT ![t] = Cleared(@, mask)]
    /\ UNCHANGED <<schedVars, waited, wait>>

-----------------------------------------------------------------------------
Created(u) == sched.status[u] = "STOPPED" /\ sched'.status[u] # "STOPPED"

(* A new thread has no flag set, and is in no call: the thread that had    *)
(* its control block before may have been terminated in a wait.            *)
SchedCall(t) ==
    /\ wait[t] = NoWait
    /\ UserCall(t)
    /\ flags' = [u \in Threads |-> IF Created(u) THEN {} ELSE flags[u]]
    /\ waited' = [u \in Threads |-> IF Created(u) THEN {} ELSE waited[u]]
    /\ wait' = [u \in Threads |-> IF Created(u) THEN NoWait ELSE wait[u]]

FlagsCall(t) ==
    \/ \E u \in Threads, mask \in SUBSET FlagBits : FlagsSet(t, u, mask)
    \/ \E kind \in WaitKinds, mask \in SUBSET FlagBits : FlagsWait(t, kind, mask)
    \/ \E mask \in SUBSET FlagBits : FlagsClear(t, mask)

FlagsNext ==
    \/ (Boot \/ SwitchContextExit \/ PendSV) /\ UNCHANGED flagVars
    \/ \E t \in Threads : SchedCall(t) \/ FlagsCall(t) \/ ChooseOne(t) \/ ClearFlags(t)
    \/ \E t \in Threads : KernelStep(t) /\ UNCHANGED flagVars
    \/ (\E u \in Threads : IsrWakeup(u)) /\ UNCHANGED flagVars
    \/ \E u \in Threads, mask \in SUBSET FlagBits : IsrFlagsSet(u, mask)

FlagsSpec == FlagsInit /\ [][FlagsNext]_vars

(* As for the scheduler: exceptions are taken and calls return. *)
FlagsFairness ==
    /\ WF_vars(PendSV /\ UNCHANGED flagVars)
    /\ WF_vars(booted /\ SwitchContextExit /\ UNCHANGED flagVars)
    /\ \A t \in Threads :
         /\ WF_vars(KernelStep(t) /\ UNCHANGED flagVars)
         /\ WF_vars(ChooseOne(t) \/ ClearFlags(t))

FlagsFairSpec == FlagsSpec /\ FlagsFairness

-----------------------------------------------------------------------------
(* Properties.                                                             *)

(* Every variable of the thread flags keeps its type. *)
FlagsTypeOK ==
    /\ TypeOK
    /\ flags \in [Threads -> SUBSET FlagBits]
    /\ waited \in [Threads -> SUBSET FlagBits]
    /\ wait \in [Threads -> WaitCalls \cup {NoWait}]

(* No wakeup is lost: a thread is blocked only while the flags it waits    *)
(* for are not set, whenever they are set, and waits for what it called    *)
(* for.                                                                    *)
BlockedUnsatisfied ==
    \A t \in Threads, kind \in WaitKinds :
        sched.status[t] = BlockedFor(kind) =>
            /\ ~Satisfies(flags[t], kind, waited[t])
            /\ wait[t] # NoWait
            /\ BlockedFor(wait[t].kind) = sched.status[t]
            /\ wait[t].mask = waited[t]

(* No wakeup is spurious, though wait_any, wait_one and wait_all do not    *)
(* check again: a wait that has passed finds the flags it waited for still *)
(* set when it clears them.                                                *)
PassedSatisfied ==
    \A t \in Threads :
        WaitPassed(t) =>
            Satisfies(flags[t], IF wait[t].kind = "clear" THEN "all"
                                ELSE wait[t].kind, wait[t].mask)

(* A flag stays set until its own thread clears it, and that only if the   *)
(* flag is among those the thread has asked for.                           *)
FlagsAreKept ==
    [][\A t \in Threads, f \in FlagBits :
         f \in flags[t] /\ f \notin flags'[t] =>
             \/ Created(t)
             \/ /\ Executing(t)
                /\ wait[t] # NoWait => f \in wait[t].mask]_vars
=============================================================================
