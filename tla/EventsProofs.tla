---------------------------- MODULE EventsProofs ----------------------------
(***************************************************************************)
(* Theorems about thread flags and about the event queues that are built   *)
(* on them, for any number of threads and events and any set of flags.     *)
(***************************************************************************)
EXTENDS Events, SchedProofs

-----------------------------------------------------------------------------
(* THREAD FLAGS.                                                           *)

-----------------------------------------------------------------------------
(* The inductive invariant.  BlockedUnsatisfied and PassedSatisfied need   *)
(* each other: a thread that stops being blocked has its flags, and keeps  *)
(* them until it executes, which may be long after.                        *)

FlagBlocked == {"FLAG_BLOCKED_ANY", "FLAG_BLOCKED_ALL"}

(* The kind of Satisfies a call that has passed relies on. *)
Relies(kind) == IF kind = "clear" THEN "all" ELSE kind

(* What holds of the wait that t is in. *)
WaitRight(t) ==
    /\ wait[t] # NoWait =>
         /\ sched.status[t] \in OnRunqueue \cup FlagBlocked \cup {"STOPPED"}
         /\ wait[t].kind = "clear" => sched.status[t] \in OnRunqueue
         /\ sched.status[t] \in OnRunqueue =>
              Satisfies(flags[t], Relies(wait[t].kind), wait[t].mask)
    /\ sched.status[t] \in FlagBlocked =>
         /\ wait[t] # NoWait /\ wait[t].mask = waited[t]
         /\ BlockedFor(wait[t].kind) = sched.status[t]
         /\ ~Satisfies(flags[t], wait[t].kind, waited[t])

FInv ==
    /\ IInv
    /\ FlagsTypeOK
    /\ \A t \in Threads : WaitRight(t)
    /\ ~booted => \A t \in Threads : wait[t] = NoWait

LEMMA InitFInv ==
    FlagsInit => FInv
<1> SUFFICES ASSUME FlagsInit PROVE FInv
  OBVIOUS
<1>1. IInv
  BY InitIInv DEF FlagsInit
<1>2. FlagsTypeOK
  BY <1>1 DEF FlagsInit, FlagsTypeOK, IInv
<1>3. \A t \in Threads : WaitRight(t)
  BY DEF FlagsInit, Init, WaitRight, FlagBlocked
<1> QED BY <1>1, <1>2, <1>3 DEF FInv, FlagsInit

LEMMA FlagsTypes ==
    ASSUME FInv
    PROVE  /\ flags \in [Threads -> SUBSET FlagBits]
           /\ waited \in [Threads -> SUBSET FlagBits]
           /\ wait \in [Threads -> WaitCalls \cup {NoWait}]
           /\ sched.status \in [Threads -> Statuses]
           /\ IInv /\ TypeOK /\ NoWait \notin WaitCalls /\ FlagBits \subseteq Nat
BY FlagsAssumption DEF FInv, FlagsTypeOK, IInv, TypeOK

(* More flags satisfy a wait for them all the more. *)
LEMMA SatisfiesMore ==
    ASSUME NEW f, NEW g, f \subseteq g, NEW kind, NEW mask, Satisfies(f, kind, mask)
    PROVE  Satisfies(g, kind, mask)
BY DEF Satisfies

(* A thread whose wait and flags stay, and which stays blocked or ready.   *)
LEMMA WaitStays ==
    ASSUME FInv, NEW t \in Threads,
           wait'[t] = wait[t], flags'[t] = flags[t], waited'[t] = waited[t],
           \/ sched'.status[t] = sched.status[t]
           \/ sched.status[t] \in OnRunqueue /\ sched'.status[t] \in OnRunqueue
    PROVE  WaitRight(t)'
<1>1. WaitRight(t)
  BY DEF FInv
<1> QED BY <1>1 DEF WaitRight, FlagBlocked, OnRunqueue

(* A thread that is in no wait and is not blocked in one. *)
LEMMA NoWaitRight ==
    ASSUME NEW t \in Threads, wait'[t] = NoWait, sched'.status[t] \notin FlagBlocked
    PROVE  WaitRight(t)'
BY DEF WaitRight

-----------------------------------------------------------------------------
(* One lemma per kind of step.                                             *)

(* Steps of the rest of the kernel. *)
LEMMA SystemFInv ==
    ASSUME FInv, UNCHANGED flagVars, SystemStep \/ UNCHANGED schedVars
    PROVE  FInv'
<1>1. IInv'
  BY SchedStepIInv DEF FInv
<1>2. UNCHANGED <<flags, waited, wait>>
  BY DEF flagVars
<1>3. ASSUME NEW t \in Threads PROVE WaitRight(t)'
  <2>1. Moved(t)
    <3>1. CASE SystemStep
      BY <3>1, SystemMoves DEF FInv
    <3>2. CASE UNCHANGED schedVars
      BY <3>2 DEF schedVars, Moved
    <3> QED BY <3>1, <3>2
  <2>2. CASE \/ sched'.status[t] = sched.status[t]
             \/ sched.status[t] \in OnRunqueue /\ sched'.status[t] \in OnRunqueue
    BY <1>2, <2>2, WaitStays
  <2>3. CASE sched.status[t] = "SLEEPING" /\ sched'.status[t] = "PENDING"
    <3>1. wait[t] = NoWait
      BY <2>3 DEF FInv, WaitRight, FlagBlocked, OnRunqueue
    <3> QED BY <1>2, <2>3, <3>1, NoWaitRight DEF FlagBlocked
  <2>4. CASE /\ sched.status[t] = "STOPPED"
             /\ sched'.status[t] \in {"SLEEPING", "PENDING"}
    <3>1. Boot
      <4>1. CASE SwitchContextExit \/ PendSV
        BY <2>4, <4>1, DispatchMoves DEF FInv, OnRunqueue
      <4>2. CASE \E u \in Threads : IsrWakeup(u)
        <5>1. PICK u \in Threads : IsrWakeup(u)
          BY <4>2
        <5>2. /\ sched.status[u] = "SLEEPING"
              /\ sched'.status = [sched.status EXCEPT ![u] = "PENDING"]
          BY <5>1 DEF IsrWakeup, SetThreadStatus
        <5> QED BY <2>4, <5>2, FlagsTypes
      <4>3. CASE (\E u \in Threads : KernelStep(u)) \/ UNCHANGED schedVars
        BY <2>4, <4>3 DEF KernelStep, ContextSwitch, YieldHigher, schedVars
      <4> QED BY <4>1, <4>2, <4>3 DEF SystemStep
    <3>2. wait[t] = NoWait
      BY <3>1 DEF Boot, BootCreate, FInv
    <3> QED BY <1>2, <2>4, <3>2, NoWaitRight DEF FlagBlocked
  <2> QED BY <2>1, <2>2, <2>3, <2>4 DEF Moved
<1>4. booted => booted'
  BY DEF SystemStep, Boot, BootCreate, SwitchContextExit, PendSV, KernelStep,
     ContextSwitch, YieldHigher, IsrWakeup, schedVars, cpuVars
<1>5. FlagsTypeOK'
  BY <1>1, <1>2 DEF FInv, FlagsTypeOK, IInv
<1> QED BY <1>1, <1>2, <1>3, <1>4, <1>5 DEF FInv

(* Calls of the scheduler: a new thread is in no wait, and one that ends   *)
(* or sleeps is in none either.                                            *)
LEMMA SchedCallFInv ==
    ASSUME FInv, NEW t \in Threads, SchedCall(t)
    PROVE  FInv'
<1>1. IInv' /\ booted
  <2>1. Executing(t) /\ pc[t] # "yield"
    BY DEF SchedCall, UserCall, Sleep, Yield, Exit, CreateSleeping, CreateWithoutYield,
       Create, Wakeup, Terminate
  <2> QED BY <2>1, SchedStepIInv, ExecutingExists DEF FInv, SchedCall
<1>2. /\ flags' = [u \in Threads |-> IF Created(u) THEN {} ELSE flags[u]]
      /\ waited' = [u \in Threads |-> IF Created(u) THEN {} ELSE waited[u]]
      /\ wait' = [u \in Threads |-> IF Created(u) THEN NoWait ELSE wait[u]]
      /\ wait[t] = NoWait /\ UserCall(t)
  BY DEF SchedCall
<1>3. FlagsTypeOK'
  BY <1>1, <1>2, FlagsTypes DEF FlagsTypeOK, IInv
<1>4. booted'
  BY <1>1, <1>2 DEF UserCall, Sleep, Yield, Exit, CreateSleeping, CreateWithoutYield,
     Create, Wakeup, Terminate, cpuVars
<1>5. ASSUME NEW u \in Threads PROVE WaitRight(u)'
  <2>1. \/ Moved(u)
        \/ u = t /\ sched'.status[u] \in {"SLEEPING", "STOPPED"}
        \/ sched.status[u] \in Terminable /\ sched'.status[u] = "STOPPED"
    BY <1>2, UserCallMoves DEF FInv
  <2>2. CASE Created(u)
    BY <1>2, <2>1, <2>2, NoWaitRight DEF Created, Moved, FlagBlocked, OnRunqueue
  <2>3. CASE ~Created(u)
    <3>1. flags'[u] = flags[u] /\ waited'[u] = waited[u] /\ wait'[u] = wait[u]
      BY <1>2, <2>3
    <3>2. WaitRight(u)
      BY DEF FInv
    <3>3. CASE sched.status[u] = "SLEEPING" /\ sched'.status[u] = "PENDING"
      BY <3>1, <3>2, <3>3 DEF WaitRight, FlagBlocked, OnRunqueue
    <3>4. CASE u = t /\ sched'.status[u] \in {"SLEEPING", "STOPPED"}
      BY <1>2, <3>1, <3>4, NoWaitRight DEF FlagBlocked
    <3>5. CASE sched.status[u] \in Terminable /\ sched'.status[u] = "STOPPED"
      <4>1. sched.status[u] \notin OnRunqueue
        BY <3>5, SchedAssumption DEF OffRunqueue, OnRunqueue
      <4> QED BY <3>1, <3>2, <3>5, <4>1 DEF WaitRight, FlagBlocked, OnRunqueue
    <3> QED BY <2>1, <2>3, <3>1, <3>3, <3>4, <3>5, WaitStays DEF Moved, Created
  <2> QED BY <2>2, <2>3
<1> QED BY <1>1, <1>3, <1>4, <1>5 DEF FInv

(* thread_flags_set: whoever's flags now satisfy its wait becomes ready. *)
LEMMA RaiseFInv ==
    ASSUME FInv, IInv', UNCHANGED <<waited, wait, booted>>,
           NEW u \in Threads, NEW mask \in SUBSET FlagBits, Raise(u, mask)
    PROVE  FInv'
<1> DEFINE f == flags[u] \cup mask
<1>1. /\ flags' = [flags EXCEPT ![u] = f]
      /\ sched' = IF Wakes(sched, u, f) THEN SetThreadStatus(sched, u, "PENDING")
                  ELSE sched
  BY DEF Raise
<1>2. FlagsTypeOK'
  BY <1>1, FlagsTypes DEF FlagsTypeOK, IInv
<1>3. flags'[u] = f /\ \A v \in Threads \ {u} : flags'[v] = flags[v]
  BY <1>1, FlagsTypes
<1>4. /\ \A v \in Threads \ {u} : sched'.status[v] = sched.status[v]
      /\ Wakes(sched, u, f) => sched'.status[u] = "PENDING"
      /\ ~Wakes(sched, u, f) => sched'.status[u] = sched.status[u]
  BY <1>1, FlagsTypes DEF SetThreadStatus
<1>5. WaitRight(u)'
  <2>1. WaitRight(u) /\ flags[u] \subseteq f
    BY DEF FInv
  <2> HIDE DEF f
  <2>2. CASE Wakes(sched, u, f)
    <3>1. sched.status[u] \in FlagBlocked
      BY <2>2 DEF Wakes, FlagBlocked
    <3>2. /\ wait[u] # NoWait /\ wait[u].mask = waited[u]
          /\ BlockedFor(wait[u].kind) = sched.status[u] /\ wait[u].kind # "clear"
      BY <2>1, <3>1 DEF WaitRight, FlagBlocked, OnRunqueue
    <3>3. Satisfies(f, wait[u].kind, wait[u].mask)
      BY <2>2, <3>2 DEF Wakes, BlockedFor, Satisfies
    <3> QED BY <1>3, <1>4, <2>2, <3>2, <3>3 DEF WaitRight, Relies, FlagBlocked, OnRunqueue
  <2>3. CASE ~Wakes(sched, u, f)
    <3>1. sched.status[u] \in FlagBlocked => ~Satisfies(f, wait[u].kind, waited[u])
      BY <2>1, <2>3 DEF WaitRight, Wakes, BlockedFor, Satisfies, FlagBlocked
    <3>2. wait[u] # NoWait /\ sched.status[u] \in OnRunqueue =>
             Satisfies(f, Relies(wait[u].kind), wait[u].mask)
      BY <2>1, SatisfiesMore DEF WaitRight
    <3> QED BY <1>3, <1>4, <2>1, <2>3, <3>1, <3>2 DEF WaitRight
  <2> QED BY <2>2, <2>3
<1>6. \A v \in Threads : WaitRight(v)'
  BY <1>3, <1>4, <1>5, WaitStays
<1> QED BY <1>2, <1>6 DEF FInv

(* A thread asks for a switch that was recorded before. *)
LEMMA RequestIInv ==
    ASSUME IInv, IsrEnabled, request' \in BOOLEAN, pendsv' \in BOOLEAN, pendsv => pendsv',
           UNCHANGED <<sched, active, irqOff, booted, pidVars, codeVars, deferred>>
    PROVE  IInv'
<1>1. PidsIdentifyThreads'
  BY PidsKept
<1>2. ExecutingIsHead'
  BY DEF IInv, ExecutingIsHead, Executing, codeVars
<1>3. CpuConsistent'
  BY DEF IInv, CpuConsistent, IsrEnabled
<1>4. TypeOK'
  BY DEF IInv, TypeOK, pidVars, codeVars
<1> QED BY <1>1, <1>2, <1>3, <1>4 DEF IInv, RunqueueConsistent, Consistent

LEMMA FlagsSetFInv ==
    ASSUME FInv, NEW t \in Threads, NEW u \in Threads, NEW mask \in SUBSET FlagBits,
           FlagsSet(t, u, mask)
    PROVE  FInv'
<1>1. /\ Executing(t) /\ pc[t] = "user" /\ active = t /\ active # NoThread
      /\ pc \in [Threads -> PcLabels] /\ arg \in [Threads -> Prios \cup {0}]
      /\ request \in BOOLEAN /\ pendsv \in BOOLEAN /\ "yield" \in PcLabels
      /\ "user" \in PcLabels
  BY FlagsTypes, SchedAssumption DEF FlagsSet, InUser, Executing, TypeOK, PcLabels
<1> DEFINE f == flags[u] \cup mask
           W == Wakes(sched, u, f)
<1>2. /\ sched' = IF W THEN SetThreadStatus(sched, u, "PENDING") ELSE sched
      /\ request' = (request \/ W) /\ f = flags'[u]
      /\ pc' = IF W THEN [pc EXCEPT ![t] = "yield"] ELSE pc
      /\ UNCHANGED <<active, pendsv, irqOff, booted, pidVars, arg, deferred, waited, wait>>
  BY FlagsTypes DEF FlagsSet, Raise
<1>3. W \in BOOLEAN /\ (W => sched.status[u] \in OffRunqueue \ {"STOPPED"})
  BY DEF Wakes, OffRunqueue
<1> HIDE DEF W
<1>4. request' \in BOOLEAN
  BY <1>1, <1>2, <1>3
<1>5. IInv'
  <2>1. CASE W
    <3>1. /\ sched' = SetThreadStatus(sched, u, "PENDING") /\ pc' = [pc EXCEPT ![t] = "yield"]
      BY <1>2, <2>1
    <3>2. /\ pc' \in [Threads -> PcLabels]
          /\ \A v \in Threads : v = active /\ pc'[v] # "yield" => pc[v] # "yield"
      BY <1>1, <3>1
    <3> QED BY <1>1, <1>2, <1>3, <1>4, <2>1, <3>1, <3>2, ReadyIInv DEF FInv
  <2>2. CASE ~W
    <3>1. pc' = [pc EXCEPT ![t] = "user"] /\ sched' = sched
      BY <1>1, <1>2, <2>2
    <3> QED BY <1>1, <1>2, <1>4, <3>1, PlaceIInv DEF FInv
  <2> QED BY <2>1, <2>2
<1> QED BY <1>2, <1>5, RaiseFInv DEF FlagsSet

LEMMA IsrFlagsSetFInv ==
    ASSUME FInv, NEW u \in Threads, NEW mask \in SUBSET FlagBits, IsrFlagsSet(u, mask)
    PROVE  FInv'
<1>1. /\ IsrEnabled /\ active # NoThread
      /\ pc \in [Threads -> PcLabels] /\ arg \in [Threads -> Prios \cup {0}]
      /\ request \in BOOLEAN /\ pendsv \in BOOLEAN
  BY FlagsTypes DEF IsrFlagsSet, IsrEnabled, TypeOK
<1> DEFINE W == Wakes(sched, u, flags[u] \cup mask)
<1>2. /\ sched' = IF W THEN SetThreadStatus(sched, u, "PENDING") ELSE sched
      /\ request' = (request \/ W) /\ pendsv' = (pendsv \/ request')
      /\ UNCHANGED <<active, irqOff, booted, pidVars, codeVars, deferred, waited, wait>>
  BY DEF IsrFlagsSet, Raise, EndOfIsr
<1>3. W \in BOOLEAN /\ (W => sched.status[u] \in OffRunqueue \ {"STOPPED"})
  BY DEF Wakes, OffRunqueue
<1> HIDE DEF W
<1>4. request' \in BOOLEAN /\ pendsv' \in BOOLEAN /\ (pendsv => pendsv')
  BY <1>1, <1>2, <1>3
<1>5. IInv'
  <2>1. CASE W
    BY <1>1, <1>2, <1>3, <1>4, <2>1, ReadyIInv DEF FInv, codeVars
  <2>2. CASE ~W
    BY <1>1, <1>2, <1>4, <2>2, RequestIInv DEF FInv
  <2> QED BY <2>1, <2>2
<1> QED BY <1>2, <1>5, RaiseFInv DEF IsrFlagsSet

(* thread_flags_wait_*: the caller blocks or passes. *)
LEMMA FlagsWaitFInv ==
    ASSUME FInv, NEW t \in Threads, NEW kind \in WaitKinds, NEW mask \in SUBSET FlagBits,
           InUser(t), t # Idle, CheckFlags(t, kind, mask)
    PROVE  FInv'
<1>1. /\ Executing(t) /\ pc[t] = "user" /\ sched.status[t] \in OnRunqueue
      /\ booted /\ wait[t] = NoWait
  BY ExecutingExists DEF FInv, InUser
<1> DEFINE w == [kind |-> kind, mask |-> mask]
<1>2. w \in WaitCalls /\ w # NoWait /\ kind # "clear"
  <2>1. w \in WaitCalls
    BY DEF WaitCalls
  <2> HIDE DEF w
  <2>2. w # NoWait /\ kind # "clear"
    BY <2>1, FlagsAssumption DEF WaitKinds
  <2> QED BY <2>1, <2>2
<1>3. /\ wait' = [wait EXCEPT ![t] = w]
      /\ UNCHANGED <<active, cpuVars, pidVars, arg, deferred, flags>>
  BY DEF CheckFlags
<1>4. wait'[t] = w /\ \A v \in Threads \ {t} : wait'[v] = wait[v]
  BY <1>3, FlagsTypes
<1>5. w.kind = kind /\ w.mask = mask
  OBVIOUS
<1> HIDE DEF w
<1>6. CASE Satisfies(flags[t], kind, mask)
  <2>1. UNCHANGED <<sched, pc, waited>>
    BY <1>6 DEF CheckFlags
  <2>2. IInv'
    BY <1>3, <2>1, StutterIInv DEF FInv, schedVars, cpuVars, pidVars
  <2>3. WaitRight(t)'
    BY <1>1, <1>2, <1>3, <1>4, <1>5, <1>6, <2>1
       DEF WaitRight, Relies, FlagBlocked, OnRunqueue
  <2>4. \A v \in Threads : WaitRight(v)'
    BY <1>3, <1>4, <2>1, <2>3, WaitStays
  <2>5. FlagsTypeOK'
    BY <1>2, <1>3, <2>1, <2>2, FlagsTypes DEF FlagsTypeOK, IInv
  <2> QED BY <1>1, <1>3, <2>2, <2>4, <2>5 DEF FInv, cpuVars
<1>7. CASE ~Satisfies(flags[t], kind, mask)
  <2>1. /\ waited' = [waited EXCEPT ![t] = mask]
        /\ sched' = SetThreadStatus(sched, t, BlockedFor(kind))
        /\ pc' = [pc EXCEPT ![t] = "yield"]
    BY <1>7 DEF CheckFlags
  <2>2. BlockedFor(kind) \in FlagBlocked /\ FlagBlocked \subseteq OffRunqueue \ {"STOPPED"}
    BY DEF BlockedFor, FlagBlocked, OffRunqueue
  <2>3. IInv'
    BY <1>1, <1>3, <2>1, <2>2, BlockIInv DEF FInv
  <2>4. /\ sched'.status[t] = BlockedFor(kind) /\ waited'[t] = mask
        /\ \A v \in Threads \ {t} :
             sched'.status[v] = sched.status[v] /\ waited'[v] = waited[v]
    BY <2>1, FlagsTypes DEF SetThreadStatus
  <2>5. WaitRight(t)'
    BY <1>2, <1>3, <1>4, <1>5, <1>7, <2>2, <2>4 DEF WaitRight, FlagBlocked, OnRunqueue
  <2>6. \A v \in Threads : WaitRight(v)'
    BY <1>3, <1>4, <2>4, <2>5, WaitStays
  <2>7. FlagsTypeOK'
    BY <1>2, <1>3, <2>1, <2>3, FlagsTypes DEF FlagsTypeOK, IInv
  <2> QED BY <1>1, <1>3, <2>3, <2>6, <2>7 DEF FInv, cpuVars
<1> QED BY <1>6, <1>7

(* thread_flags_wait_one chooses a flag that is set. *)
LEMMA ChooseOneFInv ==
    ASSUME FInv, NEW t \in Threads, ChooseOne(t)
    PROVE  FInv'
<1>1. /\ Executing(t) /\ pc[t] = "user" /\ sched.status[t] \in OnRunqueue
      /\ booted /\ wait[t] # NoWait /\ wait[t].kind = "one"
  BY ExecutingExists DEF FInv, ChooseOne, WaitPassed
<1> DEFINE S == flags[t] \cap wait[t].mask
           x == LowestBit(S)
           w == [kind |-> "clear", mask |-> {x}]
<1>2. S # {} /\ S \subseteq flags[t]
  BY <1>1 DEF FInv, WaitRight, Relies, Satisfies
<1>3. S \in SUBSET Nat /\ S \subseteq FlagBits
  BY FlagsTypes
<1>4. x \in S
  BY <1>2, <1>3, LowestBitIsLowest
<1>5. /\ wait' = [wait EXCEPT ![t] = w] /\ UNCHANGED <<schedVars, flags, waited>>
  BY DEF ChooseOne
<1>6. w \in WaitCalls /\ w # NoWait
  BY <1>3, <1>4, FlagsAssumption DEF WaitCalls
<1>7. wait'[t] = w /\ \A v \in Threads \ {t} : wait'[v] = wait[v]
  BY <1>5, FlagsTypes
<1>8. IInv' /\ UNCHANGED <<sched, booted>>
  BY <1>5, StutterIInv DEF FInv, schedVars
<1>9. w.kind = "clear" /\ w.mask = {x} /\ {x} \subseteq flags[t]
  BY <1>2, <1>4
<1> HIDE DEF w, x, S
<1>10. WaitRight(t)'
  BY <1>1, <1>5, <1>7, <1>8, <1>9 DEF WaitRight, Relies, Satisfies, FlagBlocked, OnRunqueue
<1>11. \A v \in Threads : WaitRight(v)'
  BY <1>5, <1>7, <1>8, <1>10, WaitStays
<1>12. FlagsTypeOK'
  BY <1>5, <1>6, <1>8, FlagsTypes DEF FlagsTypeOK, IInv
<1> QED BY <1>1, <1>8, <1>11, <1>12 DEF FInv

(* A thread that clears flags is in no wait afterwards. *)
LEMMA ClearFInv ==
    ASSUME FInv, NEW t \in Threads, Executing(t), pc[t] = "user",
           NEW mask, flags' = [flags EXCEPT ![t] = Cleared(@, mask)],
           wait' = [wait EXCEPT ![t] = NoWait], UNCHANGED <<schedVars, waited>>
    PROVE  FInv'
<1>1. sched.status[t] \in OnRunqueue /\ booted
  BY ExecutingExists DEF FInv
<1>2. IInv' /\ UNCHANGED <<sched, booted>>
  BY StutterIInv DEF FInv, schedVars
<1>3. /\ wait'[t] = NoWait
      /\ \A v \in Threads \ {t} : wait'[v] = wait[v] /\ flags'[v] = flags[v]
  BY FlagsTypes
<1>4. FlagsTypeOK'
  BY <1>2, FlagsTypes DEF FlagsTypeOK, IInv, Cleared
<1>5. WaitRight(t)'
  BY <1>1, <1>2, <1>3, NoWaitRight DEF FlagBlocked, OnRunqueue
<1>6. \A v \in Threads : WaitRight(v)'
  BY <1>2, <1>3, <1>5, WaitStays
<1> QED BY <1>1, <1>2, <1>4, <1>6 DEF FInv

LEMMA FlagsCallFInv ==
    ASSUME FInv, NEW t \in Threads, FlagsCall(t) \/ ChooseOne(t) \/ ClearFlags(t)
    PROVE  FInv'
<1>1. CASE \E u \in Threads, mask \in SUBSET FlagBits : FlagsSet(t, u, mask)
  BY <1>1, FlagsSetFInv
<1>2. CASE \E kind \in WaitKinds, mask \in SUBSET FlagBits : FlagsWait(t, kind, mask)
  BY <1>2, FlagsWaitFInv DEF FlagsWait
<1>3. CASE \E mask \in SUBSET FlagBits : FlagsClear(t, mask)
  <2>1. PICK mask \in SUBSET FlagBits : FlagsClear(t, mask)
    BY <1>3
  <2>2. wait' = [wait EXCEPT ![t] = NoWait]
    BY <2>1, FlagsTypes DEF FlagsClear, InUser
  <2> QED BY <2>1, <2>2, ClearFInv DEF FlagsClear, InUser
<1>4. CASE ChooseOne(t)
  BY <1>4, ChooseOneFInv
<1>5. CASE ClearFlags(t)
  BY <1>5, ClearFInv DEF ClearFlags, WaitPassed
<1> QED BY <1>1, <1>2, <1>3, <1>4, <1>5 DEF FlagsCall

LEMMA FlagsNextFInv ==
    FInv /\ [FlagsNext]_vars => FInv'
<1> SUFFICES ASSUME FInv, [FlagsNext]_vars PROVE FInv'
  OBVIOUS
<1>1. CASE UNCHANGED vars
  BY <1>1, SystemFInv DEF vars
<1>2. CASE SystemStep /\ UNCHANGED flagVars
  BY <1>2, SystemFInv
<1>3. CASE \E t \in Threads : SchedCall(t)
  BY <1>3, SchedCallFInv
<1>4. CASE \E t \in Threads : FlagsCall(t) \/ ChooseOne(t) \/ ClearFlags(t)
  BY <1>4, FlagsCallFInv
<1>5. CASE \E u \in Threads, mask \in SUBSET FlagBits : IsrFlagsSet(u, mask)
  BY <1>5, IsrFlagsSetFInv
<1> QED BY <1>1, <1>2, <1>3, <1>4, <1>5 DEF FlagsNext, SystemStep

-----------------------------------------------------------------------------
(* Every reachable state of the flags satisfies the invariant.             *)
THEOREM FlagsInvariance == FlagsSpec => []FInv
<1> QED BY InitFInv, FlagsNextFInv, PTL DEF FlagsSpec

(* No variable of the thread flags leaves its type. *)
THEOREM FlagsTypeCorrect == FlagsSpec => []FlagsTypeOK
<1>1. FInv => FlagsTypeOK
  BY DEF FInv
<1> QED BY <1>1, FlagsInvariance, PTL

LEMMA FInvBlocked ==
    FInv => BlockedUnsatisfied
<1> SUFFICES ASSUME FInv, NEW t \in Threads, NEW kind \in WaitKinds,
                    sched.status[t] = BlockedFor(kind)
             PROVE  /\ ~Satisfies(flags[t], kind, waited[t])
                    /\ wait[t] # NoWait
                    /\ BlockedFor(wait[t].kind) = sched.status[t]
                    /\ wait[t].mask = waited[t]
  BY DEF BlockedUnsatisfied
<1>1. sched.status[t] \in FlagBlocked
  BY DEF BlockedFor, FlagBlocked
<1>2. WaitRight(t)
  BY DEF FInv
<1> QED BY <1>1, <1>2 DEF WaitRight, BlockedFor, Satisfies

(* No wakeup is lost: a thread is blocked only while the flags it waits    *)
(* for are not set.                                                        *)
THEOREM NoWakeupLost == FlagsSpec => []BlockedUnsatisfied
<1> QED BY FInvBlocked, FlagsInvariance, PTL

LEMMA FInvPassed ==
    FInv => PassedSatisfied
<1> SUFFICES ASSUME FInv, NEW t \in Threads, WaitPassed(t)
             PROVE  Satisfies(flags[t], Relies(wait[t].kind), wait[t].mask)
  BY DEF PassedSatisfied, Relies
<1>1. sched.status[t] \in OnRunqueue /\ wait[t] # NoWait
  BY ExecutingExists DEF WaitPassed, FInv
<1> QED BY <1>1 DEF FInv, WaitRight

(* No wakeup is spurious: a wait that has passed finds the flags it waited *)
(* for still set when it clears them.                                      *)
THEOREM NoWakeupSpurious == FlagsSpec => []PassedSatisfied
<1> QED BY FInvPassed, FlagsInvariance, PTL

(* A flag stays set until its own thread clears it, and that only if the   *)
(* flag is among those the thread has asked for.                           *)
THEOREM FlagsKept == FlagsSpec => FlagsAreKept
<1> DEFINE Asked(t, f) == /\ Executing(t)
                          /\ wait[t] # NoWait => f \in wait[t].mask
           Kept == \A t \in Threads, f \in FlagBits :
                      f \in flags[t] /\ f \notin flags'[t] =>
                          \/ Created(t)
                          \/ /\ Executing(t)
                             /\ wait[t] # NoWait => f \in wait[t].mask
<1>1. FInv /\ [FlagsNext]_vars => [Kept]_vars
  <2> SUFFICES ASSUME FInv, FlagsNext, NEW t \in Threads, NEW f \in FlagBits,
                      f \in flags[t], f \notin flags'[t]
               PROVE  Created(t) \/ Asked(t, f)
    OBVIOUS
  <2>1. flags[t] # flags'[t]
    OBVIOUS
  <2>2. ASSUME NEW u \in Threads, NEW mask, Raise(u, mask) PROVE FALSE
    BY <2>2, FlagsTypes DEF Raise
  <2>3. ASSUME NEW u \in Threads, SchedCall(u) PROVE Created(t)
    BY <2>3 DEF SchedCall
  <2>4. ASSUME NEW u \in Threads, ClearFlags(u) PROVE Asked(t, f)
    <3>1. u = t /\ f \in wait[t].mask /\ Executing(t)
      BY <2>4, FlagsTypes DEF ClearFlags, Cleared, WaitPassed
    <3> QED BY <3>1
  <2>5. ASSUME NEW u \in Threads, NEW mask \in SUBSET FlagBits, FlagsClear(u, mask)
        PROVE  Asked(t, f)
    <3>1. u = t /\ InUser(t)
      BY <2>5, FlagsTypes DEF FlagsClear, Cleared
    <3> QED BY <3>1 DEF InUser
  <2>6. CASE UNCHANGED flags
    BY <2>1, <2>6
  <2> QED BY <2>2, <2>3, <2>4, <2>5, <2>6 DEF FlagsNext, FlagsCall, FlagsSet, IsrFlagsSet,
          FlagsWait, CheckFlags, ChooseOne, flagVars
<1>2. FlagsAreKept <=> [][Kept]_vars
  BY DEF FlagsAreKept
<1> HIDE DEF Kept
<1>3. FlagsSpec => [][Kept]_vars
  BY <1>1, FlagsInvariance, PTL DEF FlagsSpec
<1> QED BY <1>2, <1>3

-----------------------------------------------------------------------------
(* EVENT QUEUES.                                                           *)

-----------------------------------------------------------------------------
(* The inductive invariant.                                                *)

Unlinking(e) == step[Target[e]] = "unlink" /\ what[Target[e]] = e

Queued(e) == e \in ToSet(events[Target[e]])

(* LinkedIsSomewhere, and that an event that is about to be unlinked is    *)
(* not with the consumer any more.                                         *)
EventRight(e) ==
    /\ linked[e] <=> Queued(e) \/ Unlinking(e) \/ e \in taken
    /\ Queued(e) => ~Unlinking(e) /\ e \notin taken
    /\ Unlinking(e) => e \notin taken

QueueRight(c) ==
    /\ IsInjective(events[c])
    /\ \A e \in ToSet(events[c]) : Target[e] = c

(* What a thread inside an event function is doing. *)
StepRight(t) ==
    /\ step[t] = "post" => what[t] \in AllEvents
    /\ step[t] = "unlink" => t \in Consumers /\ what[t] \in AllEvents /\ Target[what[t]] = t
    /\ step[t] \in {"empty", "look"} => t \in Consumers /\ t # Idle
    /\ step[t] \in {"post", "unlink", "empty"} =>
         wait[t] = NoWait /\ sched.status[t] \in OnRunqueue
    /\ step[t] = "look" =>
         /\ sched.status[t] \in OnRunqueue \cup {"FLAG_BLOCKED_ANY"}
         /\ sched.status[t] = "FLAG_BLOCKED_ANY" => waited[t] = {EventFlag}

Posting(c) == \E t \in Threads : step[t] = "post" /\ Target[what[t]] = c

(* A consumer that has found its queue empty, or waits because it had:     *)
(* any event that has come since is announced.                             *)
Announced(c) ==
    /\ step[c] = "empty" \/ (step[c] = "look" /\ sched.status[c] = "FLAG_BLOCKED_ANY")
    /\ events[c] # <<>>
    => EventFlag \in flags[c] \/ Posting(c)

EInv ==
    /\ FInv
    /\ EventsTypeOK
    /\ \A e \in AllEvents : EventRight(e)
    /\ \A c \in Consumers : QueueRight(c) /\ Announced(c)
    /\ \A t \in Threads : StepRight(t)

LEMMA EventsFacts ==
    /\ Target \in [AllEvents -> Threads] /\ Consumers \subseteq Threads
    /\ \A e \in AllEvents : Target[e] \in Consumers
    /\ EventFlag \in FlagBits /\ NoEvent \notin AllEvents
BY EventsAssumption DEF Consumers

LEMMA EventsTypes ==
    ASSUME EInv
    PROVE  /\ events \in [Consumers -> Seq(AllEvents)]
           /\ linked \in [AllEvents -> BOOLEAN]
           /\ step \in [Threads -> Steps]
           /\ what \in [Threads -> AllEvents \cup {NoEvent}]
           /\ taken \subseteq AllEvents
BY DEF EInv, EventsTypeOK

LEMMA InitEInv ==
    EventsInit => EInv
<1> SUFFICES ASSUME EventsInit PROVE EInv
  OBVIOUS
<1>1. FInv
  BY InitFInv DEF EventsInit
<1>2. EventsTypeOK
  BY <1>1 DEF EventsInit, EventsTypeOK, FInv, Steps
<1>3. \A c \in Consumers : events[c] = <<>>
  BY DEF EventsInit
<1>4. \A c \in Consumers : QueueRight(c) /\ Announced(c) /\ ToSet(events[c]) = {}
  BY <1>3 DEF QueueRight, Announced, IsInjective, ToSet
<1>5. \A e \in AllEvents : EventRight(e)
  BY <1>4, EventsFacts DEF EventsInit, EventRight, Queued, Unlinking
<1>6. \A t \in Threads : StepRight(t)
  BY DEF EventsInit, StepRight
<1> QED BY <1>1, <1>2, <1>4, <1>5, <1>6 DEF EInv

(* clist_remove of a node in the list. *)
LEMMA WithoutDistinct ==
    ASSUME NEW S, NEW q \in Seq(S), NEW e, IsInjective(q)
    PROVE  /\ Without(q, e) \in Seq(S) /\ IsInjective(Without(q, e))
           /\ ToSet(Without(q, e)) = ToSet(q) \ {e}
<1>1. CASE e \notin ToSet(q)
  BY <1>1 DEF Without
<1>2. CASE e \in ToSet(q)
  <2> DEFINE k == CHOOSE i \in DOMAIN q : q[i] = e
             a == SubSeq(q, 1, k - 1)
             b == SubSeq(q, k + 1, Len(q))
             r == a \o b
  <2>1. k \in 1 .. Len(q) /\ q[k] = e /\ Len(q) \in Nat
    BY <1>2 DEF ToSet
  <2>2. Without(q, e) = r
    BY <1>2 DEF Without, RemoveAt
  <2> HIDE DEF k
  <2>3. /\ a \in Seq(S) /\ Len(a) = k - 1
        /\ \A i \in 1 .. k - 1 : a[i] = q[i]
    <3>1. \A i \in 1 .. k - 1 : q[i] \in S
      BY <2>1
    <3> QED BY <2>1, <3>1, SubSeqProperties
  <2>4. /\ b \in Seq(S) /\ Len(b) = Len(q) - k
        /\ \A i \in 1 .. Len(q) - k : b[i] = q[k+i]
    <3>1. \A i \in k + 1 .. Len(q) : q[i] \in S
      BY <2>1
    <3> QED BY <2>1, <3>1, SubSeqProperties
  <2> HIDE DEF a, b
  <2>5. /\ r \in Seq(S) /\ Len(r) = Len(a) + Len(b)
        /\ \A i \in 1 .. Len(a) + Len(b) :
             r[i] = IF i <= Len(a) THEN a[i] ELSE b[i - Len(a)]
    BY <2>3, <2>4, ConcatProperties
  <2> HIDE DEF r
  <2>6. Len(r) = Len(q) - 1
    BY <2>1, <2>3, <2>4, <2>5
  <2>7. ASSUME NEW i \in 1 .. Len(q) - 1
        PROVE  r[i] = IF i < k THEN q[i] ELSE q[i+1]
    <3>1. CASE i < k
      <4>1. i \in 1 .. Len(a) + Len(b) /\ i <= Len(a) /\ i \in 1 .. k - 1
        BY <2>1, <2>3, <2>4, <3>1
      <4> QED BY <2>3, <2>5, <3>1, <4>1
    <3>2. CASE ~(i < k)
      <4>1. /\ i \in 1 .. Len(a) + Len(b) /\ ~(i <= Len(a))
            /\ i - Len(a) \in 1 .. Len(q) - k /\ k + (i - Len(a)) = i + 1
        BY <2>1, <2>3, <2>4, <3>2
      <4>2. r[i] = b[i - Len(a)] /\ b[i - Len(a)] = q[k + (i - Len(a))]
        BY <2>4, <2>5, <4>1
      <4> QED BY <3>2, <4>1, <4>2
    <3> QED BY <2>1, <3>1, <3>2
  <2>8. IsInjective(r)
    <3>1. \A i, j \in 1 .. Len(q) : q[i] = q[j] => i = j
      BY DEF IsInjective
    <3>2. \A i \in 1 .. Len(q) - 1 : i \in 1 .. Len(q) /\ i + 1 \in 1 .. Len(q)
      BY <2>1
    <3>3. \A i, j \in 1 .. Len(q) - 1 : r[i] = r[j] => i = j
      BY <2>1, <2>7, <3>1, <3>2
    <3>4. DOMAIN r = 1 .. Len(q) - 1
      BY <2>5, <2>6
    <3> QED BY <3>3, <3>4 DEF IsInjective
  <2>9. ASSUME NEW x \in ToSet(r) PROVE x \in ToSet(q) \ {e}
    <3>1. PICK i \in 1 .. Len(q) - 1 : x = r[i]
      BY <2>5, <2>6 DEF ToSet
    <3>2. PICK j \in 1 .. Len(q) : x = q[j] /\ j # k
      BY <2>1, <2>7, <3>1
    <3>3. x # e
      BY <2>1, <3>2 DEF IsInjective
    <3> QED BY <3>2, <3>3 DEF ToSet
  <2>10. ASSUME NEW x \in ToSet(q), x # e PROVE x \in ToSet(r)
    <3>1. PICK j \in 1 .. Len(q) : x = q[j] /\ j # k
      BY <2>1, <2>10 DEF ToSet
    <3>2. CASE j < k
      <4>1. j \in 1 .. Len(q) - 1 /\ r[j] = x
        BY <2>1, <2>7, <3>1, <3>2
      <4> QED BY <2>5, <2>6, <4>1 DEF ToSet
    <3>3. CASE j > k
      <4>1. j - 1 \in 1 .. Len(q) - 1 /\ ~(j - 1 < k) /\ (j - 1) + 1 = j
        BY <2>1, <3>1, <3>3
      <4>2. r[j - 1] = x
        BY <2>7, <3>1, <4>1
      <4> QED BY <2>5, <2>6, <4>1, <4>2 DEF ToSet
    <3> QED BY <2>1, <3>1, <3>2, <3>3
  <2> QED BY <2>2, <2>5, <2>8, <2>9, <2>10
<1> QED BY <1>1, <1>2

-----------------------------------------------------------------------------
(* Steps of the kernel and of the flags, which touch no event.             *)

(* What such a step may do to a thread inside an event function. *)
Undisturbed(t) ==
    /\ sched.status[t] \in OnRunqueue => sched'.status[t] \in OnRunqueue
    /\ sched.status[t] = "FLAG_BLOCKED_ANY" =>
         sched'.status[t] \in OnRunqueue \cup {"FLAG_BLOCKED_ANY"}
    /\ waited'[t] = waited[t]
    /\ step[t] # "look" => wait'[t] = wait[t]
    /\ step[t] = "empty" \/ sched.status[t] = "FLAG_BLOCKED_ANY" =>
         flags[t] \subseteq flags'[t]

LEMMA UndisturbedRight ==
    ASSUME EInv, NEW t \in Threads, step[t] # "none" => Undisturbed(t),
           step'[t] = step[t], what'[t] = what[t]
    PROVE  StepRight(t)'
<1>1. StepRight(t)
  BY DEF EInv
<1> QED BY <1>1 DEF StepRight, Undisturbed, OnRunqueue

LEMMA UndisturbedEInv ==
    ASSUME EInv, FInv', UNCHANGED eventVars,
           \A t \in Threads : step[t] # "none" => Undisturbed(t)
    PROVE  EInv'
<1>1. UNCHANGED <<events, linked, step, what, taken>>
  BY DEF eventVars
<1>2. EventsTypeOK'
  BY <1>1 DEF EInv, EventsTypeOK, FInv
<1>3. \A e \in AllEvents : EventRight(e)'
  BY <1>1 DEF EInv, EventRight, Queued, Unlinking
<1>4. \A t \in Threads : StepRight(t)'
  BY <1>1, UndisturbedRight
<1>5. ASSUME NEW c \in Consumers PROVE QueueRight(c)' /\ Announced(c)'
  <2>1. QueueRight(c) /\ Announced(c) /\ c \in Threads /\ StepRight(c)
    BY EventsFacts DEF EInv
  <2>2. Posting(c)' <=> Posting(c)
    BY <1>1 DEF Posting
  <2>3. Announced(c)'
    BY <1>1, <2>1, <2>2 DEF Announced, StepRight, Undisturbed, OnRunqueue
  <2> QED BY <1>1, <2>1, <2>3 DEF QueueRight
<1> QED BY <1>2, <1>3, <1>4, <1>5 DEF EInv

(* A thread inside an event function exists, and is not asleep. *)
LEMMA InsideFacts ==
    ASSUME EInv, NEW t \in Threads, step[t] # "none"
    PROVE  /\ sched.status[t] \in OnRunqueue \cup {"FLAG_BLOCKED_ANY"}
           /\ sched.status[t] = "FLAG_BLOCKED_ANY" => t \in Consumers
           /\ wait[t] # NoWait => step[t] = "look"
<1>1. step[t] \in {"post", "unlink", "empty", "look"}
  BY EventsTypes DEF Steps
<1> QED BY <1>1 DEF EInv, StepRight, OnRunqueue

LEMMA SystemEInv ==
    ASSUME EInv, UNCHANGED <<flagVars, eventVars>>, SystemStep \/ UNCHANGED schedVars
    PROVE  EInv'
<1>1. FInv'
  BY SystemFInv DEF EInv
<1>2. ASSUME NEW t \in Threads, step[t] # "none" PROVE Undisturbed(t)
  <2>1. Moved(t)
    <3>1. CASE SystemStep
      BY <3>1, SystemMoves DEF EInv, FInv
    <3>2. CASE UNCHANGED schedVars
      BY <3>2 DEF schedVars, Moved
    <3> QED BY <3>1, <3>2
  <2> QED BY <2>1 DEF Moved, Undisturbed, flagVars, OnRunqueue
<1> QED BY <1>1, <1>2, UndisturbedEInv

LEMMA RaiseUndisturbs ==
    ASSUME EInv, NEW u \in Threads, NEW mask, Raise(u, mask), UNCHANGED <<waited, wait>>,
           NEW t \in Threads
    PROVE  /\ Undisturbed(t)
           /\ flags[t] \subseteq flags'[t] /\ mask \subseteq flags'[u]
           /\ sched'.status[t] = "FLAG_BLOCKED_ANY" => sched.status[t] = "FLAG_BLOCKED_ANY"
<1>1. FInv
  BY DEF EInv
<1>2. flags[t] \subseteq flags'[t] /\ mask \subseteq flags'[u]
  BY <1>1, FlagsTypes DEF Raise
<1>3. sched'.status[t] = sched.status[t] \/ sched'.status[t] = "PENDING"
  BY <1>1, FlagsTypes DEF Raise, SetThreadStatus
<1> QED BY <1>2, <1>3 DEF Undisturbed, OnRunqueue

LEMMA OtherEInv ==
    ASSUME EInv, NEW t \in Threads, OtherCall(t)
    PROVE  EInv'
<1>1. FInv /\ step[t] = "none" /\ UNCHANGED eventVars
  BY DEF EInv, OtherCall
<1>2. CASE SchedCall(t)
  <2>1. FInv'
    BY <1>1, <1>2, SchedCallFInv
  <2>2. ASSUME NEW u \in Threads, step[u] # "none" PROVE Undisturbed(u)
    <3>1. /\ sched.status[u] \in OnRunqueue \cup {"FLAG_BLOCKED_ANY"}
          /\ sched.status[u] = "FLAG_BLOCKED_ANY" => u \in Consumers
      BY <2>2, InsideFacts
    <3>2. \/ Moved(u)
          \/ u = t /\ sched'.status[u] \in {"SLEEPING", "STOPPED"}
          \/ sched.status[u] \in Terminable /\ sched'.status[u] = "STOPPED"
      BY <1>1, <1>2, UserCallMoves DEF FInv, SchedCall
    <3>3. ~Created(u)
      BY <3>1 DEF Created, OnRunqueue
    <3>4. flags'[u] = flags[u] /\ waited'[u] = waited[u] /\ wait'[u] = wait[u]
      BY <1>2, <3>3 DEF SchedCall
    <3>5. u \in Consumers /\ sched.status[u] # "STOPPED" => sched'.status[u] # "STOPPED"
      BY DEF OtherCall
    <3>6. Terminable \subseteq OffRunqueue
      BY SchedAssumption
    <3>7. Moved(u)
      BY <1>1, <2>2, <3>1, <3>2, <3>5, <3>6 DEF OnRunqueue, OffRunqueue
    <3> QED BY <3>4, <3>7 DEF Moved, Undisturbed, OnRunqueue
  <2> QED BY <1>1, <2>1, <2>2, UndisturbedEInv
<1>3. CASE FlagsCall(t)
  <2>1. FInv'
    BY <1>1, <1>3, FlagsCallFInv
  <2>2. ASSUME NEW u \in Threads, step[u] # "none" PROVE Undisturbed(u)
    <3>1. u # t
      BY <1>1, <2>2
    <3>2. CASE \E v \in Threads, mask \in SUBSET FlagBits : FlagsSet(t, v, mask)
      BY <3>2, RaiseUndisturbs DEF FlagsSet
    <3>3. CASE \E kind \in WaitKinds, mask \in SUBSET FlagBits : FlagsWait(t, kind, mask)
      <4>1. PICK kind \in WaitKinds, mask \in SUBSET FlagBits : FlagsWait(t, kind, mask)
        BY <3>3
      <4>2. CheckFlags(t, kind, mask)
        BY <4>1 DEF FlagsWait
      <4>3. /\ wait'[u] = wait[u] /\ waited'[u] = waited[u] /\ flags'[u] = flags[u]
            /\ sched'.status[u] = sched.status[u]
        BY <1>1, <3>1, <4>2, FlagsTypes DEF CheckFlags, SetThreadStatus
      <4> QED BY <4>3 DEF Undisturbed
    <3>4. CASE \E mask \in SUBSET FlagBits : FlagsClear(t, mask)
      <4>1. /\ wait'[u] = wait[u] /\ waited'[u] = waited[u] /\ flags'[u] = flags[u]
            /\ sched'.status[u] = sched.status[u]
        BY <1>1, <3>1, <3>4, FlagsTypes DEF FlagsClear, schedVars
      <4> QED BY <4>1 DEF Undisturbed
    <3> QED BY <1>3, <3>2, <3>3, <3>4 DEF FlagsCall
  <2> QED BY <1>1, <2>1, <2>2, UndisturbedEInv
<1> QED BY <1>2, <1>3 DEF OtherCall

LEMMA ClearEInv ==
    ASSUME EInv, NEW t \in Threads, ChooseOne(t) \/ ClearFlags(t), UNCHANGED eventVars
    PROVE  EInv'
<1>1. FInv /\ FInv'
  BY FlagsCallFInv DEF EInv
<1>2. /\ Executing(t) /\ pc[t] = "user" /\ wait[t] # NoWait /\ UNCHANGED <<sched, waited>>
  BY DEF ChooseOne, ClearFlags, WaitPassed, schedVars
<1>3. sched.status[t] \in OnRunqueue
  BY <1>1, <1>2, ExecutingExists DEF FInv
<1>4. \A u \in Threads \ {t} : flags'[u] = flags[u] /\ wait'[u] = wait[u]
  BY <1>1, FlagsTypes DEF ChooseOne, ClearFlags
<1>5. ASSUME NEW u \in Threads, step[u] # "none" PROVE Undisturbed(u)
  <2>1. CASE u = t
    BY <1>2, <1>3, <1>5, <2>1, InsideFacts DEF Undisturbed, OnRunqueue
  <2>2. CASE u # t
    BY <1>2, <1>4, <2>2 DEF Undisturbed
  <2> QED BY <2>1, <2>2
<1> QED BY <1>1, <1>5, UndisturbedEInv

LEMMA IsrSetEInv ==
    ASSUME EInv, NEW u \in Threads, NEW mask \in SUBSET FlagBits, IsrFlagsSet(u, mask),
           UNCHANGED eventVars
    PROVE  EInv'
<1>1. FInv'
  BY IsrFlagsSetFInv DEF EInv
<1>2. \A t \in Threads : Undisturbed(t)
  BY RaiseUndisturbs DEF IsrFlagsSet
<1> QED BY <1>1, <1>2, UndisturbedEInv

-----------------------------------------------------------------------------
(* The events.                                                             *)

(* What e is linked into, and who unlinks it, stays. *)
LEMMA EventsStay ==
    ASSUME EInv, UNCHANGED <<events, linked, taken>>,
           \A e \in AllEvents : (Unlinking(e)' <=> Unlinking(e))
    PROVE  /\ \A e \in AllEvents : EventRight(e)'
           /\ \A c \in Consumers : QueueRight(c)'
BY DEF EInv, EventRight, Queued, QueueRight

(* The first part of a post: a linked event is not linked again.           *)
LEMMA LinkRight ==
    ASSUME EInv, NEW e \in AllEvents, Link(e), UNCHANGED taken,
           \A x \in AllEvents : (Unlinking(x)' <=> Unlinking(x))
    PROVE  /\ \A x \in AllEvents : EventRight(x)'
           /\ \A c \in Consumers : QueueRight(c)'
           /\ \A c \in Consumers : c # Target[e] => events'[c] = events[c]
           /\ events' \in [Consumers -> Seq(AllEvents)]
           /\ linked' \in [AllEvents -> BOOLEAN]
<1>1. linked' = [linked EXCEPT ![e] = TRUE]
  BY DEF Link
<1>2. CASE linked[e]
  <2>1. UNCHANGED <<events, linked>>
    BY <1>1, <1>2, EventsTypes DEF Link
  <2> QED BY <2>1, EventsStay, EventsTypes
<1>3. CASE ~linked[e]
  <2> DEFINE c == Target[e]
             q == events[c]
  <2>1. c \in Consumers /\ q \in Seq(AllEvents) /\ QueueRight(c)
    BY EventsFacts, EventsTypes DEF EInv
  <2>2. ~Queued(e) /\ ~Unlinking(e) /\ e \notin taken
    BY <1>3 DEF EInv, EventRight
  <2>3. events' = [events EXCEPT ![c] = Append(q, e)]
    BY <1>3 DEF Link
  <2>4. e \notin ToSet(q) /\ IsInjective(q)
    BY <2>1, <2>2 DEF Queued, QueueRight
  <2>5. /\ Append(q, e) \in Seq(AllEvents) /\ IsInjective(Append(q, e))
        /\ ToSet(Append(q, e)) = ToSet(q) \cup {e}
    BY <2>1, <2>4, AppendDistinct
  <2> HIDE DEF q
  <2>6. /\ events'[c] = Append(q, e)
        /\ \A d \in Consumers : d # c => events'[d] = events[d]
    BY <2>1, <2>3, EventsTypes
  <2>7. \A d \in Consumers : QueueRight(d)'
    BY <2>1, <2>5, <2>6 DEF EInv, QueueRight, q
  <2>8. \A x \in AllEvents : (Queued(x)' <=> Queued(x) \/ x = e)
    BY <2>1, <2>5, <2>6, EventsFacts DEF Queued, q
  <2>9. \A x \in AllEvents : EventRight(x)'
    BY <1>1, <2>2, <2>8, EventsTypes DEF EInv, EventRight
  <2>10. events' \in [Consumers -> Seq(AllEvents)] /\ linked' \in [AllEvents -> BOOLEAN]
    BY <1>1, <2>3, <2>5, EventsTypes
  <2> QED BY <2>6, <2>7, <2>9, <2>10
<1> QED BY <1>2, <1>3

(* The consumer pops the first event off its queue. *)
LEMMA PopQueues ==
    ASSUME EInv, NEW c \in Consumers, Pop(c)
    PROVE  LET e == Head(events[c])
           IN  /\ e \in AllEvents /\ Target[e] = c /\ Queued(e)
               /\ \A x \in AllEvents : (Queued(x)' <=> Queued(x) /\ x # e)
               /\ \A d \in Consumers : QueueRight(d)'
               /\ \A d \in Consumers : d # c => events'[d] = events[d]
               /\ events' \in [Consumers -> Seq(AllEvents)]
<1> DEFINE q == events[c]
           e == Head(q)
<1>1. q \in Seq(AllEvents) /\ q # <<>> /\ QueueRight(c) /\ IsInjective(q)
  BY EventsTypes DEF EInv, Pop, QueueRight
<1>2. events' = [events EXCEPT ![c] = Tail(q)]
  BY DEF Pop
<1>3. e \in AllEvents /\ e \in ToSet(q)
  BY <1>1 DEF ToSet
<1>4. /\ Tail(q) \in Seq(AllEvents) /\ IsInjective(Tail(q))
      /\ ToSet(Tail(q)) = ToSet(q) \ {e}
  BY <1>1, LeftPopDistinct DEF LeftPop
<1> HIDE DEF e
<1>5. Target[e] = c /\ Queued(e)
  BY <1>1, <1>3 DEF QueueRight, Queued
<1>6. /\ events'[c] = Tail(q) /\ \A d \in Consumers : d # c => events'[d] = events[d]
      /\ events' \in [Consumers -> Seq(AllEvents)]
  BY <1>2, <1>4, EventsTypes
<1> HIDE DEF q
<1>7. \A d \in Consumers : QueueRight(d)'
  BY <1>1, <1>4, <1>6 DEF EInv, QueueRight, q
<1>8. \A x \in AllEvents : (Queued(x)' <=> Queued(x) /\ x # e)
  <2> SUFFICES ASSUME NEW x \in AllEvents PROVE Queued(x)' <=> Queued(x) /\ x # e
    OBVIOUS
  <2>1. CASE Target[x] = c
    BY <1>4, <1>6, <2>1 DEF Queued, q
  <2>2. CASE Target[x] # c
    BY <1>5, <1>6, <2>2, EventsFacts DEF Queued
  <2> QED BY <2>1, <2>2
<1> QED BY <1>3, <1>5, <1>6, <1>7, <1>8 DEF e, q

(* Who stands where in the event functions, when t takes a step that       *)
(* changes nothing of the flags and the scheduler.                         *)
LEMMA OthersStand ==
    ASSUME EInv, NEW t \in Threads, NEW s \in Steps, NEW x \in AllEvents \cup {NoEvent},
           GoTo(t, s, x), UNCHANGED <<schedVars, flagVars>>
    PROVE  /\ step'[t] = s /\ what'[t] = x
           /\ \A u \in Threads \ {t} :
                step'[u] = step[u] /\ what'[u] = what[u] /\ StepRight(u)'
           /\ step' \in [Threads -> Steps]
           /\ what' \in [Threads -> AllEvents \cup {NoEvent}]
           /\ FInv'
           /\ UNCHANGED <<sched, wait, flags, waited>>
<1>1. /\ step' = [step EXCEPT ![t] = s] /\ what' = [what EXCEPT ![t] = x]
      /\ UNCHANGED <<sched, wait, flags, waited>>
  BY DEF GoTo, schedVars, flagVars
<1>2. FInv'
  BY SystemFInv DEF EInv
<1>3. /\ step'[t] = s /\ what'[t] = x
      /\ \A u \in Threads \ {t} : step'[u] = step[u] /\ what'[u] = what[u]
  BY <1>1, EventsTypes
<1>4. \A u \in Threads \ {t} : StepRight(u)'
  BY <1>1, <1>3 DEF EInv, StepRight
<1> QED BY <1>1, <1>2, <1>3, <1>4, EventsTypes

(* A thread that takes such a step was at a step named, and is in no wait. *)
LEMMA AtStepFacts ==
    ASSUME EInv, NEW t \in Threads, InUser(t)
    PROVE  sched.status[t] \in OnRunqueue /\ wait[t] = NoWait
BY ExecutingExists DEF EInv, FInv, InUser

LEMMA AnnouncedStays ==
    ASSUME EInv, NEW c \in Consumers,
           events'[c] = events[c], step'[c] = step[c],
           sched'.status[c] = "FLAG_BLOCKED_ANY" => sched.status[c] = "FLAG_BLOCKED_ANY",
           flags[c] \subseteq flags'[c],
           EventFlag \in flags'[c] \/ (Posting(c) => Posting(c)')
    PROVE  Announced(c)'
BY DEF EInv, Announced

(* t goes to a step at which it posts nothing, from one at which it posts  *)
(* nothing. *)
LEMMA PostingStays ==
    ASSUME EInv, NEW t \in Threads, step[t] # "post", NEW c \in Consumers,
           \A u \in Threads \ {t} : step'[u] = step[u] /\ what'[u] = what[u]
    PROVE  Posting(c) => Posting(c)'
BY DEF Posting

LEMMA PostLinkEInv ==
    ASSUME EInv, NEW t \in Threads, NEW e \in AllEvents, PostLink(t, e)
    PROVE  EInv'
<1>1. /\ InUser(t) /\ step[t] = "none" /\ Link(e) /\ GoTo(t, "post", e)
      /\ UNCHANGED <<schedVars, flagVars, taken>>
  BY DEF PostLink, AtStep
<1>2. /\ step'[t] = "post" /\ what'[t] = e
      /\ \A u \in Threads \ {t} :
           step'[u] = step[u] /\ what'[u] = what[u] /\ StepRight(u)'
      /\ step' \in [Threads -> Steps] /\ what' \in [Threads -> AllEvents \cup {NoEvent}]
      /\ FInv' /\ UNCHANGED <<sched, wait, flags, waited>>
  BY <1>1, OthersStand DEF Steps
<1>3. \A x \in AllEvents : (Unlinking(x)' <=> Unlinking(x))
  BY <1>1, <1>2, EventsFacts DEF Unlinking
<1>4. /\ \A x \in AllEvents : EventRight(x)'
      /\ \A c \in Consumers : QueueRight(c)'
      /\ \A c \in Consumers : c # Target[e] => events'[c] = events[c]
      /\ events' \in [Consumers -> Seq(AllEvents)] /\ linked' \in [AllEvents -> BOOLEAN]
  BY <1>1, <1>3, LinkRight
<1>5. \A u \in Threads : StepRight(u)'
  BY <1>1, <1>2, AtStepFacts DEF StepRight
<1>6. ASSUME NEW c \in Consumers PROVE Announced(c)'
  <2>1. c \in Threads
    BY EventsFacts
  <2>2. CASE c = t
    BY <1>2, <2>2 DEF Announced
  <2>3. CASE c = Target[e]
    BY <1>2, <2>3 DEF Announced, Posting
  <2>4. CASE c # t /\ c # Target[e]
    BY <1>1, <1>2, <1>4, <2>1, <2>4, AnnouncedStays, PostingStays
  <2> QED BY <2>2, <2>3, <2>4
<1>7. EventsTypeOK'
  BY <1>1, <1>2, <1>4, EventsTypes DEF EventsTypeOK, FInv
<1> QED BY <1>2, <1>4, <1>5, <1>6, <1>7 DEF EInv

(* The step of a consumer that leaves its queue for good or empty-handed.  *)
LEMMA ConsumerStep ==
    ASSUME EInv, NEW c \in Consumers, InUser(c), step[c] # "post",
           NEW s \in Steps, NEW x \in AllEvents \cup {NoEvent}, GoTo(c, s, x),
           UNCHANGED <<schedVars, flagVars>>,
           s = "none" \/ (s = "unlink" /\ x \in AllEvents /\ Target[x] = c)
                \/ (s = "empty" /\ events'[c] = <<>> /\ c # Idle),
           \A d \in Consumers : d # c => events'[d] = events[d],
           events' \in [Consumers -> Seq(AllEvents)],
           linked' \in [AllEvents -> BOOLEAN], taken' \subseteq AllEvents,
           \A e \in AllEvents : EventRight(e)', \A d \in Consumers : QueueRight(d)'
    PROVE  EInv'
<1>1. c \in Threads
  BY EventsFacts
<1>2. /\ step'[c] = s /\ what'[c] = x
      /\ \A u \in Threads \ {c} :
           step'[u] = step[u] /\ what'[u] = what[u] /\ StepRight(u)'
      /\ step' \in [Threads -> Steps] /\ what' \in [Threads -> AllEvents \cup {NoEvent}]
      /\ FInv' /\ UNCHANGED <<sched, wait, flags, waited>>
  BY <1>1, OthersStand
<1>3. sched.status[c] \in OnRunqueue /\ wait[c] = NoWait
  BY <1>1, AtStepFacts
<1>4. StepRight(c)'
  BY <1>1, <1>2, <1>3 DEF StepRight
<1>5. ASSUME NEW d \in Consumers PROVE Announced(d)'
  <2>1. CASE d = c
    BY <1>2, <2>1 DEF Announced
  <2>2. CASE d # c
    <3>1. d \in Threads
      BY EventsFacts
    <3> QED BY <1>1, <1>2, <2>2, <3>1, AnnouncedStays, PostingStays
  <2> QED BY <2>1, <2>2
<1>6. EventsTypeOK'
  BY <1>2 DEF EventsTypeOK, FInv
<1> QED BY <1>2, <1>4, <1>5, <1>6 DEF EInv

LEMMA GetEInv ==
    ASSUME EInv, NEW c \in Consumers, Get(c)
    PROVE  EInv'
<1> DEFINE e == Head(events[c])
<1>1. /\ InUser(c) /\ step[c] = "none" /\ Pop(c) /\ GoTo(c, "unlink", e)
      /\ UNCHANGED <<schedVars, flagVars, linked, taken>> /\ c \in Threads
  BY EventsFacts DEF Get, AtStep
<1>2. /\ e \in AllEvents /\ Target[e] = c /\ Queued(e)
      /\ \A x \in AllEvents : (Queued(x)' <=> Queued(x) /\ x # e)
      /\ \A d \in Consumers : QueueRight(d)'
      /\ \A d \in Consumers : d # c => events'[d] = events[d]
      /\ events' \in [Consumers -> Seq(AllEvents)]
  BY <1>1, PopQueues
<1> HIDE DEF e
<1>3. /\ step'[c] = "unlink" /\ what'[c] = e
      /\ \A u \in Threads \ {c} : step'[u] = step[u] /\ what'[u] = what[u]
  BY <1>1, <1>2, OthersStand DEF Steps
<1>4. \A x \in AllEvents : (Unlinking(x)' <=> Unlinking(x) \/ x = e)
  BY <1>1, <1>2, <1>3, EventsFacts DEF Unlinking
<1>5. \A x \in AllEvents : EventRight(x)'
  BY <1>1, <1>2, <1>4 DEF EInv, EventRight
<1> QED BY <1>1, <1>2, <1>5, ConsumerStep, EventsTypes DEF Steps

LEMMA UnlinkEInv ==
    ASSUME EInv, NEW c \in Threads, Unlink(c)
    PROVE  EInv'
<1> DEFINE e == what[c]
<1>1. /\ InUser(c) /\ step[c] = "unlink" /\ GoTo(c, "none", NoEvent)
      /\ linked' = [linked EXCEPT ![e] = FALSE]
      /\ UNCHANGED <<schedVars, flagVars, events, taken>>
  BY DEF Unlink, AtStep
<1>2. c \in Consumers /\ e \in AllEvents /\ Target[e] = c
  BY <1>1 DEF EInv, StepRight
<1>3. Unlinking(e)
  BY <1>1, <1>2 DEF Unlinking
<1> HIDE DEF e
<1>4. /\ step'[c] = "none"
      /\ \A u \in Threads \ {c} : step'[u] = step[u] /\ what'[u] = what[u]
  BY <1>1, OthersStand DEF Steps
<1>5. \A x \in AllEvents : (Unlinking(x)' <=> Unlinking(x) /\ x # e)
  BY <1>1, <1>2, <1>4, EventsFacts DEF Unlinking, e
<1>6. \A x \in AllEvents : (Queued(x)' <=> Queued(x)) /\ (linked'[x] <=> linked[x] /\ x # e)
  BY <1>1, EventsTypes DEF Queued
<1>7. \A x \in AllEvents : EventRight(x)'
  BY <1>1, <1>3, <1>5, <1>6 DEF EInv, EventRight
<1>8. \A d \in Consumers : QueueRight(d)'
  BY <1>1 DEF EInv, QueueRight
<1> QED BY <1>1, <1>2, <1>7, <1>8, ConsumerStep, EventsTypes DEF Steps

LEMMA WaitTakeEInv ==
    ASSUME EInv, NEW c \in Consumers, WaitTake(c)
    PROVE  EInv'
<1> DEFINE e == Head(events[c])
<1>1. /\ InUser(c) /\ step[c] \in {"none", "look"} /\ Pop(c) /\ GoTo(c, "none", NoEvent)
      /\ taken' = taken \cup {e}
      /\ UNCHANGED <<schedVars, flagVars, linked>> /\ c \in Threads
  BY EventsFacts DEF WaitTake, AtStep
<1>2. /\ e \in AllEvents /\ Target[e] = c /\ Queued(e)
      /\ \A x \in AllEvents : (Queued(x)' <=> Queued(x) /\ x # e)
      /\ \A d \in Consumers : QueueRight(d)'
      /\ \A d \in Consumers : d # c => events'[d] = events[d]
      /\ events' \in [Consumers -> Seq(AllEvents)]
  BY <1>1, PopQueues
<1> HIDE DEF e
<1>3. /\ step'[c] = "none"
      /\ \A u \in Threads \ {c} : step'[u] = step[u] /\ what'[u] = what[u]
  BY <1>1, OthersStand DEF Steps
<1>4. \A x \in AllEvents : (Unlinking(x)' <=> Unlinking(x))
  BY <1>1, <1>3, EventsFacts DEF Unlinking
<1>5. \A x \in AllEvents : EventRight(x)'
  BY <1>1, <1>2, <1>4 DEF EInv, EventRight
<1> QED BY <1>1, <1>2, <1>5, ConsumerStep, EventsTypes DEF Steps

LEMMA WaitEmptyEInv ==
    ASSUME EInv, NEW c \in Consumers, WaitEmpty(c)
    PROVE  EInv'
<1>1. /\ InUser(c) /\ step[c] \in {"none", "look"} /\ GoTo(c, "empty", NoEvent)
      /\ events[c] = <<>> /\ c # Idle /\ c \in Threads
      /\ UNCHANGED <<schedVars, flagVars, events, linked, taken>>
  BY EventsFacts DEF WaitEmpty, AtStep
<1>2. /\ step'[c] = "empty"
      /\ \A u \in Threads \ {c} : step'[u] = step[u] /\ what'[u] = what[u]
  BY <1>1, OthersStand DEF Steps
<1>3. \A x \in AllEvents : (Unlinking(x)' <=> Unlinking(x))
  BY <1>1, <1>2, EventsFacts DEF Unlinking
<1> QED BY <1>1, <1>3, EventsStay, ConsumerStep, EventsTypes DEF Steps

(* event_cancel() and event_release() leave every thread where it stands.  *)
LEMMA CancelEInv ==
    ASSUME EInv, NEW c \in Threads, NEW e \in AllEvents, Cancel(c, e) \/ Release(c, e)
    PROVE  EInv'
<1>1. /\ InUser(c) /\ step[c] = "none" /\ Target[e] = c /\ c \in Consumers
      /\ linked' = [linked EXCEPT ![e] = FALSE] /\ taken' = taken \ {e}
      /\ UNCHANGED <<schedVars, flagVars, step, what>>
  BY EventsFacts DEF Cancel, Release, AtStep
<1> DEFINE q == events[c]
<1>2. q \in Seq(AllEvents) /\ QueueRight(c) /\ IsInjective(q)
  BY <1>1, EventsTypes DEF EInv, QueueRight
<1>3. /\ events'[c] \in Seq(AllEvents) /\ IsInjective(events'[c])
      /\ ToSet(events'[c]) = ToSet(q) \ {e}
      /\ \A d \in Consumers : d # c => events'[d] = events[d]
      /\ events' \in [Consumers -> Seq(AllEvents)]
  <2>1. CASE Cancel(c, e)
    <3>1. events' = [events EXCEPT ![c] = Without(q, e)]
      BY <2>1 DEF Cancel
    <3>2. /\ Without(q, e) \in Seq(AllEvents) /\ IsInjective(Without(q, e))
          /\ ToSet(Without(q, e)) = ToSet(q) \ {e}
      BY <1>2, WithoutDistinct
    <3> HIDE DEF q
    <3> QED BY <1>1, <3>1, <3>2, EventsTypes
  <2>2. CASE Release(c, e)
    <3>1. ~Queued(e) /\ UNCHANGED events
      BY <2>2 DEF Release, EInv, EventRight
    <3> QED BY <1>1, <1>2, <3>1, EventsTypes DEF Queued
  <2> QED BY <2>1, <2>2
<1>4. \A x \in AllEvents :
         /\ (Queued(x)' <=> Queued(x) /\ x # e) /\ (Unlinking(x)' <=> Unlinking(x))
         /\ (linked'[x] <=> linked[x] /\ x # e)
  <2> SUFFICES ASSUME NEW x \in AllEvents
               PROVE  /\ (Queued(x)' <=> Queued(x) /\ x # e)
                      /\ (Unlinking(x)' <=> Unlinking(x))
                      /\ (linked'[x] <=> linked[x] /\ x # e)
    OBVIOUS
  <2>1. Queued(x)' <=> Queued(x) /\ x # e
    <3>1. CASE Target[x] = c
      BY <1>3, <3>1 DEF Queued
    <3>2. CASE Target[x] # c
      BY <1>1, <1>3, <3>2, EventsFacts DEF Queued
    <3> QED BY <3>1, <3>2
  <2> QED BY <1>1, <2>1, EventsTypes DEF Unlinking
<1>5. ~Unlinking(e)
  BY <1>1 DEF Unlinking
<1>6. \A x \in AllEvents : EventRight(x)'
  BY <1>1, <1>4, <1>5 DEF EInv, EventRight
<1>7. \A d \in Consumers : QueueRight(d)'
  BY <1>1, <1>2, <1>3 DEF EInv, QueueRight
<1>8. FInv' /\ UNCHANGED <<sched, wait, flags, waited>>
  BY <1>1, SystemFInv DEF EInv, schedVars, flagVars
<1>9. \A t \in Threads : StepRight(t)'
  BY <1>1, <1>8 DEF EInv, StepRight
<1>10. ASSUME NEW d \in Consumers PROVE Announced(d)'
  <2>1. CASE d = c
    BY <1>1, <2>1 DEF Announced
  <2>2. CASE d # c
    <3>1. Posting(d) => Posting(d)'
      BY <1>1 DEF Posting
    <3> QED BY <1>1, <1>3, <1>8, <2>2, <3>1, AnnouncedStays
  <2> QED BY <2>1, <2>2
<1>11. EventsTypeOK'
  BY <1>1, <1>3, <1>8, EventsTypes DEF EventsTypeOK, FInv
<1> QED BY <1>6, <1>7, <1>8, <1>9, <1>10, <1>11 DEF EInv

LEMMA PostRaiseEInv ==
    ASSUME EInv, NEW t \in Threads, PostRaise(t)
    PROVE  EInv'
<1> DEFINE u == Target[what[t]]
<1>1. /\ step[t] = "post" /\ GoTo(t, "none", NoEvent) /\ UNCHANGED <<events, linked, taken>>
      /\ FlagsSet(t, u, {EventFlag}) /\ Raise(u, {EventFlag}) /\ UNCHANGED <<waited, wait>>
  BY DEF PostRaise, AtStep, FlagsSet
<1>2. u \in Threads /\ {EventFlag} \in SUBSET FlagBits
  BY <1>1, EventsFacts DEF EInv, StepRight
<1>3. FInv'
  BY <1>1, <1>2, FlagsSetFInv DEF EInv
<1>4. /\ step'[t] = "none" /\ what'[t] = NoEvent
      /\ \A v \in Threads \ {t} : step'[v] = step[v] /\ what'[v] = what[v]
      /\ step' \in [Threads -> Steps] /\ what' \in [Threads -> AllEvents \cup {NoEvent}]
  BY <1>1, EventsTypes DEF GoTo, Steps
<1> HIDE DEF u
<1>5. \A v \in Threads : /\ Undisturbed(v)
                         /\ flags[v] \subseteq flags'[v] /\ {EventFlag} \subseteq flags'[u]
                         /\ sched'.status[v] = "FLAG_BLOCKED_ANY" =>
                              sched.status[v] = "FLAG_BLOCKED_ANY"
  BY <1>1, <1>2, RaiseUndisturbs
<1>6. \A e \in AllEvents : (Unlinking(e)' <=> Unlinking(e))
  BY <1>1, <1>4, EventsFacts DEF Unlinking
<1>7. /\ \A e \in AllEvents : EventRight(e)'
      /\ \A c \in Consumers : QueueRight(c)'
  BY <1>1, <1>6, EventsStay
<1>8. ASSUME NEW v \in Threads PROVE StepRight(v)'
  <2>1. CASE v = t
    BY <1>4, <2>1 DEF StepRight
  <2>2. CASE v # t
    BY <1>4, <1>5, <2>2, UndisturbedRight
  <2> QED BY <2>1, <2>2
<1>9. ASSUME NEW c \in Consumers PROVE Announced(c)'
  <2>1. c \in Threads
    BY EventsFacts
  <2>2. CASE c = t
    BY <1>4, <2>2 DEF Announced
  <2>3. CASE c # t
    <3>1. EventFlag \in flags'[c] \/ (Posting(c) => Posting(c)')
      <4>1. CASE c = u
        BY <1>5, <4>1
      <4>2. CASE c # u
        <5>1. Posting(c) => \E v \in Threads \ {t} : step[v] = "post" /\ Target[what[v]] = c
          BY <4>2 DEF Posting, u
        <5> QED BY <1>4, <5>1 DEF Posting
      <4> QED BY <4>1, <4>2
    <3> QED BY <1>1, <1>4, <1>5, <2>1, <2>3, <3>1, AnnouncedStays
  <2> QED BY <2>2, <2>3
<1>10. EventsTypeOK'
  BY <1>1, <1>3, <1>4, EventsTypes DEF EventsTypeOK, FInv
<1> QED BY <1>3, <1>7, <1>8, <1>9, <1>10 DEF EInv

(* event_wait() waits for the flag: it does not block when a post has      *)
(* raised the flag since the look at the queue.                            *)
LEMMA WaitFlagEInv ==
    ASSUME EInv, NEW c \in Threads, WaitFlag(c)
    PROVE  EInv'
<1>1. /\ InUser(c) /\ step[c] = "empty" /\ CheckFlags(c, "any", {EventFlag})
      /\ GoTo(c, "look", NoEvent) /\ UNCHANGED <<events, linked, taken>>
  BY DEF WaitFlag, WaitForFlag, AtStep
<1>2. /\ c \in Consumers /\ c # Idle /\ sched.status[c] \in OnRunqueue /\ Announced(c)
      /\ {EventFlag} \in SUBSET FlagBits /\ "any" \in WaitKinds
  BY <1>1, EventsFacts DEF EInv, StepRight, WaitKinds
<1>3. FInv'
  BY <1>1, <1>2, FlagsWaitFInv DEF EInv
<1>4. /\ step'[c] = "look" /\ what'[c] = NoEvent
      /\ \A v \in Threads \ {c} : step'[v] = step[v] /\ what'[v] = what[v]
      /\ step' \in [Threads -> Steps] /\ what' \in [Threads -> AllEvents \cup {NoEvent}]
  BY <1>1, EventsTypes DEF GoTo, Steps
<1>5. /\ UNCHANGED flags
      /\ \A v \in Threads \ {c} : /\ sched'.status[v] = sched.status[v]
                                  /\ wait'[v] = wait[v] /\ waited'[v] = waited[v]
      /\ \/ sched'.status[c] = sched.status[c] /\ EventFlag \in flags[c]
         \/ /\ sched'.status[c] = "FLAG_BLOCKED_ANY" /\ waited'[c] = {EventFlag}
            /\ EventFlag \notin flags[c]
  <2>1. FInv
    BY DEF EInv
  <2>2. CASE EventFlag \in flags[c]
    <3>1. Satisfies(flags[c], "any", {EventFlag})
      BY <2>2 DEF Satisfies
    <3> QED BY <1>1, <2>1, <2>2, <3>1, FlagsTypes DEF CheckFlags
  <2>3. CASE EventFlag \notin flags[c]
    <3>1. ~Satisfies(flags[c], "any", {EventFlag})
      BY <2>3 DEF Satisfies
    <3>2. /\ sched'.status = [sched.status EXCEPT ![c] = "FLAG_BLOCKED_ANY"]
          /\ waited' = [waited EXCEPT ![c] = {EventFlag}]
          /\ wait' = [wait EXCEPT ![c] = [kind |-> "any", mask |-> {EventFlag}]]
          /\ UNCHANGED flags
      <4>1. sched' = SetThreadStatus(sched, c, "FLAG_BLOCKED_ANY")
        BY <1>1, <3>1 DEF CheckFlags, BlockedFor
      <4>2. sched'.status = [sched.status EXCEPT ![c] = "FLAG_BLOCKED_ANY"]
        BY <2>1, <4>1, FlagsTypes DEF SetThreadStatus
      <4> QED BY <1>1, <3>1, <4>2 DEF CheckFlags
    <3> QED BY <2>1, <2>3, <3>2, FlagsTypes
  <2> QED BY <2>2, <2>3
<1>6. \A e \in AllEvents : (Unlinking(e)' <=> Unlinking(e))
  BY <1>1, <1>4, EventsFacts DEF Unlinking
<1>7. /\ \A e \in AllEvents : EventRight(e)'
      /\ \A d \in Consumers : QueueRight(d)'
  BY <1>1, <1>6, EventsStay
<1>8. ASSUME NEW v \in Threads PROVE StepRight(v)'
  <2>1. CASE v = c
    BY <1>2, <1>4, <1>5, <2>1 DEF StepRight, OnRunqueue
  <2>2. CASE v # c
    <3>1. Undisturbed(v)
      BY <1>5, <2>2 DEF Undisturbed
    <3> QED BY <1>4, <2>2, <3>1, UndisturbedRight
  <2> QED BY <2>1, <2>2
<1>9. ASSUME NEW d \in Consumers PROVE Announced(d)'
  <2>1. d \in Threads /\ (Posting(d) => Posting(d)')
    BY <1>1, <1>4, EventsFacts, PostingStays
  <2>2. CASE d = c
    BY <1>1, <1>2, <1>4, <1>5, <2>1, <2>2 DEF Announced, OnRunqueue
  <2>3. CASE d # c
    BY <1>1, <1>4, <1>5, <2>1, <2>3, AnnouncedStays
  <2> QED BY <2>2, <2>3
<1>10. EventsTypeOK'
  BY <1>1, <1>3, <1>4, EventsTypes DEF EventsTypeOK, FInv
<1> QED BY <1>3, <1>7, <1>8, <1>9, <1>10 DEF EInv

(* A post from an interrupt handler links the event and raises the flag    *)
(* at once.                                                                *)
LEMMA IsrPostEInv ==
    ASSUME EInv, NEW e \in AllEvents, IsrPost(e)
    PROVE  EInv'
<1> DEFINE u == Target[e]
<1>1. /\ Link(e) /\ IsrFlagsSet(u, {EventFlag}) /\ UNCHANGED <<step, what, taken>>
      /\ Raise(u, {EventFlag}) /\ UNCHANGED <<waited, wait>>
  BY DEF IsrPost, IsrFlagsSet
<1>2. u \in Threads /\ {EventFlag} \in SUBSET FlagBits
  BY EventsFacts
<1>3. FInv'
  BY <1>1, <1>2, IsrFlagsSetFInv DEF EInv
<1>4. /\ \A x \in AllEvents : EventRight(x)'
      /\ \A c \in Consumers : QueueRight(c)'
      /\ \A c \in Consumers : c # u => events'[c] = events[c]
      /\ events' \in [Consumers -> Seq(AllEvents)] /\ linked' \in [AllEvents -> BOOLEAN]
  <2>1. \A x \in AllEvents : (Unlinking(x)' <=> Unlinking(x))
    BY <1>1 DEF Unlinking
  <2> QED BY <1>1, <2>1, LinkRight
<1> HIDE DEF u
<1>5. \A v \in Threads : /\ Undisturbed(v)
                         /\ flags[v] \subseteq flags'[v] /\ {EventFlag} \subseteq flags'[u]
                         /\ sched'.status[v] = "FLAG_BLOCKED_ANY" =>
                              sched.status[v] = "FLAG_BLOCKED_ANY"
  BY <1>1, <1>2, RaiseUndisturbs
<1>6. \A v \in Threads : StepRight(v)'
  BY <1>1, <1>5, UndisturbedRight
<1>7. ASSUME NEW c \in Consumers PROVE Announced(c)'
  <2>1. c \in Threads /\ (Posting(c) => Posting(c)')
    BY <1>1, EventsFacts DEF Posting
  <2>2. CASE c = u
    BY <1>5, <2>1, <2>2 DEF Announced
  <2>3. CASE c # u
    BY <1>1, <1>4, <1>5, <2>1, <2>3, AnnouncedStays
  <2> QED BY <2>2, <2>3
<1>8. EventsTypeOK'
  BY <1>1, <1>3, <1>4, EventsTypes DEF EventsTypeOK, FInv
<1> QED BY <1>3, <1>4, <1>6, <1>7, <1>8 DEF EInv

-----------------------------------------------------------------------------
(* The theorems.                                                           *)

LEMMA EventsNextEInv ==
    EInv /\ [EventsNext]_allVars => EInv'
<1> SUFFICES ASSUME EInv, [EventsNext]_allVars PROVE EInv'
  OBVIOUS
<1>1. CASE UNCHANGED allVars
  BY <1>1, SystemEInv DEF allVars
<1>2. CASE SystemStep /\ UNCHANGED <<flagVars, eventVars>>
  BY <1>2, SystemEInv
<1>3. CASE \E t \in Threads : OtherCall(t)
  BY <1>3, OtherEInv
<1>4. CASE \E t \in Threads, e \in AllEvents : PostLink(t, e)
  BY <1>4, PostLinkEInv
<1>5. CASE \E t \in Threads, e \in AllEvents : Cancel(t, e) \/ Release(t, e)
  BY <1>5, CancelEInv
<1>6. CASE \E c \in Consumers : Get(c) \/ WaitTake(c) \/ WaitEmpty(c)
  BY <1>6, GetEInv, WaitTakeEInv, WaitEmptyEInv
<1>7. CASE \E t \in Threads : EventStep(t)
  BY <1>7, PostRaiseEInv, UnlinkEInv, WaitFlagEInv DEF EventStep
<1>8. CASE \E t \in Threads : (ChooseOne(t) \/ ClearFlags(t)) /\ UNCHANGED eventVars
  BY <1>8, ClearEInv
<1>9. CASE \E u \in Threads, mask \in SUBSET FlagBits :
             IsrFlagsSet(u, mask) /\ UNCHANGED eventVars
  BY <1>9, IsrSetEInv
<1>10. CASE \E e \in AllEvents : IsrPost(e)
  BY <1>10, IsrPostEInv
<1> QED BY <1>1, <1>2, <1>3, <1>4, <1>5, <1>6, <1>7, <1>8, <1>9, <1>10
        DEF EventsNext, EventCall, SystemStep

THEOREM EventsInvariance == EventsSpec => []EInv
<1> QED BY InitEInv, EventsNextEInv, PTL DEF EventsSpec

(* No variable of the event queues leaves its type. *)
THEOREM EventsTypeCorrect == EventsSpec => []EventsTypeOK
<1>1. EInv => EventsTypeOK
  BY DEF EInv
<1> QED BY <1>1, EventsInvariance, PTL

(* An event is in at most one place, and marked as linked exactly when it  *)
(* is in one: neither posts racing with one another and with the consumer, *)
(* nor a cancel, link an event twice or lose it.                           *)
THEOREM EventsInOnePlace == EventsSpec => []LinkedIsSomewhere
<1>1. EInv => LinkedIsSomewhere
  BY EventsFacts DEF EInv, EventRight, QueueRight, Queued, Unlinking, LinkedIsSomewhere
<1> QED BY <1>1, EventsInvariance, PTL

(* A consumer does not sleep on an event in its queue, unless the thread   *)
(* that linked the event is about to raise the flag.                       *)
THEOREM PostsAreNoticed == EventsSpec => []NoEventOverlooked
<1>1. EInv => NoEventOverlooked
  <2> SUFFICES ASSUME EInv, NEW c \in Consumers,
                      step[c] = "look", sched.status[c] = "FLAG_BLOCKED_ANY",
                      events[c] # <<>>
               PROVE  Posting(c)
    BY DEF NoEventOverlooked, Posting
  <2>1. c \in Threads /\ StepRight(c) /\ Announced(c) /\ WaitRight(c)
    BY EventsFacts DEF EInv, FInv
  <2>2. /\ wait[c] # NoWait /\ ~Satisfies(flags[c], wait[c].kind, waited[c])
        /\ waited[c] = {EventFlag}
    BY <2>1 DEF StepRight, WaitRight, FlagBlocked
  <2>3. EventFlag \notin flags[c]
    BY <2>2 DEF Satisfies
  <2> QED BY <2>1, <2>3 DEF Announced
<1> QED BY <1>1, EventsInvariance, PTL
=============================================================================
