----------------------------- MODULE MsgProofs -----------------------------
(***************************************************************************)
(* Theorems about messages, for any number of threads, queues of any size  *)
(* and any bound on the messages sent.                                     *)
(***************************************************************************)
EXTENDS Msg, SchedProofs

-----------------------------------------------------------------------------
(* The inductive invariant.  A request is in one place until it is         *)
(* answered: with its sender, which waits for room, in a queue, in the Msg *)
(* of a receive() that has not returned, or with the server that owes the  *)
(* reply.  A note counts while its sender waits with it.                   *)

IsRequest(m, t) == m.kind = "request" /\ m.from = t

Asks(q, t) == \E i \in DOMAIN q : IsRequest(q[i], t)

Places == {"waiting", "queued", "handed", "owed"}

At(k, t, u) ==
    \/ k = "waiting" /\ t \in ToSet(sendq[u])
    \/ k = "queued" /\ Asks(queue[u], t)
    \/ k = "handed" /\ call[u] = "receive" /\ box[u] # NoMsg /\ IsRequest(box[u], t)
    \/ k = "owed" /\ t \in owed[u]

(* How a thread in such a place is blocked. *)
Fits(k, st, c) ==
    \/ k = "waiting" /\ st = "SEND_BLOCKED" /\ c = "send"
    \/ k = "waiting" /\ st = "REPLY_BLOCKED" /\ c = "ask"
    \/ k # "waiting" /\ st = "REPLY_BLOCKED" /\ c \in {"ask", "recheck"}

PlaceRight(t) ==
    /\ \A k, l \in Places, u, v \in Owners :
         At(k, t, u) /\ At(l, t, v) => k = l /\ u = v
    /\ \A k \in Places, u \in Owners :
         At(k, t, u) => t \in Threads /\ Fits(k, sched.status[t], call[t])

RequestsOnce(q) ==
    \A i, j \in DOMAIN q :
        q[i].kind = "request" /\ q[j].kind = "request" /\ q[i].from = q[j].from => i = j

QueueRight(u) ==
    /\ RequestsOnce(queue[u])
    /\ IsInjective(sendq[u]) /\ ByUrgency(sendq[u])

MsgBlocked == {"SEND_BLOCKED", "RECEIVE_BLOCKED", "REPLY_BLOCKED"}

(* The status of a thread inside a call, and the Msg it waits with. *)
CallRight(t) ==
    /\ call[t] = "none" => sched.status[t] \notin MsgBlocked /\ box[t] = NoMsg
    /\ call[t] = "send" =>
         \/ /\ sched.status[t] = "SEND_BLOCKED" /\ box[t] # NoMsg /\ box[t].kind = "note"
            /\ box[t].from = t
            /\ \E u \in Owners : t \in ToSet(sendq[u])
         \/ sched.status[t] \in OnRunqueue /\ box[t] = NoMsg
    /\ call[t] = "receive" =>
         /\ t \in Owners
         /\ \/ /\ sched.status[t] = "RECEIVE_BLOCKED" /\ box[t] = NoMsg
               /\ queue[t] = <<>> /\ sendq[t] = <<>>
            \/ sched.status[t] \in OnRunqueue /\ box[t] # NoMsg
    /\ call[t] \in {"ask", "recheck"} =>
         /\ t \in Owners /\ box[t] # NoMsg
         /\ \/ sched.status[t] = "REPLY_BLOCKED" /\ IsRequest(box[t], t)
            \/ sched.status[t] \in OnRunqueue /\ box[t].kind = "reply"

(* A thread that a handler's reply finds on its way out of the core does   *)
(* not go on as if it headed its run queue. *)
RecheckRight(t) ==
    call[t] = "recheck" /\ Executing(t) /\ sched.status[t] \in OnRunqueue =>
        Head(sched.runqueue[Priority[t]]) = t

MInv ==
    /\ IInv
    /\ MsgTypeOK
    /\ \A u \in Owners : QueueRight(u)
    /\ \A t \in Senders : PlaceRight(t)
    /\ \A t \in Threads : CallRight(t) /\ RecheckRight(t)

LEMMA MsgTypes ==
    ASSUME MInv
    PROVE  /\ queue \in [Owners -> Seq(Messages)]
           /\ \A u \in Owners : Len(queue[u]) <= QueueSize
           /\ sendq \in [Owners -> Seq(Threads)]
           /\ box \in [Threads -> Messages \cup {NoMsg}]
           /\ call \in [Threads -> Calls]
           /\ owed \in [Owners -> SUBSET Threads]
           /\ sent \in [Senders -> [Owners -> 0 .. MaxSends]]
           /\ got \in [Owners -> [Senders -> 0 .. MaxSends]]
           /\ sched.status \in [Threads -> Statuses]
           /\ IInv /\ TypeOK
BY DEF MInv, MsgTypeOK, TypeOK

LEMMA MsgFacts ==
    /\ Owners \subseteq Threads /\ Threads \subseteq Senders /\ Isr \notin Threads
    /\ Isr \in Senders /\ QueueSize \in Nat /\ MaxSends \in Nat
    /\ NoMsg \notin Messages /\ "SEND_BLOCKED" \notin Terminable
    /\ \A u \in Owners : u \in Threads
BY MsgAssumption DEF Senders

LEMMA InitMInv ==
    MsgInit => MInv
<1> SUFFICES ASSUME MsgInit PROVE MInv
  OBVIOUS
<1>1. IInv
  BY InitIInv DEF MsgInit
<1>2. MsgTypeOK
  BY <1>1, MsgFacts DEF MsgInit, MsgTypeOK, IInv, Calls
<1>3. \A u \in Owners : QueueRight(u)
  BY DEF MsgInit, QueueRight, RequestsOnce, IsInjective, ByUrgency
<1>4. \A k \in Places, t \in Senders, u \in Owners : ~At(k, t, u)
  BY MsgFacts DEF MsgInit, At, Asks, ToSet
<1>5. \A t \in Senders : PlaceRight(t)
  BY <1>4 DEF PlaceRight
<1>6. \A t \in Threads : CallRight(t) /\ RecheckRight(t)
  BY DEF MsgInit, Init, CallRight, RecheckRight, MsgBlocked
<1> QED BY <1>1, <1>2, <1>3, <1>5, <1>6 DEF MInv

-----------------------------------------------------------------------------
(* Queues.                                                                 *)

LEMMA AppendRequests ==
    ASSUME NEW q \in Seq(Messages), NEW m \in Messages
    PROVE  /\ \A t : Asks(Append(q, m), t) <=> Asks(q, t) \/ IsRequest(m, t)
           /\ RequestsOnce(q) /\ (m.kind = "request" => ~Asks(q, m.from))
                => RequestsOnce(Append(q, m))
<1> DEFINE r == Append(q, m)
<1>1. /\ Len(r) = Len(q) + 1 /\ Len(q) \in Nat /\ r[Len(q) + 1] = m
      /\ \A i \in 1 .. Len(q) : r[i] = q[i]
      /\ DOMAIN q = 1 .. Len(q) /\ DOMAIN r = 1 .. Len(q) + 1
  BY AppendProperties
<1> HIDE DEF r
<1>2. ASSUME NEW t PROVE Asks(r, t) <=> Asks(q, t) \/ IsRequest(m, t)
  BY <1>1 DEF Asks
<1>3. ASSUME RequestsOnce(q), m.kind = "request" => ~Asks(q, m.from)
      PROVE  RequestsOnce(r)
  BY <1>1, <1>3 DEF RequestsOnce, Asks, IsRequest
<1> QED BY <1>2, <1>3 DEF r

LEMMA TailRequests ==
    ASSUME NEW q \in Seq(Messages), q # <<>>, RequestsOnce(q)
    PROVE  /\ Tail(q) \in Seq(Messages) /\ Len(Tail(q)) = Len(q) - 1
           /\ Head(q) \in Messages /\ Head(q) = q[1] /\ Len(q) \in Nat \ {0}
           /\ \A i \in 1 .. Len(q) - 1 : Tail(q)[i] = q[i+1]
           /\ \A t : Asks(Tail(q), t) <=> Asks(q, t) /\ ~IsRequest(Head(q), t)
           /\ RequestsOnce(Tail(q))
<1> DEFINE r == Tail(q)
           h == Head(q)
<1>1. /\ r \in Seq(Messages) /\ Len(r) = Len(q) - 1 /\ Len(q) \in Nat \ {0}
      /\ \A i \in 1 .. Len(q) - 1 : r[i] = q[i+1]
      /\ DOMAIN q = 1 .. Len(q) /\ DOMAIN r = 1 .. Len(q) - 1
      /\ h = q[1] /\ h \in Messages
  BY HeadTailProperties
<1> HIDE DEF r, h
<1>2. RequestsOnce(r)
  <2> SUFFICES ASSUME NEW i \in 1 .. Len(q) - 1, NEW j \in 1 .. Len(q) - 1,
                      r[i].kind = "request", r[j].kind = "request", r[i].from = r[j].from
               PROVE  i = j
    BY <1>1 DEF RequestsOnce
  <2>1. /\ i + 1 \in 1 .. Len(q) /\ j + 1 \in 1 .. Len(q)
        /\ r[i] = q[i+1] /\ r[j] = q[j+1]
    BY <1>1
  <2>2. i + 1 = j + 1
    BY <1>1, <2>1 DEF RequestsOnce
  <2> QED BY <1>1, <2>2
<1>3. ASSUME NEW t PROVE Asks(r, t) <=> Asks(q, t) /\ ~IsRequest(h, t)
  <2>1. ASSUME Asks(r, t) PROVE Asks(q, t) /\ ~IsRequest(h, t)
    <3>1. PICK i \in 1 .. Len(q) - 1 : IsRequest(r[i], t)
      BY <1>1, <2>1 DEF Asks
    <3>2. i + 1 \in 1 .. Len(q) /\ i + 1 # 1 /\ 1 \in 1 .. Len(q) /\ r[i] = q[i+1]
      BY <1>1
    <3> QED BY <1>1, <3>1, <3>2 DEF Asks, RequestsOnce, IsRequest
  <2>2. ASSUME Asks(q, t), ~IsRequest(h, t) PROVE Asks(r, t)
    <3>1. PICK i \in 1 .. Len(q) : IsRequest(q[i], t)
      BY <1>1, <2>2 DEF Asks
    <3>2. i # 1
      BY <1>1, <2>2, <3>1
    <3>3. i - 1 \in 1 .. Len(q) - 1 /\ (i - 1) + 1 = i
      BY <1>1, <3>2
    <3>4. r[i-1] = q[i]
      BY <1>1, <3>3
    <3> QED BY <1>1, <3>1, <3>3, <3>4 DEF Asks
  <2> QED BY <2>1, <2>2
<1> QED BY <1>1, <1>2, <1>3 DEF r, h

-----------------------------------------------------------------------------
(* What a step leaves as it was.                                           *)

(* The status of t changes at most as a step that is no message may change *)
(* it. *)
Calm(t) ==
    \/ sched'.status[t] = sched.status[t]
    \/ sched.status[t] \in OnRunqueue /\ sched'.status[t] \in OnRunqueue
    \/ call[t] = "none" /\ sched'.status[t] \notin MsgBlocked

LEMMA CallStays ==
    ASSUME MInv, NEW t \in Threads, call'[t] = call[t], box'[t] = box[t], Calm(t),
           sched.status[t] = "RECEIVE_BLOCKED" /\ t \in Owners =>
               queue'[t] = queue[t] /\ sendq'[t] = sendq[t],
           \A u \in Owners : sched.status[t] = "SEND_BLOCKED" /\ t \in ToSet(sendq[u])
                                 => t \in ToSet(sendq'[u])
    PROVE  CallRight(t)'
<1>1. CallRight(t)
  BY DEF MInv
<1>2. CASE sched'.status[t] = sched.status[t]
  BY <1>1, <1>2 DEF CallRight, OnRunqueue, MsgBlocked, IsRequest
<1>3. CASE sched.status[t] \in OnRunqueue /\ sched'.status[t] \in OnRunqueue
  BY <1>1, <1>3 DEF CallRight, OnRunqueue, MsgBlocked, IsRequest
<1>4. CASE call[t] = "none" /\ sched'.status[t] \notin MsgBlocked
  BY <1>1, <1>4 DEF CallRight
<1> QED BY <1>2, <1>3, <1>4 DEF Calm

(* No new place, and a thread in a place does not move. *)
LEMMA PlaceStays ==
    ASSUME MInv, NEW t \in Senders,
           \A k \in Places, u \in Owners : At(k, t, u)' => At(k, t, u),
           t \in Threads /\ (\E k \in Places, u \in Owners : At(k, t, u)') =>
               sched'.status[t] = sched.status[t] /\ call'[t] = call[t]
    PROVE  PlaceRight(t)'
<1>1. PlaceRight(t)
  BY DEF MInv
<1> QED BY <1>1 DEF PlaceRight

(* The only place of t is the one given. *)
LEMMA PlaceMoves ==
    ASSUME NEW t \in Threads, NEW p \in Places, NEW o \in Owners,
           \A k \in Places, u \in Owners : At(k, t, u)' => k = p /\ u = o,
           Fits(p, sched'.status[t], call'[t])
    PROVE  PlaceRight(t)'
BY DEF PlaceRight

LEMMA PlaceNone ==
    ASSUME NEW t \in Senders, \A k \in Places, u \in Owners : ~At(k, t, u)'
    PROVE  PlaceRight(t)'
BY DEF PlaceRight

(* A thread that is not blocked with a request, or in a list, is in no     *)
(* place. *)
LEMMA Unplaced ==
    ASSUME MInv, NEW t \in Senders,
           t \notin Threads \/ sched.status[t] \notin {"SEND_BLOCKED", "REPLY_BLOCKED"}
    PROVE  \A k \in Places, u \in Owners : ~At(k, t, u)
BY DEF MInv, PlaceRight, Fits

(* Where t is, when it is in the place given. *)
LEMMA OnlyPlace ==
    ASSUME MInv, NEW t \in Senders, NEW p \in Places, NEW o \in Owners, At(p, t, o)
    PROVE  /\ t \in Threads /\ Fits(p, sched.status[t], call[t])
           /\ \A k \in Places, u \in Owners : At(k, t, u) => k = p /\ u = o
BY DEF MInv, PlaceRight

LEMMA QueueStays ==
    ASSUME MInv, NEW u \in Owners, queue'[u] = queue[u], sendq'[u] = sendq[u]
    PROVE  QueueRight(u)'
BY DEF MInv, QueueRight

(* A thread that executes is in no place. *)
LEMMA InUserFacts ==
    ASSUME MInv, NEW t \in Threads, InUser(t)
    PROVE  /\ Executing(t) /\ pc[t] = "user" /\ pc[t] # "yield" /\ call[t] = "none"
           /\ active = t /\ ~irqOff /\ ~pendsv /\ booted
           /\ sched.status[t] \in OnRunqueue /\ box[t] = NoMsg
           /\ \A k \in Places, u \in Owners : ~At(k, t, u)
<1>1. /\ Executing(t) /\ pc[t] = "user" /\ call[t] = "none"
      /\ pc[t] # "yield"
  BY DEF InUser
<1>2. IInv /\ CallRight(t)
  BY DEF MInv
<1>3. sched.status[t] \in OnRunqueue /\ active = t /\ ~irqOff /\ ~pendsv /\ booted
  BY <1>1, <1>2, ExecutingExists
<1>4. \A k \in Places, u \in Owners : ~At(k, t, u)
  BY <1>3, MsgFacts, Unplaced DEF OnRunqueue
<1> QED BY <1>1, <1>2, <1>3, <1>4 DEF CallRight

-----------------------------------------------------------------------------
(* RecheckRight.                                                           *)

(* A thread that becomes ready goes behind the head of its run queue. *)
LEMMA ReadyBehindHead ==
    ASSUME IInv, NEW u \in Threads, sched.status[u] \notin OnRunqueue,
           sched' = SetThreadStatus(sched, u, "PENDING"),
           NEW t \in Threads, sched.status[t] \in OnRunqueue
    PROVE  Head(sched'.runqueue[Priority[t]]) = Head(sched.runqueue[Priority[t]])
<1> DEFINE p == Priority[t]
           q == sched.runqueue[p]
<1>1. p \in Prios /\ sched \in SchedType /\ Consistent(sched)
  BY SchedAssumption DEF IInv, TypeOK, SchedType, RunqueueConsistent
<1>2. q \in Seq(Threads) /\ q # <<>>
  <2>1. t \in ToSet(q)
    BY <1>1 DEF Consistent
  <2> QED BY <1>1, <2>1 DEF SchedType, ToSet
<1>3. sched'.runqueue = [sched.runqueue EXCEPT ![Priority[u]] =
                            Append(sched.runqueue[Priority[u]], u)]
  BY DEF SetThreadStatus, OnRunqueue
<1> HIDE DEF q
<1>4. sched'.runqueue[p] \in {q, Append(q, u)}
  <2>1. CASE Priority[u] = p
    BY <1>1, <1>3, <2>1 DEF SchedType, q
  <2>2. CASE Priority[u] # p
    BY <1>1, <1>3, <2>2 DEF SchedType, q
  <2> QED BY <2>1, <2>2
<1>5. Head(Append(q, u)) = Head(q)
  BY <1>2
<1> QED BY <1>4, <1>5 DEF q

(* A step that takes nobody off a run queue, or after which t does not     *)
(* execute. *)
LEMMA RecheckStays ==
    ASSUME MInv, NEW t \in Threads,
           \/ ~Executing(t)'
           \/ call'[t] # "recheck"
           \/ sched'.status[t] \notin OnRunqueue
           \/ /\ Executing(t) /\ call[t] = "recheck" /\ sched.status[t] \in OnRunqueue
              /\ Head(sched'.runqueue[Priority[t]]) = Head(sched.runqueue[Priority[t]])
    PROVE  RecheckRight(t)'
BY DEF MInv, RecheckRight

LEMMA DispatchHeads ==
    ASSUME IInv, SwitchContextExit \/ PendSV
    PROVE  Head(sched'.runqueue[Priority[active']]) = active'
<1>1. sched \in SchedType /\ Consistent(sched) /\ Idle \in Threads
  BY SchedAssumption DEF IInv, TypeOK, SchedType, RunqueueConsistent
<1>2. sched.status[Idle] \in OnRunqueue
  BY DEF SwitchContextExit, PendSV, IInv, CpuConsistent
<1>3. sched.bitcache # {}
  <2>1. Priority[Idle] \in Prios
    BY SchedAssumption
  <2>2. Idle \in ToSet(sched.runqueue[Priority[Idle]])
    BY <1>1, <1>2, <2>1 DEF Consistent
  <2> QED BY <1>1, <2>1, <2>2 DEF Consistent, ToSet
<1>4. PICK current \in Threads \cup {NoThread} : sched' = Run(sched, current)
  BY DEF SwitchContextExit, PendSV, IInv, TypeOK
<1>5. sched'.runqueue = sched.runqueue /\ active' = NextThread(sched)
  BY <1>1, <1>3, <1>4, RunConsistent DEF SwitchContextExit, PendSV
<1> QED BY <1>1, <1>3, <1>5, NextThreadIsFirst

LEMMA ReadyRecheck ==
    ASSUME MInv, NEW u \in Threads, sched.status[u] \notin OnRunqueue,
           sched' = SetThreadStatus(sched, u, "PENDING"),
           UNCHANGED <<active, irqOff>>, pendsv => pendsv',
           \A t \in Threads : call'[t] = "recheck" => call[t] = "recheck",
           call[u] = "recheck" => ~Executing(u)'
    PROVE  \A t \in Threads : RecheckRight(t)'
<1> SUFFICES ASSUME NEW t \in Threads, Executing(t)', call'[t] = "recheck",
                    sched'.status[t] \in OnRunqueue
             PROVE  RecheckRight(t)'
  BY DEF RecheckRight
<1>1. t # u /\ call[t] = "recheck" /\ Executing(t) /\ IInv
  BY DEF Executing, MInv
<1>2. sched'.status = [sched.status EXCEPT ![u] = "PENDING"]
  BY DEF SetThreadStatus
<1>3. sched.status[t] \in OnRunqueue
  BY <1>1, <1>2, MsgTypes
<1>4. Head(sched'.runqueue[Priority[t]]) = Head(sched.runqueue[Priority[t]])
  BY <1>1, <1>3, ReadyBehindHead
<1> QED BY <1>1, <1>3, <1>4, RecheckStays

-----------------------------------------------------------------------------
(* One lemma per kind of step.                                             *)

LEMMA QuietMInv ==
    ASSUME MInv, IInv', UNCHANGED msgVars, \A t \in Threads : Calm(t) /\ RecheckRight(t)'
    PROVE  MInv'
<1>1. UNCHANGED <<queue, sendq, box, call, owed, sent, got>>
  BY DEF msgVars
<1>2. \A t \in Threads : CallRight(t)'
  BY <1>1, CallStays
<1>3. ASSUME NEW t \in Senders PROVE PlaceRight(t)'
  <2>1. \A k \in Places, u \in Owners : At(k, t, u)' <=> At(k, t, u)
    BY <1>1 DEF At
  <2>2. ASSUME t \in Threads, NEW k \in Places, NEW u \in Owners, At(k, t, u)
        PROVE  sched'.status[t] = sched.status[t]
    <3>1. Fits(k, sched.status[t], call[t]) /\ Calm(t)
      BY <2>2, OnlyPlace
    <3> QED BY <3>1 DEF Fits, Calm, OnRunqueue
  <2> QED BY <1>1, <2>1, <2>2, PlaceStays
<1>4. \A u \in Owners : QueueRight(u)'
  BY <1>1, QueueStays
<1>5. MsgTypeOK'
  BY <1>1 DEF MInv, MsgTypeOK, IInv
<1> QED BY <1>2, <1>3, <1>4, <1>5 DEF MInv

LEMMA SystemMInv ==
    ASSUME MInv, UNCHANGED msgVars,
           \/ Boot \/ SwitchContextExit \/ PendSV
           \/ \E t \in Threads : call[t] # "recheck" /\ KernelStep(t)
           \/ \E u \in Threads : IsrWakeup(u)
           \/ UNCHANGED schedVars
    PROVE  MInv'
<1>1. /\ IInv
      /\ SystemStep \/ UNCHANGED schedVars
  BY DEF MInv, SystemStep
<1>2. IInv'
  BY <1>1, SchedStepIInv DEF MInv
<1>3. ASSUME NEW t \in Threads PROVE Calm(t)
  <2>1. Moved(t)
    <3>1. CASE SystemStep
      BY <3>1, SystemMoves DEF MInv
    <3>2. CASE UNCHANGED schedVars
      BY <3>2 DEF schedVars, Moved
    <3> QED BY <1>1, <3>1, <3>2
  <2>2. CallRight(t) /\ call[t] \in Calls
    BY MsgTypes DEF MInv
  <2> QED BY <2>1, <2>2 DEF Moved, Calm, CallRight, MsgBlocked, OnRunqueue, Calls
<1>4. UNCHANGED call
  BY DEF msgVars
<1>5. ASSUME NEW t \in Threads PROVE RecheckRight(t)'
  <2>1. CASE Boot
    <3>1. ~Executing(t)'
      BY <2>1, <1>2, SchedAssumption DEF Boot, BootCreate, MInv, IInv, CpuConsistent, Executing
    <3> QED BY <3>1, RecheckStays
  <2>2. CASE SwitchContextExit \/ PendSV
    BY <2>2, DispatchHeads DEF MInv, RecheckRight, Executing
  <2>3. CASE \E u \in Threads : call[u] # "recheck" /\ KernelStep(u)
    BY <1>4, <2>3, RecheckStays DEF KernelStep, ContextSwitch, YieldHigher, Executing
  <2>4. CASE \E u \in Threads : IsrWakeup(u)
    <3>1. PICK u \in Threads : IsrWakeup(u)
      BY <2>4
    <3>2. /\ sched.status[u] = "SLEEPING" /\ sched' = SetThreadStatus(sched, u, "PENDING")
          /\ UNCHANGED <<active, irqOff>> /\ (pendsv => pendsv')
      BY <3>1 DEF IsrWakeup, EndOfIsr
    <3>3. call[u] # "recheck"
      BY <3>2 DEF MInv, CallRight, OnRunqueue
    <3>4. sched.status[u] \notin OnRunqueue
      BY <3>2 DEF OnRunqueue
    <3> QED BY <1>4, <3>2, <3>3, <3>4, ReadyRecheck
  <2>5. CASE UNCHANGED schedVars
    BY <1>4, <2>5 DEF schedVars, RecheckRight, Executing, MInv
  <2> QED BY <2>1, <2>2, <2>3, <2>4, <2>5
<1> QED BY <1>2, <1>3, <1>5, QuietMInv

LEMMA SchedCallMInv ==
    ASSUME MInv, NEW t \in Threads, SchedCall(t)
    PROVE  MInv'
<1>1. call[t] = "none" /\ UserCall(t) /\ UNCHANGED msgVars
  BY DEF SchedCall
<1>2. IInv /\ IInv'
  BY <1>1, SchedStepIInv DEF MInv
<1>3. ASSUME NEW u \in Threads PROVE Calm(u)
  <2>1. \/ Moved(u)
        \/ u = t /\ sched'.status[u] \in {"SLEEPING", "STOPPED"}
        \/ sched.status[u] \in Terminable /\ sched'.status[u] = "STOPPED"
    BY <1>1, <1>2, UserCallMoves
  <2>2. CallRight(u) /\ call[u] \in Calls
    BY MsgTypes DEF MInv
  <2>3. CASE Moved(u)
    BY <2>2, <2>3 DEF Moved, Calm, CallRight, MsgBlocked, OnRunqueue, Calls
  <2>4. CASE u = t /\ sched'.status[u] \in {"SLEEPING", "STOPPED"}
    BY <1>1, <2>4 DEF Calm, MsgBlocked
  <2>5. CASE sched.status[u] \in Terminable /\ sched'.status[u] = "STOPPED"
    <3>1. sched.status[u] \in OffRunqueue /\ sched.status[u] # "SEND_BLOCKED"
      BY <2>5, SchedAssumption, MsgFacts
    <3>2. u \in Owners => sched'.status[u] # "STOPPED" \/ sched.status[u] = "STOPPED"
      BY DEF SchedCall
    <3>3. CASE sched.status[u] = "STOPPED"
      BY <2>5, <3>3 DEF Calm
    <3>4. CASE sched.status[u] # "STOPPED"
      <4>1. u \notin Owners
        BY <2>5, <3>2, <3>4
      <4>2. call[u] = "none"
        BY <2>2, <3>1, <4>1 DEF CallRight, Calls, OnRunqueue, OffRunqueue
      <4> QED BY <2>5, <4>2 DEF Calm, MsgBlocked
    <3> QED BY <3>3, <3>4
  <2> QED BY <2>1, <2>3, <2>4, <2>5
<1>4. active = t /\ active' \in {t, NoThread}
  BY <1>1 DEF UserCall, Sleep, Yield, Exit, CreateSleeping, CreateWithoutYield, Create,
     Wakeup, Terminate, Executing
<1>5. ASSUME NEW u \in Threads PROVE RecheckRight(u)'
  <2>1. UNCHANGED call
    BY <1>1 DEF msgVars
  <2>2. u = t \/ ~Executing(u)'
    BY <1>4, SchedAssumption DEF Executing
  <2> QED BY <1>1, <2>1, <2>2, RecheckStays
<1> QED BY <1>1, <1>2, <1>3, <1>5, QuietMInv

LEMMA MessageFacts ==
    ASSUME MInv, NEW t \in Senders, NEW u \in Owners, Accepted(t, u), NEW kind \in Kinds
    PROVE  /\ Message(t, kind, u) \in Messages
           /\ Message(t, kind, u).kind = kind /\ Message(t, kind, u).from = t
           /\ Message(t, kind, u).n = sent[t][u] + 1 /\ Message(t, kind, u) # NoMsg
           /\ sent' \in [Senders -> [Owners -> 0 .. MaxSends]]
           /\ sent'[t][u] = sent[t][u] + 1 /\ sent[t][u] + 1 \in 0 .. MaxSends
           /\ \A s \in Senders, o \in Owners : s # t \/ o # u => sent'[s][o] = sent[s][o]
<1>1. sent[t][u] \in 0 .. MaxSends /\ sent[t][u] < MaxSends
  BY MsgTypes DEF Accepted
<1>2. sent[t][u] + 1 \in 0 .. MaxSends
  BY <1>1, MsgFacts
<1>3. sent' = [sent EXCEPT ![t][u] = sent[t][u] + 1]
  BY DEF Accepted
<1>4. Message(t, kind, u) \in Messages /\ Message(t, kind, u) # NoMsg
  BY <1>2, MsgFacts DEF Message, Messages
<1> QED BY <1>2, <1>3, <1>4, MsgTypes DEF Message

(* A note that is handed to the receiver that waits. *)
LEMMA HandMInv ==
    ASSUME MInv, IInv', NEW u \in Owners, IsReceiving(u),
           NEW m \in Messages, m.kind = "note",
           box' = [box EXCEPT ![u] = m], sched' = Hand(sched, u),
           sent' \in [Senders -> [Owners -> 0 .. MaxSends]],
           UNCHANGED <<queue, sendq, call, owed, got, active, irqOff>>, pendsv => pendsv'
    PROVE  MInv'
<1>1. u \in Threads /\ sched.status[u] = "RECEIVE_BLOCKED" /\ CallRight(u) /\ m # NoMsg
  BY MsgFacts DEF IsReceiving, MInv
<1>2. call[u] = "receive" /\ box[u] = NoMsg
  BY <1>1, MsgTypes DEF CallRight, MsgBlocked, OnRunqueue, Calls
<1>3. sched'.status = [sched.status EXCEPT ![u] = "PENDING"]
  BY DEF Hand, SetThreadStatus
<1>4. /\ box'[u] = m /\ sched'.status[u] = "PENDING"
      /\ \A t \in Threads \ {u} : box'[t] = box[t] /\ sched'.status[t] = sched.status[t]
      /\ box' \in [Threads -> Messages \cup {NoMsg}]
  BY <1>1, <1>3, MsgTypes
<1>5. CallRight(u)'
  BY <1>1, <1>2, <1>4 DEF CallRight, OnRunqueue
<1>6. ASSUME NEW t \in Threads, t # u PROVE CallRight(t)'
  BY <1>4, <1>6, CallStays DEF Calm
<1>7. ASSUME NEW t \in Senders PROVE PlaceRight(t)'
  <2>1. ASSUME NEW k \in Places, NEW o \in Owners, At(k, t, o)' PROVE At(k, t, o)
    <3>1. CASE o = u
      BY <1>1, <1>4, <2>1, <3>1 DEF At, IsRequest
    <3>2. CASE o # u
      BY <1>4, <2>1, <3>2, MsgFacts DEF At
    <3> QED BY <3>1, <3>2
  <2>2. CASE t = u
    <3>1. \A k \in Places, o \in Owners : ~At(k, t, o)
      BY <1>1, <2>2, Unplaced
    <3> QED BY <2>1, <3>1, PlaceNone
  <2>3. CASE t # u
    BY <1>4, <2>1, <2>3, PlaceStays
  <2> QED BY <2>2, <2>3
<1>8. \A t \in Threads : RecheckRight(t)'
  BY <1>1, <1>2, ReadyRecheck DEF Hand, OnRunqueue
<1>9. \A o \in Owners : QueueRight(o)'
  BY QueueStays
<1>10. MsgTypeOK'
  BY <1>4, MsgTypes DEF MsgTypeOK, IInv
<1> QED BY <1>5, <1>6, <1>7, <1>8, <1>9, <1>10 DEF MInv

(* A note that is left in a queue with room. *)
LEMMA QueuedMInv ==
    ASSUME MInv, NEW u \in Owners, ~IsReceiving(u), NEW m \in Messages, m.kind = "note",
           Queued(u, m), sent' \in [Senders -> [Owners -> 0 .. MaxSends]],
           UNCHANGED <<schedVars, sendq, box, call, owed, got>>
    PROVE  MInv'
<1> DEFINE q == queue[u]
<1>1. q \in Seq(Messages) /\ RequestsOnce(q) /\ Len(q) < QueueSize /\ Len(q) \in Nat
  BY MsgTypes DEF MInv, QueueRight, Queued, HasRoom
<1>2. queue' = [queue EXCEPT ![u] = Append(q, m)]
  BY DEF Queued
<1>3. /\ RequestsOnce(Append(q, m)) /\ Append(q, m) \in Seq(Messages)
      /\ Len(Append(q, m)) <= QueueSize
      /\ \A t : Asks(Append(q, m), t) <=> Asks(q, t)
  BY <1>1, AppendRequests, AppendProperties, MsgFacts DEF IsRequest
<1> HIDE DEF q
<1>4. /\ queue'[u] = Append(q, m) /\ \A o \in Owners \ {u} : queue'[o] = queue[o]
      /\ queue' \in [Owners -> Seq(Messages)] /\ \A o \in Owners : Len(queue'[o]) <= QueueSize
  BY <1>2, <1>3, MsgTypes
<1>5. UNCHANGED <<sched, active, pendsv, irqOff>> /\ IInv'
  BY StutterIInv DEF schedVars, MInv
<1>6. \A k \in Places, t \in Senders, o \in Owners : At(k, t, o)' => At(k, t, o)
  <2> SUFFICES ASSUME NEW k \in Places, NEW t \in Senders, NEW o \in Owners, At(k, t, o)'
               PROVE  At(k, t, o)
    OBVIOUS
  <2>1. CASE o = u
    BY <1>3, <1>4, <2>1 DEF At, q
  <2>2. CASE o # u
    BY <1>4, <2>2 DEF At
  <2> QED BY <2>1, <2>2
<1>7. \A t \in Senders : PlaceRight(t)'
  BY <1>5, <1>6, PlaceStays
<1>8. ASSUME NEW t \in Threads PROVE CallRight(t)'
  <2>1. sched.status[t] = "RECEIVE_BLOCKED" /\ t \in Owners => queue'[t] = queue[t]
    BY <1>4 DEF IsReceiving
  <2> QED BY <1>5, <2>1, CallStays DEF Calm
<1>9. ASSUME NEW o \in Owners PROVE QueueRight(o)'
  <2>1. QueueRight(o)
    BY DEF MInv
  <2>2. CASE o = u
    BY <1>3, <1>4, <2>1, <2>2 DEF QueueRight
  <2>3. CASE o # u
    BY <1>4, <2>1, <2>3 DEF QueueRight
  <2> QED BY <2>2, <2>3
<1>10. \A t \in Threads : RecheckRight(t)'
  BY <1>5 DEF MInv, RecheckRight, Executing
<1>11. MsgTypeOK'
  BY <1>4, <1>5, MsgTypes DEF MsgTypeOK, IInv
<1> QED BY <1>5, <1>7, <1>8, <1>9, <1>10, <1>11 DEF MInv

LEMMA SendMInv ==
    ASSUME MInv, NEW t \in Threads, NEW u \in Owners, SendDirect(t, u) \/ SendQueued(t, u)
    PROVE  MInv'
<1> DEFINE m == Message(t, "note", u)
<1>1. InUser(t) /\ Accepted(t, u) /\ t \in Senders /\ "note" \in Kinds /\ u \in Threads
  BY MsgFacts DEF SendDirect, SendQueued, Kinds
<1>2. /\ m \in Messages /\ m.kind = "note"
      /\ sent' \in [Senders -> [Owners -> 0 .. MaxSends]]
  BY <1>1, MessageFacts
<1> HIDE DEF m
<1>3. CASE SendDirect(t, u)
  <2>1. /\ IsReceiving(u) /\ box' = [box EXCEPT ![u] = m] /\ sched' = Hand(sched, u)
        /\ pc' = [pc EXCEPT ![t] = "yield"]
        /\ UNCHANGED <<active, cpuVars, pidVars, arg, deferred, queue, sendq, call, owed, got>>
    BY <1>3 DEF SendDirect, m
  <2>2. /\ active = t /\ pc \in [Threads -> PcLabels] /\ "yield" \in PcLabels
        /\ arg \in [Threads -> Prios \cup {0}]
        /\ request \in BOOLEAN /\ pendsv \in BOOLEAN /\ ~pendsv
    BY <1>1, InUserFacts, MsgTypes DEF TypeOK, PcLabels
  <2>3. sched.status[u] \in OffRunqueue \ {"STOPPED"}
    BY <2>1 DEF IsReceiving, OffRunqueue
  <2>4. UNCHANGED <<request, pendsv, irqOff, booted>>
    BY <2>1 DEF cpuVars
  <2>5. IInv'
    BY <1>1, <2>1, <2>2, <2>3, <2>4, ReadyIInv DEF MInv, Hand
  <2> QED BY <1>2, <2>1, <2>4, <2>5, HandMInv
<1>4. CASE SendQueued(t, u)
  BY <1>2, <1>4, QueuedMInv DEF SendQueued, m
<1> QED BY <1>3, <1>4

LEMMA IsrSendMInv ==
    ASSUME MInv, NEW u \in Owners, IsrSendDirect(u) \/ IsrSendQueued(u)
    PROVE  MInv'
<1> DEFINE m == Message(Isr, "note", u)
<1>1. Accepted(Isr, u) /\ Isr \in Senders /\ "note" \in Kinds /\ u \in Threads
  BY MsgFacts DEF IsrSendDirect, IsrSendQueued, Kinds
<1>2. /\ m \in Messages /\ m.kind = "note"
      /\ sent' \in [Senders -> [Owners -> 0 .. MaxSends]]
  BY <1>1, MessageFacts
<1> HIDE DEF m
<1>3. CASE IsrSendDirect(u)
  <2>1. /\ IsReceiving(u) /\ box' = [box EXCEPT ![u] = m] /\ sched' = Hand(sched, u)
        /\ IsrEnabled /\ request' = TRUE /\ pendsv' = TRUE
        /\ UNCHANGED <<active, irqOff, booted, pidVars, codeVars, deferred,
                       queue, sendq, call, owed, got>>
    BY <1>3 DEF IsrSendDirect, m, EndOfIsr
  <2>2. /\ active # NoThread /\ pc \in [Threads -> PcLabels]
        /\ arg \in [Threads -> Prios \cup {0}]
    BY <2>1, MsgTypes DEF TypeOK, IsrEnabled
  <2>3. sched.status[u] \in OffRunqueue \ {"STOPPED"}
    BY <2>1 DEF IsReceiving, OffRunqueue
  <2>4. UNCHANGED <<pc, arg>>
    BY <2>1 DEF codeVars
  <2>5. IInv'
    BY <1>1, <2>1, <2>2, <2>3, <2>4, ReadyIInv DEF MInv, Hand
  <2> QED BY <1>2, <2>1, <2>5, HandMInv
<1>4. CASE IsrSendQueued(u)
  BY <1>2, <1>4, QueuedMInv DEF IsrSendQueued, m
<1> QED BY <1>3, <1>4

(* A sender that waits for room, with a note or with a request.            *)
LEMMA WaitForRoomMInv ==
    ASSUME MInv, IInv', NEW t \in Threads, InUser(t), NEW u \in Owners, ~IsReceiving(u),
           NEW m \in Messages, m.from = t,
           NEW st \in Statuses, NEW c \in Calls,
           \/ st = "SEND_BLOCKED" /\ c = "send" /\ m.kind = "note"
           \/ st = "REPLY_BLOCKED" /\ c = "ask" /\ m.kind = "request" /\ t \in Owners,
           box' = [box EXCEPT ![t] = m], sched' = SetThreadStatus(sched, t, st),
           sendq' = [sendq EXCEPT ![u] = AddToList(@, t)],
           call' = [call EXCEPT ![t] = c],
           sent' \in [Senders -> [Owners -> 0 .. MaxSends]],
           UNCHANGED <<queue, owed, got, active>>
    PROVE  MInv'
<1> DEFINE q == sendq[u]
<1>1. /\ active = t /\ call[t] = "none" /\ box[t] = NoMsg
      /\ sched.status[t] \in OnRunqueue /\ t \in Senders /\ m # NoMsg
      /\ \A k \in Places, o \in Owners : ~At(k, t, o)
  BY InUserFacts, MsgFacts
<1>2. q \in Seq(Threads) /\ IsInjective(q) /\ ByUrgency(q) /\ t \notin ToSet(q)
  <2>1. ~At("waiting", t, u)
    BY <1>1 DEF Places
  <2> QED BY <2>1, MsgTypes DEF MInv, QueueRight, At
<1>3. /\ AddToList(q, t) \in Seq(Threads) /\ IsInjective(AddToList(q, t))
      /\ ToSet(AddToList(q, t)) = ToSet(q) \cup {t} /\ ByUrgency(AddToList(q, t))
  BY <1>2, AddToListSorted
<1> HIDE DEF q
<1>4. /\ sendq'[u] = AddToList(q, t) /\ \A o \in Owners \ {u} : sendq'[o] = sendq[o]
      /\ sendq' \in [Owners -> Seq(Threads)]
  BY <1>3, MsgTypes DEF q
<1>5. sched'.status = [sched.status EXCEPT ![t] = st]
  BY DEF SetThreadStatus
<1>6. /\ box'[t] = m /\ sched'.status[t] = st /\ call'[t] = c
      /\ \A v \in Threads \ {t} : /\ box'[v] = box[v] /\ call'[v] = call[v]
                                  /\ sched'.status[v] = sched.status[v]
      /\ box' \in [Threads -> Messages \cup {NoMsg}] /\ call' \in [Threads -> Calls]
  BY <1>5, MsgTypes
<1>7. \A v : v \in ToSet(sendq'[u]) <=> v \in ToSet(sendq[u]) \/ v = t
  BY <1>3, <1>4 DEF q
<1>8. CallRight(t)'
  BY <1>1, <1>6, <1>7 DEF CallRight, IsRequest
<1>9. ASSUME NEW v \in Threads, v # t PROVE CallRight(v)'
  <2>1. sched.status[v] = "RECEIVE_BLOCKED" /\ v \in Owners => sendq'[v] = sendq[v]
    BY <1>4 DEF IsReceiving
  <2>2. \A o \in Owners : v \in ToSet(sendq[o]) => v \in ToSet(sendq'[o])
    BY <1>4, <1>7
  <2> QED BY <1>6, <1>9, <2>1, <2>2, CallStays DEF Calm
<1>10. ASSUME NEW v \in Senders PROVE PlaceRight(v)'
  <2>1. ASSUME NEW k \in Places, NEW o \in Owners, At(k, v, o)'
        PROVE  At(k, v, o) \/ (k = "waiting" /\ o = u /\ v = t)
    <3>1. CASE k = "waiting"
      BY <1>4, <1>7, <2>1, <3>1 DEF At
    <3>2. CASE k # "waiting"
      <4>1. o \in Threads
        BY MsgFacts
      <4>2. call'[o] = "receive" => o # t
        BY <1>6
      <4> QED BY <1>6, <2>1, <3>2, <4>1, <4>2 DEF At
    <3> QED BY <3>1, <3>2
  <2>2. CASE v = t
    <3>1. \A k \in Places, o \in Owners : At(k, t, o)' => k = "waiting" /\ o = u
      BY <1>1, <2>1, <2>2
    <3>2. Fits("waiting", sched'.status[t], call'[t])
      BY <1>6 DEF Fits
    <3> QED BY <2>2, <3>1, <3>2, PlaceMoves DEF Places
  <2>3. CASE v # t
    BY <1>6, <2>1, <2>3, PlaceStays
  <2> QED BY <2>2, <2>3
<1>11. ASSUME NEW o \in Owners PROVE QueueRight(o)'
  <2>1. QueueRight(o)
    BY DEF MInv
  <2>2. CASE o = u
    BY <1>3, <1>4, <2>1, <2>2 DEF QueueRight, ByUrgency
  <2>3. CASE o # u
    BY <1>4, <2>1, <2>3 DEF QueueRight
  <2> QED BY <2>2, <2>3
<1>12. ASSUME NEW v \in Threads PROVE RecheckRight(v)'
  <2>1. CASE v = t
    BY <1>6, <2>1 DEF RecheckRight
  <2>2. CASE v # t
    BY <1>1, <2>2 DEF RecheckRight, Executing
  <2> QED BY <2>1, <2>2
<1>13. MsgTypeOK'
  BY <1>4, <1>6, MsgTypes DEF MsgTypeOK, IInv
<1> QED BY <1>8, <1>9, <1>10, <1>11, <1>12, <1>13 DEF MInv

(* The thread that executes leaves its run queue. *)
LEMMA BlockFacts ==
    ASSUME MInv, NEW t \in Threads, InUser(t), t # Idle, NEW st \in MsgBlocked,
           sched' = SetThreadStatus(sched, t, st), pc' = [pc EXCEPT ![t] = "yield"],
           UNCHANGED <<active, cpuVars, pidVars, arg, deferred>>
    PROVE  IInv'
<1>1. st \in OffRunqueue \ {"STOPPED"}
  BY DEF MsgBlocked, OffRunqueue
<1> QED BY <1>1, InUserFacts, BlockIInv DEF MInv

LEMMA BlockedSendMInv ==
    ASSUME MInv, NEW t \in Threads, NEW u \in Owners, SendBlock(t, u) \/ AskBlock(t, u)
    PROVE  MInv'
<1>1. /\ InUser(t) /\ t # Idle /\ ~IsReceiving(u) /\ Accepted(t, u) /\ t \in Senders
      /\ pc' = [pc EXCEPT ![t] = "yield"]
      /\ sendq' = [sendq EXCEPT ![u] = AddToList(@, t)]
      /\ UNCHANGED <<active, cpuVars, pidVars, arg, deferred, queue, owed, got>>
  BY MsgFacts DEF SendBlock, AskBlock, Ask
<1>2. CASE SendBlock(t, u)
  <2> DEFINE m == Message(t, "note", u)
  <2>1. /\ m \in Messages /\ m.kind = "note" /\ m.from = t
        /\ sent' \in [Senders -> [Owners -> 0 .. MaxSends]]
    BY <1>1, MessageFacts DEF Kinds
  <2>2. /\ box' = [box EXCEPT ![t] = m] /\ call' = [call EXCEPT ![t] = "send"]
        /\ sched' = SetThreadStatus(sched, t, "SEND_BLOCKED")
    BY <1>2 DEF SendBlock
  <2> HIDE DEF m
  <2>3. IInv'
    BY <1>1, <2>2, BlockFacts DEF MsgBlocked
  <2>4. "SEND_BLOCKED" \in Statuses /\ "send" \in Calls
    BY DEF Statuses, OffRunqueue, Calls
  <2> QED BY <1>1, <2>1, <2>2, <2>3, <2>4, WaitForRoomMInv
<1>3. CASE AskBlock(t, u)
  <2> DEFINE m == Message(t, "request", u)
  <2>1. /\ m \in Messages /\ m.kind = "request" /\ m.from = t
        /\ sent' \in [Senders -> [Owners -> 0 .. MaxSends]]
    BY <1>1, MessageFacts DEF Kinds
  <2>2. /\ box' = [box EXCEPT ![t] = m] /\ call' = [call EXCEPT ![t] = "ask"]
        /\ sched' = SetThreadStatus(sched, t, "REPLY_BLOCKED") /\ t \in Owners
    BY <1>3 DEF AskBlock, Ask, Asking
  <2> HIDE DEF m
  <2>3. IInv'
    BY <1>1, <2>2, BlockFacts DEF MsgBlocked
  <2>4. "REPLY_BLOCKED" \in Statuses /\ "ask" \in Calls
    BY DEF Statuses, OffRunqueue, Calls
  <2> QED BY <1>1, <2>1, <2>2, <2>3, <2>4, WaitForRoomMInv
<1> QED BY <1>2, <1>3

(* A request that is left in a queue with room. *)
LEMMA AskQueuedMInv ==
    ASSUME MInv, NEW t \in Threads, NEW u \in Owners, AskQueued(t, u)
    PROVE  MInv'
<1> DEFINE m == Message(t, "request", u)
           q == queue[u]
<1>1. /\ InUser(t) /\ t # Idle /\ ~IsReceiving(u) /\ Accepted(t, u) /\ t \in Senders
      /\ t \in Owners /\ box' = [box EXCEPT ![t] = m] /\ call' = [call EXCEPT ![t] = "recheck"]
      /\ sched' = SetThreadStatus(sched, t, "REPLY_BLOCKED")
      /\ pc' = [pc EXCEPT ![t] = "yield"]
      /\ HasRoom(u) /\ queue' = [queue EXCEPT ![u] = Append(q, m)]
      /\ UNCHANGED <<active, cpuVars, pidVars, arg, deferred, sendq, owed, got>>
  BY MsgFacts DEF AskQueued, Ask, Asking, Queued
<1>2. /\ m \in Messages /\ m.kind = "request" /\ m.from = t /\ m # NoMsg
      /\ sent' \in [Senders -> [Owners -> 0 .. MaxSends]]
  BY <1>1, MessageFacts DEF Kinds
<1> HIDE DEF m
<1>3. /\ active = t /\ call[t] = "none" /\ box[t] = NoMsg
      /\ sched.status[t] \in OnRunqueue
      /\ \A k \in Places, o \in Owners : ~At(k, t, o)
  BY <1>1, InUserFacts
<1>4. IInv'
  BY <1>1, BlockFacts DEF MsgBlocked
<1>5. q \in Seq(Messages) /\ RequestsOnce(q) /\ Len(q) < QueueSize /\ Len(q) \in Nat
  BY <1>1, MsgTypes DEF MInv, QueueRight, HasRoom
<1>6. ~Asks(q, t)
  <2>1. ~At("queued", t, u)
    BY <1>3 DEF Places
  <2> QED BY <2>1 DEF At
<1>7. /\ RequestsOnce(Append(q, m)) /\ Append(q, m) \in Seq(Messages)
      /\ Len(Append(q, m)) <= QueueSize
      /\ \A v : Asks(Append(q, m), v) <=> Asks(q, v) \/ v = t
  BY <1>2, <1>5, <1>6, AppendRequests, AppendProperties, MsgFacts DEF IsRequest
<1> HIDE DEF q
<1>8. /\ queue'[u] = Append(q, m) /\ \A o \in Owners \ {u} : queue'[o] = queue[o]
      /\ queue' \in [Owners -> Seq(Messages)] /\ \A o \in Owners : Len(queue'[o]) <= QueueSize
  BY <1>1, <1>7, MsgTypes
<1>9. sched'.status = [sched.status EXCEPT ![t] = "REPLY_BLOCKED"]
  BY <1>1 DEF SetThreadStatus
<1>10. /\ box'[t] = m /\ sched'.status[t] = "REPLY_BLOCKED" /\ call'[t] = "recheck"
       /\ \A v \in Threads \ {t} : /\ box'[v] = box[v] /\ call'[v] = call[v]
                                   /\ sched'.status[v] = sched.status[v]
       /\ box' \in [Threads -> Messages \cup {NoMsg}] /\ call' \in [Threads -> Calls]
  BY <1>1, <1>2, <1>9, MsgTypes DEF Calls
<1>11. CallRight(t)'
  BY <1>1, <1>2, <1>10 DEF CallRight, IsRequest
<1>12. ASSUME NEW v \in Threads, v # t PROVE CallRight(v)'
  <2>1. sched.status[v] = "RECEIVE_BLOCKED" /\ v \in Owners => queue'[v] = queue[v]
    BY <1>1, <1>8 DEF IsReceiving
  <2> QED BY <1>1, <1>10, <1>12, <2>1, CallStays DEF Calm
<1>13. ASSUME NEW v \in Senders PROVE PlaceRight(v)'
  <2>1. ASSUME NEW k \in Places, NEW o \in Owners, At(k, v, o)'
        PROVE  At(k, v, o) \/ (k = "queued" /\ o = u /\ v = t)
    <3>1. CASE k = "queued"
      <4>1. CASE o = u
        BY <1>7, <1>8, <2>1, <3>1, <4>1 DEF At, q
      <4>2. CASE o # u
        BY <1>8, <2>1, <3>1, <4>2 DEF At
      <4> QED BY <4>1, <4>2
    <3>2. CASE k # "queued"
      <4>1. o \in Threads
        BY MsgFacts
      <4>2. call'[o] = "receive" => o # t
        BY <1>10
      <4> QED BY <1>1, <1>10, <2>1, <3>2, <4>1, <4>2 DEF At
    <3> QED BY <3>1, <3>2
  <2>2. CASE v = t
    <3>1. \A k \in Places, o \in Owners : At(k, t, o)' => k = "queued" /\ o = u
      BY <1>3, <2>1, <2>2
    <3>2. Fits("queued", sched'.status[t], call'[t])
      BY <1>10 DEF Fits
    <3> QED BY <2>2, <3>1, <3>2, PlaceMoves DEF Places
  <2>3. CASE v # t
    BY <1>10, <2>1, <2>3, PlaceStays
  <2> QED BY <2>2, <2>3
<1>14. ASSUME NEW o \in Owners PROVE QueueRight(o)'
  <2>1. QueueRight(o)
    BY DEF MInv
  <2>2. CASE o = u
    BY <1>1, <1>7, <1>8, <2>1, <2>2 DEF QueueRight
  <2>3. CASE o # u
    BY <1>1, <1>8, <2>1, <2>3 DEF QueueRight
  <2> QED BY <2>2, <2>3
<1>15. ASSUME NEW v \in Threads PROVE RecheckRight(v)'
  <2>1. CASE v = t
    BY <1>10, <2>1 DEF RecheckRight, OnRunqueue
  <2>2. CASE v # t
    BY <1>1, <1>3, <2>2 DEF RecheckRight, Executing
  <2> QED BY <2>1, <2>2
<1>16. MsgTypeOK'
  BY <1>1, <1>2, <1>4, <1>8, <1>10, MsgTypes DEF MsgTypeOK, IInv
<1> QED BY <1>4, <1>11, <1>12, <1>13, <1>14, <1>15, <1>16 DEF MInv

(* The thread that executes leaves its run queue, and another one joins    *)
(* one, in one step. *)
LEMMA ExchangeIInv ==
    ASSUME IInv, NEW t \in Threads, NEW u \in Threads,
           Executing(t), pc[t] # "yield", t # Idle,
           NEW st \in OffRunqueue \ {"STOPPED"},
           sched.status[u] \in OffRunqueue \ {"STOPPED"},
           sched' = SetThreadStatus(SetThreadStatus(sched, t, st), u, "PENDING"),
           pc' = [pc EXCEPT ![t] = "yield"],
           UNCHANGED <<active, cpuVars, pidVars, arg, deferred>>
    PROVE  IInv'
<1> DEFINE s == SetThreadStatus(sched, t, st)
<1>1. /\ sched.status[t] \in OnRunqueue /\ active = t /\ u # t
      /\ Head(sched.runqueue[Priority[t]]) = t
  BY ExecutingExists DEF OnRunqueue, OffRunqueue
<1>2. /\ sched \in SchedType /\ Consistent(sched) /\ st \in Statuses /\ st \notin OnRunqueue
      /\ "PENDING" \in Statuses /\ "PENDING" \in OnRunqueue
  BY DEF IInv, TypeOK, SchedType, RunqueueConsistent, Statuses, OnRunqueue, OffRunqueue
<1>3. s \in SchedType /\ Consistent(s)
  BY <1>1, <1>2, SetThreadStatusType, SetThreadStatusConsistent
<1>4. s.status = [sched.status EXCEPT ![t] = st]
  BY DEF SetThreadStatus
<1> HIDE DEF s
<1>5. sched' = SetThreadStatus(s, u, "PENDING")
  BY DEF s
<1>6. sched' \in SchedType /\ Consistent(sched')
  BY <1>2, <1>3, <1>5, SetThreadStatusType, SetThreadStatusConsistent
<1>7. sched'.status = [s.status EXCEPT ![u] = "PENDING"]
  <2>1. SetThreadStatus(s, u, "PENDING").status = [s.status EXCEPT ![u] = "PENDING"]
    BY DEF SetThreadStatus
  <2> QED BY <1>5, <2>1
<1>8. /\ sched'.status[t] = st /\ sched'.status[u] = "PENDING"
      /\ \A v \in Threads \ {t, u} : sched'.status[v] = sched.status[v]
  BY <1>1, <1>2, <1>4, <1>7 DEF SchedType
<1>9. PidsIdentifyThreads'
  <2>1. \A v \in Threads :
           sched'.status[v] # "STOPPED" <=> sched.status[v] # "STOPPED"
    BY <1>1, <1>8 DEF OnRunqueue
  <2> QED BY <2>1, PidsKept
<1>10. pc' \in [Threads -> PcLabels] /\ pc'[t] = "yield"
  BY DEF IInv, TypeOK, PcLabels
<1>11. ExecutingIsHead'
  BY <1>1, <1>10 DEF ExecutingIsHead, Executing
<1>12. CpuConsistent'
  <2>1. booted => sched'.status[Idle] \in OnRunqueue
    BY <1>2, <1>8, SchedAssumption DEF IInv, CpuConsistent
  <2> QED BY <2>1 DEF IInv, CpuConsistent, cpuVars
<1>13. TypeOK'
  BY <1>6, <1>10 DEF IInv, TypeOK, SchedType, cpuVars, pidVars
<1> QED BY <1>6, <1>9, <1>11, <1>12, <1>13 DEF IInv, RunqueueConsistent

(* A request that is handed to the receiver that waits. *)
LEMMA AskDirectMInv ==
    ASSUME MInv, NEW t \in Threads, NEW u \in Owners, AskDirect(t, u)
    PROVE  MInv'
<1> DEFINE m == Message(t, "request", u)
<1>1. /\ InUser(t) /\ t # Idle /\ t # u /\ IsReceiving(u) /\ Accepted(t, u) /\ t \in Senders
      /\ t \in Owners /\ box' = [box EXCEPT ![t] = m, ![u] = m]
      /\ call' = [call EXCEPT ![t] = "ask"] /\ u \in Threads
      /\ sched' = SetThreadStatus(SetThreadStatus(sched, t, "REPLY_BLOCKED"), u, "PENDING")
      /\ pc' = [pc EXCEPT ![t] = "yield"]
      /\ UNCHANGED <<active, cpuVars, pidVars, arg, deferred, queue, sendq, owed, got>>
  BY MsgFacts DEF AskDirect, Asking, Hand
<1>2. /\ m \in Messages /\ m.kind = "request" /\ m.from = t /\ m # NoMsg
      /\ sent' \in [Senders -> [Owners -> 0 .. MaxSends]]
  BY <1>1, MessageFacts DEF Kinds
<1> HIDE DEF m
<1>3. /\ active = t /\ call[t] = "none" /\ box[t] = NoMsg
      /\ sched.status[t] \in OnRunqueue /\ Executing(t) /\ pc[t] # "yield"
      /\ \A k \in Places, o \in Owners : ~At(k, t, o)
  BY <1>1, InUserFacts
<1>4. sched.status[u] = "RECEIVE_BLOCKED" /\ CallRight(u)
  BY <1>1 DEF IsReceiving, MInv
<1>5. call[u] = "receive" /\ box[u] = NoMsg
  BY <1>1, <1>4, MsgTypes DEF CallRight, MsgBlocked, OnRunqueue, Calls
<1>6. IInv'
  BY <1>1, <1>3, <1>4, ExchangeIInv DEF MInv, OffRunqueue
<1>7. sched'.status = [sched.status EXCEPT ![t] = "REPLY_BLOCKED", ![u] = "PENDING"]
  BY <1>1 DEF SetThreadStatus
<1>8. /\ box'[t] = m /\ sched'.status[t] = "REPLY_BLOCKED" /\ call'[t] = "ask"
      /\ box'[u] = m /\ sched'.status[u] = "PENDING" /\ call'[u] = "receive"
      /\ \A v \in Threads \ {t} : call'[v] = call[v]
      /\ \A v \in Threads \ {t, u} : /\ box'[v] = box[v]
                                     /\ sched'.status[v] = sched.status[v]
      /\ box' \in [Threads -> Messages \cup {NoMsg}] /\ call' \in [Threads -> Calls]
  BY <1>1, <1>2, <1>5, <1>7, MsgTypes DEF Calls
<1>9. CallRight(t)' /\ CallRight(u)'
  BY <1>1, <1>2, <1>8 DEF CallRight, IsRequest, OnRunqueue
<1>10. ASSUME NEW v \in Threads, v # t, v # u PROVE CallRight(v)'
  BY <1>1, <1>8, <1>10, CallStays DEF Calm
<1>11. ASSUME NEW v \in Senders PROVE PlaceRight(v)'
  <2>1. ASSUME NEW k \in Places, NEW o \in Owners, At(k, v, o)'
        PROVE  At(k, v, o) \/ (k = "handed" /\ o = u /\ v = t)
    <3>1. o \in Threads
      BY MsgFacts
    <3>2. CASE o = u
      BY <1>1, <1>2, <1>8, <2>1, <3>2 DEF At, IsRequest
    <3>3. CASE o # u
      <4>1. call'[o] = "receive" => o # t
        BY <1>8
      <4> QED BY <1>1, <1>8, <2>1, <3>1, <3>3, <4>1 DEF At
    <3> QED BY <3>2, <3>3
  <2>2. CASE v = t
    <3>1. \A k \in Places, o \in Owners : At(k, t, o)' => k = "handed" /\ o = u
      BY <1>3, <2>1, <2>2
    <3>2. Fits("handed", sched'.status[t], call'[t])
      BY <1>8 DEF Fits
    <3> QED BY <2>2, <3>1, <3>2, PlaceMoves DEF Places
  <2>3. CASE v = u
    <3>1. \A k \in Places, o \in Owners : ~At(k, v, o)
      BY <1>4, <2>3, Unplaced
    <3> QED BY <1>1, <2>1, <2>3, <3>1, PlaceNone
  <2>4. CASE v # t /\ v # u
    BY <1>8, <2>1, <2>4, PlaceStays
  <2> QED BY <2>2, <2>3, <2>4
<1>12. \A o \in Owners : QueueRight(o)'
  BY <1>1, QueueStays
<1>13. ASSUME NEW v \in Threads PROVE RecheckRight(v)'
  <2>1. CASE v = t
    BY <1>8, <2>1 DEF RecheckRight
  <2>2. CASE v # t
    BY <1>1, <1>3, <2>2 DEF RecheckRight, Executing
  <2> QED BY <2>1, <2>2
<1>14. MsgTypeOK'
  BY <1>1, <1>2, <1>6, <1>8, MsgTypes DEF MsgTypeOK, IInv
<1> QED BY <1>6, <1>9, <1>10, <1>11, <1>12, <1>13, <1>14 DEF MInv

(* The end of a request left in a queue: the caller asks for a switch,     *)
(* unless it has its reply already.                                        *)
LEMMA RecheckMInv ==
    ASSUME MInv, NEW t \in Threads, Recheck(t)
    PROVE  MInv'
<1>1. /\ Executing(t) /\ call[t] = "recheck" /\ call' = [call EXCEPT ![t] = "ask"]
      /\ pendsv' = (pendsv \/ sched.status[t] = "REPLY_BLOCKED")
      /\ pc' = [pc EXCEPT ![t] = "user"]
      /\ UNCHANGED <<sched, active, request, irqOff, booted, pidVars, arg,
                     deferred, queue, sendq, box, owed, sent, got>>
  BY DEF Recheck, RecheckYields
<1>2. CallRight(t) /\ RecheckRight(t) /\ active = t /\ t # NoThread /\ IInv /\ TypeOK
  BY <1>1, SchedAssumption DEF MInv, Executing, IInv
<1>3. /\ call'[t] = "ask" /\ \A v \in Threads \ {t} : call'[v] = call[v]
      /\ call' \in [Threads -> Calls]
  BY <1>1, MsgTypes DEF Calls
<1>4. IInv'
  <2>1. PidsIdentifyThreads'
    BY <1>1, <1>2, PidsKept
  <2>2. ExecutingIsHead'
    <3> SUFFICES ASSUME NEW v \in Threads, Executing(v)'
                 PROVE  /\ sched.runqueue[Priority[v]] # <<>>
                        /\ Head(sched.runqueue[Priority[v]]) = v
      BY <1>1 DEF ExecutingIsHead
    <3>1. v = t /\ sched.status[t] \in OnRunqueue
      <4>1. v = t /\ (pendsv' => irqOff) /\ ~irqOff
        BY <1>1, <1>2 DEF Executing, IInv, CpuConsistent
      <4>2. sched.status[t] # "REPLY_BLOCKED"
        BY <1>1, <4>1
      <4> QED BY <1>1, <1>2, <4>1, <4>2 DEF CallRight
    <3>2. t \in ToSet(sched.runqueue[Priority[t]])
      BY <1>2, <3>1, SchedAssumption DEF IInv, RunqueueConsistent, Consistent
    <3>3. Head(sched.runqueue[Priority[t]]) = t
      BY <1>1, <1>2, <3>1 DEF RecheckRight
    <3> QED BY <3>1, <3>2, <3>3 DEF ToSet
  <2>3. CpuConsistent'
    BY <1>1, <1>2 DEF IInv, CpuConsistent
  <2>4. TypeOK'
    <3>1. pc' \in [Threads -> PcLabels] /\ pendsv' \in BOOLEAN
      BY <1>1, <1>2 DEF TypeOK, PcLabels
    <3> QED BY <1>1, <1>2, <3>1 DEF TypeOK, pidVars
  <2> QED BY <1>1, <1>2, <2>1, <2>2, <2>3, <2>4 DEF IInv, RunqueueConsistent, Consistent
<1>5. ASSUME NEW v \in Threads PROVE CallRight(v)'
  <2>1. CASE v = t
    BY <1>1, <1>2, <1>3, <2>1 DEF CallRight
  <2>2. CASE v # t
    BY <1>1, <1>3, <2>2, CallStays DEF Calm
  <2> QED BY <2>1, <2>2
<1>6. ASSUME NEW v \in Senders PROVE PlaceRight(v)'
  <2>1. \A k \in Places, o \in Owners : At(k, v, o)' <=> At(k, v, o)
    BY <1>1, <1>3, MsgFacts DEF At
  <2>2. PlaceRight(v)
    BY DEF MInv
  <2>3. CASE v = t
    BY <1>1, <1>3, <2>1, <2>2, <2>3 DEF PlaceRight, Fits
  <2>4. CASE v # t
    BY <1>1, <1>3, <2>1, <2>4, PlaceStays
  <2> QED BY <2>3, <2>4
<1>7. \A o \in Owners : QueueRight(o)'
  BY <1>1, QueueStays
<1>8. ASSUME NEW v \in Threads PROVE RecheckRight(v)'
  <2>1. CASE v = t
    BY <1>3, <2>1 DEF RecheckRight
  <2>2. CASE v # t
    BY <1>1, <1>2, <2>2 DEF RecheckRight, Executing
  <2> QED BY <2>1, <2>2
<1>9. MsgTypeOK'
  BY <1>1, <1>3, <1>4, MsgTypes DEF MsgTypeOK, IInv
<1> QED BY <1>4, <1>5, <1>6, <1>7, <1>8, <1>9 DEF MInv

-----------------------------------------------------------------------------
(* receive().                                                              *)

LEMMA ReceiveBlockMInv ==
    ASSUME MInv, NEW t \in Threads, ReceiveBlock(t)
    PROVE  MInv'
<1>1. /\ InUser(t) /\ t # Idle /\ t \in Owners /\ queue[t] = <<>> /\ sendq[t] = <<>>
      /\ sched' = SetThreadStatus(sched, t, "RECEIVE_BLOCKED")
      /\ call' = [call EXCEPT ![t] = "receive"] /\ pc' = [pc EXCEPT ![t] = "yield"]
      /\ UNCHANGED <<active, cpuVars, pidVars, arg, deferred,
                     queue, sendq, box, owed, sent, got>>
  BY DEF ReceiveBlock
<1>2. /\ active = t /\ call[t] = "none" /\ box[t] = NoMsg /\ t \in Senders
      /\ sched.status[t] \in OnRunqueue
      /\ \A k \in Places, o \in Owners : ~At(k, t, o)
  BY <1>1, InUserFacts, MsgFacts
<1>3. IInv'
  BY <1>1, BlockFacts DEF MsgBlocked
<1>4. sched'.status = [sched.status EXCEPT ![t] = "RECEIVE_BLOCKED"]
  BY <1>1 DEF SetThreadStatus
<1>5. /\ sched'.status[t] = "RECEIVE_BLOCKED" /\ call'[t] = "receive"
      /\ \A v \in Threads \ {t} : /\ call'[v] = call[v] /\ sched'.status[v] = sched.status[v]
      /\ call' \in [Threads -> Calls]
  BY <1>1, <1>4, MsgTypes DEF Calls
<1>6. ASSUME NEW v \in Threads PROVE CallRight(v)'
  <2>1. CASE v = t
    BY <1>1, <1>2, <1>5, <2>1 DEF CallRight
  <2>2. CASE v # t
    BY <1>1, <1>5, <2>2, CallStays DEF Calm
  <2> QED BY <2>1, <2>2
<1>7. ASSUME NEW v \in Senders PROVE PlaceRight(v)'
  <2>1. ASSUME NEW k \in Places, NEW o \in Owners, At(k, v, o)' PROVE At(k, v, o)
    <3>1. o = t \/ call'[o] = call[o]
      BY <1>5, MsgFacts
    <3> QED BY <1>1, <1>2, <2>1, <3>1 DEF At
  <2>2. CASE v = t
    BY <1>2, <2>1, <2>2, PlaceNone
  <2>3. CASE v # t
    BY <1>5, <2>1, <2>3, PlaceStays
  <2> QED BY <2>2, <2>3
<1>8. \A o \in Owners : QueueRight(o)'
  BY <1>1, QueueStays
<1>9. ASSUME NEW v \in Threads PROVE RecheckRight(v)'
  <2>1. CASE v = t
    BY <1>5, <2>1 DEF RecheckRight
  <2>2. CASE v # t
    BY <1>1, <1>2, <2>2 DEF RecheckRight, Executing
  <2> QED BY <2>1, <2>2
<1>10. MsgTypeOK'
  BY <1>1, <1>3, <1>5, MsgTypes DEF MsgTypeOK, IInv
<1> QED BY <1>3, <1>6, <1>7, <1>8, <1>9, <1>10 DEF MInv

(* What a receive() of t does with the message it returns. *)
LEMMA ReceivedFacts ==
    ASSUME MInv, NEW t \in Owners, NEW m \in Messages, Received(t, m),
           m.kind = "request" => m.from \in Threads
    PROVE  /\ owed' \in [Owners -> SUBSET Threads]
           /\ got' \in [Owners -> [Senders -> 0 .. MaxSends]]
           /\ \A u \in Owners : \A v : v \in owed'[u] <=>
                 v \in owed[u] \/ (u = t /\ IsRequest(m, v))
           /\ got'[t][m.from] = m.n
           /\ \A u \in Owners, s \in Senders : u # t \/ s # m.from => got'[u][s] = got[u][s]
<1>1. m.from \in Senders /\ m.n \in 0 .. MaxSends
  BY DEF Messages
<1>2. got' = [got EXCEPT ![t][m.from] = m.n]
  BY DEF Received
<1>3. CASE m.kind = "request"
  <2>1. owed' = [owed EXCEPT ![t] = owed[t] \cup {m.from}]
    BY <1>3 DEF Received
  <2> QED BY <1>1, <1>2, <1>3, <2>1, MsgTypes DEF IsRequest
<1>4. CASE m.kind # "request"
  <2>1. owed' = owed
    BY <1>4 DEF Received
  <2> QED BY <1>1, <1>2, <1>4, <2>1, MsgTypes DEF IsRequest
<1> QED BY <1>3, <1>4

LEMMA ReceiveQueuedMInv ==
    ASSUME MInv, NEW t \in Threads, ReceiveQueued(t)
    PROVE  MInv'
<1> DEFINE q == queue[t]
           m == Head(q)
<1>1. /\ InUser(t) /\ t \in Owners /\ q # <<>> /\ queue' = [queue EXCEPT ![t] = Tail(q)]
      /\ Received(t, m) /\ UNCHANGED <<schedVars, sendq, box, call, sent>>
  BY DEF ReceiveQueued
<1>2. q \in Seq(Messages) /\ RequestsOnce(q) /\ Len(q) <= QueueSize
  BY <1>1, MsgTypes DEF MInv, QueueRight
<1>3. /\ Tail(q) \in Seq(Messages) /\ Len(Tail(q)) = Len(q) - 1
      /\ m \in Messages /\ m = q[1] /\ Len(q) \in Nat \ {0}
      /\ \A v : Asks(Tail(q), v) <=> Asks(q, v) /\ ~IsRequest(m, v)
      /\ RequestsOnce(Tail(q))
  BY <1>1, <1>2, TailRequests
<1>4. call[t] = "none" /\ sched.status[t] \in OnRunqueue
  BY <1>1, InUserFacts
<1>5. ASSUME NEW v, IsRequest(m, v) PROVE v \in Senders /\ At("queued", v, t)
  BY <1>3, <1>5 DEF At, Asks, IsRequest, Messages
<1> HIDE DEF m
<1>6. /\ queue'[t] = Tail(q) /\ \A o \in Owners \ {t} : queue'[o] = queue[o]
      /\ queue' \in [Owners -> Seq(Messages)] /\ \A o \in Owners : Len(queue'[o]) <= QueueSize
  <2>1. Len(Tail(q)) <= QueueSize
    BY <1>2, <1>3, MsgFacts
  <2> HIDE DEF q
  <2> QED BY <1>1, <1>3, <2>1, MsgTypes
<1>7. m.kind = "request" => m.from \in Threads
  <2> SUFFICES ASSUME m.kind = "request" PROVE m.from \in Threads
    OBVIOUS
  <2>1. m.from \in Senders /\ At("queued", m.from, t)
    BY <1>5 DEF IsRequest
  <2> QED BY <1>1, <2>1, OnlyPlace DEF Places
<1>8. /\ owed' \in [Owners -> SUBSET Threads]
      /\ got' \in [Owners -> [Senders -> 0 .. MaxSends]]
      /\ \A u \in Owners : \A v : v \in owed'[u] <=> v \in owed[u] \/ (u = t /\ IsRequest(m, v))
  BY <1>1, <1>3, <1>7, ReceivedFacts
<1> HIDE DEF q
<1>9. /\ UNCHANGED <<sched, active, pendsv, irqOff, call, box, sendq>> /\ IInv'
  BY <1>1, StutterIInv DEF schedVars, MInv
<1>10. ASSUME NEW v \in Threads PROVE CallRight(v)'
  <2>1. sched.status[v] = "RECEIVE_BLOCKED" /\ v \in Owners => queue'[v] = queue[v]
    BY <1>4, <1>6 DEF OnRunqueue
  <2> QED BY <1>9, <2>1, CallStays DEF Calm
<1>11. ASSUME NEW v \in Senders PROVE PlaceRight(v)'
  <2>1. ASSUME NEW k \in Places, NEW o \in Owners, At(k, v, o)'
        PROVE  \/ At(k, v, o) /\ ~(k = "queued" /\ o = t /\ IsRequest(m, v))
               \/ k = "owed" /\ o = t /\ IsRequest(m, v)
    <3>1. CASE k = "queued"
      <4>1. CASE o = t
        BY <1>3, <1>6, <2>1, <3>1, <4>1 DEF At, q
      <4>2. CASE o # t
        BY <1>6, <2>1, <3>1, <4>2 DEF At
      <4> QED BY <4>1, <4>2
    <3>2. CASE k = "owed"
      BY <1>8, <2>1, <3>2 DEF At
    <3>3. CASE k \in {"waiting", "handed"}
      BY <1>9, <2>1, <3>3 DEF At
    <3> QED BY <3>1, <3>2, <3>3 DEF Places
  <2>2. CASE IsRequest(m, v)
    <3>1. /\ v \in Threads /\ Fits("queued", sched.status[v], call[v])
          /\ \A k \in Places, o \in Owners : At(k, v, o) => k = "queued" /\ o = t
      <4>1. At("queued", v, t)
        BY <1>5, <2>2
      <4> QED BY <1>1, <4>1, OnlyPlace DEF Places
    <3>2. \A k \in Places, o \in Owners : At(k, v, o)' => k = "owed" /\ o = t
      BY <2>1, <2>2, <3>1
    <3>3. Fits("owed", sched'.status[v], call'[v])
      BY <1>9, <3>1 DEF Fits
    <3> QED BY <1>1, <3>1, <3>2, <3>3, PlaceMoves DEF Places
  <2>3. CASE ~IsRequest(m, v)
    BY <1>9, <2>1, <2>3, PlaceStays
  <2> QED BY <2>2, <2>3
<1>12. ASSUME NEW o \in Owners PROVE QueueRight(o)'
  <2>1. QueueRight(o)
    BY DEF MInv
  <2>2. CASE o = t
    BY <1>3, <1>6, <1>9, <2>1, <2>2 DEF QueueRight
  <2>3. CASE o # t
    BY <1>6, <1>9, <2>1, <2>3 DEF QueueRight
  <2> QED BY <2>2, <2>3
<1>13. \A v \in Threads : RecheckRight(v)'
  BY <1>9 DEF MInv, RecheckRight, Executing
<1>14. MsgTypeOK'
  BY <1>1, <1>6, <1>8, <1>9, MsgTypes DEF MsgTypeOK, IInv
<1> QED BY <1>9, <1>10, <1>11, <1>12, <1>13, <1>14 DEF MInv

(* The first thread that waits is in no other place, and its message is of *)
(* the kind its status says. *)
LEMMA WaiterFacts ==
    ASSUME MInv, NEW t \in Owners, sendq[t] # <<>>
    PROVE  LET v == Head(sendq[t])
           IN  /\ v \in Threads /\ v \in ToSet(sendq[t])
               /\ Tail(sendq[t]) \in Seq(Threads) /\ IsInjective(Tail(sendq[t]))
               /\ ByUrgency(Tail(sendq[t]))
               /\ ToSet(Tail(sendq[t])) = ToSet(sendq[t]) \ {v}
               /\ \A k \in Places, u \in Owners : At(k, v, u) => k = "waiting" /\ u = t
               /\ box[v] \in Messages /\ box[v].from = v
               /\ \/ /\ sched.status[v] = "SEND_BLOCKED" /\ call[v] = "send"
                     /\ box[v].kind = "note"
                  \/ /\ sched.status[v] = "REPLY_BLOCKED" /\ call[v] = "ask"
                     /\ box[v].kind = "request"
<1> DEFINE q == sendq[t]
           v == Head(q)
<1>1. q \in Seq(Threads) /\ q # <<>> /\ IsInjective(q) /\ ByUrgency(q)
  BY MsgTypes DEF MInv, QueueRight
<1>2. /\ Tail(q) \in Seq(Threads) /\ IsInjective(Tail(q))
      /\ ToSet(Tail(q)) = ToSet(q) \ {v}
  BY <1>1, LeftPopDistinct DEF LeftPop
<1>3. ByUrgency(Tail(q))
  BY <1>1, SortedTail
<1>4. v \in ToSet(q) /\ v \in Threads
  BY <1>1 DEF ToSet
<1> HIDE DEF v, q
<1>5. v \in Senders /\ At("waiting", v, t)
  BY <1>4, MsgFacts DEF At, q
<1>6. /\ Fits("waiting", sched.status[v], call[v])
      /\ \A k \in Places, u \in Owners : At(k, v, u) => k = "waiting" /\ u = t
  BY <1>5, OnlyPlace DEF Places
<1>7. CallRight(v) /\ box[v] \in Messages \cup {NoMsg}
  BY <1>4, MsgTypes DEF MInv
<1>8. /\ box[v] \in Messages /\ box[v].from = v
      /\ \/ /\ sched.status[v] = "SEND_BLOCKED" /\ call[v] = "send"
            /\ box[v].kind = "note"
         \/ /\ sched.status[v] = "REPLY_BLOCKED" /\ call[v] = "ask"
            /\ box[v].kind = "request"
  BY <1>6, <1>7 DEF Fits, CallRight, IsRequest, OnRunqueue
<1> QED BY <1>2, <1>3, <1>4, <1>6, <1>8 DEF v, q

(* receive() takes the message of the first thread that waits for room,    *)
(* which continues unless it waits for the reply too. *)
LEMMA ReceiveFromWaiterMInv ==
    ASSUME MInv, NEW t \in Threads, ReceiveFromWaiter(t)
    PROVE  MInv'
<1> DEFINE q == sendq[t]
<1>0. PICK v \in Threads : v = Head(q)
  BY WaiterFacts DEF ReceiveFromWaiter, TakesFromWaiter
<1> DEFINE m == box[v]
<1>1. /\ InUser(t) /\ t \in Owners /\ queue[t] = <<>> /\ q # <<>>
      /\ Received(t, m) /\ sendq' = [sendq EXCEPT ![t] = Tail(q)]
      /\ UNCHANGED <<active, cpuVars, pidVars, deferred, queue, call, sent>>
  BY <1>0 DEF ReceiveFromWaiter, TakesFromWaiter
<1>2. /\ v \in Threads /\ v \in ToSet(q)
      /\ Tail(q) \in Seq(Threads) /\ IsInjective(Tail(q)) /\ ByUrgency(Tail(q))
      /\ ToSet(Tail(q)) = ToSet(q) \ {v}
      /\ \A k \in Places, u \in Owners : At(k, v, u) => k = "waiting" /\ u = t
      /\ m \in Messages /\ m.from = v
      /\ \/ sched.status[v] = "SEND_BLOCKED" /\ call[v] = "send" /\ m.kind = "note"
         \/ sched.status[v] = "REPLY_BLOCKED" /\ call[v] = "ask" /\ m.kind = "request"
  BY <1>0, <1>1, WaiterFacts
<1>3. /\ box' = IF sched.status[v] = "REPLY_BLOCKED" THEN box
                ELSE [box EXCEPT ![v] = NoMsg]
      /\ sched' = IF sched.status[v] = "REPLY_BLOCKED" THEN sched
                  ELSE SetThreadStatus(sched, v, "PENDING")
      /\ sched.status[v] = "REPLY_BLOCKED" => UNCHANGED <<pc, arg>>
      /\ pc' = [pc EXCEPT ![t] = "switch"] \/ pc' = pc
      /\ arg' = [arg EXCEPT ![t] = Priority[v]] \/ arg' = arg
  BY <1>0 DEF ReceiveFromWaiter, ReleaseSender
<1>4. /\ call[t] = "none" /\ active = t /\ ~pendsv
      /\ sched.status[t] \in OnRunqueue /\ v # t
  BY <1>1, <1>2, InUserFacts DEF OnRunqueue
<1> HIDE DEF m
<1>5. /\ owed' \in [Owners -> SUBSET Threads]
      /\ got' \in [Owners -> [Senders -> 0 .. MaxSends]]
      /\ \A u \in Owners : \A w : w \in owed'[u] <=> w \in owed[u] \/ (u = t /\ IsRequest(m, w))
  BY <1>1, <1>2, ReceivedFacts
<1>6. /\ sendq'[t] = Tail(q) /\ \A o \in Owners \ {t} : sendq'[o] = sendq[o]
      /\ sendq' \in [Owners -> Seq(Threads)]
  <2> HIDE DEF q
  <2> QED BY <1>1, <1>2, MsgTypes
<1> HIDE DEF q
<1>7. IInv'
  <2>1. CASE sched.status[v] = "REPLY_BLOCKED"
    <3>1. UNCHANGED schedVars
      BY <1>1, <1>3, <2>1 DEF schedVars, codeVars, cpuVars, pidVars
    <3> QED BY <3>1, StutterIInv DEF MInv
  <2>2. CASE sched.status[v] # "REPLY_BLOCKED"
    <3>1. /\ sched' = SetThreadStatus(sched, v, "PENDING")
          /\ sched.status[v] \in OffRunqueue \ {"STOPPED"}
      BY <1>2, <1>3, <2>2 DEF OffRunqueue
    <3>2. pc' \in [Threads -> PcLabels] /\ arg' \in [Threads -> Prios \cup {0}]
      <4>1. /\ pc \in [Threads -> PcLabels] /\ arg \in [Threads -> Prios \cup {0}]
            /\ Priority[v] \in Prios /\ "switch" \in PcLabels
        BY <1>2, MsgTypes, SchedAssumption DEF TypeOK, PcLabels
      <4> QED BY <1>3, <4>1
    <3>3. pc'[t] # "yield" => pc[t] # "yield"
      BY <1>1 DEF InUser
    <3>4. UNCHANGED <<request, pendsv, irqOff, booted>>
      BY <1>1 DEF cpuVars
    <3>5. request \in BOOLEAN /\ pendsv \in BOOLEAN
      BY MsgTypes DEF TypeOK
    <3> QED BY <1>1, <1>2, <1>4, <3>1, <3>2, <3>3, <3>4, <3>5, ReadyIInv DEF MInv
  <2> QED BY <2>1, <2>2
<1>8. /\ \A w \in Threads \ {v} : box'[w] = box[w] /\ sched'.status[w] = sched.status[w]
      /\ box' \in [Threads -> Messages \cup {NoMsg}] /\ UNCHANGED call
      /\ \/ /\ sched.status[v] = "SEND_BLOCKED" /\ call[v] = "send"
            /\ box'[v] = NoMsg /\ sched'.status[v] = "PENDING" /\ m.kind = "note"
            /\ sched' = SetThreadStatus(sched, v, "PENDING")
         \/ /\ sched.status[v] = "REPLY_BLOCKED" /\ call[v] = "ask" /\ m.kind = "request"
            /\ UNCHANGED <<box, sched>> /\ sched'.status[v] = "REPLY_BLOCKED"
  <2>1. CASE sched.status[v] = "SEND_BLOCKED"
    <3>1. /\ sched' = SetThreadStatus(sched, v, "PENDING")
          /\ box' = [box EXCEPT ![v] = NoMsg]
      BY <1>3, <2>1
    <3>2. sched'.status = [sched.status EXCEPT ![v] = "PENDING"]
      BY <3>1 DEF SetThreadStatus
    <3> QED BY <1>1, <1>2, <2>1, <3>1, <3>2, MsgTypes
  <2>2. CASE sched.status[v] = "REPLY_BLOCKED"
    BY <1>1, <1>2, <1>3, <2>2, MsgTypes
  <2> QED BY <1>2, <2>1, <2>2
<1>9. CallRight(v)'
  <2>1. CallRight(v)
    BY <1>2 DEF MInv
  <2> QED BY <1>8, <2>1 DEF CallRight, OnRunqueue, IsRequest
<1>10. ASSUME NEW w \in Threads, w # v PROVE CallRight(w)'
  <2>1. sched.status[w] = "RECEIVE_BLOCKED" /\ w \in Owners =>
           queue'[w] = queue[w] /\ sendq'[w] = sendq[w]
    BY <1>1, <1>4, <1>6 DEF OnRunqueue
  <2>2. \A u \in Owners : w \in ToSet(sendq[u]) => w \in ToSet(sendq'[u])
    BY <1>2, <1>6, <1>10 DEF q
  <2> QED BY <1>8, <1>10, <2>1, <2>2, CallStays DEF Calm
<1>11. ASSUME NEW w \in Senders PROVE PlaceRight(w)'
  <2>1. ASSUME NEW k \in Places, NEW o \in Owners, At(k, w, o)'
        PROVE  \/ At(k, w, o) /\ ~(k = "waiting" /\ w = v)
               \/ k = "owed" /\ o = t /\ w = v /\ m.kind = "request"
    <3>1. CASE k = "waiting"
      <4>1. CASE o = t
        BY <1>2, <1>6, <2>1, <3>1, <4>1 DEF At, q
      <4>2. CASE o # t
        <5>1. w \in ToSet(sendq[o])
          BY <1>6, <2>1, <3>1, <4>2 DEF At
        <5>2. At("waiting", w, o)
          BY <5>1 DEF At
        <5>3. w # v
          BY <1>2, <4>2, <5>2 DEF Places
        <5> QED BY <3>1, <5>2, <5>3
      <4> QED BY <4>1, <4>2
    <3>2. CASE k = "owed"
      BY <1>2, <1>5, <2>1, <3>2 DEF At, IsRequest
    <3>3. CASE k = "queued"
      BY <1>1, <2>1, <3>3 DEF At
    <3>4. CASE k = "handed"
      <4>1. call'[o] = "receive" => o # v
        BY <1>8
      <4> QED BY <1>8, <2>1, <3>4, <4>1, MsgFacts DEF At
    <3> QED BY <3>1, <3>2, <3>3, <3>4 DEF Places
  <2>2. CASE w = v /\ m.kind = "request"
    <3>1. \A k \in Places, o \in Owners : At(k, v, o)' => k = "owed" /\ o = t
      BY <1>2, <2>1, <2>2
    <3>2. Fits("owed", sched'.status[v], call'[v])
      BY <1>8, <2>2 DEF Fits
    <3> QED BY <1>1, <1>2, <2>2, <3>1, <3>2, PlaceMoves DEF Places
  <2>3. CASE w = v /\ m.kind # "request"
    <3>1. \A k \in Places, o \in Owners : ~At(k, v, o)'
      BY <1>2, <2>1, <2>3
    <3> QED BY <2>3, <3>1, PlaceNone
  <2>4. CASE w # v
    BY <1>8, <2>1, <2>4, PlaceStays
  <2> QED BY <2>2, <2>3, <2>4
<1>12. ASSUME NEW o \in Owners PROVE QueueRight(o)'
  <2>1. QueueRight(o)
    BY DEF MInv
  <2>2. CASE o = t
    BY <1>1, <1>2, <1>6, <2>1, <2>2 DEF QueueRight, q
  <2>3. CASE o # t
    BY <1>1, <1>6, <2>1, <2>3 DEF QueueRight
  <2> QED BY <2>2, <2>3
<1>13. ASSUME NEW w \in Threads PROVE RecheckRight(w)'
  <2>1. UNCHANGED <<active, irqOff, pendsv>>
    BY <1>1 DEF cpuVars
  <2>2. CASE sched.status[v] = "SEND_BLOCKED"
    BY <1>2, <1>8, <2>1, <2>2, ReadyRecheck DEF OnRunqueue
  <2>3. CASE sched.status[v] # "SEND_BLOCKED"
    BY <1>8, <2>1, <2>3 DEF MInv, RecheckRight, Executing
  <2> QED BY <2>2, <2>3
<1>14. MsgTypeOK'
  BY <1>1, <1>5, <1>6, <1>7, <1>8, MsgTypes DEF MsgTypeOK, IInv
<1> QED BY <1>7, <1>9, <1>10, <1>11, <1>12, <1>13, <1>14 DEF MInv

-----------------------------------------------------------------------------
(* reply(), and the return of a call that blocked.                         *)

LEMMA ReplyMInv ==
    ASSUME MInv, NEW t \in Owners, NEW v \in Threads,
           (InUser(t) /\ Reply(t, v)) \/ IsrReply(t, v)
    PROVE  MInv'
<1> DEFINE m == [from |-> t, kind |-> "reply", n |-> 0]
<1>1. /\ v \in owed[t] /\ owed' = [owed EXCEPT ![t] = @ \ {v}]
      /\ sched.status[v] = "REPLY_BLOCKED" /\ box' = [box EXCEPT ![v] = m]
      /\ sched' = SetThreadStatus(sched, v, "PENDING")
      /\ UNCHANGED <<active, irqOff, booted, pidVars, deferred,
                     queue, sendq, call, sent, got>>
  BY DEF Reply, IsrReply, Answer, AnsweredBox, cpuVars
<1>2. m \in Messages /\ m # NoMsg /\ m.kind = "reply" /\ t \in Threads /\ v \in Senders
  BY MsgFacts DEF Messages, Senders, Kinds
<1> HIDE DEF m
<1>3. At("owed", v, t)
  BY <1>1 DEF At
<1>4. /\ call[v] \in {"ask", "recheck"}
      /\ \A k \in Places, o \in Owners : At(k, v, o) => k = "owed" /\ o = t
  BY <1>1, <1>2, <1>3, OnlyPlace DEF Places, Fits
<1>5. /\ pendsv => pendsv'
      /\ Executing(v)' => FALSE
  <2>1. CASE Reply(t, v)
    <3>1. active = t /\ t # v /\ UNCHANGED pendsv
      BY <1>1, <1>2, <2>1, InUserFacts DEF Reply, cpuVars, OnRunqueue
    <3> QED BY <1>1, <3>1 DEF Executing
  <2>2. CASE IsrReply(t, v)
    BY <2>2 DEF IsrReply, EndOfIsr, IsrEnabled, Executing
  <2> QED BY <2>1, <2>2
<1>6. IInv'
  <2>1. sched.status[v] \in OffRunqueue \ {"STOPPED"}
    BY <1>1 DEF OffRunqueue
  <2>2. /\ request \in BOOLEAN /\ pendsv \in BOOLEAN /\ Priority[v] \in Prios
        /\ pc \in [Threads -> PcLabels] /\ arg \in [Threads -> Prios \cup {0}]
        /\ "switch" \in PcLabels
    BY MsgTypes, SchedAssumption DEF TypeOK, PcLabels
  <2>3. CASE Reply(t, v)
    <3>1. /\ active = t /\ ~pendsv /\ UNCHANGED <<request, pendsv>>
          /\ pc' = [pc EXCEPT ![t] = "switch"] /\ arg' = [arg EXCEPT ![t] = Priority[v]]
          /\ pc[t] # "yield"
      BY <1>2, <2>3, InUserFacts DEF Reply, cpuVars
    <3>2. pc' \in [Threads -> PcLabels] /\ arg' \in [Threads -> Prios \cup {0}]
      BY <2>2, <3>1
    <3> QED BY <1>1, <2>1, <2>2, <3>1, <3>2, ReadyIInv DEF MInv
  <2>4. CASE IsrReply(t, v)
    <3>1. /\ active # NoThread /\ request' = TRUE /\ pendsv' = TRUE /\ UNCHANGED <<pc, arg>>
      BY <2>4 DEF IsrReply, EndOfIsr, IsrEnabled, codeVars
    <3> QED BY <1>1, <2>1, <2>2, <3>1, ReadyIInv DEF MInv
  <2> QED BY <2>3, <2>4
<1>7. sched'.status = [sched.status EXCEPT ![v] = "PENDING"]
  BY <1>1 DEF SetThreadStatus
<1>8. /\ box'[v] = m /\ sched'.status[v] = "PENDING" /\ UNCHANGED <<call, queue, sendq>>
      /\ \A w \in Threads \ {v} : box'[w] = box[w] /\ sched'.status[w] = sched.status[w]
      /\ box' \in [Threads -> Messages \cup {NoMsg}]
      /\ owed' \in [Owners -> SUBSET Threads]
      /\ \A o \in Owners : \A w : w \in owed'[o] <=> w \in owed[o] /\ ~(o = t /\ w = v)
  BY <1>1, <1>2, <1>7, MsgTypes
<1>9. CallRight(v)'
  <2>1. CallRight(v)
    BY DEF MInv
  <2> QED BY <1>2, <1>4, <1>8, <2>1 DEF CallRight, OnRunqueue
<1>10. ASSUME NEW w \in Threads, w # v PROVE CallRight(w)'
  BY <1>8, <1>10, CallStays DEF Calm
<1>11. ASSUME NEW w \in Senders PROVE PlaceRight(w)'
  <2>1. ASSUME NEW k \in Places, NEW o \in Owners, At(k, w, o)'
        PROVE  At(k, w, o) /\ ~(k = "owed" /\ o = t /\ w = v)
    <3>1. call'[o] = "receive" => o # v
      BY <1>4, <1>8
    <3> QED BY <1>8, <2>1, <3>1, MsgFacts DEF At
  <2>2. CASE w = v
    <3>1. \A k \in Places, o \in Owners : ~At(k, v, o)'
      BY <1>4, <2>1, <2>2
    <3> QED BY <2>2, <3>1, PlaceNone
  <2>3. CASE w # v
    BY <1>8, <2>1, <2>3, PlaceStays
  <2> QED BY <2>2, <2>3
<1>12. \A o \in Owners : QueueRight(o)'
  BY <1>8, QueueStays
<1>13. \A w \in Threads : RecheckRight(w)'
  BY <1>1, <1>5, ReadyRecheck DEF OnRunqueue
<1>14. MsgTypeOK'
  BY <1>1, <1>6, <1>8, MsgTypes DEF MsgTypeOK, IInv
<1> QED BY <1>6, <1>9, <1>10, <1>11, <1>12, <1>13, <1>14 DEF MInv

LEMMA ReturnMInv ==
    ASSUME MInv, NEW t \in Threads, Return(t)
    PROVE  MInv'
<1>1. /\ Executing(t) /\ pc[t] = "user" /\ call[t] \in {"send", "receive", "ask"}
      /\ call' = [call EXCEPT ![t] = "none"] /\ box' = [box EXCEPT ![t] = NoMsg]
      /\ IF call[t] = "receive" THEN Received(t, box[t]) ELSE UNCHANGED <<got, owed>>
      /\ UNCHANGED <<schedVars, queue, sendq, sent>>
  BY DEF Return
<1>2. sched.status[t] \in OnRunqueue /\ CallRight(t) /\ t \in Senders
  <2>1. pc[t] # "yield"
    BY <1>1
  <2> QED BY <1>1, <2>1, ExecutingExists, MsgFacts DEF MInv
<1>3. \A k \in Places, o \in Owners : ~At(k, t, o)
  BY <1>2, Unplaced DEF OnRunqueue
<1>4. UNCHANGED <<sched, active, pendsv, irqOff>> /\ IInv'
  BY <1>1, StutterIInv DEF schedVars, MInv
<1>5. /\ call'[t] = "none" /\ box'[t] = NoMsg
      /\ \A w \in Threads \ {t} : call'[w] = call[w] /\ box'[w] = box[w]
      /\ call' \in [Threads -> Calls] /\ box' \in [Threads -> Messages \cup {NoMsg}]
  BY <1>1, MsgTypes DEF Calls
<1>6. call[t] = "receive" =>
         /\ t \in Owners /\ box[t] \in Messages
         /\ \A w : IsRequest(box[t], w) => w \in Senders /\ At("handed", w, t)
  <2>1. box[t] \in Messages \cup {NoMsg}
    BY MsgTypes
  <2> QED BY <1>2, <2>1 DEF CallRight, OnRunqueue, At, IsRequest, Messages
<1>7. /\ owed' \in [Owners -> SUBSET Threads]
      /\ got' \in [Owners -> [Senders -> 0 .. MaxSends]]
      /\ \A u \in Owners : \A w : w \in owed'[u] <=>
            w \in owed[u] \/ (u = t /\ call[t] = "receive" /\ IsRequest(box[t], w))
  <2>1. CASE call[t] = "receive"
    <3>1. box[t].kind = "request" => box[t].from \in Threads
      <4> SUFFICES ASSUME box[t].kind = "request" PROVE box[t].from \in Threads
        OBVIOUS
      <4>1. /\ box[t].from \in Senders /\ At("handed", box[t].from, t)
        BY <1>6, <2>1 DEF IsRequest
      <4> QED BY <1>6, <2>1, <4>1, OnlyPlace DEF Places
    <3> QED BY <1>1, <1>6, <2>1, <3>1, ReceivedFacts
  <2>2. CASE call[t] # "receive"
    BY <1>1, <2>2, MsgTypes
  <2> QED BY <2>1, <2>2
<1>8. CallRight(t)'
  BY <1>2, <1>4, <1>5 DEF CallRight, OnRunqueue, MsgBlocked
<1>9. ASSUME NEW w \in Threads, w # t PROVE CallRight(w)'
  BY <1>1, <1>4, <1>5, <1>9, CallStays DEF Calm
<1>10. ASSUME NEW w \in Senders PROVE PlaceRight(w)'
  <2> DEFINE Mine == call[t] = "receive" /\ IsRequest(box[t], w)
  <2>1. ASSUME NEW k \in Places, NEW o \in Owners, At(k, w, o)'
        PROVE  \/ At(k, w, o) /\ ~(k = "handed" /\ o = t)
               \/ k = "owed" /\ o = t /\ Mine
    <3>1. CASE k = "owed"
      BY <1>7, <2>1, <3>1 DEF At
    <3>2. CASE k = "handed"
      <4>1. o # t
        BY <1>5, <2>1, <3>2 DEF At
      <4> QED BY <1>5, <2>1, <3>2, <4>1, MsgFacts DEF At
    <3>3. CASE k \in {"waiting", "queued"}
      BY <1>1, <2>1, <3>3 DEF At
    <3> QED BY <3>1, <3>2, <3>3 DEF Places
  <2>2. CASE Mine
    <3>1. w \in Threads /\ w # t /\ t \in Owners /\ Fits("handed", sched.status[w], call[w])
          /\ \A k \in Places, o \in Owners : At(k, w, o) => k = "handed" /\ o = t
      <4>1. At("handed", w, t) /\ t \in Owners
        BY <1>6, <2>2
      <4> QED BY <1>3, <4>1, OnlyPlace DEF Places
    <3>2. \A k \in Places, o \in Owners : At(k, w, o)' => k = "owed" /\ o = t
      BY <2>1, <3>1
    <3>3. Fits("owed", sched'.status[w], call'[w])
      BY <1>4, <1>5, <3>1 DEF Fits
    <3> QED BY <3>1, <3>2, <3>3, PlaceMoves DEF Places
  <2>3. CASE ~Mine /\ w = t
    <3>1. \A k \in Places, o \in Owners : ~At(k, w, o)'
      BY <1>3, <2>1, <2>3
    <3> QED BY <3>1, PlaceNone
  <2>4. CASE ~Mine /\ w # t
    <3> HIDE DEF Mine
    <3> QED BY <1>4, <1>5, <2>1, <2>4, PlaceStays
  <2> QED BY <2>2, <2>3, <2>4
<1>11. \A o \in Owners : QueueRight(o)'
  BY <1>1, QueueStays
<1>12. ASSUME NEW w \in Threads PROVE RecheckRight(w)'
  <2>1. RecheckRight(w)
    BY DEF MInv
  <2> QED BY <1>4, <1>5, <2>1 DEF RecheckRight, Executing
<1>13. MsgTypeOK'
  BY <1>1, <1>4, <1>5, <1>7, MsgTypes DEF MsgTypeOK, IInv
<1> QED BY <1>4, <1>8, <1>9, <1>10, <1>11, <1>12, <1>13 DEF MInv

-----------------------------------------------------------------------------
(* The invariant, and what it says of the properties of the runs.          *)

LEMMA NextMInv ==
    MInv /\ [MsgNext]_vars => MInv'
<1> SUFFICES ASSUME MInv, [MsgNext]_vars PROVE MInv'
  OBVIOUS
<1>1. CASE (Boot \/ SwitchContextExit \/ PendSV) /\ UNCHANGED msgVars
  BY <1>1, SystemMInv
<1>2. ASSUME NEW t \in Threads, SchedCall(t) \/ MsgCall(t) \/ Recheck(t) \/ Return(t)
      PROVE  MInv'
  <2>1. CASE SchedCall(t)
    BY <2>1, SchedCallMInv
  <2>2. CASE MsgCall(t)
    <3>1. ASSUME NEW u \in Owners,
                 \/ SendDirect(t, u) \/ SendQueued(t, u) \/ SendBlock(t, u)
                 \/ AskDirect(t, u) \/ AskQueued(t, u) \/ AskBlock(t, u)
          PROVE  MInv'
      BY <3>1, SendMInv, BlockedSendMInv, AskDirectMInv, AskQueuedMInv, MsgFacts
    <3>2. CASE ReceiveQueued(t) \/ ReceiveFromWaiter(t) \/ ReceiveBlock(t)
      BY <3>2, ReceiveQueuedMInv, ReceiveFromWaiterMInv, ReceiveBlockMInv
    <3>3. ASSUME t \in Owners, NEW v \in Threads, Reply(t, v) PROVE MInv'
      BY <3>3, ReplyMInv DEF Reply
    <3> QED BY <2>2, <3>1, <3>2, <3>3 DEF MsgCall
  <2>3. CASE Recheck(t)
    BY <2>3, RecheckMInv
  <2>4. CASE Return(t)
    BY <2>4, ReturnMInv
  <2> QED BY <1>2, <2>1, <2>2, <2>3, <2>4
<1>3. CASE \E t \in Threads : call[t] # "recheck" /\ KernelStep(t) /\ UNCHANGED msgVars
  BY <1>3, SystemMInv
<1>4. CASE (\E u \in Threads : IsrWakeup(u)) /\ UNCHANGED msgVars
  BY <1>4, SystemMInv
<1>5. ASSUME NEW u \in Owners, NEW v \in Threads,
             IsrSendDirect(u) \/ IsrSendQueued(u) \/ IsrReply(u, v)
      PROVE  MInv'
  BY <1>5, IsrSendMInv, ReplyMInv
<1>6. CASE UNCHANGED vars
  BY <1>6, SystemMInv DEF vars
<1>7. MsgIsr => \E u \in Owners, v \in Threads :
                   IsrSendDirect(u) \/ IsrSendQueued(u) \/ IsrReply(u, v)
  BY SchedAssumption DEF MsgIsr
<1> QED BY <1>1, <1>2, <1>3, <1>4, <1>5, <1>6, <1>7 DEF MsgNext

(* Every reachable state satisfies the invariant. *)
THEOREM MsgInvariance == MsgSpec => []MInv
<1>1. MsgInit => MInv
  BY InitMInv
<1>2. MInv /\ [MsgNext]_vars => MInv'
  BY NextMInv
<1> QED BY <1>1, <1>2, PTL DEF MsgSpec

(* The variables of the messages keep their types, and no queue holds more *)
(* than msg_array has room for: MsgTypeOK. *)
THEOREM MsgTypeCorrect == MsgSpec => []MsgTypeOK
<1>1. MInv => MsgTypeOK
  BY DEF MInv
<1> QED BY <1>1, MsgInvariance, PTL

(* A thread is linked in msg_waiters exactly while its message is not      *)
(* taken, in one list, and blocked: SendersAreBlocked. *)
THEOREM WaitForRoom == MsgSpec => []SendersAreBlocked
<1>1. MInv => SendersAreBlocked
  <2> SUFFICES ASSUME MInv PROVE SendersAreBlocked
    OBVIOUS
  <2>1. \A u \in Owners : IsInjective(sendq[u])
    BY DEF MInv, QueueRight
  <2>2. ASSUME NEW u \in Owners, NEW t \in ToSet(sendq[u])
        PROVE  t \in Threads /\ At("waiting", t, u) /\ t \in Senders
    BY MsgTypes, MsgFacts DEF At, ToSet
  <2>3. ASSUME NEW u \in Owners, NEW v \in Owners, u # v
        PROVE  ToSet(sendq[u]) \cap ToSet(sendq[v]) = {}
    <3>1. ASSUME NEW t \in ToSet(sendq[u]), t \in ToSet(sendq[v]) PROVE FALSE
      <4>1. At("waiting", t, u) /\ At("waiting", t, v) /\ t \in Senders
        BY <2>2, <3>1
      <4> QED BY <2>3, <4>1, OnlyPlace DEF Places
    <3> QED BY <3>1
  <2>4. ASSUME NEW u \in Owners, NEW t \in ToSet(sendq[u])
        PROVE  \/ sched.status[t] = "SEND_BLOCKED" /\ call[t] = "send"
               \/ sched.status[t] = "REPLY_BLOCKED" /\ call[t] = "ask"
    <3>1. At("waiting", t, u) /\ t \in Senders
      BY <2>2
    <3>2. Fits("waiting", sched.status[t], call[t])
      BY <3>1, OnlyPlace DEF Places
    <3> QED BY <3>2 DEF Fits
  <2>5. ASSUME NEW t \in Threads, sched.status[t] = "SEND_BLOCKED"
        PROVE  \E u \in Owners : t \in ToSet(sendq[u])
    <3>1. CallRight(t) /\ call[t] \in Calls
      BY MsgTypes DEF MInv
    <3> QED BY <2>5, <3>1 DEF CallRight, MsgBlocked, OnRunqueue, Calls
  <2>6. ASSUME NEW u \in Owners, IsReceiving(u)
        PROVE  queue[u] = <<>> /\ sendq[u] = <<>>
    <3>1. CallRight(u) /\ call[u] \in Calls
      BY MsgTypes, MsgFacts DEF MInv
    <3> QED BY <2>6, <3>1 DEF IsReceiving, CallRight, MsgBlocked, OnRunqueue, Calls
  <2> QED BY <2>1, <2>3, <2>4, <2>5, <2>6 DEF SendersAreBlocked
<1> QED BY <1>1, MsgInvariance, PTL

(* A blocking call continues only when what it waited for has happened:    *)
(* CallsReturnDone. *)
THEOREM CallsWait == MsgSpec => []CallsReturnDone
<1>1. MInv => CallsReturnDone
  <2> SUFFICES ASSUME MInv, NEW t \in Threads, Executing(t), pc[t] = "user"
               PROVE  /\ call[t] = "send" => box[t] = NoMsg
                      /\ call[t] = "receive" => box[t] # NoMsg
                      /\ call[t] = "ask" => box[t].kind = "reply"
    BY DEF CallsReturnDone
  <2>1. pc[t] # "yield"
    OBVIOUS
  <2>2. sched.status[t] \in OnRunqueue /\ CallRight(t)
    BY <2>1, ExecutingExists DEF MInv
  <2> QED BY <2>2 DEF CallRight, OnRunqueue
<1> QED BY <1>1, MsgInvariance, PTL

(* A server can answer each request it has received: the client is still   *)
(* blocked for the reply, and waits in no queue: ClientsAwaitReply. *)
THEOREM RequestsAreAnswerable == MsgSpec => []ClientsAwaitReply
<1>1. MInv => ClientsAwaitReply
  <2> SUFFICES ASSUME MInv, NEW u \in Owners, NEW t \in Threads, t \in owed[u]
               PROVE  /\ sched.status[t] = "REPLY_BLOCKED"
                      /\ call[t] \in {"ask", "recheck"}
                      /\ \A v \in Owners : t \notin ToSet(sendq[v])
                      /\ \A v \in Owners \ {u} : t \notin owed[v]
    BY DEF ClientsAwaitReply
  <2>1. At("owed", t, u) /\ t \in Senders
    BY MsgFacts DEF At
  <2>2. /\ Fits("owed", sched.status[t], call[t])
        /\ \A k \in Places, v \in Owners : At(k, t, v) => k = "owed" /\ v = u
    BY <2>1, OnlyPlace DEF Places
  <2>3. \A v \in Owners : ~At("waiting", t, v) /\ (v # u => ~At("owed", t, v))
    BY <2>2 DEF Places
  <2> QED BY <2>2, <2>3 DEF Fits, At
<1> QED BY <1>1, MsgInvariance, PTL

-----------------------------------------------------------------------------
(* Delivery.  The messages from t to u that u has not got are on their way *)
(* in the order they were sent, and u has got none that was not sent.      *)

InOrder(t, u) ==
    /\ got[u][t] <= sent[t][u]
    /\ \A n \in 0 .. MaxSends :
         n \in got[u][t] + 1 .. sent[t][u] <=> \E p \in Positions : OnItsWay(t, u, p, n)
    /\ \A p, q \in Positions, m, n \in 0 .. MaxSends :
         OnItsWay(t, u, p, m) /\ OnItsWay(t, u, q, n) => (p < q <=> m < n)

DInv == MInv /\ \A u \in Owners, t \in Senders : InOrder(t, u)

Handed(u) == call[u] = "receive" /\ box[u] # NoMsg

(* The Msg of w neither comes to hold a received message nor ceases to,    *)
(* and stays what it is while it counts. *)
Aside(w) ==
    /\ Handed(w)' <=> Handed(w)
    /\ Handed(w) => box'[w] = box[w]
    /\ \A u \in Owners : w \in ToSet(sendq[u]) => box'[w] = box[w]

LEMMA OrderTypes ==
    ASSUME DInv, NEW t \in Senders, NEW u \in Owners
    PROVE  /\ MInv /\ InOrder(t, u)
           /\ got[u][t] \in 0 .. MaxSends /\ sent[t][u] \in 0 .. MaxSends
           /\ got[u][t] \in Int /\ sent[t][u] \in Int
           /\ queue[u] \in Seq(Messages) /\ Len(queue[u]) \in Nat
           /\ Len(queue[u]) <= QueueSize /\ DOMAIN queue[u] = 1 .. Len(queue[u])
           /\ QueueSize \in Nat /\ MaxSends \in Nat /\ u \in Threads
           /\ t \in ToSet(sendq[u]) => t \in Threads
<1>1. MInv
  BY DEF DInv
<1>2. /\ got[u][t] \in 0 .. MaxSends /\ sent[t][u] \in 0 .. MaxSends
      /\ queue[u] \in Seq(Messages) /\ Len(queue[u]) <= QueueSize
      /\ sendq[u] \in Seq(Threads)
  BY <1>1, MsgTypes
<1>3. QueueSize \in Nat /\ MaxSends \in Nat /\ u \in Threads
  BY MsgFacts
<1>4. t \in ToSet(sendq[u]) => t \in Threads
  BY <1>2 DEF ToSet
<1> QED BY <1>1, <1>2, <1>3, <1>4 DEF DInv

(* A step that does not touch what is on its way from t to u. *)
LEMMA OrderSame ==
    ASSUME DInv, NEW t \in Senders, NEW u \in Owners,
           \A p \in Positions, n \in 0 .. MaxSends :
               OnItsWay(t, u, p, n)' <=> OnItsWay(t, u, p, n),
           got'[u][t] = got[u][t], sent'[t][u] = sent[t][u]
    PROVE  InOrder(t, u)'
BY OrderTypes DEF InOrder

LEMMA OrderStays ==
    ASSUME DInv, NEW t \in Senders, NEW u \in Owners,
           Handed(u)' <=> Handed(u), Handed(u) => box'[u] = box[u],
           queue'[u] = queue[u],
           t \in ToSet(sendq'[u]) <=> t \in ToSet(sendq[u]),
           t \in ToSet(sendq[u]) => box'[t] = box[t],
           got'[u][t] = got[u][t], sent'[t][u] = sent[t][u]
    PROVE  InOrder(t, u)'
<1>1. \A p \in Positions, n \in 0 .. MaxSends :
         OnItsWay(t, u, p, n)' <=> OnItsWay(t, u, p, n)
  BY DEF OnItsWay, Handed
<1> QED BY <1>1, OrderSame

(* A message that is accepted goes behind those that are on their way. *)
LEMMA OrderAccepts ==
    ASSUME DInv, NEW t \in Senders, NEW u \in Owners, NEW place \in Positions,
           sent'[t][u] = sent[t][u] + 1, sent[t][u] + 1 \in 0 .. MaxSends,
           got'[u][t] = got[u][t],
           \A p \in Positions, n \in 0 .. MaxSends :
               OnItsWay(t, u, p, n)' <=>
                   OnItsWay(t, u, p, n) \/ (p = place /\ n = sent[t][u] + 1),
           \A p \in Positions, n \in 0 .. MaxSends : OnItsWay(t, u, p, n) => p < place
    PROVE  InOrder(t, u)'
<1> DEFINE On(p, n) == OnItsWay(t, u, p, n)
           g == got[u][t]
           s == sent[t][u]
<1>1. /\ g \in Int /\ s \in Int /\ g <= s /\ MaxSends \in Nat /\ QueueSize \in Nat
      /\ \A n \in 0 .. MaxSends : n \in g + 1 .. s <=> \E p \in Positions : On(p, n)
      /\ \A p, q \in Positions, m, n \in 0 .. MaxSends :
           On(p, m) /\ On(q, n) => (p < q <=> m < n)
  BY OrderTypes DEF InOrder
<1>2. /\ s + 1 \in 0 .. MaxSends
      /\ \A p \in Positions, n \in 0 .. MaxSends : On(p, n) => p < place /\ n < s + 1
  <2>1. \A p \in Positions, n \in 0 .. MaxSends : On(p, n) => n \in g + 1 .. s
    BY <1>1
  <2> QED BY <1>1, <2>1
<1>3. \A p \in Positions, n \in 0 .. MaxSends :
         On(p, n)' <=> On(p, n) \/ (p = place /\ n = s + 1)
  OBVIOUS
<1>4. got'[u][t] = g /\ sent'[t][u] = s + 1
  OBVIOUS
<1> HIDE DEF g, s, On
<1>5. \A n \in 0 .. MaxSends :
         n \in g + 1 .. s + 1 <=> \E p \in Positions : On(p, n)'
  BY <1>1, <1>2, <1>3
<1>6. \A p, q \in Positions, m, n \in 0 .. MaxSends :
         On(p, m)' /\ On(q, n)' => (p < q <=> m < n)
  BY <1>1, <1>2, <1>3 DEF Positions
<1> QED BY <1>1, <1>4, <1>5, <1>6 DEF InOrder, On

(* The message that is taken is the first of those on their way. *)
LEMMA OrderTakes ==
    ASSUME DInv, NEW t \in Senders, NEW u \in Owners,
           NEW place \in Positions, NEW number \in 0 .. MaxSends,
           OnItsWay(t, u, place, number),
           \A p \in Positions, n \in 0 .. MaxSends : OnItsWay(t, u, p, n) => place <= p,
           got'[u][t] = number, sent'[t][u] = sent[t][u],
           \A n \in 0 .. MaxSends :
               (\E p \in Positions : OnItsWay(t, u, p, n)') <=>
                   n # number /\ (\E p \in Positions : OnItsWay(t, u, p, n)),
           \A p, q \in Positions, m, n \in 0 .. MaxSends :
               OnItsWay(t, u, p, m)' /\ OnItsWay(t, u, q, n)' => (p < q <=> m < n)
    PROVE  InOrder(t, u)'
<1> DEFINE On(p, n) == OnItsWay(t, u, p, n)
           g == got[u][t]
           s == sent[t][u]
<1>1. /\ g \in 0 .. MaxSends /\ s \in 0 .. MaxSends /\ g <= s
      /\ MaxSends \in Nat /\ QueueSize \in Nat
      /\ \A n \in 0 .. MaxSends : n \in g + 1 .. s <=> \E p \in Positions : On(p, n)
      /\ \A p, q \in Positions, m, n \in 0 .. MaxSends :
           On(p, m) /\ On(q, n) => (p < q <=> m < n)
  BY OrderTypes DEF InOrder
<1>2. /\ On(place, number)
      /\ \A p \in Positions, n \in 0 .. MaxSends : On(p, n) => place <= p
      /\ \A n \in 0 .. MaxSends :
           (\E p \in Positions : On(p, n)') <=>
               n # number /\ (\E p \in Positions : On(p, n))
  OBVIOUS
<1> HIDE DEF g, s, On
<1>3. number \in g + 1 .. s
  BY <1>1, <1>2
<1>4. number = g + 1
  <2> SUFFICES ASSUME number # g + 1 PROVE FALSE
    OBVIOUS
  <2>1. g + 1 \in 0 .. MaxSends /\ g + 1 \in g + 1 .. s /\ g + 1 < number
    BY <1>1, <1>3
  <2>2. PICK p \in Positions : On(p, g + 1)
    BY <1>1, <2>1
  <2>3. p < place
    BY <1>1, <1>2, <2>1, <2>2
  <2>4. place <= p
    BY <1>2, <2>1, <2>2
  <2> QED BY <1>1, <2>3, <2>4 DEF Positions
<1>5. \A n \in 0 .. MaxSends :
         n \in number + 1 .. s <=> n # number /\ n \in g + 1 .. s
  BY <1>1, <1>4
<1>6. \A n \in 0 .. MaxSends :
         n \in number + 1 .. s <=> \E p \in Positions : On(p, n)'
  BY <1>1, <1>2, <1>5
<1>7. number <= s
  BY <1>1, <1>3
<1> QED BY <1>6, <1>7 DEF InOrder, On, s

(* A message that is handed to the receiver that waits. *)
LEMMA HandedOrder ==
    ASSUME DInv, NEW s \in Senders, NEW u \in Owners, IsReceiving(u), Accepted(s, u),
           NEW kind \in Kinds, box'[u] = Message(s, kind, u),
           UNCHANGED <<queue, sendq, got>>, call'[u] = call[u],
           \A w \in Threads \ {u} : Aside(w)
    PROVE  \A o \in Owners, t \in Senders : InOrder(t, o)'
<1> DEFINE m == Message(s, kind, u)
<1>1. /\ m \in Messages /\ m.from = s /\ m.n = sent[s][u] + 1 /\ m # NoMsg
      /\ sent'[s][u] = sent[s][u] + 1 /\ sent[s][u] + 1 \in 0 .. MaxSends
      /\ \A t \in Senders, o \in Owners : t # s \/ o # u => sent'[t][o] = sent[t][o]
  BY MessageFacts DEF DInv
<1>2. box'[u] = m
  OBVIOUS
<1> HIDE DEF m
<1>3. /\ u \in Threads /\ call[u] = "receive" /\ box[u] = NoMsg
      /\ queue[u] = <<>> /\ sendq[u] = <<>>
      /\ \A o \in Owners : u \notin ToSet(sendq[o])
  <2>1. u \in Threads /\ sched.status[u] = "RECEIVE_BLOCKED" /\ CallRight(u) /\ MInv
    BY MsgFacts DEF IsReceiving, DInv, MInv
  <2>2. \A k \in Places, o \in Owners : ~At(k, u, o)
    BY <2>1, MsgFacts, Unplaced
  <2>3. \A o \in Owners : ~At("waiting", u, o)
    BY <2>2 DEF Places
  <2> QED BY <2>1, <2>3, MsgTypes DEF CallRight, MsgBlocked, OnRunqueue, Calls, At
<1>4. ASSUME NEW o \in Owners, NEW t \in Senders, o # u PROVE InOrder(t, o)'
  <2>1. Aside(o)
    BY <1>4, MsgFacts
  <2>2. t \in ToSet(sendq[o]) => box'[t] = box[t]
    BY <1>3, OrderTypes DEF Aside
  <2>3. sent'[t][o] = sent[t][o]
    BY <1>1, <1>4
  <2> QED BY <2>1, <2>2, <2>3, OrderStays DEF Aside
<1>5. \A t \in Senders, p \in Positions, n \in 0 .. MaxSends : ~OnItsWay(t, u, p, n)
  BY <1>3 DEF OnItsWay, ToSet
<1>6. \A t \in Senders, p \in Positions, n \in 0 .. MaxSends :
         OnItsWay(t, u, p, n)' <=> p = 0 /\ t = s /\ n = sent[s][u] + 1
  BY <1>1, <1>2, <1>3 DEF OnItsWay, ToSet
<1>7. ASSUME NEW t \in Senders PROVE InOrder(t, u)'
  <2>1. CASE t = s
    <3>1. 0 \in Positions
      BY MsgFacts DEF Positions
    <3> QED BY <1>1, <1>5, <1>6, <2>1, <3>1, OrderAccepts
  <2>2. CASE t # s
    BY <1>1, <1>5, <1>6, <2>2, OrderSame
  <2> QED BY <2>1, <2>2
<1> QED BY <1>4, <1>7

(* A message that is left in a queue with room. *)
LEMMA QueuedOrder ==
    ASSUME DInv, NEW s \in Senders, NEW u \in Owners, Accepted(s, u),
           s \notin ToSet(sendq[u]),
           NEW kind \in Kinds, Queued(u, Message(s, kind, u)),
           UNCHANGED <<sendq, got>>, \A w \in Threads : Aside(w)
    PROVE  \A o \in Owners, t \in Senders : InOrder(t, o)'
<1> DEFINE m == Message(s, kind, u)
           q == queue[u]
<1>1. /\ m \in Messages /\ m.from = s /\ m.n = sent[s][u] + 1
      /\ sent'[s][u] = sent[s][u] + 1 /\ sent[s][u] + 1 \in 0 .. MaxSends
      /\ \A t \in Senders, o \in Owners : t # s \/ o # u => sent'[t][o] = sent[t][o]
  BY MessageFacts DEF DInv
<1>2. /\ q \in Seq(Messages) /\ Len(q) \in Nat /\ Len(q) < QueueSize
      /\ queue' = [queue EXCEPT ![u] = Append(q, m)]
      /\ queue \in [Owners -> Seq(Messages)] /\ QueueSize \in Nat
      /\ DOMAIN q = 1 .. Len(q)
  BY OrderTypes, MsgTypes, MsgFacts DEF DInv, Queued, HasRoom
<1> HIDE DEF m
<1>3. /\ DOMAIN Append(q, m) = 1 .. Len(q) + 1 /\ Append(q, m)[Len(q) + 1] = m
      /\ \A i \in 1 .. Len(q) : Append(q, m)[i] = q[i]
  BY <1>1, <1>2, AppendProperties
<1>4. queue'[u] = Append(q, m) /\ \A o \in Owners \ {u} : queue'[o] = queue[o]
  BY <1>2
<1>5. ASSUME NEW o \in Owners, NEW t \in Senders
      PROVE  /\ Aside(o) /\ (t \in ToSet(sendq[o]) => box'[t] = box[t])
             /\ (t # s \/ o # u) => sent'[t][o] = sent[t][o]
  BY <1>1, MsgFacts, OrderTypes DEF Aside
<1>6. ASSUME NEW o \in Owners, NEW t \in Senders, o # u PROVE InOrder(t, o)'
  <2>1. queue'[o] = queue[o] /\ Aside(o) /\ sent'[t][o] = sent[t][o]
    BY <1>4, <1>5, <1>6
  <2> QED BY <1>5, <2>1, OrderStays DEF Aside
<1>7. ASSUME NEW t \in Senders, NEW p \in Positions, NEW n \in 0 .. MaxSends
      PROVE  OnItsWay(t, u, p, n)' <=>
                OnItsWay(t, u, p, n) \/ (p = Len(q) + 1 /\ t = s /\ n = sent[s][u] + 1)
  <2>1. p \in Int /\ Aside(u) /\ (t \in ToSet(sendq[u]) => box'[t] = box[t])
    BY <1>2, <1>5 DEF Positions
  <2>2. p \in DOMAIN queue'[u] /\ queue'[u][p].from = t /\ queue'[u][p].n = n
          <=> \/ p \in DOMAIN q /\ q[p].from = t /\ q[p].n = n
              \/ p = Len(q) + 1 /\ t = s /\ n = sent[s][u] + 1
    <3>1. CASE p \in 1 .. Len(q)
      BY <1>2, <1>3, <1>4, <3>1
    <3>2. CASE p = Len(q) + 1
      BY <1>1, <1>2, <1>3, <1>4, <3>2
    <3>3. CASE p \notin 1 .. Len(q) + 1
      BY <1>2, <1>3, <1>4, <2>1, <3>3
    <3> QED BY <1>2, <2>1, <3>1, <3>2, <3>3
  <2> QED BY <2>1, <2>2 DEF OnItsWay, Aside, Handed
<1>8. ASSUME NEW t \in Senders PROVE InOrder(t, u)'
  <2>1. CASE t = s
    <3>1. /\ Len(q) + 1 \in Positions
          /\ \A p \in Positions, n \in 0 .. MaxSends :
                OnItsWay(s, u, p, n) => p < Len(q) + 1
      <4> HIDE DEF q
      <4>1. Len(q) + 1 \in Positions
        BY <1>2 DEF Positions
      <4>2. ASSUME NEW p \in Positions, NEW n \in 0 .. MaxSends, OnItsWay(s, u, p, n)
            PROVE  p = 0 \/ p \in 1 .. Len(q)
        BY <1>2, <4>2 DEF OnItsWay, q
      <4> QED BY <1>2, <4>1, <4>2 DEF Positions
    <3>2. \A p \in Positions, n \in 0 .. MaxSends :
             OnItsWay(s, u, p, n)' <=>
                 OnItsWay(s, u, p, n) \/ (p = Len(q) + 1 /\ n = sent[s][u] + 1)
      BY <1>7
    <3> HIDE DEF q
    <3> QED BY <1>1, <2>1, <3>1, <3>2, OrderAccepts
  <2>2. CASE t # s
    <3>1. \A p \in Positions, n \in 0 .. MaxSends :
             OnItsWay(t, u, p, n)' <=> OnItsWay(t, u, p, n)
      BY <1>7, <2>2
    <3> QED BY <1>5, <2>2, <3>1, OrderSame
  <2> QED BY <2>1, <2>2
<1> QED BY <1>6, <1>8

(* A message that waits with its sender. *)
LEMMA WaitingOrder ==
    ASSUME DInv, NEW s \in Threads, NEW u \in Owners, Accepted(s, u),
           \A o \in Owners : s \notin ToSet(sendq[o]),
           NEW kind \in Kinds, box' = [box EXCEPT ![s] = Message(s, kind, u)],
           sendq' = [sendq EXCEPT ![u] = AddToList(@, s)],
           UNCHANGED <<queue, got>>, \A w \in Threads : Aside(w)
    PROVE  \A o \in Owners, t \in Senders : InOrder(t, o)'
<1> DEFINE m == Message(s, kind, u)
           q == sendq[u]
<1>1. /\ m.from = s /\ m.n = sent[s][u] + 1 /\ s \in Senders
      /\ sent'[s][u] = sent[s][u] + 1 /\ sent[s][u] + 1 \in 0 .. MaxSends
      /\ \A t \in Senders, o \in Owners : t # s \/ o # u => sent'[t][o] = sent[t][o]
  BY MessageFacts, MsgFacts DEF DInv
<1>2. box'[s] = m
  BY MsgTypes DEF DInv
<1> HIDE DEF m
<1>3. ToSet(AddToList(q, s)) = ToSet(q) \cup {s}
  <2>1. q \in Seq(Threads) /\ IsInjective(q) /\ ByUrgency(q) /\ s \notin ToSet(q)
    BY MsgTypes DEF DInv, MInv, QueueRight
  <2> QED BY <2>1, AddToListSorted
<1>4. /\ ToSet(sendq'[u]) = ToSet(sendq[u]) \cup {s}
      /\ \A o \in Owners \ {u} : sendq'[o] = sendq[o]
  BY <1>3, MsgTypes DEF DInv
<1> HIDE DEF q
<1>5. ASSUME NEW o \in Owners, NEW t \in Senders
      PROVE  /\ Aside(o) /\ (t \in ToSet(sendq[o]) => box'[t] = box[t])
             /\ (t # s \/ o # u) => sent'[t][o] = sent[t][o]
  BY <1>1, MsgFacts, OrderTypes DEF Aside
<1>6. ASSUME NEW o \in Owners, NEW t \in Senders, o # u \/ t # s PROVE InOrder(t, o)'
  <2>1. (t \in ToSet(sendq'[o]) <=> t \in ToSet(sendq[o]))
    BY <1>4, <1>6
  <2> QED BY <1>5, <1>6, <2>1, OrderStays DEF Aside
<1>7. InOrder(s, u)'
  <2>1. /\ QueueSize + 1 \in Positions /\ QueueSize \in Nat
        /\ DOMAIN queue[u] = 1 .. Len(queue[u])
        /\ Len(queue[u]) \in Nat /\ Len(queue[u]) <= QueueSize
    BY <1>1, OrderTypes DEF Positions
  <2>2. ASSUME NEW p \in Positions, NEW n \in 0 .. MaxSends
        PROVE  OnItsWay(s, u, p, n)' <=>
                  OnItsWay(s, u, p, n) \/ (p = QueueSize + 1 /\ n = sent[s][u] + 1)
    <3>1. Aside(u) /\ s \in ToSet(sendq'[u]) /\ s \notin ToSet(sendq[u]) /\ box'[s].n = sent[s][u] + 1
      BY <1>1, <1>2, <1>4, <1>5
    <3> QED BY <3>1 DEF OnItsWay, Aside, Handed
  <2>3. ASSUME NEW p \in Positions, NEW n \in 0 .. MaxSends, OnItsWay(s, u, p, n)
        PROVE  p < QueueSize + 1
    BY <2>1, <2>3 DEF OnItsWay
  <2> QED BY <1>1, <2>1, <2>2, <2>3, OrderAccepts
<1> QED BY <1>6, <1>7

(* receive() from the queue: those behind the message move one place up. *)
LEMMA ReceiveQueuedOrder ==
    ASSUME DInv, NEW u \in Threads, ReceiveQueued(u)
    PROVE  \A o \in Owners, t \in Senders : InOrder(t, o)'
<1> DEFINE q == queue[u]
           m == Head(q)
<1>1. /\ InUser(u) /\ u \in Owners /\ q # <<>> /\ queue' = [queue EXCEPT ![u] = Tail(q)]
      /\ Received(u, m) /\ UNCHANGED <<sendq, box, call, sent>>
  BY DEF ReceiveQueued
<1>2. /\ q \in Seq(Messages) /\ Len(q) \in Nat \ {0} /\ Len(q) <= QueueSize
      /\ Tail(q) \in Seq(Messages) /\ DOMAIN Tail(q) = 1 .. Len(q) - 1
      /\ DOMAIN q = 1 .. Len(q) /\ QueueSize \in Nat /\ MaxSends \in Nat
      /\ \A i \in 1 .. Len(q) - 1 : Tail(q)[i] = q[i+1]
      /\ m = q[1] /\ m \in Messages
  <2>1. q \in Seq(Messages) /\ q # <<>> /\ RequestsOnce(q)
    BY <1>1, MsgTypes DEF DInv, MInv, QueueRight
  <2> QED BY <1>1, <2>1, TailRequests, OrderTypes, MsgFacts
<1> HIDE DEF m
<1>3. m.from \in Senders /\ m.n \in 0 .. MaxSends
  BY <1>2 DEF Messages
<1>4. /\ got'[u][m.from] = m.n
      /\ \A o \in Owners, t \in Senders : o # u \/ t # m.from => got'[o][t] = got[o][t]
  BY <1>1, <1>3, MsgTypes DEF Received, DInv
<1>5. queue'[u] = Tail(q) /\ \A o \in Owners \ {u} : queue'[o] = queue[o]
  <2> HIDE DEF q
  <2> QED BY <1>1, MsgTypes DEF DInv
<1>6. ~Handed(u) /\ ~Handed(u)'
  BY <1>1, InUserFacts DEF DInv, Handed
<1>7. ASSUME NEW o \in Owners, NEW t \in Senders, o # u PROVE InOrder(t, o)'
  BY <1>1, <1>4, <1>5, <1>7, OrderStays DEF Handed
<1>8. ASSUME NEW t \in Senders, NEW p \in Positions, NEW n \in 0 .. MaxSends
      PROVE  OnItsWay(t, u, p, n)' <=>
                \/ p \in 1 .. Len(q) - 1 /\ OnItsWay(t, u, p + 1, n)
                \/ p = QueueSize + 1 /\ OnItsWay(t, u, p, n)
  <2>1. p \in Int
    BY <1>2 DEF Positions
  <2>2. p \in DOMAIN queue'[u] /\ queue'[u][p].from = t /\ queue'[u][p].n = n
          <=> p \in 1 .. Len(q) - 1 /\ q[p+1].from = t /\ q[p+1].n = n
    BY <1>2, <1>5
  <2>3. OnItsWay(t, u, p, n)' <=>
           \/ p \in 1 .. Len(q) - 1 /\ q[p+1].from = t /\ q[p+1].n = n
           \/ p = QueueSize + 1 /\ t \in ToSet(sendq[u]) /\ box[t].n = n
    BY <1>1, <1>6, <2>2 DEF OnItsWay, Handed
  <2>4. ASSUME p \in 1 .. Len(q) - 1
        PROVE  OnItsWay(t, u, p + 1, n) <=> q[p+1].from = t /\ q[p+1].n = n
    <3>1. p + 1 \in 1 .. Len(q) /\ p + 1 # 0 /\ p + 1 # QueueSize + 1
      BY <1>2, <2>4
    <3> HIDE DEF q
    <3>2. p + 1 \in DOMAIN q
      BY <1>2, <3>1
    <3> QED BY <3>1, <3>2 DEF OnItsWay, q
  <2>5. p = QueueSize + 1 =>
           (OnItsWay(t, u, p, n) <=> t \in ToSet(sendq[u]) /\ box[t].n = n)
    BY <1>2 DEF OnItsWay
  <2> HIDE DEF q
  <2> QED BY <2>3, <2>4, <2>5
<1>9. ASSUME NEW t \in Senders, NEW p \in Positions, NEW n \in 0 .. MaxSends,
             OnItsWay(t, u, p, n)
      PROVE  /\ p \in 1 .. Len(q) \/ p = QueueSize + 1
             /\ p = 1 => t = m.from /\ n = m.n
  BY <1>2, <1>6, <1>9 DEF OnItsWay, Handed
<1>10. /\ OnItsWay(m.from, u, 1, m.n) /\ 1 \in Positions
  BY <1>2 DEF OnItsWay, Positions
<1> HIDE DEF q
<1>11. ASSUME NEW t \in Senders PROVE InOrder(t, u)'
  <2>1. \A p, p2 \in Positions, n, n2 \in 0 .. MaxSends :
           OnItsWay(t, u, p, n) /\ OnItsWay(t, u, p2, n2) => (p < p2 <=> n < n2)
    BY <1>1, OrderTypes DEF InOrder
  <2>2. \A p \in 1 .. Len(q) - 1 : p + 1 \in Positions
    BY <1>2 DEF Positions
  <2>3. \A p, p2 \in Positions, n, n2 \in 0 .. MaxSends :
           OnItsWay(t, u, p, n)' /\ OnItsWay(t, u, p2, n2)' => (p < p2 <=> n < n2)
    <3> SUFFICES ASSUME NEW p \in Positions, NEW p2 \in Positions,
                        NEW n \in 0 .. MaxSends, NEW n2 \in 0 .. MaxSends,
                        OnItsWay(t, u, p, n)', OnItsWay(t, u, p2, n2)'
                 PROVE  p < p2 <=> n < n2
      OBVIOUS
    <3>1. \/ p \in 1 .. Len(q) - 1 /\ OnItsWay(t, u, p + 1, n)
          \/ p = QueueSize + 1 /\ OnItsWay(t, u, p, n)
      BY <1>8
    <3>2. \/ p2 \in 1 .. Len(q) - 1 /\ OnItsWay(t, u, p2 + 1, n2)
          \/ p2 = QueueSize + 1 /\ OnItsWay(t, u, p2, n2)
      BY <1>8
    <3>3. CASE p \in 1 .. Len(q) - 1 /\ OnItsWay(t, u, p + 1, n)
      <4>1. CASE p2 \in 1 .. Len(q) - 1 /\ OnItsWay(t, u, p2 + 1, n2)
        <5>1. p + 1 < p2 + 1 <=> n < n2
          BY <2>1, <2>2, <3>3, <4>1
        <5> QED BY <1>2, <3>3, <4>1, <5>1
      <4>2. CASE p2 = QueueSize + 1 /\ OnItsWay(t, u, p2, n2)
        <5>1. p + 1 < p2 <=> n < n2
          BY <2>1, <2>2, <3>3, <4>2
        <5> QED BY <1>2, <3>3, <4>2, <5>1
      <4> QED BY <3>2, <4>1, <4>2
    <3>4. CASE p = QueueSize + 1 /\ OnItsWay(t, u, p, n)
      <4>1. CASE p2 \in 1 .. Len(q) - 1 /\ OnItsWay(t, u, p2 + 1, n2)
        <5>1. p < p2 + 1 <=> n < n2
          BY <2>1, <2>2, <3>4, <4>1
        <5> QED BY <1>2, <3>4, <4>1, <5>1
      <4>2. CASE p2 = QueueSize + 1 /\ OnItsWay(t, u, p2, n2)
        BY <2>1, <3>4, <4>2
      <4> QED BY <3>2, <4>1, <4>2
    <3> QED BY <3>1, <3>3, <3>4
  <2>4. ASSUME NEW n \in 0 .. MaxSends
        PROVE  (\E p \in Positions : OnItsWay(t, u, p, n)') <=>
                   \E p \in Positions : p # 1 /\ OnItsWay(t, u, p, n)
    <3>1. ASSUME NEW p \in Positions, OnItsWay(t, u, p, n)'
          PROVE  \E r \in Positions : r # 1 /\ OnItsWay(t, u, r, n)
      <4>1. CASE p \in 1 .. Len(q) - 1 /\ OnItsWay(t, u, p + 1, n)
        <5>1. p + 1 # 1
          BY <1>2, <4>1
        <5> QED BY <2>2, <4>1, <5>1
      <4>2. CASE p = QueueSize + 1 /\ OnItsWay(t, u, p, n)
        BY <1>2, <4>2
      <4> QED BY <1>8, <3>1, <4>1, <4>2
    <3>2. ASSUME NEW p \in Positions, p # 1, OnItsWay(t, u, p, n)
          PROVE  \E r \in Positions : OnItsWay(t, u, r, n)'
      <4>1. CASE p \in 1 .. Len(q)
        <5>1. /\ p - 1 \in Positions /\ p - 1 \in 1 .. Len(q) - 1 /\ (p - 1) + 1 = p
          BY <1>2, <3>2, <4>1 DEF Positions
        <5>2. OnItsWay(t, u, p - 1, n)'
          BY <1>8, <3>2, <5>1
        <5> QED BY <5>1, <5>2
      <4>2. CASE p = QueueSize + 1
        BY <1>8, <3>2, <4>2
      <4> QED BY <1>9, <3>2, <4>1, <4>2
    <3> QED BY <3>1, <3>2
  <2>5. CASE t = m.from
    <3>1. \A p \in Positions, n \in 0 .. MaxSends :
             OnItsWay(t, u, p, n) => 1 <= p /\ (p # 1 <=> n # m.n)
      <4> SUFFICES ASSUME NEW p \in Positions, NEW n \in 0 .. MaxSends, OnItsWay(t, u, p, n)
                   PROVE  1 <= p /\ (p # 1 <=> n # m.n)
        OBVIOUS
      <4>1. 1 <= p
        BY <1>2, <1>9
      <4>2. 1 < p <=> m.n < n
        BY <1>3, <1>10, <2>1, <2>5
      <4>3. p = 1 => n = m.n
        BY <1>9
      <4> QED BY <1>2, <1>3, <4>1, <4>2, <4>3 DEF Positions
    <3>2. \A n \in 0 .. MaxSends :
             (\E p \in Positions : OnItsWay(t, u, p, n)') <=>
                 n # m.n /\ (\E p \in Positions : OnItsWay(t, u, p, n))
      BY <2>4, <3>1
    <3> QED BY <1>1, <1>3, <1>4, <1>10, <2>3, <2>5, <3>1, <3>2, OrderTakes
  <2>6. CASE t # m.from
    <3>1. \A n \in 0 .. MaxSends :
             (\E p \in Positions : OnItsWay(t, u, p, n)') <=>
                 \E p \in Positions : OnItsWay(t, u, p, n)
      BY <1>9, <2>4, <2>6
    <3>2. got'[u][t] = got[u][t] /\ sent'[t][u] = sent[t][u] /\ InOrder(t, u)
      BY <1>1, <1>4, <2>6, OrderTypes
    <3> QED BY <2>3, <3>1, <3>2 DEF InOrder
  <2> QED BY <2>5, <2>6
<1> QED BY <1>1, <1>7, <1>11

(* receive() from the first thread that waits: the queue is empty. *)
LEMMA ReceiveFromWaiterOrder ==
    ASSUME DInv, NEW u \in Threads, ReceiveFromWaiter(u)
    PROVE  \A o \in Owners, t \in Senders : InOrder(t, o)'
<1> DEFINE q == sendq[u]
<1>1. /\ InUser(u) /\ u \in Owners /\ queue[u] = <<>> /\ q # <<>> /\ MInv
      /\ sendq' = [sendq EXCEPT ![u] = Tail(q)] /\ UNCHANGED <<queue, call, sent>>
  BY DEF ReceiveFromWaiter, TakesFromWaiter, DInv
<1>2. PICK v \in Threads : v = Head(q)
  BY <1>1, WaiterFacts
<1> DEFINE m == box[v]
<1>3. /\ v \in ToSet(q) /\ ToSet(Tail(q)) = ToSet(q) \ {v}
      /\ \A k \in Places, o \in Owners : At(k, v, o) => k = "waiting" /\ o = u
      /\ m \in Messages /\ m.from = v /\ call[v] # "receive"
  BY <1>1, <1>2, WaiterFacts
<1>4. /\ Received(u, m)
      /\ box' = box \/ box' = [box EXCEPT ![v] = NoMsg]
  BY <1>2 DEF ReceiveFromWaiter
<1> HIDE DEF m
<1>5. /\ m.from = v /\ m.n \in 0 .. MaxSends /\ v \in Senders /\ m # NoMsg
  BY <1>3, MsgFacts DEF Messages
<1>6. /\ got'[u][v] = m.n
      /\ \A o \in Owners, t \in Senders : o # u \/ t # v => got'[o][t] = got[o][t]
  BY <1>1, <1>4, <1>5, MsgTypes DEF Received
<1>7. /\ ToSet(sendq'[u]) = ToSet(sendq[u]) \ {v}
      /\ \A o \in Owners \ {u} : sendq'[o] = sendq[o] /\ v \notin ToSet(sendq[o])
  <2>1. \A o \in Owners \ {u} : ~At("waiting", v, o)
    BY <1>3 DEF Places
  <2>2. sendq'[u] = Tail(q) /\ \A o \in Owners \ {u} : sendq'[o] = sendq[o]
    <3> HIDE DEF q
    <3> QED BY <1>1, MsgTypes
  <2> QED BY <1>3, <2>1, <2>2 DEF At
<1> HIDE DEF q
<1>8. \A w \in Threads \ {v} : box'[w] = box[w]
  BY <1>4, MsgTypes, <1>1
<1>9. ASSUME NEW o \in Owners
      PROVE  (Handed(o)' <=> Handed(o)) /\ (Handed(o) => box'[o] = box[o])
  BY <1>1, <1>3, <1>8, MsgFacts DEF Handed
<1>10. ASSUME NEW o \in Owners, NEW t \in Senders, o # u \/ t # v PROVE InOrder(t, o)'
  <2>1. (t \in ToSet(sendq'[o]) <=> t \in ToSet(sendq[o]))
    BY <1>7, <1>10
  <2>2. t \in ToSet(sendq[o]) => box'[t] = box[t]
    BY <1>7, <1>8, <1>10, OrderTypes
  <2> QED BY <1>1, <1>6, <1>9, <1>10, <2>1, <2>2, OrderStays
<1>11. InOrder(v, u)'
  <2>1. ~Handed(u) /\ ~Handed(u)'
    BY <1>1, <1>9, InUserFacts DEF Handed
  <2>2. \A p \in Positions, n \in 0 .. MaxSends :
           /\ OnItsWay(v, u, p, n) <=> p = QueueSize + 1 /\ n = m.n
           /\ ~OnItsWay(v, u, p, n)'
    BY <1>1, <1>3, <1>7, <2>1 DEF OnItsWay, Handed, m, q
  <2>3. QueueSize + 1 \in Positions /\ QueueSize \in Nat
    BY MsgFacts DEF Positions
  <2>4. /\ OnItsWay(v, u, QueueSize + 1, m.n)
        /\ \A p \in Positions, n \in 0 .. MaxSends : OnItsWay(v, u, p, n) => QueueSize + 1 <= p
        /\ \A n \in 0 .. MaxSends :
             (\E p \in Positions : OnItsWay(v, u, p, n)') <=>
                 n # m.n /\ (\E p \in Positions : OnItsWay(v, u, p, n))
        /\ \A p, p2 \in Positions, n, n2 \in 0 .. MaxSends :
             OnItsWay(v, u, p, n)' /\ OnItsWay(v, u, p2, n2)' => (p < p2 <=> n < n2)
    BY <1>5, <2>2, <2>3
  <2>5. got'[u][v] = m.n /\ sent'[v][u] = sent[v][u]
    BY <1>1, <1>6
  <2> QED BY <1>1, <1>5, <2>3, <2>4, <2>5, OrderTakes
<1> QED BY <1>10, <1>11

(* The return of a receive() that was handed its message. *)
LEMMA ReturnOrder ==
    ASSUME DInv, NEW u \in Threads, Return(u)
    PROVE  \A o \in Owners, t \in Senders : InOrder(t, o)'
<1> DEFINE m == box[u]
<1>1. /\ Executing(u) /\ pc[u] # "yield" /\ call[u] \in {"send", "receive", "ask"}
      /\ call' = [call EXCEPT ![u] = "none"] /\ box' = [box EXCEPT ![u] = NoMsg]
      /\ IF call[u] = "receive" THEN Received(u, m) ELSE UNCHANGED <<got, owed>>
      /\ UNCHANGED <<queue, sendq, sent>> /\ MInv
  BY DEF Return, DInv
<1>2. sched.status[u] \in OnRunqueue /\ CallRight(u) /\ u \in Senders
  BY <1>1, ExecutingExists, MsgFacts DEF MInv
<1>3. \A o \in Owners : u \notin ToSet(sendq[o])
  <2>1. \A k \in Places, o \in Owners : ~At(k, u, o)
    BY <1>1, <1>2, Unplaced DEF OnRunqueue
  <2>2. \A o \in Owners : ~At("waiting", u, o)
    BY <2>1 DEF Places
  <2> QED BY <2>2 DEF At
<1>4. /\ call'[u] = "none" /\ box'[u] = NoMsg
      /\ \A w \in Threads \ {u} : call'[w] = call[w] /\ box'[w] = box[w]
  BY <1>1, MsgTypes
<1>5. ASSUME NEW o \in Owners, NEW t \in Senders,
             got'[o][t] = got[o][t], o # u \/ ~Handed(u)
      PROVE  InOrder(t, o)'
  <2>1. (Handed(o)' <=> Handed(o)) /\ (Handed(o) => box'[o] = box[o])
    BY <1>4, <1>5, MsgFacts DEF Handed
  <2>2. t \in ToSet(sendq[o]) => box'[t] = box[t]
    BY <1>3, <1>4, OrderTypes
  <2> QED BY <1>1, <1>5, <2>1, <2>2, OrderStays
<1>6. CASE call[u] # "receive"
  BY <1>1, <1>5, <1>6 DEF Handed
<1>7. CASE call[u] = "receive"
  <2>1. m \in Messages /\ Handed(u) /\ u \in Owners
    <3>1. m \in Messages \cup {NoMsg}
      BY <1>1, MsgTypes
    <3> QED BY <1>2, <1>7, <3>1 DEF CallRight, OnRunqueue, Handed
  <2> HIDE DEF m
  <2>2. m.from \in Senders /\ m.n \in 0 .. MaxSends
    BY <2>1 DEF Messages
  <2>3. /\ got'[u][m.from] = m.n
        /\ \A o \in Owners, t \in Senders : o # u \/ t # m.from => got'[o][t] = got[o][t]
    BY <1>1, <1>7, <2>1, <2>2, MsgTypes DEF Received
  <2>4. ASSUME NEW o \in Owners, NEW t \in Senders, o # u PROVE InOrder(t, o)'
    BY <1>5, <2>3, <2>4
  <2>5. /\ 0 \in Positions /\ QueueSize \in Nat
        /\ DOMAIN queue[u] = 1 .. Len(queue[u])
        /\ Len(queue[u]) \in Nat /\ Len(queue[u]) <= QueueSize
    BY <2>1, <2>2, OrderTypes DEF Positions
  <2>6. ASSUME NEW t \in Senders, NEW p \in Positions, NEW n \in 0 .. MaxSends
        PROVE  /\ OnItsWay(t, u, p, n)' <=> p # 0 /\ OnItsWay(t, u, p, n)
               /\ OnItsWay(t, u, 0, n) <=> t = m.from /\ n = m.n
    <3>1. t \in ToSet(sendq[u]) => box'[t] = box[t]
      BY <1>3, <1>4, <2>1, OrderTypes
    <3>2. p # 0 => (OnItsWay(t, u, p, n)' <=> OnItsWay(t, u, p, n))
      BY <1>1, <3>1 DEF OnItsWay
    <3>3. ~OnItsWay(t, u, 0, n)'
      BY <1>1, <1>4, <2>5 DEF OnItsWay
    <3>4. OnItsWay(t, u, 0, n) <=> t = m.from /\ n = m.n
      BY <2>1, <2>5 DEF OnItsWay, Handed, m
    <3> QED BY <3>2, <3>3, <3>4
  <2>7. ASSUME NEW t \in Senders PROVE InOrder(t, u)'
    <3>1. \A p, p2 \in Positions, n, n2 \in 0 .. MaxSends :
             OnItsWay(t, u, p, n) /\ OnItsWay(t, u, p2, n2) => (p < p2 <=> n < n2)
      BY <2>1, OrderTypes DEF InOrder
    <3>2. CASE t = m.from
      <4>1. \A p \in Positions, n \in 0 .. MaxSends :
               OnItsWay(t, u, p, n) => 0 <= p /\ (p # 0 <=> n # m.n)
        <5> SUFFICES ASSUME NEW p \in Positions, NEW n \in 0 .. MaxSends, OnItsWay(t, u, p, n)
                     PROVE  0 <= p /\ (p # 0 <=> n # m.n)
          OBVIOUS
        <5>1. OnItsWay(t, u, 0, m.n)
          BY <2>2, <2>5, <2>6, <3>2
        <5>2. 0 < p <=> m.n < n
          BY <2>2, <2>5, <3>1, <5>1
        <5>3. p = 0 => n = m.n
          BY <2>6
        <5> QED BY <2>2, <2>5, <5>2, <5>3, MsgFacts DEF Positions
      <4>2. \A n \in 0 .. MaxSends :
               (\E p \in Positions : OnItsWay(t, u, p, n)') <=>
                   n # m.n /\ (\E p \in Positions : OnItsWay(t, u, p, n))
        BY <2>6, <4>1
      <4>3. \A p, p2 \in Positions, n, n2 \in 0 .. MaxSends :
               OnItsWay(t, u, p, n)' /\ OnItsWay(t, u, p2, n2)' => (p < p2 <=> n < n2)
        BY <2>6, <3>1
      <4>4. OnItsWay(t, u, 0, m.n)
        BY <2>2, <2>5, <2>6, <3>2
      <4>5. got'[u][t] = m.n /\ sent'[t][u] = sent[t][u]
        BY <1>1, <2>3, <3>2
      <4> QED BY <2>1, <2>2, <2>5, <4>1, <4>2, <4>3, <4>4, <4>5, OrderTakes
    <3>3. CASE t # m.from
      <4>1. \A p \in Positions, n \in 0 .. MaxSends :
               OnItsWay(t, u, p, n)' <=> OnItsWay(t, u, p, n)
        BY <2>6, <3>3
      <4>2. got'[u][t] = got[u][t] /\ sent'[t][u] = sent[t][u]
        BY <1>1, <2>1, <2>3, <3>3
      <4> QED BY <2>1, <4>1, <4>2, OrderSame
    <3> QED BY <3>2, <3>3
  <2> QED BY <2>4, <2>7
<1> QED BY <1>6, <1>7

(* The other steps take no message. *)
LEMMA QuietOrder ==
    ASSUME DInv, UNCHANGED <<queue, sendq, got, sent>>, \A w \in Threads : Aside(w)
    PROVE  \A u \in Owners, t \in Senders : InOrder(t, u)'
<1> SUFFICES ASSUME NEW u \in Owners, NEW t \in Senders PROVE InOrder(t, u)'
  OBVIOUS
<1>1. Aside(u) /\ (t \in ToSet(sendq[u]) => box'[t] = box[t])
  BY MsgFacts, OrderTypes DEF Aside
<1> QED BY <1>1, OrderStays DEF Aside

LEMMA AsideStays ==
    ASSUME NEW w \in Threads, box'[w] = box[w], call'[w] = call[w]
    PROVE  Aside(w)
BY DEF Aside, Handed

(* A thread that executes outside of a call waits with no message. *)
LEMMA InUserOutside ==
    ASSUME MInv, NEW t \in Threads, InUser(t)
    PROVE  /\ \A u \in Owners : t \notin ToSet(sendq[u])
           /\ call[t] = "none" /\ box[t] = NoMsg
<1>1. \A u \in Owners : ~At("waiting", t, u)
  BY InUserFacts DEF Places
<1> QED BY <1>1, InUserFacts DEF At

LEMMA SendOrder ==
    ASSUME DInv, NEW t \in Threads, NEW u \in Owners,
           \/ SendDirect(t, u) \/ SendQueued(t, u) \/ SendBlock(t, u)
           \/ AskDirect(t, u) \/ AskQueued(t, u) \/ AskBlock(t, u)
    PROVE  \A o \in Owners, s \in Senders : InOrder(s, o)'
<1>1. /\ InUser(t) /\ Accepted(t, u) /\ MInv /\ t \in Senders /\ u \in Threads
      /\ "note" \in Kinds /\ "request" \in Kinds
      /\ box \in [Threads -> Messages \cup {NoMsg}] /\ call \in [Threads -> Calls]
  BY MsgFacts, MsgTypes DEF SendDirect, SendQueued, SendBlock, AskDirect, AskQueued, AskBlock,
     Ask, DInv, Kinds
<1>2. /\ \A o \in Owners : t \notin ToSet(sendq[o])
      /\ call[t] = "none" /\ box[t] = NoMsg
  BY <1>1, InUserOutside
<1>3. ASSUME NEW w \in Threads, w # t => box'[w] = box[w] /\ call'[w] = call[w],
             call'[t] # "receive"
      PROVE  Aside(w)
  <2>1. CASE w = t
    BY <1>2, <1>3, <2>1 DEF Aside, Handed
  <2>2. CASE w # t
    BY <1>3, <2>2, AsideStays
  <2> QED BY <2>1, <2>2
<1>4. CASE SendDirect(t, u)
  <2>1. /\ IsReceiving(u) /\ box' = [box EXCEPT ![u] = Message(t, "note", u)]
        /\ UNCHANGED <<queue, sendq, call, got>>
    BY <1>4 DEF SendDirect
  <2>2. box'[u] = Message(t, "note", u)
    BY <1>1, <2>1
  <2>3. \A w \in Threads \ {u} : Aside(w)
    BY <1>1, <2>1, AsideStays
  <2> QED BY <1>1, <2>1, <2>2, <2>3, HandedOrder
<1>5. CASE SendQueued(t, u)
  <2>1. Queued(u, Message(t, "note", u)) /\ UNCHANGED <<sendq, box, call, got>>
    BY <1>5 DEF SendQueued
  <2>2. \A w \in Threads : Aside(w)
    BY <2>1, AsideStays
  <2> QED BY <1>1, <1>2, <2>1, <2>2, QueuedOrder
<1>6. CASE SendBlock(t, u)
  <2>1. /\ box' = [box EXCEPT ![t] = Message(t, "note", u)]
        /\ sendq' = [sendq EXCEPT ![u] = AddToList(@, t)]
        /\ call' = [call EXCEPT ![t] = "send"] /\ UNCHANGED <<queue, got>>
    BY <1>6 DEF SendBlock
  <2>2. \A w \in Threads : Aside(w)
    BY <1>1, <1>3, <2>1
  <2> QED BY <1>1, <1>2, <2>1, <2>2, WaitingOrder
<1>7. CASE AskDirect(t, u)
  <2> DEFINE m == Message(t, "request", u)
  <2>1. /\ IsReceiving(u) /\ t # u /\ box' = [box EXCEPT ![t] = m, ![u] = m]
        /\ call' = [call EXCEPT ![t] = "ask"] /\ UNCHANGED <<queue, sendq, got>>
    BY <1>7 DEF AskDirect
  <2> HIDE DEF m
  <2>2. /\ box'[u] = m /\ call'[u] = call[u] /\ call'[t] = "ask"
        /\ \A w \in Threads \ {t, u} : box'[w] = box[w] /\ call'[w] = call[w]
    BY <1>1, <2>1
  <2>3. \A w \in Threads \ {u} : Aside(w)
    BY <1>3, <2>2
  <2> QED BY <1>1, <2>1, <2>2, <2>3, HandedOrder DEF m
<1>8. CASE AskQueued(t, u)
  <2>1. /\ Queued(u, Message(t, "request", u))
        /\ box' = [box EXCEPT ![t] = Message(t, "request", u)]
        /\ call' = [call EXCEPT ![t] = "recheck"] /\ UNCHANGED <<sendq, got>>
    BY <1>8 DEF AskQueued, Ask
  <2>2. \A w \in Threads : Aside(w)
    BY <1>1, <1>3, <2>1
  <2> QED BY <1>1, <1>2, <2>1, <2>2, QueuedOrder
<1>9. CASE AskBlock(t, u)
  <2>1. /\ box' = [box EXCEPT ![t] = Message(t, "request", u)]
        /\ sendq' = [sendq EXCEPT ![u] = AddToList(@, t)]
        /\ call' = [call EXCEPT ![t] = "ask"] /\ UNCHANGED <<queue, got>>
    BY <1>9 DEF AskBlock, Ask
  <2>2. \A w \in Threads : Aside(w)
    BY <1>1, <1>3, <2>1
  <2> QED BY <1>1, <1>2, <2>1, <2>2, WaitingOrder
<1> QED BY <1>4, <1>5, <1>6, <1>7, <1>8, <1>9

LEMMA IsrSendOrder ==
    ASSUME DInv, NEW u \in Owners, IsrSendDirect(u) \/ IsrSendQueued(u)
    PROVE  \A o \in Owners, s \in Senders : InOrder(s, o)'
<1>1. /\ Accepted(Isr, u) /\ Isr \in Senders /\ "note" \in Kinds /\ u \in Threads
      /\ box \in [Threads -> Messages \cup {NoMsg}]
  BY MsgFacts, MsgTypes DEF IsrSendDirect, IsrSendQueued, Kinds, DInv
<1>2. CASE IsrSendDirect(u)
  <2>1. /\ IsReceiving(u) /\ box' = [box EXCEPT ![u] = Message(Isr, "note", u)]
        /\ UNCHANGED <<queue, sendq, call, got>>
    BY <1>2 DEF IsrSendDirect
  <2>2. box'[u] = Message(Isr, "note", u)
    BY <1>1, <2>1
  <2>3. \A w \in Threads \ {u} : Aside(w)
    BY <1>1, <2>1, AsideStays
  <2> QED BY <1>1, <2>1, <2>2, <2>3, HandedOrder
<1>3. CASE IsrSendQueued(u)
  <2>1. Queued(u, Message(Isr, "note", u)) /\ UNCHANGED <<sendq, box, call, got>>
    BY <1>3 DEF IsrSendQueued
  <2>2. \A w \in Threads : Aside(w)
    BY <2>1, AsideStays
  <2>3. Isr \notin ToSet(sendq[u])
    BY <1>1, OrderTypes, MsgFacts
  <2> QED BY <1>1, <2>1, <2>2, <2>3, QueuedOrder
<1> QED BY <1>2, <1>3

(* The Msg of a client takes the reply when the client waits in no queue. *)
LEMMA ReplyOrder ==
    ASSUME DInv, NEW t \in Owners, NEW v \in Threads, Reply(t, v) \/ IsrReply(t, v)
    PROVE  \A o \in Owners, s \in Senders : InOrder(s, o)'
<1>1. /\ v \in owed[t] /\ box' = AnsweredBox(t, v) /\ MInv
      /\ UNCHANGED <<queue, sendq, call, sent, got>>
      /\ box \in [Threads -> Messages \cup {NoMsg}] /\ v \in Senders
  BY MsgFacts, MsgTypes DEF Reply, IsrReply, Answer, DInv
<1>2. \A w \in Threads \ {v} : box'[w] = box[w]
  BY <1>1 DEF AnsweredBox
<1>3. /\ Fits("owed", sched.status[v], call[v])
      /\ \A k \in Places, o \in Owners : At(k, v, o) => k = "owed"
  <2>1. At("owed", v, t)
    BY <1>1 DEF At
  <2> QED BY <1>1, <2>1, OnlyPlace DEF Places
<1>4. call[v] # "receive" /\ \A o \in Owners : v \notin ToSet(sendq[o])
  <2>1. \A o \in Owners : ~At("waiting", v, o)
    BY <1>3 DEF Places
  <2> QED BY <1>3, <2>1 DEF Fits, At
<1>5. Aside(v)
  BY <1>1, <1>4 DEF Aside, Handed
<1>6. \A w \in Threads : Aside(w)
  BY <1>1, <1>2, <1>5, AsideStays
<1> QED BY <1>1, <1>6, QuietOrder

LEMMA BlockedOrder ==
    ASSUME DInv, NEW t \in Threads, ReceiveBlock(t) \/ Recheck(t)
    PROVE  \A o \in Owners, s \in Senders : InOrder(s, o)'
<1>1. /\ UNCHANGED <<queue, sendq, box, sent, got>>
      /\ \/ InUser(t) /\ call' = [call EXCEPT ![t] = "receive"]
         \/ call[t] = "recheck" /\ call' = [call EXCEPT ![t] = "ask"]
      /\ MInv /\ call \in [Threads -> Calls]
  BY MsgTypes DEF ReceiveBlock, Recheck, DInv
<1>2. Handed(t)' <=> Handed(t)
  BY <1>1, InUserOutside DEF Handed
<1>3. \A w \in Threads : Aside(w)
  BY <1>1, <1>2 DEF Aside, Handed
<1> QED BY <1>1, <1>3, QuietOrder

LEMMA NextDInv ==
    DInv /\ [MsgNext]_vars => DInv'
<1> SUFFICES ASSUME DInv, [MsgNext]_vars
             PROVE  \A o \in Owners, s \in Senders : InOrder(s, o)'
  BY NextMInv DEF DInv
<1>1. CASE UNCHANGED msgVars
  <2>1. UNCHANGED <<queue, sendq, got, sent>> /\ UNCHANGED <<box, call>>
    BY <1>1 DEF msgVars
  <2>2. \A w \in Threads : Aside(w)
    BY <2>1, AsideStays
  <2> QED BY <2>1, <2>2, QuietOrder
<1>2. ASSUME NEW t \in Threads, SchedCall(t) \/ MsgCall(t) \/ Recheck(t) \/ Return(t)
      PROVE  \A o \in Owners, s \in Senders : InOrder(s, o)'
  <2>1. CASE SchedCall(t)
    BY <1>1, <2>1 DEF SchedCall
  <2>2. CASE MsgCall(t)
    <3>1. ASSUME NEW u \in Owners,
                 \/ SendDirect(t, u) \/ SendQueued(t, u) \/ SendBlock(t, u)
                 \/ AskDirect(t, u) \/ AskQueued(t, u) \/ AskBlock(t, u)
          PROVE  \A o \in Owners, s \in Senders : InOrder(s, o)'
      BY <3>1, SendOrder
    <3>2. CASE ReceiveQueued(t)
      BY <3>2, ReceiveQueuedOrder
    <3>3. CASE ReceiveFromWaiter(t)
      BY <3>3, ReceiveFromWaiterOrder
    <3>4. CASE ReceiveBlock(t)
      BY <3>4, BlockedOrder
    <3>5. ASSUME t \in Owners, NEW v \in Threads, Reply(t, v)
          PROVE  \A o \in Owners, s \in Senders : InOrder(s, o)'
      BY <3>5, ReplyOrder
    <3> QED BY <2>2, <3>1, <3>2, <3>3, <3>4, <3>5 DEF MsgCall
  <2>3. CASE Recheck(t)
    BY <2>3, BlockedOrder
  <2>4. CASE Return(t)
    BY <2>4, ReturnOrder
  <2> QED BY <1>2, <2>1, <2>2, <2>3, <2>4
<1>3. ASSUME NEW u \in Owners, IsrSendDirect(u) \/ IsrSendQueued(u)
      PROVE  \A o \in Owners, s \in Senders : InOrder(s, o)'
  BY <1>3, IsrSendOrder
<1>4. ASSUME NEW u \in Owners, NEW v \in Threads, IsrReply(u, v)
      PROVE  \A o \in Owners, s \in Senders : InOrder(s, o)'
  BY <1>4, ReplyOrder
<1> QED BY <1>1, <1>2, <1>3, <1>4 DEF MsgNext, MsgIsr, vars

(* No message is lost, duplicated or, between one sender and one receiver, *)
(* reordered, whichever way it takes: DeliveredInOrder. *)
THEOREM Delivery == MsgSpec => []DeliveredInOrder
<1>1. MsgInit => DInv
  <2> SUFFICES ASSUME MsgInit, NEW u \in Owners, NEW t \in Senders PROVE InOrder(t, u)
    BY InitMInv DEF DInv
  <2>1. \A p \in Positions, n \in 0 .. MaxSends : ~OnItsWay(t, u, p, n)
    BY MsgFacts DEF MsgInit, OnItsWay, ToSet
  <2>2. got[u][t] = 0 /\ sent[t][u] = 0 /\ MaxSends \in Nat
    BY MsgFacts DEF MsgInit
  <2> QED BY <2>1, <2>2 DEF InOrder
<1>2. DInv /\ [MsgNext]_vars => DInv'
  BY NextDInv
<1>3. DInv => DeliveredInOrder
  BY DEF DInv, InOrder, DeliveredInOrder
<1> QED BY <1>1, <1>2, <1>3, PTL DEF MsgSpec

=============================================================================
