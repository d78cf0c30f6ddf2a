-------------------------------- MODULE Msg --------------------------------
(***************************************************************************)
(* Messages between threads (source/core/msg.cpp) on top of the scheduler. *)
(*                                                                         *)
(* A thread may own a bounded queue (msg_array with its Cib) and a list of *)
(* the threads that wait for room in it (msg_waiters).  wait_data points   *)
(* at the Msg a blocked thread waits with: the one it sends, or the one    *)
(* that is to receive.  send_receive() uses one Msg for both: it holds the *)
(* request while that waits for room, and later the reply.                 *)
(*                                                                         *)
(* The program is taken to send to threads that exist and own a queue, to  *)
(* answer each request it has received at most once, and not to end a      *)
(* thread that owns a queue, or waits for room in one.                     *)
(***************************************************************************)
EXTENDS Sched

CONSTANTS
    Owners,     \* the threads that own a message queue
    QueueSize,  \* the room in a queue
    Isr,        \* sender of the messages of interrupt handlers
    NoMsg,
    MaxSends    \* bound: messages from one sender to one thread

Senders  == Threads \cup {Isr}
Kinds    == {"note", "request", "reply"}
Messages == [from : Senders, kind : Kinds, n : 0 .. MaxSends]

ASSUME MsgAssumption ==
    /\ Owners \subseteq Threads
    /\ QueueSize \in Nat \ {0}
    /\ Isr \notin Threads
    /\ MaxSends \in Nat
    /\ "SEND_BLOCKED" \notin Terminable
    /\ NoMsg \notin Messages

VARIABLES
    queue,      \* queue[u]: the messages in msg_array
    sendq,      \* sendq[u]: msg_waiters
    box,        \* box[t]: the Msg that wait_data of t points at
    call,       \* the call that t is inside of
    owed,       \* owed[t]: threads whose request t has received, unanswered
    sent,       \* history: sent[t][u] messages from t to u were accepted
    got         \* history: got[u][t] is the number of the last one received

msgVars == <<queue, sendq, box, call, owed, sent, got>>
vars    == <<schedVars, msgVars>>

Calls == {"none", "send", "receive", "ask", "recheck"}

MsgInit ==
    /\ Init
    /\ queue = [u \in Owners |-> <<>>]
    /\ sendq = [u \in Owners |-> <<>>]
    /\ box = [t \in Threads |-> NoMsg]
    /\ call = [t \in Threads |-> "none"]
    /\ owed = [u \in Owners |-> {}]
    /\ sent = [t \in Senders |-> [u \in Owners |-> 0]]
    /\ got = [u \in Owners |-> [t \in Senders |-> 0]]

-----------------------------------------------------------------------------
InUser(t) == Executing(t) /\ pc[t] = "user" /\ call[t] = "none"

Message(t, kind, u) == [from |-> t, kind |-> kind, n |-> sent[t][u] + 1]

Accepted(t, u) ==
    /\ sent[t][u] < MaxSends
    /\ sent' = [sent EXCEPT ![t][u] = @ + 1]

(* Fault: room for one message more. *)
HasRoomOffByOne(u) == Len(queue[u]) <= QueueSize

HasRoom(u) == Len(queue[u]) < QueueSize

Queued(u, m) == HasRoom(u) /\ queue' = [queue EXCEPT ![u] = Append(@, m)]

IsReceiving(u) == sched.status[u] = "RECEIVE_BLOCKED"

(* u takes m: what a receive() of u does with the message it returns.      *)
Received(u, m) ==
    /\ got' = [got EXCEPT ![u][m.from] = m.n]
    /\ owed' = IF m.kind = "request" THEN [owed EXCEPT ![u] = @ \cup {m.from}]
               ELSE owed

(* Wake the receiver whose Msg has been filled.                            *)
Hand(s, u) == SetThreadStatus(s, u, "PENDING")

-----------------------------------------------------------------------------
(* send() and try_send() to another thread.                                *)

SendDirect(t, u) ==
    /\ InUser(t) /\ t # u /\ IsReceiving(u)
    /\ box' = [box EXCEPT ![u] = Message(t, "note", u)]
    /\ sched' = Hand(sched, u)
    /\ Accepted(t, u)
    /\ pc' = [pc EXCEPT ![t] = "yield"]
    /\ UNCHANGED <<active, cpuVars, pidVars, arg, deferred,
                   queue, sendq, call, owed, got>>

(* Also send_to_self_queue(). *)
SendQueued(t, u) ==
    /\ InUser(t) /\ Exists(u) /\ ~IsReceiving(u)
    /\ Queued(u, Message(t, "note", u))
    /\ Accepted(t, u)
    /\ UNCHANGED <<schedVars, sendq, box, call, owed, got>>

SendBlock(t, u) ==
    /\ InUser(t) /\ t \notin {u, Idle} /\ Exists(u) /\ ~IsReceiving(u)
    /\ ~HasRoom(u)
    /\ box' = [box EXCEPT ![t] = Message(t, "note", u)]
    /\ sched' = SetThreadStatus(sched, t, "SEND_BLOCKED")
    /\ sendq' = [sendq EXCEPT ![u] = AddToList(@, t)]
    /\ Accepted(t, u)
    /\ call' = [call EXCEPT ![t] = "send"]
    /\ pc' = [pc EXCEPT ![t] = "yield"]
    /\ UNCHANGED <<active, cpuVars, pidVars, arg, deferred, queue, owed, got>>

(* send() in an interrupt handler asks for a switch whatever the priority. *)
IsrSendDirect(u) ==
    /\ IsrEnabled /\ IsReceiving(u)
    /\ box' = [box EXCEPT ![u] = Message(Isr, "note", u)]
    /\ sched' = Hand(sched, u)
    /\ Accepted(Isr, u)
    /\ request' = TRUE
    /\ pendsv' = EndOfIsr(request')
    /\ UNCHANGED <<active, irqOff, booted, pidVars, codeVars, deferred,
                   queue, sendq, call, owed, got>>

IsrSendQueued(u) ==
    /\ IsrEnabled /\ Exists(u) /\ ~IsReceiving(u)
    /\ Queued(u, Message(Isr, "note", u))
    /\ Accepted(Isr, u)
    /\ UNCHANGED <<schedVars, sendq, box, call, owed, got>>

-----------------------------------------------------------------------------
(* send_receive(): the caller leaves the run queue before it sends.        *)

Ask(t, u) ==
    /\ InUser(t) /\ t \in Owners /\ t \notin {u, Idle} /\ Exists(u)
    /\ box' = [box EXCEPT ![t] = Message(t, "request", u)]
    /\ Accepted(t, u)

(* Fault: lose, among the ways to wait, that it is for a reply. *)
AskingAsSender(t) == SetThreadStatus(sched, t, "SEND_BLOCKED")

Asking(t) == SetThreadStatus(sched, t, "REPLY_BLOCKED")

AskDirect(t, u) ==
    /\ InUser(t) /\ t \in Owners /\ t \notin {u, Idle} /\ IsReceiving(u)
    /\ LET m == Message(t, "request", u) IN box' = [box EXCEPT ![t] = m, ![u] = m]
    /\ Accepted(t, u)
    /\ sched' = Hand(Asking(t), u)
    /\ call' = [call EXCEPT ![t] = "ask"]
    /\ pc' = [pc EXCEPT ![t] = "yield"]
    /\ UNCHANGED <<active, cpuVars, pidVars, arg, deferred,
                   queue, sendq, owed, got>>

(* The caller has left the run queue, and asks for a switch unless it has  *)
(* its reply already once interrupts are restored: see Recheck.            *)
AskQueued(t, u) ==
    /\ Ask(t, u) /\ ~IsReceiving(u)
    /\ Queued(u, Message(t, "request", u))
    /\ sched' = Asking(t)
    /\ call' = [call EXCEPT ![t] = "recheck"]
    /\ pc' = [pc EXCEPT ![t] = "yield"]
    /\ UNCHANGED <<active, cpuVars, pidVars, arg, deferred, sendq, owed, got>>

AskBlock(t, u) ==
    /\ Ask(t, u) /\ ~IsReceiving(u) /\ ~HasRoom(u)
    /\ sched' = Asking(t)
    /\ sendq' = [sendq EXCEPT ![u] = AddToList(@, t)]
    /\ call' = [call EXCEPT ![t] = "ask"]
    /\ pc' = [pc EXCEPT ![t] = "yield"]
    /\ UNCHANGED <<active, cpuVars, pidVars, arg, deferred, queue, owed, got>>

(* Fault: do not yield after queueing a request. *)
RecheckNever(t) == pendsv

(* The PendSV that a request left in a queue asks for.                     *)
RecheckYields(t) == pendsv \/ sched.status[t] = "REPLY_BLOCKED"

Recheck(t) ==
    /\ Executing(t) /\ call[t] = "recheck"
    /\ pendsv' = RecheckYields(t)
    /\ call' = [call EXCEPT ![t] = "ask"]
    /\ pc' = [pc EXCEPT ![t] = "user"]
    /\ UNCHANGED <<sched, active, request, irqOff, booted, pidVars, arg,
                   deferred, queue, sendq, box, owed, sent, got>>

-----------------------------------------------------------------------------
(* receive() and try_receive().                                            *)

ReceiveQueued(t) ==
    /\ InUser(t) /\ t \in Owners
    /\ queue[t] # <<>>
    /\ queue' = [queue EXCEPT ![t] = Tail(@)]
    /\ Received(t, Head(queue[t]))
    /\ UNCHANGED <<schedVars, sendq, box, call, sent>>

(* Fault: wake a sender that waits for a reply. *)
ReleaseSenderAlways(s, v) == SetThreadStatus(s, v, "PENDING")

(* A sender whose message is taken continues, unless it waits for a reply. *)
ReleaseSender(s, v) ==
    IF s.status[v] = "REPLY_BLOCKED" THEN s ELSE SetThreadStatus(s, v, "PENDING")

(* Fault: serve a waiting sender without looking at the queue. *)
TakesFromWaiterEarly(t) == sendq[t] # <<>>

(* The queue is empty: the message comes from the first thread that waits. *)
TakesFromWaiter(t) == queue[t] = <<>> /\ sendq[t] # <<>>

ReceiveFromWaiter(t) ==
    /\ InUser(t) /\ t \in Owners
    /\ TakesFromWaiter(t)
    /\ LET v        == Head(sendq[t])
           switches == /\ sched.status[v] # "REPLY_BLOCKED"
                       /\ Priority[v] < Levels - 1  \* KERNEL_THREAD_PRIORITY_IDLE
       IN  /\ Received(t, box[v])
           /\ sendq' = [sendq EXCEPT ![t] = Tail(@)]
           /\ box' = IF sched.status[v] = "REPLY_BLOCKED" THEN box
                     ELSE [box EXCEPT ![v] = NoMsg]
           /\ sched' = ReleaseSender(sched, v)
           /\ pc' = IF switches THEN [pc EXCEPT ![t] = "switch"] ELSE pc
           /\ arg' = IF switches THEN [arg EXCEPT ![t] = Priority[v]] ELSE arg
    /\ UNCHANGED <<active, cpuVars, pidVars, deferred, queue, call, sent>>

ReceiveBlock(t) ==
    /\ InUser(t) /\ t \in Owners \ {Idle}
    /\ queue[t] = <<>> /\ sendq[t] = <<>>
    /\ sched' = SetThreadStatus(sched, t, "RECEIVE_BLOCKED")
    /\ call' = [call EXCEPT ![t] = "receive"]
    /\ pc' = [pc EXCEPT ![t] = "yield"]
    /\ UNCHANGED <<active, cpuVars, pidVars, arg, deferred,
                   queue, sendq, box, owed, sent, got>>

-----------------------------------------------------------------------------
(* reply() and reply_in_isr() to a request that t has received from v.     *)

Answer(t, v) ==
    /\ v \in owed[t]
    /\ owed' = [owed EXCEPT ![t] = @ \ {v}]

AnsweredBox(t, v) ==
    [box EXCEPT ![v] = [from |-> t, kind |-> "reply", n |-> 0]]

Reply(t, v) ==
    /\ InUser(t) /\ Answer(t, v)
    /\ sched.status[v] = "REPLY_BLOCKED"
    /\ box' = AnsweredBox(t, v)
    /\ sched' = SetThreadStatus(sched, v, "PENDING")
    /\ pc' = [pc EXCEPT ![t] = "switch"]
    /\ arg' = [arg EXCEPT ![t] = Priority[v]]
    /\ UNCHANGED <<active, cpuVars, pidVars, deferred,
                   queue, sendq, call, sent, got>>

IsrReply(t, v) ==
    /\ IsrEnabled /\ Answer(t, v)
    /\ sched.status[v] = "REPLY_BLOCKED"
    /\ box' = AnsweredBox(t, v)
    /\ sched' = SetThreadStatus(sched, v, "PENDING")
    /\ request' = TRUE
    /\ pendsv' = EndOfIsr(request')
    /\ UNCHANGED <<active, irqOff, booted, pidVars, codeVars, deferred,
                   queue, sendq, call, sent, got>>

-----------------------------------------------------------------------------
(* A call that blocked returns when its thread executes again.             *)
Return(t) ==
    /\ Executing(t) /\ pc[t] = "user"
    /\ call[t] \in {"send", "receive", "ask"}
    /\ call' = [call EXCEPT ![t] = "none"]
    /\ box' = [box EXCEPT ![t] = NoMsg]
    /\ IF call[t] = "receive" THEN Received(t, box[t]) ELSE UNCHANGED <<got, owed>>
    /\ UNCHANGED <<schedVars, queue, sendq, sent>>

SchedCall(t) ==
    /\ call[t] = "none"
    /\ UserCall(t)
    /\ \A u \in Owners : sched.status[u] # "STOPPED" => sched'.status[u] # "STOPPED"
    /\ UNCHANGED msgVars

MsgCall(t) ==
    \/ \E u \in Owners :
         \/ SendDirect(t, u) \/ SendQueued(t, u) \/ SendBlock(t, u)
         \/ AskDirect(t, u) \/ AskQueued(t, u) \/ AskBlock(t, u)
    \/ ReceiveQueued(t) \/ ReceiveFromWaiter(t) \/ ReceiveBlock(t)
    \/ t \in Owners /\ \E v \in Threads : Reply(t, v)

MsgIsr == \E u \in Owners :
    \/ IsrSendDirect(u) \/ IsrSendQueued(u)
    \/ \E v \in Threads : IsrReply(u, v)

MsgNext ==
    \/ (Boot \/ SwitchContextExit \/ PendSV) /\ UNCHANGED msgVars
    \/ \E t \in Threads : SchedCall(t) \/ MsgCall(t) \/ Recheck(t) \/ Return(t)
    \/ \E t \in Threads : call[t] # "recheck" /\ KernelStep(t) /\ UNCHANGED msgVars
    \/ (\E u \in Threads : IsrWakeup(u)) /\ UNCHANGED msgVars
    \/ MsgIsr

MsgSpec == MsgInit /\ [][MsgNext]_vars

(* As for the scheduler: exceptions are taken and calls return. *)
MsgFairness ==
    /\ WF_vars(PendSV /\ UNCHANGED msgVars)
    /\ WF_vars(booted /\ SwitchContextExit /\ UNCHANGED msgVars)
    /\ \A t \in Threads :
         /\ WF_vars(call[t] # "recheck" /\ KernelStep(t) /\ UNCHANGED msgVars)
         /\ WF_vars(Recheck(t))
         /\ WF_vars(Return(t))

-----------------------------------------------------------------------------
(* Properties.                                                             *)

(* Every variable of the messages keeps its type; a queue never holds more *)
(* than msg_array has room for.                                            *)
MsgTypeOK ==
    /\ TypeOK
    /\ queue \in [Owners -> Seq(Messages)]
    /\ \A u \in Owners : Len(queue[u]) <= QueueSize
    /\ sendq \in [Owners -> Seq(Threads)]
    /\ box \in [Threads -> Messages \cup {NoMsg}]
    /\ call \in [Threads -> Calls]
    /\ owed \in [Owners -> SUBSET Threads]
    /\ sent \in [Senders -> [Owners -> 0 .. MaxSends]]
    /\ got \in [Owners -> [Senders -> 0 .. MaxSends]]

Positions == 0 .. QueueSize + 1

(* Message n from t to u is on its way, at position p: handed to a         *)
(* receive() of u that has not returned, in the queue, or with t, which    *)
(* waits for room.                                                         *)
OnItsWay(t, u, p, n) ==
    \/ p = 0 /\ call[u] = "receive" /\ box[u] # NoMsg
         /\ box[u].from = t /\ box[u].n = n
    \/ p \in DOMAIN queue[u] /\ queue[u][p].from = t /\ queue[u][p].n = n
    \/ p = QueueSize + 1 /\ t \in ToSet(sendq[u]) /\ box[t].n = n

(* No message is lost, duplicated or, between one sender and one receiver, *)
(* reordered: what a sender's calls have been told is sent, and what the   *)
(* receiver has not got, is on its way, once and in the order it was sent, *)
(* whichever of the three ways each message took.                          *)
DeliveredInOrder ==
    \A u \in Owners, t \in Senders :
        /\ \A n \in 0 .. MaxSends :
             n \in got[u][t] + 1 .. sent[t][u] <=> \E p \in Positions : OnItsWay(t, u, p, n)
        /\ \A p, q \in Positions, m, n \in 0 .. MaxSends :
             OnItsWay(t, u, p, m) /\ OnItsWay(t, u, q, n) => (p < q <=> m < n)

(* A thread is in the list of a queue exactly while its message is not     *)
(* taken: it is in one list once, blocked in send() or send_receive(); and *)
(* nobody waits for a thread that itself waits for a message.              *)
SendersAreBlocked ==
    /\ \A u \in Owners : IsInjective(sendq[u])
    /\ \A u, v \in Owners : u # v => ToSet(sendq[u]) \cap ToSet(sendq[v]) = {}
    /\ \A u \in Owners : \A t \in ToSet(sendq[u]) :
         \/ sched.status[t] = "SEND_BLOCKED" /\ call[t] = "send"
         \/ sched.status[t] = "REPLY_BLOCKED" /\ call[t] = "ask"
    /\ \A t \in Threads : sched.status[t] = "SEND_BLOCKED" =>
         \E u \in Owners : t \in ToSet(sendq[u])
    /\ \A u \in Owners : IsReceiving(u) => queue[u] = <<>> /\ sendq[u] = <<>>

(* A blocking call continues only when what it waited for has happened:    *)
(* send() with its message taken, receive() with a message, send_receive() *)
(* with the reply and not its own request, although one Msg serves both.   *)
CallsReturnDone ==
    \A t \in Threads :
        Executing(t) /\ pc[t] = "user" =>
            /\ call[t] = "send" => box[t] = NoMsg
            /\ call[t] = "receive" => box[t] # NoMsg
            /\ call[t] = "ask" => box[t].kind = "reply"

(* A server that has received a request and not answered it can: the       *)
(* client is still blocked for the reply and waits in no queue.  Otherwise *)
(* reply() would fail, or link one node into two lists.                    *)
ClientsAwaitReply ==
    \A u \in Owners, t \in Threads : t \in owed[u] =>
        /\ sched.status[t] = "REPLY_BLOCKED"
        /\ call[t] \in {"ask", "recheck"}
        /\ \A v \in Owners : t \notin ToSet(sendq[v])
        /\ \A v \in Owners \ {u} : t \notin owed[v]

(* A comment in receive() says that when it frees room in the queue it     *)
(* takes the message of a waiting sender "into the just freed queue        *)
(* space": threads wait for room only while there is none.                 *)
WaitersMeanFull ==
    \A u \in Owners : sendq[u] # <<>> => ~HasRoom(u)

(* A call whose thread is the first in the run queues and stays so returns. *)
CallReturns ==
    \A t \in Threads :
        First(t) /\ call[t] # "none" ~> (call[t] = "none" \/ ~First(t))
=============================================================================
