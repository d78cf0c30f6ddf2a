------------------------------- MODULE Events -------------------------------
(***************************************************************************)
(* Event queues (EventQueue in source/core/thread.cpp) on top of thread    *)
(* flags.  A thread owns a queue of events; posting an event links it into *)
(* the queue and then, interrupts enabled in between, raises the owner's   *)
(* flag.  event_wait() takes an event or waits for the flag and looks      *)
(* again.  list_node.next doubles as the mark that an event is linked.     *)
(*                                                                         *)
(* The program is taken to post an event to one thread, and to take,       *)
(* cancel and release it in that thread only.                              *)
(***************************************************************************)
EXTENDS Flags

CONSTANTS
    AllEvents,
    Target,     \* Target[e] is the thread to which e is posted
    EventFlag,  \* THREAD_FLAG_EVENT
    NoEvent

Consumers == {Target[e] : e \in AllEvents}

ASSUME EventsAssumption ==
    /\ Target \in [AllEvents -> Threads]
    /\ EventFlag \in FlagBits
    /\ NoEvent \notin AllEvents

VARIABLES
    events,     \* event_list of the queue of each consumer
    linked,     \* list_node.next of an event is not nullptr
    step,       \* where a thread stands in an event function
    what,       \* the event that event function is about
    taken       \* the events event_wait() returned and nobody has released

eventVars == <<events, linked, step, what, taken>>
allVars   == <<schedVars, flagVars, eventVars>>

(* "post": about to raise the flag; "look": about to look into the queue   *)
(* again; "empty": has found it empty; "unlink": about to unlink.          *)
Steps == {"none", "post", "look", "empty", "unlink"}

EventsInit ==
    /\ FlagsInit
    /\ events = [c \in Consumers |-> <<>>]
    /\ linked = [e \in AllEvents |-> FALSE]
    /\ step = [t \in Threads |-> "none"]
    /\ what = [t \in Threads |-> NoEvent]
    /\ taken = {}

-----------------------------------------------------------------------------
AtStep(t, s) == InUser(t) /\ step[t] = s

GoTo(t, s, e) ==
    /\ step' = [step EXCEPT ![t] = s]
    /\ what' = [what EXCEPT ![t] = e]

(* Fault: link an event whether or not it is linked already. *)
LinkAlways(e) ==
    /\ events' = [events EXCEPT ![Target[e]] = Append(@, e)]
    /\ linked' = [linked EXCEPT ![e] = TRUE]

(* An event that is linked is not linked again. *)
Link(e) ==
    /\ events' = IF linked[e] THEN events
                 ELSE [events EXCEPT ![Target[e]] = Append(@, e)]
    /\ linked' = [linked EXCEPT ![e] = TRUE]

PostLink(t, e) ==
    /\ AtStep(t, "none")
    /\ Link(e)
    /\ GoTo(t, "post", e)
    /\ UNCHANGED <<schedVars, flagVars, taken>>

PostRaise(t) ==
    /\ AtStep(t, "post")
    /\ FlagsSet(t, Target[what[t]], {EventFlag})
    /\ GoTo(t, "none", NoEvent)
    /\ UNCHANGED <<events, linked, taken>>

IsrPost(e) ==
    /\ Link(e)
    /\ IsrFlagsSet(Target[e], {EventFlag})
    /\ UNCHANGED <<step, what, taken>>

Pop(c) ==
    /\ events[c] # <<>>
    /\ events' = [events EXCEPT ![c] = Tail(@)]

(* event_get() unlinks the event with interrupts enabled.                  *)
Get(c) ==
    /\ AtStep(c, "none")
    /\ Pop(c)
    /\ GoTo(c, "unlink", Head(events[c]))
    /\ UNCHANGED <<schedVars, flagVars, linked, taken>>

Unlink(c) ==
    /\ AtStep(c, "unlink")
    /\ linked' = [linked EXCEPT ![what[c]] = FALSE]
    /\ GoTo(c, "none", NoEvent)
    /\ UNCHANGED <<schedVars, flagVars, events, taken>>

(* event_wait() leaves the event linked.                                   *)
WaitTake(c) ==
    /\ AtStep(c, "none") \/ AtStep(c, "look")
    /\ Pop(c)
    /\ taken' = taken \cup {Head(events[c])}
    /\ GoTo(c, "none", NoEvent)
    /\ UNCHANGED <<schedVars, flagVars, linked>>

WaitEmpty(c) ==
    /\ AtStep(c, "none") \/ AtStep(c, "look")
    /\ c # Idle
    /\ events[c] = <<>>
    /\ GoTo(c, "empty", NoEvent)
    /\ UNCHANGED <<schedVars, flagVars, events, linked, taken>>

(* Fault: block without looking at the flags. *)
WaitForFlagBlind(c) ==
    /\ wait' = [wait EXCEPT ![c] = [kind |-> "any", mask |-> {EventFlag}]]
    /\ waited' = [waited EXCEPT ![c] = {EventFlag}]
    /\ sched' = SetThreadStatus(sched, c, "FLAG_BLOCKED_ANY")
    /\ pc' = [pc EXCEPT ![c] = "yield"]
    /\ UNCHANGED <<active, cpuVars, pidVars, arg, deferred, flags>>

WaitForFlag(c) == CheckFlags(c, "any", {EventFlag})

WaitFlag(c) ==
    /\ AtStep(c, "empty")
    /\ WaitForFlag(c)
    /\ GoTo(c, "look", NoEvent)
    /\ UNCHANGED <<events, linked, taken>>

(* Fault: clear the node and leave its place in the list. *)
WithoutNulled(q, e) == [i \in DOMAIN q |-> IF q[i] = e THEN NoEvent ELSE q[i]]

(* A list without one of its nodes. *)
Without(q, e) ==
    IF e \in ToSet(q) THEN RemoveAt(q, CHOOSE i \in DOMAIN q : q[i] = e) ELSE q

Cancel(c, e) ==
    /\ AtStep(c, "none") /\ Target[e] = c
    /\ events' = [events EXCEPT ![c] = Without(@, e)]
    /\ linked' = [linked EXCEPT ![e] = FALSE]
    /\ taken' = taken \ {e}
    /\ UNCHANGED <<schedVars, flagVars, step, what>>

Release(c, e) ==
    /\ AtStep(c, "none") /\ Target[e] = c
    /\ e \in taken
    /\ linked' = [linked EXCEPT ![e] = FALSE]
    /\ taken' = taken \ {e}
    /\ UNCHANGED <<schedVars, flagVars, events, step, what>>

-----------------------------------------------------------------------------
(* The consumers do not end.                                               *)
OtherCall(t) ==
    /\ step[t] = "none"
    /\ SchedCall(t) \/ FlagsCall(t)
    /\ \A c \in Consumers : sched.status[c] # "STOPPED" => sched'.status[c] # "STOPPED"
    /\ UNCHANGED eventVars

EventCall(t) ==
    \/ \E e \in AllEvents : PostLink(t, e) \/ Cancel(t, e) \/ Release(t, e)
    \/ t \in Consumers /\ (Get(t) \/ WaitTake(t) \/ WaitEmpty(t))

EventStep(t) == PostRaise(t) \/ Unlink(t) \/ WaitFlag(t)

EventsNext ==
    \/ (Boot \/ SwitchContextExit \/ PendSV) /\ UNCHANGED <<flagVars, eventVars>>
    \/ \E t \in Threads : OtherCall(t) \/ EventCall(t) \/ EventStep(t)
    \/ \E t \in Threads : (ChooseOne(t) \/ ClearFlags(t)) /\ UNCHANGED eventVars
    \/ \E t \in Threads : KernelStep(t) /\ UNCHANGED <<flagVars, eventVars>>
    \/ (\E u \in Threads : IsrWakeup(u)) /\ UNCHANGED <<flagVars, eventVars>>
    \/ (\E u \in Threads, mask \in SUBSET FlagBits : IsrFlagsSet(u, mask))
         /\ UNCHANGED eventVars
    \/ \E e \in AllEvents : IsrPost(e)

EventsSpec == EventsInit /\ [][EventsNext]_allVars

(* As for the scheduler: exceptions are taken and calls return. *)
EventsFairness ==
    /\ WF_allVars(PendSV /\ UNCHANGED <<flagVars, eventVars>>)
    /\ WF_allVars(booted /\ SwitchContextExit /\ UNCHANGED <<flagVars, eventVars>>)
    /\ \A t \in Threads :
         /\ WF_allVars(KernelStep(t) /\ UNCHANGED <<flagVars, eventVars>>)
         /\ WF_allVars((ChooseOne(t) \/ ClearFlags(t)) /\ UNCHANGED eventVars)
         /\ WF_allVars(EventStep(t))
         /\ WF_allVars(step[t] = "look" /\ EventCall(t))

EventsFairSpec == EventsSpec /\ EventsFairness

-----------------------------------------------------------------------------
(* Properties.                                                             *)

(* Every variable of the event queues keeps its type. *)
EventsTypeOK ==
    /\ FlagsTypeOK
    /\ events \in [Consumers -> Seq(AllEvents)]
    /\ linked \in [AllEvents -> BOOLEAN]
    /\ step \in [Threads -> Steps]
    /\ what \in [Threads -> AllEvents \cup {NoEvent}]
    /\ taken \subseteq AllEvents

(* An event is in at most one place: in its queue, once, or with the       *)
(* consumer that took it and has not unlinked it.  It is marked as linked  *)
(* exactly when it is in one: otherwise a post would link it twice, which  *)
(* breaks the circular list, or would be dropped for ever.                 *)
LinkedIsSomewhere ==
    \A e \in AllEvents :
        LET queued    == e \in ToSet(events[Target[e]])
            unlinking == step[Target[e]] = "unlink" /\ what[Target[e]] = e
        IN  /\ linked[e] <=> queued \/ unlinking \/ e \in taken
            /\ queued => ~unlinking /\ e \notin taken
            /\ IsInjective(events[Target[e]])

(* A consumer blocked in event_wait() with an event in its queue is about  *)
(* to be woken: the thread that linked the event has yet to raise the      *)
(* flag.  No post falls between the look at the queue and the wait.        *)
NoEventOverlooked ==
    \A c \in Consumers :
        step[c] = "look" /\ sched.status[c] = "FLAG_BLOCKED_ANY"
            /\ events[c] # <<>> =>
        \E t \in Threads : step[t] = "post" /\ Target[what[t]] = c

(* event_wait() with an event in the queue returns, once its thread is the *)
(* first in the run queues and stays so.                                   *)
EventIsTaken ==
    \A c \in Consumers :
        First(c) /\ step[c] \in {"look", "empty"} /\ events[c] # <<>>
            ~> (step[c] = "none" \/ ~First(c) \/ events[c] = <<>>)
=============================================================================
