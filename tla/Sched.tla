------------------------------- MODULE Sched -------------------------------
(***************************************************************************)
(* The thread scheduler of vcrtos (source/core/thread.cpp): run queues,    *)
(* the ready bitmap, thread creation and termination, sleep and wakeup,    *)
(* yield, and the deferred context switch through the PendSV exception.    *)
(*                                                                         *)
(* The kernel runs on one core.  A section between cpu_irq_disable and     *)
(* cpu_irq_restore is one atomic step; what a function does after it has   *)
(* restored interrupts is a further step of the same thread, named by its  *)
(* pc, so an interrupt or a switch may come in between.  An interrupt      *)
(* handler is one step: handlers neither nest nor are preempted.           *)
(***************************************************************************)
EXTENDS Integers, SequencesExt

CONSTANTS
    Threads,    \* the thread control blocks the program can create
    Idle,       \* the thread that never blocks (kernel_init creates it)
    NoThread,   \* nullptr
    Levels,     \* VCRTOS_CONFIG_THREAD_PRIORITY_LEVELS
    Priority,   \* Priority[t] is t's priority; 0 is the most urgent
    MaxThreads, \* KERNEL_MAXTHREADS, the slots of threads_container
    Terminable  \* statuses in which the program terminates another thread

(* thread_status_t, the statuses below THREAD_STATUS_RUNNING first.        *)
OffRunqueue == {"STOPPED", "SLEEPING", "MUTEX_BLOCKED", "RECEIVE_BLOCKED",
                "SEND_BLOCKED", "REPLY_BLOCKED", "FLAG_BLOCKED_ANY",
                "FLAG_BLOCKED_ALL"}
OnRunqueue  == {"RUNNING", "PENDING"}
Statuses    == OffRunqueue \cup OnRunqueue

Prios == 0 .. Levels - 1
Pids  == 1 .. MaxThreads        \* KERNEL_PID_FIRST .. KERNEL_PID_LAST
PidUndef == 0                   \* KERNEL_PID_UNDEF

ASSUME SchedAssumption ==
    /\ Idle \in Threads
    /\ NoThread \notin Threads
    /\ Levels \in Nat
    /\ Priority \in [Threads -> Prios]
    /\ MaxThreads \in Nat
    /\ Terminable \subseteq OffRunqueue

VARIABLES
    sched,      \* status of each thread, scheduler_runqueue, runqueue_bitcache
    active,     \* sched_active_thread
    request,    \* context_switch_request
    pendsv,     \* the PendSV exception is pending (thread_arch_yield_higher)
    irqOff,     \* interrupts are disabled between steps
    booted,     \* the first thread has been started
    container,  \* threads_container
    pid,        \* thread->pid
    numof,      \* numof_threads_in_container
    pc,         \* where each thread stands in the kernel
    arg,        \* the argument of the context_switch a thread is about to call
    deferred    \* history: made ready without a switch since the last run()

cpuVars  == <<request, pendsv, irqOff, booted>>
pidVars  == <<container, pid, numof>>
codeVars == <<pc, arg>>
schedVars == <<sched, active, request, pendsv, irqOff, booted, container, pid,
               numof, pc, arg, deferred>>

(* "user": in the program; "switch": about to call context_switch;         *)
(* "yield": about to call yield_higher_priority_thread; "sleep": about to  *)
(* call sleep from inside the kernel.                                      *)
PcLabels == {"user", "switch", "yield", "sleep"}

-----------------------------------------------------------------------------
(* Run queues.  Definitions marked "Fault" are mistakes an implementation  *)
(* could make in the definition that follows; no behaviour uses them.      *)

(* Fault: take the last node of the list instead of the first. *)
LeftPopLast(q) == IF q = <<>> THEN q ELSE Front(q)

LeftPop(q) == IF q = <<>> THEN q ELSE Tail(q)

LeftPopRightPush(q) == IF q = <<>> THEN q ELSE Append(Tail(q), Head(q))

SetThreadStatus(s, t, new) ==
    LET p      == Priority[t]
        joins  == new \in OnRunqueue /\ s.status[t] \notin OnRunqueue
        leaves == new \notin OnRunqueue /\ s.status[t] \in OnRunqueue
        q      == CASE joins  -> Append(s.runqueue[p], t)
                    [] leaves -> LeftPop(s.runqueue[p])
                    [] OTHER  -> s.runqueue[p]
    IN  [status   |-> [s.status EXCEPT ![t] = new],
         runqueue |-> [s.runqueue EXCEPT ![p] = q],
         bitcache |-> CASE joins              -> s.bitcache \cup {p}
                        [] leaves /\ q = <<>> -> s.bitcache \ {p}
                        [] OTHER              -> s.bitcache]

LowestBit(S) == Min(S)

(* Fault: insert behind the first waiter that is not less urgent. *)
AddToListUnsorted(q, t) == Append(q, t)

(* Fault: insert ahead of the waiters of the same priority. *)
AddToListAhead(q, t) ==
    LET later == {i \in DOMAIN q : Priority[q[i]] >= Priority[t]}
    IN  InsertAt(q, IF later = {} THEN Len(q) + 1 ELSE Min(later), t)

(* Thread::add_to_list, for the threads that wait for a mutex or for room  *)
(* in a message queue: before the first waiter of a greater number.        *)
AddToList(q, t) ==
    LET later == {i \in DOMAIN q : Priority[q[i]] > Priority[t]}
    IN  InsertAt(q, IF later = {} THEN Len(q) + 1 ELSE Min(later), t)

(* Fault: follow the queue's own link, which leads to its last node. *)
NextThreadLast(s) == Last(s.runqueue[LowestBit(s.bitcache)])

NextThread(s) == Head(s.runqueue[LowestBit(s.bitcache)])

(* Fault: leave the thread that loses the core RUNNING. *)
PreemptedKept(st) == st

Preempted(st) == IF st = "RUNNING" THEN "PENDING" ELSE st

(* Fault: treat the loss of the core as a yield. *)
RunRotating(s, current) ==
    [status   |-> [t \in Threads |-> CASE t = NextThread(s) -> "RUNNING"
                                       [] t = current -> Preempted(s.status[t])
                                       [] OTHER       -> s.status[t]],
     runqueue |-> [p \in Prios |-> IF current # NoThread /\ p = Priority[current]
                                   THEN LeftPopRightPush(s.runqueue[p])
                                   ELSE s.runqueue[p]],
     bitcache |-> s.bitcache]

(* What run() makes of the statuses when `current` was active.             *)
Run(s, current) ==
    LET next == NextThread(s)
        Dispatched(t) ==
            CASE current = next -> s.status[t]
              [] t = next       -> "RUNNING"
              [] t = current    -> Preempted(s.status[t])
              [] OTHER          -> s.status[t]
    IN  [status   |-> [t \in Threads |-> Dispatched(t)],
         runqueue |-> s.runqueue,
         bitcache |-> s.bitcache]

(* Fault: take a greater number for a more urgent priority. *)
NeedsSwitchInverted(s, prio) ==
    \/ s.status[active] \notin OnRunqueue
    \/ Priority[active] < prio

(* The condition under which context_switch(prio) asks for a switch.       *)
NeedsSwitch(s, prio) ==
    \/ s.status[active] \notin OnRunqueue
    \/ Priority[active] > prio

(* Fault: leave the handler without looking at the request. *)
EndOfIsrIgnored(requested) == pendsv

(* cpu_end_of_isr: a request recorded in a handler makes PendSV pending.   *)
EndOfIsr(requested) == pendsv \/ requested

-----------------------------------------------------------------------------
Init ==
    /\ sched = [status   |-> [t \in Threads |-> "STOPPED"],
                runqueue |-> [p \in Prios |-> <<>>],
                bitcache |-> {}]
    /\ active = NoThread
    /\ request = FALSE /\ pendsv = FALSE
    /\ irqOff = TRUE /\ booted = FALSE
    /\ container = [i \in Pids |-> NoThread]
    /\ pid = [t \in Threads |-> PidUndef]
    /\ numof = 0
    /\ pc = [t \in Threads |-> "user"]
    /\ arg = [t \in Threads |-> 0]
    /\ deferred = {}

(* t runs on the core: no switch is pending, or none can be taken.         *)
Executing(t) == active = t /\ (pendsv => irqOff)

IsrEnabled == active # NoThread /\ ~irqOff

(* Fault: start the search at KERNEL_PID_UNDEF. *)
FreePidsFromUndef == {PidUndef} \cup {i \in Pids : container[i] = NoThread}

(* Fault: do not look whether the slot is free. *)
FreePidsUnchecked == Pids

FreePids == {i \in Pids : container[i] = NoThread}

Exists(t) == \E i \in Pids : container[i] = t

(* The critical section of Thread::init.                                   *)
Enlist(u, new) ==
    LET i == LowestBit(FreePids)
    IN  /\ ~Exists(u)
        /\ FreePids # {}
        /\ container' = [container EXCEPT ![i] = u]
        /\ pid' = [pid EXCEPT ![u] = i]
        /\ numof' = numof + 1
        /\ sched' = SetThreadStatus([sched EXCEPT !.status[u] = "STOPPED"],
                                    u, new)

(* kernel_init creates threads before there is an active one, the idle     *)
(* thread first.                                                           *)
BootCreate(u, new) ==
    /\ ~booted
    /\ u = Idle <=> numof = 0
    /\ u = Idle => new = "PENDING"
    /\ Enlist(u, new)
    /\ UNCHANGED <<active, cpuVars, codeVars, deferred>>

(* cpu_switch_context_exit: start the first thread, or the next one after  *)
(* exit(), and enable interrupts.                                          *)
SwitchContextExit ==
    /\ active = NoThread
    /\ sched.status[Idle] \in OnRunqueue
    /\ sched' = Run(sched, NoThread)
    /\ active' = NextThread(sched)
    /\ request' = FALSE /\ irqOff' = FALSE
    /\ booted' = TRUE
    /\ deferred' = {}
    /\ UNCHANGED <<pendsv, pidVars, codeVars>>

(* The PendSV handler: run() decides who executes next.                    *)
PendSV ==
    /\ pendsv /\ ~irqOff
    /\ sched' = Run(sched, active)
    /\ active' = NextThread(sched)
    /\ request' = FALSE /\ pendsv' = FALSE
    /\ deferred' = {}
    /\ UNCHANGED <<irqOff, booted, pidVars, codeVars>>

-----------------------------------------------------------------------------
(* Calls of a thread t in its own context.                                 *)

CreateSleeping(t, u) ==
    /\ Executing(t) /\ pc[t] = "user"
    /\ Enlist(u, "SLEEPING")
    /\ pc' = [pc EXCEPT ![u] = "user"]
    /\ UNCHANGED <<active, cpuVars, arg, deferred>>

CreateWithoutYield(t, u) ==
    /\ Executing(t) /\ pc[t] = "user"
    /\ Enlist(u, "PENDING")
    /\ pc' = [pc EXCEPT ![u] = "user"]
    /\ deferred' = deferred \cup {u}
    /\ UNCHANGED <<active, cpuVars, arg>>

Create(t, u) ==
    /\ Executing(t) /\ pc[t] = "user"
    /\ Enlist(u, "PENDING")
    /\ pc' = [pc EXCEPT ![u] = "user", ![t] = "switch"]
    /\ arg' = [arg EXCEPT ![t] = Priority[u]]
    /\ UNCHANGED <<active, cpuVars, deferred>>

Sleep(t) ==
    /\ Executing(t) /\ pc[t] \in {"user", "sleep"}
    /\ t # Idle
    /\ sched' = SetThreadStatus(sched, t, "SLEEPING")
    /\ pc' = [pc EXCEPT ![t] = "yield"]
    /\ UNCHANGED <<active, cpuVars, pidVars, arg, deferred>>

(* A wakeup of a thread that does not exist or does not sleep changes      *)
(* nothing.                                                                *)
Wakeup(t, u) ==
    /\ Executing(t) /\ pc[t] = "user"
    /\ Exists(u) /\ sched.status[u] = "SLEEPING"
    /\ sched' = SetThreadStatus(sched, u, "PENDING")
    /\ pc' = [pc EXCEPT ![t] = "switch"]
    /\ arg' = [arg EXCEPT ![t] = Priority[u]]
    /\ UNCHANGED <<active, cpuVars, pidVars, deferred>>

Yield(t) ==
    /\ Executing(t) /\ pc[t] = "user"
    /\ sched' = IF sched.status[t] \in OnRunqueue
                THEN [sched EXCEPT !.runqueue[Priority[t]] = LeftPopRightPush(@)]
                ELSE sched
    /\ pc' = [pc EXCEPT ![t] = "yield"]
    /\ UNCHANGED <<active, cpuVars, pidVars, arg, deferred>>

(* exit() returns with interrupts disabled and no active thread.           *)
Exit(t) ==
    /\ Executing(t) /\ pc[t] = "user"
    /\ t # Idle
    /\ container' = [container EXCEPT ![pid[t]] = NoThread]
    /\ numof' = numof - 1
    /\ sched' = SetThreadStatus(sched, t, "STOPPED")
    /\ active' = NoThread
    /\ irqOff' = TRUE
    /\ UNCHANGED <<request, pendsv, booted, pid, codeVars, deferred>>

(* terminate(pid) of another thread; terminate of oneself is Exit.         *)
Terminate(t, u) ==
    /\ Executing(t) /\ pc[t] = "user"
    /\ u \notin {t, Idle} /\ Exists(u)
    /\ sched.status[u] \in Terminable
    /\ container' = [container EXCEPT ![pid[u]] = NoThread]
    /\ numof' = numof - 1
    /\ sched' = SetThreadStatus(sched, u, "STOPPED")
    /\ UNCHANGED <<active, cpuVars, pid, codeVars, deferred>>

(* What a call does after it has restored interrupts.                      *)

ContextSwitch(t) ==
    /\ Executing(t) /\ pc[t] = "switch"
    /\ pendsv' = (pendsv \/ NeedsSwitch(sched, arg[t]))
    /\ pc' = [pc EXCEPT ![t] = "user"]
    /\ arg' = [arg EXCEPT ![t] = 0]
    /\ UNCHANGED <<sched, active, request, irqOff, booted, pidVars, deferred>>

YieldHigher(t) ==
    /\ Executing(t) /\ pc[t] = "yield"
    /\ pendsv' = TRUE
    /\ pc' = [pc EXCEPT ![t] = "user"]
    /\ UNCHANGED <<sched, active, request, irqOff, booted, pidVars, arg, deferred>>

(* An interrupt handler that wakes u up.  context_switch only records the  *)
(* request in a handler; cpu_end_of_isr turns it into a pending PendSV.    *)
IsrWakeup(u) ==
    /\ IsrEnabled
    /\ Exists(u) /\ sched.status[u] = "SLEEPING"
    /\ sched' = SetThreadStatus(sched, u, "PENDING")
    /\ request' = (request \/ NeedsSwitch(sched', Priority[u]))
    /\ pendsv' = EndOfIsr(request')
    /\ UNCHANGED <<active, irqOff, booted, pidVars, codeVars, deferred>>

-----------------------------------------------------------------------------
Boot == \E u \in Threads, new \in {"SLEEPING", "PENDING"} : BootCreate(u, new)

UserCall(t) ==
    \/ Sleep(t) \/ Yield(t) \/ Exit(t)
    \/ \E u \in Threads :
         \/ CreateSleeping(t, u) \/ CreateWithoutYield(t, u) \/ Create(t, u)
         \/ Wakeup(t, u) \/ Terminate(t, u)

KernelStep(t) == ContextSwitch(t) \/ YieldHigher(t)

Next ==
    \/ Boot \/ SwitchContextExit \/ PendSV
    \/ \E t \in Threads : UserCall(t) \/ KernelStep(t)
    \/ \E u \in Threads : IsrWakeup(u)

Spec == Init /\ [][Next]_schedVars

(* A pending exception is taken once interrupts allow it, and a thread the *)
(* core executes finishes the kernel call it is in.  Nothing obliges the   *)
(* program to make a call, or a device to interrupt.                       *)
Fairness ==
    /\ WF_schedVars(PendSV)
    /\ WF_schedVars(booted /\ SwitchContextExit)
    /\ \A t \in Threads : WF_schedVars(KernelStep(t))

FairSpec == Spec /\ Fairness

-----------------------------------------------------------------------------
(* Properties.                                                             *)

(* Every variable keeps its type; the kernel never counts more threads     *)
(* than threads_container has slots.                                       *)
TypeOK ==
    /\ sched \in [status   : [Threads -> Statuses],
                  runqueue : [Prios -> Seq(Threads)],
                  bitcache : SUBSET Prios]
    /\ active \in Threads \cup {NoThread}
    /\ request \in BOOLEAN /\ pendsv \in BOOLEAN
    /\ irqOff \in BOOLEAN /\ booted \in BOOLEAN
    /\ container \in [Pids -> Threads \cup {NoThread}]
    /\ pid \in [Threads -> Pids \cup {PidUndef}]
    /\ numof \in 0 .. MaxThreads
    /\ pc \in [Threads -> PcLabels]
    /\ arg \in [Threads -> Prios \cup {0}]
    /\ deferred \in SUBSET Threads

Consistent(s) ==
    /\ \A p \in Prios : IsInjective(s.runqueue[p])
    /\ \A p \in Prios, t \in Threads :
         t \in ToSet(s.runqueue[p]) <=>
             (s.status[t] \in OnRunqueue /\ p = Priority[t])
    /\ \A p \in Prios : p \in s.bitcache <=> s.runqueue[p] # <<>>

(* set_thread_status takes the head off a run queue without looking at it, *)
(* and run() follows the bitmap without checking that the queue has a head. *)
(* Both are right only if, at every moment, a thread is in the run queue of *)
(* its priority exactly once when its status says so and in no queue when  *)
(* it does not, and the bitmap names exactly the queues that are not empty. *)
RunqueueConsistent == Consistent(sched)

(* A thread that executes heads the run queue of its priority, except      *)
(* between yield() rotating that queue, or a blocking call leaving it, and *)
(* the switch that follows.  It is why left_pop removes the right thread.  *)
ExecutingIsHead ==
    \A t \in Threads :
        Executing(t) /\ pc[t] # "yield" =>
            /\ sched.runqueue[Priority[t]] # <<>>
            /\ Head(sched.runqueue[Priority[t]]) = t

(* Status RUNNING is held by the active thread alone: run() takes it from  *)
(* the thread it preempts, whichever way that thread loses the core.       *)
OnlyActiveRuns ==
    \A t \in Threads : sched.status[t] = "RUNNING" => t = active

(* No thread computes while a more urgent one is ready: a switch is        *)
(* pending, or the active thread is on its way to ask for one.  The only   *)
(* exception the kernel allows is a thread created with                    *)
(* THREAD_FLAGS_CREATE_WOUT_YIELD that run() has not considered yet.       *)
PriorityHonoured ==
    \A u \in Threads :
        /\ active # NoThread
        /\ sched.status[u] \in OnRunqueue
        /\ Priority[u] < Priority[active]
        => \/ u \in deferred
           \/ pendsv
           \/ pc[active] \in {"yield", "sleep"}
           \/ pc[active] = "switch" /\ arg[active] < Priority[active]

(* Pids identify threads: two live threads never share one, a thread's pid *)
(* leads back to it through threads_container, the live threads are those  *)
(* whose status is not STOPPED, and numof_threads counts them.             *)
PidsIdentifyThreads ==
    /\ \A t \in Threads : sched.status[t] # "STOPPED" <=> Exists(t)
    /\ \A t \in Threads : Exists(t) => pid[t] # PidUndef /\ container[pid[t]] = t
    /\ \A i \in Pids : container[i] # NoThread => pid[container[i]] = i
    /\ numof = Cardinality({i \in Pids : container[i] # NoThread})

Before(q, u, v) ==
    \E i, j \in 1 .. Len(q) : i < j /\ q[i] = u /\ q[j] = v

(* Threads of one priority share the core in the order they became ready:  *)
(* no preemption, wakeup or exit lets one overtake another; only a thread  *)
(* that yields lets others pass.                                           *)
OnlyYieldReorders ==
    [][\A p \in Prios, u, v \in Threads :
         Before(sched.runqueue[p], u, v) /\ Before(sched.runqueue[p], v, u)' =>
             u = active /\ pc[u] = "user" /\ pc'[u] = "yield"]_schedVars

First(t) == booted /\ deferred = {} /\ NextThread(sched) = t

(* The thread the run queues put first gets the core, however interrupts   *)
(* and preemptions fall, unless it is overtaken by a more urgent one or    *)
(* leaves the run queue, or was made ready without a switch.               *)
FirstIsDispatched ==
    \A t \in Threads : First(t) ~> (active = t \/ ~First(t))
=============================================================================
