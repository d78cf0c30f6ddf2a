------------------------------- MODULE MCMsg -------------------------------
(* Threads of three priorities that exchange messages, two of them with a  *)
(* queue that has room for one.                                            *)
EXTENDS Msg, TLC

CONSTANTS idle, a, b, c

MCThreads  == {idle, a, b, c}
MCPriority == (idle :> 2) @@ (a :> 1) @@ (b :> 1) @@ (c :> 0)
MCSleeping == {"SLEEPING"}
MCOwners   == {a, c}

(* Bound: messages from t to u.  b's reach c only, the server, which       *)
(* answers a; the idle thread sends nothing.                               *)
MCMaxSends ==
    [t \in Senders |-> [u \in Owners |->
        CASE t = a /\ u = c -> 2
          [] t = b /\ u = c -> 1
          [] t = c /\ u = c -> 1
          [] t = c /\ u = a -> 1
          [] t = Isr /\ u = c -> 1
          [] t = Isr /\ u = a -> 1
          [] OTHER -> 0]]

(* Bound: kernel_init creates the threads in one order, and they neither   *)
(* sleep nor end; MCMutex has those calls interleaved with blocking ones.  *)
Order == <<idle, c, a, b>>

Bounded ==
    /\ booted' => numof' = MaxThreads
    /\ \A i \in DOMAIN Order :
         /\ pid'[Order[i]] \in {PidUndef, i}
         /\ sched'.status[Order[i]] # "SLEEPING"
         /\ booted /\ i <= MaxThreads => sched'.status[Order[i]] # "STOPPED"
    /\ \A t \in Senders, u \in Owners : sent'[t][u] <= MCMaxSends[t][u]

MCSpec     == MsgInit /\ [][MsgNext /\ Bounded]_vars
MCFairSpec == MCSpec /\ MsgFairness
=============================================================================
