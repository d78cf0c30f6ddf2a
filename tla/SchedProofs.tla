---------------------------- MODULE SchedProofs ----------------------------
(***************************************************************************)
(* Theorems about the scheduler, for any number of threads, priorities and *)
(* pids.                                                                   *)
(***************************************************************************)
EXTENDS Sched, FiniteSetTheorems, SequenceTheorems, WellFoundedInduction, TLAPS

-----------------------------------------------------------------------------
(* A set of naturals that is not empty has a lowest bit.                   *)
LEMMA LowestBitIsLowest ==
    ASSUME NEW S \in SUBSET Nat, S # {}
    PROVE  LowestBit(S) \in S /\ \A r \in S : LowestBit(S) <= r
<1>1. \E p \in S : \A r \in S : p <= r
  <2>1. PICK p \in S : \A r \in S : ~(<<r, p>> \in OpToRel(<, Nat))
    BY NatLessThanWellFounded, WFMin
  <2>2. ASSUME NEW r \in S PROVE p <= r
    <3>1. p \in Nat /\ r \in Nat
      OBVIOUS
    <3>2. ~(r < p)
      BY <2>1, <3>1 DEF OpToRel
    <3> QED BY <3>1, <3>2
  <2> QED BY <2>2
<1> QED BY <1>1 DEF LowestBit, Min

-----------------------------------------------------------------------------
(* Sequences without duplicates.                                           *)

SchedType == [status   : [Threads -> Statuses],
              runqueue : [Prios -> Seq(Threads)],
              bitcache : SUBSET Prios]

(* right_push of a thread that is not in the list. *)
LEMMA AppendDistinct ==
    ASSUME NEW S, NEW q \in Seq(S), NEW t \in S,
           IsInjective(q), t \notin ToSet(q)
    PROVE  /\ Append(q, t) \in Seq(S) /\ Append(q, t) # <<>>
           /\ IsInjective(Append(q, t))
           /\ ToSet(Append(q, t)) = ToSet(q) \cup {t}
           /\ q # <<>> => Head(Append(q, t)) = Head(q)
BY AppendProperties DEF IsInjective, ToSet

(* left_pop of a list that is not empty. *)
LEMMA LeftPopDistinct ==
    ASSUME NEW S, NEW q \in Seq(S), IsInjective(q), q # <<>>
    PROVE  /\ LeftPop(q) \in Seq(S)
           /\ IsInjective(LeftPop(q))
           /\ ToSet(LeftPop(q)) = ToSet(q) \ {Head(q)}
<1>1. /\ Tail(q) \in Seq(S) /\ Len(Tail(q)) = Len(q) - 1
      /\ \A i \in 1 .. Len(Tail(q)) : Tail(q)[i] = q[i+1]
  BY HeadTailProperties
<1>2. Len(q) \in Nat /\ Len(q) # 0 /\ Head(q) = q[1]
  OBVIOUS
<1>3. IsInjective(Tail(q))
  BY <1>1, <1>2 DEF IsInjective
<1>4. ASSUME NEW x \in ToSet(Tail(q)) PROVE x \in ToSet(q) \ {Head(q)}
  <2>1. PICK i \in 1 .. Len(Tail(q)) : x = Tail(q)[i]
    BY DEF ToSet
  <2>2. x = q[i+1] /\ i+1 \in 1 .. Len(q) /\ i+1 # 1
    BY <1>1, <1>2, <2>1
  <2>3. x # q[1]
    BY <1>2, <2>2 DEF IsInjective
  <2> QED BY <1>2, <2>2, <2>3 DEF ToSet
<1>5. ASSUME NEW x \in ToSet(q), x # Head(q) PROVE x \in ToSet(Tail(q))
  <2>1. PICK i \in 1 .. Len(q) : x = q[i]
    BY DEF ToSet
  <2>2. i # 1
    BY <1>2, <1>5, <2>1
  <2>3. i-1 \in 1 .. Len(Tail(q)) /\ Tail(q)[i-1] = q[i]
    BY <1>1, <1>2, <2>2
  <2>4. i-1 \in DOMAIN Tail(q)
    BY <1>1, <2>3
  <2> QED BY <2>1, <2>3, <2>4 DEF ToSet
<1> QED BY <1>1, <1>3, <1>4, <1>5 DEF LeftPop

(* left_pop_right_push keeps the elements of a list. *)
LEMMA RotateDistinct ==
    ASSUME NEW q \in Seq(Threads), IsInjective(q)
    PROVE  /\ LeftPopRightPush(q) \in Seq(Threads)
           /\ IsInjective(LeftPopRightPush(q))
           /\ ToSet(LeftPopRightPush(q)) = ToSet(q)
           /\ LeftPopRightPush(q) = <<>> <=> q = <<>>
<1>1. CASE q = <<>>
  BY <1>1 DEF LeftPopRightPush
<1>2. CASE q # <<>>
  <2>1. /\ Tail(q) \in Seq(Threads) /\ IsInjective(Tail(q))
        /\ ToSet(Tail(q)) = ToSet(q) \ {Head(q)}
    BY <1>2, LeftPopDistinct DEF LeftPop
  <2>2. Head(q) \in Threads /\ Head(q) \in ToSet(q)
    BY <1>2 DEF ToSet
  <2> DEFINE r == Append(Tail(q), Head(q))
  <2>3. Head(q) \notin ToSet(Tail(q))
    BY <2>1
  <2>4. /\ r \in Seq(Threads) /\ r # <<>> /\ IsInjective(r)
        /\ ToSet(r) = ToSet(Tail(q)) \cup {Head(q)}
    <3>1. \A z \in Seq(Threads), h \in Threads :
             IsInjective(z) /\ h \notin ToSet(z) =>
                 /\ Append(z, h) \in Seq(Threads) /\ Append(z, h) # <<>>
                 /\ IsInjective(Append(z, h)) /\ ToSet(Append(z, h)) = ToSet(z) \cup {h}
      BY AppendDistinct
    <3> QED BY <2>1, <2>2, <2>3, <3>1
  <2>5. LeftPopRightPush(q) = r
    BY <1>2 DEF LeftPopRightPush
  <2> QED BY ONLY <1>2, <2>1, <2>2, <2>4, <2>5
<1> QED BY <1>1, <1>2

-----------------------------------------------------------------------------
(* The run queues as data.                                                 *)

LEMMA SetThreadStatusType ==
    ASSUME NEW s \in SchedType, NEW t \in Threads, NEW new \in Statuses
    PROVE  SetThreadStatus(s, t, new) \in SchedType
<1> DEFINE p == Priority[t]
<1>1. p \in Prios /\ s.runqueue[p] \in Seq(Threads)
  BY SchedAssumption DEF SchedType
<1>2. LeftPop(s.runqueue[p]) \in Seq(Threads)
  BY <1>1, HeadTailProperties DEF LeftPop
<1>3. Append(s.runqueue[p], t) \in Seq(Threads)
  BY <1>1, AppendProperties
<1> QED BY <1>1, <1>2, <1>3 DEF SetThreadStatus, SchedType

(* set_thread_status keeps the run queues consistent, on condition that a  *)
(* thread it takes off a run queue is the head of it.                      *)
LEMMA SetThreadStatusConsistent ==
    ASSUME NEW s \in SchedType, NEW t \in Threads, NEW new \in Statuses,
           Consistent(s),
           new \notin OnRunqueue /\ s.status[t] \in OnRunqueue
               => Head(s.runqueue[Priority[t]]) = t
    PROVE  Consistent(SetThreadStatus(s, t, new))
<1> DEFINE p == Priority[t]
           q == s.runqueue[p]
           r == SetThreadStatus(s, t, new)
<1>1. p \in Prios /\ q \in Seq(Threads) /\ IsInjective(q)
  BY SchedAssumption DEF SchedType, Consistent
<1>2. r \in SchedType /\ r.status = [s.status EXCEPT ![t] = new]
  BY SetThreadStatusType DEF SetThreadStatus
<1>3. CASE new \in OnRunqueue /\ s.status[t] \notin OnRunqueue
  <2>1. t \notin ToSet(q)
    BY <1>1, <1>3 DEF Consistent
  <2>2. /\ r.runqueue = [s.runqueue EXCEPT ![p] = Append(q, t)]
        /\ r.bitcache = s.bitcache \cup {p}
    BY <1>3 DEF SetThreadStatus
  <2>3. /\ Append(q, t) # <<>> /\ IsInjective(Append(q, t))
        /\ ToSet(Append(q, t)) = ToSet(q) \cup {t}
    BY <1>1, <2>1, AppendDistinct
  <2> QED BY <1>1, <1>2, <1>3, <2>2, <2>3 DEF Consistent, SchedType
<1>4. CASE new \notin OnRunqueue /\ s.status[t] \in OnRunqueue
  <2>1. t \in ToSet(q) /\ q # <<>> /\ Head(q) = t
    <3>1. t \in ToSet(q)
      BY <1>1, <1>4 DEF Consistent
    <3>2. q # <<>>
      BY <3>1 DEF ToSet
    <3> QED BY <1>4, <3>1, <3>2
  <2>2. /\ r.runqueue = [s.runqueue EXCEPT ![p] = LeftPop(q)]
        /\ r.bitcache = IF LeftPop(q) = <<>> THEN s.bitcache \ {p} ELSE s.bitcache
    BY <1>4 DEF SetThreadStatus
  <2>3. /\ IsInjective(LeftPop(q)) /\ ToSet(LeftPop(q)) = ToSet(q) \ {t}
    BY <1>1, <2>1, LeftPopDistinct
  <2>4. p \in s.bitcache
    BY <1>1, <2>1 DEF Consistent
  <2> QED BY <1>1, <1>2, <1>4, <2>2, <2>3, <2>4 DEF Consistent, SchedType
<1>5. CASE new \in OnRunqueue <=> s.status[t] \in OnRunqueue
  <2>1. r.runqueue = s.runqueue /\ r.bitcache = s.bitcache
    BY <1>1, <1>5 DEF SetThreadStatus, SchedType
  <2> QED BY <1>1, <1>2, <1>5, <2>1 DEF Consistent, SchedType
<1> QED BY <1>3, <1>4, <1>5

(* Consistent run queues with a ready thread: run() finds a thread, it     *)
(* heads the run queue of its own priority, and none ready is more urgent. *)
LEMMA NextThreadIsFirst ==
    ASSUME NEW s \in SchedType, Consistent(s), s.bitcache # {}
    PROVE  LET n == NextThread(s)
           IN  /\ n \in Threads /\ s.status[n] \in OnRunqueue
               /\ s.runqueue[Priority[n]] # <<>>
               /\ Head(s.runqueue[Priority[n]]) = n
               /\ \A u \in Threads : s.status[u] \in OnRunqueue
                                        => Priority[n] <= Priority[u]
<1> DEFINE l == LowestBit(s.bitcache)
           q == s.runqueue[l]
           n == NextThread(s)
<1>1. s.bitcache \in SUBSET Nat
  BY SchedAssumption DEF SchedType, Prios
<1>2. l \in s.bitcache /\ \A r \in s.bitcache : l <= r
  BY <1>1, LowestBitIsLowest
<1>3. l \in Prios /\ q \in Seq(Threads) /\ q # <<>> /\ n = Head(q)
  BY <1>2 DEF SchedType, Consistent, NextThread
<1>4. n \in Threads /\ n \in ToSet(q)
  BY <1>3 DEF ToSet
<1>5. s.status[n] \in OnRunqueue /\ l = Priority[n]
  BY <1>3, <1>4 DEF Consistent
<1>6. ASSUME NEW u \in Threads, s.status[u] \in OnRunqueue
      PROVE  Priority[n] <= Priority[u]
  <2>1. Priority[u] \in Prios
    BY SchedAssumption
  <2>2. u \in ToSet(s.runqueue[Priority[u]])
    BY <1>6, <2>1 DEF Consistent
  <2>3. s.runqueue[Priority[u]] # <<>>
    BY <2>2 DEF ToSet
  <2>4. Priority[u] \in s.bitcache
    BY <2>1, <2>3 DEF Consistent
  <2> QED BY <1>2, <1>5, <2>4
<1> QED BY <1>3, <1>4, <1>5, <1>6

(* run() changes which thread is RUNNING and no run queue. *)
LEMMA RunConsistent ==
    ASSUME NEW s \in SchedType, Consistent(s), s.bitcache # {},
           NEW current \in Threads \cup {NoThread}
    PROVE  /\ Run(s, current) \in SchedType
           /\ Consistent(Run(s, current))
           /\ Run(s, current).runqueue = s.runqueue
           /\ Run(s, current).bitcache = s.bitcache
           /\ \A t \in Threads :
                /\ Run(s, current).status[t] \in OnRunqueue
                       <=> s.status[t] \in OnRunqueue
                /\ Run(s, current).status[t] \notin OnRunqueue
                       => Run(s, current).status[t] = s.status[t]
<1> DEFINE n == NextThread(s)
           r == Run(s, current)
<1>1. n \in Threads /\ s.status[n] \in OnRunqueue
  BY NextThreadIsFirst
<1>2. /\ r.runqueue = s.runqueue /\ r.bitcache = s.bitcache
      /\ DOMAIN r.status = Threads
  BY DEF Run
<1>3. ASSUME NEW t \in Threads
      PROVE  /\ r.status[t] \in Statuses
             /\ r.status[t] \in OnRunqueue <=> s.status[t] \in OnRunqueue
             /\ r.status[t] \notin OnRunqueue => r.status[t] = s.status[t]
  <2>1. s.status[t] \in Statuses
    BY DEF SchedType
  <2>2. r.status[t] = CASE current = n -> s.status[t]
                        [] t = n       -> "RUNNING"
                        [] t = current -> Preempted(s.status[t])
                        [] OTHER       -> s.status[t]
    BY DEF Run
  <2>3. \/ r.status[t] = s.status[t]
        \/ t = n /\ r.status[t] = "RUNNING"
        \/ s.status[t] = "RUNNING" /\ r.status[t] = "PENDING"
    BY <2>2 DEF Preempted
  <2> QED BY <1>1, <2>1, <2>3 DEF OnRunqueue, Statuses
<1>4. r \in SchedType
  BY <1>2, <1>3 DEF SchedType, Run
<1>5. Consistent(r)
  BY <1>2, <1>3 DEF Consistent
<1> QED BY <1>2, <1>3, <1>4, <1>5

-----------------------------------------------------------------------------
(* The lists of threads that wait for a mutex or for room in a queue.      *)

(* The more urgent threads come first. *)
ByUrgency(q) ==
    \A i, j \in 1 .. Len(q) : i < j => Priority[q[i]] <= Priority[q[j]]

LEMMA InsertAtProperties ==
    ASSUME NEW q \in Seq(Threads), NEW t \in Threads, NEW k \in 1 .. Len(q) + 1
    PROVE  /\ InsertAt(q, k, t) \in Seq(Threads)
           /\ Len(InsertAt(q, k, t)) = Len(q) + 1
           /\ \A i \in 1 .. Len(q) + 1 : InsertAt(q, k, t)[i] =
                 IF i < k THEN q[i] ELSE IF i = k THEN t ELSE q[i-1]
<1> DEFINE a == SubSeq(q, 1, k - 1)
           b == SubSeq(q, k, Len(q))
<1>1. Len(q) \in Nat /\ k \in Nat
  OBVIOUS
<1>2. /\ a \in Seq(Threads) /\ Len(a) = k - 1
      /\ \A i \in 1 .. k - 1 : a[i] = q[i]
  <2>1. \A i \in 1 .. k - 1 : q[i] \in Threads
    BY <1>1
  <2> QED BY <1>1, <2>1, SubSeqProperties
<1>3. /\ b \in Seq(Threads) /\ Len(b) = Len(q) + 1 - k
      /\ \A i \in 1 .. Len(q) + 1 - k : b[i] = q[k+i-1]
  <2>1. \A i \in k .. Len(q) : q[i] \in Threads
    BY <1>1
  <2> QED BY <1>1, <2>1, SubSeqProperties
<1>4. <<t>> \in Seq(Threads) /\ Len(<<t>>) = 1 /\ <<t>>[1] = t
  OBVIOUS
<1>5. InsertAt(q, k, t) = (a \o <<t>>) \o b
  BY DEF InsertAt
<1> DEFINE c == a \o <<t>>
<1> HIDE DEF a, b
<1>6. /\ c \in Seq(Threads) /\ Len(c) = k
      /\ \A i \in 1 .. k : c[i] = IF i < k THEN q[i] ELSE t
  <2>1. \A i \in 1 .. Len(a) + Len(<<t>>) :
           c[i] = IF i <= Len(a) THEN a[i] ELSE <<t>>[i - Len(a)]
    BY <1>2, <1>4, ConcatProperties
  <2>2. c \in Seq(Threads) /\ Len(c) = Len(a) + Len(<<t>>)
    BY <1>2, <1>4, ConcatProperties
  <2> HIDE DEF c
  <2>3. ASSUME NEW i \in 1 .. k PROVE c[i] = IF i < k THEN q[i] ELSE t
    <3>1. CASE i < k
      BY <1>1, <1>2, <1>4, <2>1, <3>1
    <3>2. CASE i = k
      <4>1. i - Len(a) = 1 /\ ~(i <= Len(a)) /\ i \in 1 .. Len(a) + Len(<<t>>)
        BY <1>1, <1>2, <1>4, <3>2
      <4> QED BY <1>4, <2>1, <3>2, <4>1
    <3> QED BY <1>1, <3>1, <3>2
  <2> QED BY <1>1, <1>2, <1>4, <2>2, <2>3
<1> HIDE DEF c
<1>7. /\ c \o b \in Seq(Threads)
      /\ Len(c \o b) = Len(q) + 1
      /\ \A i \in 1 .. Len(q) + 1 : (c \o b)[i] = IF i <= k THEN c[i] ELSE b[i-k]
  <2>1. /\ c \o b \in Seq(Threads) /\ Len(c \o b) = Len(c) + Len(b)
        /\ \A i \in 1 .. Len(c) + Len(b) :
             (c \o b)[i] = IF i <= Len(c) THEN c[i] ELSE b[i - Len(c)]
    BY <1>3, <1>6, ConcatProperties
  <2>2. Len(c) + Len(b) = Len(q) + 1
    BY <1>1, <1>3, <1>6
  <2> QED BY <1>6, <2>1, <2>2
<1> DEFINE d == c \o b
<1> HIDE DEF d
<1>8. ASSUME NEW i \in 1 .. Len(q) + 1
      PROVE  d[i] = IF i < k THEN q[i] ELSE IF i = k THEN t ELSE q[i-1]
  <2>1. CASE i <= k
    BY <1>1, <1>6, <1>7, <2>1 DEF d
  <2>2. CASE i > k
    <3>1. /\ i - k \in 1 .. Len(q) + 1 - k /\ k + (i - k) - 1 = i - 1
          /\ ~(i <= k) /\ ~(i < k) /\ i # k
      BY <1>1, <2>2
    <3>2. d[i] = b[i - k]
      BY <1>7, <3>1 DEF d
    <3>3. b[i - k] = q[k + (i - k) - 1]
      BY <1>3, <3>1
    <3> QED BY <3>1, <3>2, <3>3
  <2> QED BY <1>1, <2>1, <2>2
<1> QED BY <1>5, <1>7, <1>8 DEF c, d

(* add_to_list puts a thread behind those that are no less urgent and      *)
(* ahead of the first that is.                                             *)
LEMMA AddToListInserts ==
    ASSUME NEW q \in Seq(Threads), NEW t \in Threads
    PROVE  \E k \in 1 .. Len(q) + 1 :
              /\ AddToList(q, t) = InsertAt(q, k, t)
              /\ \A i \in 1 .. k - 1 : Priority[q[i]] <= Priority[t]
              /\ k <= Len(q) => Priority[t] < Priority[q[k]]
<1> DEFINE later == {i \in DOMAIN q : Priority[q[i]] > Priority[t]}
<1>1. \A u \in Threads : Priority[u] \in Int
  BY SchedAssumption DEF Prios
<1>2. DOMAIN q = 1 .. Len(q) /\ Len(q) \in Nat
      /\ \A i \in 1 .. Len(q) : q[i] \in Threads
  OBVIOUS
<1>3. CASE later = {}
  <2>1. AddToList(q, t) = InsertAt(q, Len(q) + 1, t)
    BY <1>3 DEF AddToList
  <2>2. \A i \in 1 .. Len(q) : ~(Priority[q[i]] > Priority[t])
    BY <1>2, <1>3
  <2> QED BY <1>1, <1>2, <2>1, <2>2
<1>4. CASE later # {}
  <2>1. later \in SUBSET Nat
    BY <1>2
  <2>2. LowestBit(later) \in later /\ \A r \in later : LowestBit(later) <= r
    BY <1>4, <2>1, LowestBitIsLowest
  <2>3. AddToList(q, t) = InsertAt(q, LowestBit(later), t)
    BY <1>4 DEF AddToList, LowestBit
  <2> DEFINE k == LowestBit(later)
  <2>4. k \in 1 .. Len(q) /\ Priority[q[k]] > Priority[t]
    BY <1>2, <2>2
  <2>5. ASSUME NEW i \in 1 .. k - 1 PROVE Priority[q[i]] <= Priority[t]
    <3>1. i \in 1 .. Len(q) /\ ~(k <= i)
      BY <1>2, <2>4
    <3>2. i \notin later
      BY <2>2, <3>1
    <3> QED BY <1>1, <1>2, <3>1, <3>2
  <2>6. k \in 1 .. Len(q) + 1 /\ Priority[t] < Priority[q[k]]
    BY <1>1, <1>2, <2>4
  <2> HIDE DEF k
  <2> QED BY <2>3, <2>5, <2>6 DEF k
<1> QED BY <1>3, <1>4

(* A thread that is not in a sorted list without duplicates is inserted    *)
(* into one, and overtakes only less urgent ones.                          *)
LEMMA AddToListSorted ==
    ASSUME NEW q \in Seq(Threads), NEW t \in Threads,
           IsInjective(q), t \notin ToSet(q), ByUrgency(q)
    PROVE  LET r == AddToList(q, t)
           IN  /\ r \in Seq(Threads) /\ r # <<>>
               /\ IsInjective(r)
               /\ ToSet(r) = ToSet(q) \cup {t}
               /\ ByUrgency(r)
               /\ \A u \in ToSet(q), v \in Threads :
                    Priority[u] <= Priority[v] /\ Before(r, v, u) => Before(q, v, u)
<1> DEFINE r == AddToList(q, t)
<1>1. PICK k \in 1 .. Len(q) + 1 :
              /\ r = InsertAt(q, k, t)
              /\ \A i \in 1 .. k - 1 : Priority[q[i]] <= Priority[t]
              /\ k <= Len(q) => Priority[t] < Priority[q[k]]
  BY AddToListInserts
<1> HIDE DEF r
<1>2. /\ r \in Seq(Threads) /\ Len(r) = Len(q) + 1
      /\ \A i \in 1 .. Len(q) + 1 :
           r[i] = IF i < k THEN q[i] ELSE IF i = k THEN t ELSE q[i-1]
  <2>1. /\ InsertAt(q, k, t) \in Seq(Threads)
        /\ Len(InsertAt(q, k, t)) = Len(q) + 1
        /\ \A i \in 1 .. Len(q) + 1 : InsertAt(q, k, t)[i] =
              IF i < k THEN q[i] ELSE IF i = k THEN t ELSE q[i-1]
    BY InsertAtProperties
  <2> QED BY <1>1, <2>1
<1>3. /\ Len(q) \in Nat /\ k \in 1 .. Len(q) + 1
      /\ \A i \in 1 .. Len(q) : q[i] \in Threads
  OBVIOUS
<1>4. \A u \in Threads : Priority[u] \in Int
  BY SchedAssumption DEF Prios
(* Where a node of r comes from. *)
<1> DEFINE from(i) == IF i < k THEN i ELSE i - 1
<1>5. ASSUME NEW i \in 1 .. Len(q) + 1, i # k
      PROVE  from(i) \in 1 .. Len(q) /\ r[i] = q[from(i)]
  BY <1>2, <1>3, <1>5
<1>6. r[k] = t
  BY <1>2, <1>3
<1>7. \A i \in 1 .. Len(q) : q[i] # t
  BY DEF ToSet
<1>8. ASSUME NEW i \in 1 .. Len(q), i >= k PROVE Priority[t] < Priority[q[i]]
  <2>1. k \in 1 .. Len(q) /\ Priority[t] < Priority[q[k]]
    BY <1>1, <1>3, <1>8
  <2>2. Priority[q[k]] <= Priority[q[i]]
    <3>1. CASE i = k
      BY <1>3, <1>4, <3>1
    <3>2. CASE i # k
      BY <1>3, <1>8, <2>1, <3>2 DEF ByUrgency
    <3> QED BY <3>1, <3>2
  <2> QED BY <1>3, <1>4, <2>1, <2>2
<1>9. IsInjective(r)
  <2> SUFFICES ASSUME NEW i \in 1 .. Len(r), NEW j \in 1 .. Len(r), r[i] = r[j]
               PROVE  i = j
    BY <1>2 DEF IsInjective
  <2>1. CASE i = k \/ j = k
    <3>1. \A n \in 1 .. Len(r) : n # k => r[n] # t
      BY <1>2, <1>5, <1>7
    <3> QED BY <1>6, <2>1, <3>1
  <2>2. CASE i # k /\ j # k
    <3>1. from(i) = from(j)
      BY <1>2, <1>5, <2>2 DEF IsInjective
    <3> QED BY <1>2, <1>3, <2>2, <3>1
  <2> QED BY <2>1, <2>2
<1>10. ToSet(r) = ToSet(q) \cup {t}
  <2>1. ASSUME NEW x \in ToSet(r) PROVE x \in ToSet(q) \cup {t}
    <3>1. PICK i \in 1 .. Len(q) + 1 : x = r[i]
      BY <1>2 DEF ToSet
    <3> QED BY <1>5, <1>6, <3>1 DEF ToSet
  <2>2. ASSUME NEW x \in ToSet(q) PROVE x \in ToSet(r)
    <3>1. PICK i \in 1 .. Len(q) : x = q[i]
      BY DEF ToSet
    <3>2. CASE i < k
      <4>1. i \in DOMAIN r /\ r[i] = q[i]
        BY <1>2, <1>3, <3>2
      <4> QED BY <3>1, <4>1 DEF ToSet
    <3>3. CASE i >= k
      <4>1. i + 1 \in DOMAIN r /\ r[i+1] = q[i]
        BY <1>2, <1>3, <3>3
      <4> QED BY <3>1, <4>1 DEF ToSet
    <3> QED BY <1>3, <3>2, <3>3
  <2>3. k \in DOMAIN r
    BY <1>2, <1>3
  <2> QED BY <1>6, <2>1, <2>2, <2>3 DEF ToSet
<1>11. ByUrgency(r)
  <2> SUFFICES ASSUME NEW i \in 1 .. Len(r), NEW j \in 1 .. Len(r), i < j
               PROVE  Priority[r[i]] <= Priority[r[j]]
    BY DEF ByUrgency
  <2>1. CASE i = k
    <3>1. from(j) \in 1 .. Len(q) /\ from(j) >= k /\ r[j] = q[from(j)]
      BY <1>2, <1>3, <1>5, <2>1
    <3> QED BY <1>3, <1>4, <1>6, <1>8, <2>1, <3>1
  <2>2. CASE j = k
    BY <1>1, <1>2, <1>3, <1>6, <2>2
  <2>3. CASE i # k /\ j # k
    <3>1. from(i) < from(j)
      BY <1>2, <1>3, <2>3
    <3> QED BY <1>2, <1>5, <2>3, <3>1 DEF ByUrgency
  <2> QED BY <2>1, <2>2, <2>3
<1>12. ASSUME NEW u \in ToSet(q), NEW v \in Threads,
              Priority[u] <= Priority[v], Before(r, v, u)
       PROVE  Before(q, v, u)
  <2>1. PICK i, j \in 1 .. Len(r) : i < j /\ r[i] = v /\ r[j] = u
    BY <1>12 DEF Before
  <2>2. j # k
    BY <1>6, <1>7, <2>1 DEF ToSet
  <2>3. i # k
    <3>1. ASSUME i = k PROVE FALSE
      <4>1. from(j) \in 1 .. Len(q) /\ from(j) >= k /\ u = q[from(j)] /\ v = t
        BY <1>2, <1>3, <1>5, <1>6, <2>1, <2>2, <3>1
      <4> QED BY <1>3, <1>4, <1>8, <1>12, <4>1
    <3> QED BY <3>1
  <2>4. from(i) < from(j)
    BY <1>2, <1>3, <2>1, <2>2, <2>3
  <2> QED BY <1>2, <1>5, <2>1, <2>2, <2>3, <2>4 DEF Before
<1>13. r # <<>>
  BY <1>2, <1>3
<1> QED BY <1>2, <1>9, <1>10, <1>11, <1>12, <1>13 DEF r

(* The first of a sorted list is no less urgent than any other. *)
LEMMA SortedTail ==
    ASSUME NEW q \in Seq(Threads), q # <<>>, ByUrgency(q)
    PROVE  /\ ByUrgency(Tail(q))
           /\ \A u \in ToSet(q) : Priority[Head(q)] <= Priority[u]
<1>1. /\ Len(q) \in Nat \ {0} /\ Len(Tail(q)) = Len(q) - 1 /\ Head(q) = q[1]
      /\ \A i \in 1 .. Len(Tail(q)) : Tail(q)[i] = q[i+1]
      /\ \A i \in 1 .. Len(q) : q[i] \in Threads
  BY HeadTailProperties
<1>2. \A u \in Threads : Priority[u] \in Int
  BY SchedAssumption DEF Prios
<1>3. ByUrgency(Tail(q))
  BY <1>1 DEF ByUrgency
<1>4. ASSUME NEW u \in ToSet(q) PROVE Priority[Head(q)] <= Priority[u]
  <2>1. PICK i \in 1 .. Len(q) : u = q[i]
    BY DEF ToSet
  <2>2. CASE i = 1
    BY <1>1, <1>2, <2>1, <2>2
  <2>3. CASE i # 1
    BY <1>1, <2>1, <2>3 DEF ByUrgency
  <2> QED BY <2>2, <2>3
<1> QED BY <1>3, <1>4

-----------------------------------------------------------------------------
(* The inductive invariant.  RunqueueConsistent is not inductive alone:    *)
(* that a blocking call takes the caller off its queue needs               *)
(* ExecutingIsHead, and that needs to know who may execute.                *)

CpuConsistent ==
    /\ irqOff <=> active = NoThread
    /\ pendsv => active # NoThread
    /\ active # NoThread => booted
    /\ booted => sched.status[Idle] \in OnRunqueue

IInv ==
    /\ TypeOK
    /\ RunqueueConsistent
    /\ PidsIdentifyThreads
    /\ ExecutingIsHead
    /\ CpuConsistent

UsedPids == {i \in Pids : container[i] # NoThread}

LEMMA UsedPidsFinite ==
    ASSUME NEW S \in SUBSET Pids
    PROVE  IsFiniteSet(S) /\ Cardinality(S) \in 0 .. MaxThreads
<1>1. IsFiniteSet(Pids) /\ Cardinality(Pids) = MaxThreads
  BY FS_Interval, SchedAssumption DEF Pids
<1>2. IsFiniteSet(S) /\ Cardinality(S) <= Cardinality(Pids)
  BY <1>1, FS_Subset
<1>3. Cardinality(S) \in Nat
  BY <1>2, FS_CardinalityType
<1> QED BY <1>1, <1>2, <1>3, SchedAssumption

(* A thread that executes in user code is ready, and it exists. *)
LEMMA ExecutingExists ==
    ASSUME IInv, NEW t \in Threads, Executing(t), pc[t] # "yield"
    PROVE  /\ sched.status[t] \in OnRunqueue
           /\ Head(sched.runqueue[Priority[t]]) = t
           /\ Exists(t)
           /\ ~irqOff /\ ~pendsv /\ booted /\ active = t
<1> DEFINE q == sched.runqueue[Priority[t]]
<1>1. Priority[t] \in Prios /\ q \in Seq(Threads)
  BY SchedAssumption DEF IInv, TypeOK
<1>2. q # <<>> /\ Head(q) = t
  BY DEF IInv, ExecutingIsHead
<1>3. t \in ToSet(q)
  BY <1>1, <1>2 DEF ToSet
<1>4. sched.status[t] \in OnRunqueue
  BY <1>1, <1>3 DEF IInv, RunqueueConsistent, Consistent
<1>5. Exists(t)
  BY <1>4 DEF IInv, PidsIdentifyThreads, OnRunqueue
<1>6. active = t /\ t # NoThread
  BY SchedAssumption DEF Executing
<1> QED BY <1>2, <1>4, <1>5, <1>6 DEF IInv, CpuConsistent, Executing

(* Thread::init gives a new thread the lowest free pid. *)
LEMMA EnlistConsistent ==
    ASSUME IInv, NEW u \in Threads, NEW new \in {"SLEEPING", "PENDING"},
           Enlist(u, new)
    PROVE  /\ sched' = SetThreadStatus(sched, u, new)
           /\ sched.status[u] = "STOPPED"
           /\ sched' \in SchedType /\ Consistent(sched')
           /\ container' \in [Pids -> Threads \cup {NoThread}]
           /\ pid' \in [Threads -> Pids \cup {PidUndef}]
           /\ numof' \in 0 .. MaxThreads
           /\ PidsIdentifyThreads'
<1> DEFINE i == LowestBit(FreePids)
<1>1. i \in Pids /\ container[i] = NoThread
  <2>1. FreePids \in SUBSET Nat /\ FreePids # {}
    BY SchedAssumption DEF FreePids, Pids, Enlist
  <2>2. i \in FreePids
    BY <2>1, LowestBitIsLowest
  <2> QED BY <2>2 DEF FreePids
<1>2. ~Exists(u) /\ sched.status[u] = "STOPPED"
  BY DEF Enlist, IInv, PidsIdentifyThreads
<1>3. sched \in SchedType /\ new \in Statuses /\ new # "STOPPED"
  BY DEF IInv, TypeOK, SchedType, Statuses, OffRunqueue, OnRunqueue
<1>4. sched' = SetThreadStatus(sched, u, new)
  <2>1. [sched EXCEPT !.status[u] = "STOPPED"] = sched
    BY <1>2, <1>3 DEF SchedType
  <2> QED BY <2>1 DEF Enlist
<1>5. sched.status[u] \notin OnRunqueue
  BY <1>2 DEF OnRunqueue
<1>6. sched' \in SchedType /\ Consistent(sched')
  BY <1>3, <1>4, <1>5, SetThreadStatusType, SetThreadStatusConsistent
     DEF IInv, RunqueueConsistent
<1>7. sched'.status = [sched.status EXCEPT ![u] = new]
  BY <1>4 DEF SetThreadStatus
<1>8. /\ container' = [container EXCEPT ![i] = u]
      /\ pid' = [pid EXCEPT ![u] = i]
      /\ numof' = numof + 1
  BY DEF Enlist
<1>9. container \in [Pids -> Threads \cup {NoThread}]
  BY DEF IInv, TypeOK
<1>10. pid \in [Threads -> Pids \cup {PidUndef}]
  BY DEF IInv, TypeOK
<1>11. /\ container' \in [Pids -> Threads \cup {NoThread}]
       /\ pid' \in [Threads -> Pids \cup {PidUndef}]
  BY <1>1, <1>8, <1>9, <1>10
<1>12. numof' = Cardinality(UsedPids') /\ numof' \in 0 .. MaxThreads
  <2>1. UsedPids' = UsedPids \cup {i} /\ i \notin UsedPids
    BY <1>1, <1>8, <1>9, SchedAssumption DEF UsedPids
  <2>2. IsFiniteSet(UsedPids) /\ numof = Cardinality(UsedPids)
    BY UsedPidsFinite DEF UsedPids, IInv, PidsIdentifyThreads
  <2>3. Cardinality(UsedPids') = Cardinality(UsedPids) + 1
    BY <2>1, <2>2, FS_AddElement
  <2>4. Cardinality(UsedPids') \in 0 .. MaxThreads
    BY UsedPidsFinite DEF UsedPids
  <2> QED BY <1>8, <2>2, <2>3, <2>4
<1>13. ASSUME NEW t \in Threads, t # u
       PROVE  /\ sched'.status[t] = sched.status[t] /\ pid'[t] = pid[t]
              /\ Exists(t)' <=> Exists(t)
              /\ Exists(t) => pid[t] # i
  <2>1. sched'.status[t] = sched.status[t] /\ pid'[t] = pid[t]
    BY <1>3, <1>7, <1>8, <1>10, <1>13 DEF SchedType
  <2>2. Exists(t)' <=> Exists(t)
    BY <1>1, <1>8, <1>9, <1>13, SchedAssumption DEF Exists
  <2>3. Exists(t) => pid[t] # i
    BY <1>1, SchedAssumption DEF IInv, PidsIdentifyThreads
  <2> QED BY <2>1, <2>2, <2>3
<1>14. /\ Exists(u)' /\ pid'[u] = i /\ container'[i] = u
       /\ sched'.status[u] = new
  BY <1>1, <1>3, <1>7, <1>8, <1>9, <1>10 DEF Exists, SchedType
<1>15. PidsIdentifyThreads'
  <2>1. \A t \in Threads : sched'.status[t] # "STOPPED" <=> Exists(t)'
    BY <1>3, <1>13, <1>14 DEF IInv, PidsIdentifyThreads
  <2>2. \A t \in Threads : Exists(t)' =>
            pid'[t] # PidUndef /\ container'[pid'[t]] = t
    <3>1. ASSUME NEW t \in Threads, t # u, Exists(t)'
          PROVE  pid'[t] # PidUndef /\ container'[pid'[t]] = t
      <4>1. pid[t] # PidUndef /\ container[pid[t]] = t /\ pid[t] \in Pids
        BY <1>10, <1>13, <3>1 DEF IInv, PidsIdentifyThreads
      <4> QED BY <1>8, <1>9, <1>13, <3>1, <4>1
    <3>2. i # PidUndef
      BY <1>1, SchedAssumption DEF Pids, PidUndef
    <3> QED BY <1>14, <3>1, <3>2
  <2>3. \A j \in Pids : container'[j] # NoThread => pid'[container'[j]] = j
    <3>1. ASSUME NEW j \in Pids, j # i, container'[j] # NoThread
          PROVE  pid'[container'[j]] = j
      <4>1. container'[j] = container[j] /\ container[j] \in Threads
        BY <1>8, <1>9, <3>1
      <4>2. container[j] # u
        BY <1>2, <3>1 DEF Exists
      <4> QED BY <1>13, <3>1, <4>1, <4>2 DEF IInv, PidsIdentifyThreads
    <3> QED BY <1>14, <3>1
  <2> QED BY <1>12, <2>1, <2>2, <2>3 DEF PidsIdentifyThreads, UsedPids
<1> QED BY <1>2, <1>4, <1>6, <1>11, <1>12, <1>15

(* exit and terminate give the pid of a live thread back. *)
LEMMA DelistConsistent ==
    ASSUME IInv, NEW u \in Threads, Exists(u),
           container' = [container EXCEPT ![pid[u]] = NoThread],
           numof' = numof - 1, pid' = pid,
           sched'.status = [sched.status EXCEPT ![u] = "STOPPED"]
    PROVE  /\ container' \in [Pids -> Threads \cup {NoThread}]
           /\ numof' \in 0 .. MaxThreads
           /\ PidsIdentifyThreads'
<1> DEFINE i == pid[u]
<1>1. /\ container \in [Pids -> Threads \cup {NoThread}]
      /\ pid \in [Threads -> Pids \cup {PidUndef}]
      /\ sched \in SchedType
  BY DEF IInv, TypeOK, SchedType
<1>2. i \in Pids /\ container[i] = u
  BY <1>1 DEF IInv, PidsIdentifyThreads
<1>3. container' \in [Pids -> Threads \cup {NoThread}]
  BY <1>1
<1>4. numof' = Cardinality(UsedPids') /\ numof' \in 0 .. MaxThreads
  <2>1. UsedPids' = UsedPids \ {i} /\ i \in UsedPids
    BY <1>1, <1>2, SchedAssumption DEF UsedPids
  <2>2. IsFiniteSet(UsedPids) /\ numof = Cardinality(UsedPids)
    BY UsedPidsFinite DEF UsedPids, IInv, PidsIdentifyThreads
  <2>3. Cardinality(UsedPids') = Cardinality(UsedPids) - 1
    BY <2>1, <2>2, FS_RemoveElement
  <2>4. Cardinality(UsedPids') \in 0 .. MaxThreads
    BY UsedPidsFinite DEF UsedPids
  <2> QED BY <2>2, <2>3, <2>4
<1>5. ASSUME NEW t \in Threads, t # u
      PROVE  /\ sched'.status[t] = sched.status[t]
             /\ Exists(t)' <=> Exists(t)
             /\ Exists(t) => pid[t] # i
  BY <1>1, <1>2, <1>5, SchedAssumption
     DEF Exists, SchedType, IInv, PidsIdentifyThreads
<1>6. ~Exists(u)' /\ sched'.status[u] = "STOPPED"
  <2>1. \A j \in Pids : container[j] = u => j = i
    BY SchedAssumption DEF IInv, PidsIdentifyThreads
  <2> QED BY <1>1, <1>2, <2>1, SchedAssumption DEF Exists, SchedType
<1>7. PidsIdentifyThreads'
  <2>1. \A t \in Threads : sched'.status[t] # "STOPPED" <=> Exists(t)'
    BY <1>5, <1>6 DEF IInv, PidsIdentifyThreads
  <2>2. ASSUME NEW t \in Threads, Exists(t)'
        PROVE  pid'[t] # PidUndef /\ container'[pid'[t]] = t
    BY <1>1, <1>2, <1>5, <1>6, <2>2 DEF IInv, PidsIdentifyThreads
  <2>3. ASSUME NEW j \in Pids, container'[j] # NoThread
        PROVE  pid'[container'[j]] = j
    BY <1>1, <1>2, <2>3 DEF IInv, PidsIdentifyThreads
  <2> QED BY <1>4, <2>1, <2>2, <2>3 DEF PidsIdentifyThreads, UsedPids
<1> QED BY <1>3, <1>4, <1>7

(* A change of status among those of a live thread leaves the pids right. *)
LEMMA PidsKept ==
    ASSUME IInv, UNCHANGED pidVars,
           \A t \in Threads :
              sched'.status[t] # "STOPPED" <=> sched.status[t] # "STOPPED"
    PROVE  PidsIdentifyThreads'
BY DEF IInv, PidsIdentifyThreads, Exists, pidVars

(* A thread that becomes ready goes behind the head of its run queue, so   *)
(* the thread that executes keeps its place.                               *)
LEMMA HeadKept ==
    ASSUME IInv, NEW u \in Threads, NEW new \in Statuses,
           sched.status[u] \notin OnRunqueue,
           sched' = SetThreadStatus(sched, u, new),
           UNCHANGED <<active, irqOff>>, pendsv => pendsv',
           \A t \in Threads : t = active /\ pc'[t] # "yield" => pc[t] # "yield"
    PROVE  ExecutingIsHead'
<1> SUFFICES ASSUME NEW t \in Threads, Executing(t)', pc'[t] # "yield"
             PROVE  /\ sched'.runqueue[Priority[t]] # <<>>
                    /\ Head(sched'.runqueue[Priority[t]]) = t
  BY DEF ExecutingIsHead
<1> DEFINE q == sched.runqueue[Priority[t]]
<1>1. Executing(t) /\ pc[t] # "yield"
  BY DEF Executing
<1>2. q # <<>> /\ Head(q) = t
  BY <1>1 DEF IInv, ExecutingIsHead
<1>3. /\ Priority[t] \in Prios /\ Priority[u] \in Prios
      /\ sched.runqueue \in [Prios -> Seq(Threads)]
  BY SchedAssumption DEF IInv, TypeOK
<1>4. \/ sched'.runqueue = sched.runqueue
      \/ sched'.runqueue = [sched.runqueue EXCEPT ![Priority[u]] = Append(@, u)]
  BY <1>3 DEF SetThreadStatus
<1>5. sched'.runqueue[Priority[t]] \in {q, Append(q, u)}
  BY <1>3, <1>4
<1>6. Append(q, u) # <<>> /\ Head(Append(q, u)) = Head(q)
  BY <1>2, <1>3, AppendProperties, HeadTailAppend
<1> QED BY <1>2, <1>5, <1>6

-----------------------------------------------------------------------------
(* One lemma per kind of step.                                             *)

LEMMA InitIInv ==
    Init => IInv
<1> SUFFICES ASSUME Init PROVE IInv
  OBVIOUS
<1>1. TypeOK
  <2>2. [t \in Threads |-> "STOPPED"] \in [Threads -> Statuses]
    BY DEF Statuses, OffRunqueue
  <2>3. [p \in Prios |-> <<>>] \in [Prios -> Seq(Threads)]
    OBVIOUS
  <2>4. sched \in [status : [Threads -> Statuses],
                  runqueue : [Prios -> Seq(Threads)], bitcache : SUBSET Prios]
    BY <2>2, <2>3 DEF Init
  <2>5. numof \in 0 .. MaxThreads
    BY SchedAssumption DEF Init
  <2>6. pid \in [Threads -> Pids \cup {PidUndef}]
    BY DEF Init
  <2>7. pc \in [Threads -> PcLabels] /\ arg \in [Threads -> Prios \cup {0}]
    BY DEF Init, PcLabels
  <2> QED BY <2>4, <2>5, <2>6, <2>7 DEF Init, TypeOK
<1>2. RunqueueConsistent
  BY DEF Init, RunqueueConsistent, Consistent, IsInjective, ToSet, OnRunqueue
<1>3. PidsIdentifyThreads
  <2>1. UsedPids = {}
    BY DEF Init, UsedPids
  <2>2. numof = Cardinality(UsedPids)
    BY <2>1, FS_EmptySet DEF Init
  <2>3. \A t \in Threads : ~Exists(t)
    BY SchedAssumption DEF Init, Exists
  <2> QED BY <2>2, <2>3 DEF Init, PidsIdentifyThreads, UsedPids
<1>4. ExecutingIsHead
  BY SchedAssumption DEF Init, ExecutingIsHead, Executing
<1>5. CpuConsistent
  BY DEF Init, CpuConsistent
<1> QED BY <1>1, <1>2, <1>3, <1>4, <1>5 DEF IInv

LEMMA CreateIInv ==
    ASSUME IInv, NEW t \in Threads, NEW u \in Threads,
           \/ \E new \in {"SLEEPING", "PENDING"} : BootCreate(u, new)
           \/ CreateSleeping(t, u)
           \/ CreateWithoutYield(t, u)
           \/ Create(t, u)
    PROVE  IInv'
<1>1. PICK new \in {"SLEEPING", "PENDING"} : Enlist(u, new)
  BY DEF BootCreate, CreateSleeping, CreateWithoutYield, Create
<1>2. /\ sched' = SetThreadStatus(sched, u, new)
      /\ sched.status[u] = "STOPPED"
      /\ sched' \in SchedType /\ Consistent(sched')
      /\ container' \in [Pids -> Threads \cup {NoThread}]
      /\ pid' \in [Threads -> Pids \cup {PidUndef}]
      /\ numof' \in 0 .. MaxThreads
      /\ PidsIdentifyThreads'
  BY <1>1, EnlistConsistent
<1>3. UNCHANGED <<active, request, pendsv, irqOff, booted>>
  BY DEF BootCreate, CreateSleeping, CreateWithoutYield, Create, cpuVars
<1>4. /\ pc' \in [Threads -> PcLabels] /\ arg' \in [Threads -> Prios \cup {0}]
      /\ deferred' \in SUBSET Threads
  <2>1. /\ pc \in [Threads -> PcLabels] /\ arg \in [Threads -> Prios \cup {0}]
        /\ deferred \in SUBSET Threads /\ Priority[u] \in Prios
    BY SchedAssumption DEF IInv, TypeOK
  <2>2. pc' \in {pc, [pc EXCEPT ![u] = "user"],
                 [pc EXCEPT ![u] = "user", ![t] = "switch"]}
    BY DEF BootCreate, CreateSleeping, CreateWithoutYield, Create, codeVars
  <2>3. arg' \in {arg, [arg EXCEPT ![t] = Priority[u]]}
    BY DEF BootCreate, CreateSleeping, CreateWithoutYield, Create, codeVars
  <2>4. deferred' \in {deferred, deferred \cup {u}}
    BY DEF BootCreate, CreateSleeping, CreateWithoutYield, Create
  <2>5. "user" \in PcLabels /\ "switch" \in PcLabels
    BY DEF PcLabels
  <2>6. pc' \in [Threads -> PcLabels]
    BY <2>1, <2>2, <2>5
  <2> QED BY <2>1, <2>3, <2>4, <2>6
<1>5. \A v \in Threads : v = active /\ pc'[v] # "yield" => pc[v] # "yield"
  <2>1. CASE \E n \in {"SLEEPING", "PENDING"} : BootCreate(u, n)
    BY <2>1 DEF BootCreate, codeVars
  <2>2. CASE CreateSleeping(t, u) \/ CreateWithoutYield(t, u) \/ Create(t, u)
    <3>1. active = t /\ pc[t] = "user"
      BY <2>2 DEF CreateSleeping, CreateWithoutYield, Create, Executing
    <3> QED BY <3>1
  <2> QED BY <2>1, <2>2
<1>6. ExecutingIsHead'
  <2>1. sched.status[u] \notin OnRunqueue /\ new \in Statuses
    BY <1>2 DEF OnRunqueue, OffRunqueue, Statuses
  <2> QED BY <1>2, <1>3, <1>5, <2>1, HeadKept
<1>7. CpuConsistent'
  <2>1. \A v \in Threads : sched.status[v] \in OnRunqueue
                              => sched'.status[v] = sched.status[v]
    BY <1>2 DEF SetThreadStatus, OnRunqueue
  <2> QED BY <1>3, <2>1, SchedAssumption DEF IInv, CpuConsistent
<1>8. TypeOK'
  BY <1>2, <1>3, <1>4 DEF IInv, TypeOK, SchedType
<1> QED BY <1>2, <1>6, <1>7, <1>8 DEF IInv, RunqueueConsistent

LEMMA DispatchIInv ==
    ASSUME IInv, SwitchContextExit \/ PendSV
    PROVE  IInv'
<1>1. sched \in SchedType /\ Consistent(sched) /\ Idle \in Threads
  BY SchedAssumption DEF IInv, TypeOK, SchedType, RunqueueConsistent
<1>2. sched.status[Idle] \in OnRunqueue
  BY DEF SwitchContextExit, PendSV, IInv, CpuConsistent
<1>3. sched.bitcache # {}
  <2>1. Priority[Idle] \in Prios
    BY SchedAssumption
  <2>2. Idle \in ToSet(sched.runqueue[Priority[Idle]])
    BY <1>1, <1>2, <2>1 DEF Consistent
  <2> QED BY <1>1, <2>1, <2>2 DEF Consistent, ToSet
<1> DEFINE n == NextThread(sched)
<1>4. /\ n \in Threads /\ sched.runqueue[Priority[n]] # <<>>
      /\ Head(sched.runqueue[Priority[n]]) = n
  BY <1>1, <1>3, NextThreadIsFirst
<1>5. PICK current \in Threads \cup {NoThread} : sched' = Run(sched, current)
  BY DEF SwitchContextExit, PendSV, IInv, TypeOK
<1>6. /\ sched' \in SchedType /\ Consistent(sched')
      /\ sched'.runqueue = sched.runqueue
      /\ \A t \in Threads :
           /\ sched'.status[t] \in OnRunqueue <=> sched.status[t] \in OnRunqueue
           /\ sched'.status[t] \notin OnRunqueue
                  => sched'.status[t] = sched.status[t]
  BY <1>1, <1>3, <1>5, RunConsistent
<1>7. active' = n /\ irqOff' = FALSE /\ pendsv' = FALSE /\ booted' = TRUE
  BY DEF SwitchContextExit, PendSV, IInv, CpuConsistent, TypeOK
<1>8. UNCHANGED <<pidVars, codeVars>> /\ request' = FALSE /\ deferred' = {}
  BY DEF SwitchContextExit, PendSV
<1>9. PidsIdentifyThreads'
  <2>1. \A t \in Threads :
           sched'.status[t] # "STOPPED" <=> sched.status[t] # "STOPPED"
    BY <1>6 DEF OnRunqueue
  <2> QED BY <1>8, <2>1, PidsKept
<1>10. ExecutingIsHead'
  BY <1>4, <1>6, <1>7 DEF ExecutingIsHead, Executing
<1>11. CpuConsistent'
  BY <1>1, <1>2, <1>4, <1>6, <1>7, SchedAssumption DEF CpuConsistent
<1>12. TypeOK'
  BY <1>4, <1>6, <1>7, <1>8 DEF IInv, TypeOK, SchedType, pidVars, codeVars
<1> QED BY <1>6, <1>9, <1>10, <1>11, <1>12 DEF IInv, RunqueueConsistent

(* A call that blocks the thread that executes: sleep(), lock(), a wait    *)
(* for flags, a send or a receive.                                         *)
LEMMA BlockIInv ==
    ASSUME IInv, NEW t \in Threads, NEW new \in OffRunqueue \ {"STOPPED"},
           Executing(t), pc[t] # "yield", t # Idle,
           sched' = SetThreadStatus(sched, t, new),
           pc' = [pc EXCEPT ![t] = "yield"],
           UNCHANGED <<active, cpuVars, pidVars, arg, deferred>>
    PROVE  IInv'
<1>1. /\ sched.status[t] \in OnRunqueue /\ active = t
      /\ Head(sched.runqueue[Priority[t]]) = t
  BY ExecutingExists
<1>2. sched \in SchedType /\ Consistent(sched) /\ new \in Statuses
  BY DEF IInv, TypeOK, SchedType, RunqueueConsistent, Statuses
<1>3. sched' \in SchedType /\ Consistent(sched')
  BY <1>1, <1>2, SetThreadStatusType, SetThreadStatusConsistent
<1>4. sched'.status = [sched.status EXCEPT ![t] = new]
  BY DEF SetThreadStatus
<1>5. PidsIdentifyThreads'
  <2>1. \A v \in Threads :
           sched'.status[v] # "STOPPED" <=> sched.status[v] # "STOPPED"
    BY <1>1, <1>2, <1>4 DEF SchedType, OnRunqueue
  <2> QED BY <2>1, PidsKept
<1>6. pc' \in [Threads -> PcLabels] /\ pc'[t] = "yield"
  BY DEF IInv, TypeOK, PcLabels
<1>7. ExecutingIsHead'
  BY <1>1, <1>6 DEF ExecutingIsHead, Executing
<1>8. CpuConsistent'
  BY <1>2, <1>4, SchedAssumption DEF IInv, CpuConsistent, cpuVars, SchedType
<1>9. TypeOK'
  BY <1>3, <1>6 DEF IInv, TypeOK, SchedType, cpuVars, pidVars
<1> QED BY <1>3, <1>5, <1>7, <1>8, <1>9 DEF IInv, RunqueueConsistent

(* A call, or a handler, that makes a blocked thread ready. *)
LEMMA ReadyIInv ==
    ASSUME IInv, NEW u \in Threads,
           sched.status[u] \in OffRunqueue \ {"STOPPED"},
           sched' = SetThreadStatus(sched, u, "PENDING"),
           UNCHANGED <<active, irqOff, booted, pidVars, deferred>>,
           pendsv => pendsv', pendsv' => active # NoThread,
           request' \in BOOLEAN, pendsv' \in BOOLEAN,
           pc' \in [Threads -> PcLabels], arg' \in [Threads -> Prios \cup {0}],
           \A v \in Threads : v = active /\ pc'[v] # "yield" => pc[v] # "yield"
    PROVE  IInv'
<1>1. /\ sched \in SchedType /\ Consistent(sched) /\ "PENDING" \in Statuses
      /\ sched.status[u] \notin OnRunqueue
  BY DEF IInv, TypeOK, SchedType, RunqueueConsistent, Statuses, OffRunqueue,
     OnRunqueue
<1>2. sched' \in SchedType /\ Consistent(sched')
  BY <1>1, SetThreadStatusType, SetThreadStatusConsistent
<1>3. sched'.status = [sched.status EXCEPT ![u] = "PENDING"]
  BY DEF SetThreadStatus
<1>4. PidsIdentifyThreads'
  <2>1. \A v \in Threads :
           sched'.status[v] # "STOPPED" <=> sched.status[v] # "STOPPED"
    BY <1>1, <1>3 DEF SchedType
  <2> QED BY <2>1, PidsKept
<1>5. ExecutingIsHead'
  BY <1>1, HeadKept
<1>6. CpuConsistent'
  <2>1. booted => sched'.status[Idle] \in OnRunqueue
    BY <1>1, <1>3, SchedAssumption DEF IInv, CpuConsistent, SchedType, OnRunqueue
  <2> QED BY <2>1 DEF IInv, CpuConsistent
<1>7. TypeOK'
  BY <1>2 DEF IInv, TypeOK, SchedType, pidVars
<1> QED BY <1>2, <1>4, <1>5, <1>6, <1>7 DEF IInv, RunqueueConsistent

(* A step that changes only where the thread that executes stands in the   *)
(* kernel, and perhaps asks for a switch.                                  *)
LEMMA PlaceIInv ==
    ASSUME IInv, NEW t \in Threads, Executing(t), pc[t] # "yield",
           NEW place \in PcLabels, pc' = [pc EXCEPT ![t] = place],
           UNCHANGED <<sched, active, pendsv, irqOff, booted, pidVars, arg,
                       deferred>>,
           request' \in BOOLEAN
    PROVE  IInv'
<1>1. active = t /\ pc' \in [Threads -> PcLabels]
  BY DEF Executing, IInv, TypeOK
<1>2. PidsIdentifyThreads'
  BY PidsKept
<1>3. ExecutingIsHead'
  BY <1>1 DEF IInv, ExecutingIsHead, Executing
<1>4. CpuConsistent'
  BY DEF IInv, CpuConsistent
<1>5. TypeOK'
  BY <1>1 DEF IInv, TypeOK, pidVars
<1> QED BY <1>2, <1>3, <1>4, <1>5 DEF IInv, RunqueueConsistent, Consistent

LEMMA SleepIInv ==
    ASSUME IInv, NEW t \in Threads, Sleep(t)
    PROVE  IInv'
BY BlockIInv DEF Sleep, OffRunqueue

LEMMA WakeupIInv ==
    ASSUME IInv, NEW t \in Threads, NEW u \in Threads,
           Wakeup(t, u) \/ IsrWakeup(u)
    PROVE  IInv'
<1>1. /\ sched.status[u] \in OffRunqueue \ {"STOPPED"}
      /\ sched' = SetThreadStatus(sched, u, "PENDING")
      /\ UNCHANGED <<active, irqOff, booted, pidVars, deferred>>
      /\ pendsv => pendsv'
      /\ pendsv' => active # NoThread
  <2>1. CASE Wakeup(t, u)
    BY <2>1, SchedAssumption DEF Wakeup, cpuVars, Executing, OffRunqueue
  <2>2. CASE IsrWakeup(u)
    BY <2>2 DEF IsrWakeup, EndOfIsr, IsrEnabled, OffRunqueue
  <2> QED BY <2>1, <2>2
<1>2. /\ pc' \in [Threads -> PcLabels] /\ arg' \in [Threads -> Prios \cup {0}]
      /\ request' \in BOOLEAN /\ pendsv' \in BOOLEAN
  <2>1. /\ pc \in [Threads -> PcLabels] /\ arg \in [Threads -> Prios \cup {0}]
        /\ request \in BOOLEAN /\ pendsv \in BOOLEAN
        /\ Priority[u] \in Prios /\ "switch" \in PcLabels
    BY SchedAssumption DEF IInv, TypeOK, PcLabels
  <2>2. CASE Wakeup(t, u)
    BY <2>1, <2>2 DEF Wakeup, cpuVars
  <2>3. CASE IsrWakeup(u)
    BY <2>1, <2>3 DEF IsrWakeup, EndOfIsr, codeVars
  <2> QED BY <2>2, <2>3
<1>3. \A v \in Threads : v = active /\ pc'[v] # "yield" => pc[v] # "yield"
  BY DEF Wakeup, IsrWakeup, Executing, codeVars
<1> QED BY <1>1, <1>2, <1>3, ReadyIInv

LEMMA YieldIInv ==
    ASSUME IInv, NEW t \in Threads, Yield(t)
    PROVE  IInv'
<1> DEFINE p == Priority[t]
           q == sched.runqueue[p]
<1>1. sched.status[t] \in OnRunqueue /\ active = t
  BY ExecutingExists DEF Yield
<1>2. sched \in SchedType /\ Consistent(sched) /\ p \in Prios
  BY SchedAssumption DEF IInv, TypeOK, SchedType, RunqueueConsistent
<1>3. /\ sched' = [sched EXCEPT !.runqueue[p] = LeftPopRightPush(@)]
      /\ UNCHANGED <<active, cpuVars, pidVars, arg, deferred>>
      /\ pc' = [pc EXCEPT ![t] = "yield"]
  BY <1>1 DEF Yield
<1>4. /\ LeftPopRightPush(q) \in Seq(Threads) /\ IsInjective(LeftPopRightPush(q))
      /\ ToSet(LeftPopRightPush(q)) = ToSet(q)
      /\ LeftPopRightPush(q) = <<>> <=> q = <<>>
  BY <1>2, RotateDistinct DEF SchedType, Consistent
<1>5. /\ sched'.status = sched.status /\ sched'.bitcache = sched.bitcache
      /\ sched'.runqueue = [sched.runqueue EXCEPT ![p] = LeftPopRightPush(q)]
      /\ sched' \in SchedType
  BY <1>2, <1>3, <1>4 DEF SchedType
<1>6. Consistent(sched')
  BY <1>2, <1>4, <1>5 DEF Consistent, SchedType
<1>7. PidsIdentifyThreads'
  BY <1>3, <1>5, PidsKept
<1>8. pc' \in [Threads -> PcLabels] /\ pc'[t] = "yield"
  BY <1>3 DEF IInv, TypeOK, PcLabels
<1>9. ExecutingIsHead'
  BY <1>1, <1>3, <1>8 DEF ExecutingIsHead, Executing
<1>10. CpuConsistent'
  BY <1>3, <1>5 DEF IInv, CpuConsistent, cpuVars
<1>11. TypeOK'
  BY <1>3, <1>5, <1>8 DEF IInv, TypeOK, SchedType, cpuVars, pidVars
<1> QED BY <1>6, <1>7, <1>9, <1>10, <1>11 DEF IInv, RunqueueConsistent

LEMMA StopIInv ==
    ASSUME IInv, NEW t \in Threads, NEW u \in Threads,
           (Exit(t) /\ u = t) \/ Terminate(t, u)
    PROVE  IInv'
<1>1. /\ sched' = SetThreadStatus(sched, u, "STOPPED")
      /\ container' = [container EXCEPT ![pid[u]] = NoThread]
      /\ numof' = numof - 1
      /\ u # Idle
      /\ UNCHANGED <<request, pendsv, booted, pid, codeVars, deferred>>
  BY DEF Exit, Terminate, cpuVars
<1>2. /\ sched.status[t] \in OnRunqueue /\ active = t /\ ~pendsv
      /\ Head(sched.runqueue[Priority[t]]) = t /\ Exists(t)
  BY ExecutingExists DEF Exit, Terminate
<1>3. Exists(u)
  BY <1>2 DEF Terminate
<1>4. sched.status[u] \in OnRunqueue => Head(sched.runqueue[Priority[u]]) = u
  BY <1>2, SchedAssumption DEF Terminate, OffRunqueue, OnRunqueue
<1>5. sched \in SchedType /\ Consistent(sched) /\ "STOPPED" \in Statuses
  BY DEF IInv, TypeOK, SchedType, RunqueueConsistent, Statuses, OffRunqueue
<1>6. sched' \in SchedType /\ Consistent(sched')
  BY <1>1, <1>4, <1>5, SetThreadStatusType, SetThreadStatusConsistent
<1>7. sched'.status = [sched.status EXCEPT ![u] = "STOPPED"]
  BY <1>1 DEF SetThreadStatus
<1>8. /\ container' \in [Pids -> Threads \cup {NoThread}]
      /\ numof' \in 0 .. MaxThreads
      /\ PidsIdentifyThreads'
  BY <1>1, <1>3, <1>7, DelistConsistent
<1>9. \/ active' = NoThread /\ irqOff' = TRUE
      \/ active' = active /\ irqOff' = irqOff /\ Terminate(t, u)
  BY DEF Exit, Terminate, cpuVars
<1>10. ExecutingIsHead'
  <2>1. CASE active' = NoThread
    BY <2>1, SchedAssumption DEF ExecutingIsHead, Executing
  <2>2. CASE Terminate(t, u) /\ active' = active /\ irqOff' = irqOff
    <3>1. sched.status[u] \notin OnRunqueue
      BY <2>2, SchedAssumption DEF Terminate, OffRunqueue, OnRunqueue
    <3> QED BY <1>1, <1>5, <2>2, <3>1, HeadKept DEF codeVars
  <2> QED BY <1>9, <2>1, <2>2
<1>11. CpuConsistent'
  <2>1. booted => sched'.status[Idle] \in OnRunqueue
    BY <1>1, <1>5, <1>7, SchedAssumption DEF IInv, CpuConsistent, SchedType
  <2> QED BY <1>1, <1>2, <1>9, <2>1 DEF IInv, CpuConsistent
<1>12. TypeOK'
  BY <1>1, <1>6, <1>8, <1>9 DEF IInv, TypeOK, SchedType, codeVars
<1> QED BY <1>6, <1>8, <1>10, <1>11, <1>12 DEF IInv, RunqueueConsistent

LEMMA KernelStepIInv ==
    ASSUME IInv, NEW t \in Threads, KernelStep(t)
    PROVE  IInv'
<1>1. /\ UNCHANGED <<sched, active, request, irqOff, booted, pidVars, deferred>>
      /\ pc' = [pc EXCEPT ![t] = "user"] /\ active = t
      /\ pendsv' \in BOOLEAN /\ (pendsv => pendsv')
      /\ arg' \in {arg, [arg EXCEPT ![t] = 0]}
  BY DEF KernelStep, ContextSwitch, YieldHigher, Executing, IInv, TypeOK
<1>2. t # NoThread
  BY SchedAssumption
<1>3. ExecutingIsHead'
  <2>1. CASE YieldHigher(t)
    BY <1>1, <1>2, <2>1
       DEF YieldHigher, ExecutingIsHead, Executing, IInv, CpuConsistent
  <2>2. CASE ContextSwitch(t)
    <3>1. Executing(t)
      BY <2>2 DEF ContextSwitch
    <3>2. \A v \in Threads : Executing(v)' => v = t
      BY <1>1 DEF Executing
    <3>3. pc[t] # "yield"
      BY <2>2 DEF ContextSwitch
    <3> QED BY <1>1, <3>1, <3>2, <3>3 DEF IInv, ExecutingIsHead
  <2> QED BY <2>1, <2>2 DEF KernelStep
<1>4. PidsIdentifyThreads'
  BY <1>1, PidsKept
<1>5. CpuConsistent'
  BY <1>1, <1>2 DEF IInv, CpuConsistent
<1>6. TypeOK'
  <2>1. pc' \in [Threads -> PcLabels]
    BY <1>1 DEF IInv, TypeOK, PcLabels
  <2>2. arg' \in [Threads -> Prios \cup {0}]
    BY <1>1 DEF IInv, TypeOK
  <2>3. UNCHANGED <<sched, active, request, irqOff, booted, container, pid, numof,
                    deferred>>
    BY <1>1 DEF pidVars
  <2>4. pendsv' \in BOOLEAN
    BY <1>1
  <2> QED BY ONLY IInv, <2>1, <2>2, <2>3, <2>4 DEF IInv, TypeOK
<1> QED BY <1>1, <1>3, <1>4, <1>5, <1>6 DEF IInv, RunqueueConsistent, Consistent

LEMMA StutterIInv ==
    ASSUME IInv, UNCHANGED schedVars
    PROVE  IInv'
BY DEF schedVars, IInv, TypeOK, RunqueueConsistent, Consistent,
   PidsIdentifyThreads, Exists, ExecutingIsHead, Executing, CpuConsistent

LEMMA NextIInv ==
    IInv /\ [Next]_schedVars => IInv'
<1> SUFFICES ASSUME IInv, [Next]_schedVars PROVE IInv'
  OBVIOUS
<1>1. CASE Boot
  BY <1>1, CreateIInv DEF Boot
<1>2. CASE SwitchContextExit \/ PendSV
  BY <1>2, DispatchIInv
<1>3. ASSUME NEW t \in Threads, UserCall(t) PROVE IInv'
  <2>1. CASE \E u \in Threads :
               CreateSleeping(t, u) \/ CreateWithoutYield(t, u) \/ Create(t, u)
    BY <2>1, CreateIInv
  <2>2. CASE Sleep(t)
    BY <2>2, SleepIInv
  <2>3. CASE Yield(t)
    BY <2>3, YieldIInv
  <2>4. CASE Exit(t) \/ \E u \in Threads : Terminate(t, u)
    BY <2>4, StopIInv
  <2>5. CASE \E u \in Threads : Wakeup(t, u)
    BY <2>5, WakeupIInv
  <2> QED BY <1>3, <2>1, <2>2, <2>3, <2>4, <2>5 DEF UserCall
<1>4. ASSUME NEW t \in Threads, KernelStep(t) PROVE IInv'
  BY <1>4, KernelStepIInv
<1>5. ASSUME NEW u \in Threads, IsrWakeup(u) PROVE IInv'
  BY <1>5, WakeupIInv
<1>6. CASE UNCHANGED schedVars
  BY <1>6, StutterIInv
<1> QED BY <1>1, <1>2, <1>3, <1>4, <1>5, <1>6 DEF Next

-----------------------------------------------------------------------------
(* What a step of the scheduler does to statuses, for the modules that     *)
(* build on it.                                                            *)

SystemStep ==
    \/ Boot \/ SwitchContextExit \/ PendSV
    \/ \E t \in Threads : KernelStep(t)
    \/ \E u \in Threads : IsrWakeup(u)

(* The status of u stays, or changes as run(), a creation or a wakeup does. *)
Moved(u) ==
    \/ sched'.status[u] = sched.status[u]
    \/ sched.status[u] \in OnRunqueue /\ sched'.status[u] \in OnRunqueue
    \/ sched.status[u] = "STOPPED" /\ sched'.status[u] \in {"SLEEPING", "PENDING"}
    \/ sched.status[u] = "SLEEPING" /\ sched'.status[u] = "PENDING"

LEMMA EnlistMoves ==
    ASSUME IInv, NEW u \in Threads, NEW new \in {"SLEEPING", "PENDING"},
           Enlist(u, new)
    PROVE  \A v \in Threads : Moved(v)
<1>1. sched'.status = [sched.status EXCEPT ![u] = new] /\ sched.status[u] = "STOPPED"
  BY EnlistConsistent DEF SetThreadStatus
<1>2. sched.status \in [Threads -> Statuses]
  BY DEF IInv, TypeOK
<1> QED BY <1>1, <1>2 DEF Moved

LEMMA WakeupMoves ==
    ASSUME IInv, NEW u \in Threads, sched.status[u] = "SLEEPING",
           sched' = SetThreadStatus(sched, u, "PENDING")
    PROVE  \A v \in Threads : Moved(v)
<1>1. sched'.status = [sched.status EXCEPT ![u] = "PENDING"]
  BY DEF SetThreadStatus
<1>2. sched.status \in [Threads -> Statuses]
  BY DEF IInv, TypeOK
<1> QED BY <1>1, <1>2 DEF Moved

(* run() changes no status but between PENDING and RUNNING. *)
LEMMA DispatchMoves ==
    ASSUME IInv, SwitchContextExit \/ PendSV
    PROVE  \A v \in Threads :
              \/ sched'.status[v] = sched.status[v]
              \/ sched.status[v] \in OnRunqueue /\ sched'.status[v] \in OnRunqueue
<1>1. sched \in SchedType /\ Consistent(sched) /\ Idle \in Threads
  BY SchedAssumption DEF IInv, TypeOK, SchedType, RunqueueConsistent
<1>2. sched.status[Idle] \in OnRunqueue
  BY DEF SwitchContextExit, PendSV, IInv, CpuConsistent
<1>3. sched.bitcache # {}
  <2>1. Priority[Idle] \in Prios
    BY SchedAssumption
  <2>2. Idle \in ToSet(sched.runqueue[Priority[Idle]])
    BY <1>1, <1>2, <2>1 DEF Consistent
  <2> QED BY <1>1, <2>1, <2>2 DEF Consistent, ToSet
<1>4. PICK current \in Threads \cup {NoThread} : sched' = Run(sched, current)
  BY DEF SwitchContextExit, PendSV, IInv, TypeOK
<1> QED BY <1>1, <1>3, <1>4, RunConsistent

LEMMA SystemMoves ==
    ASSUME IInv, SystemStep
    PROVE  \A v \in Threads : Moved(v)
<1>1. CASE Boot
  BY <1>1, EnlistMoves DEF Boot, BootCreate
<1>2. CASE SwitchContextExit \/ PendSV
  BY <1>2, DispatchMoves DEF Moved
<1>3. CASE \E t \in Threads : KernelStep(t)
  BY <1>3 DEF KernelStep, ContextSwitch, YieldHigher, Moved
<1>4. CASE \E u \in Threads : IsrWakeup(u)
  BY <1>4, WakeupMoves DEF IsrWakeup
<1> QED BY <1>1, <1>2, <1>3, <1>4 DEF SystemStep

(* A call of a thread may also end or suspend the thread, and terminate    *)
(* another one.                                                            *)
LEMMA UserCallMoves ==
    ASSUME IInv, NEW t \in Threads, UserCall(t)
    PROVE  /\ active = t /\ sched.status[t] \in OnRunqueue
           /\ \A v \in Threads :
                \/ Moved(v)
                \/ v = t /\ sched'.status[v] \in {"SLEEPING", "STOPPED"}
                \/ sched.status[v] \in Terminable /\ sched'.status[v] = "STOPPED"
<1>1. active = t /\ sched.status[t] \in OnRunqueue
  <2>1. Executing(t) /\ pc[t] # "yield"
    BY DEF UserCall, Sleep, Yield, Exit, CreateSleeping, CreateWithoutYield,
       Create, Wakeup, Terminate
  <2> QED BY <2>1, ExecutingExists
<1>2. sched.status \in [Threads -> Statuses]
  BY DEF IInv, TypeOK
<1>3. CASE \E u \in Threads :
             CreateSleeping(t, u) \/ CreateWithoutYield(t, u) \/ Create(t, u)
  <2>1. PICK u \in Threads : \E new \in {"SLEEPING", "PENDING"} : Enlist(u, new)
    BY <1>3 DEF CreateSleeping, CreateWithoutYield, Create
  <2> QED BY <1>1, <2>1, EnlistMoves
<1>4. CASE \E u \in Threads : Wakeup(t, u)
  BY <1>1, <1>4, WakeupMoves DEF Wakeup
<1>5. CASE Sleep(t) \/ Exit(t)
  <2>1. PICK new \in {"SLEEPING", "STOPPED"} :
            sched'.status = [sched.status EXCEPT ![t] = new]
    <3>1. CASE Sleep(t)
      BY <3>1 DEF Sleep, SetThreadStatus
    <3>2. CASE Exit(t)
      BY <3>2 DEF Exit, SetThreadStatus
    <3> QED BY <1>5, <3>1, <3>2
  <2> QED BY <1>1, <1>2, <2>1 DEF Moved
<1>6. CASE Yield(t)
  <2>1. sched'.status = sched.status
    BY <1>6 DEF Yield, IInv, TypeOK
  <2> QED BY <1>1, <2>1 DEF Moved
<1>7. CASE \E u \in Threads : Terminate(t, u)
  <2>1. PICK u \in Threads :
            /\ sched.status[u] \in Terminable
            /\ sched'.status = [sched.status EXCEPT ![u] = "STOPPED"]
    BY <1>7 DEF Terminate, SetThreadStatus
  <2> QED BY <1>1, <1>2, <2>1 DEF Moved
<1> QED BY <1>3, <1>4, <1>5, <1>6, <1>7 DEF UserCall

(* A thread keeps its pid as long as it exists. *)
LEMMA PidStays ==
    ASSUME IInv,
           SystemStep \/ (\E t \in Threads : UserCall(t)) \/ UNCHANGED schedVars,
           NEW u \in Threads, Exists(u)
    PROVE  pid'[u] = pid[u]
<1>1. pid \in [Threads -> Pids \cup {PidUndef}]
  BY DEF IInv, TypeOK
<1>2. ASSUME NEW v \in Threads, NEW new, Enlist(v, new) PROVE pid'[u] = pid[u]
  BY <1>1, <1>2 DEF Enlist
<1>3. CASE SystemStep
  <2>1. CASE Boot
    BY <1>2, <2>1 DEF Boot, BootCreate
  <2>2. CASE ~Boot
    BY <1>3, <2>2 DEF SystemStep, SwitchContextExit, PendSV, KernelStep, ContextSwitch,
       YieldHigher, IsrWakeup, pidVars
  <2> QED BY <2>1, <2>2
<1>4. ASSUME NEW t \in Threads, UserCall(t) PROVE pid'[u] = pid[u]
  <2>1. CASE \E v \in Threads :
               CreateSleeping(t, v) \/ CreateWithoutYield(t, v) \/ Create(t, v)
    BY <1>2, <2>1 DEF CreateSleeping, CreateWithoutYield, Create
  <2>2. CASE \/ Sleep(t) \/ Yield(t) \/ Exit(t)
             \/ \E v \in Threads : Wakeup(t, v) \/ Terminate(t, v)
    BY <2>2 DEF Sleep, Yield, Exit, Wakeup, Terminate, pidVars
  <2> QED BY <1>4, <2>1, <2>2 DEF UserCall
<1>5. CASE UNCHANGED schedVars
  BY <1>5 DEF schedVars
<1> QED BY <1>3, <1>4, <1>5

(* Their steps, of which a module that builds on the scheduler takes some, *)
(* keep the invariant of the scheduler.                                    *)
LEMMA SchedStepIInv ==
    ASSUME IInv,
           SystemStep \/ (\E t \in Threads : UserCall(t)) \/ UNCHANGED schedVars
    PROVE  IInv'
BY NextIInv DEF SystemStep, Next

-----------------------------------------------------------------------------
(* Every reachable state of the scheduler satisfies the invariant.         *)
THEOREM Invariance == Spec => []IInv
<1> QED BY InitIInv, NextIInv, PTL DEF Spec

(* No variable leaves its type: in particular run() always finds a thread, *)
(* and threads_container never counts more threads than it has slots.      *)
THEOREM TypeCorrect == Spec => []TypeOK
<1>1. IInv => TypeOK
  BY DEF IInv
<1> QED BY <1>1, Invariance, PTL

(* At every moment the run queues, the bitmap and the thread statuses say  *)
(* the same: the head that set_thread_status takes off a queue is the      *)
(* thread it was called for.                                               *)
THEOREM RunqueuesAgree == Spec => []RunqueueConsistent
<1>1. IInv => RunqueueConsistent
  BY DEF IInv
<1> QED BY <1>1, Invariance, PTL

(* The thread that executes heads the run queue of its priority.           *)
THEOREM ExecutingHeads == Spec => []ExecutingIsHead
<1>1. IInv => ExecutingIsHead
  BY DEF IInv
<1> QED BY <1>1, Invariance, PTL

(* threads_container, the pids the threads carry, their statuses and the   *)
(* count of threads agree.                                                 *)
THEOREM PidsAgree == Spec => []PidsIdentifyThreads
<1>1. IInv => PidsIdentifyThreads
  BY DEF IInv
<1> QED BY <1>1, Invariance, PTL

-----------------------------------------------------------------------------
(* Preemption.  PriorityHonoured is inductive relative to IInv.            *)

(* run() leaves no ready thread more urgent than the one it picks. *)
LEMMA DispatchHonoursPriority ==
    ASSUME IInv, SwitchContextExit \/ PendSV
    PROVE  PriorityHonoured'
<1>1. sched \in SchedType /\ Consistent(sched) /\ Idle \in Threads
  BY SchedAssumption DEF IInv, TypeOK, SchedType, RunqueueConsistent
<1>2. sched.status[Idle] \in OnRunqueue /\ Priority[Idle] \in Prios
  BY SchedAssumption DEF SwitchContextExit, PendSV, IInv, CpuConsistent
<1>3. sched.bitcache # {}
  BY <1>1, <1>2 DEF Consistent, ToSet
<1>4. PICK current \in Threads \cup {NoThread} : sched' = Run(sched, current)
  BY DEF SwitchContextExit, PendSV, IInv, TypeOK
<1>5. active' = NextThread(sched)
  BY DEF SwitchContextExit, PendSV
<1>6. \A u \in Threads : sched'.status[u] \in OnRunqueue
                            => Priority[active'] <= Priority[u]
  BY <1>1, <1>3, <1>4, <1>5, NextThreadIsFirst, RunConsistent
<1>7. \A u \in Threads : Priority[u] \in Int
  BY SchedAssumption DEF Prios
<1>8. active' \in Threads
  BY <1>1, <1>3, <1>5, NextThreadIsFirst
<1>9. \A u \in Threads : ~(/\ active' # NoThread
                           /\ sched'.status[u] \in OnRunqueue
                           /\ Priority[u] < Priority[active'])
  BY <1>6, <1>7, <1>8
<1> QED BY <1>9 DEF PriorityHonoured

(* A thread that leaves the core to others asks for the switch next. *)
LEMMA LeavingHonoursPriority ==
    ASSUME IInv, NEW t \in Threads,
           Sleep(t) \/ Yield(t) \/ Exit(t) \/ YieldHigher(t)
    PROVE  PriorityHonoured'
<1>1. CASE Exit(t)
  BY <1>1 DEF Exit, PriorityHonoured
<1>2. CASE YieldHigher(t)
  BY <1>2 DEF YieldHigher, PriorityHonoured
<1>3. CASE Sleep(t) \/ Yield(t)
  <2>1. active' = t /\ pc' = [pc EXCEPT ![t] = "yield"]
    BY <1>3 DEF Sleep, Yield, Executing
  <2>2. pc'[active'] = "yield"
    BY <2>1 DEF IInv, TypeOK
  <2> QED BY <2>2 DEF PriorityHonoured
<1> QED BY <1>1, <1>2, <1>3

(* context_switch asks for the switch the call before it made necessary. *)
LEMMA ContextSwitchHonoursPriority ==
    ASSUME IInv, PriorityHonoured, NEW t \in Threads, ContextSwitch(t)
    PROVE  PriorityHonoured'
<1> SUFFICES ASSUME NEW u \in Threads, active' # NoThread,
                    sched'.status[u] \in OnRunqueue,
                    Priority[u] < Priority[active']
             PROVE  u \in deferred' \/ pendsv'
  BY DEF PriorityHonoured
<1>1. /\ active = t /\ active' = active /\ sched' = sched
      /\ deferred' = deferred /\ pc[t] = "switch"
      /\ pendsv' = (pendsv \/ NeedsSwitch(sched, arg[t]))
  BY DEF ContextSwitch, Executing
<1>2. u \in deferred \/ pendsv \/ arg[t] < Priority[t]
  BY <1>1 DEF PriorityHonoured
<1>3. arg[t] \in Int /\ Priority[t] \in Int
  BY SchedAssumption DEF IInv, TypeOK, Prios
<1>4. arg[t] < Priority[t] => NeedsSwitch(sched, arg[t])
  BY <1>1, <1>3 DEF NeedsSwitch
<1> QED BY <1>1, <1>2, <1>4

(* A thread that becomes ready is announced by the call, or the handler,   *)
(* that made it so.                                                        *)
LEMMA ReadyHonoursPriority ==
    ASSUME IInv, IInv', PriorityHonoured, NEW t \in Threads, NEW v \in Threads,
           \/ CreateSleeping(t, v) \/ CreateWithoutYield(t, v) \/ Create(t, v)
           \/ Wakeup(t, v) \/ Terminate(t, v) \/ IsrWakeup(v)
    PROVE  PriorityHonoured'
<1> DEFINE Announced(u) ==
              \/ u \in deferred
              \/ pendsv
              \/ pc[active] \in {"yield", "sleep"}
              \/ pc[active] = "switch" /\ arg[active] < Priority[active]
<1> SUFFICES ASSUME NEW u \in Threads, active' # NoThread,
                    sched'.status[u] \in OnRunqueue,
                    Priority[u] < Priority[active']
             PROVE  Announced(u)'
  BY DEF PriorityHonoured
<1>1. active' = active /\ active \in Threads
  BY DEF CreateSleeping, CreateWithoutYield, Create, Wakeup, Terminate,
     IsrWakeup, IInv, TypeOK
<1>2. /\ sched.status \in [Threads -> Statuses]
      /\ pc \in [Threads -> PcLabels] /\ arg \in [Threads -> Prios \cup {0}]
  BY DEF IInv, TypeOK
<1>3. sched.status[u] \in OnRunqueue => Announced(u)
  BY <1>1 DEF PriorityHonoured
<1>4. CASE CreateSleeping(t, v) \/ Terminate(t, v)
  <2>1. sched'.status[u] = sched.status[u]
    <3>1. \E new \in {"SLEEPING", "STOPPED"} :
             sched'.status = [sched.status EXCEPT ![v] = new]
      <4>1. CASE CreateSleeping(t, v)
        BY <4>1, EnlistConsistent DEF CreateSleeping, SetThreadStatus
      <4>2. CASE Terminate(t, v)
        BY <4>2 DEF Terminate, SetThreadStatus
      <4> QED BY <1>4, <4>1, <4>2
    <3> QED BY <1>2, <3>1 DEF OnRunqueue
  <2>2. /\ pc[active] = "user" /\ active = t /\ ~pendsv
        /\ deferred' = deferred
    <3>1. pc[t] = "user" /\ Executing(t) /\ deferred' = deferred
      BY <1>4 DEF CreateSleeping, Terminate
    <3> QED BY <3>1, ExecutingExists
  <2> QED BY <1>3, <2>1, <2>2
<1>5. CASE CreateWithoutYield(t, v)
  <2>1. sched'.status = [sched.status EXCEPT ![v] = "PENDING"]
    BY <1>5, EnlistConsistent DEF CreateWithoutYield, SetThreadStatus
  <2>2. pc[active] = "user" /\ ~pendsv /\ deferred' = deferred \cup {v}
    <3>1. pc[t] = "user" /\ Executing(t) /\ deferred' = deferred \cup {v}
      BY <1>5 DEF CreateWithoutYield
    <3> QED BY <3>1, ExecutingExists
  <2>3. u # v => sched'.status[u] = sched.status[u]
    BY <1>2, <2>1
  <2> QED BY <1>3, <2>2, <2>3
<1>6. CASE Create(t, v) \/ Wakeup(t, v)
  <2>1. sched'.status = [sched.status EXCEPT ![v] = "PENDING"]
    <3>1. CASE Create(t, v)
      BY <3>1, EnlistConsistent DEF Create, SetThreadStatus
    <3>2. CASE Wakeup(t, v)
      BY <3>2 DEF Wakeup, SetThreadStatus
    <3> QED BY <1>6, <3>1, <3>2
  <2>2. /\ pc[active] = "user" /\ active = t /\ ~pendsv
        /\ deferred' = deferred
    <3>1. pc[t] = "user" /\ Executing(t) /\ deferred' = deferred
      BY <1>6 DEF Create, Wakeup
    <3> QED BY <3>1, ExecutingExists
  <2>3. pc'[t] = "switch" /\ arg'[t] = Priority[v]
    BY <1>2, <1>6 DEF Create, Wakeup
  <2>4. u # v => sched'.status[u] = sched.status[u]
    BY <1>2, <2>1
  <2> QED BY <1>1, <1>3, <2>2, <2>3, <2>4
<1>7. CASE IsrWakeup(v)
  <2>1. sched'.status = [sched.status EXCEPT ![v] = "PENDING"]
    BY <1>7 DEF IsrWakeup, SetThreadStatus
  <2>2. UNCHANGED <<pc, arg, deferred>>
    BY <1>7 DEF IsrWakeup, EndOfIsr, codeVars
  <2>3. CASE u = v
    <3>1. NeedsSwitch(sched', Priority[v])
      BY <1>1, <2>3 DEF NeedsSwitch
    <3>2. pendsv'
      BY <1>7, <3>1 DEF IsrWakeup, EndOfIsr
    <3> QED BY <3>2
  <2>4. CASE u # v
    <3>1. sched'.status[u] = sched.status[u]
      BY <1>2, <2>1, <2>4
    <3>2. pendsv => pendsv'
      BY <1>7 DEF IsrWakeup, EndOfIsr
    <3> QED BY <1>1, <1>3, <2>2, <3>1, <3>2
  <2> QED BY <2>3, <2>4
<1> QED BY <1>4, <1>5, <1>6, <1>7

LEMMA PriorityNext ==
    IInv /\ IInv' /\ PriorityHonoured /\ [Next]_schedVars => PriorityHonoured'
<1> SUFFICES ASSUME IInv, IInv', PriorityHonoured, [Next]_schedVars
             PROVE  PriorityHonoured'
  OBVIOUS
<1>1. CASE Boot
  <2>1. active' = NoThread
    BY <1>1 DEF Boot, BootCreate, IInv, CpuConsistent
  <2> QED BY <2>1 DEF PriorityHonoured
<1>2. CASE SwitchContextExit \/ PendSV
  BY <1>2, DispatchHonoursPriority
<1>3. ASSUME NEW t \in Threads, UserCall(t) PROVE PriorityHonoured'
  BY <1>3, LeavingHonoursPriority, ReadyHonoursPriority DEF UserCall
<1>4. ASSUME NEW t \in Threads, KernelStep(t) PROVE PriorityHonoured'
  BY <1>4, LeavingHonoursPriority, ContextSwitchHonoursPriority DEF KernelStep
<1>5. ASSUME NEW u \in Threads, IsrWakeup(u) PROVE PriorityHonoured'
  BY <1>5, ReadyHonoursPriority
<1>6. CASE UNCHANGED schedVars
  BY <1>6 DEF schedVars, PriorityHonoured
<1> QED BY <1>1, <1>2, <1>3, <1>4, <1>5, <1>6 DEF Next

(* No thread computes while a more urgent one is ready, except on the way  *)
(* to the switch or while a thread created without a switch waits for one. *)
THEOREM Preemption == Spec => []PriorityHonoured
<1>1. Init => PriorityHonoured
  BY DEF Init, PriorityHonoured
<1> QED BY <1>1, PriorityNext, Invariance, PTL DEF Spec

-----------------------------------------------------------------------------
(* OnlyActiveRuns is inductive relative to IInv.                           *)

LEMMA OnlyActiveRunsNext ==
    IInv /\ OnlyActiveRuns /\ [Next]_schedVars => OnlyActiveRuns'
<1> SUFFICES ASSUME IInv, OnlyActiveRuns, [Next]_schedVars
             PROVE  OnlyActiveRuns'
  OBVIOUS
<1>1. sched.status \in [Threads -> Statuses]
  BY DEF IInv, TypeOK
<1>2. ASSUME NEW u \in Threads, NEW new \in Statuses \ {"RUNNING"},
             sched'.status = [sched.status EXCEPT ![u] = new],
             active' = active \/ u = active
      PROVE  OnlyActiveRuns'
  BY <1>1, <1>2 DEF OnlyActiveRuns
<1>3. /\ "STOPPED" \in Statuses \ {"RUNNING"}
      /\ "SLEEPING" \in Statuses \ {"RUNNING"}
      /\ "PENDING" \in Statuses \ {"RUNNING"}
  BY DEF Statuses, OffRunqueue, OnRunqueue
<1>4. ASSUME NEW u \in Threads, NEW new \in {"SLEEPING", "PENDING"},
             Enlist(u, new), active' = active
      PROVE  OnlyActiveRuns'
  <2>1. sched'.status = [sched.status EXCEPT ![u] = new]
    BY <1>4, EnlistConsistent DEF SetThreadStatus
  <2> QED BY <1>2, <1>3, <1>4, <2>1
<1>5. CASE Boot
  BY <1>4, <1>5 DEF Boot, BootCreate
<1>6. ASSUME SwitchContextExit \/ PendSV PROVE OnlyActiveRuns'
  <2>1. /\ sched' = Run(sched, active) /\ active' = NextThread(sched)
    BY <1>6 DEF SwitchContextExit, PendSV
  <2>2. ASSUME NEW t \in Threads, sched'.status[t] = "RUNNING"
        PROVE  t = NextThread(sched)
    <3>1. sched'.status[t] = CASE active = NextThread(sched) -> sched.status[t]
                     [] t = NextThread(sched) -> "RUNNING"
                     [] t = active -> Preempted(sched.status[t])
                     [] OTHER -> sched.status[t]
      BY <2>1 DEF Run
    <3> QED BY <2>2, <3>1 DEF OnlyActiveRuns, Preempted
  <2> QED BY <2>1, <2>2 DEF OnlyActiveRuns
<1>7. ASSUME NEW t \in Threads, UserCall(t) PROVE OnlyActiveRuns'
  <2>1. CASE \E u \in Threads :
               CreateSleeping(t, u) \/ CreateWithoutYield(t, u) \/ Create(t, u)
    BY <1>4, <2>1 DEF CreateSleeping, CreateWithoutYield, Create
  <2>2. CASE Sleep(t)
    BY <1>2, <1>3, <2>2 DEF Sleep, SetThreadStatus
  <2>3. CASE Yield(t)
    <3>1. sched'.status = sched.status /\ active' = active
      BY <2>3 DEF Yield, IInv, TypeOK
    <3> QED BY <3>1 DEF OnlyActiveRuns
  <2>4. CASE Exit(t)
    BY <1>2, <1>3, <2>4 DEF Exit, Executing, SetThreadStatus
  <2>5. ASSUME NEW u \in Threads, Terminate(t, u) PROVE OnlyActiveRuns'
    BY <1>2, <1>3, <2>5 DEF Terminate, SetThreadStatus
  <2>6. ASSUME NEW u \in Threads, Wakeup(t, u) PROVE OnlyActiveRuns'
    BY <1>2, <1>3, <2>6 DEF Wakeup, SetThreadStatus
  <2> QED BY <1>7, <2>1, <2>2, <2>3, <2>4, <2>5, <2>6 DEF UserCall
<1>8. ASSUME NEW t \in Threads, KernelStep(t) PROVE OnlyActiveRuns'
  BY <1>8 DEF KernelStep, ContextSwitch, YieldHigher, OnlyActiveRuns
<1>9. ASSUME NEW u \in Threads, IsrWakeup(u) PROVE OnlyActiveRuns'
  BY <1>2, <1>3, <1>9 DEF IsrWakeup, SetThreadStatus
<1>10. CASE UNCHANGED schedVars
  BY <1>10 DEF schedVars, OnlyActiveRuns
<1> QED BY <1>5, <1>6, <1>7, <1>8, <1>9, <1>10 DEF Next

(* At most one thread is RUNNING, and it is the active one. *)
THEOREM SingleRunner == Spec => []OnlyActiveRuns
<1>1. Init => OnlyActiveRuns
  BY DEF Init, OnlyActiveRuns
<1> QED BY <1>1, OnlyActiveRunsNext, Invariance, PTL DEF Spec
-----------------------------------------------------------------------------
(* OnlyYieldReorders.                                                      *)

(* In a list without duplicates no two threads are before one another. *)
LEMMA BeforeIsAntisymmetric ==
    ASSUME NEW q \in Seq(Threads), IsInjective(q), NEW u, NEW v,
           Before(q, u, v)
    PROVE  ~Before(q, v, u)
<1> SUFFICES ASSUME Before(q, v, u) PROVE FALSE
  OBVIOUS
<1>1. PICK i, j \in 1 .. Len(q) : i < j /\ q[i] = u /\ q[j] = v
  BY DEF Before
<1>2. PICK k, l \in 1 .. Len(q) : k < l /\ q[k] = v /\ q[l] = u
  BY DEF Before
<1>3. i = l /\ j = k
  BY <1>1, <1>2 DEF IsInjective
<1> QED BY <1>1, <1>2, <1>3

(* right_push and left_pop leave the order of the others. *)
LEMMA AppendKeepsOrder ==
    ASSUME NEW q \in Seq(Threads), IsInjective(q),
           NEW t \in Threads, t \notin ToSet(q),
           NEW u, NEW v, Before(q, u, v)
    PROVE  ~Before(Append(q, t), v, u)
<1> DEFINE r == Append(q, t)
<1>1. /\ r \in Seq(Threads) /\ IsInjective(r) /\ Len(r) = Len(q) + 1
      /\ \A i \in 1 .. Len(q) : r[i] = q[i]
  BY AppendDistinct, AppendProperties
<1>2. PICK i, j \in 1 .. Len(q) : i < j /\ q[i] = u /\ q[j] = v
  BY DEF Before
<1>3. i \in 1 .. Len(r) /\ j \in 1 .. Len(r) /\ r[i] = u /\ r[j] = v
  BY <1>1, <1>2
<1>4. Before(r, u, v)
  BY <1>2, <1>3 DEF Before
<1> QED BY <1>1, <1>4, BeforeIsAntisymmetric

LEMMA TailKeepsOrder ==
    ASSUME NEW q \in Seq(Threads), q # <<>>, NEW u, NEW v, Before(Tail(q), u, v)
    PROVE  Before(q, u, v)
<1>1. /\ Len(Tail(q)) = Len(q) - 1
      /\ \A i \in 1 .. Len(Tail(q)) : Tail(q)[i] = q[i+1]
  BY HeadTailProperties
<1>2. PICK i, j \in 1 .. Len(Tail(q)) : i < j /\ Tail(q)[i] = u /\ Tail(q)[j] = v
  BY DEF Before
<1>3. i + 1 \in 1 .. Len(q) /\ j + 1 \in 1 .. Len(q) /\ i + 1 < j + 1
  BY <1>1, <1>2
<1> QED BY <1>1, <1>2, <1>3 DEF Before

(* left_pop_right_push moves no thread but the head. *)
LEMMA RotateMovesHead ==
    ASSUME NEW q \in Seq(Threads), IsInjective(q), NEW u, NEW v,
           Before(q, u, v), Before(LeftPopRightPush(q), v, u)
    PROVE  u = Head(q)
<1> SUFFICES ASSUME u # Head(q) PROVE FALSE
  OBVIOUS
<1>1. PICK i, j \in 1 .. Len(q) : i < j /\ q[i] = u /\ q[j] = v
  BY DEF Before
<1>2. q # <<>> /\ Head(q) = q[1] /\ Head(q) \in Threads /\ Len(q) \in Nat
  BY <1>1
<1>3. i # 1
  BY <1>1, <1>2
<1>4. /\ Tail(q) \in Seq(Threads) /\ IsInjective(Tail(q))
      /\ Head(q) \notin ToSet(Tail(q))
      /\ Len(Tail(q)) = Len(q) - 1
      /\ \A n \in 1 .. Len(Tail(q)) : Tail(q)[n] = q[n+1]
  BY <1>2, LeftPopDistinct, HeadTailProperties DEF LeftPop
<1>5. /\ i - 1 \in 1 .. Len(Tail(q)) /\ j - 1 \in 1 .. Len(Tail(q))
      /\ i - 1 < j - 1 /\ Tail(q)[i-1] = u /\ Tail(q)[j-1] = v
  BY <1>1, <1>2, <1>3, <1>4
<1>6. Before(Tail(q), u, v)
  BY <1>5 DEF Before
<1>7. ~Before(Append(Tail(q), Head(q)), v, u)
  BY <1>2, <1>4, <1>6, AppendKeepsOrder
<1> QED BY <1>2, <1>7 DEF LeftPopRightPush

(* A change of status reorders no run queue. *)
LEMMA SetThreadStatusKeepsOrder ==
    ASSUME NEW s \in SchedType, Consistent(s), NEW t \in Threads,
           NEW new \in Statuses, NEW p \in Prios, NEW u, NEW v,
           Before(s.runqueue[p], u, v)
    PROVE  ~Before(SetThreadStatus(s, t, new).runqueue[p], v, u)
<1> DEFINE q == s.runqueue[p]
           r == SetThreadStatus(s, t, new).runqueue[p]
<1>1. q \in Seq(Threads) /\ IsInjective(q) /\ q # <<>>
  BY DEF SchedType, Consistent, Before
<1>2. \/ r = q
      \/ r = Append(q, t) /\ t \notin ToSet(q)
      \/ r = LeftPop(q)
  <2> DEFINE c == s.runqueue[Priority[t]]
             joins == new \in OnRunqueue /\ s.status[t] \notin OnRunqueue
  <2>1. SetThreadStatus(s, t, new).runqueue \in
           {s.runqueue, [s.runqueue EXCEPT ![Priority[t]] = Append(c, t)],
            [s.runqueue EXCEPT ![Priority[t]] = LeftPop(c)]}
    BY DEF SetThreadStatus, SchedType
  <2>2. ~joins => SetThreadStatus(s, t, new).runqueue \in
           {s.runqueue, [s.runqueue EXCEPT ![Priority[t]] = LeftPop(c)]}
    BY DEF SetThreadStatus, SchedType
  <2>3. joins => t \notin ToSet(c)
    BY SchedAssumption DEF Consistent
  <2> QED BY <2>1, <2>2, <2>3 DEF SchedType
<1>3. CASE r = q
  BY <1>1, <1>3, BeforeIsAntisymmetric
<1>4. CASE r = Append(q, t) /\ t \notin ToSet(q)
  BY <1>1, <1>4, AppendKeepsOrder
<1>5. CASE r = LeftPop(q)
  BY <1>1, <1>5, TailKeepsOrder, BeforeIsAntisymmetric DEF LeftPop
<1> QED BY <1>2, <1>3, <1>4, <1>5

(* What a step does to the run queues: a change of status, a rotation by   *)
(* yield(), or nothing.                                                    *)
LEMMA QueueSteps ==
    ASSUME IInv, [Next]_schedVars
    PROVE  \/ \E t \in Threads, new \in Statuses :
                sched' = SetThreadStatus(sched, t, new)
           \/ \E t \in Threads : Yield(t)
           \/ sched'.runqueue = sched.runqueue
<1>1. {"SLEEPING", "STOPPED", "PENDING"} \subseteq Statuses
  BY DEF Statuses, OffRunqueue, OnRunqueue
<1>2. ASSUME NEW u \in Threads, NEW new \in {"SLEEPING", "PENDING"}, Enlist(u, new)
      PROVE  \E t \in Threads, n \in Statuses : sched' = SetThreadStatus(sched, t, n)
  BY <1>1, <1>2, EnlistConsistent
<1>3. CASE Boot
  BY <1>2, <1>3 DEF Boot, BootCreate
<1>4. CASE SwitchContextExit \/ PendSV
  BY <1>4 DEF SwitchContextExit, PendSV, Run
<1>5. ASSUME NEW t \in Threads, UserCall(t), ~Yield(t)
      PROVE  \E u \in Threads, new \in Statuses : sched' = SetThreadStatus(sched, u, new)
  <2>1. CASE \E u \in Threads :
               CreateSleeping(t, u) \/ CreateWithoutYield(t, u) \/ Create(t, u)
    BY <1>2, <2>1 DEF CreateSleeping, CreateWithoutYield, Create
  <2>2. CASE \E u \in Threads : Wakeup(t, u) \/ Terminate(t, u)
    BY <1>1, <2>2 DEF Wakeup, Terminate
  <2>3. CASE Sleep(t) \/ Exit(t)
    BY <1>1, <2>3 DEF Sleep, Exit
  <2> QED BY <1>5, <2>1, <2>2, <2>3 DEF UserCall
<1>6. ASSUME NEW t \in Threads, KernelStep(t) PROVE sched' = sched
  BY <1>6 DEF KernelStep, ContextSwitch, YieldHigher
<1>7. ASSUME NEW u \in Threads, IsrWakeup(u)
      PROVE  sched' = SetThreadStatus(sched, u, "PENDING")
  BY <1>7 DEF IsrWakeup
<1>8. CASE UNCHANGED schedVars
  BY <1>8 DEF schedVars
<1> QED BY <1>1, <1>3, <1>4, <1>5, <1>6, <1>7, <1>8 DEF Next

LEMMA NextKeepsOrder ==
    ASSUME IInv, [Next]_schedVars, NEW p \in Prios,
           NEW u \in Threads, NEW v \in Threads,
           Before(sched.runqueue[p], u, v), Before(sched'.runqueue[p], v, u)
    PROVE  u = active /\ pc[u] = "user" /\ pc'[u] = "yield"
<1>1. sched \in SchedType /\ Consistent(sched)
  BY DEF IInv, TypeOK, SchedType, RunqueueConsistent
<1> DEFINE q == sched.runqueue[p]
<1>2. q \in Seq(Threads) /\ IsInjective(q)
  BY <1>1 DEF SchedType, Consistent
<1>3. PICK t \in Threads : Yield(t)
  <2>1. sched'.runqueue # sched.runqueue
    BY <1>2, BeforeIsAntisymmetric
  <2>2. \A t \in Threads, new \in Statuses : sched' # SetThreadStatus(sched, t, new)
    BY <1>1, SetThreadStatusKeepsOrder
  <2> QED BY <2>1, <2>2, QueueSteps
<1>4. /\ active = t /\ pc[t] = "user" /\ pc'[t] = "yield"
      /\ Head(sched.runqueue[Priority[t]]) = t
      /\ sched' = [sched EXCEPT !.runqueue[Priority[t]] = LeftPopRightPush(@)]
  BY <1>3, ExecutingExists DEF Yield, IInv, TypeOK
<1>5. sched'.runqueue = [sched.runqueue EXCEPT ![Priority[t]] = LeftPopRightPush(@)]
  BY <1>1, <1>4 DEF SchedType
<1>6. p = Priority[t]
  <2>1. ASSUME p # Priority[t] PROVE FALSE
    <3>1. sched'.runqueue[p] = q
      BY <1>1, <1>5, <2>1 DEF SchedType
    <3> QED BY <1>2, <3>1, BeforeIsAntisymmetric
  <2> QED BY <2>1
<1>7. sched'.runqueue[p] = LeftPopRightPush(q)
  BY <1>1, <1>5, <1>6 DEF SchedType
<1>8. u = Head(q)
  BY <1>2, <1>7, RotateMovesHead
<1> QED BY <1>4, <1>6, <1>8

(* Threads of one priority run in the order they became ready: whatever    *)
(* preempts, wakes or ends them, only a thread that yields is overtaken.   *)
THEOREM RoundRobin == Spec => OnlyYieldReorders
<1> DEFINE Reordered(p, u, v) ==
               Before(sched.runqueue[p], u, v) /\ Before(sched.runqueue[p], v, u)'
           Fair == \A p \in Prios, u, v \in Threads :
                       Reordered(p, u, v) =>
                           u = active /\ pc[u] = "user" /\ pc'[u] = "yield"
<1>1. IInv /\ [Next]_schedVars => [Fair]_schedVars
  <2> SUFFICES ASSUME IInv, [Next]_schedVars,
                      NEW p \in Prios, NEW u \in Threads, NEW v \in Threads,
                      Reordered(p, u, v)
               PROVE  u = active /\ pc[u] = "user" /\ pc'[u] = "yield"
    OBVIOUS
  <2>1. Before(sched'.runqueue[p], v, u)
    BY DEF Before
  <2> QED BY <2>1, NextKeepsOrder
<1> QED BY <1>1, Invariance, PTL DEF Spec, OnlyYieldReorders
=============================================================================
