-------------------------- MODULE StructureProofs --------------------------
(***************************************************************************)
(* Theorems about the data structures, for any set of nodes and for every  *)
(* capacity: the pointers of the circular list form a ring and are the     *)
(* double-ended queue that Deque describes; the ring buffer is the queue   *)
(* of bytes that ByteQueue describes, wherever head and tail wrap.         *)
(***************************************************************************)
EXTENDS Clist, RingBuffer, SequenceTheorems, FiniteSetTheorems,
        WellFoundedInduction, TLAPS

-----------------------------------------------------------------------------
(* Numbers.  Induction is stated for a set, as what the library proves of  *)
(* well-founded relations gives it.                                        *)

LEMMA LeastNumber ==
    ASSUME NEW T, T \subseteq Nat, T # {}
    PROVE  \E x \in T : \A y \in T : x <= y
<1> DEFINE R == {ss \in Nat \X Nat : ss[1] < ss[2]}
<1>1. IsWellFoundedOn(R, Nat)
  <2>1. OpToRel(<, Nat) = {ss \in Nat \X Nat : ss[1] < ss[2]}
    BY DEF OpToRel
  <2> QED BY <2>1, NatLessThanWellFounded
<1>2. \A x, y \in Nat : y < x => <<y, x>> \in R
  OBVIOUS
<1> HIDE DEF R
<1>3. PICK x \in T : \A y \in T : ~(<<y, x>> \in R)
  BY <1>1, WFMin
<1>4. \A y \in T : ~(y < x)
  BY <1>2, <1>3
<1>5. \A y \in T : x <= y
  BY <1>4
<1> QED BY <1>5

LEMMA SetInduction ==
    ASSUME NEW G, 0 \in G, \A n \in Nat : n \in G => n + 1 \in G
    PROVE  Nat \subseteq G
<1> SUFFICES ASSUME Nat \ G # {} PROVE FALSE
  OBVIOUS
<1>1. PICK x \in Nat \ G : \A y \in Nat \ G : x <= y
  <2>1. Nat \ G \subseteq Nat
    OBVIOUS
  <2> QED BY <2>1, LeastNumber
<1>2. x # 0 /\ x - 1 \in Nat /\ x - 1 \in G
  BY <1>1
<1>3. (x - 1) + 1 = x
  BY <1>1
<1> QED BY <1>1, <1>2, <1>3

LEMMA MinIs ==
    ASSUME NEW S, S \subseteq Int, NEW m \in S, \A x \in S : m <= x
    PROVE  Min(S) = m
<1>1. \A x \in S : (\A y \in S : x <= y) => x = m
  <2> SUFFICES ASSUME NEW x \in S, \A y \in S : x <= y PROVE x = m
    OBVIOUS
  <2>1. x <= m /\ m <= x /\ x \in Int /\ m \in Int
    OBVIOUS
  <2> QED BY <2>1
<1>2. m \in S /\ \A y \in S : m <= y
  OBVIOUS
<1> QED BY <1>1, <1>2 DEF Min

LEMMA Remains ==
    ASSUME NEW n \in Nat \ {0}, NEW q \in Int, NEW r \in 0 .. n - 1
    PROVE  (q * n + r) % n = r
OBVIOUS

(* One more, going round. *)
LEMMA Round ==
    ASSUME NEW n \in Nat \ {0}, NEW x \in Nat
    PROVE  /\ x % n \in 0 .. n - 1
           /\ (x + 1) % n = IF x % n = n - 1 THEN 0 ELSE (x % n) + 1
<1> DEFINE q == x \div n
           r == x % n
<1>1. x = q * n + r /\ q \in Int /\ r \in 0 .. n - 1
  OBVIOUS
<1> HIDE DEF q, r
<1>2. CASE r = n - 1
  <2>1. x + 1 = (q + 1) * n + 0 /\ q + 1 \in Int /\ 0 \in 0 .. n - 1
    BY <1>1, <1>2
  <2>2. ((q + 1) * n + 0) % n = 0
    BY <2>1, Remains
  <2> QED BY <1>1, <1>2, <2>1, <2>2 DEF r
<1>3. CASE r # n - 1
  <2>1. x + 1 = q * n + (r + 1) /\ r + 1 \in 0 .. n - 1
    BY <1>1, <1>3
  <2>2. (q * n + (r + 1)) % n = r + 1
    BY <1>1, <2>1, Remains
  <2> QED BY <1>1, <1>3, <2>1, <2>2 DEF r
<1> QED BY <1>2, <1>3

-----------------------------------------------------------------------------
(* The circular list: the pointers nx and l form the list of s.            *)
Links(nx, s) == \A i \in 1 .. Len(s) - 1 : nx[s[i]] = s[i + 1]

Distinct(s) == \A i, j \in 1 .. Len(s) : s[i] = s[j] => i = j

Shape(nx, l, s) ==
    /\ nx \in [Nodes -> Nodes \cup {Null}]
    /\ s \in Seq(Nodes) /\ Distinct(s)
    /\ s = <<>> => l = Null
    /\ s # <<>> => l = s[Len(s)] /\ nx[l] = s[1] /\ Links(nx, s)

(* The inductive invariant. *)
LInv == \E s : Shape(next, last, s)

LEMMA NotEmpty ==
    ASSUME NEW S, NEW s \in Seq(S), s # <<>>
    PROVE  Len(s) \in Nat \ {0} /\ Len(s) >= 1 /\ \A i \in 1 .. Len(s) : s[i] \in S
BY EmptySeq, ElementOfSeq

LEMMA HopIs ==
    ASSUME NEW s, Shape(next, last, s), s # <<>>
    PROVE  \A i \in 1 .. Len(s) : Hop[i] = s[i]
<1> DEFINE n == Len(s)
           place(i) == ((i + n - 1) % n) + 1
           g == [i \in Nat |-> s[place(i)]]
<1>1. /\ s \in Seq(Nodes) /\ last = s[n] /\ next[last] = s[1]
      /\ \A i \in 1 .. n - 1 : next[s[i]] = s[i + 1]
  BY DEF Shape, Links
<1>2. n \in Nat \ {0}
  BY <1>1, NotEmpty
<1> HIDE DEF n
<1>3. \A i \in Nat : place(i) \in 1 .. n
  <2> SUFFICES ASSUME NEW i \in Nat PROVE place(i) \in 1 .. n
    OBVIOUS
  <2>1. i + n - 1 \in Nat
    BY <1>2
  <2>2. (i + n - 1) % n \in 0 .. n - 1
    BY <1>2, <2>1, Round
  <2> QED BY <1>2, <2>2
<1>4. \A i \in Nat : place(i + 1) = IF place(i) = n THEN 1 ELSE place(i) + 1
  <2> SUFFICES ASSUME NEW i \in Nat
               PROVE  place(i + 1) = IF place(i) = n THEN 1 ELSE place(i) + 1
    OBVIOUS
  <2>1. i + n - 1 \in Nat /\ (i + 1) + n - 1 = (i + n - 1) + 1
    BY <1>2
  <2>2. /\ (i + n - 1) % n \in 0 .. n - 1
        /\ ((i + n - 1) + 1) % n
               = IF (i + n - 1) % n = n - 1 THEN 0 ELSE ((i + n - 1) % n) + 1
    BY <1>2, <2>1, Round
  <2> QED BY <1>2, <2>1, <2>2
<1>5. place(0) = n
  <2>1. 0 + n - 1 \in 0 .. n - 1
    BY <1>2
  <2>2. (0 + n - 1) % n = n - 1
    BY <1>2, <2>1
  <2> QED BY <1>2, <2>2
<1> HIDE DEF place
<1>6. \A i \in 1 .. n : place(i) = i
  <2> DEFINE G == {i \in Nat : i \in 1 .. n => place(i) = i}
  <2>1. 0 \in G
    OBVIOUS
  <2>2. ASSUME NEW i \in Nat, i \in G
        PROVE  i + 1 \in G
    <3>1. CASE i = 0
      BY <1>2, <1>4, <1>5, <3>1
    <3>2. CASE i # 0
      BY <1>2, <1>4, <2>2, <3>2
    <3> QED BY <3>1, <3>2
  <2> HIDE DEF G
  <2>3. Nat \subseteq G
    BY <2>1, <2>2, SetInduction
  <2> QED BY <2>3, <1>2 DEF G
<1>7. /\ g[0] = last
      /\ \A i \in Nat : g[i + 1] = next[g[i]]
  <2>1. g[0] = last
    BY <1>1, <1>5
  <2>2. ASSUME NEW i \in Nat
        PROVE  g[i + 1] = next[g[i]]
    <3>1. CASE place(i) = n
      <4>1. place(i + 1) = 1
        BY <1>4, <3>1
      <4> QED BY <1>1, <3>1, <4>1
    <3>2. CASE place(i) # n
      <4>1. place(i + 1) = place(i) + 1 /\ place(i) \in 1 .. n - 1
        BY <1>2, <1>3, <1>4, <3>2
      <4> QED BY <1>1, <4>1
    <3> QED BY <3>1, <3>2
  <2> QED BY <2>1, <2>2
<1>8. \A i \in 1 .. n : g[i] = s[i]
  BY <1>2, <1>6
<1>9. g = [i \in Nat |-> IF i = 0 THEN last ELSE next[g[i - 1]]]
  <2>1. ASSUME NEW i \in Nat
        PROVE  g[i] = IF i = 0 THEN last ELSE next[g[i - 1]]
    <3>1. CASE i = 0
      BY <1>7, <3>1
    <3>2. CASE i # 0
      <4>1. i - 1 \in Nat /\ (i - 1) + 1 = i
        BY <3>2
      <4>2. g[(i - 1) + 1] = next[g[i - 1]]
        BY <1>7, <4>1
      <4> QED BY <3>2, <4>1, <4>2
    <3> QED BY <3>1, <3>2
  <2>2. g = [i \in Nat |-> g[i]]
    OBVIOUS
  <2> HIDE DEF g
  <2> QED BY <2>1, <2>2
<1> HIDE DEF g
<1>10. Hop = [i \in Nat |-> IF i = 0 THEN last ELSE next[Hop[i - 1]]]
  BY <1>9 DEF Hop
<1>11. Nat \subseteq {i \in Nat : Hop[i] = g[i]}
  <2> DEFINE G == {i \in Nat : Hop[i] = g[i]}
  <2>1. 0 \in G
    BY <1>7, <1>10
  <2>2. ASSUME NEW i \in Nat, i \in G
        PROVE  i + 1 \in G
    <3>1. i + 1 \in Nat /\ i + 1 # 0 /\ (i + 1) - 1 = i
      OBVIOUS
    <3>2. Hop[i + 1] = next[Hop[i]]
      BY <1>10, <3>1
    <3> QED BY <1>7, <2>2, <3>1, <3>2
  <2> HIDE DEF G
  <2>3. Nat \subseteq G
    BY <2>1, <2>2, SetInduction
  <2> QED BY <2>3 DEF G
<1> QED BY <1>2, <1>8, <1>11 DEF n

LEMMA RingIs ==
    ASSUME NEW s, Shape(next, last, s)
    PROVE  /\ Ring = s /\ RingIsClosed
           /\ last = Null <=> s = <<>>
           /\ s # <<>> => Length = Len(s)
<1>1. /\ next \in [Nodes -> Nodes \cup {Null}] /\ s \in Seq(Nodes) /\ Distinct(s)
      /\ s = <<>> => last = Null
      /\ s # <<>> => last = s[Len(s)] /\ next[last] = s[1] /\ Links(next, s)
  BY DEF Shape
<1>2. CASE s = <<>>
  BY <1>1, <1>2 DEF Ring, RingIsClosed
<1>3. CASE s # <<>>
  <2> DEFINE n == Len(s)
  <2>1. n \in Nat \ {0} /\ \A i \in 1 .. n : s[i] \in Nodes
    BY <1>1, <1>3, NotEmpty
  <2>2. \A i \in 1 .. n : Hop[i] = s[i]
    BY <1>3, HopIs
  <2>3. last = s[n] /\ last \in Nodes /\ last # Null
    BY <1>1, <1>3, <2>1, ClistAssumption
  <2>4. s = [i \in 1 .. n |-> s[i]] /\ s \in [1 .. n -> Nodes] /\ DOMAIN s = 1 .. n
    BY <1>1, LenProperties
  <2> HIDE DEF n
  <2>5. IsInjective(s)
    BY <1>1, <2>4 DEF IsInjective, Distinct, n
  <2>6. n <= Cardinality(Nodes) /\ Cardinality(Nodes) \in Nat
    <3>1. s \in Injection(1 .. n, Nodes)
      BY <2>4, <2>5 DEF Injection
    <3>2. Cardinality(1 .. n) <= Cardinality(Nodes)
      BY <3>1, FS_Injection, ClistAssumption
    <3>3. Cardinality(1 .. n) = n
      BY <2>1, FS_Interval
    <3> QED BY <3>2, <3>3, FS_CardinalityType, ClistAssumption
  <2> DEFINE back == {i \in 1 .. Cardinality(Nodes) : Hop[i] = last}
  <2>7. n \in back
    BY <2>1, <2>2, <2>3, <2>6
  <2>8. ASSUME NEW i \in back PROVE n <= i
    <3> SUFFICES ASSUME i < n PROVE FALSE
      BY <2>1, <2>6
    <3>1. i \in 1 .. n /\ n \in 1 .. n /\ s[i] = s[n]
      BY <2>1, <2>2, <2>3, <2>6
    <3> QED BY <1>1, <2>1, <3>1 DEF Distinct, n
  <2>9. Length = n
    <3>1. back \subseteq Int
      OBVIOUS
    <3>2. Length = Min(back)
      BY DEF Length
    <3> HIDE DEF back
    <3> QED BY <2>7, <2>8, <3>1, <3>2, MinIs
  <2>10. Ring = s
    <3>1. Ring = [i \in 1 .. n |-> Hop[i]]
      BY <2>3, <2>9 DEF Ring
    <3> QED BY <2>2, <2>4, <3>1
  <2>11. ASSUME NEW i \in 1 .. n PROVE Hop[i] \in Nodes /\ next[Hop[i]] # Null
    <3>1. CASE i = n
      BY <1>1, <1>3, <2>1, <2>2, <2>3, <3>1, ClistAssumption
    <3>2. CASE i # n
      <4>1. i \in 1 .. n - 1 /\ i + 1 \in 1 .. n
        BY <2>1, <3>2
      <4>2. next[s[i]] = s[i + 1]
        BY <1>1, <1>3, <4>1 DEF Links, n
      <4> QED BY <2>1, <2>2, <4>1, <4>2, ClistAssumption
    <3> QED BY <3>1, <3>2
  <2>12. \E i \in 1 .. Cardinality(Nodes) : Hop[i] = last
    BY <2>7
  <2> HIDE DEF back
  <2>13. RingIsClosed
    BY <2>5, <2>9, <2>10, <2>11, <2>12 DEF RingIsClosed
  <2> QED BY <1>3, <2>3, <2>9, <2>10, <2>13 DEF n
<1> QED BY <1>2, <1>3

(* The same after a step. *)
ShapeIsRing == \A s : Shape(next, last, s) => Ring = s

LEMMA ShapeIsRingNext == ShapeIsRing'
<1>1. ShapeIsRing
  BY RingIs DEF ShapeIsRing
<1> QED BY <1>1, PTL

LEMMA NextRing ==
    ASSUME NEW s, Shape(next', last', s)
    PROVE  LInv' /\ Ring' = s
BY ShapeIsRingNext DEF ShapeIsRing, LInv, Shape, Links

(* The place of a node, and the one before it. *)
LEMMA FindBeforeIs ==
    ASSUME NEW s, Shape(next, last, s), NEW n \in Nodes
    PROVE  /\ n \notin ToSet(s) => FindBefore(n) = Null
           /\ \A k \in 1 .. Len(s) :
                s[k] = n => FindBefore(n) = IF k = 1 THEN s[Len(s)] ELSE s[k - 1]
<1>1. /\ next \in [Nodes -> Nodes \cup {Null}] /\ s \in Seq(Nodes) /\ Distinct(s)
      /\ s # <<>> => last = s[Len(s)] /\ next[last] = s[1] /\ Links(next, s)
  BY DEF Shape
<1>2. (last = Null <=> s = <<>>) /\ (s # <<>> => Length = Len(s))
  BY RingIs
<1>3. CASE s = <<>>
  BY <1>2, <1>3 DEF FindBefore, ToSet
<1>4. CASE s # <<>>
  <2> DEFINE m == Len(s)
             found == {i \in 1 .. Length : next[Hop[i]] = n}
  <2>1. m \in Nat \ {0} /\ Length = m /\ DOMAIN s = 1 .. m
    BY <1>1, <1>2, <1>4, NotEmpty, LenProperties
  <2>2. \A i \in 1 .. m : Hop[i] = s[i]
    BY <1>4, HopIs
  <2>3. next[s[m]] = s[1] /\ \A i \in 1 .. m - 1 : next[s[i]] = s[i + 1]
    BY <1>1, <1>4 DEF Links
  <2>4. \A i, j \in 1 .. m : s[i] = s[j] => i = j
    BY <1>1 DEF Distinct
  <2> HIDE DEF m
  <2>5. found = {i \in 1 .. m : next[s[i]] = n}
    BY <2>1, <2>2
  <2>6. FindBefore(n) = IF found = {} THEN Null ELSE Hop[Min(found)]
    BY <1>2, <1>4 DEF FindBefore
  <2> HIDE DEF found
  <2>7. ASSUME n \notin ToSet(s) PROVE FindBefore(n) = Null
    <3>1. \A i \in 1 .. m : s[i] # n
      BY <2>1, <2>7 DEF ToSet
    <3>2. ASSUME NEW i \in 1 .. m PROVE next[s[i]] # n
      <4>1. CASE i = m
        BY <2>1, <2>3, <3>1, <4>1
      <4>2. CASE i # m
        <5>1. i \in 1 .. m - 1 /\ i + 1 \in 1 .. m
          BY <2>1, <4>2
        <5> QED BY <2>3, <3>1, <5>1
      <4> QED BY <4>1, <4>2
    <3> QED BY <2>5, <2>6, <3>2
  <2>8. ASSUME NEW k \in 1 .. m, s[k] = n
        PROVE  FindBefore(n) = IF k = 1 THEN s[m] ELSE s[k - 1]
    <3> DEFINE j == IF k = 1 THEN m ELSE k - 1
    <3>1. j \in 1 .. m /\ next[s[j]] = n
      <4>1. CASE k = 1
        BY <2>1, <2>3, <2>8, <4>1
      <4>2. CASE k # 1
        <5>1. k - 1 \in 1 .. m - 1 /\ (k - 1) + 1 = k
          BY <2>1, <4>2
        <5> QED BY <2>1, <2>3, <2>8, <4>2, <5>1
      <4> QED BY <4>1, <4>2
    <3>2. ASSUME NEW i \in 1 .. m, next[s[i]] = n PROVE i = j
      <4>1. CASE i = m
        <5>1. s[1] = s[k] /\ 1 \in 1 .. m
          BY <2>1, <2>3, <2>8, <3>2, <4>1
        <5> QED BY <2>4, <4>1, <5>1
      <4>2. CASE i # m
        <5>1. i \in 1 .. m - 1 /\ i + 1 \in 1 .. m
          BY <2>1, <4>2
        <5>2. s[i + 1] = s[k]
          BY <2>3, <2>8, <3>2, <5>1
        <5>3. i + 1 = k
          BY <2>4, <5>1, <5>2
        <5> QED BY <5>1, <5>3
      <4> QED BY <4>1, <4>2
    <3> HIDE DEF j
    <3>3. found = {j}
      BY <2>5, <3>1, <3>2
    <3>4. Min(found) = j
      <4>1. \A i \in found : j <= i
        BY <2>1, <3>1, <3>3
      <4>2. found \subseteq Int /\ j \in found
        BY <2>1, <3>1, <3>3
      <4> QED BY <4>1, <4>2, MinIs
    <3>5. FindBefore(n) = s[j]
      BY <2>2, <2>6, <3>1, <3>3, <3>4
    <3> QED BY <3>5 DEF j
  <2> QED BY <2>7, <2>8 DEF m
<1> QED BY <1>3, <1>4

-----------------------------------------------------------------------------
(* What the calls do to the pointers.                                      *)

LEMMA PushedLinks ==
    ASSUME NEW s, Shape(next, last, s), NEW n \in Nodes, n \notin ToSet(s), Insert(n)
    PROVE  Shape(next', n, Append(s, n)) /\ Shape(next', IF last = Null THEN n ELSE last, <<n>> \o s)
<1>1. /\ next \in [Nodes -> Nodes \cup {Null}] /\ s \in Seq(Nodes) /\ Distinct(s)
      /\ s # <<>> => last = s[Len(s)] /\ next[last] = s[1] /\ Links(next, s)
  BY DEF Shape
<1>2. last = Null <=> s = <<>>
  BY RingIs
<1> DEFINE m == Len(s)
           r == Append(s, n)
           l == <<n>> \o s
<1>3. /\ m \in Nat /\ DOMAIN s = 1 .. m /\ \A i \in 1 .. m : s[i] \in Nodes /\ s[i] # n
  <2>1. m \in Nat /\ DOMAIN s = 1 .. m /\ \A i \in 1 .. m : s[i] \in Nodes
    BY <1>1, LenProperties, ElementOfSeq
  <2> QED BY <2>1 DEF ToSet
<1>4. /\ r \in Seq(Nodes) /\ Len(r) = m + 1 /\ r # <<>>
      /\ \A i \in 1 .. m : r[i] = s[i]
      /\ r[m + 1] = n
  BY <1>1, AppendProperties
<1>5. /\ l \in Seq(Nodes) /\ Len(l) = m + 1 /\ l # <<>>
      /\ l[1] = n /\ \A i \in 1 .. m : l[i + 1] = s[i]
  <2>1. <<n>> \in Seq(Nodes) /\ Len(<<n>>) = 1 /\ <<n>>[1] = n
    OBVIOUS
  <2>2. /\ l \in Seq(Nodes) /\ Len(l) = 1 + m
        /\ \A i \in 1 .. 1 + m : l[i] = IF i <= 1 THEN <<n>>[i] ELSE s[i - 1]
    BY <1>1, <2>1, ConcatProperties
  <2> HIDE DEF l
  <2>3. l[1] = n
    BY <1>3, <2>1, <2>2
  <2>4. \A i \in 1 .. m : l[i + 1] = s[i]
    <3>1. \A i \in 1 .. m : i + 1 \in 1 .. 1 + m /\ ~(i + 1 <= 1) /\ (i + 1) - 1 = i
      BY <1>3
    <3> QED BY <2>2, <3>1
  <2>5. l # <<>> /\ Len(l) = m + 1
    BY <1>3, <2>2
  <2> QED BY <2>2, <2>3, <2>4, <2>5
<1>6. s # <<>> <=> m # 0
  BY <1>1, <1>3
<1> HIDE DEF m, r, l
<1>7. Distinct(r)
  <2> SUFFICES ASSUME NEW i \in 1 .. m + 1, NEW j \in 1 .. m + 1, r[i] = r[j]
               PROVE  i = j
    BY <1>4 DEF Distinct
  <2>1. (i \in 1 .. m \/ i = m + 1) /\ (j \in 1 .. m \/ j = m + 1)
    BY <1>3
  <2> QED BY <1>1, <1>3, <1>4, <2>1 DEF Distinct, m
<1>8. Distinct(l)
  <2> SUFFICES ASSUME NEW i \in 1 .. m + 1, NEW j \in 1 .. m + 1, l[i] = l[j]
               PROVE  i = j
    BY <1>5 DEF Distinct
  <2>1. /\ i # 1 => i - 1 \in 1 .. m /\ l[i] = s[i - 1]
        /\ j # 1 => j - 1 \in 1 .. m /\ l[j] = s[j - 1]
    <3>1. \A k \in 1 .. m + 1 : k # 1 => k - 1 \in 1 .. m /\ (k - 1) + 1 = k
      BY <1>3
    <3> QED BY <1>5, <3>1
  <2>2. CASE i = 1 /\ j # 1
    BY <1>3, <1>5, <2>1, <2>2
  <2>3. CASE i # 1 /\ j = 1
    BY <1>3, <1>5, <2>1, <2>3
  <2>4. CASE i # 1 /\ j # 1
    <3>1. i - 1 = j - 1
      BY <1>1, <2>1, <2>4 DEF Distinct, m
    <3> QED BY <3>1
  <2> QED BY <2>2, <2>3, <2>4
<1>9. CASE s = <<>>
  <2>1. next' = [next EXCEPT ![n] = n] /\ m = 0 /\ last = Null
    BY <1>2, <1>6, <1>9 DEF Insert
  <2>2. next' \in [Nodes -> Nodes \cup {Null}] /\ next'[n] = n
    BY <1>1, <2>1
  <2>3. Links(next', r) /\ Links(next', l)
    BY <1>4, <1>5, <2>1 DEF Links
  <2>4. Len(r) = 1 /\ Len(l) = 1 /\ r[1] = n /\ l[1] = n
    BY <1>4, <1>5, <2>1
  <2>5. Shape(next', n, r)
    BY <1>4, <1>7, <2>2, <2>3, <2>4 DEF Shape
  <2>6. Shape(next', n, l)
    BY <1>5, <1>8, <2>2, <2>3, <2>4 DEF Shape
  <2> QED BY <2>1, <2>5, <2>6 DEF r, l
<1>10. CASE s # <<>>
  <2>1. /\ last # Null /\ last \in Nodes /\ last = s[m] /\ m \in 1 .. m
        /\ next' = [next EXCEPT ![n] = next[last], ![last] = n]
    BY <1>1, <1>2, <1>3, <1>6, <1>10 DEF Insert, m
  <2>2. /\ next' \in [Nodes -> Nodes \cup {Null}]
        /\ next'[last] = n /\ next'[n] = s[1] /\ last # n
        /\ \A i \in 1 .. m - 1 : next'[s[i]] = s[i + 1]
    <3>1. next[last] = s[1] /\ s[1] \in Nodes
      BY <1>1, <1>3, <1>6, <1>10
    <3>2. last # n
      BY <1>3, <2>1
    <3>3. \A i \in 1 .. m - 1 : /\ s[i] # last /\ s[i] # n /\ s[i] \in Nodes
                                /\ next[s[i]] = s[i + 1]
      <4>1. \A i \in 1 .. m - 1 : i \in 1 .. m /\ i # m
        BY <1>3
      <4> QED BY <1>1, <1>3, <1>10, <2>1, <4>1 DEF Distinct, Links, m
    <3> QED BY <1>1, <2>1, <3>1, <3>2, <3>3
  <2>3. Links(next', r)
    <3> SUFFICES ASSUME NEW i \in 1 .. m PROVE next'[r[i]] = r[i + 1]
      BY <1>3, <1>4 DEF Links
    <3>1. CASE i = m
      BY <1>4, <2>1, <2>2, <3>1
    <3>2. CASE i # m
      <4>1. i \in 1 .. m - 1 /\ i + 1 \in 1 .. m
        BY <1>3, <3>2
      <4> QED BY <1>4, <2>2, <4>1
    <3> QED BY <3>1, <3>2
  <2>4. Links(next', l)
    <3> SUFFICES ASSUME NEW i \in 1 .. m PROVE next'[l[i]] = l[i + 1]
      BY <1>3, <1>5 DEF Links
    <3>1. CASE i = 1
      BY <1>5, <2>1, <2>2, <3>1
    <3>2. CASE i # 1
      <4>1. i - 1 \in 1 .. m - 1 /\ i - 1 \in 1 .. m /\ (i - 1) + 1 = i
        BY <1>3, <3>2
      <4>2. l[i] = s[i - 1] /\ l[i + 1] = s[i]
        BY <1>5, <4>1
      <4> QED BY <2>2, <4>1, <4>2
    <3> QED BY <3>1, <3>2
  <2>5. Shape(next', n, r)
    <3>1. r[1] = s[1] /\ r[Len(r)] = n
      BY <1>3, <1>4, <1>6, <1>10
    <3> QED BY <1>4, <1>7, <2>2, <2>3, <3>1 DEF Shape
  <2>6. Shape(next', last, l)
    <3>1. l[Len(l)] = last
      BY <1>3, <1>5, <2>1
    <3> QED BY <1>5, <1>8, <2>2, <2>4, <3>1 DEF Shape
  <2> QED BY <2>1, <2>5, <2>6 DEF r, l
<1> QED BY <1>9, <1>10

LEMMA PoppedLinks ==
    ASSUME NEW nx, NEW l, NEW s, Shape(nx, l, s), s # <<>>
    PROVE  /\ Shape(UnlinkLeft(nx, l).next, UnlinkLeft(nx, l).last, Tail(s))
           /\ nx[l] = Head(s) /\ l # Null
<1> DEFINE m == Len(s)
           t == Tail(s)
<1>1. /\ nx \in [Nodes -> Nodes \cup {Null}] /\ s \in Seq(Nodes)
      /\ l = s[m] /\ nx[l] = s[1]
      /\ \A i \in 1 .. m - 1 : nx[s[i]] = s[i + 1]
      /\ \A i, j \in 1 .. m : s[i] = s[j] => i = j
  BY DEF Shape, Distinct, Links
<1>2. m \in Nat \ {0} /\ \A i \in 1 .. m : s[i] \in Nodes
  BY <1>1, NotEmpty
<1>3. /\ t \in Seq(Nodes) /\ Len(t) = m - 1 /\ \A i \in 1 .. m - 1 : t[i] = s[i + 1]
      /\ Head(s) = s[1]
  <2>1. t \in Seq(Nodes) /\ Len(t) = m - 1 /\ \A i \in 1 .. Len(t) : t[i] = s[i + 1]
    BY <1>1, HeadTailProperties
  <2> QED BY <1>1, <2>1
<1>4. t = <<>> <=> m = 1
  <2> HIDE DEF t
  <2>1. t = <<>> => Len(t) = 0
    OBVIOUS
  <2>2. Len(t) = 0 => t = <<>>
    BY <1>3, EmptySeq
  <2> HIDE DEF m
  <2> QED BY <1>2, <1>3, <2>1, <2>2
<1> HIDE DEF m, t
<1>5. l # Null
  BY <1>1, <1>2, ClistAssumption
<1>6. Distinct(t)
  <2> SUFFICES ASSUME NEW i \in 1 .. m - 1, NEW j \in 1 .. m - 1, t[i] = t[j]
               PROVE  i = j
    BY <1>3 DEF Distinct
  <2>1. i + 1 \in 1 .. m /\ j + 1 \in 1 .. m
    BY <1>2
  <2>2. i + 1 = j + 1
    BY <1>1, <1>3, <2>1
  <2> QED BY <2>2
<1>7. CASE m = 1
  <2>1. nx[l] = l
    BY <1>1, <1>7
  <2>2. UnlinkLeft(nx, l).next = nx /\ UnlinkLeft(nx, l).last = Null
    BY <2>1 DEF UnlinkLeft
  <2> QED BY <1>1, <1>3, <1>4, <1>5, <1>6, <1>7, <2>2 DEF Shape, t
<1>8. CASE m # 1
  <2> DEFINE ny == [nx EXCEPT ![l] = nx[nx[l]]]
  <2>1. 1 \in 1 .. m - 1 /\ m \in 1 .. m /\ 1 \in 1 .. m
    BY <1>2, <1>8
  <2>2. nx[l] # l
    BY <1>1, <1>8, <2>1
  <2>3. UnlinkLeft(nx, l).next = ny /\ UnlinkLeft(nx, l).last = l
    BY <2>2 DEF UnlinkLeft
  <2>4. nx[nx[l]] = s[2] /\ s[2] \in Nodes /\ l \in Nodes
    BY <1>1, <1>2, <1>8, <2>1
  <2>5. ny \in [Nodes -> Nodes \cup {Null}] /\ ny[l] = s[2]
    BY <1>1, <2>4
  <2>6. ASSUME NEW i \in 1 .. m - 2 PROVE ny[t[i]] = t[i + 1]
    <3>1. i \in 1 .. m - 1 /\ i + 1 \in 1 .. m - 1 /\ i + 1 \in 1 .. m /\ i + 1 # m
      BY <1>2
    <3>2. t[i] = s[i + 1] /\ t[i + 1] = s[(i + 1) + 1] /\ s[i + 1] \in Nodes
      BY <1>2, <1>3, <3>1
    <3>3. s[i + 1] # l
      BY <1>1, <2>1, <3>1
    <3>4. nx[s[i + 1]] = s[(i + 1) + 1]
      BY <1>1, <3>1
    <3> QED BY <1>1, <3>2, <3>3, <3>4
  <2> HIDE DEF ny
  <2>7. Links(ny, t)
    <3>1. Len(t) - 1 = m - 2
      BY <1>2, <1>3
    <3> QED BY <2>6, <3>1 DEF Links
  <2>8. t # <<>> /\ t[1] = s[2] /\ t[Len(t)] = l
    <3>1. m - 1 \in 1 .. m - 1 /\ (m - 1) + 1 = m
      BY <1>2, <1>8
    <3> QED BY <1>1, <1>3, <1>4, <1>8, <2>1, <3>1
  <2>9. Shape(ny, l, t)
    BY <1>3, <1>6, <2>5, <2>7, <2>8 DEF Shape
  <2> QED BY <1>1, <1>3, <1>5, <2>3, <2>9 DEF t
<1> QED BY <1>7, <1>8

(* Starting the same ring one node later, or one node earlier. *)
LEMMA RotatedLeft ==
    ASSUME NEW nx, NEW l, NEW s, Shape(nx, l, s), s # <<>>
    PROVE  Shape(nx, nx[l], Append(Tail(s), Head(s)))
<1> DEFINE m == Len(s)
           r == Append(Tail(s), Head(s))
<1>1. /\ nx \in [Nodes -> Nodes \cup {Null}] /\ s \in Seq(Nodes)
      /\ l = s[m] /\ nx[l] = s[1]
      /\ \A i \in 1 .. m - 1 : nx[s[i]] = s[i + 1]
      /\ \A i, j \in 1 .. m : s[i] = s[j] => i = j
  BY DEF Shape, Distinct, Links
<1>2. m \in Nat \ {0} /\ \A i \in 1 .. m : s[i] \in Nodes
  BY <1>1, NotEmpty
<1>3. /\ r \in Seq(Nodes) /\ Len(r) = m /\ r # <<>>
      /\ \A i \in 1 .. m - 1 : r[i] = s[i + 1]
      /\ r[m] = s[1]
  <2>1. /\ Tail(s) \in Seq(Nodes) /\ Len(Tail(s)) = m - 1
        /\ \A i \in 1 .. Len(Tail(s)) : Tail(s)[i] = s[i + 1]
    BY <1>1, HeadTailProperties
  <2>2. Head(s) = s[1] /\ Head(s) \in Nodes
    BY <1>1, <1>2
  <2>3. /\ r \in Seq(Nodes) /\ r # <<>> /\ Len(r) = (m - 1) + 1
        /\ \A i \in 1 .. m - 1 : r[i] = Tail(s)[i]
        /\ r[(m - 1) + 1] = Head(s)
    BY <2>1, <2>2, AppendProperties
  <2>4. (m - 1) + 1 = m
    BY <1>2
  <2> QED BY <2>1, <2>2, <2>3, <2>4
<1> HIDE DEF m, r
<1>4. Distinct(r)
  <2> SUFFICES ASSUME NEW i \in 1 .. m, NEW j \in 1 .. m, r[i] = r[j]
               PROVE  i = j
    BY <1>3 DEF Distinct
  <2> DEFINE at(k) == IF k = m THEN 1 ELSE k + 1
  <2>1. /\ at(i) \in 1 .. m /\ r[i] = s[at(i)]
        /\ at(j) \in 1 .. m /\ r[j] = s[at(j)]
    <3>1. ASSUME NEW k \in 1 .. m PROVE at(k) \in 1 .. m /\ r[k] = s[at(k)]
      <4>1. CASE k = m
        BY <1>2, <1>3, <4>1
      <4>2. CASE k # m
        <5>1. k \in 1 .. m - 1 /\ k + 1 \in 1 .. m
          BY <1>2, <4>2
        <5> QED BY <1>3, <4>2, <5>1
      <4> QED BY <4>1, <4>2
    <3> QED BY <3>1
  <2>2. at(i) = at(j)
    BY <1>1, <2>1
  <2> QED BY <1>2, <2>2
<1>5. Links(nx, r)
  <2> SUFFICES ASSUME NEW i \in 1 .. m - 1 PROVE nx[r[i]] = r[i + 1]
    BY <1>3 DEF Links
  <2>1. r[i] = s[i + 1]
    BY <1>3
  <2>2. CASE i + 1 = m
    BY <1>1, <1>3, <2>1, <2>2
  <2>3. CASE i + 1 # m
    <3>1. i + 1 \in 1 .. m - 1
      BY <1>2, <2>3
    <3> QED BY <1>1, <1>3, <2>1, <3>1
  <2> QED BY <2>2, <2>3
<1>6. nx[s[1]] = r[1]
  <2>1. CASE m = 1
    BY <1>1, <1>3, <2>1
  <2>2. CASE m # 1
    <3>1. 1 \in 1 .. m - 1
      BY <1>2, <2>2
    <3> QED BY <1>1, <1>3, <3>1
  <2> QED BY <2>1, <2>2
<1> QED BY <1>1, <1>3, <1>4, <1>5, <1>6 DEF Shape, r

LEMMA RotatedRight ==
    ASSUME NEW nx, NEW l, NEW s, Shape(nx, l, s), s # <<>>
    PROVE  LET p == IF Len(s) = 1 THEN s[Len(s)] ELSE s[Len(s) - 1]
               r == <<Last(s)>> \o Front(s)
           IN  Shape(nx, p, r) /\ r # <<>> /\ Tail(r) = Front(s) /\ Head(r) = Last(s)
<1> DEFINE m == Len(s)
           p == IF m = 1 THEN s[m] ELSE s[m - 1]
           f == Front(s)
           r == <<Last(s)>> \o f
<1>1. /\ nx \in [Nodes -> Nodes \cup {Null}] /\ s \in Seq(Nodes)
      /\ l = s[m] /\ nx[l] = s[1]
      /\ \A i \in 1 .. m - 1 : nx[s[i]] = s[i + 1]
      /\ \A i, j \in 1 .. m : s[i] = s[j] => i = j
  BY DEF Shape, Distinct, Links
<1>2. m \in Nat \ {0} /\ \A i \in 1 .. m : s[i] \in Nodes
  BY <1>1, NotEmpty
<1>3. /\ f \in Seq(Nodes) /\ Len(f) = m - 1
      /\ \A i \in 1 .. m - 1 : f[i] = s[i]
  <2>1. f = SubSeq(s, 1, m - 1)
    BY DEF Front
  <2>2. \A i \in 1 .. m - 1 : s[i] \in Nodes
    BY <1>2
  <2>3. /\ f \in Seq(Nodes) /\ Len(f) = IF 1 <= m - 1 THEN (m - 1) - 1 + 1 ELSE 0
        /\ \A i \in 1 .. (m - 1) - 1 + 1 : f[i] = s[1 + i - 1]
    BY <1>2, <2>1, <2>2, SubSeqProperties
  <2> HIDE DEF f, m
  <2>4. /\ (m - 1) - 1 + 1 = m - 1 /\ Len(f) = m - 1
        /\ \A i \in 1 .. m - 1 : 1 + i - 1 = i
    BY <1>2, <2>3
  <2> QED BY <2>3, <2>4
<1>4. Last(s) = s[m] /\ s[m] \in Nodes
  BY <1>2 DEF Last
<1> HIDE DEF m, f
<1>5. /\ r \in Seq(Nodes) /\ Len(r) = m
      /\ r[1] = s[m] /\ \A i \in 1 .. m - 1 : r[i + 1] = s[i]
  <2>1. <<Last(s)>> \in Seq(Nodes) /\ Len(<<Last(s)>>) = 1 /\ <<Last(s)>>[1] = s[m]
    BY <1>4
  <2>2. /\ r \in Seq(Nodes) /\ Len(r) = 1 + (m - 1)
        /\ \A i \in 1 .. 1 + (m - 1) : r[i] = IF i <= 1 THEN <<Last(s)>>[i] ELSE f[i - 1]
    BY <1>3, <2>1, ConcatProperties
  <2> HIDE DEF r
  <2>3. 1 + (m - 1) = m
    BY <1>2
  <2>4. ASSUME NEW i \in 1 .. m - 1 PROVE r[i + 1] = s[i]
    <3>1. i + 1 \in 1 .. 1 + (m - 1) /\ ~(i + 1 <= 1) /\ (i + 1) - 1 = i
      BY <1>2
    <3> QED BY <1>3, <2>2, <3>1
  <2>5. r[1] = s[m]
    BY <1>2, <2>1, <2>2
  <2> QED BY <2>2, <2>3, <2>4, <2>5
<1>6. r # <<>> /\ Head(r) = s[m] /\ Tail(r) = f
  <2> HIDE DEF r
  <2>1. r # <<>>
    BY <1>2, <1>5
  <2>2. Head(r) = r[1]
    BY <1>5, <2>1
  <2>3. /\ Tail(r) \in Seq(Nodes) /\ Len(Tail(r)) = m - 1
        /\ \A i \in 1 .. Len(Tail(r)) : Tail(r)[i] = r[i + 1]
    BY <1>5, <2>1, HeadTailProperties
  <2>4. \A i \in 1 .. Len(Tail(r)) : Tail(r)[i] = f[i]
    BY <1>3, <1>5, <2>3
  <2> QED BY <1>3, <1>5, <2>1, <2>2, <2>3, <2>4, SeqEqual
<1> HIDE DEF r, p
<1>7. Distinct(r)
  <2> SUFFICES ASSUME NEW i \in 1 .. m, NEW j \in 1 .. m, r[i] = r[j]
               PROVE  i = j
    BY <1>5 DEF Distinct
  <2> DEFINE at(k) == IF k = 1 THEN m ELSE k - 1
  <2>1. ASSUME NEW k \in 1 .. m PROVE at(k) \in 1 .. m /\ r[k] = s[at(k)]
    <3>1. CASE k = 1
      BY <1>2, <1>5, <3>1
    <3>2. CASE k # 1
      <4>1. k - 1 \in 1 .. m - 1 /\ k - 1 \in 1 .. m /\ (k - 1) + 1 = k
        BY <1>2, <3>2
      <4> QED BY <1>5, <3>2, <4>1
    <3> QED BY <3>1, <3>2
  <2>2. /\ at(i) \in 1 .. m /\ r[i] = s[at(i)]
        /\ at(j) \in 1 .. m /\ r[j] = s[at(j)]
    BY <2>1
  <2>3. at(i) = at(j)
    BY <1>1, <2>2
  <2> QED BY <1>2, <2>3
<1>8. Links(nx, r)
  <2> SUFFICES ASSUME NEW i \in 1 .. m - 1 PROVE nx[r[i]] = r[i + 1]
    BY <1>5 DEF Links
  <2>1. r[i + 1] = s[i]
    BY <1>5
  <2>2. CASE i = 1
    BY <1>1, <1>5, <2>1, <2>2
  <2>3. CASE i # 1
    <3>1. i - 1 \in 1 .. m - 1 /\ (i - 1) + 1 = i
      BY <1>2, <2>3
    <3> QED BY <1>1, <1>5, <2>1, <3>1
  <2> QED BY <2>2, <2>3
<1>9. p = r[Len(r)] /\ nx[p] = r[1]
  <2>1. CASE m = 1
    BY <1>1, <1>5, <2>1 DEF p
  <2>2. CASE m # 1
    <3>1. m - 1 \in 1 .. m - 1 /\ (m - 1) + 1 = m
      BY <1>2, <2>2
    <3> QED BY <1>1, <1>5, <2>2, <3>1 DEF p
  <2> QED BY <2>1, <2>2
<1>10. Shape(nx, p, r)
  BY <1>1, <1>5, <1>6, <1>7, <1>8, <1>9 DEF Shape
<1> QED BY <1>4, <1>6, <1>10 DEF p, r, f, m

(* Without the node at place k, which is not the leftmost. *)
LEMMA RemovedLinks ==
    ASSUME NEW nx, NEW l, NEW s, Shape(nx, l, s), NEW k \in 2 .. Len(s)
    PROVE  Shape([nx EXCEPT ![s[k - 1]] = nx[s[k]]],
                 IF s[k] = l THEN s[k - 1] ELSE l, RemoveAt(s, k))
<1> DEFINE m == Len(s)
           t == RemoveAt(s, k)
           ny == [nx EXCEPT ![s[k - 1]] = nx[s[k]]]
           lastNow == IF s[k] = l THEN s[k - 1] ELSE l
<1>0. s \in Seq(Nodes) /\ Len(s) \in Nat
  BY DEF Shape
<1>1. /\ nx \in [Nodes -> Nodes \cup {Null}]
      /\ l = s[m] /\ nx[l] = s[1]
      /\ \A i \in 1 .. m - 1 : nx[s[i]] = s[i + 1]
      /\ \A i, j \in 1 .. m : s[i] = s[j] => i = j
  <2>1. s # <<>>
    BY <1>0
  <2> QED BY <2>1 DEF Shape, Distinct, Links
<1>2. m \in Nat \ {0} /\ m \in 1 .. m /\ \A i \in 1 .. m : s[i] \in Nodes
  BY <1>0, ElementOfSeq
<1> HIDE DEF m
<1>3. k \in 2 .. m /\ k \in 1 .. m /\ k - 1 \in 1 .. m
  BY <1>2 DEF m
<1>4. /\ t \in Seq(Nodes) /\ Len(t) = m - 1
      /\ \A i \in 1 .. m - 1 : t[i] = IF i < k THEN s[i] ELSE s[i + 1]
  <2> DEFINE a == SubSeq(s, 1, k - 1)
             b == SubSeq(s, k + 1, m)
  <2>1. /\ a \in Seq(Nodes) /\ Len(a) = k - 1
        /\ \A i \in 1 .. k - 1 : a[i] = s[i]
    <3>1. \A i \in 1 .. k - 1 : s[i] \in Nodes
      BY <1>2, <1>3
    <3> QED BY <1>2, <1>3, <3>1, SubSeqProperties
  <2>2. /\ b \in Seq(Nodes) /\ Len(b) = m - k
        /\ \A i \in 1 .. m - k : b[i] = s[k + i]
    <3>1. \A i \in k + 1 .. m : s[i] \in Nodes
      BY <1>2, <1>3
    <3> QED BY <1>2, <1>3, <3>1, SubSeqProperties
  <2>3. t = a \o b
    BY DEF RemoveAt, m
  <2> HIDE DEF a, b, t
  <2>4. /\ t \in Seq(Nodes) /\ Len(t) = (k - 1) + (m - k)
        /\ \A i \in 1 .. (k - 1) + (m - k) :
             t[i] = IF i <= k - 1 THEN a[i] ELSE b[i - (k - 1)]
    <3>1. /\ t \in Seq(Nodes) /\ Len(t) = Len(a) + Len(b)
          /\ \A i \in 1 .. Len(a) + Len(b) :
               t[i] = IF i <= Len(a) THEN a[i] ELSE b[i - Len(a)]
      <4> HIDE DEF ny, lastNow
      <4> QED BY <2>1, <2>2, <2>3, ConcatProperties
    <3> QED BY <2>1, <2>2, <3>1
  <2>5. (k - 1) + (m - k) = m - 1
    BY <1>2, <1>3
  <2>6. ASSUME NEW i \in 1 .. m - 1
        PROVE  t[i] = IF i < k THEN s[i] ELSE s[i + 1]
    <3>1. CASE i < k
      <4>1. i \in 1 .. k - 1 /\ i <= k - 1
        BY <1>3, <3>1
      <4> QED BY <2>1, <2>4, <2>5, <3>1, <4>1
    <3>2. CASE ~(i < k)
      <4>1. ~(i <= k - 1) /\ i - (k - 1) \in 1 .. m - k /\ k + (i - (k - 1)) = i + 1
        BY <1>2, <1>3, <3>2
      <4> QED BY <2>2, <2>4, <2>5, <3>2, <4>1
    <3> QED BY <3>1, <3>2
  <2> QED BY <2>4, <2>5, <2>6
<1> HIDE DEF t
<1>5. Distinct(t)
  <2> SUFFICES ASSUME NEW i \in 1 .. m - 1, NEW j \in 1 .. m - 1, t[i] = t[j]
               PROVE  i = j
    BY <1>4 DEF Distinct
  <2> DEFINE at(x) == IF x < k THEN x ELSE x + 1
  <2>1. ASSUME NEW x \in 1 .. m - 1 PROVE at(x) \in 1 .. m /\ t[x] = s[at(x)]
    BY <1>2, <1>3, <1>4
  <2>2. /\ at(i) \in 1 .. m /\ t[i] = s[at(i)]
        /\ at(j) \in 1 .. m /\ t[j] = s[at(j)]
    BY <2>1
  <2>3. at(i) = at(j)
    BY <1>1, <2>2
  <2> QED BY <1>3, <2>3
<1>6. s[k - 1] \in Nodes /\ s[k] \in Nodes /\ nx[s[k]] \in Nodes \cup {Null}
  BY <1>1, <1>2, <1>3
<1>7. /\ ny \in [Nodes -> Nodes \cup {Null}] /\ ny[s[k - 1]] = nx[s[k]]
      /\ \A i \in 1 .. m : i # k - 1 => ny[s[i]] = nx[s[i]]
  <2>1. \A i \in 1 .. m : i # k - 1 => s[i] # s[k - 1]
    BY <1>1, <1>3
  <2> QED BY <1>1, <1>2, <1>6, <2>1
<1> HIDE DEF ny
<1>8. Links(ny, t)
  <2> SUFFICES ASSUME NEW i \in 1 .. m - 2 PROVE ny[t[i]] = t[i + 1]
    <3>1. Len(t) - 1 = m - 2
      BY <1>2, <1>4
    <3> QED BY <3>1 DEF Links
  <2>1. /\ i \in 1 .. m - 1 /\ i + 1 \in 1 .. m - 1 /\ i \in 1 .. m
        /\ i + 1 \in 1 .. m
    BY <1>2
  <2>2. CASE i < k - 1
    <3>1. i < k /\ i + 1 < k /\ i # k - 1
      BY <1>3, <2>2
    <3>2. t[i] = s[i] /\ t[i + 1] = s[i + 1]
      BY <1>4, <2>1, <3>1
    <3> QED BY <1>1, <1>7, <2>1, <3>1, <3>2
  <2>3. CASE i = k - 1
    <3>1. i < k /\ i + 1 = k /\ ~(i + 1 < k)
      BY <1>3, <2>3
    <3>2. t[i] = s[k - 1] /\ t[i + 1] = s[k + 1] /\ k \in 1 .. m - 1
      BY <1>4, <2>1, <2>3, <3>1
    <3> QED BY <1>1, <1>7, <3>2
  <2>4. CASE i > k - 1
    <3>1. ~(i < k) /\ ~(i + 1 < k) /\ i + 1 # k - 1
      BY <1>3, <2>4
    <3>2. t[i] = s[i + 1] /\ t[i + 1] = s[(i + 1) + 1]
      BY <1>4, <2>1, <3>1
    <3>3. nx[s[i + 1]] = s[(i + 1) + 1]
      BY <1>1, <2>1
    <3> QED BY <1>7, <2>1, <3>1, <3>2, <3>3
  <2> QED BY <1>3, <2>2, <2>3, <2>4
<1>9. m - 1 \in 1 .. m - 1 /\ 1 \in 1 .. m - 1 /\ 1 < k /\ t[1] = s[1] /\ t # <<>>
  <2>1. m - 1 \in 1 .. m - 1 /\ 1 \in 1 .. m - 1 /\ 1 < k
    BY <1>2, <1>3
  <2> QED BY <1>4, <2>1
<1>10. lastNow = t[m - 1] /\ ny[lastNow] = s[1]
  <2>1. CASE k = m
    <3>1. s[k] = l /\ m - 1 < k
      BY <1>1, <1>2, <2>1
    <3> QED BY <1>1, <1>4, <1>7, <1>9, <2>1, <3>1
  <2>2. CASE k # m
    <3>1. s[k] # l /\ ~(m - 1 < k) /\ (m - 1) + 1 = m /\ m # k - 1
      BY <1>1, <1>2, <1>3, <2>2
    <3> QED BY <1>1, <1>2, <1>4, <1>7, <1>9, <3>1
  <2> QED BY <2>1, <2>2
<1> HIDE DEF lastNow
<1>11. Shape(ny, lastNow, t)
  BY <1>4, <1>5, <1>7, <1>8, <1>9, <1>10 DEF Shape
<1> QED BY <1>11 DEF ny, lastNow, t

-----------------------------------------------------------------------------
(* Every call has the effect on the sequence that Deque states.            *)

LEMMA SameOperators ==
    \A q : /\ D!ToSet(q) = ToSet(q) /\ D!Front(q) = Front(q) /\ D!Last(q) = Last(q)
          /\ \A i : D!RemoveAt(q, i) = RemoveAt(q, i)
BY DEF D!ToSet, ToSet, D!Front, Front, D!Last, Last, D!RemoveAt, RemoveAt

LEMMA RightPushes ==
    ASSUME NEW s, Shape(next, last, s), NEW n \in Nodes, RightPush(n)
    PROVE  LInv' /\ D!RightPush(n)
<1>1. Ring = s /\ n \notin ToSet(s)
  BY RingIs DEF RightPush, CanPush
<1>2. Shape(next', last', Append(s, n))
  <2>1. Insert(n) /\ last' = n
    BY DEF RightPush
  <2> QED BY <1>1, <2>1, PushedLinks
<1>3. LInv' /\ Ring' = Append(s, n)
  BY <1>2, NextRing
<1> QED BY <1>1, <1>3, SameOperators DEF RightPush, D!RightPush

LEMMA LeftPushes ==
    ASSUME NEW s, Shape(next, last, s), NEW n \in Nodes, LeftPush(n)
    PROVE  LInv' /\ D!LeftPush(n)
<1>1. Ring = s /\ n \notin ToSet(s)
  BY RingIs DEF LeftPush, CanPush
<1>2. Shape(next', last', <<n>> \o s)
  <2>1. Insert(n) /\ last' = IF last = Null THEN n ELSE last
    BY DEF LeftPush
  <2> QED BY <1>1, <2>1, PushedLinks
<1>3. LInv' /\ Ring' = <<n>> \o s
  BY <1>2, NextRing
<1> QED BY <1>1, <1>3, SameOperators DEF LeftPush, D!LeftPush

LEMMA PopsFrom ==
    ASSUME NEW l, NEW s, Shape(next, l, s), s # <<>>, LeftPopFrom(l)
    PROVE  LInv' /\ Ring' = Tail(s) /\ returned' = Head(s)
<1>1. /\ Shape(UnlinkLeft(next, l).next, UnlinkLeft(next, l).last, Tail(s))
      /\ next[l] = Head(s) /\ l # Null
  BY PoppedLinks
<1>2. /\ returned' = next[l]
      /\ next' = UnlinkLeft(next, l).next /\ last' = UnlinkLeft(next, l).last
  BY <1>1 DEF LeftPopFrom
<1>3. Shape(next', last', Tail(s))
  BY <1>1, <1>2
<1> QED BY <1>1, <1>2, <1>3, NextRing

LEMMA Unmoved ==
    ASSUME NEW s, Shape(next, last, s), UNCHANGED <<next, last>>
    PROVE  LInv' /\ Ring' = s
BY NextRing

LEMMA LeftPops ==
    ASSUME NEW s, Shape(next, last, s), LeftPop
    PROVE  LInv' /\ D!LeftPop
<1>1. Ring = s /\ (last = Null <=> s = <<>>)
  BY RingIs
<1>2. CASE s = <<>>
  <2>1. returned' = Null /\ UNCHANGED <<next, last>>
    BY <1>1, <1>2 DEF LeftPop, LeftPopFrom
  <2> QED BY <1>1, <1>2, <2>1, Unmoved DEF D!LeftPop
<1>3. CASE s # <<>>
  <2>1. LInv' /\ Ring' = Tail(s) /\ returned' = Head(s)
    BY <1>3, PopsFrom DEF LeftPop
  <2> QED BY <1>1, <1>3, <2>1 DEF D!LeftPop
<1> QED BY <1>2, <1>3

(* The node before the rightmost one is where the rotation ends. *)
LEMMA RightPops ==
    ASSUME NEW s, Shape(next, last, s), RightPop
    PROVE  LInv' /\ D!RightPop
<1>1. Ring = s /\ (last = Null <=> s = <<>>)
  BY RingIs
<1>2. CASE s = <<>>
  <2>1. returned' = Null /\ UNCHANGED <<next, last>>
    BY <1>1, <1>2 DEF RightPop, LeftPopFrom
  <2> QED BY <1>1, <1>2, <2>1, Unmoved DEF D!RightPop
<1>3. CASE s # <<>>
  <2> DEFINE p == IF Len(s) = 1 THEN s[Len(s)] ELSE s[Len(s) - 1]
             r == <<Last(s)>> \o Front(s)
  <2>1. Shape(next, p, r) /\ r # <<>> /\ Tail(r) = Front(s) /\ Head(r) = Last(s)
    BY <1>3, RotatedRight
  <2>2. FindBefore(last) = p
    <3>1. s \in Seq(Nodes) /\ last = s[Len(s)]
      BY <1>3 DEF Shape
    <3>2. Len(s) \in 1 .. Len(s) /\ last \in Nodes
      BY <1>3, <3>1, NotEmpty
    <3> QED BY <3>1, <3>2, FindBeforeIs
  <2> HIDE DEF p, r
  <2>3. LeftPopFrom(p)
    BY <1>1, <1>3, <2>2 DEF RightPop
  <2>4. LInv' /\ Ring' = Front(s) /\ returned' = Last(s)
    BY <2>1, <2>3, PopsFrom
  <2> QED BY <1>1, <1>3, <2>4, SameOperators DEF D!RightPop
<1> QED BY <1>2, <1>3

LEMMA Rotates ==
    ASSUME NEW s, Shape(next, last, s), LeftPopRightPush
    PROVE  LInv' /\ D!LeftPopRightPush
<1>1. Ring = s /\ (last = Null <=> s = <<>>)
  BY RingIs
<1>2. CASE s = <<>>
  <2>1. returned' = Null /\ UNCHANGED <<next, last>>
    BY <1>1, <1>2 DEF LeftPopRightPush
  <2> QED BY <1>1, <1>2, <2>1, Unmoved DEF D!LeftPopRightPush
<1>3. CASE s # <<>>
  <2>1. returned' = Null /\ next' = next /\ last' = next[last]
    BY <1>1, <1>3 DEF LeftPopRightPush
  <2>2. Shape(next', last', Append(Tail(s), Head(s)))
    BY <1>3, <2>1, RotatedLeft
  <2>3. LInv' /\ Ring' = Append(Tail(s), Head(s))
    BY <2>2, NextRing
  <2> QED BY <1>1, <1>3, <2>1, <2>3 DEF D!LeftPopRightPush
<1> QED BY <1>2, <1>3

(* What find() and the peeks answer. *)
LEMMA FindIs ==
    ASSUME NEW s, Shape(next, last, s), NEW n \in Nodes
    PROVE  Find(n) = IF n \in ToSet(s) THEN n ELSE Null
<1>1. CASE n \notin ToSet(s)
  BY <1>1, FindBeforeIs DEF Find
<1>2. CASE n \in ToSet(s)
  <2>1. s \in Seq(Nodes) /\ DOMAIN s = 1 .. Len(s)
    BY LenProperties DEF Shape
  <2>2. PICK k \in 1 .. Len(s) : s[k] = n
    BY <1>2, <2>1 DEF ToSet
  <2>3. FindBefore(n) = IF k = 1 THEN s[Len(s)] ELSE s[k - 1]
    BY <2>2, FindBeforeIs
  <2>4. s # <<>> /\ Len(s) \in Nat /\ \A i \in 1 .. Len(s) : s[i] \in Nodes
    BY <2>1, <2>2, ElementOfSeq
  <2>5. /\ next[s[Len(s)]] = s[1]
        /\ \A i \in 1 .. Len(s) - 1 : next[s[i]] = s[i + 1]
    BY <2>4 DEF Shape, Links
  <2>6. CASE k = 1
    <3>1. Len(s) \in 1 .. Len(s)
      BY <2>2, <2>4
    <3> QED BY <1>2, <2>2, <2>3, <2>4, <2>5, <2>6, <3>1, ClistAssumption DEF Find
  <2>7. CASE k # 1
    <3>1. k - 1 \in 1 .. Len(s) - 1 /\ k - 1 \in 1 .. Len(s) /\ (k - 1) + 1 = k
      BY <2>2, <2>4, <2>7
    <3>2. next[s[k - 1]] = n
      BY <2>2, <2>5, <3>1
    <3> QED BY <1>2, <2>3, <2>4, <2>7, <3>1, <3>2, ClistAssumption DEF Find
  <2> QED BY <2>6, <2>7
<1> QED BY <1>1, <1>2

LEMMA Peeked ==
    ASSUME NEW s, Shape(next, last, s)
    PROVE  /\ LeftPeek = IF s = <<>> THEN Null ELSE Head(s)
           /\ RightPeek = IF s = <<>> THEN Null ELSE Last(s)
           /\ Count = Len(s)
<1>1. (last = Null <=> s = <<>>) /\ (s # <<>> => Length = Len(s))
  BY RingIs
<1>2. CASE s = <<>>
  BY <1>1, <1>2 DEF LeftPeek, RightPeek, Count
<1>3. CASE s # <<>>
  <2>1. s \in Seq(Nodes) /\ last = s[Len(s)] /\ next[last] = s[1]
    BY <1>3 DEF Shape
  <2>2. Head(s) = s[1] /\ Last(s) = s[Len(s)]
    BY <1>3, <2>1 DEF Last
  <2> QED BY <1>1, <1>3, <2>1, <2>2 DEF LeftPeek, RightPeek, Count
<1> QED BY <1>2, <1>3

LEMMA Queries ==
    ASSUME NEW s, Shape(next, last, s), Query
    PROVE  LInv' /\ D!Query
<1>1. Ring = s
  BY RingIs
<1>2. LInv' /\ Ring' = s
  BY Unmoved DEF Query
<1>3. [n \in Nodes |-> Find(n)] = [n \in Nodes |-> IF n \in ToSet(s) THEN n ELSE Null]
  BY FindIs
<1>4. returned' = [left  |-> IF s = <<>> THEN Null ELSE Head(s),
                   right |-> IF s = <<>> THEN Null ELSE Last(s),
                   count |-> Len(s),
                   found |-> [n \in Nodes |-> IF n \in ToSet(s) THEN n ELSE Null]]
  BY <1>3, Peeked DEF Query
<1> QED BY <1>1, <1>2, <1>4, SameOperators DEF D!Query

LEMMA Removes ==
    ASSUME NEW s, Shape(next, last, s), NEW n \in Nodes, RemoveNode(n)
    PROVE  LInv' /\ D!RemoveNode(n)
<1>1. Ring = s /\ (last = Null <=> s = <<>>)
  BY RingIs
<1>2. s \in Seq(Nodes) /\ Len(s) \in Nat /\ DOMAIN s = 1 .. Len(s)
  BY LenProperties DEF Shape
<1>3. LeftPeek = IF s = <<>> THEN Null ELSE Head(s)
  BY Peeked
<1>4. CASE RemoveLeft(n)
  <2>1. s # <<>> /\ Head(s) = n /\ LeftPop
    BY <1>3, <1>4, ClistAssumption DEF RemoveLeft
  <2>2. LInv' /\ Ring' = Tail(s) /\ returned' = n
    BY <2>1, PopsFrom DEF LeftPop
  <2>3. 1 \in DOMAIN s /\ s[1] = n /\ RemoveAt(s, 1) = Tail(s)
    <3>1. Len(s) >= 1 /\ \A i \in 1 .. Len(s) : s[i] \in Nodes
      BY <1>2, <2>1, NotEmpty
    <3> DEFINE b == SubSeq(s, 2, Len(s))
               t == Tail(s)
    <3>2. RemoveAt(s, 1) = <<>> \o b
      <4>1. SubSeq(s, 1, 1 - 1) = <<>>
        BY <1>2
      <4> QED BY <4>1 DEF RemoveAt
    <3>3. b \in Seq(Nodes)
      BY <1>2, <3>1, SubSeqProperties
    <3>4. t = b
      BY <1>2, <2>1, HeadTailProperties
    <3> HIDE DEF b
    <3>5. <<>> \o b = b
      BY <3>3, ConcatEmptySeq
    <3> QED BY <1>2, <2>1, <3>1, <3>2, <3>4, <3>5
  <2> QED BY <1>1, <2>2, <2>3, SameOperators DEF D!RemoveNode
<1>5. CASE RemoveInside(n)
  <2>1. /\ LeftPeek # n /\ FindBefore(n) # Null /\ returned' = n
        /\ next' = [next EXCEPT ![FindBefore(n)] = next[n]]
        /\ last' = IF n = last THEN FindBefore(n) ELSE last
    BY <1>5 DEF RemoveInside, NewLast
  <2>2. PICK k \in 1 .. Len(s) : s[k] = n
    <3>1. n \in ToSet(s)
      BY <2>1, FindBeforeIs
    <3> QED BY <1>2, <3>1 DEF ToSet
  <2>3. k # 1
    <3>1. s # <<>>
      BY <2>2
    <3> QED BY <1>2, <1>3, <2>1, <2>2, <3>1
  <2>4. FindBefore(n) = s[k - 1] /\ k \in 2 .. Len(s)
    BY <1>2, <2>2, <2>3, FindBeforeIs
  <2>5. Shape([next EXCEPT ![s[k - 1]] = next[s[k]]],
              IF s[k] = last THEN s[k - 1] ELSE last, RemoveAt(s, k))
    BY <2>4, RemovedLinks
  <2>6. Shape(next', last', RemoveAt(s, k))
    BY <2>1, <2>2, <2>4, <2>5
  <2>7. LInv' /\ Ring' = RemoveAt(s, k)
    BY <2>6, NextRing
  <2> QED BY <1>1, <1>2, <2>1, <2>2, <2>7, SameOperators DEF D!RemoveNode
<1>6. CASE RemoveNothing(n)
  <2>1. returned' = Null /\ UNCHANGED <<next, last>> /\ FindBefore(n) = Null
    BY <1>6 DEF RemoveNothing
  <2>2. LInv' /\ Ring' = s
    BY <2>1, Unmoved
  <2>3. n \notin ToSet(s)
    <3> SUFFICES ASSUME n \in ToSet(s) PROVE FALSE
      OBVIOUS
    <3>1. PICK k \in 1 .. Len(s) : s[k] = n
      BY <1>2 DEF ToSet
    <3>2. FindBefore(n) = IF k = 1 THEN s[Len(s)] ELSE s[k - 1]
      BY <3>1, FindBeforeIs
    <3>3. \A i \in 1 .. Len(s) : s[i] # Null
      BY <1>2, ElementOfSeq, ClistAssumption
    <3>4. Len(s) \in 1 .. Len(s) /\ (k # 1 => k - 1 \in 1 .. Len(s))
      BY <1>2, <3>1
    <3> QED BY <2>1, <3>2, <3>3, <3>4
  <2> QED BY <1>1, <2>1, <2>2, <2>3, SameOperators DEF D!RemoveNode
<1> QED BY <1>4, <1>5, <1>6 DEF RemoveNode

-----------------------------------------------------------------------------
(* The empty list has the shape of the empty sequence.                     *)
LEMMA ClistStarts ==
    ClistInit => LInv /\ D!Init
<1> SUFFICES ASSUME ClistInit PROVE LInv /\ D!Init
  OBVIOUS
<1>1. Shape(next, last, <<>>)
  <2>1. next \in [Nodes -> Nodes \cup {Null}] /\ last = Null
    BY DEF ClistInit
  <2>2. <<>> \in Seq(Nodes) /\ Distinct(<<>>)
    BY DEF Distinct
  <2> QED BY <2>1, <2>2 DEF Shape
<1>2. Ring = <<>>
  BY <1>1, RingIs
<1> QED BY <1>1, <1>2 DEF LInv, D!Init, ClistInit

LEMMA ClistSteps ==
    LInv /\ [ClistNext]_clistVars => LInv' /\ [D!Next]_<<Ring, returned>>
<1> SUFFICES ASSUME LInv, [ClistNext]_clistVars
             PROVE  LInv' /\ [D!Next]_<<Ring, returned>>
  OBVIOUS
<1>1. PICK s : Shape(next, last, s)
  BY DEF LInv
<1>2. CASE LeftPop
  BY <1>1, <1>2, LeftPops DEF D!Next
<1>3. CASE RightPop
  BY <1>1, <1>3, RightPops DEF D!Next
<1>4. CASE LeftPopRightPush
  BY <1>1, <1>4, Rotates DEF D!Next
<1>5. CASE Query
  BY <1>1, <1>5, Queries DEF D!Next
<1>6. ASSUME NEW n \in Nodes, RightPush(n) PROVE LInv' /\ D!Next
  BY <1>1, <1>6, RightPushes DEF D!Next
<1>7. ASSUME NEW n \in Nodes, LeftPush(n) PROVE LInv' /\ D!Next
  BY <1>1, <1>7, LeftPushes DEF D!Next
<1>8. ASSUME NEW n \in Nodes, RemoveNode(n) PROVE LInv' /\ D!Next
  BY <1>1, <1>8, Removes DEF D!Next
<1>9. CASE UNCHANGED clistVars
  <2>1. UNCHANGED <<next, last>> /\ UNCHANGED returned
    BY <1>9 DEF clistVars
  <2>2. LInv' /\ Ring' = s
    BY <1>1, <2>1, Unmoved
  <2>3. Ring = s
    BY <1>1, RingIs
  <2> QED BY <2>1, <2>2, <2>3
<1> QED BY <1>2, <1>3, <1>4, <1>5, <1>6, <1>7, <1>8, <1>9 DEF ClistNext

(* At every moment the pointers of the list form one ring without Null and *)
(* without a node twice, so that each loop over it comes to its end.       *)
THEOREM ClistClosed == ClistSpec => []RingIsClosed
<1>1. ClistInit => LInv
  BY ClistStarts
<1>2. LInv /\ [ClistNext]_clistVars => LInv'
  BY ClistSteps
<1>3. LInv => RingIsClosed
  BY RingIs DEF LInv
<1> QED BY <1>1, <1>2, <1>3, PTL DEF ClistSpec

(* Pushing, popping, rotating, removing and looking up on the pointers is  *)
(* doing so on a sequence of distinct nodes, with the same results.        *)
THEOREM ClistRefines == ClistSpec => ImplementsDeque
<1>1. ClistInit => LInv /\ D!Init
  BY ClistStarts
<1>2. LInv /\ [ClistNext]_clistVars => LInv' /\ [D!Next]_<<Ring, returned>>
  BY ClistSteps
<1> QED BY <1>1, <1>2, PTL DEF ClistSpec, ImplementsDeque, D!Spec

-----------------------------------------------------------------------------
(* The ring buffer.                                                        *)

(* Within reach of the head, correcting by comparison is enough, and no    *)
(* two places less than the capacity apart are the same cell.              *)
LEMMA WrappedCells ==
    /\ \A p \in 0 .. 2 * Capacity - 1 : Wrapped(p) \in Cells
    /\ \A p, q \in 0 .. 2 * Capacity - 1 :
         p < q /\ q < p + Capacity => Wrapped(p) # Wrapped(q)
BY RingBufferAssumption DEF Wrapped, Cells

(* A place may be corrected halfway. *)
LEMMA WrappedTwice ==
    ASSUME NEW s \in Cells, NEW k \in 0 .. Capacity, NEW i \in 0 .. Capacity - 1,
           k + i < Capacity
    PROVE  Wrapped(Wrapped(s + k) + i) = Wrapped(s + k + i)
BY RingBufferAssumption DEF Wrapped, Cells

-----------------------------------------------------------------------------
(* Without remove() up to the last cell the head stays inside.             *)
RInv ==
    /\ buf \in [Cells -> Bytes]
    /\ start \in Cells
    /\ avail \in 0 .. Capacity
    /\ taken \in Seq(Bytes)

(* The n bytes from cell s on. *)
Held(s, n) == [i \in 1 .. n |-> buf[Wrapped(s + i - 1)]]

LEMMA HeldBytes ==
    ASSUME buf \in [Cells -> Bytes], NEW s \in Cells, NEW n \in 0 .. Capacity
    PROVE  /\ Held(s, n) \in Seq(Bytes) /\ Len(Held(s, n)) = n
           /\ \A i \in 1 .. n : Held(s, n)[i] = buf[Wrapped(s + i - 1)]
<1>1. ASSUME NEW i \in 1 .. n
      PROVE  buf[Wrapped(s + i - 1)] \in Bytes
  <2>1. s + i - 1 \in 0 .. 2 * Capacity - 1
    BY RingBufferAssumption DEF Cells
  <2>2. Wrapped(s + i - 1) \in Cells
    BY <2>1, WrappedCells
  <2> QED BY <2>2
<1>2. Held(s, n) \in [1 .. n -> Bytes] /\ n \in Nat
  BY <1>1, RingBufferAssumption DEF Held
<1>3. Held(s, n) \in Seq(Bytes) /\ Len(Held(s, n)) = n
  BY <1>2
<1> QED BY <1>3 DEF Held

LEMMA ContentIs ==
    ASSUME RInv
    PROVE  /\ RingContent = Held(start, avail)
           /\ RingContent \in Seq(Bytes) /\ Len(RingContent) = avail
           /\ \A i \in 1 .. avail : RingContent[i] = buf[Wrapped(start + i - 1)]
<1>1. buf \in [Cells -> Bytes] /\ start \in Cells /\ avail \in 0 .. Capacity
  BY DEF RInv
<1>2. ASSUME NEW i \in 1 .. avail
      PROVE  Cell(Wrapped(start + i - 1)) = buf[Wrapped(start + i - 1)]
  <2>1. start + i - 1 \in 0 .. 2 * Capacity - 1
    BY <1>1, RingBufferAssumption DEF Cells
  <2>2. Wrapped(start + i - 1) \in Cells
    BY <2>1, WrappedCells
  <2> QED BY <2>2 DEF Cell
<1>3. RingContent = Held(start, avail)
  BY <1>2 DEF RingContent, Held
<1> QED BY <1>1, <1>3, HeldBytes

(* The same after a step. *)
ContentRight == RingContent = Held(start, avail)

LEMMA ContentNext == RInv' => ContentRight'
<1>1. RInv => ContentRight
  BY ContentIs DEF ContentRight
<1> QED BY <1>1, PTL

-----------------------------------------------------------------------------
(* Adding bytes behind the n from s on writes those cells and no other.    *)
LEMMA FilledIs ==
    ASSUME buf \in [Cells -> Bytes], NEW s \in Cells, NEW n \in 0 .. Capacity,
           NEW xs \in Seq(Bytes), n + Len(xs) <= Capacity
    PROVE  /\ Filled(s, n, xs) \in [Cells -> Bytes]
           /\ \A j \in 1 .. Len(xs) : Filled(s, n, xs)[Wrapped(s + n + j - 1)] = xs[j]
           /\ \A i \in 1 .. n : Filled(s, n, xs)[Wrapped(s + i - 1)]
                                    = buf[Wrapped(s + i - 1)]
<1> DEFINE written(c) == {j \in DOMAIN xs : Wrapped(s + n + j - 1) = c}
           value(c)   == IF written(c) = {} THEN buf[c] ELSE xs[Min(written(c))]
<1>1. Filled(s, n, xs) = [c \in Cells |-> value(c)]
  BY DEF Filled
<1>2. DOMAIN xs = 1 .. Len(xs) /\ Len(xs) \in Nat
  BY LenProperties
<1>3. ASSUME NEW j \in 1 .. Len(xs)
      PROVE  /\ s + n + j - 1 \in 0 .. 2 * Capacity - 1
             /\ Wrapped(s + n + j - 1) \in Cells
  <2>1. s + n + j - 1 \in 0 .. 2 * Capacity - 1
    BY <1>2, RingBufferAssumption DEF Cells
  <2> QED BY <2>1, WrappedCells
<1>4. ASSUME NEW j \in 1 .. Len(xs), NEW k \in 1 .. Len(xs), j < k
      PROVE  Wrapped(s + n + j - 1) # Wrapped(s + n + k - 1)
  <2>1. /\ s + n + j - 1 < s + n + k - 1
        /\ s + n + k - 1 < (s + n + j - 1) + Capacity
    BY <1>2, <1>4, RingBufferAssumption DEF Cells
  <2> QED BY <1>3, <2>1, WrappedCells
<1>5. ASSUME NEW j \in 1 .. Len(xs), NEW k \in 1 .. Len(xs),
             Wrapped(s + n + j - 1) = Wrapped(s + n + k - 1)
      PROVE  j = k
  <2>1. ~(j < k) /\ ~(k < j)
    BY <1>4, <1>5
  <2> QED BY <1>2, <2>1
<1>6. ASSUME NEW j \in 1 .. Len(xs)
      PROVE  value(Wrapped(s + n + j - 1)) = xs[j]
  <2>1. written(Wrapped(s + n + j - 1)) = {j}
    BY <1>2, <1>5
  <2>2. Min({j}) = j
    <3> DEFINE one == {j}
    <3>1. one \subseteq Int /\ j \in one /\ \A k \in one : j <= k
      BY <1>2
    <3> HIDE DEF one
    <3>2. Min(one) = j
      BY <3>1, MinIs
    <3> QED BY <3>2 DEF one
  <2> QED BY <2>1, <2>2
<1>7. ASSUME NEW i \in 1 .. n
      PROVE  /\ Wrapped(s + i - 1) \in Cells
             /\ value(Wrapped(s + i - 1)) = buf[Wrapped(s + i - 1)]
  <2>1. s + i - 1 \in 0 .. 2 * Capacity - 1
    BY RingBufferAssumption DEF Cells
  <2>2. ASSUME NEW j \in 1 .. Len(xs)
        PROVE  Wrapped(s + n + j - 1) # Wrapped(s + i - 1)
    <3>1. /\ s + i - 1 < s + n + j - 1
          /\ s + n + j - 1 < (s + i - 1) + Capacity
      BY <1>2, RingBufferAssumption DEF Cells
    <3> QED BY <1>3, <2>1, <3>1, WrappedCells
  <2>3. written(Wrapped(s + i - 1)) = {}
    BY <1>2, <2>2
  <2> QED BY <2>1, <2>3, WrappedCells
<1>8. ASSUME NEW c \in Cells PROVE value(c) \in Bytes
  <2>1. CASE written(c) = {}
    BY <2>1
  <2>2. CASE written(c) # {}
    <3>1. PICK j \in 1 .. Len(xs) : Wrapped(s + n + j - 1) = c
      BY <1>2, <2>2
    <3>2. value(c) = xs[j]
      BY <1>6, <3>1
    <3> QED BY <3>2, ElementOfSeq
  <2> QED BY <2>1, <2>2
<1> HIDE DEF value
<1> QED BY <1>1, <1>3, <1>6, <1>7, <1>8

(* What a step leaves, by what it does to the three fields. *)
LEMMA Extended ==
    ASSUME RInv, NEW s \in Cells, NEW n \in 0 .. Capacity,
           NEW xs \in Seq(Bytes), n + Len(xs) <= Capacity,
           buf' = Filled(s, n, xs), start' = s, avail' = n + Len(xs),
           taken' \in Seq(Bytes)
    PROVE  RInv' /\ RingContent' = Held(s, n) \o xs
<1>1. buf \in [Cells -> Bytes] /\ Len(xs) \in Nat
  BY LenProperties DEF RInv
<1>2. /\ buf' \in [Cells -> Bytes]
      /\ \A j \in 1 .. Len(xs) : buf'[Wrapped(s + n + j - 1)] = xs[j]
      /\ \A i \in 1 .. n : buf'[Wrapped(s + i - 1)] = buf[Wrapped(s + i - 1)]
  BY <1>1, FilledIs
<1>3. avail' \in 0 .. Capacity
  BY <1>1, RingBufferAssumption
<1>4. RInv'
  BY <1>2, <1>3 DEF RInv, Cells
<1>5. RingContent' = [i \in 1 .. n + Len(xs) |-> buf'[Wrapped(s + i - 1)]]
  BY <1>4, ContentNext DEF ContentRight, Held, Wrapped
<1>6. /\ Held(s, n) \in Seq(Bytes) /\ Len(Held(s, n)) = n
      /\ \A i \in 1 .. n : Held(s, n)[i] = buf[Wrapped(s + i - 1)]
  BY <1>1, HeldBytes
<1>7. /\ Held(s, n) \o xs \in Seq(Bytes) /\ Len(Held(s, n) \o xs) = n + Len(xs)
      /\ \A i \in 1 .. n + Len(xs) :
           (Held(s, n) \o xs)[i] = IF i <= n THEN Held(s, n)[i] ELSE xs[i - n]
  BY <1>6, ConcatProperties
<1>8. ASSUME NEW i \in 1 .. n + Len(xs)
      PROVE  buf'[Wrapped(s + i - 1)] = (Held(s, n) \o xs)[i]
  <2>1. CASE i <= n
    <3>1. i \in 1 .. n
      BY <2>1
    <3> QED BY <1>2, <1>6, <1>7, <2>1, <3>1
  <2>2. CASE ~(i <= n)
    <3>1. i - n \in 1 .. Len(xs) /\ s + n + (i - n) - 1 = s + i - 1
      BY <1>1, <2>2, RingBufferAssumption DEF Cells
    <3>2. buf'[Wrapped(s + n + (i - n) - 1)] = xs[i - n]
      BY <1>2, <3>1
    <3> QED BY <1>7, <2>2, <3>1, <3>2
  <2> QED BY <2>1, <2>2
<1>9. DOMAIN (Held(s, n) \o xs) = 1 .. n + Len(xs)
  BY <1>7
<1>10. Held(s, n) \o xs = [i \in 1 .. n + Len(xs) |-> (Held(s, n) \o xs)[i]]
  BY <1>7, <1>9, LenProperties
<1> QED BY <1>4, <1>5, <1>8, <1>10

(* The bytes after the first k. *)
LEMMA HeldRest ==
    ASSUME RInv, NEW s \in Cells, NEW k \in 0 .. avail,
           s = Wrapped(start + k) \/ k = avail
    PROVE  Held(s, avail - k) = SubSeq(RingContent, k + 1, Len(RingContent))
<1>1. buf \in [Cells -> Bytes] /\ start \in Cells /\ avail \in 0 .. Capacity
  BY DEF RInv
<1>2. avail - k \in 0 .. Capacity /\ k \in 0 .. Capacity
  BY <1>1, RingBufferAssumption
<1>5. /\ RingContent \in Seq(Bytes) /\ Len(RingContent) = avail
      /\ \A i \in 1 .. avail : RingContent[i] = buf[Wrapped(start + i - 1)]
  BY ContentIs
<1>6. /\ Held(s, avail - k) \in Seq(Bytes) /\ Len(Held(s, avail - k)) = avail - k
      /\ \A i \in 1 .. avail - k : Held(s, avail - k)[i] = buf[Wrapped(s + i - 1)]
  BY <1>1, <1>2, HeldBytes
<1> DEFINE rest == SubSeq(RingContent, k + 1, avail)
<1>7. /\ rest \in Seq(Bytes) /\ Len(rest) = avail - k
      /\ \A i \in 1 .. avail - k : rest[i] = RingContent[k + i]
  <2>1. \A i \in k + 1 .. avail : RingContent[i] \in Bytes
    BY <1>1, <1>2, <1>5, ElementOfSeq
  <2>2. /\ rest \in Seq(Bytes)
        /\ Len(rest) = IF k + 1 <= avail THEN avail - (k + 1) + 1 ELSE 0
        /\ \A i \in 1 .. avail - (k + 1) + 1 : rest[i] = RingContent[k + 1 + i - 1]
    <3>1. k + 1 \in Int /\ avail \in Int
      BY <1>1, <1>2, RingBufferAssumption
    <3> QED BY <2>1, <3>1, SubSeqProperties
  <2> HIDE DEF rest
  <2>3. /\ Len(rest) = avail - k
        /\ 1 .. avail - (k + 1) + 1 = 1 .. avail - k
        /\ \A i \in 1 .. avail - k : k + 1 + i - 1 = k + i
    BY <1>1, <1>2, <2>2
  <2> QED BY <2>2, <2>3
<1> HIDE DEF rest
<1>8. ASSUME NEW i \in 1 .. avail - k
      PROVE  Held(s, avail - k)[i] = rest[i]
  <2>1. s = Wrapped(start + k)
    BY <1>1, <1>2
  <2>2. /\ i - 1 \in 0 .. Capacity - 1 /\ k + (i - 1) < Capacity
        /\ k + i \in 1 .. avail
        /\ start + k + (i - 1) = start + (k + i) - 1
    BY <1>1, <1>2, RingBufferAssumption DEF Cells
  <2>3. Wrapped(Wrapped(start + k) + (i - 1)) = Wrapped(start + k + (i - 1))
    BY <1>1, <1>2, <2>2, WrappedTwice
  <2>4. s + i - 1 = Wrapped(start + k) + (i - 1)
    <3>1. s \in Int
      BY DEF Cells
    <3> QED BY <2>1, <3>1
  <2>5. rest[i] = buf[Wrapped(start + (k + i) - 1)]
    BY <1>5, <1>7, <2>2
  <2> QED BY <1>6, <2>2, <2>3, <2>4, <2>5
<1>9. Held(s, avail - k) = rest
  BY <1>6, <1>7, <1>8, SeqEqual
<1> QED BY <1>5, <1>9 DEF rest

LEMMA Shortened ==
    ASSUME RInv, NEW s \in Cells, NEW k \in 0 .. avail,
           s = Wrapped(start + k) \/ k = avail,
           buf' = buf, start' = s, avail' = avail - k, taken' \in Seq(Bytes)
    PROVE  /\ RInv'
           /\ RingContent' = SubSeq(RingContent, k + 1, Len(RingContent))
<1>1. buf \in [Cells -> Bytes] /\ start \in Cells /\ avail \in 0 .. Capacity
  BY DEF RInv
<1>2. avail - k \in 0 .. Capacity /\ k \in 0 .. Capacity
  BY <1>1, RingBufferAssumption
<1>3. RInv'
  BY <1>1, <1>2 DEF RInv, Cells
<1>4. RingContent' = Held(s, avail - k)
  BY <1>3, ContentNext DEF ContentRight, Held, Wrapped
<1> QED BY <1>3, <1>4, HeldRest

-----------------------------------------------------------------------------
(* The head after one byte is taken, or some are. *)
LEMMA Heads ==
    ASSUME RInv
    PROVE  /\ avail > 0 => /\ HeadAfterOne \in Cells
                           /\ HeadAfterOne = Wrapped(start + 1) \/ avail = 1
           /\ \A i \in 0 .. Capacity : Ahead(i) = Wrapped(start + i) /\ Ahead(i) \in Cells
           /\ Wrapped(start + 0) = start
BY RingBufferAssumption DEF RInv, HeadAfterOne, Ahead, Wrapped, Cells

(* The first k bytes. *)
LEMMA FirstBytes ==
    ASSUME RInv, NEW k \in 0 .. avail
    PROVE  /\ SubSeq(RingContent, 1, k) \in Seq(Bytes)
           /\ Len(SubSeq(RingContent, 1, k)) = k
           /\ \A i \in 1 .. k : /\ SubSeq(RingContent, 1, k)[i] = Cell(Wrapped(start + (i - 1)))
                                /\ SubSeq(RingContent, 1, k)[i] = RingContent[i]
<1>1. buf \in [Cells -> Bytes] /\ start \in Cells /\ avail \in 0 .. Capacity
  BY DEF RInv
<1>2. /\ RingContent \in Seq(Bytes) /\ Len(RingContent) = avail
      /\ \A i \in 1 .. avail : RingContent[i] = buf[Wrapped(start + i - 1)]
  BY ContentIs
<1> DEFINE first == SubSeq(RingContent, 1, k)
<1>3. /\ first \in Seq(Bytes)
      /\ Len(first) = IF 1 <= k THEN k - 1 + 1 ELSE 0
      /\ \A i \in 1 .. k - 1 + 1 : first[i] = RingContent[1 + i - 1]
  <2>1. \A i \in 1 .. k : RingContent[i] \in Bytes
    BY <1>1, <1>2, ElementOfSeq
  <2>2. k \in Int /\ 1 \in Int
    BY <1>1, RingBufferAssumption
  <2> QED BY <2>1, <2>2, SubSeqProperties
<1> HIDE DEF first
<1>4. /\ Len(first) = k /\ 1 .. k - 1 + 1 = 1 .. k
      /\ \A i \in 1 .. k : 1 + i - 1 = i
  BY <1>1, <1>3
<1>5. ASSUME NEW i \in 1 .. k
      PROVE  first[i] = Cell(Wrapped(start + (i - 1))) /\ first[i] = RingContent[i]
  <2>1. /\ i \in 1 .. avail /\ start + i - 1 = start + (i - 1)
        /\ start + i - 1 \in 0 .. 2 * Capacity - 1
    BY <1>1, RingBufferAssumption DEF Cells
  <2>2. Wrapped(start + i - 1) \in Cells
    BY <2>1, WrappedCells
  <2>3. first[i] = RingContent[i]
    BY <1>3, <1>4
  <2> QED BY <1>2, <2>1, <2>2, <2>3 DEF Cell
<1> QED BY <1>3, <1>4, <1>5 DEF first

LEMMA HeadIs ==
    ASSUME RInv, avail > 0
    PROVE  /\ <<Cell(start)>> = SubSeq(RingContent, 1, 1) /\ <<Cell(start)>> \in Seq(Bytes)
           /\ Cell(start) = Head(RingContent)
<1>1. avail \in 0 .. Capacity /\ 1 \in 0 .. avail
  BY RingBufferAssumption DEF RInv
<1> DEFINE first == SubSeq(RingContent, 1, 1)
<1>2. /\ first \in Seq(Bytes) /\ Len(first) = 1
      /\ first[1] = Cell(Wrapped(start + (1 - 1))) /\ first[1] = RingContent[1]
  BY <1>1, FirstBytes
<1> HIDE DEF first
<1>3. Wrapped(start + (1 - 1)) = start
  BY Heads
<1>4. first = <<Cell(start)>> /\ Cell(start) = RingContent[1]
  BY <1>2, <1>3
<1>5. RingContent \in Seq(Bytes) /\ Len(RingContent) = avail
  BY ContentIs
<1>6. Head(RingContent) = RingContent[1]
  BY <1>1, <1>5
<1> QED BY <1>2, <1>4, <1>6 DEF first

-----------------------------------------------------------------------------
(* Each call is the call of the queue.                                     *)

LEMMA GetOneIsGet ==
    ASSUME RInv, GetOne
    PROVE  RInv' /\ Q!Get(1)
<1>1. avail > 0 /\ avail \in 0 .. Capacity
  BY DEF GetOne, RInv
<1>2. /\ taken' = SubSeq(RingContent, 1, 1) /\ taken' \in Seq(Bytes)
      /\ start' = HeadAfterOne /\ avail' = avail - 1 /\ buf' = buf
  BY <1>1, HeadIs DEF GetOne
<1>3. /\ HeadAfterOne \in Cells /\ 1 \in 0 .. avail
      /\ HeadAfterOne = Wrapped(start + 1) \/ 1 = avail
  BY <1>1, Heads, RingBufferAssumption
<1>4. RInv' /\ RingContent' = SubSeq(RingContent, 1 + 1, Len(RingContent))
  BY <1>2, <1>3, Shortened
<1>5. Q!Taken(1) = 1
  <2>1. Len(RingContent) = avail
    BY ContentIs
  <2> QED BY <1>1, <2>1, RingBufferAssumption DEF Q!Taken
<1> QED BY <1>2, <1>4, <1>5 DEF Q!Get

LEMMA GetNoneIsGet ==
    ASSUME RInv, GetNone
    PROVE  RInv' /\ Q!Get(0)
<1>1. avail = 0 /\ taken' = <<>> /\ UNCHANGED <<buf, start, avail>>
  BY DEF GetNone
<1>2. RingContent \in Seq(Bytes) /\ Len(RingContent) = 0
  BY <1>1, ContentIs
<1>3. RingContent = <<>> /\ RingContent' = RingContent
  BY <1>1, <1>2 DEF RingContent, Cell, Wrapped
<1>4. Q!Taken(0) = 0
  BY <1>2 DEF Q!Taken
<1>5. SubSeq(RingContent, 1, 0) = <<>> /\ SubSeq(RingContent, 0 + 1, Len(RingContent)) = <<>>
  BY <1>2, <1>3, SubSeqEmpty
<1>6. RInv'
  BY <1>1 DEF RInv
<1> QED BY <1>1, <1>3, <1>4, <1>5, <1>6 DEF Q!Get

LEMMA GetManyIsGet ==
    ASSUME RInv, NEW size \in 0 .. Capacity + 1, GetMany(size)
    PROVE  RInv' /\ Q!Get(size)
<1> DEFINE n == IF size > avail THEN avail ELSE size
<1>1. avail \in 0 .. Capacity /\ n \in 0 .. avail /\ n \in 0 .. Capacity
  BY RingBufferAssumption DEF RInv
<1>2. /\ taken' = [i \in 1 .. n |-> Cell(Ahead(i - 1))]
      /\ start' = IF n > 0 THEN Ahead(n) ELSE start
      /\ avail' = avail - n /\ buf' = buf
  BY DEF GetMany
<1>3. Q!Taken(size) = n
  <2>1. Len(RingContent) = avail
    BY ContentIs
  <2> QED BY <1>1, <2>1, RingBufferAssumption DEF Q!Taken
<1> HIDE DEF n
<1>4. start' \in Cells /\ start' = Wrapped(start + n)
  <2>1. CASE n > 0
    BY <1>1, <1>2, <2>1, Heads
  <2>2. CASE n = 0
    BY <1>2, <2>2, Heads DEF RInv
  <2> QED BY <1>1, <2>1, <2>2
<1>5. taken' = SubSeq(RingContent, 1, n) /\ taken' \in Seq(Bytes)
  <2> DEFINE first == SubSeq(RingContent, 1, n)
  <2>1. /\ first \in Seq(Bytes) /\ Len(first) = n
        /\ \A i \in 1 .. n : first[i] = Cell(Wrapped(start + (i - 1)))
    BY <1>1, FirstBytes
  <2> HIDE DEF first
  <2>2. \A i \in 1 .. n : Ahead(i - 1) = Wrapped(start + (i - 1))
    <3>1. \A i \in 1 .. n : i - 1 \in 0 .. Capacity
      BY <1>1, RingBufferAssumption
    <3> QED BY <3>1, Heads
  <2>3. first = [i \in 1 .. n |-> first[i]]
    BY <2>1, LenProperties
  <2>4. first = taken'
    BY <1>2, <2>1, <2>2, <2>3
  <2> QED BY <2>1, <2>4 DEF first
<1>6. RInv' /\ RingContent' = SubSeq(RingContent, n + 1, Len(RingContent))
  BY <1>1, <1>2, <1>4, <1>5, Shortened
<1> QED BY <1>3, <1>5, <1>6 DEF Q!Get

LEMMA DiscardIsDiscard ==
    ASSUME RInv, ~RemovesToEnd, NEW size \in 0 .. Capacity + 1, Discard(size)
    PROVE  RInv' /\ Q!Discard(size)
<1>1. avail \in 0 .. Capacity /\ start \in Cells /\ Len(RingContent) = avail
  BY ContentIs DEF RInv
<1>2. taken' = <<>> /\ taken' \in Seq(Bytes) /\ buf' = buf
  BY DEF Discard
<1>3. CASE size > avail
  <2>1. start' = 0 /\ avail' = avail - avail /\ 0 \in Cells /\ avail \in 0 .. avail
    BY <1>1, <1>3, RingBufferAssumption DEF Discard, Cells
  <2>2. RInv' /\ RingContent' = SubSeq(RingContent, avail + 1, Len(RingContent))
    BY <1>2, <2>1, Shortened
  <2>3. Q!Taken(size) = avail
    BY <1>1, <1>3, RingBufferAssumption DEF Q!Taken
  <2> QED BY <1>2, <2>2, <2>3 DEF Q!Discard
<1>4. CASE ~(size > avail)
  <2>1. /\ start + size # Capacity /\ start' = HeadAfterRemove(size)
        /\ avail' = avail - size
    BY <1>4 DEF Discard
  <2>2. /\ size \in 0 .. avail /\ HeadAfterRemove(size) = Wrapped(start + size)
        /\ HeadAfterRemove(size) \in Cells
    BY <1>1, <1>4, <2>1, RingBufferAssumption DEF HeadAfterRemove, Wrapped, Cells
  <2>3. RInv' /\ RingContent' = SubSeq(RingContent, size + 1, Len(RingContent))
    BY <1>2, <2>1, <2>2, Shortened
  <2>4. Q!Taken(size) = size
    BY <1>1, <1>4, RingBufferAssumption DEF Q!Taken
  <2> QED BY <1>2, <2>3, <2>4 DEF Q!Discard
<1> QED BY <1>3, <1>4

LEMMA AddToFullIsAddOne ==
    ASSUME RInv, NEW x \in Bytes, AddToFull(x)
    PROVE  RInv' /\ Q!AddOne(x)
<1>1. /\ avail = Capacity /\ avail > 0 /\ taken' = <<Cell(start)>>
      /\ start' = HeadAfterOne /\ avail' = avail
      /\ buf' = Filled(HeadAfterOne, avail - 1, <<x>>)
  BY RingBufferAssumption DEF AddToFull, IsFull
<1>2. /\ <<x>> \in Seq(Bytes) /\ Len(<<x>>) = 1 /\ avail - 1 \in 0 .. Capacity
      /\ (avail - 1) + 1 = avail
  BY <1>1, RingBufferAssumption
<1>3. /\ HeadAfterOne \in Cells
      /\ HeadAfterOne = Wrapped(start + 1) \/ avail = 1
      /\ taken' \in Seq(Bytes) /\ taken' = <<Head(RingContent)>>
  BY <1>1, Heads, HeadIs
<1>4. RInv' /\ RingContent' = Held(HeadAfterOne, avail - 1) \o <<x>>
  <2>1. avail' = (avail - 1) + Len(<<x>>) /\ (avail - 1) + Len(<<x>>) <= Capacity
    BY <1>1, <1>2, RingBufferAssumption
  <2> QED BY <1>1, <1>2, <1>3, <2>1, Extended
<1>5. RingContent \in Seq(Bytes) /\ Len(RingContent) = Capacity /\ RingContent # <<>>
  BY <1>1, ContentIs, RingBufferAssumption
<1>6. Held(HeadAfterOne, avail - 1) = Tail(RingContent)
  <2>1. Tail(RingContent) = SubSeq(RingContent, 1 + 1, Len(RingContent))
    BY <1>5, TailIsSubSeq
  <2>2. 1 \in 0 .. avail
    BY <1>1, RingBufferAssumption
  <2> QED BY <1>3, <2>1, <2>2, HeldRest
<1>7. Tail(RingContent) \o <<x>> = Append(Tail(RingContent), x)
  <2>1. Tail(RingContent) \in Seq(Bytes)
    BY <1>5
  <2> QED BY <2>1
<1>8. ~(Len(RingContent) < Capacity)
  BY <1>5, RingBufferAssumption
<1> QED BY <1>3, <1>4, <1>6, <1>7, <1>8 DEF Q!AddOne

LEMMA AddToRoomIsAddOne ==
    ASSUME RInv, NEW x \in Bytes, AddToRoom(x)
    PROVE  RInv' /\ Q!AddOne(x)
<1>1. /\ avail # Capacity /\ taken' = <<>> /\ start' = start
      /\ avail' = avail + 1 /\ buf' = Filled(start, avail, <<x>>)
  BY DEF AddToRoom, IsFull
<1>2. /\ <<x>> \in Seq(Bytes) /\ Len(<<x>>) = 1 /\ taken' \in Seq(Bytes)
      /\ start \in Cells /\ avail \in 0 .. Capacity /\ avail + 1 <= Capacity
  BY <1>1, RingBufferAssumption DEF RInv
<1>3. RInv' /\ RingContent' = Held(start, avail) \o <<x>>
  BY <1>1, <1>2, Extended
<1>4. /\ RingContent = Held(start, avail) /\ RingContent \in Seq(Bytes)
      /\ Len(RingContent) = avail
  BY ContentIs
<1>5. RingContent \o <<x>> = Append(RingContent, x)
  BY <1>4
<1>6. Len(RingContent) < Capacity
  BY <1>2, <1>4, RingBufferAssumption
<1> QED BY <1>1, <1>3, <1>4, <1>5, <1>6 DEF Q!AddOne

(* What add() of too many bytes keeps of them. *)
LEMMA CutAtSize ==
    ASSUME NEW c \in Seq(Bytes), NEW xs \in Seq(Bytes), Len(c) <= Capacity,
           Len(c) + Len(xs) > Capacity
    PROVE  SubSeq(c \o xs, 1, Capacity) = c \o SubSeq(xs, 1, Capacity - Len(c))
<1>1. /\ Len(c) \in Nat /\ Len(xs) \in Nat /\ Capacity \in Nat
      /\ Capacity - Len(c) \in 0 .. Len(xs)
  BY LenProperties, RingBufferAssumption
<1> DEFINE all == c \o xs
           cut == SubSeq(all, 1, Capacity)
           part == SubSeq(xs, 1, Capacity - Len(c))
<1>2. /\ all \in Seq(Bytes) /\ Len(all) = Len(c) + Len(xs)
      /\ \A i \in 1 .. Len(c) + Len(xs) :
           all[i] = IF i <= Len(c) THEN c[i] ELSE xs[i - Len(c)]
  BY ConcatProperties
<1> HIDE DEF all
<1>3. cut \in Seq(Bytes) /\ Len(cut) = Capacity /\ \A i \in 1 .. Capacity : cut[i] = all[i]
  BY <1>1, <1>2
<1>4. /\ part \in Seq(Bytes) /\ Len(part) = Capacity - Len(c)
      /\ \A i \in 1 .. Capacity - Len(c) : part[i] = xs[i]
  BY <1>1
<1> HIDE DEF cut, part
<1>5. /\ c \o part \in Seq(Bytes) /\ Len(c \o part) = Capacity
      /\ \A i \in 1 .. Capacity :
           (c \o part)[i] = IF i <= Len(c) THEN c[i] ELSE part[i - Len(c)]
  <2>1. /\ c \o part \in Seq(Bytes) /\ Len(c \o part) = Len(c) + Len(part)
        /\ \A i \in 1 .. Len(c) + Len(part) :
             (c \o part)[i] = IF i <= Len(c) THEN c[i] ELSE part[i - Len(c)]
    BY <1>4, ConcatProperties
  <2>2. Len(c) + Len(part) = Capacity
    BY <1>1, <1>4
  <2> QED BY <2>1, <2>2
<1>6. ASSUME NEW i \in 1 .. Capacity
      PROVE  cut[i] = (c \o part)[i]
  <2>1. i \in 1 .. Len(c) + Len(xs)
    BY <1>1
  <2>2. CASE i <= Len(c)
    BY <1>2, <1>3, <1>5, <2>1, <2>2
  <2>3. CASE ~(i <= Len(c))
    <3>1. i - Len(c) \in 1 .. Capacity - Len(c)
      BY <1>1, <2>3
    <3> QED BY <1>2, <1>3, <1>4, <1>5, <2>1, <2>3, <3>1
  <2> QED BY <2>2, <2>3
<1>7. cut = c \o part
  BY <1>3, <1>5, <1>6, SeqEqual
<1> QED BY <1>7 DEF cut, part, all

LEMMA AddIsAdd ==
    ASSUME RInv, NEW xs \in Seq(Bytes), Add(xs)
    PROVE  RInv' /\ Q!Add(xs)
<1> DEFINE room == Capacity - avail
           n    == IF Len(xs) < room THEN Len(xs) ELSE room
           part == SubSeq(xs, 1, n)
<1>1. /\ avail \in 0 .. Capacity /\ start \in Cells /\ Len(xs) \in Nat
      /\ n \in 0 .. Len(xs) /\ avail + n <= Capacity
  BY LenProperties, RingBufferAssumption DEF RInv
<1>2. /\ buf' = Filled(start, avail, part) /\ avail' = avail + n
      /\ taken' = <<>> /\ start' = start
  BY DEF Add
<1>3. \/ n = Len(xs) /\ avail + Len(xs) <= Capacity
      \/ n = Capacity - avail /\ avail + Len(xs) > Capacity
  BY <1>1, RingBufferAssumption
<1> HIDE DEF n
<1>4. part \in Seq(Bytes) /\ Len(part) = n
  BY <1>1
<1>5. taken' \in Seq(Bytes)
  BY <1>2
<1> HIDE DEF part
<1>6. RInv' /\ RingContent' = Held(start, avail) \o part
  BY <1>1, <1>2, <1>4, <1>5, Extended
<1>7. /\ RingContent = Held(start, avail) /\ RingContent \in Seq(Bytes)
      /\ Len(RingContent) = avail
  BY ContentIs
<1>8. RingContent \o xs \in Seq(Bytes) /\ Len(RingContent \o xs) = avail + Len(xs)
  BY <1>7, ConcatProperties
<1>9. CASE n = Len(xs) /\ avail + Len(xs) <= Capacity
  <2>1. part = xs
    BY <1>9, SubSeqFull DEF part
  <2>2. ~(Len(RingContent \o xs) > Capacity)
    BY <1>1, <1>8, <1>9, RingBufferAssumption
  <2> QED BY <1>2, <1>6, <1>7, <2>1, <2>2 DEF Q!Add
<1>10. CASE n = Capacity - avail /\ avail + Len(xs) > Capacity
  <2>1. Len(RingContent) <= Capacity /\ Len(RingContent) + Len(xs) > Capacity
    BY <1>1, <1>7, <1>10, RingBufferAssumption
  <2>2. SubSeq(RingContent \o xs, 1, Capacity)
            = RingContent \o SubSeq(xs, 1, Capacity - Len(RingContent))
    BY <1>7, <2>1, CutAtSize
  <2>3. SubSeq(xs, 1, Capacity - Len(RingContent)) = part
    BY <1>7, <1>10 DEF part
  <2>4. Len(RingContent \o xs) > Capacity
    BY <1>8, <1>10
  <2> QED BY <1>2, <1>6, <1>7, <2>2, <2>3, <2>4 DEF Q!Add
<1> QED BY <1>3, <1>9, <1>10

-----------------------------------------------------------------------------
LEMMA RingInitInv ==
    ASSUME RingInit
    PROVE  RInv /\ RingContent = <<>>
<1>1. buf \in [Cells -> Bytes]
  <2>1. (CHOOSE b \in Bytes : TRUE) \in Bytes
    BY RingBufferAssumption
  <2> QED BY <2>1 DEF RingInit
<1>2. /\ start = 0 /\ avail = 0 /\ taken = <<>>
      /\ 0 \in Cells /\ 0 \in 0 .. Capacity /\ <<>> \in Seq(Bytes)
  BY RingBufferAssumption DEF RingInit, Cells
<1>3. RInv
  BY <1>1, <1>2 DEF RInv
<1>4. RingContent \in Seq(Bytes) /\ Len(RingContent) = 0
  BY <1>2, <1>3, ContentIs
<1>5. RingContent = <<>>
  BY <1>4
<1> QED BY <1>3, <1>5

LEMMA RingStep ==
    ASSUME RInv, ~RemovesToEnd, [RingNext]_ringVars
    PROVE  RInv' /\ [Q!Next]_<<RingContent, taken>>
<1>1. CASE \E x \in Bytes : AddToFull(x) \/ AddToRoom(x)
  BY <1>1, AddToFullIsAddOne, AddToRoomIsAddOne DEF Q!Next
<1>2. CASE \E xs \in Inputs : Add(xs)
  <2>1. PICK xs \in Inputs : Add(xs)
    BY <1>2
  <2>2. xs \in Seq(Bytes)
    <3>1. PICK m \in 0 .. Capacity + 1 : xs \in [1 .. m -> Bytes]
      BY DEF Inputs, BoundedSeq, SeqOf
    <3>2. m \in Nat
      BY RingBufferAssumption
    <3> QED BY <3>1, <3>2
  <2>3. xs \in Q!Inputs
    BY DEF Q!Inputs, Inputs, BoundedSeq, SeqOf, Q!BoundedSeq, Q!SeqOf
  <2>4. RInv' /\ Q!Add(xs)
    BY <2>1, <2>2, AddIsAdd
  <2> QED BY <2>3, <2>4 DEF Q!Next
<1>3. CASE GetOne \/ GetNone
  <2>1. 0 \in 0 .. Capacity + 1 /\ 1 \in 0 .. Capacity + 1
    BY RingBufferAssumption
  <2> QED BY <1>3, <2>1, GetOneIsGet, GetNoneIsGet DEF Q!Next
<1>4. CASE \E size \in 0 .. Capacity + 1 : GetMany(size) \/ Discard(size)
  BY <1>4, GetManyIsGet, DiscardIsDiscard DEF Q!Next
<1>5. CASE UNCHANGED ringVars
  BY <1>5 DEF ringVars, RInv, RingContent, Cell, Wrapped
<1> QED BY <1>1, <1>2, <1>3, <1>4, <1>5 DEF RingNext

LEMMA RInvHolds ==
    ASSUME ~RemovesToEnd
    PROVE  RingSpec => []RInv
<1>1. RingInit => RInv
  BY RingInitInv
<1>2. RInv /\ [RingNext]_ringVars => RInv'
  BY RingStep
<1> QED BY <1>1, <1>2, PTL DEF RingSpec

(* However the calls are mixed, and wherever head and tail wrap, the ring  *)
(* buffer is the queue of the bytes added and not yet taken, for every     *)
(* capacity: if the program never removes exactly up to the last cell.     *)
THEOREM RingBufferRefines ==
    ASSUME ~RemovesToEnd
    PROVE  RingSpec => ImplementsByteQueue
<1>1. RingInit => Q!Init
  BY RingInitInv DEF Q!Init, RingInit
<1>2. RInv /\ [RingNext]_ringVars => [Q!Next]_<<RingContent, taken>>
  BY RingStep
<1>3. RingSpec => []RInv
  BY RInvHolds
<1> QED BY <1>1, <1>2, <1>3, PTL DEF RingSpec, ImplementsByteQueue, Q!Spec

(* With the same condition no call returns what is not a byte added; the   *)
(* run ringbuffer_remove shows that the condition is needed.               *)
THEOREM NothingFromOutside ==
    ASSUME ~RemovesToEnd
    PROVE  RingSpec => []OnlyAddedBytes
<1>1. RInv => OnlyAddedBytes
  <2> SUFFICES ASSUME RInv PROVE OnlyAddedBytes
    OBVIOUS
  <2>1. taken \in Seq(Bytes)
    BY DEF RInv
  <2>2. \A i \in DOMAIN taken : taken[i] \in Bytes
    BY <2>1
  <2> QED BY <2>2, RingBufferAssumption DEF OnlyAddedBytes, ToSet
<1>2. RingSpec => []RInv
  BY RInvHolds
<1> QED BY <1>1, <1>2, PTL
=============================================================================
