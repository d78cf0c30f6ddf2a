----------------------------- MODULE HeapProofs -----------------------------
(***************************************************************************)
(* Theorems about Heap, for every size of the array: its blocks tile it,   *)
(* the list of the free ones is complete and sorted, and it implements the *)
(* disjoint regions that Allocator describes.                              *)
(***************************************************************************)
EXTENDS Heap, StructureProofs

-----------------------------------------------------------------------------
(* Alignment: where a block may begin, and how large one may be.           *)
Places == {b \in Nat : b % AlignSize = AlignSize - 2}
Sizes  == {s \in Nat : s % AlignSize = Remainder}

LEMMA Numbers ==
    /\ AlignSize \in {4, 8} /\ MemorySize \in 4 * AlignSize .. 32768
    /\ MemorySize % AlignSize = 0
    /\ Header = 4 /\ GuardSize = 65535 /\ Remainder = AlignSize - 4
    /\ Super = AlignSize - 2 /\ First = 2 * AlignSize - 2 /\ Guard = MemorySize - 2
    /\ FirstSize = MemorySize - 2 * AlignSize - 4
<1>1. 2 ^ 15 = 32768
  OBVIOUS
<1> QED BY <1>1, HeapAssumption
        DEF Header, GuardSize, Remainder, Super, First, Guard, FirstSize

(* The same without the bounds, for the steps that do not need them.       *)
LEMMA Measures ==
    /\ AlignSize \in {4, 8} /\ MemorySize \in Nat /\ MemorySize >= 4 * AlignSize
    /\ MemorySize % AlignSize = 0
    /\ Header = 4 /\ GuardSize \in Nat /\ MemorySize < GuardSize
    /\ Remainder = AlignSize - 4
    /\ Super = AlignSize - 2 /\ First = 2 * AlignSize - 2 /\ Guard = MemorySize - 2
    /\ FirstSize = MemorySize - 2 * AlignSize - 4
BY Numbers

LEMMA FixedPlaces ==
    /\ Super \in Places /\ First \in Places /\ Guard \in Places
    /\ Remainder \in Sizes /\ FirstSize \in Sizes \ {0}
    /\ 0 < Super /\ Super < First /\ First < Guard /\ Guard < 32768
    /\ Super + Header + Remainder = First /\ First + Header + FirstSize = Guard
<1>1. /\ 0 < Super /\ Super < First /\ First < Guard /\ Guard < 32768
      /\ Super + Header + Remainder = First /\ First + Header + FirstSize = Guard
  BY Numbers
<1>4. /\ MemorySize % AlignSize = 0 /\ MemorySize \in Nat /\ MemorySize >= 4 * AlignSize
      /\ Super = AlignSize - 2 /\ First = 2 * AlignSize - 2 /\ Guard = MemorySize - 2
      /\ Remainder = AlignSize - 4 /\ FirstSize = MemorySize - 2 * AlignSize - 4
  BY Measures
<1>2. CASE AlignSize = 4
  <2>1. MemorySize % 4 = 0 /\ MemorySize \in Nat /\ MemorySize >= 16
    <3>1. MemorySize % 4 = 0
      BY <1>2, <1>4
    <3>2. MemorySize >= 16
      BY <1>2, <1>4
    <3> QED BY <1>4, <3>1, <3>2
  <2>2. (MemorySize - 2) % 4 = 2 /\ (MemorySize - 12) % 4 = 0
    <3> DEFINE q == MemorySize \div 4
    <3>1. MemorySize = q * 4 + 0 /\ q \in Int
      BY <2>1
    <3> HIDE DEF q
    <3>2. MemorySize - 2 = (q - 1) * 4 + 2 /\ MemorySize - 12 = (q - 3) * 4 + 0
      BY <3>1
    <3>3. ((q - 1) * 4 + 2) % 4 = 2 /\ ((q - 3) * 4 + 0) % 4 = 0
      BY <3>1, Remains
    <3> QED BY <3>2, <3>3
  <2>3. /\ Super = 2 /\ First = 6 /\ Guard = MemorySize - 2
        /\ Remainder = 0 /\ FirstSize = MemorySize - 12
    BY <1>2, <1>4
  <2>4. 2 % 4 = 2 /\ 6 % 4 = 2 /\ 0 % 4 = 0
    OBVIOUS
  <2>5. Super \in Places /\ First \in Places /\ Guard \in Places
    BY <1>2, <2>1, <2>2, <2>3, <2>4 DEF Places
  <2>6. Remainder \in Sizes /\ FirstSize \in Sizes \ {0}
    BY <1>2, <2>1, <2>2, <2>3, <2>4 DEF Sizes
  <2> QED BY <1>1, <2>5, <2>6
<1>3. CASE AlignSize = 8
  <2>1. MemorySize % 8 = 0 /\ MemorySize \in Nat /\ MemorySize >= 32
    <3>1. MemorySize % 8 = 0
      BY <1>3, <1>4
    <3>2. MemorySize >= 32
      BY <1>3, <1>4
    <3> QED BY <1>4, <3>1, <3>2
  <2>2. (MemorySize - 2) % 8 = 6 /\ (MemorySize - 20) % 8 = 4
    <3> DEFINE q == MemorySize \div 8
    <3>1. MemorySize = q * 8 + 0 /\ q \in Int
      BY <2>1
    <3> HIDE DEF q
    <3>2. MemorySize - 2 = (q - 1) * 8 + 6 /\ MemorySize - 20 = (q - 3) * 8 + 4
      BY <3>1
    <3>3. ((q - 1) * 8 + 6) % 8 = 6 /\ ((q - 3) * 8 + 4) % 8 = 4
      BY <3>1, Remains
    <3> QED BY <3>2, <3>3
  <2>3. /\ Super = 6 /\ First = 14 /\ Guard = MemorySize - 2
        /\ Remainder = 4 /\ FirstSize = MemorySize - 20
    BY <1>3, <1>4
  <2>4. 6 % 8 = 6 /\ 14 % 8 = 6 /\ 4 % 8 = 4
    OBVIOUS
  <2>5. Super \in Places /\ First \in Places /\ Guard \in Places
    BY <1>3, <2>1, <2>2, <2>3, <2>4 DEF Places
  <2>6. Remainder \in Sizes /\ FirstSize \in Sizes \ {0}
    BY <1>3, <2>1, <2>2, <2>3, <2>4 DEF Sizes
  <2> QED BY <1>1, <2>5, <2>6
<1> QED BY <1>2, <1>3, <1>4, Measures

LEMMA GuardFacts == Guard \in Nat /\ GuardSize \in Nat /\ Guard < GuardSize
BY FixedPlaces, Measures DEF Places

LEMMA PlaceFacts ==
    ASSUME NEW b \in Places, NEW s \in Sizes
    PROVE  /\ b \in Nat /\ b % 2 = 0 /\ b # 0 /\ s \in Nat /\ s >= Remainder
           /\ b + Header + s \in Places
           /\ b + 2 + s \in Nat \ Places /\ (b + 2 + s) % 2 = 0
<1>1. CASE AlignSize = 4
  BY <1>1, Measures DEF Places, Sizes
<1>2. CASE AlignSize = 8
  BY <1>2, Measures DEF Places, Sizes
<1> QED BY <1>1, <1>2, Measures

LEMMA SizeFacts ==
    ASSUME NEW s \in Sizes, NEW t \in Sizes
    PROVE  /\ s + t + Header \in Sizes
           /\ s > t + Header => s - t - Header \in Sizes
<1>1. CASE AlignSize = 4
  BY <1>1, Measures DEF Sizes
<1>2. CASE AlignSize = 8
  BY <1>2, Measures DEF Sizes
<1> QED BY <1>1, <1>2, Measures

(* A size that is rounded up is the least that is large enough.            *)
LEMMA RequestFacts ==
    ASSUME NEW n \in Requests
    PROVE  n \in Nat \ {0} /\ n <= 32768
<1>1. n \in 1 .. 2 ^ 15
  BY HeapAssumption
<1>2. 2 ^ 15 = 32768
  OBVIOUS
<1> DEFINE top == 2 ^ 15
<1>3. n \in 1 .. top /\ top = 32768
  BY <1>1, <1>2
<1> HIDE DEF top
<1> QED BY <1>3

LEMMA RoundedIs ==
    ASSUME NEW n \in Requests
    PROVE  /\ Rounded(n) \in Sizes \ {0} /\ n <= Rounded(n) /\ Rounded(n) < GuardSize
           /\ \A s \in Sizes : n <= s => Rounded(n) <= s
<1>1. n \in Nat \ {0} /\ n <= 32768
  BY RequestFacts
<1>2. CASE AlignSize = 4
  <2>1. Rounded(n) = ((n + 3) \div 4) * 4
    BY <1>1, <1>2, Numbers DEF Rounded
  <2> QED BY <1>1, <1>2, <2>1, Numbers DEF Sizes
<1>3. CASE AlignSize = 8
  <2>1. Rounded(n) = ((n + 3) \div 8) * 8 + 4
    BY <1>1, <1>3, Numbers DEF Rounded
  <2> QED BY <1>1, <1>3, <2>1, Numbers DEF Sizes
<1> QED BY <1>2, <1>3, Numbers

-----------------------------------------------------------------------------
(* The blocks B tile the array of a memory m.                              *)
Tiles(m, B) ==
    /\ m \in [Offsets -> 0 .. GuardSize]
    /\ m[Super] = Remainder /\ m[Guard] = GuardSize
    /\ B \subseteq Places \cap (First .. Guard - 1) /\ First \in B
    /\ \A b \in B : m[b] \in Sizes \ {0} /\ RightOf(m, b) \in B \cup {Guard}
    /\ \A b, c \in B : b < c => RightOf(m, b) <= c
    /\ \A c \in (B \cup {Guard}) \ {First} : \E b \in B : RightOf(m, b) = c

LEMMA PlacesAreOffsets ==
    /\ \A b \in Places : b < MemorySize => b \in Offsets
    /\ Guard \in Offsets /\ Super \in Offsets /\ First \in Offsets /\ 0 \in Offsets
    /\ 0 \notin Places
    /\ \A b, c \in Places : b < c => b + Header <= c
<1>1. \A b \in Places : b % 2 = 0 /\ b \in Nat /\ b # 0
  BY PlaceFacts, FixedPlaces
<1>2. \A b \in Places : b < MemorySize => b \in Offsets
  BY <1>1, Measures DEF Offsets
<1>3. Guard < MemorySize /\ Super < MemorySize /\ First < MemorySize
  BY FixedPlaces, Measures
<1>4. 0 \in Offsets
  BY Measures DEF Offsets
<1>5. \A b, c \in Places : b < c => b + Header <= c
  <2>1. CASE AlignSize = 4
    BY <2>1, Measures DEF Places
  <2>2. CASE AlignSize = 8
    BY <2>2, Measures DEF Places
  <2> QED BY <2>1, <2>2, Measures
<1> QED BY <1>1, <1>2, <1>3, <1>4, <1>5, FixedPlaces

LEMMA TileFacts ==
    ASSUME NEW m, NEW B, Tiles(m, B)
    PROVE  /\ m \in [Offsets -> 0 .. GuardSize]
           /\ \A b \in B : b \in First .. Guard - 1
           /\ \A b \in B \cup {Super} :
                /\ b \in Places /\ b \in Offsets /\ b < Guard /\ b # 0
                /\ m[b] \in Sizes /\ m[b] \in Nat /\ m[b] < GuardSize
                /\ RightOf(m, b) \in B \cup {Guard} /\ RightOf(m, b) \in Places
                /\ RightOf(m, b) = b + 4 + m[b] /\ RightOf(m, b) <= Guard
                /\ NextCell(m, b) = b + 2 + m[b]
                /\ NextCell(m, b) \in Offsets \ Places /\ NextCell(m, b) # 0
           /\ \A b, c \in B \cup {Super} : b < c => RightOf(m, b) <= c
           /\ \A b, c \in B \cup {Super} : NextCell(m, b) = NextCell(m, c) => b = c
<1>1. /\ m \in [Offsets -> 0 .. GuardSize]
      /\ m[Super] = Remainder /\ m[Guard] = GuardSize
      /\ B \subseteq Places \cap (First .. Guard - 1) /\ First \in B
      /\ \A b \in B : m[b] \in Sizes \ {0} /\ RightOf(m, b) \in B \cup {Guard}
      /\ \A b, c \in B : b < c => RightOf(m, b) <= c
  BY DEF Tiles
<1>2. \A b \in B : b \in Places /\ b \in First .. Guard - 1 /\ b \in Nat
  BY <1>1 DEF Places
<1>3. \A b : RightOf(m, b) = b + 4 + m[b] /\ NextCell(m, b) = b + 2 + m[b]
  BY DEF RightOf, NextCell, Header
<1>4. RightOf(m, Super) = First
  <2>1. RightOf(m, Super) = Super + 4 + Remainder
    BY <1>1, <1>3
  <2>2. Super + 4 + Remainder = First
    BY FixedPlaces, Measures
  <2> QED BY <2>1, <2>2
<1>5. ASSUME NEW b \in B \cup {Super}
      PROVE  /\ b \in Places /\ b \in Offsets /\ b < Guard /\ b # 0 /\ b \in Nat
             /\ m[b] \in Sizes /\ m[b] \in Nat /\ m[b] < GuardSize
             /\ RightOf(m, b) \in B \cup {Guard} /\ RightOf(m, b) \in Places
             /\ RightOf(m, b) <= Guard
             /\ NextCell(m, b) \in Offsets \ Places /\ NextCell(m, b) # 0
  <2>1. b \in Places /\ b < Guard /\ b \in Nat
    BY <1>2, FixedPlaces DEF Places
  <2>2. b \in Offsets /\ b # 0
    BY <2>1, PlacesAreOffsets, Measures
  <2>3. m[b] \in Sizes /\ RightOf(m, b) \in B \cup {Guard}
    BY <1>1, <1>4, FixedPlaces
  <2>4. m[b] \in Nat /\ b + 2 + m[b] \in Nat \ Places /\ (b + 2 + m[b]) % 2 = 0
    BY <2>1, <2>3, PlaceFacts
  <2>5. RightOf(m, b) \in Places /\ RightOf(m, b) <= Guard /\ RightOf(m, b) \in Nat
    BY <1>2, <2>3, FixedPlaces DEF Places
  <2>6. b + 2 + m[b] < MemorySize /\ m[b] < GuardSize /\ b + 2 + m[b] # 0
    BY <1>3, <2>1, <2>4, <2>5, Measures
  <2>7. b + 2 + m[b] \in Offsets
    BY <2>4, <2>6, Measures DEF Offsets
  <2> QED BY <1>3, <2>1, <2>2, <2>3, <2>4, <2>5, <2>6, <2>7
<1>6. ASSUME NEW b \in B \cup {Super}, NEW c \in B \cup {Super}, b < c
      PROVE  RightOf(m, b) <= c
  <2>1. CASE b = Super
    <3>1. c # Super
      BY <1>6, <2>1, Measures
    <3>2. First <= c
      BY <1>2, <3>1
    <3> QED BY <1>4, <2>1, <3>2
  <2>2. CASE b # Super /\ c # Super
    BY <1>1, <1>6, <2>2
  <2>3. CASE b # Super /\ c = Super
    <3>1. First <= b /\ b \in Nat
      BY <1>2, <2>3
    <3> QED BY <1>6, <2>3, <3>1, FixedPlaces, Measures
  <2> QED BY <2>1, <2>2, <2>3
<1>7. ASSUME NEW b \in B \cup {Super}, NEW c \in B \cup {Super},
             NextCell(m, b) = NextCell(m, c)
      PROVE  b = c
  <2>1. /\ b \in Nat /\ c \in Nat /\ m[b] \in Nat /\ m[c] \in Nat
        /\ b + 2 + m[b] = c + 2 + m[c]
    BY <1>3, <1>5, <1>7
  <2>2. ~(b < c)
    <3> SUFFICES ASSUME b < c PROVE FALSE
      OBVIOUS
    <3>1. b + 4 + m[b] <= c
      BY <1>3, <1>6
    <3> QED BY <2>1, <3>1
  <2>3. ~(c < b)
    <3> SUFFICES ASSUME c < b PROVE FALSE
      OBVIOUS
    <3>1. c + 4 + m[c] <= b
      BY <1>3, <1>6
    <3> QED BY <2>1, <3>1
  <2> QED BY <2>1, <2>2, <2>3
<1> QED BY <1>1, <1>2, <1>3, <1>5, <1>6, <1>7

LEMMA EndsOutside ==
    ASSUME NEW m, NEW B, Tiles(m, B)
    PROVE  Super \notin B /\ Guard \notin B /\ Super # Guard
<1>1. \A b \in B : b \in First .. Guard - 1
  BY TileFacts
<1>2. Super \in Nat /\ First \in Nat /\ Guard \in Nat /\ Super < First /\ First < Guard
  BY FixedPlaces DEF Places
<1> QED BY <1>1, <1>2

(* The cells of blocks are all that matters for the tiling.                *)
LEMMA SameTiles ==
    ASSUME NEW m, NEW B, Tiles(m, B), NEW k \in [Offsets -> 0 .. GuardSize],
           \A b \in B \cup {Super, Guard} : k[b] = m[b]
    PROVE  /\ Tiles(k, B)
           /\ \A b \in B \cup {Super} : /\ NextCell(k, b) = NextCell(m, b)
                                        /\ RightOf(k, b) = RightOf(m, b)
<1>1. \A b \in B \cup {Super} : /\ NextCell(k, b) = NextCell(m, b)
                                /\ RightOf(k, b) = RightOf(m, b)
  BY DEF NextCell, RightOf
<1> QED BY <1>1 DEF Tiles

(* The payloads of the blocks U are as they were. *)
Spared(m, k, U) ==
    \A b \in U : /\ k[b] = m[b]
                 /\ \A i \in Offsets : i \in b + 2 .. b + 1 + m[b] => k[i] = m[i]

(* The cells U are as they were. *)
Same(m, k, U) == \A c \in U : k[c] = m[c]

(* None of the blocks F has one of G to its right. *)
NoneLeads(m, F, G) == \A b \in F : RightOf(m, b) \notin G
Apart(m, F) == NoneLeads(m, F, F)

(* The first n bytes of the block b are zero. *)
Cleared(m, b, n) == \A i \in Offsets : i \in b + 2 .. b + 1 + n => m[i] = 0

LEMMA SparedTwice ==
    ASSUME NEW m, NEW k, NEW l, NEW U, Spared(m, k, U), Spared(k, l, U)
    PROVE  Spared(m, l, U)
BY DEF Spared

LEMMA SparedFewer ==
    ASSUME NEW m, NEW k, NEW U, Spared(m, k, U), NEW V, V \subseteq U
    PROVE  Spared(m, k, V)
BY DEF Spared

(* What setting the next of a block changes. *)
LEMMA NextIsSet ==
    ASSUME NEW m, NEW B, Tiles(m, B), NEW b \in B \cup {Super}, NEW v \in 0 .. GuardSize
    PROVE  LET k == SetNext(m, b, v)
           IN  /\ Tiles(k, B) /\ k[0] = m[0] /\ Spared(m, k, B)
               /\ \A c \in B \cup {Super, Guard} : k[c] = m[c]
               /\ \A c \in B \cup {Super} : /\ Next(k, c) = IF c = b THEN v ELSE Next(m, c)
                                            /\ NextCell(k, c) = NextCell(m, c)
                                            /\ RightOf(k, c) = RightOf(m, c)
<1> DEFINE k == SetNext(m, b, v)
           x == NextCell(m, b)
<1>1. /\ m \in [Offsets -> 0 .. GuardSize]
      /\ \A c \in B \cup {Super} :
           /\ c \in Places /\ m[c] \in Nat /\ c < Guard /\ c # 0
           /\ NextCell(m, c) = c + 2 + m[c] /\ RightOf(m, c) = c + 4 + m[c]
           /\ NextCell(m, c) \in Offsets \ Places /\ NextCell(m, c) # 0
      /\ \A c, d \in B \cup {Super} : c < d => RightOf(m, c) <= d
      /\ \A c, d \in B \cup {Super} : NextCell(m, c) = NextCell(m, d) => c = d
  BY TileFacts
<1>2. k = [m EXCEPT ![x] = v] /\ x \in Offsets \ Places /\ x # 0 /\ x = b + 2 + m[b]
  BY <1>1 DEF SetNext
<1> HIDE DEF k, x
<1>3. k \in [Offsets -> 0 .. GuardSize] /\ k[x] = v /\ \A i \in Offsets : i # x => k[i] = m[i]
  BY <1>1, <1>2
<1>4. k[0] = m[0]
  BY <1>2, <1>3, PlacesAreOffsets
<1>5. \A c \in B \cup {Super, Guard} : k[c] = m[c]
  <2>1. \A c \in B \cup {Super, Guard} : c \in Places /\ c \in Offsets
    BY TileFacts, PlacesAreOffsets, FixedPlaces
  <2> QED BY <1>2, <1>3, <2>1
<1>6. /\ Tiles(k, B)
      /\ \A c \in B \cup {Super} : /\ NextCell(k, c) = NextCell(m, c)
                                   /\ RightOf(k, c) = RightOf(m, c)
  BY <1>3, <1>5, SameTiles
<1>7. ASSUME NEW c \in B \cup {Super}
      PROVE  Next(k, c) = IF c = b THEN v ELSE Next(m, c)
  <2>1. Next(k, c) = k[NextCell(m, c)] /\ Next(m, c) = m[NextCell(m, c)]
    BY <1>6 DEF Next
  <2>2. NextCell(m, c) \in Offsets /\ (NextCell(m, c) = x <=> c = b)
    BY <1>1 DEF x
  <2> QED BY <1>3, <2>1, <2>2
<1>8. Spared(m, k, B)
  <2> SUFFICES ASSUME NEW c \in B, NEW i \in Offsets, i \in c + 2 .. c + 1 + m[c]
               PROVE  i # x
    BY <1>3, <1>5 DEF Spared
  <2>1. /\ c \in Nat /\ b \in Nat /\ m[c] \in Nat /\ m[b] \in Nat
        /\ c < b => c + 4 + m[c] <= b
        /\ b < c => b + 4 + m[b] <= c
    BY <1>1 DEF Places
  <2>2. x = b + 2 + m[b] /\ i \in Nat /\ c + 2 <= i /\ i <= c + 1 + m[c]
    BY <1>2, <2>1
  <2> QED BY <2>1, <2>2
<1> QED BY <1>4, <1>5, <1>6, <1>7, <1>8 DEF k

-----------------------------------------------------------------------------
(* f, of length n, is the list of the free blocks F of a memory m, with    *)
(* the super block in front and the guard at the end.                      *)
Listed(m, F, f, n) ==
    /\ n \in Nat /\ n >= 2
    /\ f \in [1 .. n -> F \cup {Super, Guard}]
    /\ f[1] = Super /\ f[n] = Guard
    /\ \A i \in 2 .. n - 1 : f[i] \in F
    /\ \A i, j \in 1 .. n : f[i] = f[j] => i = j
    /\ \A b \in F : \E i \in 2 .. n - 1 : f[i] = b
    /\ \A i \in 1 .. n - 1 : Next(m, f[i]) = f[i + 1]
    /\ \A i, j \in 1 .. n : i <= j => m[f[i]] <= m[f[j]]

(* With it the tiles; what is neither listed nor in X has next 0. *)
Shaped(m, B, F, f, n, X) ==
    /\ Tiles(m, B) /\ F \subseteq B
    /\ Listed(m, F, f, n)
    /\ \A b \in B \ (F \cup X) : Next(m, b) = 0

(* Setting the next of a block that is off the list. *)
LEMMA NextSetOff ==
    ASSUME NEW m, NEW B, NEW F, NEW f, NEW n, NEW X, Shaped(m, B, F, f, n, X),
           NEW b \in B \ F, NEW v \in 0 .. GuardSize
    PROVE  LET k == SetNext(m, b, v)
           IN  /\ Shaped(k, B, F, f, n, IF v = 0 THEN X \ {b} ELSE X \cup {b})
               /\ k[0] = m[0] /\ Spared(m, k, B)
<1> DEFINE k == SetNext(m, b, v)
<1>1. Tiles(m, B) /\ F \subseteq B /\ Listed(m, F, f, n)
      /\ \A c \in B \ (F \cup X) : Next(m, c) = 0
  BY DEF Shaped
<1>2. /\ Tiles(k, B) /\ k[0] = m[0] /\ Spared(m, k, B)
      /\ \A c \in B \cup {Super, Guard} : k[c] = m[c]
      /\ \A c \in B \cup {Super} : Next(k, c) = IF c = b THEN v ELSE Next(m, c)
  BY <1>1, NextIsSet
<1> HIDE DEF k
<1>3. b # Super
  BY <1>1, EndsOutside
<1>4. Listed(k, F, f, n)
  <2>1. \A i \in 1 .. n : f[i] \in F \cup {Super, Guard}
    BY <1>1 DEF Listed
  <2>2. \A i \in 1 .. n : k[f[i]] = m[f[i]]
    BY <1>1, <1>2, <2>1
  <2>3. \A i \in 1 .. n - 1 : i \in 1 .. n /\ f[i] \in F \cup {Super}
    <3>1. n \in Nat /\ n >= 2 /\ f[1] = Super /\ \A i \in 2 .. n - 1 : f[i] \in F
      BY <1>1 DEF Listed
    <3> QED BY <3>1
  <2>4. \A i \in 1 .. n - 1 : Next(k, f[i]) = Next(m, f[i])
    BY <1>1, <1>2, <1>3, <2>3
  <2> QED BY <1>1, <2>2, <2>4 DEF Listed
<1>5. \A c \in B \ (F \cup IF v = 0 THEN X \ {b} ELSE X \cup {b}) : Next(k, c) = 0
  BY <1>1, <1>2
<1> QED BY <1>1, <1>2, <1>4, <1>5 DEF Shaped, k

(* A list gives the blocks their places. *)
LEMMA ListFacts ==
    ASSUME NEW m, NEW B, NEW F, NEW f, NEW n, NEW X, Shaped(m, B, F, f, n, X)
    PROVE  /\ n \in Nat /\ n >= 2 /\ f[1] = Super /\ f[n] = Guard
           /\ \A i \in 1 .. n - 1 : /\ i \in 1 .. n /\ i + 1 \in 1 .. n
                                    /\ f[i] \in F \cup {Super} /\ f[i] \in B \cup {Super}
                                    /\ f[i] # Guard
                                    /\ Next(m, f[i]) = f[i + 1]
                                    /\ f[i + 1] \in F \cup {Guard}
           /\ \A i \in 1 .. n : m[f[i]] \in 0 .. GuardSize
           /\ \A i, j \in 1 .. n : f[i] = f[j] => i = j
<1>1. Tiles(m, B) /\ F \subseteq B /\ Listed(m, F, f, n)
  BY DEF Shaped
<1>2. /\ n \in Nat /\ n >= 2 /\ f[1] = Super /\ f[n] = Guard
      /\ f \in [1 .. n -> F \cup {Super, Guard}]
      /\ \A i \in 2 .. n - 1 : f[i] \in F
      /\ \A i \in 1 .. n - 1 : Next(m, f[i]) = f[i + 1]
      /\ \A i, j \in 1 .. n : f[i] = f[j] => i = j
  BY <1>1 DEF Listed
<1>3. Super \notin F /\ Guard \notin F /\ Super # Guard
  BY <1>1, EndsOutside
<1>4. ASSUME NEW i \in 1 .. n - 1
      PROVE  /\ i \in 1 .. n /\ i + 1 \in 1 .. n
             /\ f[i] \in F \cup {Super} /\ f[i] # Guard
             /\ f[i + 1] \in F \cup {Guard}
  <2>1. i \in 1 .. n /\ i + 1 \in 1 .. n /\ (i = 1 \/ i \in 2 .. n - 1)
        /\ (i + 1 = n \/ i + 1 \in 2 .. n - 1)
    BY <1>2
  <2> QED BY <1>2, <1>3, <2>1
<1>5. \A i \in 1 .. n : m[f[i]] \in 0 .. GuardSize
  <2>1. m \in [Offsets -> 0 .. GuardSize] /\ \A b \in B : b \in Offsets
    BY <1>1, TileFacts
  <2> QED BY <1>1, <1>2, <2>1, PlacesAreOffsets
<1> QED BY <1>1, <1>2, <1>4, <1>5

Without(f, n, k) == [i \in 1 .. n - 1 |-> IF i < k THEN f[i] ELSE f[i + 1]]

(* Taking a block off the list; its own next stays. *)
LEMMA TakenOff ==
    ASSUME NEW m, NEW B, NEW F, NEW f, NEW n, NEW X, Shaped(m, B, F, f, n, X),
           NEW k \in 2 .. n - 1
    PROVE  LET w == SetNext(m, f[k - 1], Next(m, f[k]))
           IN  /\ f[k] \in F
               /\ Shaped(w, B, F \ {f[k]}, Without(f, n, k), n - 1, X \cup {f[k]})
               /\ w[0] = m[0] /\ Spared(m, w, B)
<1> DEFINE p == f[k - 1]
           b == f[k]
           w == SetNext(m, p, Next(m, b))
           g == Without(f, n, k)
           at(i) == IF i < k THEN i ELSE i + 1
<1>1. /\ Tiles(m, B) /\ F \subseteq B /\ Listed(m, F, f, n)
      /\ \A c \in B \ (F \cup X) : Next(m, c) = 0
  BY DEF Shaped
<1>2. /\ n \in Nat /\ n >= 2 /\ f[1] = Super /\ f[n] = Guard
      /\ \A i \in 1 .. n - 1 : /\ i \in 1 .. n /\ i + 1 \in 1 .. n
                               /\ f[i] \in F \cup {Super} /\ f[i] \in B \cup {Super}
                               /\ f[i] # Guard
                               /\ Next(m, f[i]) = f[i + 1]
                               /\ f[i + 1] \in F \cup {Guard}
      /\ \A i, j \in 1 .. n : f[i] = f[j] => i = j
  BY ListFacts
<1>3. /\ k \in Nat /\ k - 1 \in 1 .. n - 1 /\ k \in 1 .. n - 1 /\ (k - 1) + 1 = k
      /\ k \in 2 .. n - 1
  BY <1>2
<1>4. /\ b \in F /\ p \in B \cup {Super} /\ Next(m, b) = f[k + 1] /\ p # b
      /\ Next(m, p) = b
  <2>1. b \in F
    BY <1>1, <1>3 DEF Listed
  <2> QED BY <1>2, <1>3, <2>1
<1>5. Next(m, b) \in 0 .. GuardSize
  <2>1. \A c \in B : c \in Offsets /\ c \in Places /\ c < Guard
    BY <1>1, TileFacts
  <2>2. f[k + 1] \in B \cup {Guard}
    BY <1>1, <1>2, <1>3
  <2>3. f[k + 1] \in Nat /\ f[k + 1] <= Guard
    BY <2>1, <2>2, FixedPlaces, Measures DEF Places
  <2>4. f[k + 1] \in 0 .. GuardSize
    <3>1. Guard \in Nat /\ GuardSize \in Nat /\ Guard < GuardSize
      BY GuardFacts
    <3> QED BY <2>3, <3>1
  <2> QED BY <1>4, <2>4
<1>6. /\ Tiles(w, B) /\ w[0] = m[0] /\ Spared(m, w, B)
      /\ \A c \in B \cup {Super, Guard} : w[c] = m[c]
      /\ \A c \in B \cup {Super} : Next(w, c) = IF c = p THEN f[k + 1] ELSE Next(m, c)
  BY <1>1, <1>4, <1>5, NextIsSet
<1> HIDE DEF w, b, p
<1>7. \A i \in 1 .. n - 1 : /\ at(i) \in 1 .. n /\ at(i) # k /\ g[i] = f[at(i)]
                            /\ at(i) = n <=> i = n - 1
  BY <1>2, <1>3 DEF Without
<1>8. /\ \A i, j \in 1 .. n - 1 : at(i) = at(j) => i = j
      /\ \A i, j \in 1 .. n - 1 : i <= j => at(i) <= at(j)
  BY <1>3
<1>9. g[1] = Super /\ g[n - 1] = Guard
  <2>1. at(1) = 1 /\ at(n - 1) = n /\ 1 \in 1 .. n - 1 /\ n - 1 \in 1 .. n - 1
    BY <1>2, <1>3
  <2> QED BY <1>2, <1>7, <2>1
<1>10. ASSUME NEW i \in 1 .. n - 1 PROVE g[i] \in (F \ {b}) \cup {Super, Guard}
  <2>1. at(i) \in 1 .. n /\ at(i) # k /\ g[i] = f[at(i)]
    BY <1>7
  <2>2. f[at(i)] \in F \cup {Super, Guard}
    BY <1>1, <2>1 DEF Listed
  <2>3. f[at(i)] # b
    BY <1>2, <1>3, <2>1 DEF b
  <2> QED BY <2>1, <2>2, <2>3
<1>11. ASSUME NEW i \in 2 .. (n - 1) - 1 PROVE g[i] \in F \ {b}
  <2>1. i \in 1 .. n - 1 /\ i # n - 1 /\ at(i) \in 2 .. n - 1
    BY <1>2, <1>3
  <2> HIDE DEF at
  <2>2. g[i] = f[at(i)] /\ at(i) # k /\ at(i) \in 1 .. n
    BY <1>7, <2>1
  <2>3. f[at(i)] \in F
    BY <1>1, <2>1 DEF Listed
  <2> QED BY <1>2, <1>3, <2>2, <2>3 DEF b
<1>12. ASSUME NEW c \in F \ {b} PROVE \E i \in 2 .. (n - 1) - 1 : g[i] = c
  <2>1. PICK j \in 2 .. n - 1 : f[j] = c
    BY <1>1 DEF Listed
  <2>2. j # k
    BY <2>1 DEF b
  <2>3. CASE j < k
    <3>1. j \in 2 .. (n - 1) - 1 /\ j \in 1 .. n - 1 /\ at(j) = j
      BY <1>2, <1>3, <2>3
    <3> QED BY <1>7, <2>1, <3>1
  <2>4. CASE j > k
    <3>1. j - 1 \in 2 .. (n - 1) - 1 /\ j - 1 \in 1 .. n - 1 /\ at(j - 1) = j
      BY <1>2, <1>3, <2>4
    <3> QED BY <1>7, <2>1, <3>1
  <2> QED BY <1>3, <2>2, <2>3, <2>4
<1>13. ASSUME NEW i \in 1 .. (n - 1) - 1 PROVE Next(w, g[i]) = g[i + 1]
  <2>1. i \in 1 .. n - 1 /\ i + 1 \in 1 .. n - 1
    BY <1>2
  <2>2. CASE i = k - 1
    <3>1. at(i) = k - 1 /\ at(i + 1) = k + 1
      BY <1>3, <2>2
    <3> QED BY <1>4, <1>6, <1>7, <2>1, <3>1 DEF p
  <2>3. CASE i # k - 1
    <3>1. at(i) # k - 1 /\ at(i + 1) = at(i) + 1 /\ at(i) \in 1 .. n - 1
      BY <1>2, <1>3, <2>3
    <3> HIDE DEF at
    <3>2. g[i] = f[at(i)] /\ g[i + 1] = f[at(i) + 1]
      BY <1>7, <2>1, <3>1
    <3>3. f[at(i)] # p /\ f[at(i)] \in B \cup {Super} /\ Next(m, f[at(i)]) = f[at(i) + 1]
      BY <1>2, <1>3, <3>1 DEF p
    <3> QED BY <1>6, <3>2, <3>3
  <2> QED BY <2>2, <2>3
<1>14. ASSUME NEW i \in 1 .. n - 1, NEW j \in 1 .. n - 1, i <= j PROVE w[g[i]] <= w[g[j]]
  <2>1. m[f[at(i)]] <= m[f[at(j)]]
    BY <1>1, <1>7, <1>8, <1>14 DEF Listed
  <2>2. w[g[i]] = m[f[at(i)]] /\ w[g[j]] = m[f[at(j)]]
    BY <1>1, <1>6, <1>7, <1>10
  <2> QED BY <2>1, <2>2
<1>15. ASSUME NEW i \in 1 .. n - 1, NEW j \in 1 .. n - 1, g[i] = g[j] PROVE i = j
  <2>1. at(i) = at(j)
    BY <1>2, <1>7, <1>15
  <2> QED BY <1>8, <2>1
<1>16. n - 1 \in Nat /\ n - 1 >= 2 /\ DOMAIN g = 1 .. n - 1 /\ g = [i \in 1 .. n - 1 |-> g[i]]
  BY <1>2, <1>3 DEF Without
<1> HIDE DEF g, at
<1>17. Listed(w, F \ {b}, g, n - 1)
  <2>1. g \in [1 .. n - 1 -> (F \ {b}) \cup {Super, Guard}]
    BY <1>10, <1>16
  <2> QED BY <1>9, <1>11, <1>12, <1>13, <1>14, <1>15, <1>16, <2>1 DEF Listed
<1>18. \A c \in B \ ((F \ {b}) \cup X \cup {b}) : Next(w, c) = 0
  <2> SUFFICES ASSUME NEW c \in B \ (F \cup X), c # b PROVE Next(w, c) = 0
    OBVIOUS
  <2>1. c # p
    <3>1. p \in F \cup {Super}
      BY <1>2, <1>3 DEF p
    <3> QED BY <1>1, <3>1, EndsOutside
  <2> QED BY <1>1, <1>6, <2>1
<1> QED BY <1>1, <1>4, <1>6, <1>17, <1>18 DEF Shaped, b, g, p, w

With(f, n, k, b) ==
    [i \in 1 .. n + 1 |-> IF i <= k THEN f[i] ELSE IF i = k + 1 THEN b ELSE f[i - 1]]

(* Putting a block on the list where it belongs by its size. *)
LEMMA PutOn ==
    ASSUME NEW m, NEW B, NEW F, NEW f, NEW n, NEW X, Shaped(m, B, F, f, n, X),
           NEW b \in B \ F, NEW k \in 1 .. n - 1, m[f[k]] <= m[b], m[b] <= m[f[k + 1]]
    PROVE  LET w == SetNext(SetNext(m, b, Next(m, f[k])), f[k], b)
           IN  /\ Shaped(w, B, F \cup {b}, With(f, n, k, b), n + 1, X \ {b})
               /\ w[0] = m[0] /\ Spared(m, w, B)
<1> DEFINE p == f[k]
           u == SetNext(m, b, Next(m, p))
           w == SetNext(u, p, b)
           g == With(f, n, k, b)
           H == F \cup {b}
<1>1. /\ Tiles(m, B) /\ F \subseteq B /\ Listed(m, F, f, n)
      /\ \A c \in B \ (F \cup X) : Next(m, c) = 0
  BY DEF Shaped
<1>2. /\ n \in Nat /\ n >= 2 /\ f[1] = Super /\ f[n] = Guard
      /\ \A i \in 1 .. n - 1 : /\ i \in 1 .. n /\ i + 1 \in 1 .. n
                               /\ f[i] \in F \cup {Super} /\ f[i] \in B \cup {Super}
                               /\ f[i] # Guard
                               /\ Next(m, f[i]) = f[i + 1]
                               /\ f[i + 1] \in F \cup {Guard}
      /\ \A i \in 1 .. n : m[f[i]] \in 0 .. GuardSize
      /\ \A i, j \in 1 .. n : f[i] = f[j] => i = j
      /\ \A i, j \in 1 .. n : i <= j => m[f[i]] <= m[f[j]]
  BY <1>1, ListFacts DEF Listed
<1>3. k \in Nat /\ k \in 1 .. n - 1 /\ k \in 1 .. n /\ k + 1 \in 1 .. n
  BY <1>2
<1>4. /\ p \in F \cup {Super} /\ p \in B \cup {Super} /\ p # Guard
      /\ Next(m, p) = f[k + 1] /\ f[k + 1] \in F \cup {Guard}
  BY <1>2, <1>3
<1>5. b # Super /\ b # Guard /\ b # p /\ b \in B \cup {Super}
  BY <1>1, <1>4, EndsOutside
<1>6. f[k + 1] \in 0 .. GuardSize /\ b \in 0 .. GuardSize
  <2>1. \A c \in B \cup {Guard} : c \in 0 .. GuardSize
    <3>1. \A c \in B : c \in Nat /\ c < Guard
      BY <1>1, TileFacts DEF Places
    <3> QED BY <3>1, GuardFacts
  <2> QED BY <1>1, <1>4, <2>1
<1> HIDE DEF p, g, H
<1>7. /\ Tiles(u, B) /\ u[0] = m[0] /\ Spared(m, u, B)
      /\ \A c \in B \cup {Super, Guard} : u[c] = m[c]
      /\ \A c \in B \cup {Super} : Next(u, c) = IF c = b THEN f[k + 1] ELSE Next(m, c)
  <2>1. Next(m, p) \in 0 .. GuardSize
    BY <1>4, <1>6
  <2>2. /\ Tiles(u, B) /\ u[0] = m[0] /\ Spared(m, u, B)
        /\ \A c \in B \cup {Super, Guard} : u[c] = m[c]
        /\ \A c \in B \cup {Super} : Next(u, c) = IF c = b THEN Next(m, p) ELSE Next(m, c)
    BY <1>1, <1>5, <2>1, NextIsSet
  <2> QED BY <1>4, <2>2
<1> HIDE DEF u
<1>8. /\ Tiles(w, B) /\ w[0] = u[0] /\ Spared(u, w, B)
      /\ \A c \in B \cup {Super, Guard} : w[c] = u[c]
      /\ \A c \in B \cup {Super} : Next(w, c) = IF c = p THEN b ELSE Next(u, c)
  <2>1. Tiles(u, B) /\ p \in B \cup {Super} /\ b \in 0 .. GuardSize
    BY <1>4, <1>6, <1>7
  <2> QED BY <2>1, NextIsSet
<1> HIDE DEF w
<1>9. /\ w[0] = m[0] /\ Spared(m, w, B)
      /\ \A c \in B \cup {Super, Guard} : w[c] = m[c]
      /\ \A c \in B \cup {Super} :
           Next(w, c) = IF c = p THEN b ELSE IF c = b THEN f[k + 1] ELSE Next(m, c)
  BY <1>5, <1>7, <1>8, SparedTwice
<1>10. /\ \A i \in 1 .. n + 1 : g[i] = IF i <= k THEN f[i] ELSE IF i = k + 1 THEN b ELSE f[i - 1]
       /\ g = [i \in 1 .. n + 1 |-> g[i]]
  BY DEF g, With
<1>11. \A i \in 1 .. n + 1 : /\ i <= k => i \in 1 .. n /\ g[i] = f[i]
                             /\ i = k + 1 => g[i] = b
                             /\ i > k + 1 => i - 1 \in 1 .. n /\ g[i] = f[i - 1]
  BY <1>2, <1>3, <1>10
<1>12. g[1] = Super /\ g[n + 1] = Guard
  <2>1. 1 \in 1 .. n + 1 /\ 1 <= k /\ n + 1 \in 1 .. n + 1 /\ n + 1 > k + 1 /\ (n + 1) - 1 = n
    BY <1>2, <1>3
  <2> QED BY <1>2, <1>11, <2>1
<1>13. \A i \in 1 .. n : f[i] \in F \cup {Super, Guard} /\ f[i] # b
  BY <1>1, <1>5 DEF Listed
<1>14. ASSUME NEW i \in 1 .. n + 1 PROVE g[i] \in H \cup {Super, Guard}
  <2>1. i <= k \/ i = k + 1 \/ i > k + 1
    BY <1>3
  <2> QED BY <1>11, <1>13, <2>1 DEF H
<1>15. ASSUME NEW i \in 2 .. (n + 1) - 1 PROVE g[i] \in H
  <2>1. \/ i <= k /\ i \in 2 .. n - 1
        \/ i = k + 1
        \/ i > k + 1 /\ i - 1 \in 2 .. n - 1
    BY <1>2, <1>3
  <2>2. i \in 1 .. n + 1 /\ \A j \in 2 .. n - 1 : f[j] \in F
    BY <1>1, <1>2 DEF Listed
  <2> QED BY <1>11, <2>1, <2>2 DEF H
<1>16. ASSUME NEW c \in H PROVE \E i \in 2 .. (n + 1) - 1 : g[i] = c
  <2>1. CASE c = b
    <3>1. k + 1 \in 2 .. (n + 1) - 1 /\ k + 1 \in 1 .. n + 1
      BY <1>2, <1>3
    <3> QED BY <1>11, <2>1, <3>1
  <2>2. CASE c # b
    <3>1. PICK j \in 2 .. n - 1 : f[j] = c
      BY <1>1, <2>2 DEF Listed, H
    <3>2. CASE j <= k
      <4>1. j \in 2 .. (n + 1) - 1 /\ j \in 1 .. n + 1
        BY <1>2
      <4> QED BY <1>11, <3>1, <3>2, <4>1
    <3>3. CASE j > k
      <4>1. j + 1 \in 2 .. (n + 1) - 1 /\ j + 1 \in 1 .. n + 1 /\ j + 1 > k + 1 /\ (j + 1) - 1 = j
        BY <1>2, <1>3, <3>3
      <4>2. g[j + 1] = f[j]
        BY <1>11, <4>1
      <4> QED BY <3>1, <4>1, <4>2
    <3> QED BY <1>3, <3>2, <3>3
  <2> QED BY <2>1, <2>2
<1>17. ASSUME NEW i \in 1 .. (n + 1) - 1 PROVE Next(w, g[i]) = g[i + 1]
  <2>1. i \in 1 .. n + 1 /\ i + 1 \in 1 .. n + 1
    BY <1>2
  <2>2. CASE i < k
    <3>1. i <= k /\ i + 1 <= k /\ i \in 1 .. n - 1
      BY <1>2, <1>3, <2>2
    <3>2. f[i] # p /\ f[i] # b /\ f[i] \in B \cup {Super} /\ Next(m, f[i]) = f[i + 1]
      BY <1>2, <1>3, <1>13, <2>2, <3>1 DEF p
    <3> QED BY <1>9, <1>11, <2>1, <3>1, <3>2
  <2>3. CASE i = k
    <3>1. i <= k /\ i + 1 = k + 1 /\ g[i] = p /\ g[i + 1] = b
      BY <1>3, <1>11, <2>1, <2>3 DEF p
    <3> QED BY <1>4, <1>9, <3>1
  <2>4. CASE i = k + 1
    <3>1. i + 1 > k + 1 /\ (i + 1) - 1 = k + 1
      BY <1>3, <2>4
    <3>2. g[i] = b /\ g[i + 1] = f[k + 1]
      BY <1>11, <2>1, <2>4, <3>1
    <3> QED BY <1>5, <1>9, <3>2
  <2>5. CASE i > k + 1
    <3>1. i + 1 > k + 1 /\ (i + 1) - 1 = (i - 1) + 1 /\ i - 1 \in 1 .. n - 1 /\ i - 1 # k
      BY <1>2, <1>3, <2>5
    <3>2. g[i] = f[i - 1] /\ g[i + 1] = f[(i - 1) + 1]
      BY <1>11, <2>1, <2>5, <3>1
    <3>3. /\ f[i - 1] # p /\ f[i - 1] # b /\ f[i - 1] \in B \cup {Super}
          /\ Next(m, f[i - 1]) = f[(i - 1) + 1]
      BY <1>2, <1>3, <1>13, <3>1 DEF p
    <3> QED BY <1>9, <3>2, <3>3
  <2> QED BY <1>3, <2>2, <2>3, <2>4, <2>5
<1>18. \A i \in 1 .. n + 1 : w[g[i]] = m[g[i]]
  BY <1>1, <1>5, <1>9, <1>14 DEF H
<1>19. ASSUME NEW i \in 1 .. n + 1, NEW j \in 1 .. n + 1, i <= j PROVE w[g[i]] <= w[g[j]]
  <2> DEFINE s == m[b]
  <2>1. m[b] \in Nat /\ m[f[k]] \in Nat /\ m[f[k + 1]] \in Nat
    <3>1. m[b] \in Nat
      BY <1>1, TileFacts
    <3> QED BY <1>2, <1>3, <3>1, GuardFacts
  <2>2. \A h \in 1 .. n : m[f[h]] \in Nat
    BY <1>2, GuardFacts
  <2>3. \A h \in 1 .. n : /\ h <= k => m[f[h]] <= m[b]
                          /\ h > k => m[b] <= m[f[h]]
    <3>1. \A h \in 1 .. n : h <= k => m[f[h]] <= m[f[k]]
      BY <1>2, <1>3
    <3>2. \A h \in 1 .. n : h > k => k + 1 <= h
      BY <1>3
    <3>3. \A h \in 1 .. n : h > k => m[f[k + 1]] <= m[f[h]]
      BY <1>2, <1>3, <3>2
    <3> QED BY <2>1, <2>2, <3>1, <3>3
  <2>4. CASE i <= k /\ j <= k
    BY <1>2, <1>11, <1>18, <1>19, <2>4
  <2>5. CASE i <= k /\ j = k + 1
    BY <1>11, <1>18, <2>3, <2>5
  <2>6. CASE i <= k /\ j > k + 1
    <3>1. i \in 1 .. n /\ j - 1 \in 1 .. n /\ i <= j - 1 /\ g[i] = f[i] /\ g[j] = f[j - 1]
      BY <1>3, <1>11, <2>6
    <3> QED BY <1>2, <1>18, <3>1
  <2>7. CASE i = k + 1 /\ j = k + 1
    BY <1>11, <1>18, <2>1, <2>7
  <2>8. CASE i = k + 1 /\ j > k + 1
    <3>1. j - 1 \in 1 .. n /\ j - 1 > k /\ g[i] = b /\ g[j] = f[j - 1]
      BY <1>3, <1>11, <2>8
    <3> QED BY <1>18, <2>3, <3>1
  <2>9. CASE i > k + 1 /\ j > k + 1
    <3>1. i - 1 \in 1 .. n /\ j - 1 \in 1 .. n /\ i - 1 <= j - 1 /\ g[i] = f[i - 1] /\ g[j] = f[j - 1]
      BY <1>3, <1>11, <1>19, <2>9
    <3> QED BY <1>2, <1>18, <3>1
  <2> QED BY <1>3, <1>19, <2>4, <2>5, <2>6, <2>7, <2>8, <2>9
<1>20. ASSUME NEW i \in 1 .. n + 1, NEW j \in 1 .. n + 1, g[i] = g[j] PROVE i = j
  <2>1. CASE i = k + 1 \/ j = k + 1
    BY <1>3, <1>11, <1>13, <1>20, <2>1
  <2>2. CASE i <= k /\ j <= k
    BY <1>2, <1>11, <1>20, <2>2
  <2>3. CASE i <= k /\ j > k + 1
    <3>1. i = j - 1
      BY <1>2, <1>11, <1>20, <2>3
    <3> QED BY <1>3, <2>3, <3>1
  <2>4. CASE i > k + 1 /\ j <= k
    <3>1. i - 1 = j
      BY <1>2, <1>11, <1>20, <2>4
    <3> QED BY <1>3, <2>4, <3>1
  <2>5. CASE i > k + 1 /\ j > k + 1
    <3>1. i - 1 = j - 1
      BY <1>2, <1>11, <1>20, <2>5
    <3> QED BY <3>1
  <2> QED BY <1>3, <2>1, <2>2, <2>3, <2>4, <2>5
<1>21. Listed(w, H, g, n + 1)
  <2>1. g \in [1 .. n + 1 -> H \cup {Super, Guard}] /\ n + 1 \in Nat /\ n + 1 >= 2
    BY <1>2, <1>10, <1>14
  <2> QED BY <1>12, <1>15, <1>16, <1>17, <1>19, <1>20, <2>1 DEF Listed
<1>22. \A c \in B \ (H \cup (X \ {b})) : Next(w, c) = 0
  <2> SUFFICES ASSUME NEW c \in B \ (F \cup X), c # b PROVE Next(w, c) = 0
    BY DEF H
  <2>1. c # p
    BY <1>1, <1>4, EndsOutside
  <2> QED BY <1>1, <1>9, <2>1
<1> QED BY <1>1, <1>8, <1>9, <1>21, <1>22 DEF Shaped, g, H, p, u, w

-----------------------------------------------------------------------------
(* Following the list.                                                     *)

(* h begins with v and goes on by step. *)
Unfolds(h, v, step) == \A i \in Nat : h[i] = IF i = 0 THEN v ELSE step[i - 1][h[i - 1]]

(* A function may be defined by recursion over the numbers. *)
LEMMA Recurs ==
    ASSUME NEW V, NEW v \in V, NEW step \in [Nat -> [V -> V]]
    PROVE  \E h \in [Nat -> V] : Unfolds(h, v, step)
<1> DEFINE Upto(n, g) ==
               /\ g \in [0 .. n -> V] /\ g[0] = v
               /\ \A i \in 0 .. n - 1 : g[i + 1] = step[i][g[i]]
           Defined == {n \in Nat : \E g : Upto(n, g)}
<1>1. Nat \subseteq Defined
  <2>1. 0 \in Defined
    <3> DEFINE g == [i \in 0 .. 0 |-> v]
    <3>1. Upto(0, g)
      OBVIOUS
    <3> QED BY <3>1
  <2>2. ASSUME NEW n \in Nat, n \in Defined PROVE n + 1 \in Defined
    <3>1. PICK g : Upto(n, g)
      BY <2>2
    <3> DEFINE x == step[n][g[n]]
               k == [i \in 0 .. n + 1 |-> IF i = n + 1 THEN x ELSE g[i]]
    <3>2. x \in V
      BY <3>1
    <3> HIDE DEF x
    <3>3. \A i \in 0 .. n : i \in 0 .. n + 1 /\ i # n + 1 /\ g[i] \in V
      BY <3>1
    <3>4. k \in [0 .. n + 1 -> V]
      <4>1. \A i \in 0 .. n + 1 : i # n + 1 => i \in 0 .. n
        OBVIOUS
      <4> QED BY <3>2, <3>3, <4>1
    <3>5. k[n + 1] = x /\ \A i \in 0 .. n : k[i] = g[i]
      BY <3>3
    <3> HIDE DEF k
    <3>6. k[0] = v
      BY <3>1, <3>5
    <3>7. ASSUME NEW i \in 0 .. (n + 1) - 1 PROVE k[i + 1] = step[i][k[i]]
      <4>1. CASE i = n
        BY <3>5, <4>1 DEF x
      <4>2. CASE i # n
        <5>1. i \in 0 .. n - 1 /\ i \in 0 .. n /\ i + 1 \in 0 .. n
          BY <4>2
        <5> QED BY <3>1, <3>5, <5>1
      <4> QED BY <4>1, <4>2
    <3>8. Upto(n + 1, k)
      BY <3>4, <3>6, <3>7
    <3> QED BY <3>8
  <2> HIDE DEF Defined
  <2> QED BY <2>1, <2>2, SetInduction
<1> DEFINE part(n) == CHOOSE g : Upto(n, g)
           h == [n \in Nat |-> part(n)[n]]
<1>2. \A n \in Nat : Upto(n, part(n))
  BY <1>1
<1> HIDE DEF part
<1>3. \A n \in Nat : part(n) \in [0 .. n -> V] /\ part(n)[0] = v
                     /\ \A i \in 0 .. n - 1 : part(n)[i + 1] = step[i][part(n)[i]]
  BY <1>2
<1>4. ASSUME NEW n \in Nat PROVE \A i \in 0 .. n : part(n)[i] = part(n + 1)[i]
  <2> DEFINE G == {i \in Nat : i \in 0 .. n => part(n)[i] = part(n + 1)[i]}
  <2>1. 0 \in G
    BY <1>3
  <2>2. ASSUME NEW i \in Nat, i \in G PROVE i + 1 \in G
    <3> SUFFICES ASSUME i + 1 \in 0 .. n PROVE part(n)[i + 1] = part(n + 1)[i + 1]
      OBVIOUS
    <3>1. i \in 0 .. n - 1 /\ i \in 0 .. n /\ i \in 0 .. (n + 1) - 1 /\ n + 1 \in Nat
      OBVIOUS
    <3> QED BY <1>3, <2>2, <3>1
  <2> HIDE DEF G
  <2>3. Nat \subseteq G
    BY <2>1, <2>2, SetInduction
  <2> QED BY <2>3 DEF G
<1>5. \A n \in Nat : h[n] = part(n)[n]
  OBVIOUS
<1>6. h \in [Nat -> V]
  <2>1. \A n \in Nat : part(n)[n] \in V
    BY <1>3
  <2> QED BY <2>1
<1> HIDE DEF h
<1>7. ASSUME NEW i \in Nat PROVE h[i] = IF i = 0 THEN v ELSE step[i - 1][h[i - 1]]
  <2>1. CASE i = 0
    BY <1>3, <1>5, <2>1
  <2>2. CASE i # 0
    <3>1. i - 1 \in Nat /\ (i - 1) + 1 = i /\ i - 1 \in 0 .. i - 1
      BY <2>2
    <3>2. part(i)[(i - 1) + 1] = step[i - 1][part(i)[i - 1]]
      BY <1>3, <3>1
    <3>3. part(i - 1)[i - 1] = part(i)[i - 1]
      BY <1>4, <3>1
    <3> QED BY <1>5, <2>2, <3>1, <3>2, <3>3
  <2> QED BY <2>1, <2>2
<1> QED BY <1>6, <1>7 DEF Unfolds

LEMMA HopsAre ==
    ASSUME NEW m, NEW B, NEW F, NEW f, NEW n, NEW X, Shaped(m, B, F, f, n, X),
           NEW j \in 1 .. n
    PROVE  \A i \in Nat : Hops(m, f[j])[i] = IF j + i <= n THEN f[j + i] ELSE Guard
<1> DEFINE V == {f[i] : i \in 1 .. n}
           from == f[j]
           hop == Hops(m, from)
           step == [i \in Nat |-> [b \in V |-> IF b = Guard THEN b ELSE Next(m, b)]]
<1>1. /\ n \in Nat /\ n >= 2 /\ f[n] = Guard
      /\ \A i \in 1 .. n - 1 : f[i] # Guard /\ Next(m, f[i]) = f[i + 1]
  BY ListFacts
<1>2. \A b \in V : b # Guard => Next(m, b) \in V
  <2> SUFFICES ASSUME NEW i \in 1 .. n, f[i] # Guard PROVE Next(m, f[i]) \in V
    OBVIOUS
  <2>1. i \in 1 .. n - 1 /\ i + 1 \in 1 .. n
    BY <1>1
  <2> QED BY <1>1, <2>1
<1>3. from \in V
  OBVIOUS
<1> HIDE DEF V, from
<1>4. step \in [Nat -> [V -> V]]
  BY <1>2
<1>5. \A i \in Nat, b \in V : step[i][b] = IF b = Guard THEN b ELSE Next(m, b)
  OBVIOUS
<1> HIDE DEF step
<1>6. PICK h \in [Nat -> V] : Unfolds(h, from, step)
  BY <1>3, <1>4, Recurs
<1>7. ASSUME NEW i \in Nat
      PROVE  h[i] = IF i = 0 THEN from
                    ELSE LET b == h[i - 1] IN IF b = Guard THEN b ELSE Next(m, b)
  <2>1. i # 0 => i - 1 \in Nat /\ h[i - 1] \in V
    BY <1>6
  <2> QED BY <1>5, <1>6, <2>1 DEF Unfolds
<1>8. h = [i \in Nat |-> IF i = 0 THEN from
                         ELSE LET b == h[i - 1] IN IF b = Guard THEN b ELSE Next(m, b)]
  BY <1>6, <1>7
<1>9. hop = [i \in Nat |-> IF i = 0 THEN from
                           ELSE LET b == hop[i - 1] IN IF b = Guard THEN b ELSE Next(m, b)]
  BY <1>8 DEF Hops
<1> HIDE DEF hop
<1>10. /\ hop[0] = from
       /\ \A i \in Nat : hop[i + 1] = IF hop[i] = Guard THEN hop[i] ELSE Next(m, hop[i])
  <2>1. hop[0] = from
    BY <1>9
  <2>2. ASSUME NEW i \in Nat
        PROVE  hop[i + 1] = IF hop[i] = Guard THEN hop[i] ELSE Next(m, hop[i])
    <3>1. i + 1 \in Nat /\ i + 1 # 0 /\ (i + 1) - 1 = i
      OBVIOUS
    <3> QED BY <1>9, <3>1
  <2> QED BY <2>1, <2>2
<1> DEFINE G == {i \in Nat : hop[i] = IF j + i <= n THEN f[j + i] ELSE Guard}
<1>11. 0 \in G
  BY <1>1, <1>10 DEF from
<1>12. ASSUME NEW i \in Nat, i \in G PROVE i + 1 \in G
  <2>1. hop[i] = IF j + i <= n THEN f[j + i] ELSE Guard
    BY <1>12
  <2>2. CASE j + i < n
    <3>1. j + i \in 1 .. n - 1 /\ j + (i + 1) = (j + i) + 1 /\ j + i <= n /\ j + (i + 1) <= n
      BY <1>1, <2>2
    <3> QED BY <1>1, <1>10, <2>1, <3>1
  <2>3. CASE j + i >= n
    <3>1. hop[i] = Guard
      BY <1>1, <2>1, <2>3
    <3>2. ~(j + (i + 1) <= n)
      BY <1>1, <2>3
    <3> QED BY <1>10, <3>1, <3>2
  <2> QED BY <1>1, <2>2, <2>3
<1> HIDE DEF G
<1>13. Nat \subseteq G
  BY <1>11, <1>12, SetInduction
<1> QED BY <1>13 DEF G, hop, from

LEMMA ListShort ==
    ASSUME NEW m, NEW B, NEW F, NEW f, NEW n, NEW X, Shaped(m, B, F, f, n, X)
    PROVE  n <= MemorySize
<1>1. /\ n \in Nat /\ f \in [1 .. n -> F \cup {Super, Guard}]
      /\ \A i, j \in 1 .. n : f[i] = f[j] => i = j
  BY DEF Shaped, Listed
<1>2. F \cup {Super, Guard} \subseteq 0 .. Guard
  <2>1. \A b \in F : b \in Nat /\ b <= Guard
    BY TileFacts, FixedPlaces DEF Shaped, Places
  <2> QED BY <2>1, FixedPlaces DEF Places
<1>3. f \in [1 .. n -> 0 .. Guard]
  BY <1>1, <1>2
<1>4. f \in Injection(1 .. n, 0 .. Guard)
  BY <1>1, <1>3 DEF Injection, IsInjective
<1>5. IsFiniteSet(0 .. Guard) /\ Cardinality(0 .. Guard) = Guard + 1
      /\ Cardinality(1 .. n) = n
  <2>1. 0 \in Int /\ 1 \in Int /\ n \in Int /\ Guard \in Int /\ ~(0 > Guard)
    BY <1>1, GuardFacts
  <2>2. /\ IsFiniteSet(0 .. Guard)
        /\ Cardinality(0 .. Guard) = IF 0 > Guard THEN 0 ELSE Guard - 0 + 1
        /\ Cardinality(1 .. n) = IF 1 > n THEN 0 ELSE n - 1 + 1
    BY <2>1, FS_Interval
  <2> QED BY <1>1, <2>1, <2>2
<1>6. n <= Guard + 1
  BY <1>4, <1>5, FS_Injection
<1> QED BY <1>1, <1>6, Measures

(* The search for a size ends, and where it should. *)
LEMMA LastSmallerIs ==
    ASSUME NEW m, NEW B, NEW F, NEW f, NEW n, NEW X, Shaped(m, B, F, f, n, X),
           NEW j \in 1 .. n - 1, NEW s \in 0 .. GuardSize
    PROVE  \E k \in j .. n - 1 : /\ LastSmaller(m, f[j], s) = f[k]
                                 /\ m[f[k + 1]] >= s
                                 /\ \A i \in j + 1 .. k : m[f[i]] < s
<1> DEFINE hop == Hops(m, f[j])
           T == {i \in 0 .. n - 1 - j : m[f[j + i + 1]] >= s}
<1>1. /\ n \in Nat /\ n >= 2 /\ f[n] = Guard
      /\ \A i \in 1 .. n - 1 : Next(m, f[i]) = f[i + 1]
      /\ \A i \in 1 .. n : m[f[i]] \in Nat
      /\ m[Guard] = GuardSize
  <2>1. /\ n \in Nat /\ n >= 2 /\ f[n] = Guard
        /\ \A i \in 1 .. n - 1 : Next(m, f[i]) = f[i + 1]
        /\ \A i \in 1 .. n : m[f[i]] \in 0 .. GuardSize
    BY ListFacts
  <2>2. m[Guard] = GuardSize
    BY DEF Shaped, Tiles
  <2> QED BY <2>1, <2>2, GuardFacts
<1>2. j \in 1 .. n /\ j \in Nat /\ n <= MemorySize /\ MemorySize \in Nat
  <2>1. n <= MemorySize
    BY ListShort
  <2> HIDE DEF hop, T
  <2>2. MemorySize \in Nat
    BY Measures
  <2> QED BY <1>1, <2>1, <2>2
<1>3. \A i \in Nat : hop[i] = IF j + i <= n THEN f[j + i] ELSE Guard
  BY <1>2, HopsAre
<1> HIDE DEF hop
<1>4. ASSUME NEW i \in 0 .. n - 1 - j
      PROVE  hop[i] = f[j + i] /\ Next(m, hop[i]) = f[j + i + 1] /\ m[f[j + i + 1]] \in Nat
  <2>1. i \in Nat /\ j + i <= n /\ j + i \in 1 .. n - 1 /\ j + i + 1 \in 1 .. n
    BY <1>1, <1>2
  <2> QED BY <1>1, <1>3, <2>1
<1>5. PICK x \in T : \A y \in T : x <= y
  <2>1. n - 1 - j \in T
    <3>1. n - 1 - j \in 0 .. n - 1 - j /\ j + (n - 1 - j) + 1 = n
      BY <1>1, <1>2
    <3>2. m[f[n]] >= s
      BY <1>1, GuardFacts
    <3> DEFINE i == n - 1 - j
    <3>3. i \in 0 .. n - 1 - j /\ f[j + i + 1] = f[n]
      BY <3>1
    <3> HIDE DEF i
    <3>4. i \in T
      BY <3>2, <3>3
    <3> QED BY <3>4 DEF i
  <2>2. T \subseteq Nat /\ T # {}
    BY <1>1, <1>2, <2>1
  <2> HIDE DEF T
  <2> QED BY <2>2, LeastNumber
<1>6. x \in 0 .. n - 1 - j /\ x \in 0 .. MemorySize /\ m[Next(m, hop[x])] >= s
  BY <1>1, <1>2, <1>4, <1>5
<1>7. \A i \in 0 .. x - 1 : m[Next(m, hop[i])] < s /\ m[f[j + i + 1]] < s
  <2> SUFFICES ASSUME NEW i \in 0 .. x - 1 PROVE m[Next(m, hop[i])] < s /\ m[f[j + i + 1]] < s
    OBVIOUS
  <2>1. i \in 0 .. n - 1 - j /\ ~(x <= i)
    BY <1>1, <1>2, <1>6
  <2>2. ~(m[f[j + i + 1]] >= s)
    BY <1>5, <2>1
  <2> QED BY <1>4, <2>1, <2>2
<1> HIDE DEF T
<1>8. ASSUME NEW i \in 0 .. MemorySize, m[Next(m, hop[i])] >= s,
             \A h \in 0 .. i - 1 : m[Next(m, hop[h])] < s
      PROVE  i = x
  <2>1. ~(x < i)
    <3> SUFFICES ASSUME x < i PROVE FALSE
      OBVIOUS
    <3>1. x \in 0 .. i - 1
      BY <1>6
    <3>2. m[Next(m, hop[x])] < s /\ m[Next(m, hop[x])] \in Nat
      BY <1>4, <1>6, <1>8, <3>1
    <3> QED BY <1>6, <3>2
  <2>2. ~(i < x)
    <3> SUFFICES ASSUME i < x PROVE FALSE
      OBVIOUS
    <3>1. i \in 0 .. x - 1 /\ i \in 0 .. n - 1 - j
      BY <1>1, <1>2, <1>6
    <3>2. m[Next(m, hop[i])] < s /\ m[Next(m, hop[i])] \in Nat
      BY <1>4, <1>7, <3>1
    <3> QED BY <1>8, <3>2
  <2> QED BY <1>6, <2>1, <2>2
<1> DEFINE c == CHOOSE i \in 0 .. MemorySize : /\ m[Next(m, hop[i])] >= s
                                                /\ \A h \in 0 .. i - 1 : m[Next(m, hop[h])] < s
<1>9. /\ c \in 0 .. MemorySize /\ m[Next(m, hop[c])] >= s
      /\ \A h \in 0 .. c - 1 : m[Next(m, hop[h])] < s
  BY <1>6, <1>7
<1>10. LastSmaller(m, f[j], s) = hop[c]
  BY DEF LastSmaller, hop
<1> HIDE DEF c
<1>11. LastSmaller(m, f[j], s) = f[j + x]
  <2>1. c = x
    BY <1>8, <1>9
  <2> QED BY <1>4, <1>6, <1>10, <2>1
<1>12. j + x \in j .. n - 1 /\ m[f[(j + x) + 1]] >= s
  BY <1>1, <1>2, <1>4, <1>6
<1>13. ASSUME NEW i \in j + 1 .. j + x PROVE m[f[i]] < s
  <2>1. i - j - 1 \in 0 .. x - 1 /\ j + (i - j - 1) + 1 = i
    BY <1>2, <1>6
  <2> QED BY <1>7, <2>1
<1> QED BY <1>11, <1>12, <1>13

(* And so does the search for a block. *)
LEMMA BeforeIs ==
    ASSUME NEW m, NEW B, NEW F, NEW f, NEW n, NEW X, Shaped(m, B, F, f, n, X),
           NEW j \in 1 .. n - 1, NEW k \in j .. n - 1
    PROVE  Before(m, f[j], f[k + 1]) = f[k]
<1> DEFINE hop == Hops(m, f[j])
           off == f[k + 1]
           x == k - j
<1>1. /\ n \in Nat /\ n >= 2 /\ f[n] = Guard
      /\ \A i \in 1 .. n - 1 : Next(m, f[i]) = f[i + 1]
      /\ \A i, h \in 1 .. n : f[i] = f[h] => i = h
  BY ListFacts
<1>2. j \in 1 .. n /\ j \in Nat /\ n <= MemorySize /\ MemorySize \in Nat /\ k \in Nat
  <2>1. n <= MemorySize
    BY ListShort
  <2> HIDE DEF hop
  <2>2. MemorySize \in Nat
    BY Measures
  <2> QED BY <1>1, <2>1, <2>2
<1>3. \A i \in Nat : hop[i] = IF j + i <= n THEN f[j + i] ELSE Guard
  BY <1>2, HopsAre
<1> HIDE DEF hop
<1>4. ASSUME NEW i \in 0 .. n - 1 - j
      PROVE  /\ hop[i] = f[j + i] /\ Next(m, hop[i]) = f[j + i + 1]
             /\ Next(m, hop[i]) = off <=> i = x
  <2>1. i \in Nat /\ j + i <= n /\ j + i \in 1 .. n - 1 /\ j + i + 1 \in 1 .. n
    BY <1>1, <1>2
  <2>2. hop[i] = f[j + i] /\ Next(m, hop[i]) = f[j + i + 1]
    BY <1>1, <1>3, <2>1
  <2>3. k + 1 \in 1 .. n
    BY <1>1, <1>2
  <2>4. f[j + i + 1] = off => j + i + 1 = k + 1
    BY <1>1, <2>1, <2>3
  <2>5. j + i + 1 = k + 1 <=> i = x
    BY <1>2, <2>1
  <2> QED BY <2>2, <2>4, <2>5
<1> HIDE DEF off
<1>5. x \in 0 .. n - 1 - j /\ x \in 0 .. MemorySize /\ Next(m, hop[x]) = off
  <2>1. x \in 0 .. n - 1 - j /\ x \in 0 .. MemorySize
    BY <1>1, <1>2
  <2> QED BY <1>4, <2>1
<1>6. \A i \in 0 .. x - 1 : Next(m, hop[i]) # off
  <2> SUFFICES ASSUME NEW i \in 0 .. x - 1 PROVE Next(m, hop[i]) # off
    OBVIOUS
  <2>1. i \in 0 .. n - 1 - j /\ i # x
    BY <1>1, <1>2, <1>5
  <2> HIDE DEF x
  <2> QED BY <1>4, <2>1
<1> HIDE DEF x
<1>7. ASSUME NEW i \in 0 .. MemorySize, Next(m, hop[i]) = off,
             \A h \in 0 .. i - 1 : Next(m, hop[h]) # off
      PROVE  i = x
  <2>1. ~(x < i)
    <3> SUFFICES ASSUME x < i PROVE FALSE
      OBVIOUS
    <3>1. x \in 0 .. i - 1
      BY <1>5
    <3> QED BY <1>5, <1>7, <3>1
  <2>2. ~(i < x)
    <3> SUFFICES ASSUME i < x PROVE FALSE
      OBVIOUS
    <3>1. i \in 0 .. x - 1
      BY <1>5
    <3> QED BY <1>6, <1>7, <3>1
  <2> QED BY <1>5, <2>1, <2>2
<1> DEFINE c == CHOOSE i \in 0 .. MemorySize : /\ Next(m, hop[i]) = off
                                                /\ \A h \in 0 .. i - 1 : Next(m, hop[h]) # off
<1>8. /\ c \in 0 .. MemorySize /\ Next(m, hop[c]) = off
      /\ \A h \in 0 .. c - 1 : Next(m, hop[h]) # off
  BY <1>5, <1>6
<1>9. Before(m, f[j], off) = hop[c]
  BY DEF Before, hop
<1> HIDE DEF c
<1>10. Before(m, f[j], off) = f[j + x]
  <2>1. c = x
    BY <1>7, <1>8
  <2> QED BY <1>4, <1>5, <1>9, <2>1
<1>11. j + x = k
  BY <1>2 DEF x
<1> QED BY <1>10, <1>11 DEF off

-----------------------------------------------------------------------------
(* The same without the places on the list.                                *)
Heaped(m, B, F, X) == \E f, n : Shaped(m, B, F, f, n, X)

LEMMA HeapedFacts ==
    ASSUME NEW m, NEW B, NEW F, NEW X, Heaped(m, B, F, X)
    PROVE  /\ Tiles(m, B) /\ F \subseteq B
           /\ \A b \in B \ (F \cup X) : Next(m, b) = 0
           /\ \A b \in F \cup {Super} : Next(m, b) \in F \cup {Guard}
<1>1. PICK f, n : Shaped(m, B, F, f, n, X)
  BY DEF Heaped
<1>2. ASSUME NEW b \in F \cup {Super} PROVE Next(m, b) \in F \cup {Guard}
  <2>1. /\ n \in Nat /\ n >= 2 /\ f[1] = Super
        /\ \A i \in 1 .. n - 1 : Next(m, f[i]) = f[i + 1] /\ f[i + 1] \in F \cup {Guard}
    BY <1>1, ListFacts
  <2>2. \E i \in 1 .. n - 1 : f[i] = b
    <3>1. CASE b = Super
      BY <2>1, <3>1
    <3>2. CASE b \in F
      <4>1. PICK i \in 2 .. n - 1 : f[i] = b
        BY <1>1, <3>2 DEF Shaped, Listed
      <4> QED BY <2>1, <4>1
    <3> QED BY <3>1, <3>2
  <2> QED BY <2>1, <2>2
<1> QED BY <1>1, <1>2 DEF Shaped

(* Where a block is on the list. *)
LEMMA PlaceOnList ==
    ASSUME NEW m, NEW B, NEW F, NEW f, NEW n, NEW X, Shaped(m, B, F, f, n, X)
    PROVE  /\ \A b \in F \cup {Super} : \E i \in 1 .. n - 1 : f[i] = b
           /\ \A b \in F : \E i \in 2 .. n - 1 : f[i] = b
<1>1. n \in Nat /\ n >= 2 /\ f[1] = Super
  BY ListFacts
<1>2. \A b \in F : \E i \in 2 .. n - 1 : f[i] = b
  BY DEF Shaped, Listed
<1>3. \A i \in 2 .. n - 1 : i \in 1 .. n - 1
  BY <1>1
<1>4. 1 \in 1 .. n - 1
  BY <1>1
<1> QED BY <1>1, <1>2, <1>3, <1>4

LEMMA BeforeBlock ==
    ASSUME NEW m, NEW B, NEW F, NEW X, Heaped(m, B, F, X),
           NEW b \in F, NEW q \in F \cup {Super}, q = Super \/ m[q] < m[b]
    PROVE  LET p == Before(m, q, b)
           IN  p \in F \cup {Super} /\ p # b /\ Next(m, p) = b /\ m[p] <= m[b]
<1>1. PICK f, n : Shaped(m, B, F, f, n, X)
  BY DEF Heaped
<1>2. /\ n \in Nat /\ n >= 2 /\ f[1] = Super
      /\ \A i \in 1 .. n - 1 : /\ i \in 1 .. n /\ i + 1 \in 1 .. n
                               /\ f[i] \in F \cup {Super} /\ Next(m, f[i]) = f[i + 1]
      /\ \A i \in 1 .. n : m[f[i]] \in Nat
      /\ \A i, j \in 1 .. n : f[i] = f[j] => i = j
      /\ \A i, j \in 1 .. n : i <= j => m[f[i]] <= m[f[j]]
  <2>1. \A i, j \in 1 .. n : i <= j => m[f[i]] <= m[f[j]]
    BY <1>1 DEF Shaped, Listed
  <2>2. \A i \in 1 .. n : m[f[i]] \in Nat
    BY <1>1, ListFacts, GuardFacts
  <2> QED BY <1>1, <2>1, <2>2, ListFacts
<1>3. PICK h \in 2 .. n - 1 : f[h] = b
  BY <1>1, PlaceOnList
<1>4. PICK j \in 1 .. n - 1 : f[j] = q /\ j < h
  <2>1. CASE q = Super
    BY <1>2, <1>3, <2>1
  <2>2. CASE m[q] < m[b]
    <3>1. PICK j \in 1 .. n - 1 : f[j] = q
      BY <1>1, PlaceOnList
    <3>2. j \in 1 .. n /\ h \in 1 .. n /\ m[f[j]] \in Nat /\ m[f[h]] \in Nat
      BY <1>2, <1>3
    <3>3. ~(h <= j)
      BY <1>2, <1>3, <2>2, <3>1, <3>2
    <3> QED BY <3>1, <3>2, <3>3
  <2> QED BY <2>1, <2>2
<1>5. h - 1 \in j .. n - 1 /\ h - 1 \in 1 .. n - 1 /\ (h - 1) + 1 = h /\ h \in 1 .. n /\ h - 1 # h
      /\ h - 1 <= h
  BY <1>2, <1>3, <1>4
<1>6. Before(m, f[j], f[(h - 1) + 1]) = f[h - 1]
  BY <1>1, <1>4, <1>5, BeforeIs
<1> QED BY <1>2, <1>3, <1>4, <1>5, <1>6

LEMMA BeforeNext ==
    ASSUME NEW m, NEW B, NEW F, NEW X, Heaped(m, B, F, X), NEW b \in F
    PROVE  Before(m, Next(m, Super), Next(m, b)) = b
<1>1. PICK f, n : Shaped(m, B, F, f, n, X)
  BY DEF Heaped
<1>2. /\ n \in Nat /\ n >= 2 /\ f[1] = Super
      /\ \A i \in 1 .. n - 1 : Next(m, f[i]) = f[i + 1]
  BY <1>1, ListFacts
<1>3. PICK k \in 2 .. n - 1 : f[k] = b
  BY <1>1, PlaceOnList
<1>4. 2 \in 1 .. n - 1 /\ 1 \in 1 .. n - 1 /\ k \in 1 .. n - 1
  BY <1>2, <1>3
<1>5. Next(m, Super) = f[2] /\ Next(m, b) = f[k + 1]
  BY <1>2, <1>3, <1>4
<1>6. Before(m, f[2], f[k + 1]) = f[k]
  BY <1>1, <1>4, BeforeIs
<1> QED BY <1>3, <1>5, <1>6

LEMMA TakenBlock ==
    ASSUME NEW m, NEW B, NEW F, NEW X, Heaped(m, B, F, X),
           NEW b \in F, NEW p \in F \cup {Super}, Next(m, p) = b
    PROVE  LET w == SetNext(m, p, Next(m, b))
           IN  /\ Heaped(w, B, F \ {b}, X \cup {b})
               /\ w[0] = m[0] /\ Spared(m, w, B)
<1>1. PICK f, n : Shaped(m, B, F, f, n, X)
  BY DEF Heaped
<1>2. /\ n \in Nat /\ n >= 2 /\ f[1] = Super
      /\ \A i \in 1 .. n - 1 : Next(m, f[i]) = f[i + 1] /\ i \in 1 .. n /\ i + 1 \in 1 .. n
      /\ \A i, j \in 1 .. n : f[i] = f[j] => i = j
  BY <1>1, ListFacts
<1>3. PICK k \in 2 .. n - 1 : f[k] = b
  BY <1>1, PlaceOnList
<1>4. PICK i \in 1 .. n - 1 : f[i] = p
  BY <1>1, PlaceOnList
<1>5. k \in 1 .. n
  BY <1>2, <1>3
<1>6. i + 1 = k
  BY <1>2, <1>3, <1>4, <1>5
<1>7. f[k - 1] = p
  BY <1>4, <1>6
<1> DEFINE w == SetNext(m, p, Next(m, b))
<1>8. /\ Shaped(w, B, F \ {b}, Without(f, n, k), n - 1, X \cup {b})
      /\ w[0] = m[0] /\ Spared(m, w, B)
  <2>1. LET v == SetNext(m, f[k - 1], Next(m, f[k]))
        IN  /\ Shaped(v, B, F \ {f[k]}, Without(f, n, k), n - 1, X \cup {f[k]})
            /\ v[0] = m[0] /\ Spared(m, v, B)
    BY <1>1, <1>3, TakenOff
  <2> QED BY <1>3, <1>7, <2>1
<1> HIDE DEF w
<1>9. Heaped(w, B, F \ {b}, X \cup {b})
  BY <1>8 DEF Heaped
<1> QED BY <1>8, <1>9 DEF w

(* Clearing the next of a block that is off the list. *)
LEMMA ClearedOff ==
    ASSUME NEW m, NEW B, NEW F, NEW X, Heaped(m, B, F, X), NEW b \in B \ F
    PROVE  LET k == SetNext(m, b, 0)
           IN  /\ Heaped(k, B, F, X \ {b})
               /\ k[0] = m[0] /\ Spared(m, k, B)
<1>1. PICK f, n : Shaped(m, B, F, f, n, X)
  BY DEF Heaped
<1> DEFINE w == SetNext(m, b, 0)
           Y == X \ {b}
<1>2. Shaped(w, B, F, f, n, Y) /\ w[0] = m[0] /\ Spared(m, w, B)
  <2>1. 0 \in 0 .. GuardSize
    BY GuardFacts
  <2>2. /\ Shaped(w, B, F, f, n, IF 0 = 0 THEN X \ {b} ELSE X \cup {b})
        /\ w[0] = m[0] /\ Spared(m, w, B)
    BY <1>1, <2>1, NextSetOff
  <2> HIDE DEF w
  <2> QED BY <2>2
<1> HIDE DEF w, Y
<1>3. Heaped(w, B, F, Y)
  BY <1>2 DEF Heaped
<1> QED BY <1>2, <1>3 DEF w, Y

LEMMA Unlinked ==
    ASSUME NEW m, NEW B, NEW F, NEW X, Heaped(m, B, F, X),
           NEW b \in F, NEW p \in F \cup {Super}, Next(m, p) = b
    PROVE  LET w == Unlink(m, p, b)
           IN  /\ Heaped(w, B, F \ {b}, X \ {b})
               /\ w[0] = m[0] /\ Spared(m, w, B)
<1> DEFINE u == SetNext(m, p, Next(m, b))
           w == SetNext(u, b, 0)
<1>1. /\ Heaped(u, B, F \ {b}, X \cup {b})
      /\ u[0] = m[0] /\ Spared(m, u, B)
  BY TakenBlock
<1>2. b \in B \ (F \ {b}) /\ 0 \in 0 .. GuardSize
  BY HeapedFacts, GuardFacts
<1>3. Unlink(m, p, b) = w
  BY DEF Unlink
<1> HIDE DEF u
<1>4. /\ Heaped(w, B, F \ {b}, (X \cup {b}) \ {b})
      /\ w[0] = u[0] /\ Spared(u, w, B)
  <2> DEFINE Y == X \cup {b}
             G == F \ {b}
  <2>1. Heaped(u, B, G, Y) /\ b \in B \ G
    BY <1>1, <1>2
  <2> HIDE DEF Y, G
  <2>2. Heaped(w, B, G, Y \ {b})
    BY <2>1, ClearedOff
  <2>3. w[0] = u[0] /\ Spared(u, w, B)
    BY <2>1, ClearedOff
  <2> HIDE DEF w
  <2> QED BY <2>2, <2>3 DEF Y, G
<1>5. (X \cup {b}) \ {b} = X \ {b}
  OBVIOUS
<1> HIDE DEF w
<1> QED BY <1>1, <1>3, <1>4, <1>5, SparedTwice

LEMMA Inserted ==
    ASSUME NEW m, NEW B, NEW F, NEW X, Heaped(m, B, F, X),
           NEW b \in B \ F, NEW p \in F \cup {Super}, m[p] <= m[b]
    PROVE  LET w == BlockInsert(m, p, b)
           IN  /\ Heaped(w, B, F \cup {b}, X \ {b})
               /\ w[0] = m[0] /\ Spared(m, w, B)
<1>1. PICK f, n : Shaped(m, B, F, f, n, X)
  BY DEF Heaped
<1>2. /\ n \in Nat /\ n >= 2
      /\ \A i \in 1 .. n - 1 : Next(m, f[i]) = f[i + 1] /\ i \in 1 .. n /\ i + 1 \in 1 .. n
      /\ \A i \in 1 .. n : m[f[i]] \in 0 .. GuardSize
  BY <1>1, ListFacts
<1>3. PICK j \in 1 .. n - 1 : f[j] = p
  BY <1>1, PlaceOnList
<1>4. m[b] \in Nat /\ m[b] < GuardSize
  BY <1>1, TileFacts DEF Shaped
<1>5. m[b] \in 0 .. GuardSize
  BY <1>4, GuardFacts
<1>6. PICK k \in j .. n - 1 : /\ LastSmaller(m, f[j], m[b]) = f[k]
                              /\ m[f[k + 1]] >= m[b]
                              /\ \A i \in j + 1 .. k : m[f[i]] < m[b]
  BY <1>1, <1>5, LastSmallerIs
<1>7. k \in 1 .. n - 1
  BY <1>2, <1>3
<1>8. m[f[k]] \in Nat /\ m[f[k + 1]] \in Nat
  BY <1>2, <1>7, GuardFacts
<1>9. m[f[k]] <= m[b] /\ m[b] <= m[f[k + 1]]
  <2>1. CASE k = j
    BY <1>3, <1>4, <1>6, <1>8, <2>1
  <2>2. CASE k # j
    <3>1. k \in j + 1 .. k
      BY <1>3, <1>7, <2>2
    <3> QED BY <1>4, <1>6, <1>8, <3>1
  <2> QED BY <2>1, <2>2
<1> DEFINE w == SetNext(SetNext(m, b, Next(m, f[k])), f[k], b)
<1>10. /\ Shaped(w, B, F \cup {b}, With(f, n, k, b), n + 1, X \ {b})
       /\ w[0] = m[0] /\ Spared(m, w, B)
  BY <1>1, <1>7, <1>9, PutOn
<1>11. BlockInsert(m, p, b) = w
  BY <1>3, <1>6 DEF BlockInsert
<1> HIDE DEF w
<1>12. Heaped(w, B, F \cup {b}, X \ {b})
  BY <1>10 DEF Heaped
<1> QED BY <1>10, <1>11, <1>12

(* The first fit. *)
LEMMA FirstFit ==
    ASSUME NEW m, NEW B, NEW F, NEW X, Heaped(m, B, F, X), NEW s \in 0 .. GuardSize
    PROVE  LET p == LastSmaller(m, Super, s)
           IN  /\ p \in F \cup {Super} /\ Next(m, p) \in F \cup {Guard}
               /\ m[Next(m, p)] >= s
               /\ p = Super \/ m[p] < s
               /\ Next(m, p) = Guard => \A b \in F : m[b] < s
<1>1. PICK f, n : Shaped(m, B, F, f, n, X)
  BY DEF Heaped
<1>2. /\ n \in Nat /\ n >= 2 /\ f[1] = Super /\ f[n] = Guard
      /\ \A i \in 1 .. n - 1 : /\ Next(m, f[i]) = f[i + 1] /\ i \in 1 .. n /\ i + 1 \in 1 .. n
                               /\ f[i] \in F \cup {Super} /\ f[i + 1] \in F \cup {Guard}
      /\ \A i, j \in 1 .. n : f[i] = f[j] => i = j
  BY <1>1, ListFacts
<1>3. 1 \in 1 .. n - 1
  BY <1>2
<1>4. PICK k \in 1 .. n - 1 : /\ LastSmaller(m, Super, s) = f[k]
                              /\ m[f[k + 1]] >= s
                              /\ \A i \in 2 .. k : m[f[i]] < s
  <2>1. \E k \in 1 .. n - 1 : /\ LastSmaller(m, f[1], s) = f[k]
                              /\ m[f[k + 1]] >= s
                              /\ \A i \in 1 + 1 .. k : m[f[i]] < s
    BY <1>1, <1>3, LastSmallerIs
  <2>2. 1 + 1 = 2
    OBVIOUS
  <2> QED BY <1>2, <2>1, <2>2
<1>5. f[k] = Super \/ m[f[k]] < s
  <2>1. CASE k = 1
    BY <1>2, <2>1
  <2>2. CASE k # 1
    <3>1. k \in 2 .. k
      BY <1>2, <2>2
    <3> QED BY <1>4, <3>1
  <2> QED BY <2>1, <2>2
<1>6. ASSUME Next(m, f[k]) = Guard, NEW b \in F PROVE m[b] < s
  <2>1. f[k + 1] = f[n] /\ k + 1 \in 1 .. n /\ n \in 1 .. n
    BY <1>2, <1>6
  <2>2. k + 1 = n
    BY <1>2, <2>1
  <2>3. PICK i \in 2 .. n - 1 : f[i] = b
    BY <1>1, PlaceOnList
  <2>4. i \in 2 .. k
    BY <1>2, <2>2, <2>3
  <2> QED BY <1>4, <2>3, <2>4
<1> QED BY <1>2, <1>4, <1>5, <1>6

-----------------------------------------------------------------------------
(* What else is done to a memory.                                          *)

LEMMA SameList ==
    ASSUME NEW m, NEW k, NEW F, NEW f, NEW n, Listed(m, F, f, n),
           \A b \in F \cup {Super, Guard} : k[b] = m[b],
           \A b \in F \cup {Super} : Next(k, b) = Next(m, b)
    PROVE  Listed(k, F, f, n)
<1>1. /\ n \in Nat /\ n >= 2 /\ f \in [1 .. n -> F \cup {Super, Guard}]
      /\ f[1] = Super /\ \A i \in 2 .. n - 1 : f[i] \in F
      /\ \A i \in 1 .. n - 1 : Next(m, f[i]) = f[i + 1]
      /\ \A i, j \in 1 .. n : i <= j => m[f[i]] <= m[f[j]]
  BY DEF Listed
<1>2. \A i \in 1 .. n : k[f[i]] = m[f[i]]
  BY <1>1
<1>3. \A i \in 1 .. n - 1 : Next(k, f[i]) = f[i + 1]
  <2> SUFFICES ASSUME NEW i \in 1 .. n - 1 PROVE Next(k, f[i]) = f[i + 1]
    OBVIOUS
  <2>1. i = 1 \/ i \in 2 .. n - 1
    BY <1>1
  <2> QED BY <1>1, <2>1
<1>4. \A i, j \in 1 .. n : i <= j => k[f[i]] <= k[f[j]]
  BY <1>1, <1>2
<1> QED BY <1>3, <1>4 DEF Listed

LEMMA SameShape ==
    ASSUME NEW m, NEW B, NEW F, NEW X, Heaped(m, B, F, X),
           NEW k \in [Offsets -> 0 .. GuardSize],
           \A b \in B \cup {Super, Guard} : k[b] = m[b],
           \A b \in B \cup {Super} : k[NextCell(m, b)] = m[NextCell(m, b)]
    PROVE  /\ Heaped(k, B, F, X)
           /\ \A b \in B \cup {Super} : Next(k, b) = Next(m, b)
<1>1. PICK f, n : Shaped(m, B, F, f, n, X)
  BY DEF Heaped
<1>2. Tiles(m, B) /\ F \subseteq B /\ Listed(m, F, f, n)
      /\ \A b \in B \ (F \cup X) : Next(m, b) = 0
  BY <1>1 DEF Shaped
<1>3. /\ Tiles(k, B)
      /\ \A b \in B \cup {Super} : NextCell(k, b) = NextCell(m, b)
  BY <1>2, SameTiles
<1>4. \A b \in B \cup {Super} : Next(k, b) = Next(m, b)
  BY <1>3 DEF Next
<1>5. Listed(k, F, f, n)
  BY <1>2, <1>4, SameList
<1>6. Shaped(k, B, F, f, n, X)
  BY <1>2, <1>3, <1>4, <1>5 DEF Shaped
<1> QED BY <1>4, <1>6 DEF Heaped

LEMMA SixteenBits ==
    ASSUME NEW x \in 0 .. GuardSize
    PROVE  x % 2 ^ 16 = x
<1> DEFINE n == 2 ^ 16
<1>0. n = 65536
  OBVIOUS
<1>1. n = GuardSize + 1
  <2> HIDE DEF n
  <2>1. GuardSize = 65535
    BY SMTT(60) DEF GuardSize
  <2> QED BY <1>0, <2>1, SMTT(60)
<1> HIDE DEF n
<1>2. n \in Nat \ {0} /\ x \in 0 .. n - 1 /\ 0 * n + x = x
  BY <1>1, GuardFacts
<1>3. (0 * n + x) % n = x
  BY <1>2, Remains
<1> QED BY <1>2, <1>3 DEF n

LEMMA AddFreed ==
    ASSUME NEW m, NEW B, NEW F, NEW X, Heaped(m, B, F, X),
           NEW v \in Int, m[0] + v \in 0 .. GuardSize
    PROVE  LET k == AddFree(m, v)
           IN  /\ Heaped(k, B, F, X)
               /\ k[0] = m[0] + v /\ Spared(m, k, B)
               /\ \A b \in B \cup {Super, Guard} : k[b] = m[b]
               /\ \A b \in B \cup {Super} : Next(k, b) = Next(m, b)
<1> DEFINE k == AddFree(m, v)
           x == m[0] + v
<1>1. /\ m \in [Offsets -> 0 .. GuardSize]
      /\ \A b \in B \cup {Super} : /\ b # 0 /\ b \in Places
                                   /\ NextCell(m, b) \in Offsets /\ NextCell(m, b) # 0
      /\ 0 \in Offsets /\ Guard # 0
      /\ \A b \in B \cup {Super, Guard} : b \in Offsets
  <2>1. Tiles(m, B)
    BY HeapedFacts
  <2>2. \A b \in B \cup {Super} : b \in Offsets
    BY <2>1, TileFacts
  <2>3. 0 \in Offsets /\ Guard # 0 /\ Guard \in Offsets
    BY PlacesAreOffsets, FixedPlaces
  <2> QED BY <2>1, <2>2, <2>3, TileFacts
<1>2. x % 2 ^ 16 = x
  BY SixteenBits
<1>3. k = [m EXCEPT ![0] = x]
  BY <1>1, <1>2 DEF AddFree
<1> HIDE DEF k, x
<1>4. x \in 0 .. GuardSize
  BY DEF x
<1>5. k \in [Offsets -> 0 .. GuardSize] /\ k[0] = x /\ \A i \in Offsets : i # 0 => k[i] = m[i]
  BY <1>1, <1>3, <1>4
<1>6. \A b \in B \cup {Super, Guard} : k[b] = m[b]
  BY <1>1, <1>5
<1>7. \A b \in B \cup {Super} : k[NextCell(m, b)] = m[NextCell(m, b)]
  BY <1>1, <1>5
<1>8. /\ Heaped(k, B, F, X)
      /\ \A b \in B \cup {Super} : Next(k, b) = Next(m, b)
  BY <1>5, <1>6, <1>7, SameShape
<1>9. Spared(m, k, B)
  <2> SUFFICES ASSUME NEW b \in B, NEW i \in Offsets, i \in b + 2 .. b + 1 + m[b]
               PROVE  i # 0
    BY <1>5, <1>6 DEF Spared
  <2>1. b \in Nat
    BY <1>1 DEF Places
  <2> QED BY <2>1
<1> QED BY <1>5, <1>6, <1>8, <1>9 DEF k, x

(* A memory of which the cells of a payload are changed. *)
LEMMA PayloadChanged ==
    ASSUME NEW m, NEW B, NEW F, NEW X, Heaped(m, B, F, X),
           NEW k \in [Offsets -> 0 .. GuardSize], NEW b \in B,
           \A i \in Offsets : i \notin b + 2 .. b + 1 + m[b] => k[i] = m[i]
    PROVE  /\ Heaped(k, B, F, X) /\ k[0] = m[0] /\ Spared(m, k, B \ {b})
           /\ \A c \in B \cup {Super, Guard} : k[c] = m[c]
           /\ \A c \in B \cup {Super} : Next(k, c) = Next(m, c)
<1>1. /\ \A c \in B \cup {Super} :
           /\ c \in Nat /\ c \in Offsets /\ m[c] \in Nat
           /\ NextCell(m, c) = c + 2 + m[c] /\ NextCell(m, c) \in Offsets
      /\ \A c, d \in B \cup {Super} : c < d => c + 4 + m[c] <= d
      /\ b + 4 + m[b] <= Guard /\ Guard \in Offsets /\ 0 \in Offsets /\ Guard \in Nat
      /\ \A c \in B : c < Guard
  <2>1. Tiles(m, B)
    BY HeapedFacts
  <2>2. \A c \in B \cup {Super} : RightOf(m, c) = c + 4 + m[c] /\ RightOf(m, c) <= Guard
    BY <2>1, TileFacts
  <2>3. \A c, d \in B \cup {Super} : c < d => RightOf(m, c) <= d
    BY <2>1, TileFacts
  <2>4. \A c \in B \cup {Super} :
           /\ c \in Places /\ c \in Offsets /\ m[c] \in Nat /\ c < Guard
           /\ NextCell(m, c) = c + 2 + m[c] /\ NextCell(m, c) \in Offsets
    BY <2>1, TileFacts
  <2> QED BY <2>2, <2>3, <2>4, PlacesAreOffsets, GuardFacts DEF Places
<1> DEFINE payload == b + 2 .. b + 1 + m[b]
<1>2. b \in Nat /\ m[b] \in Nat
  BY <1>1
<1>3. ASSUME NEW c \in B \cup {Super} PROVE c \notin payload /\ c + 2 + m[c] \notin payload
  <2>1. c \in Nat /\ m[c] \in Nat
    BY <1>1
  <2>2. c < b => c + 4 + m[c] <= b
    BY <1>1
  <2>3. b < c => b + 4 + m[b] <= c
    BY <1>1
  <2> QED BY <1>2, <2>1, <2>2, <2>3
<1>4. Guard \notin payload /\ 0 \notin payload
  <2>1. Guard \in Nat /\ b + 4 + m[b] <= Guard
    BY <1>1
  <2> QED BY <1>2, <2>1
<1> HIDE DEF payload
<1>5. \A i \in Offsets : i \notin payload => k[i] = m[i]
  BY DEF payload
<1>6. \A c \in B \cup {Super, Guard} : k[c] = m[c]
  BY <1>1, <1>3, <1>4, <1>5
<1>7. \A c \in B \cup {Super} : k[NextCell(m, c)] = m[NextCell(m, c)]
  BY <1>1, <1>3, <1>5
<1>8. k[0] = m[0]
  BY <1>1, <1>4, <1>5
<1>9. /\ Heaped(k, B, F, X)
      /\ \A c \in B \cup {Super} : Next(k, c) = Next(m, c)
  BY <1>6, <1>7, SameShape
<1>10. Spared(m, k, B \ {b})
  <2> SUFFICES ASSUME NEW c \in B \ {b}, NEW i \in Offsets, i \in c + 2 .. c + 1 + m[c]
               PROVE  i \notin payload
    BY <1>5, <1>6 DEF Spared
  <2>1. c \in Nat /\ m[c] \in Nat /\ c # b
    BY <1>1
  <2>2. c < b => c + 4 + m[c] <= b
    BY <1>1
  <2>3. b < c => b + 4 + m[b] <= c
    BY <1>1
  <2> QED BY <1>2, <2>1, <2>2, <2>3 DEF payload
<1> QED BY <1>6, <1>8, <1>9, <1>10

(* Cutting a block that is off the list. *)
LEMMA CutInTwo ==
    ASSUME NEW m, NEW B, NEW F, NEW X, Heaped(m, B, F, X),
           NEW b \in B \ F, NEW n \in Sizes \ {0}, m[b] > n + Header
    PROVE  LET rest == m[b] - n - Header
               new  == b + Header + n
               w    == SetSize(SetSize(m, b, n), new, rest)
           IN  /\ new \in Places /\ new \notin B /\ rest \in Sizes \ {0}
               /\ Heaped(w, B \cup {new}, F, X \cup {b, new})
               /\ w[0] = m[0] /\ Spared(m, w, B \ {b})
               /\ w[b] = n /\ w[new] = rest /\ Same(m, w, B \ {b})
<1> DEFINE rest == m[b] - n - Header
           new  == b + Header + n
           u    == SetSize(m, b, n)
           w    == SetSize(u, new, rest)
           end  == RightOf(m, b)
           C    == B \cup {new}
<1>1. PICK f, l : Shaped(m, B, F, f, l, X)
  BY DEF Heaped
<1>2. Tiles(m, B) /\ F \subseteq B /\ Listed(m, F, f, l)
      /\ \A c \in B \ (F \cup X) : Next(m, c) = 0
  BY <1>1 DEF Shaped
<1>3. /\ m \in [Offsets -> 0 .. GuardSize]
      /\ m[Super] = Remainder /\ m[Guard] = GuardSize
      /\ B \subseteq Places \cap (First .. Guard - 1) /\ First \in B
      /\ \A c \in B : m[c] \in Sizes \ {0} /\ RightOf(m, c) \in B \cup {Guard}
      /\ \A c, d \in B : c < d => RightOf(m, c) <= d
      /\ \A c \in (B \cup {Guard}) \ {First} : \E d \in B : RightOf(m, d) = c
  BY <1>2 DEF Tiles
<1>4. \A a, c : RightOf(a, c) = c + 4 + a[c] /\ NextCell(a, c) = c + 2 + a[c]
  BY DEF RightOf, NextCell, Header
<1>5. /\ b \in Places /\ b \in Nat /\ b # 0 /\ b \in Offsets /\ First <= b /\ b < Guard
      /\ m[b] \in Sizes /\ m[b] \in Nat /\ m[b] < GuardSize
      /\ end \in B \cup {Guard} /\ end = b + 4 + m[b] /\ end <= Guard
      /\ n \in Nat /\ n # 0
  <2>1. b \in Places /\ b \in First .. Guard - 1 /\ m[b] \in Sizes
    BY <1>3
  <2>2. b \in Nat /\ m[b] \in Nat /\ n \in Nat /\ b # 0
    BY <2>1, PlaceFacts
  <2> QED BY <1>2, <1>3, <1>4, <2>1, <2>2, TileFacts
<1>6. /\ rest \in Sizes \ {0} /\ rest \in Nat /\ rest = m[b] - n - 4
      /\ new \in Places /\ new \in Nat /\ new = b + 4 + n
      /\ b < new /\ new < end /\ new + 4 + rest = end
  <2>1. Header = 4
    BY DEF Header
  <2>2. rest \in Sizes /\ new \in Places
    BY <1>5, PlaceFacts, SizeFacts
  <2>3. rest = m[b] - n - 4 /\ new = b + 4 + n /\ m[b] > n + 4
    BY <2>1
  <2>4. rest \in Nat /\ rest # 0 /\ new \in Nat
    BY <1>5, <2>3
  <2> HIDE DEF rest, new, end
  <2> QED BY <1>5, <2>2, <2>3, <2>4
<1> HIDE DEF rest, new, end
<1>7. \A c \in B \cup {Super, Guard} : c \in Places /\ c \in Nat /\ c \in Offsets
  <2>1. \A c \in B \cup {Super, Guard} : c \in Places /\ c \in Offsets
    BY <1>2, TileFacts, PlacesAreOffsets, FixedPlaces
  <2> QED BY <2>1 DEF Places
<1>8. \A c \in B : c < b => c + 4 + m[c] <= b
  BY <1>3, <1>4, <1>5
<1>9. \A c \in B : b < c => end <= c
  BY <1>3, <1>5 DEF end
<1>10. new \notin B \cup {Super, Guard}
  <2>1. new \notin B
    BY <1>5, <1>6, <1>7, <1>9
  <2>2. new # Super
    <3>1. First <= b /\ Super < First /\ Super \in Nat /\ First \in Nat
      BY <1>5, FixedPlaces DEF Places
    <3> QED BY <1>5, <1>6, <3>1
  <2>3. new # Guard
    <3>1. end \in Nat /\ Guard \in Nat
      BY <1>5, GuardFacts
    <3> QED BY <1>5, <1>6, <3>1
  <2> QED BY <2>1, <2>2, <2>3
<1>11. new \in Offsets
  <2>1. new < Guard
    <3>1. end \in Nat /\ Guard \in Nat
      BY <1>5, GuardFacts
    <3> QED BY <1>5, <1>6, <3>1
  <2>2. new < MemorySize
    BY <1>6, <2>1, Measures
  <2> QED BY <1>6, <2>2, PlacesAreOffsets
<1>12. n \in 0 .. GuardSize /\ rest \in 0 .. GuardSize
  BY <1>5, <1>6, GuardFacts
<1>13. /\ w \in [Offsets -> 0 .. GuardSize]
       /\ w[b] = n /\ w[new] = rest
       /\ \A i \in Offsets : i # b /\ i # new => w[i] = m[i]
  <2>1. u \in [Offsets -> 0 .. GuardSize] /\ u[b] = n /\ \A i \in Offsets : i # b => u[i] = m[i]
    BY <1>3, <1>5, <1>12 DEF SetSize
  <2> HIDE DEF u
  <2>2. /\ w \in [Offsets -> 0 .. GuardSize] /\ w[new] = rest
        /\ \A i \in Offsets : i # new => w[i] = u[i]
    BY <1>11, <1>12, <2>1 DEF SetSize
  <2> QED BY <1>5, <1>6, <2>1, <2>2
<1> HIDE DEF u, w
<1>14. \A c \in B \cup {Super, Guard} : c # b => w[c] = m[c]
  BY <1>7, <1>10, <1>13
<1>15. b # Super /\ b # Guard
  BY <1>2, EndsOutside
<1>16. w[0] = m[0]
  BY <1>5, <1>6, <1>13, PlacesAreOffsets
<1>17. \A c \in B \cup {Super} : c # b => /\ NextCell(w, c) = NextCell(m, c)
                                          /\ Next(w, c) = Next(m, c)
                                          /\ RightOf(w, c) = RightOf(m, c)
  <2> SUFFICES ASSUME NEW c \in B \cup {Super}, c # b
               PROVE  /\ NextCell(w, c) = NextCell(m, c)
                      /\ Next(w, c) = Next(m, c)
                      /\ RightOf(w, c) = RightOf(m, c)
    OBVIOUS
  <2>1. w[c] = m[c]
    BY <1>14
  <2>2. NextCell(w, c) = NextCell(m, c) /\ RightOf(w, c) = RightOf(m, c)
    BY <1>4, <2>1
  <2>3. NextCell(m, c) \in Offsets \ Places
    BY <1>2, TileFacts
  <2>4. w[NextCell(m, c)] = m[NextCell(m, c)]
    BY <1>5, <1>6, <1>13, <2>3
  <2> QED BY <2>2, <2>4 DEF Next
<1>18. RightOf(w, b) = new /\ RightOf(w, new) = end
  BY <1>4, <1>6, <1>13
<1>19. Tiles(w, C)
  <2>1. w[Super] = Remainder /\ w[Guard] = GuardSize
    BY <1>3, <1>14, <1>15
  <2>2. C \subseteq Places \cap (First .. Guard - 1) /\ First \in C
    <3>1. new \in First .. Guard - 1
      <4>1. end \in Nat /\ Guard \in Nat /\ First \in Nat
        BY <1>5, GuardFacts, FixedPlaces DEF Places
      <4> QED BY <1>5, <1>6, <4>1
    <3> QED BY <1>3, <1>6, <3>1
  <2>3. ASSUME NEW c \in C PROVE w[c] \in Sizes \ {0} /\ RightOf(w, c) \in C \cup {Guard}
    <3>1. CASE c = b
      BY <1>13, <1>18, <3>1
    <3>2. CASE c = new
      BY <1>5, <1>6, <1>13, <1>18, <3>2
    <3>3. CASE c \in B /\ c # b
      BY <1>3, <1>14, <1>17, <3>3
    <3> QED BY <3>1, <3>2, <3>3
  <2>4. ASSUME NEW c \in C, NEW d \in C, c < d PROVE RightOf(w, c) <= d
    <3>1. CASE c \in B /\ c # b /\ d \in B
      BY <1>3, <1>17, <2>4, <3>1
    <3>2. CASE c \in B /\ c # b /\ d = new
      <4>1. c \in Nat /\ m[c] \in Nat /\ ~(end <= c)
        <5>1. c \in Nat /\ m[c] \in Nat
          BY <1>2, <1>7, <3>2, TileFacts
        <5>2. end \in Nat
          BY <1>5
        <5> QED BY <1>6, <2>4, <3>2, <5>1, <5>2
      <4>2. c < b
        BY <1>5, <1>9, <3>2, <4>1
      <4>3. RightOf(w, c) = c + 4 + m[c] /\ c + 4 + m[c] <= b
        BY <1>4, <1>8, <1>17, <3>2, <4>2
      <4> QED BY <1>5, <1>6, <3>2, <4>1, <4>3
    <3>3. CASE c = b /\ d \in B
      <4>1. end <= d /\ end \in Nat /\ d \in Nat
        BY <1>5, <1>7, <1>9, <2>4, <3>3
      <4> QED BY <1>6, <1>18, <3>3, <4>1
    <3>4. CASE c = b /\ d = new
      BY <1>6, <1>18, <3>4
    <3>5. CASE c = new /\ d \in B
      <4>1. d \in Nat /\ b < d
        BY <1>5, <1>6, <1>7, <2>4, <3>5
      <4> QED BY <1>9, <1>18, <3>5, <4>1
    <3>6. CASE c = new /\ d = new
      BY <1>6, <2>4, <3>6
    <3> QED BY <3>1, <3>2, <3>3, <3>4, <3>5, <3>6
  <2>5. ASSUME NEW c \in (C \cup {Guard}) \ {First} PROVE \E d \in C : RightOf(w, d) = c
    <3>1. CASE c = new
      BY <1>18, <3>1
    <3>2. CASE c # new
      <4>1. PICK d \in B : RightOf(m, d) = c
        BY <1>3, <3>2
      <4>2. CASE d = b
        BY <1>18, <4>1, <4>2 DEF end
      <4>3. CASE d # b
        BY <1>17, <4>1, <4>3
      <4> QED BY <4>2, <4>3
    <3> QED BY <3>1, <3>2
  <2> QED BY <1>13, <2>1, <2>2, <2>3, <2>4, <2>5 DEF Tiles
<1>20. Listed(w, F, f, l)
  <2>1. \A c \in F \cup {Super, Guard} : w[c] = m[c]
    BY <1>2, <1>14, <1>15
  <2>2. \A c \in F \cup {Super} : Next(w, c) = Next(m, c)
    BY <1>2, <1>15, <1>17
  <2> QED BY <1>2, <2>1, <2>2, SameList
<1>21. Heaped(w, C, F, X \cup {b, new})
  <2>1. \A c \in C \ (F \cup (X \cup {b, new})) : Next(w, c) = 0
    BY <1>2, <1>17
  <2>2. F \subseteq C
    BY <1>2
  <2>3. Shaped(w, C, F, f, l, X \cup {b, new})
    BY <1>19, <1>20, <2>1, <2>2 DEF Shaped
  <2> QED BY <2>3 DEF Heaped
<1>22. Spared(m, w, B \ {b})
  <2> SUFFICES ASSUME NEW c \in B \ {b}, NEW i \in Offsets, i \in c + 2 .. c + 1 + m[c]
               PROVE  i # b /\ i # new
    BY <1>13, <1>14 DEF Spared
  <2>1. c \in Nat /\ m[c] \in Nat /\ end \in Nat
    BY <1>2, <1>5, <1>7, TileFacts
  <2>2. CASE c < b
    <3>1. c + 4 + m[c] <= b
      BY <1>8, <2>2
    <3> QED BY <1>5, <1>6, <2>1, <3>1
  <2>3. CASE b < c
    <3>1. end <= c
      BY <1>9, <2>3
    <3> QED BY <1>5, <1>6, <2>1, <3>1
  <2> QED BY <1>5, <2>1, <2>2, <2>3
<1>23. Same(m, w, B \ {b})
  BY <1>14 DEF Same
<1> QED BY <1>6, <1>10, <1>13, <1>16, <1>21, <1>22, <1>23 DEF u, w, rest, new, C

(* A block b of v bytes would cover the blocks J to its right.             *)
Absorbs(B, b, J, v) ==
    /\ b + Header + v \in (B \ J) \cup {Guard}
    /\ J = {c \in B : b < c /\ c < b + Header + v}

LEMMA Joined ==
    ASSUME NEW m, NEW B, NEW F, NEW X, Heaped(m, B, F, X),
           NEW b \in B \ F, NEW J, J \subseteq B \ F, NEW v \in Sizes \ {0},
           Absorbs(B, b, J, v)
    PROVE  LET w == SetSize(m, b, v)
           IN  /\ Heaped(w, B \ J, F, X \cup {b})
               /\ w[0] = m[0] /\ Spared(m, w, B \ (J \cup {b}))
               /\ w[b] = v /\ Same(m, w, (B \cup {Super}) \ {b})
<1> DEFINE w   == SetSize(m, b, v)
           end == b + Header + v
           C   == B \ J
<1>1. PICK f, l : Shaped(m, B, F, f, l, X)
  BY DEF Heaped
<1>2. Tiles(m, B) /\ F \subseteq B /\ Listed(m, F, f, l)
      /\ \A c \in B \ (F \cup X) : Next(m, c) = 0
  BY <1>1 DEF Shaped
<1>3. /\ m \in [Offsets -> 0 .. GuardSize]
      /\ m[Super] = Remainder /\ m[Guard] = GuardSize
      /\ B \subseteq Places \cap (First .. Guard - 1) /\ First \in B
      /\ \A c \in B : m[c] \in Sizes \ {0} /\ RightOf(m, c) \in B \cup {Guard}
      /\ \A c, d \in B : c < d => RightOf(m, c) <= d
      /\ \A c \in (B \cup {Guard}) \ {First} : \E d \in B : RightOf(m, d) = c
  BY <1>2 DEF Tiles
<1>4. \A a, c : RightOf(a, c) = c + 4 + a[c] /\ NextCell(a, c) = c + 2 + a[c]
  BY DEF RightOf, NextCell, Header
<1>5. \A c \in B \cup {Super, Guard} : c \in Places /\ c \in Nat /\ c \in Offsets
  <2>1. \A c \in B \cup {Super, Guard} : c \in Places /\ c \in Offsets
    BY <1>2, TileFacts, PlacesAreOffsets, FixedPlaces
  <2> QED BY <2>1 DEF Places
<1>6. /\ b \in Nat /\ b # 0 /\ b \in Offsets /\ b \in Places
      /\ m[b] \in Nat /\ RightOf(m, b) = b + 4 + m[b]
      /\ v \in Nat /\ v # 0 /\ end = b + 4 + v /\ end \in Nat /\ end <= Guard /\ Guard \in Nat
  <2>1. b \in Places /\ b \in Nat /\ b # 0 /\ b \in Offsets /\ m[b] \in Nat
    BY <1>2, <1>5, TileFacts
  <2>2. v \in Nat /\ v # 0
    BY <2>1, PlaceFacts
  <2>3. end \in B \cup {Guard} /\ end = b + 4 + v
    BY DEF Header, Absorbs
  <2>4. end <= Guard /\ Guard \in Nat /\ end \in Nat
    <3>1. \A c \in B : c \in First .. Guard - 1 /\ c \in Nat
      BY <1>3, <1>5
    <3> QED BY <2>3, <3>1, GuardFacts
  <2> QED BY <1>4, <2>1, <2>2, <2>3, <2>4
<1>7. \A c \in B : c \in J <=> b < c /\ c < end
  BY DEF Absorbs
<1>8. end \in C \cup {Guard}
  BY DEF Absorbs
<1> HIDE DEF end
<1>9. v \in 0 .. GuardSize
  <2>1. v <= end
    BY <1>6
  <2> QED BY <1>6, <2>1, GuardFacts
<1>10. /\ w \in [Offsets -> 0 .. GuardSize] /\ w[b] = v
       /\ \A i \in Offsets : i # b => w[i] = m[i]
  BY <1>3, <1>6, <1>9 DEF SetSize
<1> HIDE DEF w
<1>11. \A c \in B \cup {Super, Guard} : c # b => w[c] = m[c]
  BY <1>5, <1>10
<1>12. b # Super /\ b # Guard
  BY <1>2, EndsOutside
<1>13. w[0] = m[0]
  BY <1>6, <1>10, PlacesAreOffsets
<1>14. \A c \in B \cup {Super} : c # b => /\ NextCell(w, c) = NextCell(m, c)
                                          /\ Next(w, c) = Next(m, c)
                                          /\ RightOf(w, c) = RightOf(m, c)
  <2> SUFFICES ASSUME NEW c \in B \cup {Super}, c # b
               PROVE  /\ NextCell(w, c) = NextCell(m, c)
                      /\ Next(w, c) = Next(m, c)
                      /\ RightOf(w, c) = RightOf(m, c)
    OBVIOUS
  <2>1. w[c] = m[c]
    BY <1>11
  <2>2. NextCell(w, c) = NextCell(m, c) /\ RightOf(w, c) = RightOf(m, c)
    BY <1>4, <2>1
  <2>3. NextCell(m, c) \in Offsets \ Places
    BY <1>2, TileFacts
  <2>4. w[NextCell(m, c)] = m[NextCell(m, c)]
    BY <1>6, <1>10, <2>3
  <2> QED BY <2>2, <2>4 DEF Next
<1>15. RightOf(w, b) = end
  BY <1>4, <1>6, <1>10
(* What ends after b begins ends no earlier than the block that b becomes. *)
<1>16. ASSUME NEW c \in B, c < b PROVE RightOf(m, c) <= b
  BY <1>3, <1>16
<1>17. b \notin J /\ First \in C
  <2>1. b \notin J
    BY <1>6, <1>7
  <2>2. First \notin J
    <3>1. First <= b /\ First \in Nat
      BY <1>3, FixedPlaces DEF Places
    <3> QED BY <1>3, <1>6, <1>7, <3>1
  <2> QED BY <1>3, <2>1, <2>2
<1>18. Tiles(w, C)
  <2>1. w[Super] = Remainder /\ w[Guard] = GuardSize
    BY <1>3, <1>11, <1>12
  <2>2. C \subseteq Places \cap (First .. Guard - 1)
    BY <1>3
  <2>3. ASSUME NEW c \in C PROVE w[c] \in Sizes \ {0} /\ RightOf(w, c) \in C \cup {Guard}
    <3>1. CASE c = b
      BY <1>8, <1>10, <1>15, <3>1
    <3>2. CASE c # b
      <4>1. w[c] = m[c] /\ RightOf(w, c) = RightOf(m, c)
        BY <1>11, <1>14, <3>2
      <4>2. m[c] \in Sizes \ {0} /\ RightOf(m, c) \in B \cup {Guard}
        BY <1>3
      <4>3. RightOf(m, c) \notin J
        <5> SUFFICES ASSUME RightOf(m, c) \in J PROVE FALSE
          OBVIOUS
        <5>1. RightOf(m, c) \in Nat /\ b < RightOf(m, c) /\ RightOf(m, c) < end /\ c \in Nat
          BY <1>5, <1>7
        <5>2. CASE c < b
          <6>1. RightOf(m, c) <= b
            BY <1>16, <5>2
          <6> QED BY <1>6, <5>1, <6>1
        <5>3. CASE b < c
          <6>1. c < RightOf(m, c)
            <7>1. m[c] \in Nat
              BY <1>2, TileFacts
            <7> QED BY <1>4, <5>1, <7>1
          <6>2. c < end
            BY <1>6, <5>1, <6>1
          <6> QED BY <1>7, <5>3, <6>2
        <5> QED BY <1>6, <3>2, <5>1, <5>2, <5>3
      <4> QED BY <4>1, <4>2, <4>3
    <3> QED BY <3>1, <3>2
  <2>4. ASSUME NEW c \in C, NEW d \in C, c < d PROVE RightOf(w, c) <= d
    <3>1. CASE c = b
      <4>1. d \in Nat /\ ~(d < end)
        BY <1>5, <1>7, <2>4, <3>1
      <4> QED BY <1>6, <1>15, <3>1, <4>1
    <3>2. CASE c # b
      BY <1>3, <1>14, <2>4, <3>2
    <3> QED BY <3>1, <3>2
  <2>5. ASSUME NEW c \in (C \cup {Guard}) \ {First} PROVE \E d \in C : RightOf(w, d) = c
    <3>1. PICK a \in B : RightOf(m, a) = c
      BY <1>3
    <3>2. CASE a # b /\ a \notin J
      BY <1>14, <3>1, <3>2
    <3>3. CASE a = b \/ a \in J
      <4>1. a \in Nat /\ m[a] \in Nat /\ c = a + 4 + m[a] /\ c \in Nat /\ b <= a
        <5>1. a \in Nat /\ m[a] \in Nat
          BY <1>2, <1>5, TileFacts
        <5>2. c = a + 4 + m[a]
          BY <1>4, <3>1
        <5>3. b <= a
          BY <1>6, <1>7, <3>3, <5>1
        <5> QED BY <5>1, <5>2, <5>3
      <4>2. b < c
        BY <1>6, <4>1
      <4>3. end <= c
        <5>1. CASE c \in B
          <6>1. c \notin J
            BY <1>2, <5>1, EndsOutside
          <6>2. ~(c < end)
            BY <1>7, <4>2, <5>1, <6>1
          <6> QED BY <1>6, <4>1, <6>2
        <5>2. CASE c = Guard
          BY <1>6, <5>2
        <5> QED BY <5>1, <5>2
      <4>4. c <= end
        <5>1. a < end
          BY <1>6, <1>7, <3>3
        <5>2. CASE end = Guard
          BY <1>2, <3>1, <5>2, TileFacts
        <5>3. CASE end \in B
          BY <1>3, <3>1, <5>1, <5>3
        <5> QED BY <1>8, <5>2, <5>3
      <4>5. c = end
        BY <1>6, <4>1, <4>3, <4>4
      <4> QED BY <1>15, <1>17, <4>5
    <3> QED BY <3>2, <3>3
  <2> QED BY <1>10, <1>17, <2>1, <2>2, <2>3, <2>4, <2>5 DEF Tiles
<1>19. Listed(w, F, f, l)
  <2>1. \A c \in F \cup {Super, Guard} : w[c] = m[c]
    BY <1>2, <1>11, <1>12
  <2>2. \A c \in F \cup {Super} : Next(w, c) = Next(m, c)
    BY <1>2, <1>12, <1>14
  <2> QED BY <1>2, <2>1, <2>2, SameList
<1>20. Heaped(w, C, F, X \cup {b})
  <2>1. \A c \in C \ (F \cup (X \cup {b})) : Next(w, c) = 0
    BY <1>2, <1>14
  <2>2. F \subseteq C
    BY <1>2
  <2>3. Shaped(w, C, F, f, l, X \cup {b})
    BY <1>18, <1>19, <2>1, <2>2 DEF Shaped
  <2> QED BY <2>3 DEF Heaped
<1>21. Spared(m, w, B \ (J \cup {b}))
  <2> SUFFICES ASSUME NEW c \in B \ {b}, NEW i \in Offsets, i \in c + 2 .. c + 1 + m[c]
               PROVE  i # b
    BY <1>10, <1>11 DEF Spared
  <2>1. c \in Nat /\ m[c] \in Nat
    BY <1>2, <1>5, TileFacts
  <2>2. CASE c < b
    <3>1. c + 4 + m[c] <= b
      BY <1>4, <1>16, <2>2
    <3> QED BY <1>6, <2>1, <3>1
  <2>3. CASE b < c
    BY <1>6, <2>1, <2>3
  <2> QED BY <1>6, <2>1, <2>2, <2>3
<1>22. Same(m, w, (B \cup {Super}) \ {b})
  BY <1>11 DEF Same
<1> QED BY <1>10, <1>13, <1>20, <1>21, <1>22 DEF w, end, C

-----------------------------------------------------------------------------
(* Sums of sizes.                                                          *)

Sums(sum, m, S) ==
    /\ sum \in [Nat -> Nat] /\ sum[0] = 0
    /\ \A i \in Nat : sum[i + 1] = sum[i] + (IF i \in S THEN m[i] ELSE 0)

LEMMA SumIs ==
    ASSUME NEW m, NEW S, \A i \in S : m[i] \in Nat
    PROVE  \E sum : Sums(sum, m, S) /\ TotalSize(m, S) = sum[MemorySize]
<1> DEFINE more(i) == IF i \in S THEN m[i] ELSE 0
           step == [i \in Nat |-> [x \in Nat |-> x + more(i)]]
<1>1. \A i \in Nat : more(i) \in Nat
  OBVIOUS
<1> HIDE DEF more
<1>2. step \in [Nat -> [Nat -> Nat]] /\ \A i, x \in Nat : step[i][x] = x + more(i)
  BY <1>1
<1> HIDE DEF step
<1>3. PICK h \in [Nat -> Nat] : Unfolds(h, 0, step)
  BY <1>2, Recurs
<1>4. ASSUME NEW i \in Nat PROVE h[i] = IF i = 0 THEN 0 ELSE h[i - 1] + more(i - 1)
  <2>1. i # 0 => i - 1 \in Nat /\ h[i - 1] \in Nat
    BY <1>3
  <2> QED BY <1>2, <1>3, <2>1 DEF Unfolds
<1>5. h = [i \in Nat |-> IF i = 0 THEN 0 ELSE h[i - 1] + more(i - 1)]
  BY <1>3, <1>4
<1>6. h = [i \in Nat |-> IF i = 0 THEN 0 ELSE h[i - 1] + (IF i - 1 \in S THEN m[i - 1] ELSE 0)]
  BY <1>5 DEF more
<1> DEFINE c == CHOOSE s : s = [i \in Nat |-> IF i = 0 THEN 0
                                ELSE s[i - 1] + (IF i - 1 \in S THEN m[i - 1] ELSE 0)]
<1>7. c = [i \in Nat |-> IF i = 0 THEN 0 ELSE c[i - 1] + (IF i - 1 \in S THEN m[i - 1] ELSE 0)]
  BY <1>6
<1>8. TotalSize(m, S) = c[MemorySize]
  BY DEF TotalSize
<1> HIDE DEF c
<1>9. c = [i \in Nat |-> IF i = 0 THEN 0 ELSE c[i - 1] + more(i - 1)]
  BY <1>7 DEF more
<1>10. ASSUME NEW i \in Nat
       PROVE  h[i + 1] = h[i] + more(i) /\ c[i + 1] = c[i] + more(i)
  <2>1. i + 1 \in Nat /\ i + 1 # 0 /\ (i + 1) - 1 = i
    OBVIOUS
  <2> QED BY <1>4, <1>9, <2>1
<1>11. h[0] = 0 /\ c[0] = 0
  BY <1>4, <1>9
<1> DEFINE G == {i \in Nat : c[i] = h[i]}
<1>12. Nat \subseteq G
  <2>1. 0 \in G
    BY <1>11
  <2>2. \A i \in Nat : i \in G => i + 1 \in G
    BY <1>10
  <2> HIDE DEF G
  <2> QED BY <2>1, <2>2, SetInduction
<1>13. c[MemorySize] = h[MemorySize]
  <2>1. MemorySize \in Nat
    BY Measures
  <2> QED BY <1>12, <2>1
<1>14. Sums(h, m, S)
  BY <1>3, <1>10, <1>11 DEF Sums, more
<1> QED BY <1>8, <1>13, <1>14

LEMMA SumSame ==
    ASSUME NEW m, NEW k, NEW S, \A i \in S : m[i] \in Nat /\ k[i] = m[i]
    PROVE  TotalSize(k, S) = TotalSize(m, S)
<1>1. PICK sum : Sums(sum, m, S) /\ TotalSize(m, S) = sum[MemorySize]
  BY SumIs
<1>2. PICK tum : Sums(tum, k, S) /\ TotalSize(k, S) = tum[MemorySize]
  BY SumIs
<1> DEFINE G == {i \in Nat : sum[i] = tum[i]}
<1>3. 0 \in G
  BY <1>1, <1>2 DEF Sums
<1>4. ASSUME NEW i \in Nat, i \in G PROVE i + 1 \in G
  <2>1. /\ sum[i + 1] = sum[i] + (IF i \in S THEN m[i] ELSE 0)
        /\ tum[i + 1] = tum[i] + (IF i \in S THEN k[i] ELSE 0)
    BY <1>1, <1>2 DEF Sums
  <2>2. (IF i \in S THEN m[i] ELSE 0) = (IF i \in S THEN k[i] ELSE 0)
    OBVIOUS
  <2>3. sum[i] = tum[i]
    BY <1>4
  <2> QED BY <2>1, <2>2, <2>3
<1> HIDE DEF G
<1>5. Nat \subseteq G
  BY <1>3, <1>4, SetInduction
<1>6. MemorySize \in Nat
  BY Measures
<1> QED BY <1>1, <1>2, <1>5, <1>6 DEF G

LEMMA SumMore ==
    ASSUME NEW m, NEW S, \A i \in S : m[i] \in Nat,
           NEW b \in Nat, b < MemorySize, b \notin S, m[b] \in Nat
    PROVE  TotalSize(m, S \cup {b}) = TotalSize(m, S) + m[b]
<1> DEFINE T == S \cup {b}
<1>1. PICK sum : Sums(sum, m, S) /\ TotalSize(m, S) = sum[MemorySize]
  BY SumIs
<1>2. PICK tum : Sums(tum, m, T) /\ TotalSize(m, T) = tum[MemorySize]
  <2>1. \A i \in T : m[i] \in Nat
    OBVIOUS
  <2> HIDE DEF T
  <2> QED BY <2>1, SumIs
<1>3. \A i \in Nat : i \in T <=> i \in S \/ i = b
  OBVIOUS
<1> HIDE DEF T
<1> DEFINE G == {i \in Nat : tum[i] = sum[i] + IF b < i THEN m[b] ELSE 0}
<1>4. 0 \in G
  BY <1>1, <1>2 DEF Sums
<1>5. ASSUME NEW i \in Nat, i \in G PROVE i + 1 \in G
  <2>1. /\ sum[i] \in Nat /\ sum[i + 1] = sum[i] + (IF i \in S THEN m[i] ELSE 0)
        /\ tum[i + 1] = tum[i] + (IF i \in T THEN m[i] ELSE 0)
        /\ tum[i] = sum[i] + IF b < i THEN m[b] ELSE 0
    BY <1>1, <1>2, <1>5 DEF Sums
  <2>2. CASE i = b
    BY <1>3, <2>1, <2>2
  <2>3. CASE i # b
    <3>1. i \in T <=> i \in S
      BY <1>3, <2>3
    <3>2. b < i <=> b < i + 1
      BY <2>3
    <3>3. i \in S => m[i] \in Nat
      OBVIOUS
    <3> QED BY <2>1, <3>1, <3>2, <3>3
  <2> QED BY <2>2, <2>3
<1> HIDE DEF G
<1>6. Nat \subseteq G
  BY <1>4, <1>5, SetInduction
<1>7. MemorySize \in Nat
  BY Measures
<1>8. tum[MemorySize] = sum[MemorySize] + m[b]
  BY <1>6, <1>7 DEF G
<1> QED BY <1>1, <1>2, <1>8 DEF T

(* All blocks together are smaller than the array. *)
LEMMA SumBound ==
    ASSUME NEW m, NEW B, Tiles(m, B), NEW S, S \subseteq B
    PROVE  TotalSize(m, S) \in Nat /\ TotalSize(m, S) <= Guard
<1>1. \A b \in S : /\ b \in Nat /\ m[b] \in Nat /\ b + 4 + m[b] <= Guard
                   /\ \A c \in S : b < c => b + 4 + m[b] <= c
  <2>1. \A b \in B : /\ b \in Places /\ m[b] \in Nat /\ RightOf(m, b) = b + 4 + m[b]
                     /\ RightOf(m, b) <= Guard
                     /\ \A c \in B : b < c => RightOf(m, b) <= c
    BY TileFacts
  <2> QED BY <2>1 DEF Places
<1>2. PICK sum : Sums(sum, m, S) /\ TotalSize(m, S) = sum[MemorySize]
  BY <1>1, SumIs
<1>3. sum \in [Nat -> Nat] /\ sum[0] = 0
      /\ \A i \in Nat : sum[i + 1] = sum[i] + (IF i \in S THEN m[i] ELSE 0)
  BY <1>2 DEF Sums
<1> DEFINE Past(a, e) == \A b \in S : b < a => b + 4 + m[b] <= e
           G == {a \in Nat : \A e \in Nat : Past(a, e) => sum[a] <= e}
<1>4. 0 \in G
  BY <1>3
<1>5. ASSUME NEW a \in Nat, a \in G PROVE a + 1 \in G
  <2> SUFFICES ASSUME NEW e \in Nat, Past(a + 1, e) PROVE sum[a + 1] <= e
    OBVIOUS
  <2>1. \A b \in S : b < a => b + 4 + m[b] <= e
    BY <1>1
  <2>2. CASE a \in S
    <3>1. Past(a, a)
      BY <1>1, <2>2
    <3>2. sum[a] <= a /\ sum[a] \in Nat
      BY <1>3, <1>5, <3>1
    <3>3. a + 4 + m[a] <= e /\ m[a] \in Nat
      BY <1>1, <2>2
    <3>4. sum[a + 1] = sum[a] + m[a]
      BY <1>3, <2>2
    <3> HIDE DEF Past, G
    <3> QED BY <3>2, <3>3, <3>4
  <2>3. CASE a \notin S
    <3>1. sum[a] <= e
      BY <1>5, <2>1
    <3>2. sum[a + 1] = sum[a] /\ sum[a] \in Nat
      BY <1>3, <2>3
    <3> QED BY <3>1, <3>2
  <2> QED BY <2>2, <2>3
<1> HIDE DEF G
<1>6. Nat \subseteq G
  BY <1>4, <1>5, SetInduction
<1>7. MemorySize \in Nat /\ Guard \in Nat
  BY Measures, GuardFacts
<1>8. Past(MemorySize, Guard)
  BY <1>1
<1>9. sum[MemorySize] <= Guard
  BY <1>6, <1>7, <1>8 DEF G
<1> QED BY <1>2, <1>3, <1>7, <1>9

-----------------------------------------------------------------------------
(* A memory in which everything is right between two calls.                *)
Kept(m, B, F) ==
    /\ Heaped(m, B, F, {}) /\ Apart(m, F)
    /\ m[0] = TotalSize(m, F)

LEMMA HeapedLess ==
    ASSUME NEW m, NEW B, NEW F, NEW X, Heaped(m, B, F, X), NEW Y, X \cap B \subseteq Y
    PROVE  Heaped(m, B, F, Y)
<1>1. PICK f, n : Shaped(m, B, F, f, n, X)
  BY DEF Heaped
<1>2. \A b \in B \ (F \cup Y) : b \in B \ (F \cup X)
  OBVIOUS
<1>3. Shaped(m, B, F, f, n, Y)
  BY <1>1, <1>2 DEF Shaped
<1> QED BY <1>3 DEF Heaped

LEMMA RoomInTheCell == Guard + 8 \in Nat /\ Guard + 8 < GuardSize
BY FixedPlaces, Numbers DEF Places

(* The functions that look at a neighbour find out whether it is free.     *)
LEMMA FreeIs ==
    ASSUME NEW m, NEW B, NEW F, Heaped(m, B, F, {}), NEW b \in B \cup {Guard}
    PROVE  IsFree(m, b) <=> b \in F
<1>1. /\ Tiles(m, B) /\ F \subseteq B
      /\ \A c \in B \ (F \cup {}) : Next(m, c) = 0
      /\ \A c \in F : Next(m, c) \in F \cup {Guard}
  BY HeapedFacts
<1>2. \A c \in B : m[c] # GuardSize /\ c # 0
  <2>1. \A c \in B : m[c] \in Nat /\ m[c] < GuardSize /\ c # 0
    BY <1>1, TileFacts
  <2> QED BY <2>1, GuardFacts
<1>3. m[Guard] = GuardSize /\ Guard # 0 /\ Guard \notin F
  <2>1. m[Guard] = GuardSize
    BY <1>1 DEF Tiles
  <2>2. Guard # 0
    BY PlacesAreOffsets, FixedPlaces
  <2> QED BY <1>1, <2>1, <2>2, EndsOutside
<1> QED BY <1>1, <1>2, <1>3 DEF IsFree

LEMMA LeftFreeIs ==
    ASSUME NEW m, NEW B, NEW F, Heaped(m, B, F, {}), NEW b \in B
    PROVE  /\ IsLeftFree(m, b) => \E l \in F : RightOf(m, l) = b /\ m[b - 2] = Next(m, l)
           /\ ~IsLeftFree(m, b) => \A l \in F : RightOf(m, l) # b
<1>1. /\ Tiles(m, B) /\ F \subseteq B
      /\ \A c \in B \ (F \cup {}) : Next(m, c) = 0
      /\ \A c \in F : Next(m, c) \in F \cup {Guard}
  BY HeapedFacts
<1>2. \A c \in (B \cup {Guard}) \ {First} : \E d \in B : RightOf(m, d) = c
  BY <1>1 DEF Tiles
<1>3. ASSUME NEW l \in B, RightOf(m, l) = b PROVE m[b - 2] = Next(m, l)
  <2>1. l \in Places /\ m[l] \in Nat /\ b = l + 4 + m[l] /\ NextCell(m, l) = l + 2 + m[l]
    BY <1>1, <1>3, TileFacts
  <2>2. b - 2 = NextCell(m, l)
    BY <2>1 DEF Places
  <2> QED BY <2>2 DEF Next
<1>4. ASSUME IsLeftFree(m, b)
      PROVE  \E l \in F : RightOf(m, l) = b /\ m[b - 2] = Next(m, l)
  <2>1. b # First /\ m[b - 2] # 0
    BY <1>4 DEF IsLeftFree
  <2>2. PICK l \in B : RightOf(m, l) = b
    BY <1>2, <2>1
  <2>3. l \in F
    BY <1>1, <1>3, <2>1, <2>2
  <2> QED BY <1>3, <2>2, <2>3
<1>5. ASSUME ~IsLeftFree(m, b), NEW l \in F, RightOf(m, l) = b PROVE FALSE
  <2>1. m[b - 2] = Next(m, l) /\ Next(m, l) \in F \cup {Guard}
    BY <1>1, <1>3, <1>5
  <2>2. \A c \in F \cup {Guard} : c # 0
    <3>1. \A c \in B : c # 0
      BY <1>1, TileFacts
    <3>2. Guard # 0
      BY PlacesAreOffsets, FixedPlaces
    <3> QED BY <1>1, <3>1, <3>2
  <2>3. b # First
    <3>1. /\ l \in Nat /\ m[l] \in Nat /\ b = l + 4 + m[l] /\ First <= l /\ First \in Nat
      <4>1. l \in B /\ l \in Places /\ l \in First .. Guard - 1 /\ m[l] \in Nat /\ b = l + 4 + m[l]
        BY <1>1, <1>5, TileFacts
      <4> QED BY <4>1, FixedPlaces DEF Places
    <3> QED BY <3>1
  <2> QED BY <1>5, <2>1, <2>2, <2>3 DEF IsLeftFree
<1> QED BY <1>4, <1>5

(* A block that is off the list is handed out. *)
LEMMA HandedOut ==
    ASSUME NEW m, NEW B, NEW F, NEW b \in B \ F, Heaped(m, B, F, {b}),
           Apart(m, F), m[0] = TotalSize(m, F) + m[b],
           NEW s \in Nat, s <= m[b]
    PROVE  LET w == Zeroed(SetNext(AddFree(m, -m[b]), b, 0), b, s)
           IN  /\ Kept(w, B, F) /\ Spared(m, w, B \ {b}) /\ w[b] = m[b]
               /\ Cleared(w, b, s)
<1> DEFINE u == AddFree(m, -m[b])
           v == SetNext(u, b, 0)
           w == Zeroed(v, b, s)
<1>1. Tiles(m, B) /\ F \subseteq B
  BY HeapedFacts
<1>2. /\ TotalSize(m, F) \in Nat /\ TotalSize(m, F) <= Guard
      /\ \A c \in B : m[c] \in Nat
  BY <1>1, SumBound, TileFacts
<1>3. -m[b] \in Int /\ m[0] + (-m[b]) = TotalSize(m, F) /\ m[0] + (-m[b]) \in 0 .. GuardSize
  BY <1>2, GuardFacts
<1>4. /\ Heaped(u, B, F, {b}) /\ u[0] = TotalSize(m, F) /\ Spared(m, u, B)
      /\ \A c \in B \cup {Super, Guard} : u[c] = m[c]
  BY <1>3, AddFreed
<1> HIDE DEF u
<1>5. /\ Heaped(v, B, F, {}) /\ v[0] = u[0] /\ Spared(u, v, B)
  <2>1. Heaped(v, B, F, {b} \ {b})
    BY <1>4, ClearedOff
  <2>2. v[0] = u[0] /\ Spared(u, v, B)
    BY <1>4, ClearedOff
  <2>3. {b} \ {b} = {}
    OBVIOUS
  <2> HIDE DEF v
  <2> QED BY <2>1, <2>2, <2>3
<1>6. v[b] = m[b]
  BY <1>4, <1>5 DEF Spared
<1>7. v \in [Offsets -> 0 .. GuardSize]
  BY <1>5, HeapedFacts, TileFacts
<1> HIDE DEF v
<1>8. \A i \in Offsets : w[i] = IF i \in b + 2 .. b + 1 + s THEN 0 ELSE v[i]
  BY DEF Zeroed
<1>9. w \in [Offsets -> 0 .. GuardSize]
  <2>1. 0 \in 0 .. GuardSize
    BY GuardFacts
  <2> QED BY <1>7, <2>1 DEF Zeroed
<1> HIDE DEF w
<1>10. \A i \in Offsets : i \notin b + 2 .. b + 1 + v[b] => w[i] = v[i]
  <2>1. b \in Nat /\ v[b] \in Nat /\ s <= v[b]
    BY <1>1, <1>2, <1>6, TileFacts DEF Places
  <2>2. \A i : i \in b + 2 .. b + 1 + s => i \in b + 2 .. b + 1 + v[b]
    BY <2>1
  <2> QED BY <1>8, <2>2
<1>11. /\ Heaped(w, B, F, {}) /\ w[0] = v[0] /\ Spared(v, w, B \ {b})
       /\ \A c \in B \cup {Super, Guard} : w[c] = v[c]
  BY <1>5, <1>9, <1>10, PayloadChanged
<1>12. Spared(m, w, B \ {b})
  <2>1. Spared(m, v, B)
    BY <1>4, <1>5, SparedTwice
  <2>2. Spared(m, v, B \ {b})
    BY <2>1, SparedFewer
  <2> QED BY <1>11, <2>2, SparedTwice
<1>13. \A c \in B : w[c] = m[c]
  BY <1>4, <1>5, <1>11 DEF Spared
<1>14. TotalSize(w, F) = TotalSize(m, F)
  BY <1>1, <1>2, <1>13, SumSame
<1>15. \A c \in F : RightOf(w, c) = RightOf(m, c)
  BY <1>1, <1>13 DEF RightOf
<1>16. Kept(w, B, F)
  BY <1>4, <1>5, <1>11, <1>14, <1>15 DEF Kept, Apart, NoneLeads
<1>17. Cleared(w, b, s)
  BY <1>8 DEF Cleared
<1> QED BY <1>12, <1>13, <1>16, <1>17 DEF w, v, u

(* A block that is off the list is put back. *)
LEMMA PutBack ==
    ASSUME NEW m, NEW B, NEW F, NEW X, NEW b \in B \ F, Heaped(m, B, F, X),
           X \cap B \subseteq {b},
           NEW p \in F \cup {Super}, m[p] <= m[b],
           Apart(m, F \cup {b}),
           m[0] = TotalSize(m, F) + m[b]
    PROVE  LET w == BlockInsert(m, p, b)
           IN  Kept(w, B, F \cup {b}) /\ Spared(m, w, B)
<1> DEFINE w == BlockInsert(m, p, b)
           G == F \cup {b}
<1>1. Tiles(m, B) /\ F \subseteq B
  BY HeapedFacts
<1>2. /\ Heaped(w, B, G, X \ {b})
      /\ w[0] = m[0] /\ Spared(m, w, B)
  BY Inserted
<1> HIDE DEF w
<1>3. Heaped(w, B, G, {})
  <2>1. (X \ {b}) \cap B \subseteq {}
    OBVIOUS
  <2> HIDE DEF G
  <2> QED BY <1>2, <2>1, HeapedLess
<1>4. \A c \in B : w[c] = m[c] /\ m[c] \in Nat /\ RightOf(w, c) = RightOf(m, c)
  <2>1. \A c \in B : w[c] = m[c]
    BY <1>2 DEF Spared
  <2> QED BY <1>1, <2>1, TileFacts DEF RightOf
<1>6. TotalSize(w, G) = TotalSize(m, F) + m[b]
  <2>1. b \in Nat /\ b < MemorySize
    <3>1. b \in Places /\ b < Guard
      BY <1>1, TileFacts
    <3> QED BY <3>1, Measures DEF Places
  <2>2. TotalSize(m, G) = TotalSize(m, F) + m[b]
    BY <1>1, <1>4, <2>1, SumMore
  <2>3. TotalSize(w, G) = TotalSize(m, G)
    <3>1. \A c \in G : m[c] \in Nat /\ w[c] = m[c]
      BY <1>1, <1>4
    <3> HIDE DEF G
    <3> QED BY <3>1, SumSame
  <2> QED BY <2>2, <2>3
<1>7. Apart(w, G)
  BY <1>1, <1>4 DEF Apart, NoneLeads
<1> QED BY <1>2, <1>3, <1>6, <1>7 DEF Kept, w

-----------------------------------------------------------------------------
(* calloc().                                                               *)

(* What is left of the first fit once it has been cut, if it is. *)
CallocFit(m, s) ==
    LET prev == LastSmaller(m, Super, s)
        b    == Next(m, prev)
        off  == SetNext(m, prev, Next(m, b))
    IN  IF off[b] > s + Header THEN Split(off, prev, b, s) ELSE off

CallocMemory(m, s) ==
    LET b == Next(m, LastSmaller(m, Super, s))
    IN  Zeroed(SetNext(AddFree(CallocFit(m, s), -CallocFit(m, s)[b]), b, 0), b, s)

(* The first fit is off the list, large enough, and not counted. *)
FitReady(m, B, F, s, b, w, C, G) ==
    /\ b \in F /\ b \in C \ G /\ C \ G = (B \ F) \cup {b}
    /\ Heaped(w, C, G, {b}) /\ Apart(w, G)
    /\ w[0] = TotalSize(w, G) + w[b]
    /\ s <= w[b] /\ Spared(m, w, B \ F)

LEMMA FitIsReady ==
    ASSUME NEW m, NEW B, NEW F, Kept(m, B, F), NEW s \in Sizes \ {0}, s < GuardSize,
           IsFree(m, Next(m, LastSmaller(m, Super, s)))
    PROVE  \E C, G : FitReady(m, B, F, s, Next(m, LastSmaller(m, Super, s)), CallocFit(m, s), C, G)
<1> DEFINE prev == LastSmaller(m, Super, s)
           b    == Next(m, prev)
           off  == SetNext(m, prev, Next(m, b))
           E    == F \ {b}
           fit  == CallocFit(m, s)
<1>1. /\ Heaped(m, B, F, {}) /\ \A c \in F : RightOf(m, c) \notin F
      /\ m[0] = TotalSize(m, F)
  BY DEF Kept, Apart, NoneLeads
<1>2. Tiles(m, B) /\ F \subseteq B
  BY <1>1, HeapedFacts
<1>3. s \in Nat /\ s \in 0 .. GuardSize
  <2>1. s \in Nat
    BY FixedPlaces, PlaceFacts
  <2> QED BY <2>1, GuardFacts
<1>4. /\ prev \in F \cup {Super} /\ b \in F \cup {Guard} /\ m[b] >= s
      /\ prev = Super \/ m[prev] < s
  BY <1>1, <1>3, FirstFit
<1>5. fit = IF off[b] > s + Header THEN Split(off, prev, b, s) ELSE off
  BY DEF CallocFit
<1>6. IsFree(m, b)
  OBVIOUS
<1> HIDE DEF prev, b, off, fit
<1>7. b \in F /\ b \in B /\ b \notin E
  <2>1. b \in B \cup {Guard}
    BY <1>2, <1>4
  <2> QED BY <1>1, <1>2, <1>6, <2>1, FreeIs
<1>8. /\ b \in Nat /\ b < MemorySize /\ m[b] \in Nat /\ prev # b /\ m[prev] \in Nat
      /\ prev \in E \cup {Super}
  <2>1. b \in Places /\ b < Guard /\ m[b] \in Nat /\ m[prev] \in Nat
    BY <1>2, <1>4, <1>7, TileFacts
  <2>2. b \in Nat /\ b < MemorySize
    BY <2>1, Measures DEF Places
  <2>3. prev # b
    <3>1. b # Super
      BY <1>2, <1>7, EndsOutside
    <3> QED BY <1>3, <1>4, <2>1, <3>1
  <2> QED BY <1>4, <2>1, <2>2, <2>3
<1>9. /\ Heaped(off, B, E, {b}) /\ off[0] = m[0] /\ Spared(m, off, B)
  <2>1. /\ Heaped(off, B, F \ {b}, {} \cup {b})
        /\ off[0] = m[0] /\ Spared(m, off, B)
    <3>1. Next(m, prev) = b
      BY DEF b
    <3> QED BY <1>1, <1>4, <1>7, <3>1, TakenBlock DEF off
  <2>2. {} \cup {b} = {b}
    OBVIOUS
  <2> QED BY <2>1, <2>2
<1>10. Tiles(off, B)
  BY <1>9, HeapedFacts
<1>11. \A c \in B : off[c] = m[c] /\ m[c] \in Nat /\ RightOf(off, c) = RightOf(m, c)
  <2>1. \A c \in B : off[c] = m[c]
    BY <1>9 DEF Spared
  <2> QED BY <1>2, <2>1, TileFacts DEF RightOf
<1>12. m[0] = TotalSize(m, E) + m[b]
  <2>1. \A i \in E : m[i] \in Nat
    BY <1>2, <1>11
  <2>2. TotalSize(m, E \cup {b}) = TotalSize(m, E) + m[b]
    BY <1>7, <1>8, <2>1, SumMore
  <2>3. E \cup {b} = F
    BY <1>7
  <2> QED BY <1>1, <2>2, <2>3
<1>13. E \subseteq B /\ \A c \in E : RightOf(m, c) \notin F /\ RightOf(m, c) \notin E
  BY <1>1, <1>2
<1>14. TotalSize(m, E) \in Nat /\ TotalSize(m, E) <= Guard
       /\ TotalSize(m, E) + m[b] <= Guard
  <2>1. TotalSize(m, E) \in Nat /\ TotalSize(m, E) <= Guard
    BY <1>2, <1>13, SumBound
  <2>2. TotalSize(m, F) <= Guard
    BY <1>2, SumBound
  <2> QED BY <1>1, <1>12, <2>1, <2>2
<1>15. Spared(m, off, B \ F)
  BY <1>9, SparedFewer
<1>16. B \ E = (B \ F) \cup {b}
  BY <1>7
<1> HIDE DEF E
<1>17. CASE ~(off[b] > s + Header)
  <2>1. fit = off
    BY <1>5, <1>17
  <2>2. TotalSize(off, E) = TotalSize(m, E)
    BY <1>11, <1>13, SumSame
  <2>3. off[0] = TotalSize(off, E) + off[b]
    BY <1>7, <1>9, <1>11, <1>12, <2>2
  <2>4. s <= off[b]
    BY <1>3, <1>4, <1>7, <1>8, <1>11
  <2>5. Apart(off, E)
    BY <1>11, <1>13 DEF Apart, NoneLeads
  <2>6. FitReady(m, B, F, s, b, off, B, E)
    BY <1>7, <1>9, <1>15, <1>16, <2>3, <2>4, <2>5 DEF FitReady
  <2> QED BY <2>1, <2>6 DEF b, fit, prev
<1>18. CASE off[b] > s + Header
  <2> DEFINE rest == off[b] - s - Header
             new  == b + Header + s
             two  == SetSize(SetSize(off, b, s), new, rest)
             made == SetNext(two, new, 0)
             C    == B \cup {new}
             from == IF off[prev] < rest THEN prev ELSE Super
             ins  == BlockInsert(made, from, new)
             w    == AddFree(ins, -Header)
             G    == E \cup {new}
  <2>1. b \in B \ E
    BY <1>7
  <2>2. /\ new \in Places /\ new \notin B /\ rest \in Sizes \ {0}
        /\ Heaped(two, C, E, {b} \cup {b, new})
        /\ two[0] = off[0] /\ Spared(off, two, B \ {b})
        /\ two[b] = s /\ two[new] = rest /\ Same(off, two, B \ {b})
    <3> HIDE DEF rest, new, two, made, C, from, ins, w, G
    <3>1. LET r == off[b] - s - Header
              x == b + Header + s
              t == SetSize(SetSize(off, b, s), x, r)
          IN  /\ x \in Places /\ x \notin B /\ r \in Sizes \ {0}
              /\ Heaped(t, B \cup {x}, E, {b} \cup {b, x})
              /\ t[0] = off[0] /\ Spared(off, t, B \ {b})
              /\ t[b] = s /\ t[x] = r /\ Same(off, t, B \ {b})
      BY <1>9, <1>18, <2>1, CutInTwo
    <3> QED BY <3>1 DEF rest, new, two, C
  <2>3. Split(off, prev, b, s) = w
    <3>1. b \in Offsets /\ off \in [Offsets -> 0 .. GuardSize]
      BY <1>7, <1>10, TileFacts
    <3>2. SetSize(off, b, s)[b] = s
      BY <3>1 DEF SetSize
    <3>3. RightOf(SetSize(off, b, s), b) = new
      BY <3>2 DEF RightOf
    <3> QED BY <3>3 DEF Split
  <2>4. rest = m[b] - s - 4 /\ rest \in Nat /\ Header = 4 /\ new = b + 4 + s
    <3>1. Header = 4
      BY DEF Header
    <3>2. off[b] = m[b]
      BY <1>7, <1>11
    <3> QED BY <1>3, <1>8, <1>18, <3>1, <3>2
  <2> HIDE DEF rest, new, two
  <2>5. /\ Heaped(made, C, E, {b}) /\ made[0] = two[0] /\ Spared(two, made, C)
    <3>1. new \in C \ E
      BY <1>13, <2>2
    <3> DEFINE X == {b} \cup {b, new}
    <3>2. Heaped(two, C, E, X)
      BY <2>2
    <3>3. (X \ {new}) \cap C \subseteq {b}
      OBVIOUS
    <3> HIDE DEF X, C
    <3>4. Heaped(made, C, E, X \ {new})
      BY <3>1, <3>2, ClearedOff
    <3>6. made[0] = two[0] /\ Spared(two, made, C)
      BY <3>1, <3>2, ClearedOff
    <3> HIDE DEF made
    <3>5. Heaped(made, C, E, {b})
      BY <3>3, <3>4, HeapedLess
    <3> QED BY <3>5, <3>6
  <2> HIDE DEF made
  <2>6. Tiles(made, C) /\ made[Super] = Remainder
    BY <2>5, HeapedFacts DEF Tiles
  <2>7. /\ made[b] = s /\ made[new] = rest
        /\ \A c \in B : c # b => made[c] = m[c]
    <3>1. \A c \in C : made[c] = two[c]
      BY <2>5 DEF Spared
    <3> QED BY <1>7, <1>11, <2>2, <3>1 DEF Same
  <2>8. from \in E \cup {Super} /\ made[from] <= made[new]
    <3>1. CASE off[prev] < rest /\ prev \in E
      <4>1. prev \in B /\ from = prev
        BY <1>13, <3>1
      <4>2. made[prev] = m[prev] /\ off[prev] = m[prev]
        BY <1>8, <1>11, <2>7, <4>1
      <4> QED BY <1>8, <2>4, <2>7, <3>1, <4>1, <4>2
    <3>2. CASE ~(off[prev] < rest /\ prev \in E)
      <4>1. from = Super
        BY <1>8, <3>2
      <4>2. Remainder <= rest
        BY <2>2, FixedPlaces, PlaceFacts
      <4> QED BY <2>6, <2>7, <4>1, <4>2
    <3> QED BY <3>1, <3>2
  <2> HIDE DEF from
  <2>9. new \in C \ E /\ new # b
    BY <1>7, <1>13, <2>2
  <2>10. /\ Heaped(ins, C, G, {b} \ {new}) /\ ins[0] = made[0] /\ Spared(made, ins, C)
    BY <2>5, <2>8, <2>9, Inserted
  <2>11. Heaped(ins, C, G, {b})
    <3>1. ({b} \ {new}) \cap C \subseteq {b}
      OBVIOUS
    <3> HIDE DEF C, G
    <3> QED BY <2>10, <3>1, HeapedLess
  <2> HIDE DEF ins
  <2>12. ins[0] = m[0]
    BY <1>9, <2>2, <2>5, <2>10
  <2>13. ins[0] + (-Header) = TotalSize(m, E) + rest + s /\ -Header \in Int
    BY <1>3, <1>8, <1>12, <1>14, <2>4, <2>12
  <2>14. ins[0] + (-Header) \in 0 .. GuardSize
    BY <1>3, <1>8, <1>14, <2>4, <2>13, GuardFacts
  <2>15. /\ Heaped(w, C, G, {b}) /\ w[0] = ins[0] + (-Header) /\ Spared(ins, w, C)
    BY <2>11, <2>13, <2>14, AddFreed
  <2> HIDE DEF w
  <2>16. Spared(made, w, C)
    BY <2>10, <2>15, SparedTwice
  <2>17. \A c \in C : w[c] = made[c]
    BY <2>16 DEF Spared
  <2>18. w[b] = s /\ w[new] = rest /\ \A c \in B : c # b => w[c] = m[c]
    BY <1>7, <2>7, <2>17
  <2>19. TotalSize(w, G) = TotalSize(m, E) + rest
    <3>1. \A i \in E : w[i] = m[i] /\ m[i] \in Nat /\ w[i] \in Nat
      BY <1>11, <1>13, <2>1, <2>18
    <3>2. TotalSize(w, E) = TotalSize(m, E)
      BY <3>1, SumSame
    <3>3. new \in Nat /\ new < MemorySize
      <4>1. new \in Places /\ new < Guard
        BY <2>6, <2>9, TileFacts
      <4> QED BY <4>1, Measures DEF Places
    <3>4. new \notin E /\ w[new] \in Nat
      BY <2>4, <2>9, <2>18
    <3>5. TotalSize(w, E \cup {new}) = TotalSize(w, E) + w[new]
      BY <3>1, <3>3, <3>4, SumMore
    <3> QED BY <2>18, <3>2, <3>5
  <2>20. w[0] = TotalSize(w, G) + w[b]
    BY <2>13, <2>15, <2>18, <2>19
  <2>21. \A c \in G : RightOf(w, c) \notin G
    <3>1. ASSUME NEW c \in E PROVE RightOf(w, c) \notin G
      <4>1. c \in B /\ c # b
        BY <1>13, <2>1, <3>1
      <4>2. RightOf(w, c) = RightOf(m, c) /\ RightOf(m, c) \in B \cup {Guard}
        BY <1>2, <2>18, <4>1, TileFacts DEF RightOf
      <4>3. new # Guard
        BY <2>6, <2>9, EndsOutside
      <4> QED BY <1>13, <2>2, <3>1, <4>2, <4>3
    <3>2. RightOf(w, new) \notin G
      <4>1. RightOf(w, new) = new + 4 + rest
        BY <2>18 DEF RightOf, Header
      <4>2. RightOf(m, b) = b + 4 + m[b]
        BY DEF RightOf, Header
      <4>3. new + 4 + rest = b + 4 + m[b] /\ new + 4 + rest # new
        BY <1>3, <1>8, <2>4
      <4>4. RightOf(m, b) \notin F
        BY <1>1, <1>7
      <4> QED BY <4>1, <4>2, <4>3, <4>4 DEF E
    <3> QED BY <3>1, <3>2
  <2>22. C \ G = (B \ F) \cup {b} /\ b \in C \ G
    <3>1. C \ G = B \ E
      BY <1>13, <2>2
    <3> QED BY <1>16, <3>1
  <2>23. Spared(m, w, B \ F)
    <3>1. B \ F \subseteq B \ {b} /\ B \ F \subseteq C
      BY <1>7
    <3>2. Spared(off, two, B \ F)
      BY <2>2, <3>1, SparedFewer
    <3>3. Spared(two, made, B \ F) /\ Spared(made, w, B \ F)
      BY <2>5, <2>16, <3>1, SparedFewer
    <3>4. Spared(m, two, B \ F)
      BY <1>15, <3>2, SparedTwice
    <3>5. Spared(m, made, B \ F)
      BY <3>3, <3>4, SparedTwice
    <3> QED BY <3>3, <3>5, SparedTwice
  <2>24. s <= w[b]
    BY <1>3, <2>18
  <2> HIDE DEF C, G
  <2>25. FitReady(m, B, F, s, b, w, C, G)
    BY <1>7, <2>15, <2>20, <2>21, <2>22, <2>23, <2>24 DEF FitReady, Apart, NoneLeads
  <2>26. fit = w
    BY <1>5, <1>18, <2>3
  <2> QED BY <2>25, <2>26 DEF b, fit, prev
<1> QED BY <1>17, <1>18

(* A fit gives a block whose memory is zero, and spares the others. *)
LEMMA CallocKeeps ==
    ASSUME NEW m, NEW B, NEW F, Kept(m, B, F), NEW s \in Sizes \ {0}, s < GuardSize,
           IsFree(m, Next(m, LastSmaller(m, Super, s)))
    PROVE  LET b == Next(m, LastSmaller(m, Super, s))
               w == CallocMemory(m, s)
           IN  \E C, G : /\ b \in F /\ C \ G = (B \ F) \cup {b}
                         /\ Kept(w, C, G) /\ Spared(m, w, B \ F)
                         /\ s <= w[b] /\ Cleared(w, b, s)
<1> DEFINE b   == Next(m, LastSmaller(m, Super, s))
           fit == CallocFit(m, s)
           w   == CallocMemory(m, s)
<1>1. PICK C, G : FitReady(m, B, F, s, b, fit, C, G)
  BY FitIsReady
<1>2. w = Zeroed(SetNext(AddFree(fit, -fit[b]), b, 0), b, s)
  BY DEF CallocMemory
<1> HIDE DEF b, fit, w
<1>3. /\ b \in F /\ b \in C \ G /\ C \ G = (B \ F) \cup {b}
      /\ Heaped(fit, C, G, {b}) /\ Apart(fit, G)
      /\ fit[0] = TotalSize(fit, G) + fit[b]
      /\ s <= fit[b] /\ Spared(m, fit, B \ F)
  BY <1>1 DEF FitReady
<1>4. s \in Nat
  BY FixedPlaces, PlaceFacts
<1>5. /\ Kept(w, C, G) /\ Spared(fit, w, C \ {b}) /\ w[b] = fit[b]
      /\ Cleared(w, b, s)
  <2>1. LET x == Zeroed(SetNext(AddFree(fit, -fit[b]), b, 0), b, s)
        IN  /\ Kept(x, C, G) /\ Spared(fit, x, C \ {b}) /\ x[b] = fit[b]
            /\ Cleared(x, b, s)
    BY <1>3, <1>4, HandedOut
  <2> QED BY <1>2, <2>1
<1>6. Spared(m, w, B \ F)
  <2>1. B \ F \subseteq C \ {b}
    BY <1>3
  <2>2. Spared(fit, w, B \ F)
    BY <1>5, <2>1, SparedFewer
  <2> QED BY <1>3, <2>2, SparedTwice
<1> QED BY <1>3, <1>5, <1>6 DEF b, w

-----------------------------------------------------------------------------
(* free().                                                                 *)

(* What the sums say of a block in use and of a free one. *)
LEMMA Counted ==
    ASSUME NEW m, NEW B, NEW F, Kept(m, B, F)
    PROVE  /\ m[0] \in Nat /\ m[0] <= Guard
           /\ \A b \in B \ F : m[b] \in Nat /\ m[0] + m[b] <= Guard
           /\ \A b \in F : m[0] = TotalSize(m, F \ {b}) + m[b] /\ TotalSize(m, F \ {b}) \in Nat
<1>1. Heaped(m, B, F, {}) /\ m[0] = TotalSize(m, F)
  BY DEF Kept
<1>2. Tiles(m, B) /\ F \subseteq B
  BY <1>1, HeapedFacts
<1>3. m[0] \in Nat /\ m[0] <= Guard
  BY <1>1, <1>2, SumBound
<1>4. \A b \in B : m[b] \in Nat /\ b \in Nat /\ b < MemorySize
  <2>1. \A b \in B : m[b] \in Nat /\ b \in Places /\ b < Guard
    BY <1>2, TileFacts
  <2> QED BY <2>1, Measures DEF Places
<1>5. ASSUME NEW b \in B \ F PROVE m[0] + m[b] <= Guard
  <2>1. F \cup {b} \subseteq B
    BY <1>2
  <2>2. TotalSize(m, F \cup {b}) <= Guard
    BY <1>2, <2>1, SumBound
  <2>3. TotalSize(m, F \cup {b}) = TotalSize(m, F) + m[b]
    BY <1>2, <1>4, SumMore
  <2> QED BY <1>1, <2>2, <2>3
<1>6. ASSUME NEW b \in F
      PROVE  m[0] = TotalSize(m, F \ {b}) + m[b] /\ TotalSize(m, F \ {b}) \in Nat
  <2> DEFINE E == F \ {b}
  <2>1. b \notin E /\ E \subseteq B /\ E \cup {b} = F
    BY <1>2
  <2> HIDE DEF E
  <2>2. \A i \in E : m[i] \in Nat
    BY <1>4, <2>1
  <2>3. b \in Nat /\ b < MemorySize /\ m[b] \in Nat
    BY <1>2, <1>4
  <2>4. TotalSize(m, E \cup {b}) = TotalSize(m, E) + m[b]
    BY <2>1, <2>2, <2>3, SumMore
  <2>5. TotalSize(m, E) \in Nat
    BY <1>2, <2>1, SumBound
  <2> QED BY <1>1, <2>1, <2>4, <2>5 DEF E
<1> QED BY <1>3, <1>4, <1>5, <1>6

(* A block a that has grown over the blocks J to its right is put back,    *)
(* when nothing else of a memory m has changed.                            *)
LEMMA GrownBack ==
    ASSUME NEW m, NEW B, Tiles(m, B), NEW k, NEW F, NEW X, Heaped(k, B, F, X),
           Same(m, k, B \cup {Super}),
           NEW a \in B \ F, NEW J, J \subseteq B \ F, NEW v \in Sizes \ {0},
           Absorbs(B, a, J, v), X \cap (B \ J) \subseteq {a},
           NEW p \in F \cup {Super}, m[p] <= v,
           NoneLeads(m, F, F \cup {a}), a + Header + v \notin F,
           k[0] = TotalSize(m, F) + v
    PROVE  LET w == BlockInsert(SetSize(k, a, v), p, a)
           IN  Kept(w, B \ J, F \cup {a}) /\ Spared(k, w, B \ (J \cup {a}))
<1> DEFINE u == SetSize(k, a, v)
           w == BlockInsert(u, p, a)
           C == B \ J
<1>1. Tiles(k, B) /\ F \subseteq B
  BY HeapedFacts
<1>2. /\ Heaped(u, C, F, X \cup {a}) /\ u[0] = k[0]
      /\ Spared(k, u, B \ (J \cup {a}))
      /\ u[a] = v /\ Same(k, u, (B \cup {Super}) \ {a})
  <2>1. a \in B \ F /\ J \subseteq B \ F /\ v \in Sizes \ {0}
    OBVIOUS
  <2> HIDE DEF u, w, C
  <2>2. Heaped(SetSize(k, a, v), B \ J, F, X \cup {a})
    BY <2>1, Joined
  <2>3. Spared(k, SetSize(k, a, v), B \ (J \cup {a}))
    BY <2>1, Joined
  <2>4. Same(k, SetSize(k, a, v), (B \cup {Super}) \ {a})
    BY <2>1, Joined
  <2>5. LET z == SetSize(k, a, v) IN z[0] = k[0] /\ z[a] = v
    BY <2>1, <2>2, <2>3, <2>4, Joined
  <2> QED BY <2>2, <2>3, <2>4, <2>5 DEF u, C
<1> HIDE DEF u
<1>3. \A c \in (B \cup {Super}) \ {a} : u[c] = m[c]
  BY <1>2 DEF Same
<1>4. a \in C \ F /\ (X \cup {a}) \cap C \subseteq {a}
  <2>1. a \in Nat
    BY <1>1, TileFacts DEF Places
  <2>2. a \notin J
    BY <2>1 DEF Absorbs
  <2> QED BY <2>2
<1>5. u[p] <= u[a]
  <2>1. p # a
    BY <1>1, EndsOutside
  <2> QED BY <1>1, <1>2, <1>3, <2>1
<1>6. TotalSize(u, F) = TotalSize(m, F)
  <2>1. \A c \in F : m[c] \in Nat /\ u[c] = m[c]
    BY <1>1, <1>3, TileFacts
  <2> QED BY <2>1, SumSame
<1>7. Apart(u, F \cup {a})
  <2>1. ASSUME NEW c \in F PROVE RightOf(u, c) \notin F \cup {a}
    BY <1>1, <1>3 DEF RightOf, NoneLeads
  <2>2. RightOf(u, a) = a + Header + v
    BY <1>2 DEF RightOf
  <2>3. a + Header + v # a
    <3>1. a \in Nat /\ v \in Nat
      BY <1>1, TileFacts, PlaceFacts DEF Places
    <3> QED BY <3>1 DEF Header
  <2> QED BY <2>1, <2>2, <2>3 DEF Apart, NoneLeads
<1>8. u[0] = TotalSize(u, F) + u[a]
  BY <1>2, <1>6
<1>9. Kept(w, C, F \cup {a}) /\ Spared(u, w, C)
  <2> DEFINE Y == X \cup {a}
  <2>1. Heaped(u, C, F, Y) /\ Y \cap C \subseteq {a}
    BY <1>2, <1>4
  <2> HIDE DEF Y, C
  <2> QED BY <1>4, <1>5, <1>7, <1>8, <2>1, PutBack
<1> HIDE DEF w
<1>10. Spared(k, w, B \ (J \cup {a}))
  <2>1. B \ (J \cup {a}) \subseteq C
    OBVIOUS
  <2>2. Spared(u, w, B \ (J \cup {a}))
    BY <1>9, <2>1, SparedFewer
  <2> QED BY <1>2, <2>2, SparedTwice
<1> QED BY <1>9, <1>10 DEF w, u

(* What free() makes of a heap. *)
PutBackAs(m, B, F, b, w) ==
    \E C, G : /\ Kept(w, C, G) /\ C \ G = (B \ F) \ {b}
              /\ Spared(m, w, (B \ F) \ {b})

LEMMA FreesAlone ==
    ASSUME NEW m, NEW B, NEW F, Kept(m, B, F), NEW b \in B \ F,
           ~IsLeftFree(m, b), ~IsFree(m, RightOf(m, b))
    PROVE  PutBackAs(m, B, F, b, BlockInsert(AddFree(m, m[b]), Super, b))
<1> DEFINE a == AddFree(m, m[b])
           w == BlockInsert(a, Super, b)
<1>1. Heaped(m, B, F, {}) /\ Apart(m, F) /\ m[0] = TotalSize(m, F)
  BY DEF Kept
<1>2. Tiles(m, B) /\ F \subseteq B
  BY <1>1, HeapedFacts
<1>3. /\ m[0] \in Nat /\ m[b] \in Nat /\ m[0] + m[b] \in 0 .. GuardSize /\ m[b] \in Int
  BY Counted, GuardFacts
<1>4. /\ Heaped(a, B, F, {}) /\ a[0] = m[0] + m[b] /\ Spared(m, a, B)
      /\ \A c \in B \cup {Super, Guard} : a[c] = m[c]
  BY <1>1, <1>3, AddFreed
<1> HIDE DEF a
<1>5. RightOf(m, b) \in B \cup {Guard} /\ RightOf(m, b) # b /\ m[Super] <= m[b]
  <2>1. /\ b \in Places /\ m[b] \in Sizes /\ RightOf(m, b) = b + 4 + m[b]
        /\ RightOf(m, b) \in B \cup {Guard}
    BY <1>2, TileFacts
  <2>2. m[Super] = Remainder
    BY <1>2 DEF Tiles
  <2>3. Remainder <= m[b]
    BY <2>1, PlaceFacts
  <2>4. b + 4 + m[b] # b
    BY <1>3, <2>1 DEF Places
  <2> QED BY <2>1, <2>2, <2>3, <2>4
<1>6. RightOf(m, b) \notin F
  BY <1>1, <1>5, FreeIs
<1>7. Apart(a, F \cup {b})
  <2>1. \A c \in B : RightOf(a, c) = RightOf(m, c)
    BY <1>4 DEF RightOf
  <2>2. \A c \in F : RightOf(m, c) # b
    BY <1>1, LeftFreeIs
  <2> QED BY <1>1, <1>2, <1>5, <1>6, <2>1, <2>2 DEF Apart, NoneLeads
<1>8. a[0] = TotalSize(a, F) + a[b]
  <2>1. \A c \in F : m[c] \in Nat /\ a[c] = m[c]
    BY <1>2, <1>4, TileFacts
  <2>2. TotalSize(a, F) = TotalSize(m, F)
    BY <2>1, SumSame
  <2> QED BY <1>1, <1>4, <2>2
<1>9. Kept(w, B, F \cup {b}) /\ Spared(a, w, B)
  <2>1. {} \cap B \subseteq {b} /\ Super \in F \cup {Super} /\ a[Super] <= a[b]
    BY <1>4, <1>5
  <2> QED BY <1>4, <1>7, <1>8, <2>1, PutBack
<1> HIDE DEF w
<1>10. Spared(m, w, B)
  BY <1>4, <1>9, SparedTwice
<1>11. Spared(m, w, (B \ F) \ {b})
  <2>1. (B \ F) \ {b} \subseteq B
    OBVIOUS
  <2> QED BY <1>10, <2>1, SparedFewer
<1>12. B \ (F \cup {b}) = (B \ F) \ {b}
  OBVIOUS
<1>13. PutBackAs(m, B, F, b, w)
  BY <1>9, <1>11, <1>12 DEF PutBackAs
<1> QED BY <1>13 DEF w, a

(* The right of a free block has a place after it. *)
LEMMA RightFacts ==
    ASSUME NEW m, NEW B, NEW F, Kept(m, B, F), NEW b \in B
    PROVE  /\ RightOf(m, b) = b + Header + m[b] /\ RightOf(m, b) \in B \cup {Guard}
           /\ b \in Nat /\ RightOf(m, b) \in Nat /\ b < RightOf(m, b)
           /\ m[b] \in Sizes \ {0} /\ m[b] \in Nat
           /\ \A c \in B : c # b => RightOf(m, c) # RightOf(m, b)
           /\ \A c \in B : b < c => RightOf(m, b) <= c
           /\ \A c \in B : c \in Nat
<1>1. Tiles(m, B)
  BY HeapedFacts DEF Kept
<1>2. \A c \in B : /\ c \in Places /\ m[c] \in Nat /\ RightOf(m, c) = c + 4 + m[c]
                   /\ RightOf(m, c) \in B \cup {Guard}
                   /\ \A d \in B : c < d => RightOf(m, c) <= d
  BY <1>1, TileFacts
<1>3. \A c \in B : m[c] \in Sizes \ {0}
  BY <1>1 DEF Tiles
<1>4. \A c \in B : c \in Nat /\ RightOf(m, c) \in Nat /\ c < RightOf(m, c)
  BY <1>2 DEF Places
<1>5. ASSUME NEW c \in B, c # b PROVE RightOf(m, c) # RightOf(m, b)
  <2>1. CASE c < b
    <3>1. RightOf(m, c) <= b
      BY <1>2, <2>1
    <3> QED BY <1>4, <3>1
  <2>2. CASE b < c
    <3>1. RightOf(m, b) <= c
      BY <1>2, <2>2
    <3> QED BY <1>4, <3>1
  <2> QED BY <1>4, <1>5, <2>1, <2>2
<1> QED BY <1>2, <1>3, <1>4, <1>5 DEF Header

LEMMA FreesWithRight ==
    ASSUME NEW m, NEW B, NEW F, Kept(m, B, F), NEW b \in B \ F,
           ~IsLeftFree(m, b), IsFree(m, RightOf(m, b))
    PROVE  PutBackAs(m, B, F, b, FreeWithRight(m, b))
<1> DEFINE r   == RightOf(m, b)
           prev == Before(m, Super, r)
           a   == AddFree(m, m[b] + Header)
           k   == SetNext(a, prev, Next(a, r))
           v   == m[b] + m[r] + Header
           w   == BlockInsert(SetSize(k, b, v), prev, b)
           E   == F \ {r}
           J   == {r}
<1>1. Heaped(m, B, F, {}) /\ Apart(m, F) /\ m[0] = TotalSize(m, F)
  BY DEF Kept
<1>2. Tiles(m, B) /\ F \subseteq B
  BY <1>1, HeapedFacts
<1>3. /\ r = b + Header + m[b] /\ r \in B \cup {Guard} /\ b \in Nat /\ r \in Nat /\ b < r
      /\ m[b] \in Sizes \ {0} /\ m[b] \in Nat
      /\ \A c \in B : b < c => r <= c
      /\ \A c \in B : c \in Nat
  BY RightFacts
<1>4. r \in F /\ r \in B
  BY <1>1, <1>2, <1>3, FreeIs
<1>5. /\ RightOf(m, r) = r + Header + m[r] /\ RightOf(m, r) \in B \cup {Guard}
      /\ RightOf(m, r) \in Nat /\ r < RightOf(m, r)
      /\ m[r] \in Sizes \ {0} /\ m[r] \in Nat
      /\ \A c \in B : r < c => RightOf(m, r) <= c
  BY <1>4, RightFacts
<1> HIDE DEF r
<1>6. prev \in F \cup {Super} /\ prev # r /\ Next(m, prev) = r /\ m[prev] <= m[r]
  BY <1>1, <1>4, BeforeBlock
<1> HIDE DEF prev
<1>7. /\ m[0] \in Nat /\ m[0] + (m[b] + Header) \in 0 .. GuardSize /\ m[b] + Header \in Int
      /\ m[0] = TotalSize(m, E) + m[r] /\ TotalSize(m, E) \in Nat
  <2>1. m[0] \in Nat /\ m[0] + m[b] <= Guard
    BY Counted
  <2>2. m[0] = TotalSize(m, E) + m[r] /\ TotalSize(m, E) \in Nat
    BY <1>4, Counted
  <2>3. Guard + 8 < GuardSize /\ Guard \in Nat /\ GuardSize \in Nat /\ Header = 4
    BY RoomInTheCell, GuardFacts DEF Header
  <2> QED BY <1>3, <2>1, <2>2, <2>3
<1>8. /\ Heaped(a, B, F, {}) /\ a[0] = m[0] + (m[b] + Header) /\ Spared(m, a, B)
      /\ \A c \in B \cup {Super, Guard} : a[c] = m[c]
      /\ \A c \in B \cup {Super} : Next(a, c) = Next(m, c)
  BY <1>1, <1>7, AddFreed
<1> HIDE DEF a
<1>9. /\ Heaped(k, B, E, {} \cup {r}) /\ k[0] = a[0] /\ Spared(a, k, B)
  <2>1. Next(a, prev) = r
    BY <1>2, <1>6, <1>8
  <2> QED BY <1>4, <1>6, <1>8, <2>1, TakenBlock
<1>10. k = SetNext(a, prev, Next(m, r))
  BY <1>4, <1>8
<1>11. Tiles(k, B) /\ k[Super] = Remainder /\ m[Super] = Remainder
  BY <1>2, <1>9, HeapedFacts DEF Tiles
<1> HIDE DEF k
<1>12. Same(m, k, B \cup {Super})
  BY <1>8, <1>9, <1>11 DEF Same, Spared
<1>13. v \in Sizes \ {0} /\ v = m[b] + m[r] + 4 /\ v \in Nat /\ b + Header + v = RightOf(m, r)
  <2>1. v = m[b] + m[r] + 4
    BY DEF Header
  <2>2. v \in Sizes
    BY <1>3, <1>5, SizeFacts
  <2>3. r = b + 4 + m[b] /\ RightOf(m, r) = r + 4 + m[r] /\ b + Header + v = b + 4 + v
    BY <1>3, <1>5 DEF Header
  <2> HIDE DEF v
  <2>4. v \in Nat /\ v # 0
    BY <1>3, <1>5, <2>1
  <2> QED BY <1>3, <1>5, <2>1, <2>2, <2>3, <2>4
<1>14. k[b] + k[r] + Header = v
  <2>1. k[b] = m[b] /\ k[r] = m[r]
    BY <1>4, <1>12 DEF Same
  <2> QED BY <2>1
<1> HIDE DEF v
<1>15. FreeWithRight(m, b) = w
  BY <1>10, <1>14 DEF FreeWithRight, r, prev, a
<1>16. Absorbs(B, b, J, v)
  <2>1. RightOf(m, r) # r
    BY <1>5
  <2>2. b + Header + v \in (B \ J) \cup {Guard}
    BY <1>5, <1>13, <2>1
  <2>3. \A c \in B : c = r <=> b < c /\ c < RightOf(m, r)
    <3> SUFFICES ASSUME NEW c \in B, b < c, c < RightOf(m, r) PROVE c = r
      BY <1>3, <1>5
    <3>1. c \in Nat /\ r <= c /\ ~(r < c)
      BY <1>3, <1>5
    <3> QED BY <1>3, <3>1
  <2>4. J = {c \in B : b < c /\ c < b + Header + v}
    BY <1>4, <1>13, <2>3
  <2> QED BY <2>2, <2>4 DEF Absorbs
<1>17. b \in B \ E /\ J \subseteq B \ E /\ ({} \cup {r}) \cap (B \ J) \subseteq {b}
       /\ prev \in E \cup {Super}
  BY <1>4, <1>6
<1>18. m[prev] <= v
  <2>1. m[prev] \in Nat
    BY <1>2, <1>6, TileFacts
  <2> QED BY <1>3, <1>5, <1>6, <1>13, <2>1
<1>19. NoneLeads(m, E, E \cup {b}) /\ b + Header + v \notin E
  <2>1. \A c \in F : RightOf(m, c) # b
    BY <1>1, LeftFreeIs
  <2> QED BY <1>1, <1>4, <1>13, <2>1 DEF Apart, NoneLeads
<1>20. k[0] = TotalSize(m, E) + v
  BY <1>3, <1>5, <1>7, <1>8, <1>9, <1>13 DEF Header
<1> HIDE DEF E, J
<1>21. Kept(w, B \ J, E \cup {b}) /\ Spared(k, w, B \ (J \cup {b}))
  BY <1>2, <1>9, <1>12, <1>13, <1>16, <1>17, <1>18, <1>19, <1>20, GrownBack
<1> HIDE DEF w
<1>22. (B \ J) \ (E \cup {b}) = (B \ F) \ {b} /\ (B \ F) \ {b} \subseteq B \ (J \cup {b})
       /\ (B \ F) \ {b} \subseteq B
  BY <1>4 DEF J, E
<1>23. Spared(m, w, (B \ F) \ {b})
  <2>1. Spared(m, k, B)
    BY <1>8, <1>9, SparedTwice
  <2>2. Spared(m, k, (B \ F) \ {b}) /\ Spared(k, w, (B \ F) \ {b})
    BY <1>21, <1>22, <2>1, SparedFewer
  <2> QED BY <2>2, SparedTwice
<1> QED BY <1>15, <1>21, <1>22, <1>23 DEF PutBackAs

(* The left neighbour l of b has been taken off the list, behind p, and    *)
(* what b frees has been counted.                                          *)
LeftOff(m, B, F, b, l, p, k) ==
    /\ l \in F /\ RightOf(m, l) = b
    /\ p \in (F \ {l}) \cup {Super} /\ m[p] <= m[l]
    /\ Heaped(k, B, F \ {l}, {}) /\ Same(m, k, B \cup {Super, Guard}) /\ Spared(m, k, B)
    /\ k[0] = TotalSize(m, F \ {l}) + m[l] + m[b] + 4
    /\ k[0] \in Nat /\ k[0] <= Guard + 4

LEMMA LeftTaken ==
    ASSUME NEW m, NEW B, NEW F, Kept(m, B, F), NEW b \in B \ F, IsLeftFree(m, b)
    PROVE  LET l == Before(m, Next(m, Super), m[b - 2])
               p == Before(m, Super, l)
           IN  LeftOff(m, B, F, b, l, p, Unlink(AddFree(m, m[b] + Header), p, l))
<1> DEFINE l == Before(m, Next(m, Super), m[b - 2])
           p == Before(m, Super, l)
           a == AddFree(m, m[b] + Header)
           k == Unlink(a, p, l)
<1>1. Heaped(m, B, F, {}) /\ Apart(m, F) /\ m[0] = TotalSize(m, F)
  BY DEF Kept
<1>2. Tiles(m, B) /\ F \subseteq B
  BY <1>1, HeapedFacts
<1>3. l \in F /\ RightOf(m, l) = b
  <2>1. PICK c \in F : RightOf(m, c) = b /\ m[b - 2] = Next(m, c)
    BY <1>1, LeftFreeIs
  <2>2. Before(m, Next(m, Super), Next(m, c)) = c
    BY <1>1, BeforeNext
  <2> QED BY <2>1, <2>2
<1> HIDE DEF l
<1>4. p \in F \cup {Super} /\ p # l /\ Next(m, p) = l /\ m[p] <= m[l]
  BY <1>1, <1>3, BeforeBlock
<1> HIDE DEF p
<1>5. m[b] \in Nat /\ m[l] \in Nat
  BY <1>2, <1>3, TileFacts
<1>6. /\ m[0] \in Nat /\ m[0] + m[b] <= Guard
      /\ m[0] + (m[b] + Header) \in 0 .. GuardSize /\ m[b] + Header \in Int
      /\ m[0] = TotalSize(m, F \ {l}) + m[l] /\ TotalSize(m, F \ {l}) \in Nat
  <2>1. m[0] \in Nat /\ m[0] + m[b] <= Guard
    BY Counted
  <2>2. m[0] = TotalSize(m, F \ {l}) + m[l] /\ TotalSize(m, F \ {l}) \in Nat
    BY <1>3, Counted
  <2>3. Guard + 8 < GuardSize /\ Guard \in Nat /\ GuardSize \in Nat /\ Header = 4
    BY RoomInTheCell, GuardFacts DEF Header
  <2> QED BY <1>5, <2>1, <2>2, <2>3
<1>7. /\ Heaped(a, B, F, {}) /\ a[0] = m[0] + (m[b] + Header) /\ Spared(m, a, B)
      /\ \A c \in B \cup {Super, Guard} : a[c] = m[c]
      /\ \A c \in B \cup {Super} : Next(a, c) = Next(m, c)
  BY <1>1, <1>6, AddFreed
<1> HIDE DEF a
<1>8. /\ Heaped(k, B, F \ {l}, {}) /\ k[0] = a[0] /\ Spared(a, k, B)
  <2>1. Next(a, p) = l
    BY <1>2, <1>4, <1>7
  <2>2. /\ Heaped(k, B, F \ {l}, {} \ {l}) /\ k[0] = a[0] /\ Spared(a, k, B)
    BY <1>3, <1>4, <1>7, <2>1, Unlinked
  <2>3. {} \ {l} = {}
    OBVIOUS
  <2> QED BY <2>2, <2>3
<1>9. /\ Tiles(k, B) /\ k[Super] = Remainder /\ m[Super] = Remainder
      /\ k[Guard] = GuardSize /\ m[Guard] = GuardSize
  BY <1>2, <1>8, HeapedFacts DEF Tiles
<1> HIDE DEF k
<1>10. Same(m, k, B \cup {Super, Guard})
  BY <1>7, <1>8, <1>9 DEF Same, Spared
<1>11. Spared(m, k, B)
  BY <1>7, <1>8, SparedTwice
<1>12. /\ k[0] = TotalSize(m, F \ {l}) + m[l] + m[b] + 4
       /\ k[0] \in Nat /\ k[0] <= Guard + 4
  <2>1. Header = 4 /\ Guard \in Nat
    BY GuardFacts DEF Header
  <2> QED BY <1>5, <1>6, <1>7, <1>8, <2>1
<1>13. LeftOff(m, B, F, b, l, p, k)
  BY <1>3, <1>4, <1>8, <1>10, <1>11, <1>12 DEF LeftOff
<1> QED BY <1>13 DEF k, a, p, l

LEMMA FreesWithLeft ==
    ASSUME NEW m, NEW B, NEW F, Kept(m, B, F), NEW b \in B \ F,
           IsLeftFree(m, b), ~IsFree(m, RightOf(m, b))
    PROVE  PutBackAs(m, B, F, b, FreeWithLeft(m, b))
<1> DEFINE r == RightOf(m, b)
           l == Before(m, Next(m, Super), m[b - 2])
           p == Before(m, Super, l)
           k == Unlink(AddFree(m, m[b] + Header), p, l)
           v == m[l] + m[b] + Header
           w == BlockInsert(SetSize(k, l, v), p, l)
           E == F \ {l}
           J == {b}
<1>1. Heaped(m, B, F, {}) /\ Apart(m, F)
  BY DEF Kept
<1>2. Tiles(m, B) /\ F \subseteq B
  BY <1>1, HeapedFacts
<1>3. LeftOff(m, B, F, b, l, p, k)
  BY LeftTaken
<1>4. /\ r = b + Header + m[b] /\ r \in B \cup {Guard} /\ b \in Nat /\ r \in Nat /\ b < r
      /\ m[b] \in Sizes \ {0} /\ m[b] \in Nat
      /\ \A c \in B : b < c => r <= c
      /\ \A c \in B : c \in Nat
  BY RightFacts
<1>5. r \notin F
  BY <1>1, <1>4, FreeIs
<1>6. ~IsFree(k, r)
  <2> HIDE DEF k, r, l, p
  <2>1. Heaped(k, B, F \ {l}, {})
    BY <1>3 DEF LeftOff
  <2> QED BY <1>4, <1>5, <2>1, FreeIs
<1>7. k[l] = m[l] /\ k[b] = m[b]
  <2> HIDE DEF k, r, l, p
  <2> QED BY <1>2, <1>3 DEF LeftOff, Same
<1>8. FreeWithLeft(m, b) = BlockInsert(SetSize(k, l, k[l] + k[b] + Header), p, l)
  BY <1>6 DEF FreeWithLeft
<1>9. FreeWithLeft(m, b) = w
  <2> HIDE DEF k, l, p
  <2> QED BY <1>7, <1>8
<1> HIDE DEF k, l, p, r
<1>10. /\ l \in F /\ l \in B /\ RightOf(m, l) = b
       /\ p \in E \cup {Super} /\ m[p] <= m[l]
       /\ Heaped(k, B, E, {}) /\ Same(m, k, B \cup {Super, Guard}) /\ Spared(m, k, B)
       /\ k[0] = TotalSize(m, E) + m[l] + m[b] + 4
  BY <1>2, <1>3 DEF LeftOff
<1>11. /\ b = l + Header + m[l] /\ l \in Nat /\ l < b
       /\ m[l] \in Sizes \ {0} /\ m[l] \in Nat
       /\ \A c \in B : l < c => b <= c
  BY <1>10, RightFacts
<1>12. v \in Sizes \ {0} /\ v = m[l] + m[b] + 4 /\ v \in Nat /\ l + Header + v = r
  <2>1. v = m[l] + m[b] + 4
    BY DEF Header
  <2>2. v \in Sizes
    BY <1>4, <1>11, SizeFacts
  <2>3. b = l + 4 + m[l] /\ r = b + 4 + m[b] /\ l + Header + v = l + 4 + v
    BY <1>4, <1>11 DEF Header
  <2> HIDE DEF v
  <2>4. v \in Nat /\ v # 0
    BY <1>4, <1>11, <2>1
  <2> QED BY <1>4, <1>11, <2>1, <2>2, <2>3, <2>4
<1>13. Absorbs(B, l, J, v)
  <2>1. l + Header + v \in (B \ J) \cup {Guard}
    BY <1>4, <1>12
  <2>2. \A c \in B : c = b <=> l < c /\ c < r
    <3> SUFFICES ASSUME NEW c \in B, l < c, c < r PROVE c = b
      BY <1>4, <1>11
    <3>1. c \in Nat /\ b <= c /\ ~(b < c)
      BY <1>4, <1>11
    <3> QED BY <1>4, <3>1
  <2>3. J = {c \in B : l < c /\ c < l + Header + v}
    BY <1>12, <2>2
  <2> QED BY <2>1, <2>3 DEF Absorbs
<1> HIDE DEF v
<1>14. l \in B \ E /\ J \subseteq B \ E /\ {} \cap (B \ J) \subseteq {l}
  BY <1>10
<1>15. m[p] <= v
  <2>1. m[p] \in Nat
    BY <1>2, <1>10, TileFacts
  <2> QED BY <1>4, <1>10, <1>11, <1>12, <2>1
<1>16. NoneLeads(m, E, E \cup {l}) /\ l + Header + v \notin E
  BY <1>1, <1>5, <1>10, <1>12 DEF Apart, NoneLeads
<1>17. k[0] = TotalSize(m, E) + v
  <2>1. TotalSize(m, E) \in Nat
    BY <1>10, Counted
  <2> HIDE DEF E
  <2> QED BY <1>4, <1>10, <1>11, <1>12, <2>1
<1>18. Same(m, k, B \cup {Super})
  BY <1>10 DEF Same
<1>19. /\ E \cup {l} = F /\ (B \ J) \ F = (B \ F) \ {b}
       /\ (B \ F) \ {b} \subseteq B \ (J \cup {l})
       /\ (B \ F) \ {b} \subseteq B
  BY <1>10
<1> HIDE DEF E, J
<1>20. Kept(w, B \ J, E \cup {l}) /\ Spared(k, w, B \ (J \cup {l}))
  BY <1>2, <1>10, <1>12, <1>13, <1>14, <1>15, <1>16, <1>17, <1>18, GrownBack
<1> HIDE DEF w
<1>21. Spared(m, w, (B \ F) \ {b})
  <2>1. Spared(m, k, (B \ F) \ {b}) /\ Spared(k, w, (B \ F) \ {b})
    BY <1>10, <1>19, <1>20, SparedFewer
  <2> QED BY <2>1, SparedTwice
<1> QED BY <1>9, <1>19, <1>20, <1>21 DEF PutBackAs

LEMMA FreesWithBoth ==
    ASSUME NEW m, NEW B, NEW F, Kept(m, B, F), NEW b \in B \ F,
           IsLeftFree(m, b), IsFree(m, RightOf(m, b))
    PROVE  PutBackAs(m, B, F, b, FreeWithLeft(m, b))
<1> DEFINE r == RightOf(m, b)
           l == Before(m, Next(m, Super), m[b - 2])
           p == Before(m, Super, l)
           k == Unlink(AddFree(m, m[b] + Header), p, l)
           q == IF k[r] > k[l] THEN Before(k, p, r) ELSE Before(k, Super, r)
           a == AddFree(k, Header)
           u == Unlink(a, q, r)
           x == u[l] + u[r] + Header
           t == SetSize(u, l, x)
           v == x + m[b] + Header
           w == BlockInsert(SetSize(u, l, v), q, l)
           E == (F \ {l}) \ {r}
           J == {b, r}
<1>1. Heaped(m, B, F, {}) /\ Apart(m, F)
  BY DEF Kept
<1>2. Tiles(m, B) /\ F \subseteq B
  BY <1>1, HeapedFacts
<1>3. LeftOff(m, B, F, b, l, p, k)
  BY LeftTaken
<1>4. /\ r = b + Header + m[b] /\ r \in B \cup {Guard} /\ b \in Nat /\ r \in Nat /\ b < r
      /\ m[b] \in Sizes \ {0} /\ m[b] \in Nat
      /\ \A c \in B : b < c => r <= c
      /\ \A c \in B : c \in Nat
  BY RightFacts
<1>5. r \in F /\ r \in B
  BY <1>1, <1>2, <1>4, FreeIs
<1>6. l \in F /\ l \in B /\ RightOf(m, l) = b /\ Heaped(k, B, F \ {l}, {})
  <2> HIDE DEF l, p, k
  <2> QED BY <1>2, <1>3 DEF LeftOff
<1>7. /\ b = l + Header + m[l] /\ l \in Nat /\ l < b
      /\ m[l] \in Sizes \ {0} /\ m[l] \in Nat
      /\ \A c \in B : l < c => b <= c
  <2> HIDE DEF l, p, k
  <2> QED BY <1>6, RightFacts
<1>8. /\ RightOf(m, r) = r + Header + m[r] /\ RightOf(m, r) \in B \cup {Guard}
      /\ RightOf(m, r) \in Nat /\ r < RightOf(m, r)
      /\ m[r] \in Sizes \ {0} /\ m[r] \in Nat
      /\ \A c \in B : r < c => RightOf(m, r) <= c
  BY <1>5, RightFacts
<1>9. IsFree(k, r) /\ r # l /\ r \in F \ {l}
  <2> HIDE DEF k, r, l, p
  <2>1. r # l
    BY <1>4, <1>7
  <2> DEFINE G == F \ {l}
  <2>2. Heaped(k, B, G, {}) /\ r \in B \cup {Guard} /\ r \in G
    BY <1>4, <1>5, <1>6, <2>1
  <2> HIDE DEF G
  <2>3. IsFree(k, r)
    BY <2>2, FreeIs
  <2> QED BY <1>5, <2>1, <2>3
<1>10. FreeWithLeft(m, b) = BlockInsert(SetSize(t, l, t[l] + t[b] + Header), q, l)
  <2> DEFINE right == RightOf(m, b)
             left == Before(m, Next(m, Super), m[b - 2])
             prev == Before(m, Super, left)
             off == Unlink(AddFree(m, m[b] + Header), prev, left)
  <2>1. r = right /\ l = left /\ p = prev /\ k = off
    OBVIOUS
  <2> QED BY <1>9 DEF FreeWithLeft
<1> HIDE DEF k, l, p, r
<1>11. /\ p \in (F \ {l}) \cup {Super} /\ m[p] <= m[l]
       /\ Same(m, k, B \cup {Super, Guard}) /\ Spared(m, k, B)
       /\ k[0] = TotalSize(m, F \ {l}) + m[l] + m[b] + 4
       /\ k[0] \in Nat /\ k[0] <= Guard + 4
  BY <1>3 DEF LeftOff
<1>12. k[r] = m[r] /\ k[l] = m[l] /\ k[b] = m[b] /\ k[Super] = m[Super] /\ k[p] = m[p]
  BY <1>2, <1>5, <1>6, <1>11 DEF Same
<1>13. m[Super] = Remainder /\ Remainder <= m[r] /\ m[p] \in Nat
  <2>1. m[Super] = Remainder /\ Remainder \in Nat
    <3>1. m[Super] = Remainder
      BY <1>2 DEF Tiles
    <3>2. Remainder \in Nat
      BY Measures
    <3> QED BY <3>1, <3>2
  <2>2. m[r] \in Sizes /\ r \in Places
    BY <1>2, <1>5, <1>8, TileFacts
  <2>3. m[p] \in Nat
    BY <1>2, <1>11, <2>1, TileFacts
  <2> QED BY <2>1, <2>2, <2>3, PlaceFacts
<1>14. q \in (F \ {l}) \cup {Super} /\ q # r /\ Next(k, q) = r /\ k[q] <= k[r]
  <2> DEFINE G == F \ {l}
  <2>1. CASE k[r] > k[l]
    <3>1. k[p] < k[r]
      BY <1>7, <1>8, <1>11, <1>12, <1>13, <2>1
    <3>2. q = Before(k, p, r)
      BY <2>1
    <3>3. Heaped(k, B, G, {}) /\ r \in G /\ p \in G \cup {Super}
      BY <1>6, <1>9, <1>11
    <3> HIDE DEF G, q
    <3> QED BY <3>1, <3>2, <3>3, BeforeBlock DEF G
  <2>2. CASE ~(k[r] > k[l])
    <3>1. q = Before(k, Super, r)
      BY <2>2
    <3>2. Heaped(k, B, G, {}) /\ r \in G /\ Super \in G \cup {Super}
      BY <1>6, <1>9
    <3> HIDE DEF G, q
    <3> QED BY <3>1, <3>2, BeforeBlock DEF G
  <2> QED BY <2>1, <2>2
<1> HIDE DEF q
<1>15. k[0] \in Nat /\ k[0] + Header \in 0 .. GuardSize /\ Header \in Int
  <2>1. Guard + 8 < GuardSize /\ Guard \in Nat /\ GuardSize \in Nat /\ Header = 4
    BY RoomInTheCell, GuardFacts DEF Header
  <2> QED BY <1>11, <2>1
<1>16. /\ Heaped(a, B, F \ {l}, {}) /\ a[0] = k[0] + Header /\ Spared(k, a, B)
       /\ \A c \in B \cup {Super, Guard} : a[c] = k[c]
       /\ \A c \in B \cup {Super} : Next(a, c) = Next(k, c)
  BY <1>6, <1>15, AddFreed
<1> HIDE DEF a
<1>17. /\ Heaped(u, B, E, {}) /\ u[0] = a[0] /\ Spared(a, u, B)
  <2>1. Next(a, q) = r
    BY <1>2, <1>14, <1>16
  <2> DEFINE G == F \ {l}
             X == {}
  <2>2. Heaped(a, B, G, X) /\ r \in G /\ q \in G \cup {Super}
    BY <1>9, <1>14, <1>16
  <2> HIDE DEF G, X
  <2>3. /\ Heaped(u, B, G \ {r}, X \ {r})
        /\ u[0] = a[0] /\ Spared(a, u, B)
    BY <2>1, <2>2, Unlinked
  <2>4. G \ {r} = E /\ X \ {r} = {}
    BY DEF G, X
  <2> HIDE DEF u, E
  <2> QED BY <2>3, <2>4
<1>18. Tiles(u, B) /\ u[Super] = m[Super]
  <2>1. Tiles(u, B)
    BY <1>17, HeapedFacts
  <2> QED BY <1>13, <2>1 DEF Tiles
<1> HIDE DEF u
<1>19. Same(m, u, B \cup {Super}) /\ Spared(m, u, B)
  <2>1. Spared(m, a, B)
    BY <1>11, <1>16, SparedTwice
  <2>2. Spared(m, u, B)
    BY <1>17, <2>1, SparedTwice
  <2> QED BY <1>18, <2>2 DEF Same, Spared
<1>20. u[l] = m[l] /\ u[r] = m[r] /\ u[b] = m[b]
  BY <1>5, <1>6, <1>19 DEF Same
<1>21. x = m[l] + m[r] + 4 /\ x \in Sizes /\ x \in Nat
  <2>1. x = m[l] + m[r] + 4
    BY <1>20 DEF Header
  <2>2. m[l] + m[r] + Header \in Sizes
    BY <1>7, <1>8, SizeFacts
  <2> HIDE DEF x
  <2> QED BY <1>7, <1>8, <2>1, <2>2 DEF Header
<1> HIDE DEF x
<1>22. /\ v \in Sizes \ {0} /\ v \in Nat /\ v = m[l] + m[r] + m[b] + 8
       /\ l + Header + v = RightOf(m, r)
  <2>1. v = x + m[b] + 4
    BY DEF Header
  <2>2. v \in Sizes
    BY <1>4, <1>21, SizeFacts
  <2>3. b = l + 4 + m[l] /\ r = b + 4 + m[b] /\ l + Header + v = l + 4 + v
        /\ RightOf(m, r) = r + 4 + m[r]
    BY <1>4, <1>7, <1>8 DEF Header
  <2> HIDE DEF v
  <2>4. v \in Nat /\ v # 0 /\ v = m[l] + m[r] + m[b] + 8
    BY <1>4, <1>7, <1>8, <1>21, <2>1
  <2> QED BY <1>4, <1>7, <1>8, <2>2, <2>3, <2>4
<1>23. t[l] = x /\ t[b] = m[b] /\ SetSize(t, l, v) = SetSize(u, l, v)
  <2>1. u \in [Offsets -> 0 .. GuardSize] /\ l \in Offsets /\ b # l
    <3>1. l \in Offsets
      BY <1>2, <1>6, TileFacts
    <3> QED BY <1>7, <1>18, <3>1 DEF Tiles
  <2> HIDE DEF v
  <2>2. t[l] = x /\ t[b] = u[b]
    BY <2>1 DEF SetSize
  <2>3. SetSize(t, l, v) = SetSize(u, l, v)
    BY <2>1 DEF SetSize
  <2> QED BY <1>20, <2>2, <2>3
<1>24. FreeWithLeft(m, b) = w
  <2>1. t[l] + t[b] + Header = v
    BY <1>23
  <2> HIDE DEF t, v
  <2> QED BY <1>10, <1>23, <2>1
<1> HIDE DEF t
<1>25. Absorbs(B, l, J, v)
  <2>1. l + Header + v \in (B \ J) \cup {Guard}
    BY <1>4, <1>8, <1>22
  <2>2. \A c \in B : c \in J <=> l < c /\ c < RightOf(m, r)
    <3> SUFFICES ASSUME NEW c \in B, l < c, c < RightOf(m, r) PROVE c \in J
      BY <1>4, <1>7, <1>8
    <3>1. c \in Nat /\ b <= c /\ (b < c => r <= c) /\ ~(r < c)
      BY <1>4, <1>7, <1>8
    <3>2. c = b \/ c = r
      BY <1>4, <3>1
    <3> QED BY <3>2
  <2>3. J \subseteq B
    BY <1>5
  <2> HIDE DEF J, v
  <2>4. J = {c \in B : l < c /\ c < l + Header + v}
    BY <1>22, <2>2, <2>3
  <2> QED BY <2>1, <2>4 DEF Absorbs
<1> HIDE DEF v
<1>26. l \in B \ E /\ J \subseteq B \ E /\ {} \cap (B \ J) \subseteq {l}
  BY <1>5, <1>6
<1>27. q \in E \cup {Super} /\ m[q] <= v
  <2>1. m[q] \in Nat /\ m[q] <= m[r]
    <3>1. q \in B \cup {Super}
      BY <1>2, <1>14
    <3>2. k[q] = m[q]
      BY <1>11, <3>1 DEF Same
    <3>3. m[q] \in Nat
      BY <1>2, <3>1, TileFacts
    <3> QED BY <1>12, <1>14, <3>2, <3>3
  <2> QED BY <1>4, <1>7, <1>8, <1>14, <1>22, <2>1
<1>28. NoneLeads(m, E, E \cup {l}) /\ l + Header + v \notin E
  BY <1>1, <1>5, <1>6, <1>22 DEF Apart, NoneLeads
<1>29. u[0] = TotalSize(m, E) + v
  <2>1. \A c \in B : m[c] \in Nat /\ c < MemorySize
    <3>1. \A c \in B : m[c] \in Nat /\ c \in Places /\ c < Guard
      BY <1>2, TileFacts
    <3> QED BY <3>1, Measures DEF Places
  <2>2. r \notin E /\ E \subseteq B /\ E \cup {r} = F \ {l}
    BY <1>2, <1>9
  <2> HIDE DEF E
  <2>3. \A c \in E : m[c] \in Nat
    BY <2>1, <2>2
  <2>4. r \in Nat /\ r < MemorySize /\ m[r] \in Nat
    BY <1>4, <1>5, <2>1
  <2>5. TotalSize(m, E \cup {r}) = TotalSize(m, E) + m[r]
    BY <2>2, <2>3, <2>4, SumMore
  <2>6. TotalSize(m, E) \in Nat
    BY <1>2, <2>2, SumBound
  <2>7. u[0] = TotalSize(m, F \ {l}) + m[l] + m[b] + 4 + 4
    BY <1>11, <1>16, <1>17 DEF Header
  <2>8. u[0] = TotalSize(m, E) + m[r] + m[l] + m[b] + 4 + 4
    BY <2>2, <2>5, <2>7
  <2> QED BY <1>4, <1>7, <1>8, <1>22, <2>6, <2>8
<1>30. /\ (B \ J) \ (E \cup {l}) = (B \ F) \ {b}
       /\ (B \ F) \ {b} \subseteq B \ (J \cup {l})
       /\ (B \ F) \ {b} \subseteq B
  BY <1>5, <1>6
<1> HIDE DEF E, J
<1>31. Kept(w, B \ J, E \cup {l}) /\ Spared(u, w, B \ (J \cup {l}))
  BY <1>2, <1>17, <1>19, <1>22, <1>25, <1>26, <1>27, <1>28, <1>29, GrownBack
<1> HIDE DEF w
<1>32. Spared(m, w, (B \ F) \ {b})
  <2>1. Spared(m, u, (B \ F) \ {b}) /\ Spared(u, w, (B \ F) \ {b})
    BY <1>19, <1>30, <1>31, SparedFewer
  <2> QED BY <2>1, SparedTwice
<1> QED BY <1>24, <1>30, <1>31, <1>32 DEF PutBackAs

(* free() gives one block in use back, and spares the others. *)
LEMMA FreeKeeps ==
    ASSUME NEW m, NEW B, NEW F, Kept(m, B, F), NEW b \in B \ F
    PROVE  PutBackAs(m, B, F, b, Freed(m, b))
<1>1. CASE IsLeftFree(m, b) /\ IsFree(m, RightOf(m, b))
  <2>1. Freed(m, b) = FreeWithLeft(m, b)
    BY <1>1 DEF Freed
  <2> QED BY <1>1, <2>1, FreesWithBoth
<1>2. CASE IsLeftFree(m, b) /\ ~IsFree(m, RightOf(m, b))
  <2>1. Freed(m, b) = FreeWithLeft(m, b)
    BY <1>2 DEF Freed
  <2> QED BY <1>2, <2>1, FreesWithLeft
<1>3. CASE ~IsLeftFree(m, b) /\ IsFree(m, RightOf(m, b))
  <2>1. Freed(m, b) = FreeWithRight(m, b)
    BY <1>3 DEF Freed
  <2> QED BY <1>3, <2>1, FreesWithRight
<1>4. CASE ~IsLeftFree(m, b) /\ ~IsFree(m, RightOf(m, b))
  <2>1. Freed(m, b) = BlockInsert(AddFree(m, m[b]), Super, b)
    BY <1>4 DEF Freed
  <2> QED BY <1>4, <2>1, FreesAlone
<1> QED BY <1>1, <1>2, <1>3, <1>4

-----------------------------------------------------------------------------
(* The invariant of the heap.                                              *)

(* The blocks in use are those whose memory lv says was handed out. *)
Owned(m, B, F, lv) ==
    /\ Kept(m, B, F)
    /\ DOMAIN lv = {b + 2 : b \in B \ F}
    /\ \A b \in B \ F : lv[b + 2] \in Nat \ {0} /\ lv[b + 2] <= m[b]

HInv == \E B, F : Owned(mem, B, F, live)

LEMMA SumNone ==
    ASSUME NEW m
    PROVE  TotalSize(m, {}) = 0
<1>1. PICK sum : Sums(sum, m, {}) /\ TotalSize(m, {}) = sum[MemorySize]
  BY SumIs
<1> DEFINE G == {i \in Nat : sum[i] = 0}
<1>2. 0 \in G
  BY <1>1 DEF Sums
<1>3. ASSUME NEW i \in Nat, i \in G PROVE i + 1 \in G
  BY <1>1, <1>3 DEF Sums
<1> HIDE DEF G
<1>4. Nat \subseteq G
  BY <1>2, <1>3, SetInduction
<1>5. MemorySize \in Nat
  BY Measures
<1> QED BY <1>1, <1>4, <1>5 DEF G

(* The cells of the first memory. *)
LEMMA FirstCells ==
    ASSUME HeapInit
    PROVE  /\ mem \in [Offsets -> 0 .. GuardSize]
           /\ mem[Super] = Remainder /\ mem[First] = FirstSize /\ mem[Guard] = GuardSize
           /\ mem[0] = FirstSize
           /\ Next(mem, Super) = First /\ Next(mem, First) = Guard
<1> DEFINE zero  == [i \in Offsets |-> 0]
           sizes == [zero EXCEPT ![Super] = Remainder, ![First] = FirstSize,
                                 ![Guard] = GuardSize, ![0] = FirstSize]
           x == Super + 2 + Remainder
           y == First + 2 + FirstSize
           one == [sizes EXCEPT ![x] = First]
           two == [one EXCEPT ![y] = Guard]
<1>1. /\ Super \in Offsets /\ First \in Offsets /\ Guard \in Offsets /\ 0 \in Offsets
      /\ Super # First /\ Super # Guard /\ First # Guard
      /\ 0 # Super /\ 0 # First /\ 0 # Guard
  <2>1. Super # First /\ Super # Guard /\ First # Guard
        /\ 0 # Super /\ 0 # First /\ 0 # Guard
    BY Measures
  <2> QED BY <2>1, PlacesAreOffsets
<1>2. x \in Offsets /\ x # Super /\ x # First /\ x # Guard /\ x # 0
  <2>1. CASE AlignSize = 4
    BY <2>1, Measures DEF Offsets
  <2>2. CASE AlignSize = 8
    BY <2>2, Measures DEF Offsets
  <2> QED BY <2>1, <2>2, Measures
<1>3. y \in Offsets /\ y # Super /\ y # First /\ y # Guard /\ y # 0 /\ y # x
  <2>1. y = MemorySize - 4
    BY Measures
  <2>2. y % 2 = 0
    <3>1. First \in Places /\ FirstSize \in Sizes
      BY FixedPlaces
    <3> QED BY <3>1, PlaceFacts
  <2>3. MemorySize - 4 \in 0 .. MemorySize - 1
    BY Measures
  <2>4. y \in Offsets
    BY <2>1, <2>2, <2>3 DEF Offsets
  <2>5. CASE AlignSize = 4
    BY <2>1, <2>4, <2>5, Measures
  <2>6. CASE AlignSize = 8
    BY <2>1, <2>4, <2>6, Measures
  <2> QED BY <2>5, <2>6, Measures
<1>4. /\ Remainder \in 0 .. GuardSize /\ FirstSize \in 0 .. GuardSize
      /\ First \in 0 .. GuardSize /\ Guard \in 0 .. GuardSize
      /\ GuardSize \in 0 .. GuardSize /\ 0 \in 0 .. GuardSize
  <2>1. /\ Remainder \in Nat /\ FirstSize \in Nat /\ First \in Nat /\ Guard \in Nat
        /\ GuardSize \in Nat /\ First < Guard /\ Guard < GuardSize
    BY FixedPlaces, GuardFacts DEF Places, Sizes
  <2>2. First = Super + 4 + Remainder /\ Super \in Nat /\ Guard = First + 4 + FirstSize
    BY FixedPlaces DEF Places, Header
  <2> QED BY <2>1, <2>2
<1>5. /\ sizes[Super] = Remainder /\ sizes[First] = FirstSize
      /\ sizes[Guard] = GuardSize /\ sizes[0] = FirstSize
      /\ sizes \in [Offsets -> 0 .. GuardSize]
  BY <1>1, <1>4
<1>6. mem = SetNext(SetNext(sizes, Super, First), First, Guard)
  BY DEF HeapInit
<1> HIDE DEF sizes
<1>7. SetNext(sizes, Super, First) = one
  <2>1. NextCell(sizes, Super) = x
    BY <1>5 DEF NextCell
  <2> HIDE DEF x
  <2> QED BY <2>1 DEF SetNext
<1> HIDE DEF x, y
<1>8. /\ one[Super] = Remainder /\ one[First] = FirstSize
      /\ one[Guard] = GuardSize /\ one[0] = FirstSize /\ one[x] = First
      /\ one \in [Offsets -> 0 .. GuardSize]
  BY <1>1, <1>2, <1>4, <1>5
<1> HIDE DEF one
<1>9. mem = two
  <2>1. NextCell(one, First) = y
    BY <1>8 DEF NextCell, y
  <2> QED BY <1>6, <1>7, <2>1 DEF SetNext
<1>10. /\ two[Super] = Remainder /\ two[First] = FirstSize
       /\ two[Guard] = GuardSize /\ two[0] = FirstSize /\ two[x] = First /\ two[y] = Guard
       /\ two \in [Offsets -> 0 .. GuardSize]
  BY <1>1, <1>2, <1>3, <1>4, <1>8
<1> HIDE DEF two
<1>11. NextCell(mem, Super) = x /\ NextCell(mem, First) = y
  BY <1>9, <1>10 DEF NextCell, x, y
<1> QED BY <1>9, <1>10, <1>11 DEF Next

(* At first the whole array is one free block. *)
LEMMA FirstIsKept ==
    ASSUME HeapInit
    PROVE  Kept(mem, {First}, {First})
<1> DEFINE f == [i \in 1 .. 3 |-> IF i = 1 THEN Super ELSE IF i = 2 THEN First ELSE Guard]
           B == {First}
<1>1. /\ mem \in [Offsets -> 0 .. GuardSize]
      /\ mem[Super] = Remainder /\ mem[First] = FirstSize /\ mem[Guard] = GuardSize
      /\ mem[0] = FirstSize
      /\ Next(mem, Super) = First /\ Next(mem, First) = Guard
  BY FirstCells
<1>2. /\ First \in Nat /\ Guard \in Nat /\ First < Guard /\ Super # First /\ Super # Guard
      /\ Remainder \in Nat /\ FirstSize \in Nat /\ GuardSize \in Nat
      /\ Remainder <= FirstSize /\ FirstSize <= GuardSize
      /\ FirstSize # 0 /\ First + 4 + FirstSize = Guard /\ First < MemorySize
  <2>1. CASE AlignSize = 4
    BY <2>1, Measures
  <2>2. CASE AlignSize = 8
    BY <2>2, Measures
  <2> QED BY <2>1, <2>2, Measures
<1>3. FirstSize \in Sizes /\ First \in Places
  BY FixedPlaces
<1>4. RightOf(mem, First) = Guard
  BY <1>1, <1>2 DEF RightOf, Header
<1>5. Tiles(mem, B)
  <2>1. B \subseteq Places \cap (First .. Guard - 1) /\ First \in B
    BY <1>2, <1>3
  <2>2. \A b \in B : mem[b] \in Sizes \ {0} /\ RightOf(mem, b) \in B \cup {Guard}
    BY <1>1, <1>2, <1>3, <1>4
  <2>3. \A b, c \in B : b < c => RightOf(mem, b) <= c
    BY <1>2
  <2>4. \A c \in (B \cup {Guard}) \ {First} : \E b \in B : RightOf(mem, b) = c
    BY <1>4
  <2> QED BY <1>1, <2>1, <2>2, <2>3, <2>4 DEF Tiles
<1>6. Listed(mem, B, f, 3)
  <2>1. \A i \in 1 .. 3 : i = 1 \/ i = 2 \/ i = 3
    OBVIOUS
  <2>2. 2 .. 3 - 1 = {2} /\ 1 .. 3 - 1 = {1, 2} /\ 1 \in 1 .. 3 /\ 2 \in 1 .. 3 /\ 3 \in 1 .. 3
    OBVIOUS
  <2>3. f[1] = Super /\ f[2] = First /\ f[3] = Guard
    BY <2>2
  <2>4. f \in [1 .. 3 -> B \cup {Super, Guard}]
    OBVIOUS
  <2> HIDE DEF f
  <2>5. \A i, j \in 1 .. 3 : f[i] = f[j] => i = j
    BY <1>2, <2>1, <2>3
  <2>6. \A i \in {1, 2} : Next(mem, f[i]) = f[i + 1]
    BY <1>1, <2>3
  <2>7. \A i, j \in 1 .. 3 : i <= j => mem[f[i]] <= mem[f[j]]
    BY <1>1, <1>2, <2>1, <2>3
  <2>8. /\ \A i \in 2 .. 3 - 1 : f[i] \in B
        /\ \A b \in B : \E i \in 2 .. 3 - 1 : f[i] = b
    BY <2>2, <2>3
  <2>9. \A i \in 1 .. 3 - 1 : Next(mem, f[i]) = f[i + 1]
    BY <2>2, <2>6
  <2> QED BY <2>3, <2>4, <2>5, <2>7, <2>8, <2>9 DEF Listed
<1> HIDE DEF f
<1>7. Heaped(mem, B, B, {})
  <2>1. Shaped(mem, B, B, f, 3, {})
    BY <1>5, <1>6 DEF Shaped
  <2> QED BY <2>1 DEF Heaped
<1>8. Apart(mem, B)
  BY <1>2, <1>4 DEF Apart, NoneLeads
<1>9. mem[0] = TotalSize(mem, B)
  <2>1. TotalSize(mem, {} \cup {First}) = TotalSize(mem, {}) + mem[First]
    BY <1>1, <1>2, SumMore
  <2>2. {} \cup {First} = B
    OBVIOUS
  <2> QED BY <1>1, <1>2, <2>1, <2>2, SumNone
<1> QED BY <1>7, <1>8, <1>9 DEF Kept

LEMMA HeapInitInv == HeapInit => HInv
<1> SUFFICES ASSUME HeapInit PROVE Owned(mem, {First}, {First}, live)
  BY DEF HInv
<1>1. DOMAIN live = {}
  BY DEF HeapInit
<1>2. {First} \ {First} = {}
  OBVIOUS
<1> QED BY <1>1, <1>2, FirstIsKept DEF Owned

-----------------------------------------------------------------------------
(* The steps keep the invariant.                                           *)

(* What calloc() does for a request of n bytes, and what it spares. *)
Obtained(m, B, F, lv, n, b, w, C, G) ==
    /\ b \in F /\ C \ G = (B \ F) \cup {b}
    /\ Kept(w, C, G) /\ Spared(m, w, B \ F)
    /\ n <= w[b] /\ Cleared(w, b, n)

LEMMA CallocStep ==
    ASSUME NEW B, NEW F, Owned(mem, B, F, live), NEW n \in Requests, Calloc(n)
    PROVE  \E b, C, G : /\ Obtained(mem, B, F, live, n, b, mem', C, G)
                        /\ Owned(mem', C, G, live')
                        /\ pointer' = b + 2
                        /\ live' = [p \in DOMAIN live \cup {b + 2} |->
                                        IF p = b + 2 THEN n ELSE live[p]]
<1> DEFINE s == Rounded(n)
           b == Next(mem, LastSmaller(mem, Super, s))
<1>1. n \in Nat \ {0}
  BY RequestFacts
<1>2. s \in Sizes \ {0} /\ n <= s /\ s < GuardSize
  BY RoundedIs
<1>3. mem' = CallocMemory(mem, s) /\ IsFree(mem, b) /\ pointer' = b + 2
      /\ live' = [p \in DOMAIN live \cup {b + 2} |-> IF p = b + 2 THEN n ELSE live[p]]
  BY DEF Calloc, CallocMemory, CallocFit
<1> HIDE DEF s
<1>4. Kept(mem, B, F) /\ DOMAIN live = {c + 2 : c \in B \ F}
      /\ \A c \in B \ F : live[c + 2] \in Nat \ {0} /\ live[c + 2] <= mem[c]
  BY DEF Owned
<1>5. PICK C, G : /\ b \in F /\ C \ G = (B \ F) \cup {b}
                  /\ Kept(mem', C, G) /\ Spared(mem, mem', B \ F)
                  /\ s <= mem'[b] /\ Cleared(mem', b, s)
  BY <1>2, <1>3, <1>4, CallocKeeps
<1> HIDE DEF b
<1>6. Tiles(mem', C)
  BY <1>5, HeapedFacts DEF Kept
<1>7. b \in C /\ b \in Nat /\ mem'[b] \in Nat /\ s \in Nat
  <2>1. b \in C /\ s \in Nat
    BY <1>2, <1>5 DEF Sizes
  <2> QED BY <1>6, <2>1, TileFacts DEF Places
<1>8. Obtained(mem, B, F, live, n, b, mem', C, G)
  <2>1. n <= mem'[b]
    BY <1>1, <1>2, <1>5, <1>7
  <2>2. \A i \in Int : i \in b + 2 .. b + 1 + n => i \in b + 2 .. b + 1 + s
    BY <1>1, <1>2, <1>7
  <2>3. Cleared(mem', b, n)
    <3>1. \A i \in Offsets : i \in Int
      BY DEF Offsets
    <3> QED BY <1>5, <2>2, <3>1 DEF Cleared
  <2> QED BY <1>5, <2>1, <2>3 DEF Obtained
<1>9. \A c \in B \ F : c # b /\ c + 2 # b + 2 /\ c + 2 \in DOMAIN live
  <2>1. \A c \in B \ F : c \in C /\ c \in Nat
    BY <1>5, <1>6, TileFacts DEF Places
  <2> QED BY <1>4, <1>5, <1>7, <2>1
<1>10. Owned(mem', C, G, live')
  <2>1. DOMAIN live' = {c + 2 : c \in C \ G}
    BY <1>3, <1>4, <1>5
  <2>2. live'[b + 2] = n
    BY <1>3
  <2>3. ASSUME NEW c \in C \ G
        PROVE  live'[c + 2] \in Nat \ {0} /\ live'[c + 2] <= mem'[c]
    <3>1. CASE c = b
      BY <1>1, <1>8, <2>2, <3>1 DEF Obtained
    <3>2. CASE c \in B \ F
      <4>1. live'[c + 2] = live[c + 2]
        BY <1>3, <1>9, <3>2
      <4>2. mem'[c] = mem[c]
        BY <1>5, <3>2 DEF Spared
      <4> QED BY <1>4, <3>2, <4>1, <4>2
    <3> QED BY <1>5, <3>1, <3>2
  <2> QED BY <1>5, <2>1, <2>3 DEF Owned
<1> QED BY <1>3, <1>8, <1>10

(* What free() does to the block b, and what it spares. *)
GivenBack(m, B, F, lv, b, w, C, G, lw) ==
    /\ b \in B \ F /\ C \ G = (B \ F) \ {b} /\ Spared(m, w, C \ G)
    /\ Owned(w, C, G, lw)
    /\ DOMAIN lw = DOMAIN lv \ {b + 2}
    /\ \A q \in DOMAIN lw : lw[q] = lv[q]

LEMMA FreeStep ==
    ASSUME NEW B, NEW F, Owned(mem, B, F, live), NEW p, Free(p)
    PROVE  \E b, C, G : GivenBack(mem, B, F, live, b, mem', C, G, live') /\ p = b + 2
<1>1. Kept(mem, B, F) /\ DOMAIN live = {c + 2 : c \in B \ F}
      /\ \A c \in B \ F : live[c + 2] \in Nat \ {0} /\ live[c + 2] <= mem[c]
  BY DEF Owned
<1>2. p \in DOMAIN live /\ mem' = Freed(mem, p - 2)
      /\ live' = [q \in DOMAIN live \ {p} |-> live[q]]
  BY DEF Free
<1>3. Tiles(mem, B)
  BY <1>1, HeapedFacts DEF Kept
<1>4. \A c \in B : c \in Nat
  BY <1>3, TileFacts DEF Places
<1>5. PICK b \in B \ F : p = b + 2
  BY <1>1, <1>2
<1>6. b = p - 2 /\ b \in Nat
  BY <1>4, <1>5
<1>7. PutBackAs(mem, B, F, b, mem')
  <2>1. PutBackAs(mem, B, F, b, Freed(mem, b))
    BY <1>1, FreeKeeps
  <2> QED BY <1>2, <1>6, <2>1
<1>8. PICK C, G : /\ Kept(mem', C, G) /\ C \ G = (B \ F) \ {b}
                  /\ Spared(mem, mem', (B \ F) \ {b})
  BY <1>7 DEF PutBackAs
<1>9. \A c \in (B \ F) \ {b} : c + 2 # p
  BY <1>4, <1>5
<1>10. DOMAIN live' = {c + 2 : c \in C \ G}
  BY <1>1, <1>2, <1>5, <1>8, <1>9
<1>11. ASSUME NEW c \in C \ G
       PROVE  live'[c + 2] \in Nat \ {0} /\ live'[c + 2] <= mem'[c]
  <2>1. c \in (B \ F) \ {b} /\ c + 2 \in DOMAIN live \ {p}
    BY <1>1, <1>8, <1>9
  <2>2. live'[c + 2] = live[c + 2]
    BY <1>2, <2>1
  <2>3. mem'[c] = mem[c]
    BY <1>8, <2>1 DEF Spared
  <2> QED BY <1>1, <2>1, <2>2, <2>3
<1>12. Owned(mem', C, G, live')
  BY <1>8, <1>10, <1>11 DEF Owned
<1>13. GivenBack(mem, B, F, live, b, mem', C, G, live')
  BY <1>2, <1>5, <1>8, <1>12 DEF GivenBack
<1> QED BY <1>5, <1>13

LEMMA FillStep ==
    ASSUME NEW B, NEW F, Owned(mem, B, F, live), NEW p, Fill(p)
    PROVE  \E b : /\ b \in B \ F /\ p = b + 2
                  /\ Spared(mem, mem', B \ {b}) /\ Owned(mem', B, F, live')
<1>1. Kept(mem, B, F) /\ DOMAIN live = {c + 2 : c \in B \ F}
      /\ \A c \in B \ F : live[c + 2] \in Nat \ {0} /\ live[c + 2] <= mem[c]
  BY DEF Owned
<1>2. p \in DOMAIN live /\ live' = live
      /\ mem' = [i \in Offsets |-> IF i \in p .. p + live[p] - 1 THEN Pattern ELSE mem[i]]
  BY DEF Fill
<1>3. Heaped(mem, B, F, {}) /\ Apart(mem, F) /\ mem[0] = TotalSize(mem, F)
  BY <1>1 DEF Kept
<1>4. Tiles(mem, B) /\ F \subseteq B
  BY <1>3, HeapedFacts
<1>5. \A c \in B : c \in Nat /\ mem[c] \in Nat
  BY <1>4, TileFacts DEF Places
<1>6. PICK b \in B \ F : p = b + 2
  BY <1>1, <1>2
<1>7. live[p] \in Nat /\ live[p] <= mem[b] /\ b \in Nat /\ mem[b] \in Nat
  BY <1>1, <1>5, <1>6
<1>8. mem' \in [Offsets -> 0 .. GuardSize]
  <2>1. mem \in [Offsets -> 0 .. GuardSize]
    BY <1>4 DEF Tiles
  <2>2. Pattern \in 0 .. GuardSize
    BY GuardFacts DEF Pattern
  <2> QED BY <1>2, <2>1, <2>2
<1>9. \A i \in Offsets : i \notin b + 2 .. b + 1 + mem[b] => mem'[i] = mem[i]
  <2>1. \A i \in Int : i \in p .. p + live[p] - 1 => i \in b + 2 .. b + 1 + mem[b]
    BY <1>6, <1>7
  <2>2. \A i \in Offsets : i \in Int
    BY DEF Offsets
  <2> QED BY <1>2, <2>1, <2>2
<1>10. /\ Heaped(mem', B, F, {}) /\ mem'[0] = mem[0] /\ Spared(mem, mem', B \ {b})
       /\ \A c \in B \cup {Super, Guard} : mem'[c] = mem[c]
  BY <1>3, <1>8, <1>9, PayloadChanged
<1>11. Apart(mem', F)
  BY <1>3, <1>4, <1>10 DEF Apart, NoneLeads, RightOf
<1>12. TotalSize(mem', F) = TotalSize(mem, F)
  <2>1. \A c \in F : mem[c] \in Nat /\ mem'[c] = mem[c]
    BY <1>4, <1>5, <1>10
  <2> QED BY <2>1, SumSame
<1>13. Kept(mem', B, F)
  BY <1>3, <1>10, <1>11, <1>12 DEF Kept
<1>14. Owned(mem', B, F, live')
  BY <1>1, <1>2, <1>10, <1>13 DEF Owned
<1> QED BY <1>6, <1>10, <1>14

LEMMA HeapNextInv == HInv /\ [HeapNext]_heapVars => HInv'
<1> SUFFICES ASSUME HInv, [HeapNext]_heapVars PROVE HInv'
  OBVIOUS
<1>1. PICK B, F : Owned(mem, B, F, live)
  BY DEF HInv
<1>2. ASSUME NEW C, NEW G, Owned(mem', C, G, live') PROVE HInv'
  BY <1>2 DEF HInv
<1>3. ASSUME NEW n \in Requests, Calloc(n) PROVE HInv'
  BY <1>1, <1>2, <1>3, CallocStep
<1>4. ASSUME NEW n \in Requests, CallocFails(n) PROVE HInv'
  BY <1>1, <1>2, <1>4 DEF CallocFails
<1>5. ASSUME NEW p, Free(p) PROVE HInv'
  BY <1>1, <1>2, <1>5, FreeStep DEF GivenBack
<1>6. ASSUME NEW p, Fill(p) PROVE HInv'
  BY <1>1, <1>2, <1>6, FillStep
<1>7. CASE UNCHANGED heapVars
  BY <1>1, <1>2, <1>7 DEF heapVars
<1> QED BY <1>3, <1>4, <1>5, <1>6, <1>7 DEF HeapNext

-----------------------------------------------------------------------------
(* The consistency of the heap, from the invariant.                        *)

(* A walk that comes to the guard after n hops and stays there. *)
LEMMA UpToGuardIs ==
    ASSUME NEW hop, NEW n \in 1 .. MemorySize,
           \A i \in 0 .. n - 1 : hop[i] # Guard,
           \A i \in Nat : i >= n => hop[i] = Guard
    PROVE  UpToGuard(hop) = [i \in 1 .. n |-> hop[i - 1]]
<1> DEFINE c == CHOOSE k \in 1 .. MemorySize : hop[k] = Guard /\ hop[k - 1] # Guard
<1>1. MemorySize \in Nat /\ n \in Nat /\ n >= 1 /\ n - 1 \in 0 .. n - 1
  BY Measures
<1>2. hop[n] = Guard /\ hop[n - 1] # Guard
  BY <1>1
<1>3. c \in 1 .. MemorySize /\ hop[c] = Guard /\ hop[c - 1] # Guard
  BY <1>2
<1>4. UpToGuard(hop) = [i \in 1 .. c |-> hop[i - 1]]
  BY DEF UpToGuard
<1> HIDE DEF c
<1>5. c = n
  <2>1. c \in Nat /\ c >= 1 /\ c - 1 \in Nat
    BY <1>1, <1>3
  <2>2. ~(c < n)
    <3>1. c < n => c \in 0 .. n - 1
      BY <1>1, <2>1
    <3> QED BY <1>3, <3>1
  <2>3. ~(c - 1 >= n)
    BY <1>3, <2>1
  <2> QED BY <1>1, <2>1, <2>2, <2>3
<1> QED BY <1>4, <1>5

(* The list as the free blocks' own cells spell it. *)
LEMMA FreeListIs ==
    ASSUME NEW B, NEW F, NEW f, NEW n, Shaped(mem, B, F, f, n, {})
    PROVE  /\ FreeList \in Seq(F) /\ Len(FreeList) = n - 2
           /\ \A i \in 1 .. n - 2 : FreeList[i] = f[i + 1]
<1> DEFINE hop == Hops(mem, Super)
           w == [i \in 1 .. n - 1 |-> hop[i - 1]]
<1>1. /\ n \in Nat /\ n >= 2 /\ f[1] = Super /\ f[n] = Guard
      /\ \A i \in 1 .. n - 1 : f[i] # Guard /\ f[i] \in F \cup {Super}
  BY ListFacts
<1>2. n <= MemorySize /\ MemorySize \in Nat
  BY ListShort, Measures
<1>3. \A i \in Nat : hop[i] = IF 1 + i <= n THEN f[1 + i] ELSE Guard
  <2>1. 1 \in 1 .. n
    BY <1>1
  <2>2. \A i \in Nat : Hops(mem, f[1])[i] = IF 1 + i <= n THEN f[1 + i] ELSE Guard
    BY <2>1, HopsAre
  <2> QED BY <1>1, <2>2
<1>4. FreeList = Tail(UpToGuard(hop))
  BY DEF FreeList
<1> HIDE DEF hop
<1>5. UpToGuard(hop) = w
  <2> DEFINE k == n - 1
  <2>1. k \in 1 .. MemorySize
    BY <1>1, <1>2
  <2>2. \A i \in 0 .. k - 1 : hop[i] # Guard
    <3> SUFFICES ASSUME NEW i \in 0 .. k - 1 PROVE hop[i] # Guard
      OBVIOUS
    <3>1. i \in Nat /\ 1 + i <= n /\ 1 + i \in 1 .. n - 1
      BY <1>1
    <3> QED BY <1>1, <1>3, <3>1
  <2>3. \A i \in Nat : i >= k => hop[i] = Guard
    <3> SUFFICES ASSUME NEW i \in Nat, i >= k PROVE hop[i] = Guard
      OBVIOUS
    <3>1. 1 + i <= n => 1 + i = n
      BY <1>1
    <3> QED BY <1>1, <1>3, <3>1
  <2> HIDE DEF k
  <2>4. UpToGuard(hop) = [i \in 1 .. k |-> hop[i - 1]]
    BY <2>1, <2>2, <2>3, UpToGuardIs
  <2> QED BY <2>4 DEF k
<1>6. \A i \in 1 .. n - 1 : w[i] = f[i]
  <2> SUFFICES ASSUME NEW i \in 1 .. n - 1 PROVE w[i] = f[i]
    OBVIOUS
  <2>1. i - 1 \in Nat /\ 1 + (i - 1) = i /\ i <= n
    BY <1>1
  <2> QED BY <1>3, <2>1
<1>7. w \in Seq(F \cup {Super}) /\ Len(w) = n - 1
  <2>1. n - 1 \in Nat
    BY <1>1
  <2>2. w \in [1 .. n - 1 -> F \cup {Super}]
    BY <1>1, <1>6
  <2> HIDE DEF w
  <2> QED BY <2>1, <2>2
<1> HIDE DEF w
<1>8. Tail(w) \in Seq(F \cup {Super}) /\ Len(Tail(w)) = n - 2
      /\ \A i \in 1 .. n - 2 : Tail(w)[i] = f[i + 1]
  <2>1. w # <<>> /\ Len(w) - 1 = n - 2
    BY <1>1, <1>7
  <2>2. Tail(w) \in Seq(F \cup {Super}) /\ Len(Tail(w)) = Len(w) - 1
        /\ \A i \in 1 .. Len(Tail(w)) : Tail(w)[i] = w[i + 1]
    BY <1>7, <2>1, HeadTailProperties
  <2>3. \A i \in 1 .. n - 2 : i + 1 \in 1 .. n - 1
    BY <1>1
  <2> QED BY <1>6, <2>1, <2>2, <2>3
<1>9. Tail(w) \in Seq(F)
  <2>1. \A i \in 1 .. n - 2 : f[i + 1] \in F
    <3> SUFFICES ASSUME NEW i \in 1 .. n - 2 PROVE f[i + 1] \in F
      OBVIOUS
    <3>1. i + 1 \in 2 .. n - 1
      BY <1>1
    <3> QED BY <3>1 DEF Shaped, Listed
  <2>2. \A i \in 1 .. Len(Tail(w)) : Tail(w)[i] \in F
    BY <1>8, <2>1
  <2> HIDE DEF w
  <2> DEFINE t == Tail(w)
  <2>3. t \in Seq(F \cup {Super}) /\ \A i \in 1 .. Len(t) : t[i] \in F
    BY <1>8, <2>2
  <2> HIDE DEF t
  <2>4. t \in [1 .. Len(t) -> F] /\ Len(t) \in Nat
    BY <2>3, ElementOfSeq, LenProperties
  <2>5. t \in Seq(F)
    BY <2>4
  <2> QED BY <2>5 DEF t
<1> QED BY <1>4, <1>5, <1>8, <1>9

(* Stepping to the right from the first block comes to the guard, past     *)
(* every block.                                                            *)
LEMMA BlocksAre ==
    ASSUME NEW B, Tiles(mem, B)
    PROVE  Blocks = B
<1> DEFINE V == B \cup {Guard}
           step == [i \in Nat |-> [b \in V |-> IF b = Guard THEN b ELSE RightOf(mem, b)]]
           hop == CHOOSE g : g = [i \in Nat |->
                      IF i = 0 THEN First
                      ELSE LET b == g[i - 1] IN IF b = Guard THEN b ELSE RightOf(mem, b)]
<1>1. /\ First \in B /\ First \in Nat /\ Guard \in Nat /\ MemorySize \in Nat
      /\ Guard < MemorySize /\ Guard \notin B /\ First \in V /\ Guard \in V
  <2>1. First \in B /\ Guard \notin B
    BY EndsOutside DEF Tiles
  <2> QED BY <2>1, Measures
<1>2. \A b \in B : /\ b \in Nat /\ First <= b /\ b < Guard /\ b < RightOf(mem, b)
                   /\ RightOf(mem, b) \in V /\ RightOf(mem, b) \in Nat
                   /\ \A c \in B : b < c => RightOf(mem, b) <= c
  <2>1. \A b \in B : /\ b \in First .. Guard - 1 /\ b \in Places /\ b < Guard
                     /\ mem[b] \in Nat /\ RightOf(mem, b) = b + 4 + mem[b]
                     /\ RightOf(mem, b) \in V
                     /\ \A c \in B : b < c => RightOf(mem, b) <= c
    BY TileFacts
  <2> QED BY <1>1, <2>1 DEF Places
<1> HIDE DEF V
<1>3. step \in [Nat -> [V -> V]]
  BY <1>2 DEF V
<1>4. \A i \in Nat, b \in V : step[i][b] = IF b = Guard THEN b ELSE RightOf(mem, b)
  OBVIOUS
<1> HIDE DEF step
<1>5. PICK h \in [Nat -> V] : Unfolds(h, First, step)
  BY <1>1, <1>3, Recurs
<1>6. ASSUME NEW i \in Nat
      PROVE  h[i] = IF i = 0 THEN First
                    ELSE LET b == h[i - 1] IN IF b = Guard THEN b ELSE RightOf(mem, b)
  <2>1. i # 0 => i - 1 \in Nat /\ h[i - 1] \in V
    BY <1>5
  <2> QED BY <1>4, <1>5, <2>1 DEF Unfolds
<1>7. h = [i \in Nat |-> IF i = 0 THEN First
                         ELSE LET b == h[i - 1] IN IF b = Guard THEN b ELSE RightOf(mem, b)]
  BY <1>5, <1>6
<1>8. hop = [i \in Nat |-> IF i = 0 THEN First
                           ELSE LET b == hop[i - 1] IN IF b = Guard THEN b ELSE RightOf(mem, b)]
  BY <1>7
<1>9. Blocks = ToSet(UpToGuard(hop))
  BY DEF Blocks
<1> HIDE DEF hop
<1>10. /\ hop[0] = First
       /\ \A i \in Nat : hop[i + 1] = IF hop[i] = Guard THEN hop[i] ELSE RightOf(mem, hop[i])
  <2>1. hop[0] = First
    BY <1>8
  <2>2. ASSUME NEW i \in Nat
        PROVE  hop[i + 1] = IF hop[i] = Guard THEN hop[i] ELSE RightOf(mem, hop[i])
    <3>1. i + 1 \in Nat /\ i + 1 # 0 /\ (i + 1) - 1 = i
      OBVIOUS
    <3> QED BY <1>8, <3>1
  <2> QED BY <2>1, <2>2
<1> DEFINE G == {i \in Nat : /\ hop[i] \in V
                             /\ hop[i] = Guard \/ hop[i] >= First + i
                             /\ \A c \in B : c < hop[i] => \E j \in 0 .. i - 1 : hop[j] = c}
<1>11. 0 \in G
  <2>1. \A c \in B : ~(c < First)
    BY <1>1, <1>2
  <2> QED BY <1>1, <1>10, <2>1
<1>12. ASSUME NEW i \in Nat, i \in G PROVE i + 1 \in G
  <2>1. /\ hop[i] \in V /\ (hop[i] = Guard \/ hop[i] >= First + i)
        /\ \A c \in B : c < hop[i] => \E j \in 0 .. i - 1 : hop[j] = c
    BY <1>12
  <2>2. \A j \in 0 .. i - 1 : j \in 0 .. (i + 1) - 1
    OBVIOUS
  <2>3. CASE hop[i] = Guard
    <3>1. hop[i + 1] = Guard
      BY <1>10, <2>3
    <3> QED BY <1>1, <2>1, <2>2, <2>3, <3>1
  <2>4. CASE hop[i] # Guard
    <3>1. hop[i] \in B /\ hop[i + 1] = RightOf(mem, hop[i])
      <4>1. hop[i] \in V
        BY <2>1
      <4>2. hop[i] \in B
        BY <2>4, <4>1 DEF V
      <4> QED BY <1>10, <2>4, <4>2
    <3>2. hop[i] \in Nat /\ hop[i + 1] \in Nat /\ hop[i] < hop[i + 1] /\ hop[i + 1] \in V
      BY <1>2, <3>1
    <3>3. hop[i + 1] >= First + (i + 1)
      BY <1>1, <2>1, <2>4, <3>2
    <3>4. ASSUME NEW c \in B, c < hop[i + 1]
          PROVE  \E j \in 0 .. (i + 1) - 1 : hop[j] = c
      <4>1. ~(hop[i] < c)
        BY <1>2, <3>1, <3>2, <3>4
      <4>2. CASE c < hop[i]
        BY <2>1, <2>2, <4>2
      <4>3. CASE c = hop[i]
        <5>1. i \in 0 .. (i + 1) - 1
          OBVIOUS
        <5> QED BY <4>3, <5>1
      <4> QED BY <1>2, <3>2, <4>1, <4>2, <4>3
    <3> QED BY <3>2, <3>3, <3>4
  <2> QED BY <2>3, <2>4
<1> HIDE DEF G
<1>13. Nat \subseteq G
  BY <1>11, <1>12, SetInduction
<1>14. /\ \A i \in Nat : hop[i] \in V /\ (hop[i] = Guard \/ hop[i] >= First + i)
       /\ \A i \in Nat : \A c \in B : c < hop[i] => \E j \in 0 .. i - 1 : hop[j] = c
  BY <1>13 DEF G
<1> DEFINE T == {i \in Nat : hop[i] = Guard}
<1>15. Guard \in T
  <2>1. hop[Guard] = Guard \/ hop[Guard] >= First + Guard
    BY <1>1, <1>14
  <2>2. hop[Guard] \in V /\ First # 0
    BY <1>1, <1>14, FixedPlaces, PlaceFacts
  <2>3. hop[Guard] \in B => hop[Guard] \in Nat /\ hop[Guard] < Guard
    BY <1>2
  <2>4. hop[Guard] = Guard
    BY <1>1, <2>1, <2>2, <2>3 DEF V
  <2> QED BY <1>1, <2>4
<1>16. PICK n \in T : \A i \in T : n <= i
  <2>1. T \subseteq Nat /\ T # {}
    BY <1>15
  <2> QED BY <2>1, LeastNumber
<1>17. n \in Nat /\ hop[n] = Guard /\ n <= Guard /\ n # 0
  BY <1>1, <1>10, <1>15, <1>16
<1>18. n \in 1 .. MemorySize
  BY <1>1, <1>17
<1>19. \A i \in 0 .. n - 1 : i \in Nat /\ hop[i] # Guard /\ hop[i] \in B
  <2> SUFFICES ASSUME NEW i \in 0 .. n - 1 PROVE hop[i] # Guard /\ i \in Nat /\ hop[i] \in B
    OBVIOUS
  <2>1. i \in Nat /\ ~(n <= i)
    BY <1>17
  <2>2. hop[i] # Guard
    BY <1>16, <2>1
  <2> QED BY <1>14, <2>1, <2>2 DEF V
<1>20. \A i \in Nat : i >= n => hop[i] = Guard
  <2> DEFINE S == {i \in Nat : hop[n + i] = Guard}
  <2>1. 0 \in S
    BY <1>17
  <2>2. ASSUME NEW i \in Nat, i \in S PROVE i + 1 \in S
    <3>1. n + i \in Nat /\ hop[n + i] = Guard /\ n + (i + 1) = (n + i) + 1
      BY <1>17, <2>2
    <3>2. hop[(n + i) + 1] = Guard
      BY <1>10, <3>1
    <3> QED BY <3>1, <3>2
  <2> HIDE DEF S
  <2>3. Nat \subseteq S
    BY <2>1, <2>2, SetInduction
  <2> SUFFICES ASSUME NEW i \in Nat, i >= n PROVE hop[i] = Guard
    OBVIOUS
  <2>4. i - n \in Nat /\ n + (i - n) = i
    BY <1>17
  <2> QED BY <2>3, <2>4 DEF S
<1> HIDE DEF T
<1>21. UpToGuard(hop) = [i \in 1 .. n |-> hop[i - 1]]
  BY <1>18, <1>19, <1>20, UpToGuardIs
<1>22. \A b : b \in ToSet(UpToGuard(hop)) <=> \E i \in 1 .. n : hop[i - 1] = b
  BY <1>21 DEF ToSet
<1>23. \A b : (\E i \in 1 .. n : hop[i - 1] = b) <=> b \in B
  <2>1. ASSUME NEW i \in 1 .. n PROVE hop[i - 1] \in B
    <3>1. i - 1 \in 0 .. n - 1
      BY <1>17
    <3> QED BY <1>19, <3>1
  <2>2. ASSUME NEW b \in B PROVE \E i \in 1 .. n : hop[i - 1] = b
    <3>1. PICK j \in 0 .. n - 1 : hop[j] = b
      BY <1>2, <1>14, <1>17
    <3>2. j + 1 \in 1 .. n /\ (j + 1) - 1 = j
      BY <1>17
    <3> QED BY <3>1, <3>2
  <2> QED BY <2>1, <2>2
<1> QED BY <1>9, <1>22, <1>23

LEMMA HInvConsistent == HInv => HeapConsistent
<1> SUFFICES ASSUME NEW B, NEW F, Owned(mem, B, F, live) PROVE HeapConsistent
  BY DEF HInv
<1>1. Kept(mem, B, F) /\ DOMAIN live = {b + 2 : b \in B \ F}
      /\ \A b \in B \ F : live[b + 2] \in Nat \ {0} /\ live[b + 2] <= mem[b]
  BY DEF Owned
<1>2. Heaped(mem, B, F, {}) /\ Apart(mem, F) /\ mem[0] = TotalSize(mem, F)
  BY <1>1 DEF Kept
<1>3. /\ Tiles(mem, B) /\ F \subseteq B
      /\ \A b \in B \ (F \cup {}) : Next(mem, b) = 0
      /\ \A b \in F : Next(mem, b) \in F \cup {Guard}
  BY <1>2, HeapedFacts
<1>4. Blocks = B
  BY <1>3, BlocksAre
<1>5. \A b \in B : b \in Nat /\ b # 0
  BY <1>3, TileFacts DEF Places
<1>6. FreeBlocks = F
  <2>1. Guard # 0
    BY PlacesAreOffsets, FixedPlaces
  <2>2. \A b \in B : Next(mem, b) # 0 <=> b \in F
    BY <1>3, <1>5, <2>1
  <2> QED BY <1>3, <1>4, <2>2 DEF FreeBlocks
<1>7. PICK f, n : Shaped(mem, B, F, f, n, {})
  BY <1>2 DEF Heaped
<1>8. /\ FreeList \in Seq(F) /\ Len(FreeList) = n - 2
      /\ \A i \in 1 .. n - 2 : FreeList[i] = f[i + 1]
  BY <1>7, FreeListIs
<1>9. /\ n \in Nat /\ n >= 2
      /\ \A i, j \in 1 .. n : f[i] = f[j] => i = j
      /\ \A b \in F : \E i \in 2 .. n - 1 : f[i] = b
      /\ \A i, j \in 1 .. n : i <= j => mem[f[i]] <= mem[f[j]]
  BY <1>7 DEF Shaped, Listed
<1> HIDE DEF FreeList
<1>10. DOMAIN FreeList = 1 .. n - 2
  <2>1. FreeList \in [1 .. Len(FreeList) -> F]
    BY <1>8, ElementOfSeq
  <2> QED BY <1>8, <2>1
<1>11. ToSet(FreeList) = F
  <2>1. \A i \in 1 .. n - 2 : FreeList[i] \in F
    <3>1. FreeList \in [1 .. n - 2 -> F]
      BY <1>8, ElementOfSeq
    <3> QED BY <3>1
  <2>2. ASSUME NEW b \in F PROVE \E i \in 1 .. n - 2 : FreeList[i] = b
    <3>1. PICK i \in 2 .. n - 1 : f[i] = b
      BY <1>9
    <3>2. i - 1 \in 1 .. n - 2 /\ (i - 1) + 1 = i
      BY <1>9
    <3> QED BY <1>8, <3>1, <3>2
  <2>3. ToSet(FreeList) = {FreeList[i] : i \in 1 .. n - 2}
    BY <1>10 DEF ToSet
  <2> QED BY <2>1, <2>2, <2>3
<1>12. IsInjective(FreeList)
  <2>1. ASSUME NEW i \in 1 .. n - 2, NEW j \in 1 .. n - 2, FreeList[i] = FreeList[j]
        PROVE  i = j
    <3>1. i + 1 \in 1 .. n /\ j + 1 \in 1 .. n /\ f[i + 1] = f[j + 1]
      BY <1>8, <1>9, <2>1
    <3>2. i + 1 = j + 1
      BY <1>9, <3>1
    <3> QED BY <3>2
  <2> QED BY <1>10, <2>1 DEF IsInjective
<1>13. \A i \in 1 .. Len(FreeList) - 1 : mem[FreeList[i]] <= mem[FreeList[i + 1]]
  <2> SUFFICES ASSUME NEW i \in 1 .. (n - 2) - 1
               PROVE  mem[FreeList[i]] <= mem[FreeList[i + 1]]
    BY <1>8
  <2>1. /\ i \in 1 .. n - 2 /\ i + 1 \in 1 .. n - 2 /\ i + 1 \in 1 .. n
        /\ (i + 1) + 1 \in 1 .. n /\ i + 1 <= (i + 1) + 1
    BY <1>9
  <2>2. FreeList[i] = f[i + 1] /\ FreeList[i + 1] = f[(i + 1) + 1]
    BY <1>8, <2>1
  <2> QED BY <1>9, <2>1, <2>2
<1>14. \A p \in DOMAIN live : live[p] <= mem[p - 2]
  <2> SUFFICES ASSUME NEW b \in B \ F PROVE live[b + 2] <= mem[(b + 2) - 2]
    BY <1>1
  <2>1. (b + 2) - 2 = b
    BY <1>5
  <2> QED BY <1>1, <2>1
<1>15. \A b \in F : RightOf(mem, b) \notin F
  BY <1>2 DEF Apart, NoneLeads
<1> QED BY <1>1, <1>2, <1>4, <1>6, <1>11, <1>12, <1>13, <1>14, <1>15 DEF HeapConsistent

(* heap.cpp: the blocks tile the array, the list of the free ones is       *)
(* sorted and without repetition, no two free blocks are neighbours, and   *)
(* mfree_size is what they sum up to, whatever is asked for and given      *)
(* back.                                                                   *)
THEOREM HeapIsConsistent == HeapSpec => []HeapConsistent
<1>1. HeapInit => HInv
  BY HeapInitInv
<1>2. HInv /\ [HeapNext]_heapVars => HInv'
  BY HeapNextInv
<1>3. HInv => HeapConsistent
  BY HInvConsistent
<1> QED BY <1>1, <1>2, <1>3, PTL DEF HeapSpec

-----------------------------------------------------------------------------
(* The refinement of the allocator.                                        *)

(* Found(p), of a memory m and a size n. *)
FoundIn(m, n, p) ==
    LET cells == {i \in p .. p + n - 1 : i % 2 = 0}
    IN  IF \A i \in cells : m[i] = 0 THEN "zero"
        ELSE IF \A i \in cells : m[i] = Pattern THEN "filled" ELSE "spoiled"

(* The cells of the first n bytes of a block's payload. *)
LEMMA PayloadCells ==
    ASSUME NEW m, NEW B, Tiles(m, B), NEW b \in B,
           NEW n \in Nat \ {0}, n <= m[b]
    PROVE  /\ \A i \in (b + 2) .. (b + 2) + n - 1 : i % 2 = 0 =>
                  i \in Offsets /\ i \in b + 2 .. b + 1 + m[b]
           /\ b + 2 \in (b + 2) .. (b + 2) + n - 1 /\ (b + 2) % 2 = 0
           /\ \A i : i \in (b + 2) .. (b + 2) + n - 1 <=> i \in b + 2 .. b + 1 + n
<1>1. /\ b \in Places /\ m[b] \in Nat /\ RightOf(m, b) = b + 4 + m[b]
      /\ RightOf(m, b) \in B \cup {Guard}
  BY TileFacts
<1>2. b + 4 + m[b] <= Guard /\ b \in Nat /\ Guard \in Nat /\ Guard < MemorySize
      /\ MemorySize \in Nat
  <2>1. \A c \in B : c < Guard /\ c \in Nat
    BY TileFacts DEF Places
  <2>2. Guard \in Nat /\ Guard < MemorySize /\ MemorySize \in Nat
    BY Measures
  <2>3. b \in Nat
    BY <1>1 DEF Places
  <2> QED BY <1>1, <2>1, <2>2, <2>3
<1>3. ASSUME NEW i \in (b + 2) .. (b + 2) + n - 1, i % 2 = 0
      PROVE  i \in Offsets /\ i \in b + 2 .. b + 1 + m[b]
  <2>1. i \in 0 .. MemorySize - 1 /\ i \in b + 2 .. b + 1 + m[b]
    BY <1>1, <1>2
  <2> QED BY <1>3, <2>1 DEF Offsets
<1>4. (b + 2) % 2 = 0
  <2>1. b % 2 = 0
    BY <1>1, FixedPlaces, PlaceFacts
  <2> QED BY <1>2, <2>1
<1>5. b + 2 \in (b + 2) .. (b + 2) + n - 1
  BY <1>2
<1>6. \A i : i \in (b + 2) .. (b + 2) + n - 1 <=> i \in b + 2 .. b + 1 + n
  <2>1. (b + 2) + n - 1 = b + 1 + n
    BY <1>2
  <2> QED BY <2>1
<1> QED BY <1>3, <1>4, <1>5, <1>6

LEMMA FoundSpared ==
    ASSUME NEW m, NEW B, Tiles(m, B), NEW b \in B, NEW k, NEW U, b \in U, Spared(m, k, U),
           NEW n \in Nat \ {0}, n <= m[b]
    PROVE  FoundIn(k, n, b + 2) = FoundIn(m, n, b + 2)
<1> DEFINE cells == {i \in b + 2 .. (b + 2) + n - 1 : i % 2 = 0}
<1>1. \A i \in cells : i \in Offsets /\ i \in b + 2 .. b + 1 + m[b]
  BY PayloadCells
<1>2. FoundIn(k, n, b + 2) = IF \A i \in cells : k[i] = 0 THEN "zero"
                             ELSE IF \A i \in cells : k[i] = Pattern THEN "filled" ELSE "spoiled"
  BY DEF FoundIn
<1>3. FoundIn(m, n, b + 2) = IF \A i \in cells : m[i] = 0 THEN "zero"
                             ELSE IF \A i \in cells : m[i] = Pattern THEN "filled" ELSE "spoiled"
  BY DEF FoundIn
<1> HIDE DEF cells
<1>4. \A i \in cells : k[i] = m[i]
  BY <1>1 DEF Spared
<1> QED BY <1>2, <1>3, <1>4

LEMMA FoundCleared ==
    ASSUME NEW m, NEW B, Tiles(m, B), NEW b \in B,
           NEW n \in Nat \ {0}, n <= m[b], Cleared(m, b, n)
    PROVE  FoundIn(m, n, b + 2) = "zero"
<1>1. \A i \in {i \in b + 2 .. (b + 2) + n - 1 : i % 2 = 0} : m[i] = 0
  BY PayloadCells DEF Cleared
<1> QED BY <1>1 DEF FoundIn

(* What the user finds, as a function of the cells. *)
LEMMA DataIs ==
    /\ [p \in DOMAIN live |-> Found(p)] = [p \in DOMAIN live |-> FoundIn(mem, live[p], p)]
    /\ [p \in DOMAIN live |-> Found(p)]' = [p \in DOMAIN live' |-> FoundIn(mem', live'[p], p)]
<1>1. [p \in DOMAIN live |-> Found(p)] = [p \in DOMAIN live |-> FoundIn(mem, live[p], p)]
  BY DEF Found, FoundIn
<1>2. [p \in DOMAIN live |-> Found(p)]' = [p \in DOMAIN live' |-> FoundIn(mem', live'[p], p)]
  BY DEF Found, FoundIn
<1> QED BY <1>1, <1>2

(* Memory that is spared holds what the user left in it.                   *)
LEMMA StaysFound ==
    ASSUME NEW B, NEW F, Owned(mem, B, F, live), NEW U, Spared(mem, mem', U),
           NEW b \in B \ F, b \in U
    PROVE  FoundIn(mem', live[b + 2], b + 2) = FoundIn(mem, live[b + 2], b + 2)
<1>1. Tiles(mem, B) /\ live[b + 2] \in Nat \ {0} /\ live[b + 2] <= mem[b]
  BY HeapedFacts DEF Owned, Kept
<1> DEFINE n == live[b + 2]
<1>2. n \in Nat \ {0} /\ n <= mem[b]
  BY <1>1
<1> HIDE DEF n
<1>3. FoundIn(mem', n, b + 2) = FoundIn(mem, n, b + 2)
  BY <1>1, <1>2, FoundSpared
<1> QED BY <1>3 DEF n

LEMMA CallocGives ==
    ASSUME HInv, NEW n \in Requests, Calloc(n)
    PROVE  \E p \in A!Addresses : A!Give(n, p)
<1>1. PICK B, F : Owned(mem, B, F, live)
  BY DEF HInv
<1>2. PICK b, C, G : /\ Obtained(mem, B, F, live, n, b, mem', C, G)
                     /\ Owned(mem', C, G, live')
                     /\ pointer' = b + 2
                     /\ live' = [p \in DOMAIN live \cup {b + 2} |->
                                     IF p = b + 2 THEN n ELSE live[p]]
  BY <1>1, CallocStep
<1>3. /\ b \in F /\ C \ G = (B \ F) \cup {b} /\ Spared(mem, mem', B \ F)
      /\ n <= mem'[b] /\ Cleared(mem', b, n) /\ Kept(mem', C, G)
  BY <1>2 DEF Obtained
<1>4. Tiles(mem', C)
  BY <1>3, HeapedFacts DEF Kept
<1>5. n \in Nat \ {0}
  BY RequestFacts
<1>6. /\ DOMAIN live = {c + 2 : c \in B \ F}
      /\ \A c \in B \ F : live[c + 2] \in Nat \ {0} /\ live[c + 2] <= mem[c]
  BY <1>1 DEF Owned
<1>7. \A c \in C : /\ c \in Nat /\ mem'[c] \in Nat /\ c + 4 + mem'[c] <= Guard
                   /\ \A d \in C : c < d => c + 4 + mem'[c] <= d
  <2>1. \A c \in C : /\ c \in Places /\ mem'[c] \in Nat
                     /\ RightOf(mem', c) = c + 4 + mem'[c]
                     /\ RightOf(mem', c) \in C \cup {Guard} /\ c < Guard
                     /\ \A d \in C : c < d => RightOf(mem', c) <= d
    BY <1>4, TileFacts
  <2>2. \A c \in C : c \in Nat
    BY <2>1 DEF Places
  <2> QED BY <2>1, <2>2, GuardFacts
<1>8. b \in C /\ b \in Nat /\ Guard < MemorySize /\ MemorySize \in Nat /\ Guard \in Nat
  <2>1. Guard < MemorySize /\ MemorySize \in Nat
    BY Measures
  <2> QED BY <1>3, <1>7, <2>1, GuardFacts
<1>9. b + 2 \in A!Addresses
  <2>1. b \in Places
    BY <1>4, <1>8, TileFacts
  <2>2. (b + 2) % AlignSize = 0
    <3>1. CASE AlignSize = 4
      BY <2>1, <3>1, <1>8, Measures DEF Places
    <3>2. CASE AlignSize = 8
      BY <2>1, <3>2, <1>8, Measures DEF Places
    <3> QED BY <3>1, <3>2, Measures
  <2>3. b + 2 \in 1 .. MemorySize
    BY <1>7, <1>8
  <2> QED BY <2>2, <2>3 DEF A!Addresses
<1>10. (b + 2) + n <= MemorySize
  BY <1>3, <1>5, <1>7, <1>8
<1>11. \A c \in B \ F : /\ c \in C /\ c # b /\ c + 2 # b + 2 /\ mem'[c] = mem[c]
  <2>1. \A c \in B \ F : c \in C /\ c # b
    BY <1>3
  <2>2. \A c \in B \ F : mem'[c] = mem[c]
    BY <1>3 DEF Spared
  <2>3. ASSUME NEW c \in B \ F PROVE c + 2 # b + 2
    <3>1. c \in Nat /\ c # b
      BY <1>7, <2>1
    <3> QED BY <1>8, <3>1
  <2> QED BY <2>1, <2>2, <2>3
<1>12. \A q \in DOMAIN live : (b + 2) + n <= q \/ q + live[q] <= b + 2
  <2> SUFFICES ASSUME NEW c \in B \ F
               PROVE  (b + 2) + n <= c + 2 \/ (c + 2) + live[c + 2] <= b + 2
    BY <1>6
  <2>1. /\ c \in Nat /\ mem'[c] \in Nat /\ live[c + 2] \in Nat /\ live[c + 2] <= mem'[c]
        /\ c \in C /\ c # b
    BY <1>6, <1>7, <1>11
  <2>2. CASE b < c
    <3>1. b + 4 + mem'[b] <= c /\ mem'[b] \in Nat
      BY <1>7, <1>8, <2>1, <2>2
    <3> QED BY <1>3, <1>5, <1>8, <2>1, <3>1
  <2>3. CASE c < b
    <3>1. c + 4 + mem'[c] <= b
      BY <1>7, <1>8, <2>1, <2>3
    <3> QED BY <1>8, <2>1, <3>1
  <2> QED BY <1>8, <2>1, <2>2, <2>3
<1>13. FoundIn(mem', n, b + 2) = "zero"
  BY <1>3, <1>4, <1>5, <1>8, FoundCleared
<1>14. ASSUME NEW q \in DOMAIN live'
       PROVE  FoundIn(mem', live'[q], q) = IF q = b + 2 THEN "zero" ELSE FoundIn(mem, live[q], q)
  <2>1. CASE q = b + 2
    <3>1. live'[q] = n
      BY <1>2, <1>14, <2>1
    <3> QED BY <1>13, <2>1, <3>1
  <2>2. CASE q # b + 2
    <3>1. q \in DOMAIN live /\ live'[q] = live[q]
      BY <1>2, <1>14, <2>2
    <3>2. PICK c \in B \ F : q = c + 2
      BY <1>6, <3>1
    <3>3. FoundIn(mem', live[q], q) = FoundIn(mem, live[q], q)
      BY <1>1, <1>3, <3>2, StaysFound
    <3> QED BY <2>2, <3>1, <3>3
  <2> QED BY <2>1, <2>2
<1>15. [p \in DOMAIN live |-> Found(p)]'
           = [q \in DOMAIN live' |->
                  IF q = b + 2 THEN "zero" ELSE [p \in DOMAIN live |-> Found(p)][q]]
  <2>1. \A q \in DOMAIN live' : q # b + 2 => q \in DOMAIN live
    BY <1>2
  <2> DEFINE data == [p \in DOMAIN live |-> FoundIn(mem, live[p], p)]
  <2>2. \A q \in DOMAIN live' :
            q # b + 2 => data[q] = FoundIn(mem, live[q], q)
    BY <2>1
  <2>3. [p \in DOMAIN live |-> Found(p)] = data
    BY DataIs
  <2> HIDE DEF data
  <2>4. [q \in DOMAIN live' |-> FoundIn(mem', live'[q], q)]
            = [q \in DOMAIN live' |-> IF q = b + 2 THEN "zero" ELSE data[q]]
    BY <1>14, <2>2
  <2> QED BY <2>3, <2>4, DataIs
<1>16. A!Give(n, b + 2)
  BY <1>2, <1>10, <1>12, <1>15 DEF A!Give
<1> QED BY <1>9, <1>16

LEMMA CallocRefuses ==
    ASSUME HInv, NEW n \in Requests, CallocFails(n)
    PROVE  A!Refuse(n)
<1>1. PICK B, F : Owned(mem, B, F, live)
  BY DEF HInv
<1>2. Kept(mem, B, F) /\ DOMAIN live = {c + 2 : c \in B \ F}
  BY <1>1 DEF Owned
<1>3. Heaped(mem, B, F, {}) /\ Apart(mem, F)
  BY <1>2 DEF Kept
<1>4. Tiles(mem, B) /\ F \subseteq B
  BY <1>3, HeapedFacts
<1> DEFINE s == Rounded(n)
           p == LastSmaller(mem, Super, s)
<1>5. s \in Sizes \ {0} /\ s < GuardSize /\ s \in Nat /\ s \in 0 .. GuardSize
  <2>1. s \in Sizes \ {0} /\ s < GuardSize
    BY RoundedIs
  <2>2. s \in Nat
    BY <2>1 DEF Sizes
  <2> QED BY <2>1, <2>2, GuardFacts
<1>6. ~IsFree(mem, Next(mem, p)) /\ pointer' = NoPtr /\ UNCHANGED <<mem, live>>
  BY DEF CallocFails
<1>7. \A t \in Sizes : n <= t => s <= t
  BY RoundedIs
<1> HIDE DEF s
<1>8. /\ Next(mem, p) \in F \cup {Guard}
      /\ Next(mem, p) = Guard => \A c \in F : mem[c] < s
  BY <1>3, <1>5, FirstFit
<1> HIDE DEF p
<1>9. \A c \in F : mem[c] < s
  <2>1. Next(mem, p) \in B \cup {Guard}
    BY <1>4, <1>8
  <2>2. Next(mem, p) \notin F
    BY <1>3, <1>6, <2>1, FreeIs
  <2> QED BY <1>8, <2>2
<1>10. n > FirstSize \/ DOMAIN live # {}
  <2> SUFFICES ASSUME DOMAIN live = {} PROVE n > FirstSize
    OBVIOUS
  <2>1. B = F
    BY <1>2, <1>4
  <2>2. First \in B
    BY <1>4 DEF Tiles
  <2>3. RightOf(mem, First) \in B \cup {Guard} /\ RightOf(mem, First) = First + 4 + mem[First]
        /\ mem[First] \in Nat
    BY <1>4, <2>2, TileFacts
  <2>4. RightOf(mem, First) \notin F
    BY <1>3, <2>1, <2>2 DEF Apart, NoneLeads
  <2>5. First + 4 + mem[First] = Guard
    BY <2>1, <2>3, <2>4
  <2>6. First + 4 + FirstSize = Guard /\ First \in Nat /\ FirstSize \in Sizes /\ FirstSize \in Nat
    BY FixedPlaces DEF Places, Sizes, Header
  <2>7. mem[First] = FirstSize
    BY <2>3, <2>5, <2>6
  <2>8. FirstSize < s
    BY <1>9, <2>1, <2>2, <2>7
  <2>9. ~(n <= FirstSize)
    BY <1>5, <1>7, <2>6, <2>8
  <2> QED BY <2>6, <2>9, RequestFacts
<1>11. [q \in DOMAIN live |-> Found(q)]' = [q \in DOMAIN live |-> Found(q)]
  BY <1>6, DataIs
<1> QED BY <1>6, <1>10, <1>11 DEF A!Refuse

LEMMA FreeTakesBack ==
    ASSUME HInv, NEW p, Free(p)
    PROVE  p \in DOMAIN live /\ A!TakeBack(p)
<1>1. PICK B, F : Owned(mem, B, F, live)
  BY DEF HInv
<1>2. PICK b, C, G : GivenBack(mem, B, F, live, b, mem', C, G, live') /\ p = b + 2
  BY <1>1, FreeStep
<1>3. /\ b \in B \ F /\ p = b + 2
      /\ C \ G = (B \ F) \ {b} /\ Spared(mem, mem', C \ G)
      /\ Owned(mem', C, G, live')
      /\ DOMAIN live' = DOMAIN live \ {p}
      /\ \A q \in DOMAIN live' : live'[q] = live[q]
  BY <1>2 DEF GivenBack
<1>4. DOMAIN live' = {c + 2 : c \in C \ G}
  BY <1>3 DEF Owned
<1>5. p \in DOMAIN live /\ live' = [q \in DOMAIN live \ {p} |-> live[q]] /\ pointer' = 0
  BY DEF Free
<1>6. ASSUME NEW q \in DOMAIN live'
      PROVE  FoundIn(mem', live'[q], q) = FoundIn(mem, live[q], q)
  <2>1. PICK c \in C \ G : q = c + 2
    BY <1>4, <1>6
  <2>2. c \in B \ F
    BY <1>3
  <2>3. FoundIn(mem', live[q], q) = FoundIn(mem, live[q], q)
    BY <1>1, <1>3, <2>1, <2>2, StaysFound
  <2> QED BY <1>3, <1>6, <2>3
<1>7. [q \in DOMAIN live |-> Found(q)]'
          = [q \in DOMAIN live' |-> [r \in DOMAIN live |-> Found(r)][q]]
  <2> DEFINE data == [q \in DOMAIN live |-> FoundIn(mem, live[q], q)]
  <2>1. \A q \in DOMAIN live' : data[q] = FoundIn(mem, live[q], q)
    BY <1>3
  <2>2. [q \in DOMAIN live |-> Found(q)] = data
    BY DataIs
  <2> HIDE DEF data
  <2>3. [q \in DOMAIN live' |-> FoundIn(mem', live'[q], q)] = [q \in DOMAIN live' |-> data[q]]
    BY <1>6, <2>1
  <2> QED BY <2>2, <2>3, DataIs
<1> QED BY <1>5, <1>7 DEF A!TakeBack

LEMMA FillFills ==
    ASSUME HInv, NEW p, Fill(p)
    PROVE  p \in DOMAIN live /\ A!Fill(p)
<1>1. PICK B, F : Owned(mem, B, F, live)
  BY DEF HInv
<1>2. PICK b : b \in B \ F /\ p = b + 2 /\ Spared(mem, mem', B \ {b})
  BY <1>1, FillStep
<1>3. /\ Tiles(mem, B) /\ DOMAIN live = {c + 2 : c \in B \ F}
      /\ live[b + 2] \in Nat \ {0} /\ live[b + 2] <= mem[b]
  BY <1>1, <1>2, HeapedFacts DEF Owned, Kept
<1>4. /\ p \in DOMAIN live /\ live' = live /\ pointer' = pointer
      /\ mem' = [i \in Offsets |-> IF i \in p .. p + live[p] - 1 THEN Pattern ELSE mem[i]]
  BY DEF Fill
<1>5. FoundIn(mem', live[p], p) = "filled"
  <2> DEFINE n == live[p]
             cells == {i \in p .. p + n - 1 : i % 2 = 0}
  <2>1. n \in Nat \ {0} /\ n <= mem[b] /\ b \in B
    BY <1>2, <1>3
  <2> HIDE DEF n
  <2>2. \A i \in cells : i \in Offsets /\ i \in p .. p + n - 1
    BY <1>2, <1>3, <2>1, PayloadCells
  <2>3. p \in cells
    BY <1>2, <1>3, <2>1, PayloadCells
  <2>4. \A i \in cells : mem'[i] = Pattern
    BY <1>4, <2>2 DEF n
  <2>5. Pattern # 0
    BY Measures DEF Pattern
  <2>6. FoundIn(mem', n, p) = IF \A i \in cells : mem'[i] = 0 THEN "zero"
                              ELSE IF \A i \in cells : mem'[i] = Pattern THEN "filled"
                              ELSE "spoiled"
    BY DEF FoundIn
  <2> HIDE DEF cells
  <2>7. FoundIn(mem', n, p) = "filled"
    BY <2>3, <2>4, <2>5, <2>6
  <2> QED BY <2>7 DEF n
<1>6. ASSUME NEW q \in DOMAIN live
      PROVE  FoundIn(mem', live[q], q) = IF q = p THEN "filled" ELSE FoundIn(mem, live[q], q)
  <2>1. CASE q = p
    BY <1>5, <2>1
  <2>2. CASE q # p
    <3>1. PICK c \in B \ F : q = c + 2
      BY <1>3, <1>6
    <3>2. c \in B \ {b}
      BY <1>2, <2>2, <3>1
    <3>3. FoundIn(mem', live[q], q) = FoundIn(mem, live[q], q)
      BY <1>1, <1>2, <3>1, <3>2, StaysFound
    <3> QED BY <2>2, <3>3
  <2> QED BY <2>1, <2>2
<1>7. [q \in DOMAIN live |-> Found(q)]'
          = [[q \in DOMAIN live |-> Found(q)] EXCEPT ![p] = "filled"]
  <2> DEFINE data == [q \in DOMAIN live |-> FoundIn(mem, live[q], q)]
  <2>1. [q \in DOMAIN live |-> FoundIn(mem', live[q], q)] = [data EXCEPT ![p] = "filled"]
    BY <1>6
  <2>2. [q \in DOMAIN live |-> Found(q)] = data
    BY DataIs
  <2>3. [q \in DOMAIN live' |-> FoundIn(mem', live'[q], q)]
            = [q \in DOMAIN live |-> FoundIn(mem', live[q], q)]
    BY <1>4
  <2> HIDE DEF data
  <2> QED BY <2>1, <2>2, <2>3, DataIs
<1> QED BY <1>4, <1>7 DEF A!Fill

(* heap.cpp does what a heap promises: blocks in use are aligned and       *)
(* disjoint, their memory is zero when it is given and then the user's     *)
(* alone, and when none is in use any request up to the capacity is met.   *)
THEOREM HeapRefines == HeapSpec => ImplementsAllocator
<1>1. HeapInit => HInv
  BY HeapInitInv
<1>2. HInv /\ [HeapNext]_heapVars => HInv'
  BY HeapNextInv
<1>3. HeapInit => A!Init
  <2> SUFFICES ASSUME HeapInit PROVE A!Init
    OBVIOUS
  <2>1. live = [p \in {} |-> 0] /\ pointer = 0
    BY DEF HeapInit
  <2>2. [p \in DOMAIN live |-> Found(p)] = [p \in {} |-> "zero"]
    BY <2>1
  <2> QED BY <2>1, <2>2 DEF A!Init
<1>4. HInv /\ [HeapNext]_heapVars
          => [A!Next]_<<live, [p \in DOMAIN live |-> Found(p)], pointer>>
  <2> SUFFICES ASSUME HInv, [HeapNext]_heapVars
               PROVE  [A!Next]_<<live, [p \in DOMAIN live |-> Found(p)], pointer>>
    OBVIOUS
  <2>1. ASSUME NEW n \in Requests, Calloc(n) PROVE A!Next
    <3>1. \E p \in A!Addresses : A!Give(n, p)
      BY <2>1, CallocGives
    <3> QED BY <3>1 DEF A!Next
  <2>2. ASSUME NEW n \in Requests, CallocFails(n) PROVE A!Next
    <3>1. A!Refuse(n)
      BY <2>2, CallocRefuses
    <3> QED BY <3>1 DEF A!Next
  <2>3. ASSUME NEW p \in Offsets, Free(p) PROVE A!Next
    <3>1. p \in DOMAIN live /\ A!TakeBack(p)
      BY <2>3, FreeTakesBack
    <3> QED BY <3>1 DEF A!Next
  <2>4. ASSUME NEW p \in Offsets, Fill(p) PROVE A!Next
    <3>1. p \in DOMAIN live /\ A!Fill(p)
      BY <2>4, FillFills
    <3> QED BY <3>1 DEF A!Next
  <2>5. CASE UNCHANGED heapVars
    <3>1. live' = live /\ mem' = mem /\ pointer' = pointer
      BY <2>5 DEF heapVars
    <3>2. [p \in DOMAIN live |-> Found(p)]' = [p \in DOMAIN live |-> Found(p)]
      BY <3>1, DataIs
    <3> QED BY <3>1, <3>2
  <2> QED BY <2>1, <2>2, <2>3, <2>4, <2>5 DEF HeapNext
<1> QED BY <1>1, <1>2, <1>3, <1>4, PTL DEF HeapSpec, ImplementsAllocator, A!Spec
=============================================================================
