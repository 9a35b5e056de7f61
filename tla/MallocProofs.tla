---------------------------- MODULE MallocProofs ----------------------------
(***************************************************************************)
(* Proofs about the allocator, for every size of the memory, set of blocks *)
(* and set of requests.  The routines of mm.c are described one after the  *)
(* other on a heap that is given by its blocks: B is the set of blocks, sz *)
(* their sizes, F the free ones and L those that are in a free list.  On   *)
(* these rest the inductive invariant HeapInductive, the invariants of     *)
(* HeapProperties, and that the allocator implements the driver's demands. *)
(***************************************************************************)
EXTENDS HeapProperties, FiniteSetTheorems, SequenceTheorems, WellFoundedInduction, TLAPS

-----------------------------------------------------------------------------
(* Addresses.                                                              *)

(* A multiple of 8: a block, or its size.                                  *)
Aligned(x) == x \in Int /\ x % 8 = 0

(* The first block, and the list heads.                                    *)
Prologue == List(12)
Heads    == {List(i) : i \in 0..LIST_NUM - 1}

(* Sums and differences of multiples of 8.                                 *)
LEMMA AlignedSum ==
    \A x, y : Aligned(x) /\ Aligned(y) => Aligned(x + y) /\ Aligned(x - y)
BY DEF Aligned

(* Multiples of 8 are at least 8 apart.                                    *)
LEMMA AlignedEight ==
    /\ Aligned(8) /\ Aligned(16) /\ Aligned(0) /\ Aligned(48)
    /\ \A x, y : Aligned(x) /\ Aligned(y) /\ x < y => x + 8 <= y
BY DEF Aligned

(* The words at an aligned address and after it.                           *)
LEMMA AlignedWords ==
    ASSUME NEW x, Aligned(x), HeapLo <= x, x < MaxAddr
    PROVE  x \in Words /\ x + 4 \in Words
<1> DEFINE k == (x - HeapLo) \div 4
<1>1. /\ x \in Int /\ x % 8 = 0 /\ HeapLo \in Nat /\ HeapLo % 8 = 0
      /\ MAX_HEAP \in Nat /\ MAX_HEAP % 8 = 0 /\ x < HeapLo + MAX_HEAP
  BY HeapAssumption DEF Aligned, MaxAddr
<1>2. k \in Nat /\ x = HeapLo + 4 * k /\ x + 4 = HeapLo + 4 * (k + 1)
  BY <1>1
<1>3. k + 1 <= (MAX_HEAP \div 4) - 1
  BY <1>1, <1>2
<1> HIDE DEF k
<1>4. k \in 0..(MAX_HEAP \div 4) - 1 /\ k + 1 \in 0..(MAX_HEAP \div 4) - 1
  BY <1>1, <1>2, <1>3
<1> QED BY <1>2, <1>4 DEF Words, WSIZE

(* The words of the memory.  NULL is none of them.                         *)
LEMMA WordsAre ==
    /\ \A a \in Words : a \in Nat /\ HeapLo <= a /\ a < MaxAddr /\ a + 4 <= MaxAddr
    /\ NULL \notin Words
<1>1. ASSUME NEW a \in Words
      PROVE  a \in Nat /\ HeapLo <= a /\ a < MaxAddr /\ a + 4 <= MaxAddr /\ a # 0
  <2>1. PICK k \in 0..(MAX_HEAP \div 4) - 1 : a = HeapLo + 4 * k
    BY DEF Words, WSIZE
  <2>2. HeapLo \in Nat /\ HeapLo # 0 /\ MAX_HEAP \in Nat
    BY HeapAssumption
  <2>3. 4 * (MAX_HEAP \div 4) <= MAX_HEAP /\ MAX_HEAP \div 4 \in Nat
    BY <2>2
  <2> QED BY <2>1, <2>2, <2>3 DEF MaxAddr
<1> QED BY <1>1 DEF NULL

(* The fixed places of the heap.                                           *)
LEMMA Places ==
    /\ HeapLo \in Nat /\ HeapLo > 0 /\ Aligned(HeapLo)
    /\ MaxAddr \in Nat /\ Aligned(MaxAddr) /\ MaxAddr >= HeapLo + 112
    /\ Prologue = HeapLo + 48 /\ First = HeapLo + 56 /\ Sentinel = HeapLo + 104
    /\ Aligned(Prologue) /\ Aligned(First) /\ Aligned(Sentinel)
    /\ LIST_NUM = 11 /\ WSIZE = 4 /\ NULL = 0
    /\ \A i \in Int : List(i) = HeapLo + 4 * i
<1>1. /\ HeapLo \in Nat /\ HeapLo > 0 /\ HeapLo % 8 = 0
      /\ MAX_HEAP \in Nat /\ MAX_HEAP % 8 = 0 /\ MAX_HEAP >= 112
  BY HeapAssumption
<1>2. \A i \in Int : List(i) = HeapLo + 4 * i
  BY DEF List, WSIZE
<1>3. Prologue = HeapLo + 48 /\ First = HeapLo + 56 /\ Sentinel = HeapLo + 104
  BY <1>1, <1>2 DEF Prologue, First, Sentinel
<1>4. MaxAddr \in Nat /\ Aligned(MaxAddr) /\ MaxAddr >= HeapLo + 112
  BY <1>1 DEF MaxAddr, Aligned
<1> QED BY <1>1, <1>2, <1>3, <1>4 DEF Aligned, LIST_NUM, WSIZE, NULL

(* The list heads are words before the prologue.                           *)
LEMMA HeadsAre ==
    \A x \in Heads : x \in Words /\ x \in Nat /\ x >= HeapLo /\ x <= Prologue - 8
<1> SUFFICES ASSUME NEW i \in 0..10
             PROVE  List(i) \in Words /\ List(i) \in Nat /\ List(i) >= HeapLo /\ List(i) <= Prologue - 8
  BY Places DEF Heads
<1>1. List(i) = HeapLo + 4 * i /\ List(i) \in Nat /\ List(i) >= HeapLo /\ List(i) <= Prologue - 8
  BY Places
<1>2. i \in 0..(MAX_HEAP \div 4) - 1
  BY HeapAssumption
<1> QED BY <1>1, <1>2 DEF Words, WSIZE

(* A tag and its parts.                                                    *)
LEMMA TagParts ==
    ASSUME NEW s, Aligned(s)
    PROVE  /\ MultipleOf8(s) = s /\ MultipleOf8(s + 1) = s
           /\ s % 2 # 1 /\ (s + 1) % 2 = 1
BY DEF Aligned, MultipleOf8

-----------------------------------------------------------------------------
(* Blocks that tile the heap.                                              *)

(* The blocks B, of the sizes sz, cover the heap from the prologue to e.   *)
Layout(B, sz, e) ==
    /\ e <= MaxAddr
    /\ sz \in [Nat -> Nat]
    /\ Prologue \in B /\ sz[Prologue] = 8 /\ Sentinel \in B /\ sz[Sentinel] = 8
    /\ \A b \in B :
         /\ b \in Nat /\ Aligned(b) /\ Aligned(sz[b]) /\ b >= Prologue
         /\ sz[b] >= 16 \/ b \in {Prologue, Sentinel}
         /\ b + sz[b] \in B \cup {e}
         /\ b + sz[b] <= e
         /\ b # Prologue => \E c \in B : c + sz[c] = b
    /\ \E c \in B : c + sz[c] = e
    /\ \A b, c \in B : b < c => b + sz[b] <= c

(* What every block is like.                                               *)
LEMMA BlockFacts ==
    ASSUME NEW B, NEW sz, NEW e, Layout(B, sz, e)
    PROVE  /\ e \in Nat /\ Aligned(e) /\ e \notin B /\ e <= MaxAddr
           /\ \A b \in B :
                /\ b \in Nat /\ sz[b] \in Nat /\ sz[b] >= 8 /\ Aligned(b) /\ Aligned(sz[b])
                /\ b >= Prologue /\ b + sz[b] <= e
                /\ b \notin {Prologue, Sentinel} => sz[b] >= 16
<1>1. \A b \in B :
        /\ b \in Nat /\ sz[b] \in Nat /\ sz[b] >= 8 /\ Aligned(b) /\ Aligned(sz[b])
        /\ b >= Prologue /\ b + sz[b] <= e
        /\ b \notin {Prologue, Sentinel} => sz[b] >= 16
  BY DEF Layout
<1>2. PICK c \in B : c + sz[c] = e
  BY DEF Layout
<1>3. e \in Nat /\ Aligned(e)
  <2>1. Aligned(c) /\ Aligned(sz[c]) /\ c \in Nat /\ sz[c] \in Nat
    BY <1>1
  <2> QED BY <2>1, <1>2, AlignedSum
<1>4. e \notin B
  BY <1>1, <1>3
<1> QED BY <1>1, <1>3, <1>4 DEF Layout

(* The words of a block.                                                   *)
LEMMA BlockWords ==
    ASSUME NEW B, NEW sz, NEW e, Layout(B, sz, e), NEW b \in B
    PROVE  /\ b - 4 \in Words /\ b + sz[b] - 8 \in Words
           /\ e - 4 \in Words /\ b \in Words
           /\ sz[b] >= 16 => b + 4 \in Words
<1>1. /\ b \in Nat /\ sz[b] \in Nat /\ sz[b] >= 8 /\ Aligned(b) /\ Aligned(sz[b])
      /\ b >= Prologue /\ b + sz[b] <= e /\ e \in Nat /\ Aligned(e) /\ e <= MaxAddr
  BY BlockFacts
<1>2. Aligned(b - 8) /\ Aligned(b + sz[b] - 8) /\ Aligned(e - 8)
  <2>1. Aligned(b + sz[b]) /\ Aligned(8)
    BY <1>1, AlignedSum, AlignedEight
  <2> QED BY <2>1, <1>1, AlignedSum
<1>3. b - 8 \in Int /\ HeapLo <= b - 8 /\ b - 8 < MaxAddr
  BY <1>1, Places
<1>4. HeapLo <= b + sz[b] - 8 /\ b + sz[b] - 8 < MaxAddr /\ HeapLo <= e - 8 /\ e - 8 < MaxAddr
  BY <1>1, Places
<1>5. HeapLo <= b /\ b < MaxAddr
  BY <1>1, Places
<1>6. (b - 8) + 4 \in Words /\ b + sz[b] - 8 \in Words /\ (e - 8) + 4 \in Words /\ b \in Words /\ b + 4 \in Words
  BY <1>2, <1>3, <1>4, <1>5, <1>1, AlignedWords
<1>7. (b - 8) + 4 = b - 4 /\ (e - 8) + 4 = e - 4
  BY <1>1
<1> QED BY <1>6, <1>7

(* Two blocks have no word in common.                                      *)
LEMMA BlocksApart ==
    ASSUME NEW B, NEW sz, NEW e, Layout(B, sz, e), NEW b \in B, NEW c \in B, b # c
    PROVE  b + sz[b] <= c \/ c + sz[c] <= b
<1>1. b \in Nat /\ c \in Nat
  BY BlockFacts
<1> QED BY <1>1 DEF Layout

(* The block that ends where another begins.                               *)
LEMMA OnePredecessor ==
    ASSUME NEW B, NEW sz, NEW e, Layout(B, sz, e), NEW b \in B, NEW c \in B,
           b + sz[b] = c + sz[c]
    PROVE  b = c
<1>1. b \in Nat /\ c \in Nat /\ sz[b] \in Nat /\ sz[c] \in Nat /\ sz[b] >= 8 /\ sz[c] >= 8
  BY BlockFacts
<1> QED BY <1>1, BlocksApart

(* A block is split in two: b keeps s bytes.                               *)
Split(B, sz, e, b, s, B2, sz2) ==
    /\ Layout(B, sz, e) /\ b \in B \ {Prologue, Sentinel}
    /\ Aligned(s) /\ s >= 16 /\ sz[b] - s >= 16
    /\ B2 = B \cup {b + s}
    /\ sz2 = [sz EXCEPT ![b] = s, ![b + s] = sz[b] - s]

(* A block split in two leaves the heap tiled (place).                     *)
LEMMA LayoutSplit ==
    ASSUME NEW B, NEW sz, NEW e, NEW b, NEW s, NEW B2, NEW sz2, Split(B, sz, e, b, s, B2, sz2)
    PROVE  /\ b + s \notin B /\ b + s \in Nat
           /\ \A c \in B : c # b => sz2[c] = sz[c]
           /\ sz2[b] = s /\ sz2[b + s] = sz[b] - s
           /\ Layout(B2, sz2, e)
<1> DEFINE d   == b + s
<1>0. /\ Layout(B, sz, e) /\ b \in B \ {Prologue, Sentinel}
      /\ Aligned(s) /\ s >= 16 /\ sz[b] - s >= 16
      /\ B2 = B \cup {d}
      /\ sz2 = [sz EXCEPT ![b] = s, ![d] = sz[b] - s]
  BY DEF Split
<1> USE <1>0
<1>1. /\ b \in Nat /\ sz[b] \in Nat /\ Aligned(b) /\ Aligned(sz[b]) /\ b + sz[b] <= e /\ b >= Prologue
      /\ e \in Nat /\ s \in Nat /\ sz \in [Nat -> Nat]
  BY BlockFacts DEF Aligned, Layout
<1>2. d \in Nat /\ d > b /\ d < b + sz[b] /\ sz[b] - s \in Nat
  BY <1>1
<1>3. d \notin B
  BY <1>1, <1>2 DEF Layout
<1>4. sz2 \in [Nat -> Nat] /\ sz2[b] = s /\ sz2[d] = sz[b] - s /\ \A c \in B : c # b => sz2[c] = sz[c]
  <2> HIDE DEF d
  <2>1. \A c \in B : c # d /\ c \in Nat
    BY <1>3, BlockFacts
  <2> QED BY <1>1, <1>2, <2>1
<1>5. Aligned(d) /\ Aligned(sz[b] - s) /\ d + (sz[b] - s) = b + sz[b]
  <2>1. Aligned(d) /\ Aligned(sz[b] - s)
    BY <1>1, AlignedSum
  <2>2. (b + s) + (sz[b] - s) = b + sz[b]
    BY <1>1
  <2> QED BY <2>1, <2>2
<1>50. /\ Layout(B, sz, e) /\ b \in B /\ b # Prologue /\ b # Sentinel
       /\ s >= 16 /\ sz[b] - s >= 16 /\ Aligned(s)
       /\ \A c : c \in B2 <=> c \in B \/ c = d
  OBVIOUS
<1> HIDE <1>0
<1> USE <1>50
<1> HIDE DEF d
<1>6. \A c \in B2 : c \in Nat /\ Aligned(c) /\ Aligned(sz2[c]) /\ c >= Prologue
                    /\ (sz2[c] >= 16 \/ c \in {Prologue, Sentinel})
  <2>1. ASSUME NEW c \in B, c # b
        PROVE  c \in Nat /\ Aligned(c) /\ Aligned(sz2[c]) /\ c >= Prologue
               /\ (sz2[c] >= 16 \/ c \in {Prologue, Sentinel})
    BY <2>1, <1>4 DEF Layout
  <2>2. b \in Nat /\ Aligned(b) /\ Aligned(sz2[b]) /\ b >= Prologue /\ sz2[b] >= 16
    BY <1>1, <1>4
  <2>3. d \in Nat /\ Aligned(d) /\ Aligned(sz2[d]) /\ d >= Prologue /\ sz2[d] >= 16
    BY <1>1, <1>2, <1>4, <1>5, Places
  <2> QED BY <2>1, <2>2, <2>3
<1>7. \A c \in B : c # b => c + sz2[c] = c + sz[c]
  BY <1>4
<1>8. b + sz2[b] = d /\ d + sz2[d] = b + sz[b]
  BY <1>4, <1>5 DEF d
<1>9. \A c \in B2 : c + sz2[c] \in B2 \cup {e} /\ c + sz2[c] <= e
  <2>1. \A c \in B : c + sz[c] \in B \cup {e} /\ c + sz[c] <= e
    BY DEF Layout
  <2>2. ASSUME NEW c \in B, c # b PROVE c + sz2[c] \in B2 \cup {e} /\ c + sz2[c] <= e
    BY <2>1, <2>2, <1>7
  <2>3. b + sz2[b] \in B2 \cup {e} /\ b + sz2[b] <= e
    BY <1>1, <1>2, <1>8
  <2>4. d + sz2[d] \in B2 \cup {e} /\ d + sz2[d] <= e
    BY <2>1, <1>8
  <2> QED BY <2>2, <2>3, <2>4
<1>10. \A c \in B2 : c # Prologue => \E a \in B2 : a + sz2[a] = c
  <2> SUFFICES ASSUME NEW c \in B, c # Prologue PROVE \E a \in B2 : a + sz2[a] = c
    BY <1>8
  <2>1. PICK a \in B : a + sz[a] = c
    BY DEF Layout
  <2>2. CASE a = b
    BY <2>1, <2>2, <1>8
  <2>3. CASE a # b
    BY <2>1, <2>3, <1>7
  <2> QED BY <2>2, <2>3
<1>11. \E a \in B2 : a + sz2[a] = e
  <2>1. PICK a \in B : a + sz[a] = e
    BY DEF Layout
  <2>2. CASE a = b
    BY <2>1, <2>2, <1>8
  <2>3. CASE a # b
    BY <2>1, <2>3, <1>7
  <2> QED BY <2>2, <2>3
<1>12. \A a, c \in B2 : a < c => a + sz2[a] <= c
  <2> SUFFICES ASSUME NEW a \in B2, NEW c \in B2, a < c PROVE a + sz2[a] <= c
    OBVIOUS
  <2>1. CASE a = b
    <3>1. CASE c = d
      BY <3>1, <2>1, <1>8, <1>2
    <3>2. CASE c # d
      <4>1. c \in Nat /\ b + sz[b] <= c
        BY <2>1, <3>2, BlockFacts DEF Layout
      <4> QED BY <4>1, <2>1, <1>2, <1>8, <1>1
    <3> QED BY <3>1, <3>2
  <2>2. CASE a = d
    <3>1. c \in B
      BY <2>2, <1>2
    <3>2. c \in Nat
      BY <3>1, BlockFacts
    <3>3. b < c /\ c \in Nat
      BY <3>2, <2>2, <1>1, <1>2
    <3>4. b + sz[b] <= c
      BY <3>1, <3>3 DEF Layout
    <3> QED BY <3>4, <2>2, <1>8
  <2>3. CASE a \in B /\ a # b
    <3>1. CASE c = d
      <4>1. a \in Nat /\ sz[a] \in Nat /\ a + sz2[a] = a + sz[a]
        BY <2>3, <1>7, BlockFacts
      <4>2. a + sz[a] <= b \/ b + sz[b] <= a
        BY <2>3, BlocksApart
      <4> QED BY <4>1, <4>2, <3>1, <1>1, <1>2
    <3>2. CASE c \in B
      BY <3>2, <2>3, <1>7 DEF Layout
    <3> QED BY <3>1, <3>2
  <2> QED BY <2>1, <2>2, <2>3
<1>13. Prologue \in B2 /\ sz2[Prologue] = 8 /\ Sentinel \in B2 /\ sz2[Sentinel] = 8 /\ e <= MaxAddr
  BY <1>4 DEF Layout
<1>14. Layout(B2, sz2, e)
  BY <1>4, <1>6, <1>9, <1>10, <1>11, <1>12, <1>13 DEF Layout
<1> QED BY <1>2, <1>3, <1>4, <1>14 DEF d

(* A block takes in the next one.                                          *)
LEMMA LayoutMerge ==
    ASSUME NEW B, NEW sz, NEW e, Layout(B, sz, e),
           NEW b \in B \ {Prologue, Sentinel}, NEW n \in B \ {Prologue, Sentinel}, b + sz[b] = n
    PROVE  LET sz2 == [sz EXCEPT ![b] = sz[b] + sz[n]]
           IN  /\ b # n
               /\ \A c \in B : c # b => sz2[c] = sz[c]
               /\ sz2[b] = sz[b] + sz[n]
               /\ Layout(B \ {n}, sz2, e)
<1> DEFINE sz2 == [sz EXCEPT ![b] = sz[b] + sz[n]]
           B2  == B \ {n}
<1>1. /\ b \in Nat /\ sz[b] \in Nat /\ Aligned(b) /\ Aligned(sz[b]) /\ b >= Prologue /\ sz[b] >= 8
      /\ n \in Nat /\ sz[n] \in Nat /\ Aligned(n) /\ Aligned(sz[n]) /\ n + sz[n] <= e /\ sz[n] >= 8
      /\ e \in Nat /\ sz \in [Nat -> Nat] /\ sz[b] >= 16
  BY BlockFacts DEF Layout
<1>2. b # n /\ b < n
  BY <1>1
<1>3. sz2 \in [Nat -> Nat] /\ sz2[b] = sz[b] + sz[n] /\ \A c \in B : c # b => sz2[c] = sz[c]
  <2>1. \A c \in B : c \in Nat
    BY BlockFacts
  <2> QED BY <1>1, <2>1
<1>4. Aligned(sz[b] + sz[n])
  BY <1>1, AlignedSum
<1> HIDE DEF sz2
<1>5. \A c \in B : c # b => c + sz2[c] = c + sz[c]
  BY <1>3
<1>6. b + sz2[b] = n + sz[n]
  <2>1. b + (sz[b] + sz[n]) = (b + sz[b]) + sz[n]
    BY <1>1
  <2> QED BY <2>1, <1>3
<1>7. \A c \in B2 : c \in Nat /\ Aligned(c) /\ Aligned(sz2[c]) /\ c >= Prologue
                    /\ (sz2[c] >= 16 \/ c \in {Prologue, Sentinel})
  <2>1. ASSUME NEW c \in B, c # b
        PROVE  c \in Nat /\ Aligned(c) /\ Aligned(sz2[c]) /\ c >= Prologue
               /\ (sz2[c] >= 16 \/ c \in {Prologue, Sentinel})
    BY <2>1, <1>3 DEF Layout
  <2>2. b \in Nat /\ Aligned(b) /\ Aligned(sz2[b]) /\ b >= Prologue /\ sz2[b] >= 16
    BY <1>1, <1>3, <1>4
  <2> QED BY <2>1, <2>2
<1>8. \A c \in B : c # b => c + sz[c] # n
  BY OnePredecessor
<1>9. \A c \in B2 : c + sz2[c] \in B2 \cup {e} /\ c + sz2[c] <= e
  <2>1. \A c \in B : c + sz[c] \in B \cup {e} /\ c + sz[c] <= e
    BY DEF Layout
  <2>2. ASSUME NEW c \in B, c # b PROVE c + sz2[c] \in B2 \cup {e} /\ c + sz2[c] <= e
    BY <2>1, <2>2, <1>5, <1>8
  <2>3. n + sz[n] # n
    BY <1>1
  <2>4. b + sz2[b] \in B2 \cup {e} /\ b + sz2[b] <= e
    BY <2>1, <2>3, <1>6
  <2> QED BY <2>2, <2>4
<1>10. ASSUME NEW c, c # n, NEW a \in B, a + sz[a] = c
       PROVE  \E a2 \in B2 : a2 + sz2[a2] = c
  <2>1. CASE a = n
    BY <1>10, <2>1, <1>6, <1>2
  <2>2. CASE a # n /\ a # b
    BY <1>10, <2>2, <1>5
  <2>3. CASE a = b
    BY <1>10, <2>3
  <2> QED BY <2>1, <2>2, <2>3
<1>11. \A c \in B2 : c # Prologue => \E a \in B2 : a + sz2[a] = c
  BY <1>10 DEF Layout
<1>12. \E a \in B2 : a + sz2[a] = e
  <2>1. e # n
    BY BlockFacts
  <2> QED BY <1>10, <2>1 DEF Layout
<1>13. \A a, c \in B2 : a < c => a + sz2[a] <= c
  <2> SUFFICES ASSUME NEW a \in B2, NEW c \in B2, a < c PROVE a + sz2[a] <= c
    OBVIOUS
  <2>1. CASE a = b
    <3>1. c \in Nat /\ n <= c
      BY <2>1, BlockFacts DEF Layout
    <3>2. n < c
      BY <3>1, <1>1
    <3>3. n + sz[n] <= c
      BY <3>2 DEF Layout
    <3> QED BY <3>3, <2>1, <1>6
  <2>2. CASE a # b
    BY <2>2, <1>5 DEF Layout
  <2> QED BY <2>1, <2>2
<1>14. Prologue \in B2 /\ sz2[Prologue] = 8 /\ Sentinel \in B2 /\ sz2[Sentinel] = 8 /\ e <= MaxAddr
  BY <1>3 DEF Layout
<1>15. Layout(B2, sz2, e)
  BY <1>3, <1>7, <1>9, <1>11, <1>12, <1>13, <1>14 DEF Layout
<1> QED BY <1>2, <1>3, <1>15 DEF sz2

(* A new block at the end.                                                 *)
Extends(B, sz, e, s, B2, sz2, e2) ==
    /\ Layout(B, sz, e)
    /\ Aligned(s) /\ s >= 16 /\ e + s <= MaxAddr
    /\ B2 = B \cup {e} /\ sz2 = [sz EXCEPT ![e] = s] /\ e2 = e + s

(* So does a block added at the end (extend_heap),                         *)
LEMMA LayoutExtend ==
    ASSUME NEW B, NEW sz, NEW e, NEW s, NEW B2, NEW sz2, NEW e2, Extends(B, sz, e, s, B2, sz2, e2)
    PROVE  /\ \A c \in B : sz2[c] = sz[c]
           /\ sz2[e] = s
           /\ Layout(B2, sz2, e2)
<1>0. /\ Layout(B, sz, e)
      /\ Aligned(s) /\ s >= 16 /\ e + s <= MaxAddr
      /\ B2 = B \cup {e} /\ sz2 = [sz EXCEPT ![e] = s] /\ e2 = e + s
  BY DEF Extends
<1> USE <1>0
<1>1. e \in Nat /\ Aligned(e) /\ e \notin B /\ s \in Nat /\ sz \in [Nat -> Nat]
  <2>1. e \in Nat /\ Aligned(e) /\ e \notin B
    BY BlockFacts
  <2>2. s \in Nat
    BY DEF Aligned
  <2> QED BY <2>1, <2>2 DEF Layout
<1>2. e2 \in Nat /\ e2 > e
  BY <1>1
<1>3. sz2 \in [Nat -> Nat] /\ sz2[e] = s /\ \A c \in B : sz2[c] = sz[c]
  <2>1. \A c \in B : c \in Nat /\ c # e
    BY BlockFacts
  <2> QED BY <1>1, <2>1
<1>4. \A c \in B : c + sz2[c] = c + sz[c]
  BY <1>3
<1>5. e + sz2[e] = e2
  BY <1>3
<1>6. e >= Prologue
  <2>1. PICK c \in B : c + sz[c] = e
    BY DEF Layout
  <2>2. c \in Nat /\ sz[c] \in Nat /\ c >= Prologue
    BY BlockFacts
  <2> QED BY <2>1, <2>2, Places
<1>7. \A c \in B2 : c \in Nat /\ Aligned(c) /\ Aligned(sz2[c]) /\ c >= Prologue
                    /\ (sz2[c] >= 16 \/ c \in {Prologue, Sentinel})
  <2>1. ASSUME NEW c \in B
        PROVE  c \in Nat /\ Aligned(c) /\ Aligned(sz2[c]) /\ c >= Prologue
               /\ (sz2[c] >= 16 \/ c \in {Prologue, Sentinel})
    BY <1>3 DEF Layout
  <2>2. e \in Nat /\ Aligned(e) /\ Aligned(sz2[e]) /\ e >= Prologue /\ sz2[e] >= 16
    BY <1>1, <1>3, <1>6
  <2> QED BY <2>1, <2>2
<1>8. \A c \in B2 : c + sz2[c] \in B2 \cup {e2} /\ c + sz2[c] <= e2
  <2>1. ASSUME NEW c \in B PROVE c + sz2[c] \in B2 \cup {e2} /\ c + sz2[c] <= e2
    <3>1. c + sz[c] \in B \cup {e} /\ c + sz[c] <= e /\ c \in Nat /\ sz[c] \in Nat
      BY BlockFacts DEF Layout
    <3>2. c + sz[c] <= e2
      BY <3>1, <1>1, <1>2
    <3> QED BY <3>1, <3>2, <1>4
  <2>2. e2 <= e2
    BY <1>2
  <2> QED BY <2>1, <2>2, <1>5
<1>9. \A c \in B2 : c # Prologue => \E a \in B2 : a + sz2[a] = c
  BY <1>4 DEF Layout
<1>10. \E a \in B2 : a + sz2[a] = e2
  BY <1>5
<1>11. \A a, c \in B2 : a < c => a + sz2[a] <= c
  <2>1. \A a, c \in B : a < c => a + sz2[a] <= c
    BY <1>4 DEF Layout
  <2>2. \A a \in B : a + sz2[a] <= e
    BY <1>4 DEF Layout
  <2>3. \A c \in B : ~(e < c)
    <3>1. \A c \in B : c \in Nat /\ sz[c] \in Nat /\ c + sz[c] <= e
      BY BlockFacts
    <3> QED BY <3>1, <1>1
  <2>4. ~(e < e)
    BY <1>1
  <2> QED BY <2>1, <2>2, <2>3, <2>4
<1>12. Prologue \in B2 /\ sz2[Prologue] = 8 /\ Sentinel \in B2 /\ sz2[Sentinel] = 8 /\ e2 <= MaxAddr
  BY <1>3 DEF Layout
<1>13. Layout(B2, sz2, e2)
  BY <1>3, <1>7, <1>8, <1>9, <1>10, <1>11, <1>12 DEF Layout
<1> QED BY <1>3, <1>13

(* The last block grows.                                                   *)
Grows(B, sz, e, b, s, sz2, e2) ==
    /\ Layout(B, sz, e) /\ b \in B \ {Prologue, Sentinel} /\ b + sz[b] = e
    /\ Aligned(s) /\ s >= sz[b] /\ b + s <= MaxAddr
    /\ sz2 = [sz EXCEPT ![b] = s] /\ e2 = b + s

(* or the last block made larger (mm_realloc).                             *)
LEMMA LayoutGrow ==
    ASSUME NEW B, NEW sz, NEW e, NEW b, NEW s, NEW sz2, NEW e2, Grows(B, sz, e, b, s, sz2, e2)
    PROVE  /\ \A c \in B : c # b => sz2[c] = sz[c]
           /\ sz2[b] = s
           /\ Layout(B, sz2, e2)
<1>0. /\ Layout(B, sz, e) /\ b \in B \ {Prologue, Sentinel} /\ b + sz[b] = e
      /\ Aligned(s) /\ s >= sz[b] /\ b + s <= MaxAddr
      /\ sz2 = [sz EXCEPT ![b] = s] /\ e2 = b + s
  BY DEF Grows
<1> USE <1>0
<1>1. /\ b \in Nat /\ sz[b] \in Nat /\ Aligned(b) /\ b >= Prologue /\ sz[b] >= 16
      /\ e \in Nat /\ s \in Nat /\ sz \in [Nat -> Nat] /\ e \notin B
  <2>1. /\ b \in Nat /\ sz[b] \in Nat /\ Aligned(b) /\ b >= Prologue /\ sz[b] >= 16
        /\ e \in Nat /\ sz \in [Nat -> Nat] /\ e \notin B
    BY BlockFacts DEF Layout
  <2> QED BY <2>1 DEF Aligned
<1>2. e2 \in Nat /\ e2 >= e
  BY <1>1
<1>3. sz2 \in [Nat -> Nat] /\ sz2[b] = s /\ \A c \in B : c # b => sz2[c] = sz[c]
  <2>1. \A c \in B : c \in Nat
    BY BlockFacts
  <2> QED BY <1>1, <2>1
<1>4. \A c \in B : c # b => c + sz2[c] = c + sz[c]
  BY <1>3
<1>5. b + sz2[b] = e2
  BY <1>3
<1>6. \A c \in B : c # b => c + sz[c] # e
  BY OnePredecessor
<1>7. \A c \in B : c \in Nat /\ Aligned(c) /\ Aligned(sz2[c]) /\ c >= Prologue
                    /\ (sz2[c] >= 16 \/ c \in {Prologue, Sentinel})
  <2>1. ASSUME NEW c \in B, c # b
        PROVE  c \in Nat /\ Aligned(c) /\ Aligned(sz2[c]) /\ c >= Prologue
               /\ (sz2[c] >= 16 \/ c \in {Prologue, Sentinel})
    BY <2>1, <1>3 DEF Layout
  <2>2. b \in Nat /\ Aligned(b) /\ Aligned(sz2[b]) /\ b >= Prologue /\ sz2[b] >= 16
    BY <1>1, <1>3
  <2> QED BY <2>1, <2>2
<1>8. \A c \in B : c + sz2[c] \in B \cup {e2} /\ c + sz2[c] <= e2
  <2>1. ASSUME NEW c \in B, c # b PROVE c + sz2[c] \in B \cup {e2} /\ c + sz2[c] <= e2
    <3>1. c + sz[c] \in B /\ c + sz[c] <= e /\ c \in Nat /\ sz[c] \in Nat
      BY <2>1, <1>6, BlockFacts DEF Layout
    <3>2. c + sz[c] <= e2
      BY <3>1, <1>1, <1>2
    <3> QED BY <2>1, <3>1, <3>2, <1>4
  <2>2. e2 <= e2
    BY <1>2
  <2> QED BY <2>1, <2>2, <1>5
<1>9. \A c \in B : c # Prologue => \E a \in B : a + sz2[a] = c
  <2> SUFFICES ASSUME NEW c \in B, c # Prologue PROVE \E a \in B : a + sz2[a] = c
    OBVIOUS
  <2>1. PICK a \in B : a + sz[a] = c
    BY DEF Layout
  <2>2. a # b
    BY <2>1, <1>1
  <2> QED BY <2>1, <2>2, <1>4
<1>10. \E a \in B : a + sz2[a] = e2
  BY <1>5
<1>11. \A a, c \in B : a < c => a + sz2[a] <= c
  <2>1. \A a, c \in B : a # b /\ a < c => a + sz2[a] <= c
    BY <1>4 DEF Layout
  <2>2. ASSUME NEW c \in B PROVE ~(b < c)
    <3>1. c \in Nat /\ sz[c] \in Nat /\ c + sz[c] <= e /\ sz[c] >= 8
      BY BlockFacts
    <3>2. b < c => e <= c
      BY DEF Layout
    <3> QED BY <3>1, <3>2, <1>1
  <2> QED BY <2>1, <2>2
<1>12. Prologue \in B /\ sz2[Prologue] = 8 /\ Sentinel \in B /\ sz2[Sentinel] = 8 /\ e2 <= MaxAddr
  BY <1>3 DEF Layout
<1>13. Layout(B, sz2, e2)
  BY <1>3, <1>7, <1>8, <1>9, <1>10, <1>11, <1>12 DEF Layout
<1> QED BY <1>3, <1>13

-----------------------------------------------------------------------------
(* Tags and links.                                                         *)

(* The tags of the blocks B; F are the free ones.                          *)
Tag(b, sz, F) == IF b \in F THEN sz[b] ELSE sz[b] + 1

(* Header and footer of every block, and the epilogue.                     *)
Tags(m, e, B, sz, F) ==
    /\ \A b \in B : m[b - 4] = Tag(b, sz, F) /\ m[b + sz[b] - 8] = Tag(b, sz, F)
    /\ m[e - 4] = 1

(* The list of a list head and of the blocks in it.                        *)
Class(sz, x) == IF x \in Heads THEN x ELSE get_list(sz[x])

(* The blocks L are in the lists.  Along a list the rank grows.            *)
Links(m, L, sz) ==
    /\ \A x \in L \cup Heads :
         m[x] # NULL => m[x] \in L /\ m[m[x] + 4] = x /\ Class(sz, m[x]) = Class(sz, x)
    /\ \A b \in L : m[b + 4] \in L \cup Heads /\ m[m[b + 4]] = b
    /\ \E rank \in [Nat -> Nat] :
         \A x \in L \cup Heads : m[x] # NULL => rank[x] < rank[m[x]]

(* The memory.                                                             *)
IsMemory(m) == m = [a \in Words |-> m[a]]

(* A heap with break e: its blocks B, their sizes sz, the free ones F, and *)
(* the blocks L in the lists.                                              *)
Heap(m, e, B, sz, F, L) ==
    /\ IsMemory(m)
    /\ Layout(B, sz, e)
    /\ L \subseteq F /\ F \subseteq B \ {Prologue, Sentinel}
    /\ Tags(m, e, B, sz, F)
    /\ Links(m, L, sz)

(* The words of a block between its tags are kept.                         *)
Kept(m, m2, A, sz) ==
    \A b \in A : \A a \in Words : b <= a /\ a < b + sz[b] - 8 => m2[a] = m[a]

(* What the macros read from a heap.                                       *)
LEMMA Reads ==
    ASSUME NEW m, NEW e, NEW B, NEW sz, NEW F, NEW L, Heap(m, e, B, sz, F, L)
    PROVE  /\ \A b \in B : /\ GET_BLK_SIZE(m, b) = sz[b]
                           /\ GET_BLK_ALLOC(m, b) <=> b \notin F
                           /\ NEXT(m, b) = b + sz[b]
                           /\ FTRP(m, b) = b + sz[b] - 8
           /\ \A b \in B \ {Prologue} : PREV(m, b) \in B /\ PREV(m, b) + sz[PREV(m, b)] = b
           /\ GET_BLK_ALLOC(m, e) /\ GET_BLK_SIZE(m, e) = 0
<1>1. \A b \in B : b \in Nat /\ sz[b] \in Nat /\ Aligned(sz[b]) /\ b - 4 = b - WSIZE
  <2>1. Layout(B, sz, e)
    BY DEF Heap
  <2> QED BY <2>1, BlockFacts, Places
<1>2. \A b \in B : /\ m[b - 4] = Tag(b, sz, F) /\ m[b + sz[b] - 8] = Tag(b, sz, F)
  BY DEF Heap, Tags
<1>3. \A b \in B : /\ MultipleOf8(Tag(b, sz, F)) = sz[b]
                   /\ Tag(b, sz, F) % 2 = 1 <=> b \notin F
  BY <1>1, TagParts DEF Tag
<1>4. \A b \in B : /\ GET_BLK_SIZE(m, b) = sz[b]
                   /\ GET_BLK_ALLOC(m, b) <=> b \notin F
  BY <1>1, <1>2, <1>3 DEF GET_BLK_SIZE, GET_BLK_ALLOC
<1>5. \A b \in B : NEXT(m, b) = b + sz[b] /\ FTRP(m, b) = b + sz[b] - 8
  BY <1>4 DEF NEXT, FTRP
<1>6. ASSUME NEW b \in B \ {Prologue}
      PROVE  PREV(m, b) \in B /\ PREV(m, b) + sz[PREV(m, b)] = b
  <2>1. PICK c \in B : c + sz[c] = b
    BY DEF Heap, Layout
  <2>2. m[b - 8] = Tag(c, sz, F)
    <3>1. m[c + sz[c] - 8] = Tag(c, sz, F)
      BY <2>1, <1>2
    <3>2. c + sz[c] - 8 = b - 8
      BY <2>1, <1>1
    <3> QED BY <3>1, <3>2
  <2>3. PREV(m, b) = b - sz[c]
    BY <2>2, <1>3 DEF PREV
  <2>4. b - sz[c] = c
    BY <2>1, <1>1
  <2> QED BY <2>1, <2>3, <2>4
<1>7. GET_BLK_ALLOC(m, e) /\ GET_BLK_SIZE(m, e) = 0
  <2>1. m[e - WSIZE] = 1
    BY Places DEF Heap, Tags
  <2>2. MultipleOf8(1) = 0 /\ 1 % 2 = 1
    BY DEF MultipleOf8
  <2> QED BY <2>1, <2>2 DEF GET_BLK_SIZE, GET_BLK_ALLOC
<1> QED BY <1>4, <1>5, <1>6, <1>7

(* Memory m2 with the blocks B2 comes from memory m with B: words are      *)
(* written in the blocks New only, and the tags of these are right.        *)
Rewrites(m, B, sz, F, L, m2, e2, B2, sz2, F2, New) ==
    /\ IsMemory(m2)
    /\ Layout(B2, sz2, e2)
    /\ L \subseteq F2 /\ F2 \subseteq B2 \ {Prologue, Sentinel} /\ New \subseteq B2
    /\ \A c \in B2 \ New : c \in B /\ sz2[c] = sz[c] /\ (c \in F2 <=> c \in F)
    /\ \A c \in New : m2[c - 4] = Tag(c, sz2, F2) /\ m2[c + sz2[c] - 8] = Tag(c, sz2, F2)
    /\ m2[e2 - 4] = 1
    /\ \A a \in Words :
          \/ m2[a] = m[a]
          \/ a = e2 - 4
          \/ \E c \in New : c - 4 <= a /\ a <= c + sz2[c] - 8
    /\ \A c \in L \cap New : m2[c] = m[c] /\ m2[c + 4] = m[c + 4] /\ get_list(sz2[c]) = get_list(sz[c])

(* New tags for the blocks New, and no other word: again a heap.           *)
LEMMA Rewritten ==
    ASSUME NEW m, NEW e, NEW B, NEW sz, NEW F, NEW L, Heap(m, e, B, sz, F, L),
           NEW m2, NEW e2, NEW B2, NEW sz2, NEW F2, NEW New,
           Rewrites(m, B, sz, F, L, m2, e2, B2, sz2, F2, New)
    PROVE  /\ Heap(m2, e2, B2, sz2, F2, L)
           /\ Kept(m, m2, B2 \ New, sz2)
<1> USE DEF Rewrites
<1>1. \A c \in B2 : c \in Nat /\ sz2[c] \in Nat /\ sz2[c] >= 8 /\ c + sz2[c] <= e2 /\ e2 \in Nat /\ c >= Prologue
  BY BlockFacts
<1>2. ASSUME NEW a \in Words, NEW b \in B2 \ New, b - 4 <= a, a <= b + sz2[b] - 8
      PROVE  m2[a] = m[a]
  <2>1. a \in Nat
    BY WordsAre
  <2>2. a # e2 - 4
    BY <1>1, <1>2, <2>1
  <2>3. ASSUME NEW c \in New, c - 4 <= a, a <= c + sz2[c] - 8
        PROVE FALSE
    <3>1. c \in B2 /\ b \in B2 /\ c # b
      BY <1>2
    <3>2. c + sz2[c] <= b \/ b + sz2[b] <= c
      BY <3>1, BlocksApart
    <3> QED BY <3>1, <3>2, <1>1, <1>2, <2>1, <2>3
  <2> QED BY <2>2, <2>3
<1>3. Tags(m2, e2, B2, sz2, F2)
  <2>1. ASSUME NEW b \in B2 \ New
        PROVE  m2[b - 4] = Tag(b, sz2, F2) /\ m2[b + sz2[b] - 8] = Tag(b, sz2, F2)
    <3>1. m[b - 4] = Tag(b, sz, F) /\ m[b + sz[b] - 8] = Tag(b, sz, F)
      BY DEF Heap, Tags
    <3>2. Tag(b, sz2, F2) = Tag(b, sz, F) /\ sz2[b] = sz[b]
      BY DEF Tag
    <3>3. b - 4 \in Words /\ b + sz2[b] - 8 \in Words
      BY BlockWords
    <3>4. b - 4 <= b - 4 /\ b - 4 <= b + sz2[b] - 8 /\ b + sz2[b] - 8 <= b + sz2[b] - 8
      BY <1>1
    <3> QED BY <3>1, <3>2, <3>3, <3>4, <1>2
  <2> QED BY <2>1 DEF Tags
<1>4. \A c \in L : m2[c] = m[c] /\ m2[c + 4] = m[c + 4] /\ get_list(sz2[c]) = get_list(sz[c])
  <2> SUFFICES ASSUME NEW c \in L, c \notin New
               PROVE  m2[c] = m[c] /\ m2[c + 4] = m[c + 4] /\ get_list(sz2[c]) = get_list(sz[c])
    OBVIOUS
  <2>1. c \in B2 /\ c \notin {Prologue, Sentinel}
    OBVIOUS
  <2>2. sz2[c] >= 16
    BY <2>1, BlockFacts
  <2>3. c \in Words /\ c + 4 \in Words
    BY <2>1, <2>2, BlockWords
  <2>4. c - 4 <= c /\ c <= c + sz2[c] - 8 /\ c - 4 <= c + 4 /\ c + 4 <= c + sz2[c] - 8
    BY <2>1, <2>2, <1>1
  <2> QED BY <2>1, <2>3, <2>4, <1>2
<1>5. \A x \in Heads : m2[x] = m[x]
  <2> SUFFICES ASSUME NEW x \in Heads PROVE m2[x] = m[x]
    OBVIOUS
  <2>1. x \in Words /\ x \in Nat /\ x <= Prologue - 8
    BY HeadsAre
  <2>2. Prologue \in Nat
    BY Places
  <2>3. \A c \in New : c >= Prologue /\ c \in Nat
    BY <1>1
  <2>4. x # e2 - 4
    BY <2>1, <2>2, <1>1 DEF Layout
  <2> QED BY <2>1, <2>2, <2>3, <2>4
<1>6. L \cap Heads = {}
  <2>1. \A x \in L : x \in Nat /\ x >= Prologue
    BY <1>1
  <2>2. \A x \in Heads : x \in Nat /\ x <= Prologue - 8
    BY HeadsAre
  <2>3. Prologue \in Nat
    BY Places
  <2> QED BY <2>1, <2>2, <2>3
<1>7. Links(m2, L, sz2)
  <2>1. Links(m, L, sz)
    BY DEF Heap
  <2>2. \A x \in L \cup Heads : m2[x] = m[x] /\ Class(sz2, x) = Class(sz, x)
    BY <1>4, <1>5 DEF Class
  <2>3. \A x \in L \cup Heads :
         m2[x] # NULL => m2[x] \in L /\ m2[m2[x] + 4] = x /\ Class(sz2, m2[x]) = Class(sz2, x)
    BY <2>1, <2>2, <1>4 DEF Links
  <2>4. \A b \in L : m2[b + 4] \in L \cup Heads /\ m2[m2[b + 4]] = b
    BY <2>1, <2>2, <1>4 DEF Links
  <2>5. \E rank \in [Nat -> Nat] :
         \A x \in L \cup Heads : m2[x] # NULL => rank[x] < rank[m2[x]]
    BY <2>1, <2>2 DEF Links
  <2> QED BY <2>3, <2>4, <2>5 DEF Links
<1>8. Kept(m, m2, B2 \ New, sz2)
  <2> SUFFICES ASSUME NEW b \in B2 \ New, NEW a \in Words, b <= a, a < b + sz2[b] - 8
               PROVE  m2[a] = m[a]
    BY DEF Kept
  <2>1. b - 4 <= a /\ a <= b + sz2[b] - 8
    BY <1>1, WordsAre
  <2> QED BY <2>1, <1>2
<1> QED BY <1>3, <1>7, <1>8 DEF Heap

-----------------------------------------------------------------------------
(* A block leaves its list, or joins one.                                  *)

(* The words that hold links are no tags, and lie in no other block.       *)
LEMMA LinkWords ==
    ASSUME NEW B, NEW sz, NEW e, Layout(B, sz, e), NEW L, L \subseteq B \ {Prologue, Sentinel}
    PROVE  /\ L \cap Heads = {} /\ NULL \notin L \cup Heads
           /\ \A x \in L : x \in Words /\ x + 4 \in Words /\ x \in Nat
           /\ \A x \in Heads : x \in Words /\ x \in Nat
           /\ \A x \in L \cup Heads : \A c \in B :
                x # c - 4 /\ x # c + sz[c] - 8 /\ (c \notin L => ~(c <= x /\ x < c + sz[c] - 8))
           /\ \A x \in L : \A c \in B :
                x + 4 # c - 4 /\ x + 4 # c + sz[c] - 8 /\ (c \notin L => ~(c <= x + 4 /\ x + 4 < c + sz[c] - 8))
           /\ \A x \in L \cup Heads : x # e - 4
           /\ \A x \in L : x + 4 # e - 4
           /\ \A x \in L : \A y \in L \cup Heads : x + 4 # y
<1>1. \A c \in B : c \in Nat /\ sz[c] \in Nat /\ sz[c] >= 8 /\ c + sz[c] <= e /\ e \in Nat /\ c >= Prologue
  BY BlockFacts
<1>2. \A x \in L : x \in B /\ sz[x] >= 16
  BY BlockFacts
<1>3. \A x \in Heads : x \in Words /\ x \in Nat /\ x <= Prologue - 8
  BY HeadsAre
<1>4. \A x \in L : x \in Words /\ x + 4 \in Words
  BY <1>2, BlockWords
<1>5. Prologue \in Nat
  BY Places
<1>6. L \cap Heads = {}
  BY <1>1, <1>2, <1>3, <1>5
<1>7. ASSUME NEW x \in L, NEW c \in B
      PROVE  /\ x # c - 4 /\ x # c + sz[c] - 8 /\ (c \notin L => ~(c <= x /\ x < c + sz[c] - 8))
             /\ x + 4 # c - 4 /\ x + 4 # c + sz[c] - 8 /\ (c \notin L => ~(c <= x + 4 /\ x + 4 < c + sz[c] - 8))
             /\ x + 4 # c
  <2>1. x \in Nat /\ c \in Nat /\ sz[x] \in Nat /\ sz[c] \in Nat /\ sz[x] >= 16 /\ sz[c] >= 8
    BY <1>1, <1>2
  <2>2. CASE x = c
    BY <2>1, <2>2
  <2>3. CASE x # c
    <3>1. x + sz[x] <= c \/ c + sz[c] <= x
      BY <1>2, <2>3, BlocksApart
    <3> QED BY <2>1, <3>1
  <2> QED BY <2>2, <2>3
<1>8. ASSUME NEW x \in Heads, NEW c \in B
      PROVE  x # c - 4 /\ x # c + sz[c] - 8 /\ ~(c <= x /\ x < c + sz[c] - 8)
  <2>1. x \in Nat /\ x <= Prologue - 8 /\ c \in Nat /\ c >= Prologue /\ sz[c] \in Nat /\ sz[c] >= 8
    BY <1>1, <1>3
  <2> QED BY <2>1, <1>5
<1>9. ASSUME NEW x \in L PROVE x # e - 4 /\ x + 4 # e - 4 /\ \A y \in Heads : x + 4 # y
  <2>1. x \in Nat /\ sz[x] \in Nat /\ sz[x] >= 16 /\ x + sz[x] <= e /\ e \in Nat /\ x >= Prologue
    BY <1>1, <1>2
  <2> QED BY <2>1, <1>3, <1>5
<1>10. ASSUME NEW x \in Heads PROVE x # e - 4
  <2>1. Prologue \in B /\ Prologue + 8 <= e /\ e \in Nat
    BY <1>1 DEF Layout
  <2> QED BY <2>1, <1>3, <1>5
<1>11. NULL \notin L \cup Heads
  BY <1>3, <1>4, WordsAre
<1> QED BY <1>1, <1>2, <1>3, <1>4, <1>6, <1>7, <1>8, <1>9, <1>10, <1>11

(* Writing links changes no tag and no other block.                        *)
LEMMA LinksWritten ==
    ASSUME NEW m, NEW e, NEW B, NEW sz, NEW F, Layout(B, sz, e), Tags(m, e, B, sz, F),
           NEW L, L \subseteq B \ {Prologue, Sentinel},
           NEW m2, \A a \in Words : m2[a] = m[a] \/ a \in L \cup Heads \/ \E x \in L : a = x + 4
    PROVE  Tags(m2, e, B, sz, F) /\ Kept(m, m2, B \ L, sz)
<1>1. \A c \in B : c - 4 \in Words /\ c + sz[c] - 8 \in Words /\ e - 4 \in Words
  BY BlockWords
<1>2. \A c \in B : m2[c - 4] = m[c - 4] /\ m2[c + sz[c] - 8] = m[c + sz[c] - 8]
  BY <1>1, LinkWords
<1>3. m2[e - 4] = m[e - 4]
  BY <1>1, LinkWords DEF Layout
<1>4. Kept(m, m2, B \ L, sz)
  <2> SUFFICES ASSUME NEW c \in B \ L, NEW a \in Words, c <= a /\ a < c + sz[c] - 8
               PROVE  m2[a] = m[a]
    BY DEF Kept
  <2>1. a \notin L \cup Heads
    BY LinkWords
  <2>2. \A x \in L : a # x + 4
    BY LinkWords
  <2> QED BY <2>1, <2>2
<1> QED BY <1>2, <1>3, <1>4 DEF Tags

(* A list without the block b.                                             *)
LEMMA LinksDetach ==
    ASSUME NEW m, NEW L, NEW sz, Links(m, L, sz), NEW b \in L,
           L \cap Heads = {}, NULL \notin L \cup Heads, L \cup Heads \subseteq Nat,
           NEW d,
           \A x \in (L \ {b}) \cup Heads : d[x] = IF x = m[b + 4] THEN m[b] ELSE m[x],
           \A x \in L \ {b} : d[x + 4] = IF x = m[b] THEN m[b + 4] ELSE m[x + 4]
    PROVE  Links(d, L \ {b}, sz)
<1> DEFINE N  == L \cup Heads
           N2 == (L \ {b}) \cup Heads
<1>1. PICK rank \in [Nat -> Nat] : \A x \in N : m[x] # NULL => rank[x] < rank[m[x]]
  BY DEF Links
<1>2. /\ \A x \in N : m[x] # NULL => m[x] \in L /\ m[m[x] + 4] = x /\ Class(sz, m[x]) = Class(sz, x)
      /\ \A c \in L : m[c + 4] \in N /\ m[m[c + 4]] = c
  BY DEF Links
<1>3. \A x \in N : m[x] # NULL => rank[x] \in Nat /\ rank[m[x]] \in Nat /\ m[x] \in N
  BY <1>2
<1>4. \A x \in N : m[x] # x
  BY <1>1, <1>3
<1>5. m[b + 4] \in N2 /\ m[m[b + 4]] = b /\ m[b] # b
  BY <1>2, <1>4
<1>6. \A x \in N2 : x # m[b + 4] => m[x] # b
  BY <1>2
<1>7. \A x \in L \ {b} : x # m[b] => m[x + 4] # b
  BY <1>2
<1>8. \A x \in N2 : d[x] # NULL => d[x] \in L \ {b} /\ d[d[x] + 4] = x /\ Class(sz, d[x]) = Class(sz, x)
  <2> SUFFICES ASSUME NEW x \in N2, d[x] # NULL
               PROVE d[x] \in L \ {b} /\ d[d[x] + 4] = x /\ Class(sz, d[x]) = Class(sz, x)
    OBVIOUS
  <2>1. CASE x = m[b + 4]
    <3>1. d[x] = m[b]
      BY <2>1
    <3>2. m[b] \in L \ {b} /\ Class(sz, m[b]) = Class(sz, b) /\ Class(sz, b) = Class(sz, x)
      BY <3>1, <2>1, <1>2, <1>5
    <3>3. d[m[b] + 4] = m[b + 4]
      BY <3>2
    <3> QED BY <3>1, <3>2, <3>3, <2>1
  <2>2. CASE x # m[b + 4]
    <3>1. d[x] = m[x] /\ m[x] \in L /\ m[m[x] + 4] = x /\ Class(sz, m[x]) = Class(sz, x)
      BY <2>2, <1>2
    <3>2. m[x] # b
      BY <2>2, <1>6
    <3>3. m[x] # m[b]
      BY <3>1, <1>2, <2>2
    <3> QED BY <3>1, <3>2, <3>3
  <2> QED BY <2>1, <2>2
<1>9. \A c \in L \ {b} : d[c + 4] \in N2 /\ d[d[c + 4]] = c
  <2> SUFFICES ASSUME NEW c \in L \ {b} PROVE d[c + 4] \in N2 /\ d[d[c + 4]] = c
    OBVIOUS
  <2>1. CASE c = m[b]
    <3>1. d[c + 4] = m[b + 4]
      BY <2>1
    <3> QED BY <3>1, <2>1, <1>5
  <2>2. CASE c # m[b]
    <3>1. d[c + 4] = m[c + 4] /\ m[c + 4] # b /\ m[c + 4] \in N /\ m[m[c + 4]] = c
      BY <2>2, <1>2, <1>7
    <3>2. m[c + 4] # m[b + 4]
      BY <3>1, <1>5
    <3> QED BY <3>1, <3>2
  <2> QED BY <2>1, <2>2
<1>10. \A x \in N2 : d[x] # NULL => rank[x] < rank[d[x]]
  <2> SUFFICES ASSUME NEW x \in N2, d[x] # NULL PROVE rank[x] < rank[d[x]]
    OBVIOUS
  <2>1. CASE x = m[b + 4]
    <3>1. d[x] = m[b] /\ m[x] = b /\ m[x] # NULL
      BY <2>1, <1>5
    <3>2. rank[x] < rank[b] /\ rank[b] < rank[m[b]]
      BY <3>1, <1>1
    <3>3. rank[x] \in Nat /\ rank[b] \in Nat /\ rank[m[b]] \in Nat
      BY <3>1, <1>3
    <3> QED BY <3>1, <3>2, <3>3
  <2>2. CASE x # m[b + 4]
    BY <2>2, <1>1
  <2> QED BY <2>1, <2>2
<1> QED BY <1>8, <1>9, <1>10 DEF Links

(* What detach_block writes.                                               *)
LEMMA DetachWrites ==
    ASSUME NEW m, IsMemory(m), NEW b, b \in Nat, m[b + 4] \in Words,
           m[b] # NULL => m[b] + 4 \in Words
    PROVE  /\ IsMemory(detach_block(m, b))
           /\ \A a \in Words :
                detach_block(m, b)[a] = IF m[b] # NULL /\ a = m[b] + 4 THEN m[b + 4]
                                        ELSE IF a = m[b + 4] THEN m[b] ELSE m[a]
<1> DEFINE fd == m[b]
           bk == m[b + 4]
           m1 == [m EXCEPT ![bk] = fd]
<1>1. FD(m, b) = fd /\ BK(m, b) = bk /\ WSIZE = 4
  BY Places DEF FD, BK
<1>2. detach_block(m, b) = IF fd = NULL THEN m1 ELSE [m1 EXCEPT ![fd + 4] = bk]
  BY <1>1 DEF detach_block
<1>3. m = [a \in Words |-> m[a]]
  BY DEF IsMemory
<1> HIDE DEF fd, bk
<1>4. m1 = [a \in Words |-> IF a = bk THEN fd ELSE m[a]]
  BY <1>3
<1>5. fd # NULL =>
        [m1 EXCEPT ![fd + 4] = bk] = [a \in Words |-> IF a = fd + 4 THEN bk ELSE IF a = bk THEN fd ELSE m[a]]
  BY <1>4
<1> QED BY <1>2, <1>4, <1>5 DEF IsMemory, fd, bk

(* detach_block takes a block out of its list and changes nothing else.    *)
LEMMA DetachStep ==
    ASSUME NEW m, NEW e, NEW B, NEW sz, NEW F, NEW L, Heap(m, e, B, sz, F, L), NEW b \in L
    PROVE  /\ Heap(detach_block(m, b), e, B, sz, F, L \ {b})
           /\ Kept(m, detach_block(m, b), B \ L, sz)
<1> DEFINE d == detach_block(m, b)
<1>1. Layout(B, sz, e) /\ L \subseteq B \ {Prologue, Sentinel} /\ IsMemory(m) /\ Links(m, L, sz) /\ Tags(m, e, B, sz, F)
  BY DEF Heap
<1>2. /\ L \cap Heads = {} /\ NULL \notin L \cup Heads /\ b \in Nat /\ L \cup Heads \subseteq Nat
      /\ \A x \in L : x \in Words /\ x + 4 \in Words
      /\ \A x \in Heads : x \in Words
      /\ \A x \in L : \A y \in L \cup Heads : x + 4 # y
  BY <1>1, LinkWords
<1>3. m[b + 4] \in L \cup Heads /\ (m[b] # NULL => m[b] \in L)
  BY <1>1 DEF Links
<1>4. /\ IsMemory(d)
      /\ \A a \in Words : d[a] = IF m[b] # NULL /\ a = m[b] + 4 THEN m[b + 4]
                                 ELSE IF a = m[b + 4] THEN m[b] ELSE m[a]
  BY <1>1, <1>2, <1>3, DetachWrites
<1> HIDE DEF d
<1>5. Tags(d, e, B, sz, F) /\ Kept(m, d, B \ L, sz)
  <2>1. \A a \in Words : d[a] = m[a] \/ a \in L \cup Heads \/ \E x \in L : a = x + 4
    BY <1>3, <1>4
  <2> QED BY <2>1, <1>1, LinksWritten
<1>6. Links(d, L \ {b}, sz)
  <2>1. \A x \in (L \ {b}) \cup Heads : d[x] = IF x = m[b + 4] THEN m[b] ELSE m[x]
    BY <1>2, <1>3, <1>4
  <2>2. ASSUME NEW x \in L \ {b} PROVE d[x + 4] = IF x = m[b] THEN m[b + 4] ELSE m[x + 4]
    <3>1. x + 4 \in Words /\ x + 4 # m[b + 4]
      BY <1>2, <1>3
    <3>2. m[b] # NULL => (x + 4 = m[b] + 4 <=> x = m[b])
      <4>1. m[b] # NULL => m[b] \in Nat /\ x \in Nat
        BY <1>2, <1>3
      <4> QED BY <4>1
    <3>3. x # NULL
      BY <1>2
    <3> QED BY <3>1, <3>2, <3>3, <1>4
  <2> QED BY <2>1, <2>2, <1>1, <1>2, LinksDetach
<1> QED BY <1>1, <1>4, <1>5, <1>6 DEF Heap, d

(* Every size belongs to one list: the branches of _get_list_index.        *)
LEMMA IndexCorrect ==
    ASSUME NEW size \in Nat
    PROVE  LET i == get_list_index(size)
           IN  /\ i \in 0..LIST_NUM - 1
               /\ i < 10 => size <= Limit[i + 1]
               /\ i > 0  => size > Limit[i]
<1>. DEFINE P(i) == (i < 10 => size <= Limit[i + 1]) /\ (i > 0 => size > Limit[i])
<1>1. \E i \in 0..10 : P(i)
  <2>1. CASE size <= 16
    <3>1. P(0) BY <2>1 DEF Limit
    <3>. QED BY <3>1
  <2>2. CASE size > 8192
    <3>1. P(10) BY <2>2 DEF Limit
    <3>. QED BY <3>1
  <2>3. CASE size > 16 /\ size <= 128
    <3>1. P(1) \/ P(2) \/ P(3) BY <2>3 DEF Limit
    <3>. QED BY <3>1
  <2>4. CASE size > 128 /\ size <= 1024
    <3>1. P(4) \/ P(5) \/ P(6) BY <2>4 DEF Limit
    <3>. QED BY <3>1
  <2>5. CASE size > 1024 /\ size <= 8192
    <3>1. P(7) \/ P(8) \/ P(9) BY <2>5 DEF Limit
    <3>. QED BY <3>1
  <2>. QED BY <2>1, <2>2, <2>3, <2>4, <2>5
<1>. HIDE DEF P
<1>2. get_list_index(size) = CHOOSE i \in 0..10 : P(i)
  BY DEF get_list_index, LIST_NUM, P
<1>3. get_list_index(size) \in 0..10 /\ P(get_list_index(size))
  BY <1>1, <1>2
<1>. QED
  BY <1>3 DEF P, LIST_NUM

(* The list of a size is a list head.                                      *)
LEMMA GetList ==
    ASSUME NEW s \in Nat
    PROVE  get_list(s) \in Heads /\ \A x : x \notin Heads => \A sz : sz[x] = s => Class(sz, x) = get_list(s)
<1>1. get_list_index(s) \in 0..LIST_NUM - 1
  BY IndexCorrect
<1> QED BY <1>1 DEF get_list, Heads, Class

(* The list with the block b at its front.                                 *)
LEMMA LinksAttach ==
    ASSUME NEW m, NEW L, NEW sz, Links(m, L, sz), NEW b \in Nat, b \notin L \cup Heads,
           L \cap Heads = {}, NULL \notin L \cup Heads, b # NULL, L \cup Heads \subseteq Nat,
           NEW list \in Heads, Class(sz, b) = list,
           NEW d,
           \A x \in L \cup Heads : d[x] = IF x = list THEN b ELSE m[x],
           d[b] = m[list], d[b + 4] = list,
           \A x \in L : d[x + 4] = IF x = m[list] THEN b ELSE m[x + 4]
    PROVE  Links(d, L \cup {b}, sz)
<1> DEFINE N  == L \cup Heads
           fd == m[list]
<1>1. PICK rank \in [Nat -> Nat] : \A x \in N : m[x] # NULL => rank[x] < rank[m[x]]
  BY DEF Links
<1>2. /\ \A x \in N : m[x] # NULL => m[x] \in L /\ m[m[x] + 4] = x /\ Class(sz, m[x]) = Class(sz, x)
      /\ \A c \in L : m[c + 4] \in N /\ m[m[c + 4]] = c
  BY DEF Links
<1>3. Class(sz, list) = list
  BY DEF Class
<1>4. \A x \in N \cup {b} :
        d[x] # NULL => d[x] \in L \cup {b} /\ d[d[x] + 4] = x /\ Class(sz, d[x]) = Class(sz, x)
  <2> SUFFICES ASSUME NEW x \in N \cup {b}, d[x] # NULL
               PROVE  d[x] \in L \cup {b} /\ d[d[x] + 4] = x /\ Class(sz, d[x]) = Class(sz, x)
    OBVIOUS
  <2>1. CASE x = list
    BY <2>1, <1>3
  <2>2. CASE x = b
    <3>1. d[x] = fd /\ fd \in L /\ Class(sz, fd) = list
      BY <2>2, <1>2, <1>3
    <3> QED BY <3>1, <2>2
  <2>3. CASE x # list /\ x # b
    <3>1. d[x] = m[x] /\ x \in N /\ m[x] \in L /\ m[m[x] + 4] = x /\ Class(sz, m[x]) = Class(sz, x)
      BY <2>3, <1>2
    <3>2. m[x] # fd
      BY <3>1, <2>3, <1>2
    <3> QED BY <3>1, <3>2
  <2> QED BY <2>1, <2>2, <2>3
<1>5. \A c \in L \cup {b} : d[c + 4] \in N \cup {b} /\ d[d[c + 4]] = c
  <2>1. d[b + 4] \in N \cup {b} /\ d[d[b + 4]] = b
    OBVIOUS
  <2>2. ASSUME NEW c \in L PROVE d[c + 4] \in N \cup {b} /\ d[d[c + 4]] = c
    <3>1. CASE c = fd
      BY <3>1
    <3>2. CASE c # fd
      <4>1. d[c + 4] = m[c + 4] /\ m[c + 4] \in N /\ m[m[c + 4]] = c
        BY <3>2, <1>2
      <4>2. m[c + 4] # list
        BY <4>1, <3>2
      <4> QED BY <4>1, <4>2
    <3> QED BY <3>1, <3>2
  <2> QED BY <2>1, <2>2
<1>6. \E rank2 \in [Nat -> Nat] :
        \A x \in N \cup {b} : d[x] # NULL => rank2[x] < rank2[d[x]]
  <2> DEFINE rank2 == [x \in Nat |-> IF x \in Heads THEN 0 ELSE IF x = b THEN 1 ELSE rank[x] + 1]
  <2>1. rank2 \in [Nat -> Nat]
    OBVIOUS
  <2>2. /\ \A x \in Heads : rank2[x] = 0 /\ rank[x] \in Nat
        /\ \A x \in L : rank2[x] = rank[x] + 1 /\ rank[x] \in Nat
        /\ rank2[b] = 1
    OBVIOUS
  <2> HIDE DEF rank2
  <2>3. ASSUME NEW x \in N \cup {b}, d[x] # NULL PROVE rank2[x] < rank2[d[x]]
    <3>1. CASE x = list
      BY <3>1, <2>2
    <3>2. CASE x = b
      <4>1. d[x] = fd /\ fd \in L /\ rank[list] < rank[fd]
        BY <3>2, <2>3, <1>1, <1>2
      <4>2. rank[list] \in Nat /\ rank[fd] \in Nat /\ rank2[fd] = rank[fd] + 1 /\ rank2[b] = 1
        BY <4>1, <2>2
      <4>3. 1 < rank[fd] + 1
        BY <4>1, <4>2
      <4> QED BY <4>1, <4>2, <4>3, <3>2
    <3>3. CASE x \in Heads /\ x # list
      <4>1. d[x] = m[x] /\ m[x] \in L
        BY <3>3, <2>3, <1>2
      <4>2. rank2[x] = 0 /\ rank2[m[x]] = rank[m[x]] + 1 /\ rank[m[x]] \in Nat
        BY <4>1, <3>3, <2>2
      <4> QED BY <4>1, <4>2
    <3>4. CASE x \in L
      <4>1. d[x] = m[x] /\ m[x] \in L /\ rank[x] < rank[m[x]]
        BY <3>4, <2>3, <1>1, <1>2
      <4>2. rank2[x] = rank[x] + 1 /\ rank2[m[x]] = rank[m[x]] + 1 /\ rank[m[x]] \in Nat /\ rank[x] \in Nat
        BY <4>1, <3>4, <2>2
      <4>3. rank[x] + 1 < rank[m[x]] + 1
        BY <4>1, <4>2
      <4> QED BY <4>1, <4>2, <4>3
    <3> QED BY <3>1, <3>2, <3>3, <3>4
  <2> QED BY <2>1, <2>3
<1>7. (L \cup {b}) \cup Heads = N \cup {b}
  OBVIOUS
<1> QED BY <1>4, <1>5, <1>6, <1>7 DEF Links

(* What attach_block writes.                                               *)
LEMMA AttachWrites ==
    ASSUME NEW m, IsMemory(m), NEW b, b \in Words, b + 4 \in Words,
           NEW list \in Words, list = get_list(GET_BLK_SIZE(m, b)), list # b, list # b + 4, b # b + 4,
           m[list] # NULL => m[list] + 4 \in Words
    PROVE  /\ IsMemory(attach_block(m, b))
           /\ \A a \in Words :
                attach_block(m, b)[a] = IF m[list] # NULL /\ a = m[list] + 4 THEN b
                                        ELSE IF a = b THEN m[list] ELSE IF a = b + 4 THEN list
                                        ELSE IF a = list THEN b ELSE m[a]
<1> DEFINE fd == m[list]
           b4 == b + 4
           m1 == [m EXCEPT ![list] = b, ![b4] = list, ![b] = fd]
<1>1. FD(m, list) = fd /\ WSIZE = 4
  BY Places DEF FD
<1>2. attach_block(m, b) = IF fd = NULL THEN m1 ELSE [m1 EXCEPT ![fd + 4] = b]
  BY <1>1 DEF attach_block
<1>3. m = [a \in Words |-> m[a]]
  BY DEF IsMemory
<1> HIDE DEF fd, b4
<1>4. m1 = [a \in Words |-> IF a = b THEN fd ELSE IF a = b4 THEN list ELSE IF a = list THEN b ELSE m[a]]
  BY <1>3 DEF b4
<1> DEFINE w == fd + 4
<1>5. fd # NULL =>
        [m1 EXCEPT ![w] = b] =
        [a \in Words |-> IF a = w THEN b ELSE IF a = b THEN fd ELSE IF a = b4 THEN list ELSE IF a = list THEN b ELSE m[a]]
  <2> HIDE DEF w
  <2> QED BY <1>4
<1> QED BY <1>2, <1>4, <1>5 DEF IsMemory, fd, b4

(* attach_block puts a free block in the list of its size.                 *)
LEMMA AttachStep ==
    ASSUME NEW m, NEW e, NEW B, NEW sz, NEW F, NEW L, Heap(m, e, B, sz, F, L), NEW b \in F \ L
    PROVE  /\ Heap(attach_block(m, b), e, B, sz, F, L \cup {b})
           /\ Kept(m, attach_block(m, b), B \ (L \cup {b}), sz)
<1> DEFINE d    == attach_block(m, b)
           L2   == L \cup {b}
           list == get_list(sz[b])
<1>1. /\ Layout(B, sz, e) /\ L \subseteq B \ {Prologue, Sentinel} /\ L2 \subseteq B \ {Prologue, Sentinel}
      /\ L2 \subseteq F /\ F \subseteq B \ {Prologue, Sentinel}
      /\ IsMemory(m) /\ Links(m, L, sz) /\ Tags(m, e, B, sz, F)
  BY DEF Heap
<1>2. /\ L2 \cap Heads = {} /\ NULL \notin L2 \cup Heads /\ b \in Nat /\ L2 \cup Heads \subseteq Nat
      /\ \A x \in L2 : x \in Words /\ x + 4 \in Words
      /\ \A x \in Heads : x \in Words
      /\ \A x \in L2 : \A y \in L2 \cup Heads : x + 4 # y
  <2> HIDE DEF L2
  <2>1. /\ L2 \cap Heads = {} /\ NULL \notin L2 \cup Heads /\ L2 \cup Heads \subseteq Nat
        /\ \A x \in L2 : x \in Words /\ x + 4 \in Words
        /\ \A x \in Heads : x \in Words
        /\ \A x \in L2 : \A y \in L2 \cup Heads : x + 4 # y
    BY <1>1, LinkWords
  <2> QED BY <2>1 DEF L2
<1>3. sz[b] \in Nat /\ GET_BLK_SIZE(m, b) = sz[b] /\ list \in Heads /\ Class(sz, b) = list
  <2>1. sz[b] \in Nat /\ GET_BLK_SIZE(m, b) = sz[b]
    BY <1>1, BlockFacts, Reads
  <2>2. b \notin Heads
    BY <1>2
  <2> QED BY <2>1, <2>2, GetList
<1> HIDE DEF list
<1>4. m[list] # NULL => m[list] \in L
  BY <1>1, <1>3 DEF Links
<1>5. /\ IsMemory(d)
      /\ \A a \in Words : d[a] = IF m[list] # NULL /\ a = m[list] + 4 THEN b
                                 ELSE IF a = b THEN m[list] ELSE IF a = b + 4 THEN list
                                 ELSE IF a = list THEN b ELSE m[a]
  <2>1. b \in Words /\ b + 4 \in Words /\ list \in Words /\ list # b /\ list # b + 4 /\ b # b + 4
    BY <1>2, <1>3
  <2>2. list = get_list(GET_BLK_SIZE(m, b)) /\ (m[list] # NULL => m[list] + 4 \in Words)
    BY <1>2, <1>3, <1>4 DEF list
  <2> QED BY <1>1, <2>1, <2>2, AttachWrites
<1> HIDE DEF d
<1>6. Tags(d, e, B, sz, F) /\ Kept(m, d, B \ L2, sz)
  <2>1. \A a \in Words : d[a] = m[a] \/ a \in L2 \cup Heads \/ \E x \in L2 : a = x + 4
    BY <1>3, <1>4, <1>5
  <2> QED BY <2>1, <1>1, LinksWritten
<1>7. Links(d, L2, sz)
  <2>1. \A x \in L \cup Heads : d[x] = IF x = list THEN b ELSE m[x]
    <3> SUFFICES ASSUME NEW x \in L \cup Heads PROVE d[x] = IF x = list THEN b ELSE m[x]
      OBVIOUS
    <3>1. x \in Words /\ x # b /\ x # b + 4 /\ (m[list] # NULL => x # m[list] + 4)
      BY <1>2, <1>3, <1>4
    <3> QED BY <3>1, <1>5
  <2>2. d[b] = m[list] /\ d[b + 4] = list
    <3>1. b \in Words /\ b + 4 \in Words /\ b # b + 4
      BY <1>2
    <3>2. m[list] # NULL => b # m[list] + 4 /\ b + 4 # m[list] + 4
      <4>1. m[list] # NULL => m[list] \in Nat /\ m[list] # b /\ b # m[list] + 4
        BY <1>2, <1>4
      <4> QED BY <4>1, <1>2
    <3> QED BY <3>1, <3>2, <1>5
  <2>3. ASSUME NEW x \in L PROVE d[x + 4] = IF x = m[list] THEN b ELSE m[x + 4]
    <3>1. x + 4 \in Words /\ x + 4 # b /\ x + 4 # b + 4 /\ x + 4 # list
      <4>1. x + 4 \in Words /\ x + 4 # b /\ x + 4 # list /\ x \in Nat /\ x # b
        BY <1>2, <1>3
      <4> QED BY <4>1, <1>2
    <3>2. m[list] # NULL => (x + 4 = m[list] + 4 <=> x = m[list])
      <4>1. m[list] # NULL => m[list] \in Nat /\ x \in Nat
        BY <1>2, <1>4
      <4> QED BY <4>1
    <3>3. x # NULL
      BY <1>2
    <3> QED BY <3>1, <3>2, <3>3, <1>5
  <2>4. b \notin L \cup Heads /\ b # NULL
    BY <1>2
  <2> QED BY <2>1, <2>2, <2>3, <2>4, <1>1, <1>2, <1>3, LinksAttach
<1> QED BY <1>1, <1>5, <1>6, <1>7 DEF Heap, d

-----------------------------------------------------------------------------
(* Blocks are merged.                                                      *)

(* What SET_BOUNDARY writes.                                               *)
LEMMA BoundaryWrites ==
    ASSUME NEW m, IsMemory(m), NEW b, NEW s, NEW alloc, b - 4 \in Words, b + s - 8 \in Words
    PROVE  /\ IsMemory(SET_BOUNDARY(m, b, s, alloc))
           /\ \A a \in Words :
                SET_BOUNDARY(m, b, s, alloc)[a] = IF a = b - 4 \/ a = b + s - 8 THEN s + alloc ELSE m[a]
<1> DEFINE x == b - 4
           y == b + s - 8
           v == s + alloc
<1>1. SET_BOUNDARY(m, b, s, alloc) = [m EXCEPT ![x] = v, ![y] = v]
  BY Places DEF SET_BOUNDARY, PACK
<1>2. m = [a \in Words |-> m[a]]
  BY DEF IsMemory
<1>3. x \in Words /\ y \in Words
  OBVIOUS
<1> HIDE DEF x, y, v
<1>4. [m EXCEPT ![x] = v, ![y] = v] = [a \in Words |-> IF a = x \/ a = y THEN v ELSE m[a]]
  BY <1>2, <1>3
<1> QED BY <1>1, <1>4 DEF IsMemory, x, y, v

(* What two steps keep, both together keep.                                *)
LEMMA KeptTrans ==
    ASSUME NEW m, NEW m1, NEW m2, NEW A, NEW sz, NEW A1, NEW sz1, NEW A2, NEW sz2,
           Kept(m, m1, A1, sz1), Kept(m1, m2, A2, sz2),
           A \subseteq A1, A \subseteq A2, \A b \in A : sz1[b] = sz[b] /\ sz2[b] = sz[b]
    PROVE  Kept(m, m2, A, sz)
BY DEF Kept

(* The same memory keeps all.                                              *)
LEMMA KeptSame == \A m, A, sz : Kept(m, m, A, sz)
BY DEF Kept

(* No two neighbours are free, except those with a block of X.             *)
NoNeighbours(sz, F, X) == \A b \in F : b + sz[b] \in F => b \in X \/ b + sz[b] \in X

(* The blocks B become B2.  Of these only f, which is free and in no list, *)
(* has another size.                                                       *)
Resizes(m, e, B, sz, F, L, B2, sz2, f) ==
    /\ Heap(m, e, B, sz, F, L)
    /\ Layout(B2, sz2, e)
    /\ B2 \subseteq B /\ L \subseteq B2
    /\ f \in B2 /\ f \in F /\ f \notin L
    /\ \A c \in B2 \ {f} : sz2[c] = sz[c]

(* The tags of that block are written.                                     *)
LEMMA TagsWritten ==
    ASSUME NEW m, NEW e, NEW B, NEW sz, NEW F, NEW L, NEW B2, NEW sz2, NEW f,
           Resizes(m, e, B, sz, F, L, B2, sz2, f)
    PROVE  /\ Heap(SET_BOUNDARY(m, f, sz2[f], 0), e, B2, sz2, F \cap B2, L)
           /\ Kept(m, SET_BOUNDARY(m, f, sz2[f], 0), B2 \ {f}, sz2)
<1> USE DEF Resizes
<1> DEFINE m2 == SET_BOUNDARY(m, f, sz2[f], 0)
           F2 == F \cap B2
<1>1. /\ f \in Nat /\ sz2[f] \in Nat /\ sz2[f] >= 8 /\ f + sz2[f] <= e /\ e \in Nat
      /\ f - 4 \in Words /\ f + sz2[f] - 8 \in Words /\ e - 4 \in Words
  BY BlockFacts, BlockWords
<1>2. /\ IsMemory(m2)
      /\ \A a \in Words : m2[a] = IF a = f - 4 \/ a = f + sz2[f] - 8 THEN sz2[f] + 0 ELSE m[a]
  BY <1>1, BoundaryWrites DEF Heap
<1> HIDE DEF m2
<1> DEFINE New == {f}
<1>3. \A c \in New : m2[c - 4] = Tag(c, sz2, F2) /\ m2[c + sz2[c] - 8] = Tag(c, sz2, F2)
  BY <1>1, <1>2 DEF Tag
<1>4. m2[e - 4] = 1
  <2>1. e - 4 # f - 4 /\ e - 4 # f + sz2[f] - 8
    BY <1>1
  <2> QED BY <2>1, <1>1, <1>2 DEF Heap, Tags
<1>5. \A a \in Words :
        \/ m2[a] = m[a]
        \/ a = e - 4
        \/ \E c \in New : c - 4 <= a /\ a <= c + sz2[c] - 8
  <2>1. f - 4 <= f - 4 /\ f - 4 <= f + sz2[f] - 8 /\ f + sz2[f] - 8 <= f + sz2[f] - 8
    BY <1>1
  <2> QED BY <1>2, <2>1
<1>6. /\ L \subseteq F2 /\ F2 \subseteq B2 \ {Prologue, Sentinel} /\ New \subseteq B2
      /\ \A c \in B2 \ New : c \in B /\ sz2[c] = sz[c] /\ (c \in F2 <=> c \in F)
      /\ \A c \in L \cap New : m2[c] = m[c] /\ m2[c + 4] = m[c + 4] /\ get_list(sz2[c]) = get_list(sz[c])
  BY DEF Heap
<1>7. Rewrites(m, B, sz, F, L, m2, e, B2, sz2, F2, New)
  <2> HIDE DEF F2, New
  <2> QED BY <1>2, <1>3, <1>4, <1>5, <1>6 DEF Rewrites
<1> HIDE DEF F2, New
<1>8. Heap(m2, e, B2, sz2, F2, L) /\ Kept(m, m2, B2 \ New, sz2)
  BY <1>7, Rewritten
<1> QED BY <1>8 DEF m2, F2, New

(* What coalesce leaves of the heap m, B, sz, F.                           *)
Coalesced(m, e, B, sz, F, c) ==
    \E B2, sz2, F2 :
        /\ Heap(c.mem, e, B2, sz2, F2, F2 \ {c.bp})
        /\ c.bp \in F2
        /\ NoNeighbours(sz2, F2, {})
        /\ B2 \ F2 = B \ F
        /\ \A b \in B \ F : sz2[b] = sz[b]
        /\ Kept(m, c.mem, B \ F, sz)

(* The blocks that merge joins.                                            *)
LEMMA Neighbours ==
    ASSUME NEW m, NEW e, NEW B, NEW sz, NEW F, NEW L, Heap(m, e, B, sz, F, L), NEW b \in F
    PROVE  LET p == PREV(m, b)
               n == NEXT(m, b)
           IN  /\ p \in B /\ p + sz[p] = b /\ p < b /\ p # b
               /\ n = b + sz[b] /\ (n \in B \/ n = e) /\ b < n /\ n # b /\ n # p
               /\ p \in Nat /\ n \in Nat /\ b \in Nat
               /\ GET_BLK_ALLOC(m, p) <=> p \notin F
               /\ GET_BLK_ALLOC(m, n) <=> n \notin F
               /\ n \in F => NEXT(m, n) = n + sz[n] /\ n < n + sz[n]
<1> DEFINE p == PREV(m, b)
           n == NEXT(m, b)
<1>1. Layout(B, sz, e) /\ F \subseteq B \ {Prologue, Sentinel}
  BY DEF Heap
<1>2. b \in B /\ b # Prologue
  BY <1>1
<1>3. p \in B /\ p + sz[p] = b /\ n = b + sz[b]
  BY <1>2, Reads
<1> HIDE DEF p, n
<1>4. n \in B \/ n = e
  BY <1>1, <1>2, <1>3 DEF Layout
<1>5. /\ p \in Nat /\ sz[p] \in Nat /\ sz[p] >= 8 /\ b \in Nat /\ sz[b] \in Nat /\ sz[b] >= 8
      /\ e \notin B
      /\ n \in B => sz[n] \in Nat /\ sz[n] >= 8
  BY <1>1, <1>2, <1>3, BlockFacts
<1>6. p < b /\ p # b /\ b < n /\ n # b /\ n # p /\ n \in Nat
  BY <1>3, <1>5
<1>7. GET_BLK_ALLOC(m, p) <=> p \notin F
  BY <1>3, Reads
<1>8. GET_BLK_ALLOC(m, n) <=> n \notin F
  <2>1. CASE n \in B
    BY <2>1, Reads
  <2>2. CASE n = e
    BY <2>2, <1>1, <1>5, Reads
  <2> QED BY <2>1, <2>2, <1>4
<1>9. n \in F => NEXT(m, n) = n + sz[n] /\ n < n + sz[n]
  <2> SUFFICES ASSUME n \in F PROVE NEXT(m, n) = n + sz[n] /\ n < n + sz[n]
    OBVIOUS
  <2>1. n \in B
    BY <1>1
  <2>2. NEXT(m, n) = n + sz[n]
    BY <2>1, Reads
  <2> QED BY <2>1, <2>2, <1>5, <1>6
<1> QED BY <1>3, <1>4, <1>5, <1>6, <1>7, <1>8, <1>9 DEF p, n

(* A free block between allocated ones stays as it is.                     *)
LEMMA MergeNone ==
    ASSUME NEW m, NEW e, NEW B, NEW sz, NEW F, NEW L, Heap(m, e, B, sz, F, L), NEW b \in F,
           NoNeighbours(sz, F, {})
    PROVE  LET c == [mem |-> m, bp |-> b] IN merge(c) = c
<1> DEFINE c == [mem |-> m, bp |-> b]
           p == PREV(m, b)
           n == NEXT(m, b)
<1>1. /\ p + sz[p] = b /\ n = b + sz[b]
      /\ GET_BLK_ALLOC(m, p) <=> p \notin F
      /\ GET_BLK_ALLOC(m, n) <=> n \notin F
  BY Neighbours
<1>2. GET_BLK_ALLOC(m, p) /\ GET_BLK_ALLOC(m, n)
  BY <1>1 DEF NoNeighbours
<1>3. c.mem = m /\ c.bp = b
  OBVIOUS
<1> HIDE DEF c
<1> QED BY <1>2, <1>3 DEF merge, c

(* The free block b and its neighbours p and n, the free ones of which are *)
(* joined with it.                                                         *)
Joins(B, sz, e, F, b, p, n) ==
    /\ Layout(B, sz, e)
    /\ F \subseteq B \ {Prologue, Sentinel}
    /\ b \in F
    /\ p \in B /\ p + sz[p] = b
    /\ n = b + sz[b] /\ (n \in B \/ n = e)

(* A free block b between p and n: where the merged block begins and ends, *)
(* and the blocks that are none any more.                                  *)
JoinFirst(F, b, p)   == IF p \in F THEN p ELSE b
JoinEnd(sz, F, n)    == IF n \in F THEN n + sz[n] ELSE n
JoinGone(F, b, p, n) == (IF p \in F THEN {b} ELSE {}) \cup (IF n \in F THEN {n} ELSE {})

(* The layout sz2 after the join.                                          *)
Joined(B, sz, e, F, b, p, n, sz2) ==
    LET f    == JoinFirst(F, b, p)
        end  == JoinEnd(sz, F, n)
        Gone == JoinGone(F, b, p, n)
    IN  /\ Layout(B \ Gone, sz2, e)
        /\ f + sz2[f] = end /\ sz2[f] = end - f
        /\ \A c \in B \ Gone : c # f => sz2[c] = sz[c]

(* The blocks after b and its free neighbours p and n have been joined:    *)
(* the new block is f, and the blocks of Gone are no more.                 *)
LEMMA JoinedLayout ==
    ASSUME NEW B, NEW sz, NEW e, NEW F, NEW b, NEW p, NEW n, Joins(B, sz, e, F, b, p, n)
    PROVE  \E sz2 : Joined(B, sz, e, F, b, p, n, sz2)
<1> USE DEF Joins
<1> DEFINE sz1 == [sz EXCEPT ![b] = sz[b] + sz[n]]
           B1  == B \ {n}
           end == IF n \in F THEN n + sz[n] ELSE n
<1>1. /\ b \in Nat /\ sz[b] \in Nat /\ sz[b] >= 8 /\ p \in Nat /\ sz[p] \in Nat /\ sz[p] >= 8 /\ n \in Nat
      /\ n \in F => sz[n] \in Nat /\ sz[n] >= 8
  BY BlockFacts
<1>2. p # b /\ n # b /\ n # p /\ b \in B \ {Prologue, Sentinel}
  BY <1>1 DEF Joins
<1>3. \E s1 : /\ Layout(IF n \in F THEN B1 ELSE B, s1, e) /\ b + s1[b] = end
              /\ \A c \in B : c # b => s1[c] = sz[c]
  <2>1. CASE n \in F
    <3>1. Layout(B1, sz1, e) /\ sz1[b] = sz[b] + sz[n] /\ \A c \in B : c # b => sz1[c] = sz[c]
      BY <2>1, <1>2, LayoutMerge
    <3>2. b + (sz[b] + sz[n]) = n + sz[n]
      BY <1>1, <2>1
    <3> HIDE DEF sz1, B1
    <3> QED BY <2>1, <3>1, <3>2
  <2>2. CASE n \notin F
    BY <2>2
  <2> QED BY <2>1, <2>2
<1> HIDE DEF sz1
<1> DEFINE B3 == IF n \in F THEN B1 ELSE B
<1>4. PICK s1 : Layout(B3, s1, e) /\ b + s1[b] = end /\ \A c \in B : c # b => s1[c] = sz[c]
  BY <1>3
<1>5. end \in Nat /\ b \in B3 /\ p \in B3 /\ s1[p] = sz[p] /\ s1[b] \in Nat
  <2>1. b \in B3 /\ p \in B3
    BY <1>2
  <2>2. end \in Nat
    BY <1>1
  <2> HIDE DEF B3, end
  <2> QED BY <2>1, <2>2, <1>2, <1>4, BlockFacts
<1>6. CASE p \in F
  <2> DEFINE s2 == [s1 EXCEPT ![p] = s1[p] + s1[b]]
             B4 == B3 \ {b}
  <2>1. p \in B3 \ {Prologue, Sentinel} /\ b \in B3 \ {Prologue, Sentinel} /\ p + s1[p] = b
    BY <1>5, <1>6
  <2>2. Layout(B4, s2, e) /\ s2[p] = s1[p] + s1[b] /\ \A c \in B3 : c # p => s2[c] = s1[c]
    <3> HIDE DEF B3
    <3> QED BY <2>1, <1>4, LayoutMerge
  <2> HIDE DEF s2
  <2>3. p + s2[p] = end /\ s2[p] = end - p
    <3>1. p + (sz[p] + s1[b]) = (p + sz[p]) + s1[b]
      BY <1>1, <1>5
    <3>2. s2[p] \in Nat /\ p + s2[p] = end
      BY <3>1, <2>2, <1>4, <1>5, <1>1
    <3> HIDE DEF end
    <3> QED BY <3>2, <1>1, <1>5
  <2>4. JoinFirst(F, b, p) = p /\ JoinEnd(sz, F, n) = end /\ B \ JoinGone(F, b, p, n) = B4
    <3>1. JoinFirst(F, b, p) = p /\ JoinEnd(sz, F, n) = end
      BY <1>6 DEF JoinFirst, JoinEnd
    <3>2. B \ JoinGone(F, b, p, n) = B4
      BY <1>6 DEF JoinGone
    <3> QED BY <3>1, <3>2
  <2>5. \A c \in B4 : c # p => s2[c] = sz[c]
    BY <2>2, <1>4
  <2> HIDE DEF B4, end, Joins
  <2>6. Joined(B, sz, e, F, b, p, n, s2)
    BY <2>2, <2>3, <2>4, <2>5 DEF Joined
  <2> QED BY <2>6
<1>7. CASE p \notin F
  <2>1. JoinFirst(F, b, p) = b /\ JoinEnd(sz, F, n) = end /\ B \ JoinGone(F, b, p, n) = B3
    <3>1. JoinFirst(F, b, p) = b /\ JoinEnd(sz, F, n) = end
      BY <1>7 DEF JoinFirst, JoinEnd
    <3>2. B \ JoinGone(F, b, p, n) = B3
      BY <1>7 DEF JoinGone
    <3> QED BY <3>1, <3>2
  <2>2. s1[b] = end - b
    <3> HIDE DEF end
    <3> QED BY <1>1, <1>4, <1>5
  <2>3. \A c \in B3 : c # b => s1[c] = sz[c]
    BY <1>4
  <2> HIDE DEF B3, end, Joins
  <2>4. Joined(B, sz, e, F, b, p, n, s1)
    BY <2>1, <2>2, <2>3, <1>4 DEF Joined
  <2> QED BY <2>4
<1> QED BY <1>6, <1>7

(* The joined block has no free neighbours.                                *)
LEMMA JoinedAlone ==
    ASSUME NEW B, NEW sz, NEW e, NEW F, NEW b, NEW p, NEW n, Joins(B, sz, e, F, b, p, n),
           NoNeighbours(sz, F, {b}),
           NEW sz2, Joined(B, sz, e, F, b, p, n, sz2)
    PROVE  NoNeighbours(sz2, F \ JoinGone(F, b, p, n), {})
<1> DEFINE f    == JoinFirst(F, b, p)
           end  == JoinEnd(sz, F, n)
           Gone == JoinGone(F, b, p, n)
<1> USE DEF Joins, Joined, JoinFirst, JoinEnd, JoinGone
<1>1. /\ b \in Nat /\ sz[b] \in Nat /\ sz[b] >= 8 /\ p \in Nat /\ sz[p] \in Nat /\ sz[p] >= 8 /\ n \in Nat
      /\ n \in F => sz[n] \in Nat /\ sz[n] >= 8
      /\ p < b /\ b < n
  <2>1. /\ b \in Nat /\ sz[b] \in Nat /\ sz[b] >= 8 /\ p \in Nat /\ sz[p] \in Nat /\ sz[p] >= 8 /\ n \in Nat
        /\ n \in F => sz[n] \in Nat /\ sz[n] >= 8
    BY BlockFacts
  <2> QED BY <2>1
<1>2. SUFFICES ASSUME NEW x \in F \ Gone, x + sz2[x] \in F \ Gone PROVE FALSE
  BY DEF NoNeighbours
<1>3. x \in B /\ x \in Nat /\ sz[x] \in Nat /\ sz[x] >= 8
  BY BlockFacts
<1>4. CASE x = f
  <2>1. end \in F \ Gone
    BY <1>2, <1>4
  <2>2. n \in F /\ n + sz[n] \in F
    BY <2>1
  <2>3. n = b \/ n + sz[n] = b
    BY <2>2 DEF NoNeighbours
  <2> QED BY <2>2, <2>3, <1>1
<1>5. CASE x # f
  <2>1. x + sz[x] \in F \ Gone
    BY <1>2, <1>5
  <2>2. x = b \/ x + sz[x] = b
    BY <2>1 DEF NoNeighbours
  <2>3. CASE p \in F
    BY <2>1, <2>2, <2>3
  <2>4. CASE p \notin F
    <3>1. x # b
      BY <2>4, <1>5
    <3>2. x + sz[x] = b
      BY <3>1, <2>2
    <3>3. x = p
      BY <3>2, <1>3, OnePredecessor
    <3> QED BY <3>3, <2>4
  <2> QED BY <2>3, <2>4
<1> QED BY <1>4, <1>5

(* One step of coalesce leaves a free block without free neighbours.       *)
LEMMA MergeStep ==
    ASSUME NEW m, NEW e, NEW B, NEW sz, NEW F, NEW b \in F, Heap(m, e, B, sz, F, F \ {b}),
           NoNeighbours(sz, F, {b})
    PROVE  Coalesced(m, e, B, sz, F, merge([mem |-> m, bp |-> b]))
<1> DEFINE c    == [mem |-> m, bp |-> b]
           p    == PREV(m, b)
           n    == NEXT(m, b)
           f    == JoinFirst(F, b, p)
           end  == JoinEnd(sz, F, n)
           Gone == JoinGone(F, b, p, n)
           L    == F \ {b}
           L1   == IF p \in F THEN L \ {p} ELSE L
           L2   == IF n \in F THEN L1 \ {n} ELSE L1
           m1   == IF p \in F THEN detach_block(m, p) ELSE m
           m2   == IF n \in F THEN detach_block(m1, n) ELSE m1
           m3   == SET_BOUNDARY(m2, f, end - f, 0)
<1>1. Layout(B, sz, e) /\ F \subseteq B \ {Prologue, Sentinel}
  BY DEF Heap
<1>2. /\ p \in B /\ p + sz[p] = b /\ p # b
      /\ n = b + sz[b] /\ (n \in B \/ n = e) /\ n # b /\ n # p
      /\ GET_BLK_ALLOC(m, p) <=> p \notin F
      /\ GET_BLK_ALLOC(m, n) <=> n \notin F
      /\ n \in F => NEXT(m, n) = n + sz[n]
  BY Neighbours
<1> HIDE DEF p, n
<1>0. Joins(B, sz, e, F, b, p, n)
  BY <1>1, <1>2 DEF Joins
<1>30. PICK sz2 : Joined(B, sz, e, F, b, p, n, sz2)
  BY <1>0, JoinedLayout
<1>3. /\ Layout(B \ Gone, sz2, e)
      /\ f + sz2[f] = end /\ sz2[f] = end - f
      /\ \A x \in B \ Gone : x # f => sz2[x] = sz[x]
  BY <1>30 DEF Joined
<1>4. merge(c) = IF p \notin F /\ n \notin F THEN c ELSE [mem |-> m3, bp |-> f]
  <2>1. c.mem = m /\ c.bp = b
    OBVIOUS
  <2> HIDE DEF c
  <2> QED BY <2>1, <1>2 DEF merge, p, n, JoinFirst, JoinEnd
<1>5. Heap(m1, e, B, sz, F, L1) /\ Kept(m, m1, B \ L, sz)
  <2>1. CASE p \in F
    <3>1. p \in L
      BY <2>1, <1>2
    <3> QED BY <3>1, <2>1, DetachStep
  <2>2. CASE p \notin F
    BY <2>2, KeptSame
  <2> QED BY <2>1, <2>2
<1>6. Heap(m2, e, B, sz, F, L2) /\ Kept(m1, m2, B \ L1, sz)
  <2> HIDE DEF m1, L1
  <2>1. CASE n \in F
    <3>1. n \in L1
      BY <2>1, <1>2 DEF L1
    <3> QED BY <3>1, <2>1, <1>5, DetachStep
  <2>2. CASE n \notin F
    BY <2>2, <1>5, KeptSame
  <2> QED BY <2>1, <2>2
<1>7. /\ L2 = (F \ Gone) \ {f} /\ f \in F \ Gone /\ F \cap (B \ Gone) = F \ Gone
      /\ (B \ Gone) \ (F \ Gone) = B \ F
      /\ B \ F \subseteq B \ L /\ B \ F \subseteq B \ L1 /\ f \in B
      /\ B \ F \subseteq (B \ Gone) \ {f}
  BY <1>1, <1>2 DEF JoinFirst, JoinGone
<1>8. NoNeighbours(sz2, F \ Gone, {})
  BY <1>0, <1>30, JoinedAlone
<1> HIDE DEF f, end, Gone, m1, m2, L1, L2
<1>9. CASE p \notin F /\ n \notin F
  <2>1. NoNeighbours(sz, F, {})
    <3>1. NoNeighbours(sz2, F, {}) /\ Gone = {} /\ f = b
      BY <1>8, <1>9 DEF Gone, f, JoinGone, JoinFirst
    <3>2. \A x \in B : x # b => sz2[x] = sz[x]
      BY <1>3, <3>1
    <3>3. ASSUME NEW x \in F, x + sz[x] \in F PROVE FALSE
      <4>1. x = b \/ x + sz[x] = b
        BY <3>3 DEF NoNeighbours
      <4>2. x # b
        BY <3>3, <1>2, <1>9
      <4>3. x + sz[x] = p + sz[p] /\ x \in B
        BY <4>1, <4>2, <1>1, <1>2
      <4>4. x = p
        BY <4>3, <1>1, <1>2, OnePredecessor
      <4> QED BY <4>4, <1>9
    <3> QED BY <3>3 DEF NoNeighbours
  <2>2. merge(c).mem = m /\ merge(c).bp = b
    BY <1>4, <1>9
  <2>3. Kept(m, m, B \ F, sz)
    BY KeptSame
  <2>4. b \in F /\ F \ {b} = L
    OBVIOUS
  <2> DEFINE r == merge(c)
  <2>5. /\ Heap(r.mem, e, B, sz, F, F \ {r.bp}) /\ r.bp \in F
        /\ Kept(m, r.mem, B \ F, sz)
    BY <2>2, <2>3
  <2> HIDE DEF c, r
  <2>6. Coalesced(m, e, B, sz, F, r)
    BY <2>1, <2>5 DEF Coalesced
  <2> QED BY <2>6 DEF r, c
<1>10. CASE p \in F \/ n \in F
  <2>1. merge(c).mem = m3 /\ merge(c).bp = f
    BY <1>4, <1>10
  <2>2. m3 = SET_BOUNDARY(m2, f, sz2[f], 0)
    BY <1>3
  <2> DEFINE B2 == B \ Gone
             F2 == F \ Gone
  <2>3. /\ B2 \subseteq B /\ L2 \subseteq B2 /\ f \in (B2 \cap F) \ L2
        /\ \A x \in B2 \ {f} : sz2[x] = sz[x]
        /\ Layout(B2, sz2, e) /\ F \cap B2 = F2 /\ L2 = F2 \ {f}
        /\ f \in F2 /\ B2 \ F2 = B \ F
    BY <1>1, <1>3, <1>7
  <2> HIDE DEF B2, F2, m3
  <2>4. Heap(m3, e, B2, sz2, F2, L2) /\ Kept(m2, m3, B2 \ {f}, sz2)
    <3>1. Resizes(m2, e, B, sz, F, L2, B2, sz2, f)
      BY <2>3, <1>6 DEF Resizes
    <3>2. Heap(SET_BOUNDARY(m2, f, sz2[f], 0), e, B2, sz2, F \cap B2, L2)
          /\ Kept(m2, SET_BOUNDARY(m2, f, sz2[f], 0), B2 \ {f}, sz2)
      BY <3>1, TagsWritten
    <3> QED BY <3>2, <2>2, <2>3
  <2>5. NoNeighbours(sz2, F2, {})
    BY <1>8 DEF F2
  <2>6. \A x \in B \ F : sz2[x] = sz[x]
    BY <1>7, <2>3 DEF B2
  <2>7. Kept(m, m3, B \ F, sz)
    <3>1. B \ F \subseteq B2 \ {f}
      BY <1>7 DEF B2
    <3>2. Kept(m, m2, B \ F, sz)
      BY <1>5, <1>6, <1>7, KeptTrans
    <3> QED BY <3>1, <3>2, <2>4, <2>6, KeptTrans
  <2> DEFINE r == merge(c)
  <2>8. /\ Heap(r.mem, e, B2, sz2, F2, F2 \ {r.bp}) /\ r.bp \in F2
        /\ Kept(m, r.mem, B \ F, sz) /\ B2 \ F2 = B \ F
    BY <2>1, <2>3, <2>4, <2>7
  <2> HIDE DEF c, r
  <2>9. Coalesced(m, e, B, sz, F, r)
    BY <2>5, <2>6, <2>8 DEF Coalesced
  <2> QED BY <2>9 DEF r, c
<1> QED BY <1>9, <1>10 DEF c

-----------------------------------------------------------------------------
(* Iteration, and coalesce.                                                *)

(* A nonempty set of naturals has a least element.                         *)
LEMMA LeastNumber ==
    ASSUME NEW T \in SUBSET Nat, T # {}
    PROVE  \E x \in T : \A y \in T : x <= y
<1>1. PICK x \in T : \A y \in T : ~ (<<y, x>> \in OpToRel(<, Nat))
  BY NatLessThanWellFounded, WFMin
<1>2. \A y \in T : ~ (y < x)
  BY <1>1 DEF OpToRel
<1> QED BY <1>2

(* A function can be applied again and again.                              *)
Iterable(S, a, g, N) == a \in S /\ g \in [S -> S] /\ N \in Nat

(* A function g can be iterated N times.                                   *)
LEMMA Iterates ==
    ASSUME NEW S, NEW a, NEW g, NEW N, Iterable(S, a, g, N)
    PROVE  \E f \in [0..N -> S] : f[0] = a /\ \A n \in 1..N : f[n] = g[f[n - 1]]
<1> DEFINE Walk(f, N_1) == f[0] = a /\ \A n \in 1..N_1 : f[n] = g[f[n - 1]]
           Bad == {k \in Nat : ~ \E f \in [0..k -> S] : Walk(f, k)}
<1> USE DEF Iterable
<1>1. SUFFICES ASSUME Bad # {} PROVE FALSE
  OBVIOUS
<1>2. PICK k \in Bad : \A j \in Bad : k <= j
  BY <1>1, LeastNumber
<1>3. CASE k = 0
  <2>1. [n \in 0..0 |-> a] \in [0..0 -> S] /\ Walk([n \in 0..0 |-> a], 0)
    OBVIOUS
  <2> QED BY <2>1, <1>2, <1>3
<1>4. CASE k # 0
  <2>1. k \in Nat /\ k - 1 \in Nat /\ k - 1 \notin Bad
    <3>1. k \in Nat
      BY <1>2
    <3>2. k - 1 \in Nat /\ ~(k <= k - 1)
      BY <3>1, <1>4
    <3> HIDE DEF Bad
    <3> QED BY <3>1, <3>2, <1>2
  <2>2. PICK f \in [0..k - 1 -> S] : Walk(f, k - 1)
    BY <2>1
  <2> DEFINE h == [n \in 0..k |-> IF n = k THEN g[f[k - 1]] ELSE f[n]]
  <2>3. h \in [0..k -> S]
    BY <2>1, <2>2
  <2>4. h[0] = a
    BY <2>1, <2>2, <1>4
  <2>5. \A n \in 1..k : h[n] = g[h[n - 1]]
    <3> SUFFICES ASSUME NEW n \in 1..k PROVE h[n] = g[h[n - 1]]
      OBVIOUS
    <3>1. n - 1 \in 0..k - 1 /\ n - 1 \in 0..k /\ n \in 0..k /\ n - 1 # k
      BY <2>1
    <3>2. h[n - 1] = f[n - 1]
      BY <3>1
    <3>3. CASE n = k
      BY <3>1, <3>2, <3>3
    <3>4. CASE n # k
      <4>1. n \in 1..k - 1 /\ h[n] = f[n]
        BY <3>1, <3>4, <2>1
      <4> QED BY <4>1, <3>2, <2>2
    <3> QED BY <3>3, <3>4
  <2> HIDE DEF h
  <2> QED BY <2>1, <2>3, <2>4, <2>5, <1>2
<1> QED BY <1>3, <1>4

(* What holds at the start and lasts, holds along the way.                 *)
LEMMA Lasts ==
    ASSUME NEW N \in Nat, NEW G \in SUBSET (0..N), 0 \in G,
           \A n \in 1..N : n - 1 \in G => n \in G
    PROVE  G = 0..N
<1> DEFINE Bad == {n \in 0..N : n \notin G}
<1>1. SUFFICES ASSUME Bad # {} PROVE FALSE
  OBVIOUS
<1>2. Bad \in SUBSET Nat
  OBVIOUS
<1>3. PICK k \in Bad : \A j \in Bad : k <= j
  BY <1>1, <1>2, LeastNumber
<1>4. k \in 0..N /\ k \notin G /\ k # 0
  BY <1>3
<1>5. k \in 1..N /\ k - 1 \in 0..N /\ ~(k <= k - 1)
  BY <1>4
<1>6. k - 1 \notin Bad
  <2> HIDE DEF Bad
  <2> QED BY <1>3, <1>5
<1> QED BY <1>4, <1>5, <1>6

(* The bound on the number of blocks.                                      *)
LEMMA MaxBlocks == MAX_BLOCKS \in Nat /\ MAX_BLOCKS >= 1 /\ 8 * MAX_BLOCKS = MAX_HEAP
BY HeapAssumption DEF MAX_BLOCKS

(* coalesce leaves the block merged with its free neighbours.              *)
LEMMA CoalesceStep ==
    ASSUME NEW m, NEW e, NEW B, NEW sz, NEW F, NEW b \in F, Heap(m, e, B, sz, F, F \ {b}),
           NoNeighbours(sz, F, {b})
    PROVE  Coalesced(m, e, B, sz, F, coalesce(m, b))
<1> DEFINE c0 == [mem |-> m, bp |-> b]
           c1 == merge(c0)
           N  == MAX_BLOCKS
           step(f, n) == IF n = 0 THEN c0 ELSE merge(f[n - 1])
           merged == CHOOSE f : f = [n \in 0..N |-> step(f, n)]
<1>1. coalesce(m, b) = merged[N]
  BY DEF coalesce
<1>2. Coalesced(m, e, B, sz, F, c1)
  BY MergeStep
<1>3. merge(c1) = c1
  <2>0. c1 = [mem |-> c1.mem, bp |-> c1.bp]
    <3>1. \A c : c = [mem |-> c.mem, bp |-> c.bp] => merge(c) = [mem |-> merge(c).mem, bp |-> merge(c).bp]
      BY DEF merge
    <3>2. c0 = [mem |-> c0.mem, bp |-> c0.bp]
      OBVIOUS
    <3> HIDE DEF c0
    <3> QED BY <3>1, <3>2
  <2>1. PICK B2, sz2, F2 : Heap(c1.mem, e, B2, sz2, F2, F2 \ {c1.bp}) /\ c1.bp \in F2 /\ NoNeighbours(sz2, F2, {})
    BY <1>2 DEF Coalesced
  <2> HIDE DEF c1
  <2>2. merge([mem |-> c1.mem, bp |-> c1.bp]) = [mem |-> c1.mem, bp |-> c1.bp]
    BY <2>1, MergeNone
  <2> QED BY <2>0, <2>2
<1> HIDE DEF c0, c1
<1>4. merged = [n \in 0..N |-> step(merged, n)]
  <2> DEFINE f == [n \in 0..N |-> IF n = 0 THEN c0 ELSE c1]
  <2>1. ASSUME NEW n \in 0..N PROVE f[n] = step(f, n)
    <3>1. CASE n = 0
      BY <3>1
    <3>2. CASE n # 0
      <4>1. n - 1 \in 0..N
        BY <3>2, MaxBlocks
      <4>2. f[n - 1] = c0 \/ f[n - 1] = c1
        BY <4>1
      <4> QED BY <3>2, <4>2, <1>3 DEF c1
    <3> QED BY <3>1, <3>2
  <2>2. f = [n \in 0..N |-> step(f, n)]
    BY <2>1
  <2> HIDE DEF f
  <2> QED BY <2>2
<1> HIDE DEF merged
<1>5. merged[N] = c1
  <2> DEFINE G == {n \in 0..N : n # 0 => merged[n] = c1}
  <2>1. ASSUME NEW n \in 1..N, n - 1 \in G PROVE n \in G
    <3>1. merged[n] = merge(merged[n - 1]) /\ n \in 0..N
      BY <1>4, MaxBlocks
    <3>2. CASE n = 1
      <4>1. merged[0] = c0
        BY <1>4, MaxBlocks
      <4> QED BY <4>1, <3>1, <3>2 DEF c1
    <3>3. CASE n # 1
      <4>1. n - 1 # 0
        BY <3>3, MaxBlocks
      <4> QED BY <4>1, <3>1, <2>1, <1>3
    <3> QED BY <3>2, <3>3
  <2>2. 0 \in G
    BY MaxBlocks
  <2>3. G = 0..N
    <3>1. G \in SUBSET (0..N) /\ N \in Nat
      BY MaxBlocks
    <3> HIDE DEF G, N
    <3> QED BY <3>1, <2>1, <2>2, Lasts
  <2>4. N \in 0..N /\ N # 0
    BY MaxBlocks
  <2> QED BY <2>3, <2>4
<1> QED BY <1>1, <1>2, <1>5

-----------------------------------------------------------------------------
(* Blocks are marked and filled.                                           *)

(* The heap between two calls.                                             *)
Valid(m, e, B, sz, F) == Heap(m, e, B, sz, F, F) /\ NoNeighbours(sz, F, {})

(* A block that is in no list is marked: F2 are the free blocks now.       *)
Marks(m, e, B, sz, F, L, b, alloc, F2) ==
    /\ Heap(m, e, B, sz, F, L)
    /\ b \in B \ {Prologue, Sentinel} /\ b \notin L
    /\ F2 \ {b} = F \ {b}
    /\ (b \in F2 /\ alloc = 0) \/ (b \notin F2 /\ alloc = 1)

(* SET_BOUNDARY marks a block that is in no list.                          *)
LEMMA MarkStep ==
    ASSUME NEW m, NEW e, NEW B, NEW sz, NEW F, NEW L, NEW b, NEW alloc, NEW F2,
           Marks(m, e, B, sz, F, L, b, alloc, F2)
    PROVE  /\ Heap(SET_BOUNDARY(m, b, sz[b], alloc), e, B, sz, F2, L)
           /\ Kept(m, SET_BOUNDARY(m, b, sz[b], alloc), B \ {b}, sz)
<1> DEFINE m2  == SET_BOUNDARY(m, b, sz[b], alloc)
           New == {b}
<1> USE DEF Marks
<1>1. /\ b \in Nat /\ sz[b] \in Nat /\ sz[b] >= 8 /\ b + sz[b] <= e /\ e \in Nat
      /\ b - 4 \in Words /\ b + sz[b] - 8 \in Words /\ e - 4 \in Words
  BY BlockFacts, BlockWords DEF Heap
<1>2. /\ IsMemory(m2)
      /\ \A a \in Words : m2[a] = IF a = b - 4 \/ a = b + sz[b] - 8 THEN sz[b] + alloc ELSE m[a]
  BY <1>1, BoundaryWrites DEF Heap
<1> HIDE DEF m2
<1>3. \A c \in New : m2[c - 4] = Tag(c, sz, F2) /\ m2[c + sz[c] - 8] = Tag(c, sz, F2)
  BY <1>1, <1>2 DEF Tag
<1>4. m2[e - 4] = 1
  <2>1. e - 4 # b - 4 /\ e - 4 # b + sz[b] - 8
    BY <1>1
  <2> QED BY <2>1, <1>1, <1>2 DEF Heap, Tags
<1>5. \A a \in Words :
        \/ m2[a] = m[a]
        \/ a = e - 4
        \/ \E c \in New : c - 4 <= a /\ a <= c + sz[c] - 8
  <2>1. b - 4 <= b - 4 /\ b - 4 <= b + sz[b] - 8 /\ b + sz[b] - 8 <= b + sz[b] - 8
    BY <1>1
  <2> QED BY <1>2, <2>1
<1>6. /\ L \subseteq F2 /\ F2 \subseteq B \ {Prologue, Sentinel} /\ New \subseteq B
      /\ \A c \in B \ New : c \in B /\ sz[c] = sz[c] /\ (c \in F2 <=> c \in F)
      /\ L \cap New = {}
  BY DEF Heap
<1>7. Rewrites(m, B, sz, F, L, m2, e, B, sz, F2, New)
  <2>1. Layout(B, sz, e)
    BY DEF Heap
  <2> HIDE DEF New, Marks
  <2> QED BY <2>1, <1>2, <1>3, <1>4, <1>5, <1>6 DEF Rewrites
<1> HIDE DEF New
<1>8. Heap(m2, e, B, sz, F2, L) /\ Kept(m, m2, B \ New, sz)
  BY <1>7, Rewritten
<1> QED BY <1>8 DEF m2, New

(* SET_ALLOC on a free block that has left its list.                       *)
LEMMA AllocStep ==
    ASSUME NEW m, NEW e, NEW B, NEW sz, NEW F, NEW L, Heap(m, e, B, sz, F, L), NEW b \in F \ L
    PROVE  /\ Heap(SET_ALLOC(m, b), e, B, sz, F \ {b}, L)
           /\ Kept(m, SET_ALLOC(m, b), B \ {b}, sz)
<1> DEFINE F2 == F \ {b}
<1>1. Marks(m, e, B, sz, F, L, b, 1, F2)
  BY DEF Marks, Heap
<1>2. SET_ALLOC(m, b) = SET_BOUNDARY(m, b, sz[b], 1)
  BY Reads DEF SET_ALLOC, Heap
<1> HIDE DEF F2
<1>3. /\ Heap(SET_BOUNDARY(m, b, sz[b], 1), e, B, sz, F2, L)
      /\ Kept(m, SET_BOUNDARY(m, b, sz[b], 1), B \ {b}, sz)
  BY <1>1, MarkStep
<1> QED BY <1>2, <1>3 DEF F2

(* SET_FREE on an allocated block.                                         *)
LEMMA FreeStep ==
    ASSUME NEW m, NEW e, NEW B, NEW sz, NEW F, Heap(m, e, B, sz, F, F),
           NEW b \in B \ F, b \notin {Prologue, Sentinel}
    PROVE  /\ Heap(SET_FREE(m, b), e, B, sz, F \cup {b}, F)
           /\ Kept(m, SET_FREE(m, b), B \ {b}, sz)
<1> DEFINE F2 == F \cup {b}
<1>1. Marks(m, e, B, sz, F, F, b, 0, F2)
  <2>1. b \in F2 /\ F2 \ {b} = F \ {b} /\ b \in B \ {Prologue, Sentinel} /\ b \notin F
    OBVIOUS
  <2> HIDE DEF F2
  <2> QED BY <2>1 DEF Marks
<1>2. SET_FREE(m, b) = SET_BOUNDARY(m, b, sz[b], 0)
  BY Reads DEF SET_FREE
<1> HIDE DEF F2
<1>3. /\ Heap(SET_BOUNDARY(m, b, sz[b], 0), e, B, sz, F2, F)
      /\ Kept(m, SET_BOUNDARY(m, b, sz[b], 0), B \ {b}, sz)
  BY <1>1, MarkStep
<1> QED BY <1>2, <1>3 DEF F2

(* The words of an allocated block's payload may be written.               *)
LEMMA PayloadWritten ==
    ASSUME NEW m, NEW e, NEW B, NEW sz, NEW F, NEW L, Heap(m, e, B, sz, F, L), NEW b \in B \ F,
           NEW m2, IsMemory(m2),
           \A a \in Words : m2[a] = m[a] \/ (b <= a /\ a < b + sz[b] - 8)
    PROVE  Heap(m2, e, B, sz, F, L) /\ Kept(m, m2, B \ {b}, sz)
<1> DEFINE New == {b}
<1>1. /\ b \in Nat /\ sz[b] \in Nat /\ sz[b] >= 8 /\ b + sz[b] <= e /\ e \in Nat
      /\ b - 4 \in Words /\ b + sz[b] - 8 \in Words /\ e - 4 \in Words
  BY BlockFacts, BlockWords DEF Heap
<1>2. m2[b - 4] = m[b - 4] /\ m2[b + sz[b] - 8] = m[b + sz[b] - 8] /\ m2[e - 4] = m[e - 4]
  BY <1>1
<1>3. \A c \in New : m2[c - 4] = Tag(c, sz, F) /\ m2[c + sz[c] - 8] = Tag(c, sz, F)
  BY <1>2 DEF Heap, Tags
<1>4. m2[e - 4] = 1
  BY <1>2 DEF Heap, Tags
<1>5. \A a \in Words :
        \/ m2[a] = m[a]
        \/ a = e - 4
        \/ \E c \in New : c - 4 <= a /\ a <= c + sz[c] - 8
  BY <1>1, WordsAre
<1>6. /\ L \subseteq F /\ F \subseteq B \ {Prologue, Sentinel} /\ New \subseteq B /\ Layout(B, sz, e)
      /\ L \cap New = {}
  BY DEF Heap
<1>7. Rewrites(m, B, sz, F, L, m2, e, B, sz, F, New)
  <2> HIDE DEF New
  <2> QED BY <1>3, <1>4, <1>5, <1>6 DEF Rewrites
<1> HIDE DEF New
<1>8. Heap(m2, e, B, sz, F, L) /\ Kept(m, m2, B \ New, sz)
  BY <1>7, Rewritten
<1> QED BY <1>8 DEF New

(* The call leaves the heap valid, with the allocated blocks A2, and has   *)
(* not touched those of A.                                                 *)
Leaves(m, sz, A, m2, e2, A2, sz2) ==
    \E B2, F2 : /\ Valid(m2, e2, B2, sz2, F2)
                /\ B2 \ F2 = A2
                /\ \A b \in A : sz2[b] = sz[b]
                /\ Kept(m, m2, A, sz)

(* A free block in no list is merged and put in its list.                  *)
LEMMA Relisted ==
    ASSUME NEW m, NEW e, NEW B, NEW sz, NEW F, NEW b \in F, Heap(m, e, B, sz, F, F \ {b}),
           NoNeighbours(sz, F, {b})
    PROVE  \E sz2 : Leaves(m, sz, B \ F, attach_block(coalesce(m, b).mem, coalesce(m, b).bp), e,
                           B \ F, sz2)
<1> DEFINE c  == coalesce(m, b)
           m1 == attach_block(c.mem, c.bp)
<1>1. Coalesced(m, e, B, sz, F, c)
  BY CoalesceStep
<1> HIDE DEF c
<1>2. PICK B2, sz2, F2 :
        /\ Heap(c.mem, e, B2, sz2, F2, F2 \ {c.bp})
        /\ c.bp \in F2
        /\ NoNeighbours(sz2, F2, {})
        /\ B2 \ F2 = B \ F
        /\ \A x \in B \ F : sz2[x] = sz[x]
        /\ Kept(m, c.mem, B \ F, sz)
  BY <1>1 DEF Coalesced
<1>3. Heap(m1, e, B2, sz2, F2, F2) /\ Kept(c.mem, m1, B2 \ F2, sz2)
  <2> DEFINE m0 == c.mem
             d  == c.bp
             L  == F2 \ {d}
  <2>1. d \in F2 \ L /\ L \cup {d} = F2 /\ Heap(m0, e, B2, sz2, F2, L) /\ m1 = attach_block(m0, d)
    BY <1>2
  <2> HIDE DEF m0, d, L, m1
  <2>2. Heap(m1, e, B2, sz2, F2, L \cup {d}) /\ Kept(m0, m1, B2 \ (L \cup {d}), sz2)
    BY <2>1, AttachStep
  <2> QED BY <2>1, <2>2 DEF m0
<1> HIDE DEF m1
<1>4. Kept(m, m1, B \ F, sz)
  BY <1>2, <1>3, KeptTrans
<1>5. Leaves(m, sz, B \ F, m1, e, B \ F, sz2)
  BY <1>2, <1>3, <1>4 DEF Leaves, Valid
<1> QED BY <1>5 DEF m1, c

(* mm_free.                                                                *)
LEMMA FreeLeaves ==
    ASSUME NEW h, NEW B, NEW sz, NEW F, Valid(h.mem, h.brk, B, sz, F),
           NEW b \in B \ F, b \notin {Prologue, Sentinel}
    PROVE  /\ mm_free(h, b).brk = h.brk
           /\ \E sz2 : Leaves(h.mem, sz, (B \ F) \ {b}, mm_free(h, b).mem, h.brk, (B \ F) \ {b}, sz2)
<1> DEFINE m1 == SET_FREE(h.mem, b)
           F1 == F \cup {b}
           m2 == attach_block(coalesce(m1, b).mem, coalesce(m1, b).bp)
<1>1. mm_free(h, b).brk = h.brk /\ mm_free(h, b).mem = m2
  BY DEF mm_free, Result
<1>2. Heap(m1, h.brk, B, sz, F1, F) /\ Kept(h.mem, m1, B \ {b}, sz)
  BY FreeStep DEF Valid
<1>3. F1 \ {b} = F /\ b \in F1 /\ B \ F1 = (B \ F) \ {b}
  OBVIOUS
<1>4. NoNeighbours(sz, F1, {b})
  BY DEF NoNeighbours, Valid
<1> HIDE DEF F1, m1
<1>5. PICK sz2 : Leaves(m1, sz, B \ F1, m2, h.brk, B \ F1, sz2)
  BY <1>2, <1>3, <1>4, Relisted
<1> HIDE DEF m2
<1>6. PICK B2, F2 : /\ Valid(m2, h.brk, B2, sz2, F2)
                    /\ B2 \ F2 = (B \ F) \ {b}
                    /\ \A c \in (B \ F) \ {b} : sz2[c] = sz[c]
                    /\ Kept(m1, m2, (B \ F) \ {b}, sz)
  BY <1>5, <1>3 DEF Leaves
<1>7. Kept(h.mem, m2, (B \ F) \ {b}, sz)
  BY <1>2, <1>6, KeptTrans
<1>8. Leaves(h.mem, sz, (B \ F) \ {b}, m2, h.brk, (B \ F) \ {b}, sz2)
  BY <1>6, <1>7 DEF Leaves
<1> QED BY <1>1, <1>8

-----------------------------------------------------------------------------
(* Searching the free lists.                                               *)

(* The limits of the lists grow.                                           *)
LEMMA LimitsGrow ==
    \A i, j \in 1..10 : i <= j => Limit[i] \in Nat /\ Limit[j] \in Nat /\ Limit[i] <= Limit[j]
<1>1. \A i \in 1..9 : Limit[i] \in Nat /\ Limit[i + 1] \in Nat
  BY DEF Limit
<1>. QED
  BY <1>1 DEF Limit

(* A larger block is never in an earlier list: search_block may start at   *)
(* the list of the size it looks for.                                      *)
THEOREM ListsOrdered ==
    ASSUME NEW small \in Nat, NEW large \in Nat, small <= large
    PROVE  get_list_index(small) <= get_list_index(large)
<1>. DEFINE i == get_list_index(small)
            j == get_list_index(large)
<1>1. i \in 0..10 /\ j \in 0..10
  BY IndexCorrect DEF LIST_NUM
<1>2. SUFFICES ASSUME j < i PROVE FALSE
  BY <1>1
<1>3. large <= Limit[j + 1] /\ small > Limit[i]
  BY <1>1, <1>2, IndexCorrect
<1>4. Limit[j + 1] <= Limit[i] /\ Limit[i] \in Nat /\ Limit[j + 1] \in Nat
  BY <1>1, <1>2, LimitsGrow
<1>. QED
  BY <1>3, <1>4

(* Nodes that are reached from the head of a list.                         *)
Walked(m, list, node, end) ==
    /\ end \in 0..MAX_BLOCKS
    /\ node[0] = m[list]
    /\ \A n \in 1..MAX_BLOCKS : node[n] = IF node[n - 1] \in Words THEN m[node[n - 1]] ELSE NULL
    /\ \A k \in 0..end - 1 : node[k] \in Words
    /\ node[end] \notin Words \/ end = MAX_BLOCKS

(* FreeList follows the links of a list until they end.                    *)
LEMMA FreeListIs ==
    ASSUME NEW m, NEW list \in Words
    PROVE  \E node, end : /\ Walked(m, list, node, end)
                          /\ FreeList(m, list) = [n \in 0..end - 1 |-> node[n]]
<1> DEFINE N == MAX_BLOCKS
           Next_1(p) == IF p \in Words THEN m[p] ELSE NULL
           step(f, n) == IF n = 0 THEN m[list] ELSE Next_1(f[n - 1])
           node == CHOOSE f : f = [n \in 0..N |-> step(f, n)]
           Stops(n) == (\A k \in 0..n - 1 : node[k] \in Words) /\ (node[n] \notin Words \/ n = N)
           end == CHOOSE n \in 0..N : Stops(n)
<1>1. FreeList(m, list) = [n \in 0..end - 1 |-> node[n]]
  BY DEF FreeList, FD
<1>2. node = [n \in 0..N |-> step(node, n)]
  <2> DEFINE S == {m[a] : a \in Words} \cup {NULL}
             g == [p \in S |-> Next_1(p)]
           a == m[list]
  <2>1. g \in [S -> S] /\ a \in S
    OBVIOUS
  <2>2. N \in Nat
    BY MaxBlocks
  <2>3. PICK f \in [0..N -> S] : f[0] = a /\ \A n \in 1..N : f[n] = g[f[n - 1]]
    <3>1. Iterable(S, a, g, N)
      BY <2>1, <2>2 DEF Iterable
    <3> HIDE DEF S, g, N, a
    <3> QED BY <3>1, Iterates
  <2>4. ASSUME NEW n \in 0..N PROVE f[n] = step(f, n)
    <3>1. CASE n = 0
      BY <3>1, <2>3
    <3>2. CASE n # 0
      <4>1. n \in 1..N /\ n - 1 \in 0..N
        BY <3>2, <2>2
      <4>2. f[n - 1] \in S
        BY <4>1, <2>3
      <4>3. f[n] = Next_1(f[n - 1])
        BY <4>1, <4>2, <2>3
      <4> QED BY <4>3, <3>2
    <3> QED BY <3>1, <3>2
  <2>5. f = [n \in 0..N |-> step(f, n)]
    <3> HIDE DEF S, g, N, step
    <3> QED BY <2>3, <2>4
  <2> QED BY <2>5
<1> HIDE DEF node
<1>3. end \in 0..N /\ Stops(end)
  <2> DEFINE T == {n \in 0..N : node[n] \notin Words \/ n = N}
  <2>1. T \in SUBSET Nat /\ N \in T
    BY MaxBlocks
  <2>2. PICK n \in T : \A k \in T : n <= k
    <3> HIDE DEF T
    <3> QED BY <2>1, LeastNumber
  <2>3. ASSUME NEW k \in 0..n - 1 PROVE node[k] \in Words
    <3>1. k \in 0..N /\ ~(n <= k)
      BY <2>2, MaxBlocks
    <3>2. k \notin T
      <4> HIDE DEF T
      <4> QED BY <2>2, <3>1
    <3> QED BY <3>1, <3>2
  <2>4. n \in 0..N /\ Stops(n)
    BY <2>2, <2>3
  <2> HIDE DEF Stops
  <2> QED BY <2>4
<1> HIDE DEF end
<1>4. node[0] = m[list]
  BY <1>2, MaxBlocks
<1>5. ASSUME NEW n \in 1..N PROVE node[n] = Next_1(node[n - 1])
  <2>1. n \in 0..N /\ n # 0
    BY MaxBlocks
  <2> QED BY <2>1, <1>2
<1>6. Walked(m, list, node, end)
  BY <1>3, <1>4, <1>5 DEF Walked
<1> QED BY <1>1, <1>6

(* No more than MAX_BLOCKS blocks are at different addresses.              *)
LEMMA BlocksFit ==
    ASSUME NEW B, NEW sz, NEW e, Layout(B, sz, e), NEW f \in [0..MAX_BLOCKS -> B]
    PROVE  \E i, j \in 0..MAX_BLOCKS : i < j /\ f[i] = f[j]
<1> DEFINE N == MAX_BLOCKS
           S == 0..N
           T == 0..N - 1
           place_1(b) == (b - HeapLo) \div 8
           g == [i \in S |-> place_1(f[i])]
<1>1. N \in Nat /\ 8 * N = MAX_HEAP /\ N >= 1
  BY MaxBlocks
<1>2. \A b \in B : b \in Nat /\ b % 8 = 0 /\ b >= HeapLo /\ b < HeapLo + MAX_HEAP
  <2> SUFFICES ASSUME NEW b \in B PROVE b \in Nat /\ b % 8 = 0 /\ b >= HeapLo /\ b < HeapLo + MAX_HEAP
    OBVIOUS
  <2>1. b \in Nat /\ Aligned(b) /\ sz[b] \in Nat /\ sz[b] >= 8 /\ b >= Prologue /\ b + sz[b] <= e /\ e <= MaxAddr /\ e \in Nat
    BY BlockFacts
  <2>2. HeapLo \in Nat /\ Prologue = HeapLo + 48 /\ e <= HeapLo + MAX_HEAP /\ MAX_HEAP \in Nat
    BY <2>1, Places, HeapAssumption DEF MaxAddr
  <2> QED BY <2>1, <2>2 DEF Aligned
<1>3. HeapLo \in Nat /\ HeapLo % 8 = 0 /\ MAX_HEAP \in Nat
  BY HeapAssumption
<1>4. \A b \in B : place_1(b) \in 0..N - 1 /\ b = HeapLo + 8 * place_1(b)
  <2> SUFFICES ASSUME NEW b \in B PROVE place_1(b) \in 0..N - 1 /\ b = HeapLo + 8 * place_1(b)
    OBVIOUS
  <2> DEFINE d == b - HeapLo
  <2>1. d \in Nat /\ d % 8 = 0 /\ d < 8 * N
    BY <1>1, <1>2, <1>3
  <2>2. b = HeapLo + d
    BY <1>2, <1>3
  <2> HIDE DEF d
  <2>3. d = 8 * (d \div 8) /\ d \div 8 \in Nat
    BY <2>1
  <2>4. d \div 8 < N
    BY <2>1, <2>3, <1>1
  <2>5. d \div 8 \in 0..N - 1 /\ b = HeapLo + 8 * (d \div 8)
    BY <2>2, <2>3, <2>4, <1>1
  <2> QED BY <2>5 DEF d
<1> HIDE DEF place_1
<1>5. g \in [S -> T]
  BY <1>4
<1>6. IsFiniteSet(S) /\ IsFiniteSet(T) /\ Cardinality(S) = N + 1 /\ Cardinality(T) = N
  <2>1. 0 \in Int /\ N \in Int /\ N - 1 \in Int /\ ~(0 > N) /\ N - 0 + 1 = N + 1 /\ (N - 1) - 0 + 1 = N /\ ~(0 > N - 1)
    BY <1>1
  <2> HIDE DEF N
  <2>2. IsFiniteSet(0..N) /\ Cardinality(0..N) = N + 1
    BY <2>1, FS_Interval
  <2>3. IsFiniteSet(0..N - 1) /\ Cardinality(0..N - 1) = N
    BY <2>1, FS_Interval
  <2> QED BY <2>2, <2>3
<1>7. Cardinality(T) < Cardinality(S)
  BY <1>1, <1>6
<1> HIDE DEF S, T, g
<1>8. PICK x, y \in S : x # y /\ g[x] = g[y]
  BY <1>5, <1>6, <1>7, FS_PigeonHole
<1>9. f[x] = f[y]
  <2>1. f[x] \in B /\ f[y] \in B /\ place_1(f[x]) = place_1(f[y])
    BY <1>8 DEF S, g
  <2> QED BY <2>1, <1>4
<1>10. x \in 0..N /\ y \in 0..N /\ (x < y \/ y < x)
  BY <1>1, <1>8 DEF S
<1> QED BY <1>9, <1>10

(* The blocks along a list are those of the list.                          *)
LEMMA ListContents ==
    ASSUME NEW m, NEW e, NEW B, NEW sz, NEW F, NEW L, Heap(m, e, B, sz, F, L), NEW list \in Heads
    PROVE  LET f == FreeList(m, list)
           IN  /\ DOMAIN f \subseteq Nat
               /\ \A n \in DOMAIN f : f[n] \in L /\ get_list(sz[f[n]]) = list
               /\ \A b \in L : get_list(sz[b]) = list => \E n \in DOMAIN f : f[n] = b
<1> DEFINE N == MAX_BLOCKS
<1>1. Layout(B, sz, e) /\ L \subseteq B \ {Prologue, Sentinel} /\ Links(m, L, sz)
  BY DEF Heap
<1>2. L \subseteq Words /\ Heads \subseteq Words /\ L \cap Heads = {} /\ NULL \notin L \cup Heads
  BY <1>1, LinkWords
<1>3. /\ \A x \in L \cup Heads : m[x] # NULL => m[x] \in L /\ m[m[x] + 4] = x /\ Class(sz, m[x]) = Class(sz, x)
      /\ \A b \in L : m[b + 4] \in L \cup Heads /\ m[m[b + 4]] = b
  BY <1>1 DEF Links
<1>4. PICK rank \in [Nat -> Nat] : \A x \in L \cup Heads : m[x] # NULL => rank[x] < rank[m[x]]
  BY <1>1 DEF Links
<1>5. \A b \in L : Class(sz, b) = get_list(sz[b])
  BY <1>2 DEF Class
<1>6. Class(sz, list) = list
  BY DEF Class
<1>7. PICK node, end : Walked(m, list, node, end) /\ FreeList(m, list) = [n \in 0..end - 1 |-> node[n]]
  <2>1. list \in Words
    BY <1>2
  <2> QED BY <2>1, FreeListIs
<1>8. N \in Nat /\ N >= 1 /\ end \in 0..N /\ end \in Nat
  BY <1>7, MaxBlocks DEF Walked
<1>9. \A n \in 0..N : node[n] # NULL => node[n] \in L /\ Class(sz, node[n]) = list
  <2> DEFINE G == {n \in 0..N : node[n] # NULL => node[n] \in L /\ Class(sz, node[n]) = list}
  <2>1. 0 \in G
    BY <1>3, <1>6, <1>7, <1>8 DEF Walked
  <2>2. ASSUME NEW n \in 1..N, n - 1 \in G PROVE n \in G
    <3>1. node[n] = IF node[n - 1] \in Words THEN m[node[n - 1]] ELSE NULL
      BY <1>7 DEF Walked
    <3>2. n \in 0..N
      BY <1>8
    <3>3. SUFFICES ASSUME node[n] # NULL PROVE node[n] \in L /\ Class(sz, node[n]) = list
      BY <3>2
    <3>4. node[n - 1] \in Words /\ node[n] = m[node[n - 1]]
      BY <3>1, <3>3
    <3>5. node[n - 1] # NULL
      BY <3>4, WordsAre
    <3>6. node[n - 1] \in L /\ Class(sz, node[n - 1]) = list
      BY <3>5, <2>2
    <3> QED BY <3>3, <3>4, <3>6, <1>3
  <2>3. G \in SUBSET (0..N)
    OBVIOUS
  <2>4. G = 0..N
    <3> HIDE DEF G
    <3> QED BY <1>8, <2>1, <2>2, <2>3, Lasts
  <2> QED BY <2>4
<1>10. \A n \in 1..N : node[n] # NULL => node[n - 1] \in L /\ node[n] = m[node[n - 1]] /\ node[n - 1] # NULL
  <2> SUFFICES ASSUME NEW n \in 1..N, node[n] # NULL
               PROVE  node[n - 1] \in L /\ node[n] = m[node[n - 1]] /\ node[n - 1] # NULL
    OBVIOUS
  <2>1. node[n] = IF node[n - 1] \in Words THEN m[node[n - 1]] ELSE NULL
    BY <1>7 DEF Walked
  <2>2. node[n - 1] \in Words /\ node[n] = m[node[n - 1]] /\ node[n - 1] # NULL /\ n - 1 \in 0..N
    BY <2>1, <1>8, WordsAre
  <2> QED BY <2>2, <1>9
<1>11. node[end] = NULL
  <2> SUFFICES ASSUME node[end] # NULL PROVE FALSE
    OBVIOUS
  <2>1. end = N
    <3>1. node[end] \in L
      BY <1>8, <1>9
    <3> QED BY <3>1, <1>2, <1>7 DEF Walked
  <2>2. \A n \in 0..N : node[n] # NULL
    <3> DEFINE G == {d \in 0..N : node[N - d] # NULL}
    <3>1. 0 \in G
      BY <1>8, <2>1
    <3>2. ASSUME NEW d \in 1..N, d - 1 \in G PROVE d \in G
      <4>1. node[N - (d - 1)] # NULL /\ N - (d - 1) \in 1..N /\ (N - (d - 1)) - 1 = N - d /\ d \in 0..N
        BY <3>2, <1>8
      <4>2. node[(N - (d - 1)) - 1] # NULL
        BY <4>1, <1>10
      <4> QED BY <4>1, <4>2
    <3>3. G \in SUBSET (0..N)
      OBVIOUS
    <3>4. G = 0..N
      <4> HIDE DEF G
      <4> QED BY <1>8, <3>1, <3>2, <3>3, Lasts
    <3>5. \A n \in 0..N : N - n \in 0..N /\ N - (N - n) = n
      BY <1>8
    <3> QED BY <3>4, <3>5
  <2>3. \A n \in 0..N : node[n] \in L /\ node[n] \in B /\ node[n] \in Nat
    BY <2>2, <1>9, <1>1, BlockFacts
  <2>4. \A n \in 1..N : rank[node[n - 1]] < rank[node[n]]
    <3> SUFFICES ASSUME NEW n \in 1..N PROVE rank[node[n - 1]] < rank[node[n]]
      OBVIOUS
    <3>1. n \in 0..N
      BY <1>8
    <3>2. node[n] = m[node[n - 1]] /\ node[n - 1] \in L /\ m[node[n - 1]] # NULL
      BY <3>1, <2>2, <1>10
    <3> QED BY <3>2, <1>4
  <2>5. ASSUME NEW i \in 0..N, NEW j \in 0..N, i < j PROVE rank[node[i]] < rank[node[j]]
    <3> DEFINE G == {d \in 0..N : i + d + 1 <= N => rank[node[i]] < rank[node[i + d + 1]]}
    <3>1. 0 \in G
      <4>1. ASSUME i + 0 + 1 <= N PROVE rank[node[i]] < rank[node[i + 0 + 1]]
        <5>1. i + 1 \in 1..N /\ (i + 1) - 1 = i /\ i + 0 + 1 = i + 1
          BY <4>1, <1>8
        <5> QED BY <5>1, <2>4
      <4> QED BY <4>1, <1>8
    <3>2. ASSUME NEW d \in 1..N, d - 1 \in G PROVE d \in G
      <4>1. ASSUME i + d + 1 <= N PROVE rank[node[i]] < rank[node[i + d + 1]]
        <5>1. i + d + 1 \in 1..N /\ (i + d + 1) - 1 = i + d /\ i + (d - 1) + 1 = i + d /\ i + d <= N /\ i + d \in 0..N
              /\ i + d + 1 \in 0..N
          BY <4>1, <1>8
        <5>2. rank[node[i]] < rank[node[i + d]]
          BY <5>1, <3>2
        <5>3. rank[node[i + d]] < rank[node[i + d + 1]]
          BY <5>1, <2>4
        <5>4. rank[node[i]] \in Nat /\ rank[node[i + d]] \in Nat /\ rank[node[i + d + 1]] \in Nat
          BY <5>1, <2>3
        <5> QED BY <5>2, <5>3, <5>4
      <4>2. d \in 0..N
        BY <1>8
      <4> QED BY <4>1, <4>2
    <3>3. G \in SUBSET (0..N)
      OBVIOUS
    <3>4. G = 0..N
      <4> HIDE DEF G
      <4> QED BY <1>8, <3>1, <3>2, <3>3, Lasts
    <3>5. j - i - 1 \in 0..N /\ i + (j - i - 1) + 1 = j /\ j <= N
      BY <2>5, <1>8
    <3>6. j - i - 1 \in G
      <4> HIDE DEF G
      <4> QED BY <3>4, <3>5
    <3> QED BY <3>5, <3>6
  <2> DEFINE f == [n \in 0..N |-> node[n]]
  <2>6. f \in [0..N -> B]
    BY <2>3
  <2>7. PICK i, j \in 0..N : i < j /\ f[i] = f[j]
    <3> HIDE DEF f
    <3> QED BY <2>6, <1>1, BlocksFit
  <2>8. node[i] = node[j] /\ rank[node[i]] \in Nat
    BY <2>7, <2>3
  <2> QED BY <2>5, <2>7, <2>8
<1>12. \A n \in 0..end - 1 : node[n] \in L /\ get_list(sz[node[n]]) = list
  <2> SUFFICES ASSUME NEW n \in 0..end - 1 PROVE node[n] \in L /\ get_list(sz[node[n]]) = list
    OBVIOUS
  <2>1. n \in 0..N /\ node[n] \in Words
    BY <1>7, <1>8 DEF Walked
  <2>2. node[n] # NULL
    BY <2>1, WordsAre
  <2> QED BY <2>1, <2>2, <1>9, <1>5
<1>13. ASSUME NEW b \in L, get_list(sz[b]) = list PROVE \E n \in 0..end - 1 : node[n] = b
  <2> DEFINE Miss == {x \in L : get_list(sz[x]) = list /\ ~ \E n \in 0..end - 1 : node[n] = x}
             Ranks == {rank[x] : x \in Miss}
  <2>1. SUFFICES ASSUME Miss # {} PROVE FALSE
    BY <1>13
  <2>2. L \subseteq Nat
    BY <1>1, BlockFacts
  <2>3. Ranks \in SUBSET Nat /\ Ranks # {}
    BY <2>1, <2>2
  <2>4. PICK r \in Ranks : \A s \in Ranks : r <= s
    <3> HIDE DEF Ranks
    <3> QED BY <2>3, LeastNumber
  <2>5. PICK x \in Miss : \A y \in Miss : rank[x] <= rank[y]
    BY <2>4
  <2> DEFINE p == m[x + 4]
  <2>6. p \in L \cup Heads /\ m[p] = x /\ x \in L /\ x # NULL
    BY <2>5, <1>2, <1>3
  <2>7. Class(sz, p) = list /\ rank[p] < rank[x]
    <3>1. Class(sz, x) = list
      BY <2>5, <1>5
    <3> QED BY <3>1, <2>6, <1>3, <1>4
  <2> HIDE DEF p
  <2>8. \E k \in 0..end - 1 : node[k] = x
    <3>1. CASE p \in Heads
      <4>1. p = list
        BY <3>1, <2>7 DEF Class
      <4>2. node[0] = x
        BY <4>1, <2>6, <1>7 DEF Walked
      <4>3. end # 0
        BY <4>2, <2>6, <1>11
      <4>4. 0 \in 0..end - 1
        BY <4>3, <1>8
      <4> QED BY <4>2, <4>4
    <3>2. CASE p \in L
      <4>1. get_list(sz[p]) = list
        BY <3>2, <2>7, <1>5
      <4>2. p \notin Miss
        <5>1. ~(rank[x] <= rank[p])
          BY <2>2, <2>6, <2>7, <3>2
        <5> HIDE DEF Miss
        <5> QED BY <5>1, <2>5
      <4>3. PICK k \in 0..end - 1 : node[k] = p
        BY <4>1, <4>2, <3>2
      <4>4. k + 1 \in 1..N /\ (k + 1) - 1 = k /\ k \in Nat /\ k + 1 <= end
        BY <1>8
      <4>5. node[k + 1] = m[p]
        BY <4>3, <4>4, <1>7 DEF Walked
      <4>6. k + 1 # end
        BY <4>5, <2>6, <1>11
      <4>7. k + 1 \in 0..end - 1
        BY <4>4, <4>6, <1>8
      <4> QED BY <4>5, <4>7, <2>6
    <3> QED BY <3>1, <3>2, <2>6
  <2> QED BY <2>5, <2>8
<1> DEFINE f == [n \in 0..end - 1 |-> node[n]]
<1>14. /\ DOMAIN f \subseteq Nat
       /\ \A n \in DOMAIN f : f[n] \in L /\ get_list(sz[f[n]]) = list
       /\ \A b \in L : get_list(sz[b]) = list => \E n \in DOMAIN f : f[n] = b
  BY <1>8, <1>12, <1>13
<1> HIDE DEF f
<1>15. FreeList(m, list) = f
  BY <1>7 DEF f
<1> QED BY <1>14, <1>15

-----------------------------------------------------------------------------
(* Placing a request in a free block.                                      *)

(* The least element of a set of naturals.                                 *)
LEMMA MinIs ==
    ASSUME NEW T \in SUBSET Nat, T # {}
    PROVE  Min(T) \in T
<1>1. \E x \in T : \A y \in T : x <= y
  BY LeastNumber
<1> QED BY <1>1 DEF Min

(* A list is searched.                                                     *)
LEMMA FirstFitIs ==
    ASSUME NEW m, NEW e, NEW B, NEW sz, NEW F, NEW L, Heap(m, e, B, sz, F, L), NEW list \in Heads, NEW size
    PROVE  LET fit == FirstFit(m, list, size)
           IN  \/ fit = NULL /\ \A b \in L : get_list(sz[b]) = list => ~(sz[b] >= size)
               \/ fit \in L /\ fit # NULL /\ sz[fit] >= size
<1> DEFINE f    == FreeList(m, list)
           fits == {n \in DOMAIN f : GET_BLK_SIZE(m, f[n]) >= size}
<1>1. /\ DOMAIN f \subseteq Nat
      /\ \A n \in DOMAIN f : f[n] \in L /\ get_list(sz[f[n]]) = list
      /\ \A b \in L : get_list(sz[b]) = list => \E n \in DOMAIN f : f[n] = b
  BY ListContents
<1>2. FirstFit(m, list, size) = IF fits = {} THEN NULL ELSE f[Min(fits)]
  BY DEF FirstFit
<1> HIDE DEF f
<1>3. \A b \in L : GET_BLK_SIZE(m, b) = sz[b]
  BY Reads DEF Heap
<1>4. NULL \notin L
  BY LinkWords DEF Heap
<1>5. CASE fits = {}
  <2>1. ASSUME NEW b \in L, get_list(sz[b]) = list PROVE ~(sz[b] >= size)
    <3>1. PICK n \in DOMAIN f : f[n] = b
      BY <2>1, <1>1
    <3> QED BY <3>1, <1>3, <1>5
  <2> QED BY <2>1, <1>2, <1>5
<1>6. CASE fits # {}
  <2>1. fits \in SUBSET Nat
    BY <1>1
  <2>2. Min(fits) \in fits
    <3> HIDE DEF fits
    <3> QED BY <2>1, <1>6, MinIs
  <2> DEFINE k == Min(fits)
  <2>3. k \in DOMAIN f /\ GET_BLK_SIZE(m, f[k]) >= size
    BY <2>2
  <2>4. FirstFit(m, list, size) = f[k]
    BY <1>2, <1>6
  <2> HIDE DEF k, fits
  <2> QED BY <2>3, <2>4, <1>1, <1>3, <1>4
<1> QED BY <1>5, <1>6

(* The lists are searched: the block found is free and large enough, and   *)
(* NULL means that there is none.                                          *)
LEMMA SearchIs ==
    ASSUME NEW m, NEW e, NEW B, NEW sz, NEW F, Heap(m, e, B, sz, F, F), NEW size \in Nat
    PROVE  LET fit == search_block(m, size)
           IN  \/ fit = NULL /\ \A b \in F : sz[b] < size
               \/ fit \in F /\ fit # NULL /\ sz[fit] >= size
<1> DEFINE fit(i) == FirstFit(m, List(i), size)
           lists  == {i \in get_list_index(size)..LIST_NUM - 1 : fit(i) # NULL}
<1>1. search_block(m, size) = IF lists = {} THEN NULL ELSE fit(Min(lists))
  BY DEF search_block
<1>2. get_list_index(size) \in 0..10 /\ LIST_NUM - 1 = 10
  BY IndexCorrect DEF LIST_NUM
<1>3. ASSUME NEW i \in 0..10
      PROVE  \/ fit(i) = NULL /\ \A b \in F : get_list(sz[b]) = List(i) => ~(sz[b] >= size)
             \/ fit(i) \in F /\ fit(i) # NULL /\ sz[fit(i)] >= size
  <2>1. List(i) \in Heads
    BY <1>2 DEF Heads
  <2> QED BY <2>1, FirstFitIs
<1> HIDE DEF fit
<1>4. CASE lists = {}
  <2>1. ASSUME NEW b \in F, ~(sz[b] < size) PROVE FALSE
    <3>1. sz[b] \in Nat /\ size <= sz[b]
      BY <2>1, BlockFacts DEF Heap
    <3> DEFINE i == get_list_index(sz[b])
    <3>2. i \in 0..10 /\ get_list_index(size) <= i
      BY <3>1, IndexCorrect, ListsOrdered DEF LIST_NUM
    <3>3. get_list(sz[b]) = List(i)
      BY DEF get_list
    <3> HIDE DEF i
    <3>4. i \in get_list_index(size)..LIST_NUM - 1
      BY <3>2, <1>2
    <3>5. fit(i) = NULL
      BY <3>4, <1>4
    <3>6. ~(sz[b] >= size)
      BY <3>2, <3>3, <3>5, <1>3
    <3> QED BY <3>1, <3>6
  <2> QED BY <2>1, <1>1, <1>4
<1>5. CASE lists # {}
  <2>1. lists \in SUBSET Nat
    BY <1>2
  <2>2. Min(lists) \in lists
    <3> HIDE DEF lists
    <3> QED BY <2>1, <1>5, MinIs
  <2> DEFINE k == Min(lists)
  <2>3. k \in 0..10 /\ fit(k) # NULL
    BY <2>2, <1>2
  <2>4. search_block(m, size) = fit(k)
    BY <1>1, <1>5
  <2> HIDE DEF k, lists
  <2> QED BY <2>3, <2>4, <1>3
<1> QED BY <1>4, <1>5

(* What a call that allocates leaves: a valid heap with one more allocated *)
(* block, the result, that is large enough.                                *)
Allocates(h, B, sz, F, r, size) ==
    \E B2, sz2, F2 :
        /\ Valid(r.mem, r.brk, B2, sz2, F2)
        /\ r.bp \in B2 \ F2 /\ r.bp \notin B \ F /\ r.bp \notin {Prologue, Sentinel}
        /\ B2 \ F2 = (B \ F) \cup {r.bp}
        /\ sz2[r.bp] >= size
        /\ \A b \in B \ F : sz2[b] = sz[b]
        /\ Kept(h.mem, r.mem, B \ F, sz)

(* A free block is to be allocated.                                        *)
Placeable(h, B, sz, F, b, size) ==
    /\ Valid(h.mem, h.brk, B, sz, F)
    /\ b \in F
    /\ size \in Nat /\ Aligned(size) /\ size >= 16 /\ sz[b] >= size

(* place, when the whole block is allocated.                               *)
LEMMA PlaceWhole ==
    ASSUME NEW h, NEW B, NEW sz, NEW F, NEW b, NEW size, Placeable(h, B, sz, F, b, size),
           sz[b] - size < 16
    PROVE  Allocates(h, B, sz, F, place(h, b, size), size)
<1> DEFINE m1 == detach_block(h.mem, b)
           m2 == SET_ALLOC(m1, b)
           r  == place(h, b, size)
<1>0. /\ Valid(h.mem, h.brk, B, sz, F) /\ b \in F /\ size \in Nat /\ sz[b] >= size
  BY DEF Placeable
<1> USE <1>0
<1>1. r = Result(m2, h.brk, b)
  <2>1. GET_BLK_SIZE(h.mem, b) = sz[b]
    BY Reads DEF Valid, Heap
  <2>2. sz[b] \in Nat
    BY BlockFacts DEF Valid, Heap
  <2>3. GET_BLK_SIZE(h.mem, b) - size < 4 * WSIZE /\ ~(GET_BLK_SIZE(h.mem, b) - size >= 4 * WSIZE)
    BY <2>1, <2>2, Places
  <2> QED BY <2>3 DEF place
<1>2. r.mem = m2 /\ r.brk = h.brk /\ r.bp = b
  BY <1>1 DEF Result
<1>3. Heap(m1, h.brk, B, sz, F, F \ {b}) /\ Kept(h.mem, m1, B \ F, sz)
  BY DetachStep DEF Valid
<1> HIDE DEF m1
<1>4. Heap(m2, h.brk, B, sz, F \ {b}, F \ {b}) /\ Kept(m1, m2, B \ {b}, sz)
  <2>1. b \in F \ (F \ {b})
    OBVIOUS
  <2> QED BY <2>1, <1>3, AllocStep
<1> HIDE DEF m2, r
<1> DEFINE F2 == F \ {b}
<1>5. /\ b \in B \ F2 /\ b \notin B \ F /\ b \notin {Prologue, Sentinel} /\ B \ F2 = (B \ F) \cup {b}
      /\ B \ F \subseteq B \ {b}
  BY DEF Valid, Heap
<1>6. NoNeighbours(sz, F2, {})
  BY DEF Valid, NoNeighbours
<1>7. Kept(h.mem, m2, B \ F, sz)
  BY <1>3, <1>4, <1>5, KeptTrans
<1>8. Valid(r.mem, r.brk, B, sz, F2)
  BY <1>2, <1>4, <1>6 DEF Valid
<1> HIDE DEF F2
<1>9. /\ r.bp \in B \ F2 /\ r.bp \notin B \ F /\ r.bp \notin {Prologue, Sentinel}
      /\ B \ F2 = (B \ F) \cup {r.bp} /\ sz[r.bp] >= size /\ Kept(h.mem, r.mem, B \ F, sz)
  BY <1>2, <1>5, <1>7
<1>10. Allocates(h, B, sz, F, r, size)
  BY <1>8, <1>9 DEF Allocates
<1> QED BY <1>10 DEF r

(* Two tags are written: those of the blocks b and d of the layout B2, sz2.*)
TwoTags(m, e, B2, sz2, b, d, x, y, m2) ==
    /\ IsMemory(m) /\ Layout(B2, sz2, e)
    /\ b \in B2 /\ d \in B2 /\ b # d /\ x \in Int /\ y \in Int
    /\ m2 = SET_BOUNDARY(SET_BOUNDARY(m, b, sz2[b], x), d, sz2[d], y)

(* The words that two new pairs of tags change.                            *)
LEMMA TwoWritten ==
    ASSUME NEW m, NEW e, NEW B2, NEW sz2, NEW b, NEW d, NEW x, NEW y, NEW m2,
           TwoTags(m, e, B2, sz2, b, d, x, y, m2)
    PROVE  /\ IsMemory(m2)
           /\ m2[b - 4] = sz2[b] + x /\ m2[b + sz2[b] - 8] = sz2[b] + x
           /\ m2[d - 4] = sz2[d] + y /\ m2[d + sz2[d] - 8] = sz2[d] + y
           /\ \A a \in Words : \/ m2[a] = m[a]
                               \/ a \in {b - 4, b + sz2[b] - 8, d - 4, d + sz2[d] - 8}
<1> USE DEF TwoTags
<1> DEFINE m1 == SET_BOUNDARY(m, b, sz2[b], x)
<1>1. /\ b \in Nat /\ sz2[b] \in Nat /\ sz2[b] >= 8 /\ b - 4 \in Words /\ b + sz2[b] - 8 \in Words
      /\ d \in Nat /\ sz2[d] \in Nat /\ sz2[d] >= 8 /\ d - 4 \in Words /\ d + sz2[d] - 8 \in Words
      /\ b + sz2[b] <= d \/ d + sz2[d] <= b
  BY BlockFacts, BlockWords, BlocksApart
<1>2. /\ IsMemory(m1)
      /\ \A a \in Words : m1[a] = IF a = b - 4 \/ a = b + sz2[b] - 8 THEN sz2[b] + x ELSE m[a]
  BY <1>1, BoundaryWrites
<1> HIDE DEF m1
<1>3. /\ IsMemory(m2)
      /\ \A a \in Words : m2[a] = IF a = d - 4 \/ a = d + sz2[d] - 8 THEN sz2[d] + y ELSE m1[a]
  BY <1>1, <1>2, BoundaryWrites
<1>4. b - 4 # d - 4 /\ b - 4 # d + sz2[d] - 8 /\ b + sz2[b] - 8 # d - 4 /\ b + sz2[b] - 8 # d + sz2[d] - 8
  BY <1>1
<1>5. m2[b - 4] = sz2[b] + x /\ m2[b + sz2[b] - 8] = sz2[b] + x
  BY <1>1, <1>2, <1>3, <1>4
<1>6. m2[d - 4] = sz2[d] + y /\ m2[d + sz2[d] - 8] = sz2[d] + y
  BY <1>1, <1>3
<1>7. \A a \in Words : m2[a] = m[a] \/ a \in {b - 4, b + sz2[b] - 8, d - 4, d + sz2[d] - 8}
  BY <1>2, <1>3
<1> QED BY <1>3, <1>5, <1>6, <1>7

(* A block is split: b keeps the first s bytes, the rest is the block d.   *)
(* F2 are the free blocks now.                                             *)
Splits(m, e, B, sz, F, L, b, s, x, y, F2) ==
    /\ Heap(m, e, B, sz, F, L)
    /\ b \in B \ {Prologue, Sentinel}
    /\ Aligned(s) /\ s >= 16 /\ sz[b] - s >= 16
    /\ L \subseteq F2
    /\ F2 \ {b, b + s} = F \ {b}
    /\ (b \in F2 /\ x = 0) \/ (b \notin F2 /\ x = 1)
    /\ (b + s \in F2 /\ y = 0) \/ (b + s \notin F2 /\ y = 1)
    /\ b \in L => get_list(s) = get_list(sz[b])

(* Memory m2 with the blocks B2 after that.                                *)
SplitInto(m, e, B, sz, F2, L, b, s, x, y, m2, B2, sz2) ==
    /\ B2 = B \cup {b + s} /\ b + s \notin B
    /\ sz2[b] = s /\ sz2[b + s] = sz[b] - s
    /\ \A c \in B : c # b => sz2[c] = sz[c]
    /\ m2 = SET_BOUNDARY(SET_BOUNDARY(m, b, s, x), b + s, sz[b] - s, y)
    /\ Heap(m2, e, B2, sz2, F2, L)
    /\ Kept(m, m2, B \ {b}, sz)

(* A block is split and both parts are marked.                             *)
LEMMA SplitStep ==
    ASSUME NEW m, NEW e, NEW B, NEW sz, NEW F, NEW L, NEW b, NEW s, NEW x, NEW y, NEW F2,
           Splits(m, e, B, sz, F, L, b, s, x, y, F2)
    PROVE  \E m2, B2, sz2 : SplitInto(m, e, B, sz, F2, L, b, s, x, y, m2, B2, sz2)
<1> DEFINE d   == b + s
           sz2 == [sz EXCEPT ![b] = s, ![d] = sz[b] - s]
           m2  == SET_BOUNDARY(SET_BOUNDARY(m, b, s, x), d, sz[b] - s, y)
           B2  == B \cup {d}
           New == {b, d}
<1>1. Heap(m, e, B, sz, F, L) /\ Layout(B, sz, e) /\ b \in B \ {Prologue, Sentinel}
  BY DEF Splits, Heap
<1>2. /\ d \notin B /\ d \in Nat /\ sz2[b] = s /\ sz2[d] = sz[b] - s
      /\ \A c \in B : c # b => sz2[c] = sz[c]
      /\ Layout(B2, sz2, e)
  <2>1. Split(B, sz, e, b, s, B2, sz2)
    BY <1>1 DEF Splits, Split
  <2> HIDE DEF B2, sz2
  <2> QED BY <2>1, LayoutSplit
<1>3. b \in B2 /\ d \in B2 /\ b # d /\ x \in Int /\ y \in Int /\ IsMemory(m)
  BY <1>1, <1>2 DEF Splits, Heap
<1> HIDE DEF d, sz2, B2
<1>4. /\ IsMemory(m2)
      /\ m2[b - 4] = sz2[b] + x /\ m2[b + sz2[b] - 8] = sz2[b] + x
      /\ m2[d - 4] = sz2[d] + y /\ m2[d + sz2[d] - 8] = sz2[d] + y
      /\ \A a \in Words : m2[a] = m[a] \/ a \in {b - 4, b + sz2[b] - 8, d - 4, d + sz2[d] - 8}
  <2>1. m2 = SET_BOUNDARY(SET_BOUNDARY(m, b, sz2[b], x), d, sz2[d], y)
    BY <1>2
  <2> HIDE DEF m2
  <2>2. TwoTags(m, e, B2, sz2, b, d, x, y, m2)
    BY <2>1, <1>2, <1>3 DEF TwoTags
  <2> QED BY <2>2, TwoWritten
<1> HIDE DEF m2
<1>5. /\ b \in Nat /\ sz2[b] \in Nat /\ sz2[b] >= 16 /\ b + sz2[b] <= e /\ e \in Nat
      /\ d \in Nat /\ sz2[d] \in Nat /\ sz2[d] >= 8 /\ d + sz2[d] <= e /\ d = b + s /\ s \in Nat
      /\ e - 4 \in Words /\ b \in Words /\ b + 4 \in Words
  <2>1. /\ b \in Nat /\ sz2[b] \in Nat /\ b + sz2[b] <= e /\ e \in Nat
        /\ d \in Nat /\ sz2[d] \in Nat /\ sz2[d] >= 8 /\ d + sz2[d] <= e /\ d = b + s
    BY <1>2, <1>3, BlockFacts DEF d
  <2>2. e - 4 \in Words /\ b \in Words
    BY <1>2, <1>3, BlockWords
  <2>3. s \in Nat /\ sz2[b] >= 16
    BY <1>2, <2>1 DEF Splits
  <2>4. b + 4 \in Words
    BY <1>2, <1>3, <2>3, BlockWords
  <2> QED BY <2>1, <2>2, <2>3, <2>4
<1>6. \A c \in New : m2[c - 4] = Tag(c, sz2, F2) /\ m2[c + sz2[c] - 8] = Tag(c, sz2, F2)
  <2>1. Tag(b, sz2, F2) = sz2[b] + x /\ Tag(d, sz2, F2) = sz2[d] + y
    BY <1>5 DEF Tag, Splits, d
  <2> QED BY <2>1, <1>4
<1>7. m2[e - 4] = 1
  <2>1. e - 4 \notin {b - 4, b + sz2[b] - 8, d - 4, d + sz2[d] - 8}
    BY <1>5
  <2> QED BY <2>1, <1>1, <1>4, <1>5 DEF Heap, Tags
<1>8. \A a \in Words :
        \/ m2[a] = m[a]
        \/ a = e - 4
        \/ \E c \in New : c - 4 <= a /\ a <= c + sz2[c] - 8
  <2>1. /\ b - 4 <= b - 4 /\ b - 4 <= b + sz2[b] - 8 /\ b + sz2[b] - 8 <= b + sz2[b] - 8
        /\ d - 4 <= d - 4 /\ d - 4 <= d + sz2[d] - 8 /\ d + sz2[d] - 8 <= d + sz2[d] - 8
    BY <1>5
  <2> QED BY <1>4, <2>1
<1>9. /\ L \subseteq F2 /\ F2 \subseteq B2 \ {Prologue, Sentinel} /\ New \subseteq B2
      /\ \A c \in B2 \ New : c \in B /\ sz2[c] = sz[c] /\ (c \in F2 <=> c \in F)
  <2>1. L \subseteq F2 /\ F2 \ {b, d} = F \ {b} /\ F \subseteq B \ {Prologue, Sentinel}
    BY DEF Splits, Heap, d
  <2>2. d # Prologue /\ d # Sentinel
    BY <1>1, <1>2 DEF Layout
  <2>3. \A c : c \in F2 => c \in F \/ c \in {b, d}
    BY <2>1
  <2>4. \A c : c \notin {b, d} => (c \in F2 <=> c \in F)
    BY <2>1
  <2> QED BY <2>1, <2>2, <2>3, <2>4, <1>1, <1>2 DEF B2
<1>10. \A c \in L \cap New : m2[c] = m[c] /\ m2[c + 4] = m[c + 4] /\ get_list(sz2[c]) = get_list(sz[c])
  <2>1. \A c \in L \cap New : c = b
    <3>1. L \subseteq B
      BY <1>1 DEF Heap
    <3> QED BY <3>1, <1>2
  <2>2. b \in L => get_list(sz2[b]) = get_list(sz[b])
    BY <1>2 DEF Splits
  <2>3. b \notin {b - 4, b + sz2[b] - 8, d - 4, d + sz2[d] - 8}
    BY <1>2, <1>5
  <2>4. b + 4 \notin {b - 4, b + sz2[b] - 8, d - 4, d + sz2[d] - 8}
    BY <1>2, <1>5
  <2> QED BY <2>1, <2>2, <2>3, <2>4, <1>4, <1>5
<1>11. Rewrites(m, B, sz, F, L, m2, e, B2, sz2, F2, New)
  <2> HIDE DEF New
  <2> QED BY <1>2, <1>4, <1>6, <1>7, <1>8, <1>9, <1>10 DEF Rewrites
<1> HIDE DEF New
<1>12. Heap(m2, e, B2, sz2, F2, L) /\ Kept(m, m2, B2 \ New, sz2)
  BY <1>1, <1>11, Rewritten
<1>13. Kept(m, m2, B \ {b}, sz)
  <2>1. B2 \ New = B \ {b}
    BY <1>2 DEF B2, New
  <2>2. \A c \in B \ {b} : sz2[c] = sz[c]
    BY <1>2
  <2> QED BY <2>1, <2>2, <1>12 DEF Kept
<1>14. B2 = B \cup {d} /\ m2 = SET_BOUNDARY(SET_BOUNDARY(m, b, s, x), d, sz[b] - s, y)
  BY DEF B2, m2
<1>15. SplitInto(m, e, B, sz, F2, L, b, s, x, y, m2, B2, sz2)
  BY <1>2, <1>12, <1>13, <1>14 DEF d, SplitInto
<1> QED BY <1>15

(* No block begins within another.                                         *)
LEMMA InsideNoBlock ==
    ASSUME NEW B, NEW sz, NEW e, Layout(B, sz, e), NEW b \in B, NEW s \in Nat, 0 < s, s < sz[b]
    PROVE  b + s \notin B
<1> SUFFICES ASSUME b + s \in B PROVE FALSE
  OBVIOUS
<1>1. b \in Nat /\ sz[b] \in Nat /\ b < b + s
  BY BlockFacts
<1>2. b + sz[b] <= b + s
  BY <1>1 DEF Layout
<1> QED BY <1>1, <1>2

(* place, when the rest stays in the list and the tail is allocated.       *)
LEMMA PlaceTail ==
    ASSUME NEW h, NEW B, NEW sz, NEW F, NEW b, NEW size, Placeable(h, B, sz, F, b, size),
           sz[b] - size >= 16, get_list(sz[b]) = get_list(sz[b] - size)
    PROVE  Allocates(h, B, sz, F, place(h, b, size), size)
<1> DEFINE m == h.mem
           e == h.brk
           s == sz[b] - size
           d == b + s
           r == place(h, b, size)
<1>0. /\ Valid(h.mem, h.brk, B, sz, F) /\ b \in F
      /\ size \in Nat /\ Aligned(size) /\ size >= 16 /\ sz[b] >= size
  BY DEF Placeable
<1> USE <1>0
<1>1. /\ Heap(m, e, B, sz, F, F) /\ Layout(B, sz, e) /\ NoNeighbours(sz, F, {})
      /\ F \subseteq B \ {Prologue, Sentinel}
      /\ b \in B /\ b \notin {Prologue, Sentinel}
  BY DEF Valid, Heap
<1>2. GET_BLK_SIZE(m, b) = sz[b]
  BY <1>1, Reads
<1>3. b \in Nat /\ sz[b] \in Nat /\ Aligned(sz[b])
  BY <1>1, BlockFacts
<1>4. s \in Nat /\ Aligned(s) /\ s >= 16 /\ sz[b] - s = size /\ s < sz[b]
  BY <1>3, AlignedSum
<1>5. d \notin B
  BY <1>1, <1>4, InsideNoBlock
<1>6. r = Result(SET_BOUNDARY(SET_BOUNDARY(m, b, s, 0), d, size, 1), e, d)
  <2>1. s >= 4 * WSIZE /\ ~(s < 4 * WSIZE)
    BY <1>4, Places
  <2>2. get_list(GET_BLK_SIZE(m, b)) = get_list(s)
    BY <1>2
  <2> QED BY <1>2, <2>1, <2>2 DEF place
<1> HIDE DEF r, s, d
<1>7. Splits(m, e, B, sz, F, F, b, s, 0, 1, F)
  <2>1. d \notin F
    BY <1>1, <1>5
  <2>2. F \ {b, d} = F \ {b}
    BY <2>1
  <2>3. get_list(s) = get_list(sz[b]) /\ sz[b] - s >= 16
    BY <1>4 DEF s
  <2> HIDE DEF m, e
  <2> QED BY <1>1, <1>4, <2>1, <2>2, <2>3 DEF Splits, d
<1>8. PICK B2, sz2, m2 :
        /\ B2 = B \cup {d} /\ sz2[b] = s /\ sz2[d] = size
        /\ \A c \in B : c # b => sz2[c] = sz[c]
        /\ m2 = SET_BOUNDARY(SET_BOUNDARY(m, b, s, 0), d, size, 1)
        /\ Heap(m2, e, B2, sz2, F, F)
        /\ Kept(m, m2, B \ {b}, sz)
  <2> HIDE DEF m, e
  <2>1. PICK m2, B2, sz2 : SplitInto(m, e, B, sz, F, F, b, s, 0, 1, m2, B2, sz2)
    BY <1>7, SplitStep
  <2> QED BY <2>1, <1>4 DEF d, SplitInto
<1>9. r.mem = m2 /\ r.brk = e /\ r.bp = d
  BY <1>6, <1>8 DEF Result
<1>10. NoNeighbours(sz2, F, {})
  <2> SUFFICES ASSUME NEW x \in F, x + sz2[x] \in F PROVE FALSE
    BY DEF NoNeighbours
  <2>1. x # b
    BY <1>1, <1>5, <1>8 DEF d
  <2>2. x + sz[x] \in F
    BY <2>1, <1>1, <1>8
  <2> QED BY <2>2, <1>1 DEF NoNeighbours
<1>11. /\ d \in B2 \ F /\ d \notin B \ F /\ d \notin {Prologue, Sentinel} /\ B2 \ F = (B \ F) \cup {d}
       /\ B \ F \subseteq B \ {b}
  <2>1. Prologue \in B /\ Sentinel \in B
    BY <1>1 DEF Layout
  <2> QED BY <2>1, <1>1, <1>5, <1>8
<1>12. Kept(m, m2, B \ F, sz) /\ \A c \in B \ F : sz2[c] = sz[c]
  BY <1>8, <1>11 DEF Kept
<1>13. Valid(r.mem, r.brk, B2, sz2, F)
  BY <1>8, <1>9, <1>10 DEF Valid
<1>14. /\ r.bp \in B2 \ F /\ r.bp \notin B \ F /\ r.bp \notin {Prologue, Sentinel}
       /\ B2 \ F = (B \ F) \cup {r.bp} /\ sz2[r.bp] >= size /\ Kept(m, r.mem, B \ F, sz)
  BY <1>8, <1>9, <1>11, <1>12
<1>15. Allocates(h, B, sz, F, r, size)
  BY <1>12, <1>13, <1>14 DEF Allocates
<1> QED BY <1>15 DEF r

(* place, when the front is allocated and the rest goes to another list.   *)
LEMMA PlaceFront ==
    ASSUME NEW h, NEW B, NEW sz, NEW F, NEW b, NEW size, Placeable(h, B, sz, F, b, size),
           sz[b] - size >= 16, get_list(sz[b]) # get_list(sz[b] - size)
    PROVE  Allocates(h, B, sz, F, place(h, b, size), size)
<1> DEFINE m  == h.mem
           e  == h.brk
           d  == b + size
           m1 == detach_block(m, b)
           m2 == SET_BOUNDARY(SET_BOUNDARY(m1, b, size, 1), d, sz[b] - size, 0)
           c  == coalesce(m2, d)
           m3 == attach_block(c.mem, c.bp)
           r  == place(h, b, size)
           L  == F \ {b}
           F2 == L \cup {d}
<1>0. /\ Valid(h.mem, h.brk, B, sz, F) /\ b \in F
      /\ size \in Nat /\ Aligned(size) /\ size >= 16 /\ sz[b] >= size
  BY DEF Placeable
<1> USE <1>0
<1>1. /\ Heap(m, e, B, sz, F, F) /\ Layout(B, sz, e) /\ NoNeighbours(sz, F, {})
      /\ F \subseteq B \ {Prologue, Sentinel}
      /\ b \in B /\ b \notin {Prologue, Sentinel}
  BY DEF Valid, Heap
<1>2. GET_BLK_SIZE(m, b) = sz[b]
  BY <1>1, Reads
<1>3. b \in Nat /\ sz[b] \in Nat
  BY <1>1, BlockFacts
<1>4. d \notin B /\ b # d
  <2>1. 0 < size /\ size < sz[b]
    BY <1>3
  <2>2. d \notin B
    BY <1>1, <2>1, InsideNoBlock
  <2> QED BY <2>2, <1>1
<1>5. r = Result(m3, e, b)
  <2>1. ~(sz[b] - size < 4 * WSIZE)
    BY <1>3, Places
  <2>2. ~(get_list(GET_BLK_SIZE(m, b)) = get_list(sz[b] - size))
    BY <1>2
  <2> QED BY <1>2, <2>1, <2>2 DEF place
<1> HIDE DEF r, d
<1>6. Heap(m1, e, B, sz, F, L) /\ Kept(m, m1, B \ F, sz)
  BY <1>1, DetachStep
<1> HIDE DEF m1
<1>7. Splits(m1, e, B, sz, F, L, b, size, 1, 0, F2)
  <2>1. d \in F2 /\ b \notin F2 /\ F2 \ {b, d} = F \ {b} /\ L \subseteq F2 /\ b \notin L
    BY <1>1, <1>4
  <2> HIDE DEF m, e, F2, L
  <2> QED BY <1>1, <1>6, <2>1 DEF Splits, d
<1>8. PICK B2, sz2 :
        /\ B2 = B \cup {d} /\ sz2[b] = size /\ sz2[d] = sz[b] - size
        /\ \A x \in B : x # b => sz2[x] = sz[x]
        /\ Heap(m2, e, B2, sz2, F2, L)
        /\ Kept(m1, m2, B \ {b}, sz)
  <2> HIDE DEF m, e, F2, L
  <2>1. PICK m4, B2, sz2 : SplitInto(m1, e, B, sz, F2, L, b, size, 1, 0, m4, B2, sz2)
    BY <1>7, SplitStep
  <2> QED BY <2>1 DEF d, SplitInto
<1> HIDE DEF m2
<1>9. /\ L = F2 \ {d} /\ d \in F2
      /\ B2 \ F2 = (B \ F) \cup {b} /\ b \notin B \ F /\ B \ F \subseteq B \ {b}
  BY <1>1, <1>4, <1>8
<1>10. NoNeighbours(sz2, F2, {d})
  <2> SUFFICES ASSUME NEW x \in F2, x + sz2[x] \in F2, x # d, x + sz2[x] # d PROVE FALSE
    BY DEF NoNeighbours
  <2>1. x \in F /\ x # b /\ x + sz[x] \in F
    BY <1>1, <1>8
  <2> QED BY <2>1, <1>1 DEF NoNeighbours
<1> HIDE DEF L, F2
<1>11. PICK sz3 : Leaves(m2, sz2, B2 \ F2, m3, e, B2 \ F2, sz3)
  <2>1. Heap(m2, e, B2, sz2, F2, F2 \ {d})
    BY <1>8, <1>9
  <2> QED BY <2>1, <1>9, <1>10, Relisted
<1> HIDE DEF m3
<1>12. PICK B3, F3 : /\ Valid(m3, e, B3, sz3, F3)
                     /\ B3 \ F3 = (B \ F) \cup {b}
                     /\ \A x \in (B \ F) \cup {b} : sz3[x] = sz2[x]
                     /\ Kept(m2, m3, (B \ F) \cup {b}, sz2)
  BY <1>9, <1>11 DEF Leaves
<1>13. Kept(m, m3, B \ F, sz) /\ \A x \in B \ F : sz3[x] = sz[x]
  <2>1. \A x \in B \ F : sz2[x] = sz[x] /\ sz3[x] = sz[x]
    BY <1>8, <1>9, <1>12
  <2>2. Kept(m, m2, B \ F, sz)
    BY <1>6, <1>8, <1>9, KeptTrans
  <2>3. Kept(m, m3, B \ F, sz)
    BY <2>1, <2>2, <1>12, KeptTrans
  <2> QED BY <2>1, <2>3
<1>14. r.mem = m3 /\ r.brk = e /\ r.bp = b
  BY <1>5 DEF Result
<1>15. Valid(r.mem, r.brk, B3, sz3, F3)
  BY <1>12, <1>14
<1>16. /\ r.bp \in B3 \ F3 /\ r.bp \notin B \ F /\ r.bp \notin {Prologue, Sentinel}
       /\ B3 \ F3 = (B \ F) \cup {r.bp} /\ sz3[r.bp] >= size /\ Kept(m, r.mem, B \ F, sz)
  <2>1. sz3[b] = size
    BY <1>8, <1>12
  <2> QED BY <2>1, <1>1, <1>9, <1>12, <1>13, <1>14
<1>17. Allocates(h, B, sz, F, r, size)
  BY <1>13, <1>15, <1>16 DEF Allocates
<1> QED BY <1>17 DEF r

(* place.                                                                  *)
LEMMA PlaceIs ==
    ASSUME NEW h, NEW B, NEW sz, NEW F, NEW b, NEW size, Placeable(h, B, sz, F, b, size)
    PROVE  Allocates(h, B, sz, F, place(h, b, size), size)
<1>1. sz[b] \in Nat /\ size \in Nat
  BY BlockFacts DEF Placeable, Valid, Heap
<1>2. CASE sz[b] - size < 16
  BY <1>2, PlaceWhole
<1>3. CASE sz[b] - size >= 16 /\ get_list(sz[b]) = get_list(sz[b] - size)
  BY <1>3, PlaceTail
<1>4. CASE sz[b] - size >= 16 /\ get_list(sz[b]) # get_list(sz[b] - size)
  BY <1>4, PlaceFront
<1> QED BY <1>1, <1>2, <1>3, <1>4

-----------------------------------------------------------------------------
(* Block sizes, and extending the heap.                                    *)

(* Unsigned addition within size_t is addition.                            *)
LEMMA PlusExact ==
    ASSUME NEW a \in Nat, NEW b \in Nat, a + b < SizeT
    PROVE  Plus(a, b) = a + b
BY DEF Plus

(* The block for a request (ALIGN_TO_FULLBLK) has a size that tags can     *)
(* hold, room for links when it is free, room for the payload and both     *)
(* tags, and less than 8 bytes more unless it is the smallest block.       *)
THEOREM AlignCorrect ==
    ASSUME NEW size \in Nat, size + 16 <= SizeT
    PROVE  LET full == ALIGN_TO_FULLBLK(size)
           IN  /\ full \in Nat /\ full % 8 = 0
               /\ full >= 16 /\ full >= size + 8
               /\ full < size + 16 \/ full = 16
<1>. DEFINE up == size + 7
            full == up - (up % 8) + 8
<1>1. up \in Nat /\ up % 8 \in 0..7
  OBVIOUS
<1>2. Plus(size, 7) = up
  BY <1>1, PlusExact, SizeTAssumption
<1>3. up - (up % 8) \in Nat /\ full <= size + 15
  BY <1>1
<1>4. Plus(up - (up % 8), 8) = full
  BY <1>1, <1>3, PlusExact, SizeTAssumption
<1>5. ALIGN_TO_FULLBLK(size) = IF full > 16 THEN full ELSE 16
  BY <1>2, <1>4 DEF ALIGN_TO_FULLBLK, MultipleOf8
<1>6. full \in Nat /\ full % 8 = 0 /\ full >= size + 8
  BY <1>1
<1>. QED
  BY <1>3, <1>5, <1>6

(* The block for a request in mm_malloc, and the one that mm_realloc       *)
(* compares with.                                                          *)
Full(size) == ALIGN_TO_FULLBLK(Requested(size))

(* The block for a request is large enough, and not larger than needed.    *)
LEMMA FullIs ==
    ASSUME NEW size \in 1..SizeT - 16
    PROVE  /\ Requested(size) \in Nat /\ Requested(size) >= size
           /\ Full(size) \in Nat /\ Aligned(Full(size)) /\ Full(size) >= 16
           /\ Full(size) >= size + 8
           /\ Full(size) < Requested(size) + 16 \/ Full(size) = 16
           /\ ALIGN_TO_FULLBLK(size) \in Nat /\ Aligned(ALIGN_TO_FULLBLK(size))
           /\ ALIGN_TO_FULLBLK(size) >= 16 /\ ALIGN_TO_FULLBLK(size) >= size + 8
           /\ Full(size) >= ALIGN_TO_FULLBLK(size)
<1> DEFINE r == Requested(size)
           small == ALIGN_TO_FULLBLK(size)
<1>1. size \in Nat /\ size + 16 <= SizeT
  BY SizeTAssumption
<1>2. r = size \/ (r = 128 /\ size = 112) \/ (r = 512 /\ size = 448)
  BY DEF Requested
<1>3. r \in Nat /\ r >= size /\ r + 16 <= SizeT
  BY <1>1, <1>2, SizeTAssumption
<1> HIDE DEF r
<1>4. /\ small \in Nat /\ small % 8 = 0 /\ small >= 16 /\ small >= size + 8
      /\ small < size + 16 \/ small = 16
  BY <1>1, AlignCorrect
<1>5. /\ ALIGN_TO_FULLBLK(r) \in Nat /\ ALIGN_TO_FULLBLK(r) % 8 = 0
      /\ ALIGN_TO_FULLBLK(r) >= 16 /\ ALIGN_TO_FULLBLK(r) >= r + 8
      /\ ALIGN_TO_FULLBLK(r) < r + 16 \/ ALIGN_TO_FULLBLK(r) = 16
  BY <1>3, AlignCorrect
<1>6. ALIGN_TO_FULLBLK(r) >= small
  <2> HIDE DEF small
  <2>1. CASE r = size
    BY <2>1, <1>4 DEF small
  <2>2. CASE r # size
    BY <2>2, <1>2, <1>4, <1>5
  <2> QED BY <2>1, <2>2
<1> HIDE DEF small
<1>7. Full(size) = ALIGN_TO_FULLBLK(r)
  BY DEF Full, r
<1>8. /\ Full(size) \in Nat /\ Full(size) % 8 = 0 /\ Full(size) >= 16 /\ Full(size) >= size + 8
      /\ Full(size) < r + 16 \/ Full(size) = 16
  BY <1>1, <1>3, <1>5, <1>7
<1> QED BY <1>3, <1>4, <1>6, <1>7, <1>8 DEF Aligned, r, small

(* A new free block at the end of the heap, in no list.                    *)
Extendable(h, B, sz, F, s) ==
    /\ Valid(h.mem, h.brk, B, sz, F)
    /\ Aligned(s) /\ s >= 16

(* What extend_heap leaves.                                                *)
Extended(h, B, sz, F, s, r, B2, sz2, F2) ==
    /\ r.bp = h.brk /\ r.brk = h.brk + s /\ r.bp # NULL
    /\ B2 = B \cup {h.brk} /\ F2 = F \cup {h.brk} /\ h.brk \notin B
    /\ sz2[h.brk] = s /\ \A b \in B : sz2[b] = sz[b]
    /\ Heap(r.mem, r.brk, B2, sz2, F2, F)
    /\ Kept(h.mem, r.mem, B, sz)

(* What extend_heap writes.                                                *)
ExtendedMem(m, e, s) == [SET_BOUNDARY(m, e, s, 0) EXCEPT ![e + s - WSIZE] = PACK(0, 1)]

(* What extend_heap writes: the tags of the new block and the epilogue.    *)
LEMMA ExtendWrites ==
    ASSUME NEW m, IsMemory(m), NEW e, NEW s, e - 4 \in Words, e + s - 8 \in Words,
           e \in Nat, s \in Nat, NEW e2, e2 = e + s, e2 - 4 \in Words,
           NEW m2, m2 = ExtendedMem(m, e, s)
    PROVE  /\ IsMemory(m2)
           /\ \A a \in Words : m2[a] = IF a = e2 - 4 THEN 1
                                       ELSE IF a = e - 4 \/ a = e + s - 8 THEN s + 0 ELSE m[a]
<1> DEFINE m1 == SET_BOUNDARY(m, e, s, 0)
           w  == e2 - 4
<1>1. IsMemory(m1) /\ \A a \in Words : m1[a] = IF a = e - 4 \/ a = e + s - 8 THEN s + 0 ELSE m[a]
  BY BoundaryWrites
<1> HIDE DEF m1
<1>2. m2 = [m1 EXCEPT ![w] = 1]
  <2>1. e + s - WSIZE = w
    BY DEF WSIZE
  <2> HIDE DEF w
  <2> QED BY <2>1 DEF m1, PACK, ExtendedMem
<1> HIDE DEF w
<1>3. m2 = [a \in Words |-> IF a = w THEN 1 ELSE m1[a]]
  BY <1>1, <1>2 DEF IsMemory
<1>4. IsMemory(m2)
  BY <1>3 DEF IsMemory
<1> QED BY <1>1, <1>3, <1>4 DEF w

(* extend_heap adds a free block, when the memory is not exhausted.        *)
LEMMA ExtendStep ==
    ASSUME NEW h, NEW B, NEW sz, NEW F, NEW s, Extendable(h, B, sz, F, s),
           NEW r, r = extend_heap(h, s), ~SbrkFails(h, s)
    PROVE  \E B2, sz2, F2 : Extended(h, B, sz, F, s, r, B2, sz2, F2)
<1> DEFINE m   == h.mem
           e   == h.brk
           e2  == e + s
           m2  == ExtendedMem(m, e, s)
           B2  == B \cup {e}
           sz2 == [sz EXCEPT ![e] = s]
           F2  == F \cup {e}
           New == {e}
<1>1. /\ Heap(m, e, B, sz, F, F) /\ Layout(B, sz, e) /\ IsMemory(m)
      /\ F \subseteq B \ {Prologue, Sentinel} /\ Aligned(s) /\ s >= 16 /\ s \in Nat
  BY DEF Extendable, Valid, Heap, Aligned
<1>2. /\ e \in Nat /\ Aligned(e) /\ e \notin B /\ e - 4 \in Words
      /\ e \notin {Prologue, Sentinel}
  <2>1. \E b \in B : TRUE
    BY <1>1 DEF Layout
  <2>2. Prologue \in B /\ Sentinel \in B
    BY <1>1 DEF Layout
  <2> QED BY <1>1, <2>1, <2>2, BlockFacts, BlockWords
<1>3. e + s <= MaxAddr
  BY <1>1, <1>2, Places DEF SbrkFails
<1>4. r = Result(m2, e2, e)
  BY DEF extend_heap, ExtendedMem
<1>5. r.mem = m2 /\ r.brk = e2 /\ r.bp = e
  BY <1>4 DEF Result
<1>6. /\ \A c \in B : sz2[c] = sz[c]
      /\ sz2[e] = s
      /\ Layout(B2, sz2, e2)
  <2>1. Extends(B, sz, e, s, B2, sz2, e2)
    BY <1>1, <1>3 DEF Extends
  <2> HIDE DEF B2, sz2, e2
  <2>2. /\ \A c \in B : sz2[c] = sz[c]
        /\ sz2[e] = s
        /\ Layout(B2, sz2, e2)
    BY <2>1, LayoutExtend
  <2> QED BY <2>2
<1>7. e + s - 8 \in Words /\ e2 - 4 \in Words /\ e2 = e + s
  <2>1. e \in B2 /\ e2 = e + s /\ Layout(B2, sz2, e2) /\ sz2[e] = s
    BY <1>6
  <2> HIDE DEF B2, sz2, e, m, e2
  <2>2. e + sz2[e] - 8 \in Words /\ e2 - 4 \in Words
    BY <2>1, BlockWords
  <2> QED BY <2>1, <2>2, <1>1, <1>2
<1>8. /\ IsMemory(m2)
      /\ \A a \in Words : m2[a] = IF a = e2 - 4 THEN 1
                                  ELSE IF a = e - 4 \/ a = e + s - 8 THEN s + 0 ELSE m[a]
  <2>1. m2 = ExtendedMem(m, e, s)
    OBVIOUS
  <2> HIDE DEF e, m, m2, e2
  <2>2. /\ IsMemory(m2)
        /\ \A a \in Words : m2[a] = IF a = e2 - 4 THEN 1
                                    ELSE IF a = e - 4 \/ a = e + s - 8 THEN s + 0 ELSE m[a]
    BY <2>1, <1>1, <1>2, <1>7, ExtendWrites
  <2> QED BY <2>2
<1> HIDE DEF m2, sz2, m, e, e2
<1>9. m2[e2 - 4] = 1
  BY <1>7, <1>8
<1>10. \A c \in New : m2[c - 4] = Tag(c, sz2, F2) /\ m2[c + sz2[c] - 8] = Tag(c, sz2, F2)
  <2>1. e - 4 # e2 - 4 /\ e + s - 8 # e2 - 4
    BY <1>1, <1>2, <1>7
  <2>2. m2[e - 4] = s /\ m2[e + s - 8] = s
    BY <2>1, <1>1, <1>2, <1>7, <1>8
  <2> QED BY <2>2, <1>6 DEF Tag
<1>11. \A a \in Words :
        \/ m2[a] = m[a]
        \/ a = e2 - 4
        \/ \E c \in New : c - 4 <= a /\ a <= c + sz2[c] - 8
  <2>1. e - 4 <= e - 4 /\ e - 4 <= e + s - 8 /\ e + s - 8 <= e + s - 8
    BY <1>1, <1>2
  <2> QED BY <2>1, <1>6, <1>8
<1>12. /\ F \subseteq F2 /\ F2 \subseteq B2 \ {Prologue, Sentinel} /\ New \subseteq B2
       /\ \A c \in B2 \ New : c \in B /\ sz2[c] = sz[c] /\ (c \in F2 <=> c \in F)
       /\ F \cap New = {}
       /\ B2 \ New = B
  BY <1>1, <1>2, <1>6
<1>13. Rewrites(m, B, sz, F, F, m2, e2, B2, sz2, F2, New)
  <2> HIDE DEF B2, F2, New
  <2> QED BY <1>6, <1>8, <1>9, <1>10, <1>11, <1>12 DEF Rewrites
<1> HIDE DEF B2, F2, New
<1>14. Heap(m2, e2, B2, sz2, F2, F) /\ Kept(m, m2, B2 \ New, sz2)
  BY <1>1, <1>13, Rewritten
<1>15. Kept(m, m2, B, sz)
  BY <1>6, <1>12, <1>14 DEF Kept
<1>16. e # NULL
  BY <1>2, WordsAre, Places
<1> QED
  <2>1. Extended(h, B, sz, F, s, r, B2, sz2, F2)
    BY <1>2, <1>5, <1>6, <1>14, <1>15, <1>16 DEF Extended, B2, F2, e2, e, m
  <2> QED BY <2>1

-----------------------------------------------------------------------------
(* mm_malloc.                                                              *)

(* place does not move the break.                                          *)
LEMMA PlaceBreak == \A h, b, size : place(h, b, size).brk = h.brk
BY DEF place, Result

(* A new block at the end is allocated.                                    *)
LEMMA GrownIs ==
    ASSUME NEW h, NEW B, NEW sz, NEW F, NEW s, Extendable(h, B, sz, F, s), ~SbrkFails(h, s),
           NEW g, g = extend_heap(h, s),
           NEW r, r = Result(SET_ALLOC(g.mem, g.bp), g.brk, g.bp)
    PROVE  Allocates(h, B, sz, F, r, s) /\ r.brk >= h.brk
<1>1. PICK B2, sz2, F2 : Extended(h, B, sz, F, s, g, B2, sz2, F2)
  BY ExtendStep
<1> DEFINE b  == g.bp
           e2 == g.brk
           m1 == g.mem
           m2 == SET_ALLOC(m1, b)
<1>2. /\ b = h.brk /\ e2 = h.brk + s /\ B2 = B \cup {b} /\ F2 = F \cup {b} /\ b \notin B
      /\ sz2[b] = s /\ \A c \in B : sz2[c] = sz[c]
      /\ Heap(m1, e2, B2, sz2, F2, F) /\ Kept(h.mem, m1, B, sz)
  BY <1>1 DEF Extended
<1>3. /\ Valid(h.mem, h.brk, B, sz, F) /\ Heap(h.mem, h.brk, B, sz, F, F) /\ Layout(B, sz, h.brk)
      /\ F \subseteq B \ {Prologue, Sentinel} /\ Aligned(s) /\ s >= 16
  BY DEF Extendable, Valid, Heap
<1>4. r.mem = m2 /\ r.brk = e2 /\ r.bp = b
  BY DEF Result
<1> HIDE DEF b, e2, m1
<1>5. b \in F2 \ F /\ F2 \ {b} = F /\ b \notin {Prologue, Sentinel}
  <2>1. Prologue \in B /\ Sentinel \in B
    BY <1>3 DEF Layout
  <2> QED BY <2>1, <1>2, <1>3
<1>6. Heap(m2, e2, B2, sz2, F, F) /\ Kept(m1, m2, B2 \ {b}, sz2)
  <2>1. Heap(m2, e2, B2, sz2, F2 \ {b}, F) /\ Kept(m1, m2, B2 \ {b}, sz2)
    BY <1>2, <1>5, AllocStep
  <2> QED BY <2>1, <1>5
<1> HIDE DEF m2
<1>7. NoNeighbours(sz2, F, {})
  BY <1>2, <1>3 DEF Valid, NoNeighbours
<1>8. Kept(h.mem, m2, B \ F, sz)
  <2>1. /\ B \ F \subseteq B /\ B \ F \subseteq B2 \ {b}
        /\ \A c \in B \ F : sz[c] = sz[c] /\ sz2[c] = sz[c]
    BY <1>2
  <2> QED BY <2>1, <1>2, <1>6, KeptTrans
<1>9. Valid(r.mem, r.brk, B2, sz2, F)
  BY <1>4, <1>6, <1>7 DEF Valid
<1>10. /\ r.bp \in B2 \ F /\ r.bp \notin B \ F /\ r.bp \notin {Prologue, Sentinel}
       /\ B2 \ F = (B \ F) \cup {r.bp} /\ sz2[r.bp] >= s /\ Kept(h.mem, r.mem, B \ F, sz)
       /\ \A c \in B \ F : sz2[c] = sz[c]
  <2>1. s >= s
    BY <1>3 DEF Aligned
  <2> QED BY <2>1, <1>2, <1>3, <1>4, <1>5, <1>8
<1>11. Allocates(h, B, sz, F, r, s)
  BY <1>9, <1>10 DEF Allocates
<1>12. r.brk >= h.brk
  <2>1. h.brk \in Nat
    BY <1>3, BlockFacts
  <2> QED BY <2>1, <1>2, <1>3, <1>4 DEF Aligned
<1> QED BY <1>11, <1>12

(* mm_malloc, when it does not crash.                                      *)
LEMMA MallocIs ==
    ASSUME NEW h, NEW B, NEW sz, NEW F, Valid(h.mem, h.brk, B, sz, F),
           NEW size \in 1..SizeT - 16, NEW r, r = mm_malloc(h, size), r.bp # NULL
    PROVE  /\ Allocates(h, B, sz, F, r, Full(size))
           /\ r.brk >= h.brk
           /\ r.brk # h.brk => \A b \in F : sz[b] < Full(size)
<1> DEFINE full == Full(size)
           bp   == search_block(h.mem, full)
           g    == extend_heap(h, full)
<1>1. full \in Nat /\ Aligned(full) /\ full >= 16
  BY FullIs
<1>2. Heap(h.mem, h.brk, B, sz, F, F) /\ h.brk \in Nat
  BY BlockFacts DEF Valid, Heap
<1>3. r = CASE bp # NULL -> place(h, bp, full)
            [] bp = NULL /\ g.bp = NULL -> g
            [] OTHER -> Result(SET_ALLOC(g.mem, g.bp), g.brk, g.bp)
  BY DEF mm_malloc, Full
<1> HIDE DEF full
<1>4. \/ bp = NULL /\ \A b \in F : sz[b] < full
      \/ bp \in F /\ bp # NULL /\ sz[bp] >= full
  BY <1>1, <1>2, SearchIs
<1> HIDE DEF bp
<1>5. CASE bp # NULL
  <2>1. r = place(h, bp, full)
    BY <1>3, <1>5
  <2>2. Placeable(h, B, sz, F, bp, full)
    BY <1>1, <1>4, <1>5 DEF Placeable
  <2>3. Allocates(h, B, sz, F, r, full) /\ r.brk = h.brk
    BY <2>1, <2>2, PlaceIs, PlaceBreak
  <2> QED BY <2>3, <1>2 DEF full
<1>6. CASE bp = NULL
  <2>1. g.bp # NULL
    BY <1>3, <1>6
  <2>2. r = Result(SET_ALLOC(g.mem, g.bp), g.brk, g.bp)
    BY <2>1, <1>3, <1>6
  <2>3. ~SbrkFails(h, full)
    BY <2>1 DEF extend_heap, Result
  <2>4. Extendable(h, B, sz, F, full)
    BY <1>1 DEF Extendable
  <2> HIDE DEF g
  <2>5. g = extend_heap(h, full)
    BY DEF g
  <2>6. Allocates(h, B, sz, F, r, full) /\ r.brk >= h.brk
    BY <2>2, <2>3, <2>4, <2>5, GrownIs
  <2> QED BY <2>6, <1>4, <1>6 DEF full
<1> QED BY <1>5, <1>6

-----------------------------------------------------------------------------
(* mm_realloc and mm_free.                                                 *)

(* An allocated block is to be reallocated.                                *)
Resizable(h, B, sz, F, b, size) ==
    /\ Valid(h.mem, h.brk, B, sz, F)
    /\ b \in (B \ F) \ {Prologue, Sentinel}
    /\ size \in 1..SizeT - 16

(* What that leaves: the block r.bp instead of b, large enough and with    *)
(* the words of b.                                                         *)
Moves(h, B, sz, F, b, r, size) ==
    /\ r.brk >= h.brk
    /\ \E B2, sz2, F2 :
        /\ Valid(r.mem, r.brk, B2, sz2, F2)
        /\ r.bp \in B2 \ F2 /\ r.bp \notin (B \ F) \ {b} /\ r.bp \notin {Prologue, Sentinel}
        /\ B2 \ F2 = ((B \ F) \ {b}) \cup {r.bp}
        /\ sz2[r.bp] >= size + 8 /\ sz2[r.bp] >= sz[b]
        /\ \A c \in (B \ F) \ {b} : sz2[c] = sz[c]
        /\ Kept(h.mem, r.mem, (B \ F) \ {b}, sz)
        /\ \A o \in Nat : o % 4 = 0 /\ o < sz[b] - 8 => r.mem[r.bp + o] = h.mem[b + o]

(* What mm_realloc reads of the block that it is given.                    *)
LEMMA ResizeFacts ==
    ASSUME NEW h, NEW B, NEW sz, NEW F, NEW b, NEW size, Resizable(h, B, sz, F, b, size)
    PROVE  /\ Valid(h.mem, h.brk, B, sz, F) /\ Heap(h.mem, h.brk, B, sz, F, F)
           /\ Layout(B, sz, h.brk) /\ IsMemory(h.mem)
           /\ b \in B /\ b \notin F /\ b \notin {Prologue, Sentinel}
           /\ b \in Nat /\ sz[b] \in Nat /\ Aligned(b) /\ Aligned(sz[b]) /\ sz[b] >= 16
           /\ h.brk \in Nat /\ Aligned(h.brk) /\ b + sz[b] <= h.brk /\ h.brk <= MaxAddr
           /\ GET_BLK_SIZE(h.mem, b) = sz[b] /\ FTRP(h.mem, b) = b + sz[b] - 8
           /\ b - 4 \in Words /\ h.brk - 4 \in Words
<1>1. /\ Valid(h.mem, h.brk, B, sz, F) /\ Heap(h.mem, h.brk, B, sz, F, F)
      /\ Layout(B, sz, h.brk) /\ IsMemory(h.mem)
      /\ b \in B /\ b \notin F /\ b \notin {Prologue, Sentinel}
  BY DEF Resizable, Valid, Heap
<1> QED BY <1>1, BlockFacts, BlockWords, Reads

(* A payload's words.                                                      *)
LEMMA PayloadWords ==
    ASSUME NEW B, NEW sz, NEW e, Layout(B, sz, e), NEW b \in B,
           NEW o \in Nat, o % 4 = 0, o < sz[b] - 8
    PROVE  b + o \in Words /\ b <= b + o /\ b + o < b + sz[b] - 8
<1>1. /\ b \in Nat /\ sz[b] \in Nat /\ Aligned(b) /\ b >= Prologue /\ b + sz[b] <= e
      /\ e \in Nat /\ e <= MaxAddr
  BY BlockFacts
<1>2. b <= b + o /\ b + o < b + sz[b] - 8
  BY <1>1
<1>3. HeapLo \in Nat /\ Prologue = HeapLo + 48 /\ MaxAddr \in Nat
  BY Places
<1>4. CASE o % 8 = 0
  <2>1. Aligned(b + o) /\ HeapLo <= b + o /\ b + o < MaxAddr
    BY <1>1, <1>2, <1>3, <1>4 DEF Aligned
  <2> DEFINE x == b + o
  <2> HIDE DEF x
  <2>2. Aligned(x) /\ HeapLo <= x /\ x < MaxAddr
    BY <2>1 DEF x
  <2>3. x \in Words
    BY <2>2, AlignedWords
  <2> QED BY <2>3, <1>2 DEF x
<1>5. CASE o % 8 = 4
  <2> DEFINE x == b + o - 4
  <2>1. Aligned(x) /\ HeapLo <= x /\ x < MaxAddr /\ x + 4 = b + o
    BY <1>1, <1>2, <1>3, <1>5 DEF Aligned
  <2> HIDE DEF x
  <2>2. x + 4 \in Words
    BY <2>1, AlignedWords
  <2> QED BY <2>1, <2>2, <1>2
<1>6. o % 8 = 0 \/ o % 8 = 4
  OBVIOUS
<1> QED BY <1>4, <1>5, <1>6

(* The block is large enough already.                                      *)
LEMMA ReallocKeeps ==
    ASSUME NEW h, NEW B, NEW sz, NEW F, NEW b, NEW size, Resizable(h, B, sz, F, b, size),
           ALIGN_TO_FULLBLK(size) <= sz[b],
           NEW r, r = Result(h.mem, h.brk, b)
    PROVE  Moves(h, B, sz, F, b, r, size)
<1>1. r.mem = h.mem /\ r.brk = h.brk /\ r.bp = b
  BY DEF Result
<1>2. /\ Valid(h.mem, h.brk, B, sz, F) /\ b \in B /\ b \notin F /\ b \notin {Prologue, Sentinel}
      /\ h.brk \in Nat /\ sz[b] \in Nat
  BY ResizeFacts
<1>3. size \in Nat /\ sz[b] >= size + 8
  <2>1. size \in 1..SizeT - 16
    BY DEF Resizable
  <2>2. /\ ALIGN_TO_FULLBLK(size) \in Nat /\ ALIGN_TO_FULLBLK(size) >= size + 8
    BY <2>1, FullIs
  <2> QED BY <2>1, <2>2, <1>2, SizeTAssumption
<1>4. /\ r.bp \in B \ F /\ r.bp \notin (B \ F) \ {b} /\ r.bp \notin {Prologue, Sentinel}
      /\ B \ F = ((B \ F) \ {b}) \cup {r.bp}
      /\ r.brk >= h.brk /\ sz[r.bp] >= size + 8 /\ sz[r.bp] >= sz[b]
  BY <1>1, <1>2, <1>3
<1>5. Kept(h.mem, r.mem, (B \ F) \ {b}, sz)
  BY <1>1 DEF Kept
<1> QED BY <1>1, <1>2, <1>4, <1>5 DEF Moves

(* The last block grows in place.                                          *)
LEMMA ReallocGrows ==
    ASSUME NEW h, NEW B, NEW sz, NEW F, NEW b, NEW size, Resizable(h, B, sz, F, b, size),
           NEW full, full = ALIGN_TO_FULLBLK(size), full > sz[b], b + sz[b] = h.brk,
           ~SbrkFails(h, full - sz[b]),
           NEW r, r = Result(SET_BOUNDARY(extend_heap(h, full - sz[b]).mem, b, full, 1),
                             extend_heap(h, full - sz[b]).brk, b)
    PROVE  Moves(h, B, sz, F, b, r, size)
<1> DEFINE m   == h.mem
           e   == h.brk
           d   == full - sz[b]
           e2  == e + d
           m1  == ExtendedMem(m, e, d)
           m2  == SET_BOUNDARY(m1, b, full, 1)
           sz2 == [sz EXCEPT ![b] = full]
           New == {b}
<1>1. /\ Valid(m, e, B, sz, F) /\ Heap(m, e, B, sz, F, F)
      /\ Layout(B, sz, e) /\ IsMemory(m)
      /\ b \in B /\ b \notin F /\ b \notin {Prologue, Sentinel}
      /\ b \in Nat /\ sz[b] \in Nat /\ Aligned(b) /\ Aligned(sz[b]) /\ sz[b] >= 16
      /\ e \in Nat /\ e <= MaxAddr /\ b + sz[b] = e
      /\ b - 4 \in Words /\ e - 4 \in Words
  BY ResizeFacts
<1>2. size \in Nat /\ full \in Nat /\ Aligned(full) /\ full >= size + 8
  <2>1. size \in 1..SizeT - 16
    BY DEF Resizable
  <2> QED BY <2>1, FullIs, SizeTAssumption
<1>3. d \in Nat /\ d >= 8 /\ e2 = e + d /\ e2 \in Nat /\ e2 = b + full /\ e2 <= MaxAddr /\ full = sz[b] + d
  <2>1. d \in Nat /\ d >= 8
    BY <1>1, <1>2 DEF Aligned
  <2>2. e + d <= MaxAddr
    BY <2>1, <1>1, Places DEF SbrkFails
  <2> QED BY <2>1, <2>2, <1>1, <1>2
<1>4. r.mem = m2 /\ r.brk = e2 /\ r.bp = b
  BY DEF Result, extend_heap, ExtendedMem
<1>5. (\A c \in B : c # b => sz2[c] = sz[c]) /\ sz2[b] = full /\ Layout(B, sz2, e2)
  <2>1. sz2 = [sz EXCEPT ![b] = full]
    OBVIOUS
  <2> HIDE DEF sz2, e2, e
  <2>2. full >= sz[b] /\ b + full <= MaxAddr
    BY <1>1, <1>2, <1>3
  <2>3. Grows(B, sz, e, b, full, sz2, e2)
    BY <2>1, <2>2, <1>1, <1>2, <1>3 DEF Grows
  <2> QED BY <2>3, LayoutGrow
<1> HIDE DEF sz2, e2, e, m
<1>6. b + full - 8 \in Words /\ e + d - 8 \in Words /\ e2 - 4 \in Words /\ e + d - 8 = b + full - 8
  <2>1. b + sz2[b] - 8 \in Words /\ e2 - 4 \in Words
    BY <1>1, <1>5, BlockWords
  <2> HIDE DEF d
  <2>2. e + d - 8 = b + full - 8
    BY <1>1, <1>2, <1>3
  <2> QED BY <2>1, <2>2, <1>5
<1>7. /\ IsMemory(m1)
      /\ \A a \in Words : m1[a] = IF a = e2 - 4 THEN 1
                                  ELSE IF a = e - 4 \/ a = e + d - 8 THEN d + 0 ELSE m[a]
  <2> HIDE DEF d
  <2>1. m1 = ExtendedMem(m, e, d)
    OBVIOUS
  <2> HIDE DEF m1
  <2> QED BY <2>1, <1>1, <1>3, <1>6, ExtendWrites
<1> HIDE DEF m1, d
<1>8. /\ IsMemory(m2)
      /\ \A a \in Words : m2[a] = IF a = b - 4 \/ a = b + full - 8 THEN full + 1 ELSE m1[a]
  BY <1>1, <1>6, <1>7, BoundaryWrites
<1> HIDE DEF m2
<1>9. m2[e2 - 4] = 1
  <2>1. e2 - 4 # b - 4 /\ e2 - 4 # b + full - 8
    BY <1>1, <1>2, <1>3
  <2> QED BY <2>1, <1>6, <1>7, <1>8
<1>10. \A c \in New : m2[c - 4] = Tag(c, sz2, F) /\ m2[c + sz2[c] - 8] = Tag(c, sz2, F)
  <2>1. m2[b - 4] = full + 1 /\ m2[b + full - 8] = full + 1
    BY <1>1, <1>6, <1>8
  <2> QED BY <2>1, <1>1, <1>5 DEF Tag
<1>11. \A a \in Words :
        \/ m2[a] = m[a]
        \/ a = e2 - 4
        \/ \E c \in New : c - 4 <= a /\ a <= c + sz2[c] - 8
  <2>1. /\ b - 4 <= b - 4 /\ b - 4 <= b + full - 8 /\ b + full - 8 <= b + full - 8
        /\ b - 4 <= e - 4 /\ e - 4 <= b + full - 8
    BY <1>1, <1>2, <1>3
  <2>2. \A a \in Words : m2[a] = m[a] \/ a = e2 - 4 \/ a \in {b - 4, b + full - 8, e - 4}
    BY <1>6, <1>7, <1>8
  <2> QED BY <2>1, <2>2, <1>5
<1>12. /\ F \subseteq F /\ F \subseteq B \ {Prologue, Sentinel} /\ New \subseteq B
       /\ \A c \in B \ New : c \in B /\ sz2[c] = sz[c] /\ (c \in F <=> c \in F)
       /\ F \cap New = {}
       /\ (B \ F) \ {b} \subseteq B \ New
  BY <1>1, <1>5 DEF Heap
<1>13. Rewrites(m, B, sz, F, F, m2, e2, B, sz2, F, New)
  <2> HIDE DEF New
  <2> QED BY <1>5, <1>8, <1>9, <1>10, <1>11, <1>12 DEF Rewrites
<1> HIDE DEF New
<1>14. Heap(m2, e2, B, sz2, F, F) /\ Kept(m, m2, B \ New, sz2)
  BY <1>1, <1>13, Rewritten
<1>15. Kept(m, m2, (B \ F) \ {b}, sz)
  BY <1>5, <1>12, <1>14 DEF Kept
<1>16. NoNeighbours(sz2, F, {})
  <2>1. \A c \in F : sz2[c] = sz[c]
    BY <1>1, <1>5, <1>12
  <2> QED BY <2>1, <1>1 DEF Valid, NoNeighbours
<1>17. \A o \in Nat : o % 4 = 0 /\ o < sz[b] - 8 => m2[b + o] = m[b + o]
  <2> SUFFICES ASSUME NEW o \in Nat, o % 4 = 0, o < sz[b] - 8 PROVE m2[b + o] = m[b + o]
    OBVIOUS
  <2>1. b + o \in Words
    BY <1>1, PayloadWords
  <2>2. b + o # b - 4 /\ b + o # b + full - 8 /\ b + o # e - 4 /\ b + o # e2 - 4
    BY <1>1, <1>2, <1>3
  <2> QED BY <2>1, <2>2, <1>6, <1>7, <1>8
<1>18. Valid(m2, e2, B, sz2, F)
  BY <1>14, <1>16 DEF Valid
<1>19. /\ r.bp \in B \ F /\ r.bp \notin (B \ F) \ {b} /\ r.bp \notin {Prologue, Sentinel}
       /\ B \ F = ((B \ F) \ {b}) \cup {r.bp}
       /\ r.brk >= e /\ sz2[r.bp] >= size + 8 /\ sz2[r.bp] >= sz[b]
       /\ \A c \in (B \ F) \ {b} : sz2[c] = sz[c]
  BY <1>1, <1>2, <1>3, <1>4, <1>5
<1> QED
  <2>1. \A o \in Nat : o % 4 = 0 /\ o < sz[b] - 8 => r.mem[r.bp + o] = h.mem[b + o]
    BY <1>4, <1>17 DEF m
  <2>2. Valid(r.mem, r.brk, B, sz2, F) /\ Kept(h.mem, r.mem, (B \ F) \ {b}, sz)
    BY <1>4, <1>15, <1>18 DEF m
  <2> QED BY <2>1, <2>2, <1>19 DEF Moves, e

(* extend_heap fails, and mm_realloc writes the tags all the same: the     *)
(* footer lies past the memory, and the block reaches past the break.      *)
LEMMA ReallocOverruns ==
    ASSUME NEW h, NEW B, NEW sz, NEW F, NEW b, NEW size, Resizable(h, B, sz, F, b, size),
           NEW full, full = ALIGN_TO_FULLBLK(size), full > sz[b], b + sz[b] = h.brk,
           SbrkFails(h, full - sz[b]),
           NEW r, r = Result(SET_BOUNDARY(extend_heap(h, full - sz[b]).mem, b, full, 1),
                             extend_heap(h, full - sz[b]).brk, b)
    PROVE  /\ IsMemory(r.mem) /\ ~(NEXT(r.mem, r.bp) <= r.brk)
           /\ Kept(h.mem, r.mem, B, sz)
<1> DEFINE m   == h.mem
           e   == h.brk
           x   == b - 4
           y   == b + full - 8
           v   == full + 1
           m2  == [m EXCEPT ![x] = v, ![y] = v]
<1>1. /\ IsMemory(m) /\ b \in Nat /\ sz[b] \in Nat /\ Aligned(b) /\ Aligned(sz[b])
      /\ e \in Nat /\ e <= MaxAddr /\ b + sz[b] = e /\ Aligned(e)
      /\ b - 4 \in Words
  BY ResizeFacts
<1>2. full \in Nat /\ Aligned(full)
  <2>1. size \in 1..SizeT - 16
    BY DEF Resizable
  <2> QED BY <2>1, FullIs
<1>3. e + (full - sz[b]) > MaxAddr
  <2>1. full - sz[b] >= 0
    BY <1>1, <1>2
  <2> QED BY <2>1, <1>1, <1>2 DEF SbrkFails
<1>4. b + full - 8 >= MaxAddr
  <2>1. Aligned(b + full) /\ Aligned(MaxAddr) /\ MaxAddr < b + full
    BY <1>1, <1>2, <1>3, Places, AlignedSum
  <2>2. MaxAddr + 8 <= b + full
    BY <2>1, AlignedEight
  <2> QED BY <2>2, <1>1, <1>2, Places
<1>5. r.mem = m2 /\ r.brk = e /\ r.bp = b
  BY DEF Result, extend_heap, SET_BOUNDARY, PACK, WSIZE
<1>6. y \notin Words /\ x \in Words
  BY <1>1, <1>2, <1>4, WordsAre, Places
<1> HIDE DEF x, y, v, m
<1>7. m2 = [a \in Words |-> IF a = x THEN v ELSE m[a]]
  <2>1. m = [a \in Words |-> m[a]]
    BY <1>1 DEF IsMemory
  <2>2. [m EXCEPT ![x] = v] = [a \in Words |-> IF a = x THEN v ELSE m[a]]
    BY <2>1
  <2>3. m2 = [[a \in Words |-> IF a = x THEN v ELSE m[a]] EXCEPT ![y] = v]
    BY <2>2
  <2>4. [[a \in Words |-> IF a = x THEN v ELSE m[a]] EXCEPT ![y] = v] = [a \in Words |-> IF a = x THEN v ELSE m[a]]
    BY <1>6
  <2> QED BY <2>3, <2>4
<1> HIDE DEF m2
<1>8. IsMemory(m2) /\ m2[b - 4] = full + 1
  BY <1>6, <1>7 DEF IsMemory, x, v
<1>9. NEXT(m2, b) = b + full
  BY <1>2, <1>8, TagParts DEF NEXT, GET_BLK_SIZE, WSIZE
<1>10. ~(b + full <= e)
  BY <1>1, <1>2, <1>4, Places
<1>11. Kept(m, m2, B, sz)
  <2> SUFFICES ASSUME NEW c \in B, NEW a \in Words, c <= a, a < c + sz[c] - 8 PROVE m2[a] = m[a]
    BY DEF Kept
  <2>1. /\ c \in Nat /\ sz[c] \in Nat /\ b \in B /\ a \in Nat
        /\ c = b \/ c + sz[c] <= b \/ b + sz[b] <= c
    BY ResizeFacts, BlockFacts, BlocksApart, WordsAre
  <2>2. a # x
    BY <2>1, <1>1 DEF x
  <2> QED BY <2>2, <1>7
<1> QED BY <1>5, <1>8, <1>9, <1>10, <1>11 DEF m

(* mm_free, as a relation.                                                 *)
Freeable(h, B, sz, F, b) ==
    Valid(h.mem, h.brk, B, sz, F) /\ b \in (B \ F) \ {Prologue, Sentinel}

(* What mm_free leaves.                                                    *)
Frees(h, B, sz, F, b, r) ==
    /\ r.brk = h.brk
    /\ \E B2, sz2, F2 :
        /\ Valid(r.mem, r.brk, B2, sz2, F2)
        /\ B2 \ F2 = (B \ F) \ {b}
        /\ \A c \in (B \ F) \ {b} : sz2[c] = sz[c]
        /\ Kept(h.mem, r.mem, (B \ F) \ {b}, sz)

(* mm_free frees the block, and keeps the words of the others.             *)
LEMMA FreeIs ==
    ASSUME NEW h, NEW B, NEW sz, NEW F, NEW b, Freeable(h, B, sz, F, b), NEW r, r = mm_free(h, b)
    PROVE  Frees(h, B, sz, F, b, r)
<1>1. /\ Valid(h.mem, h.brk, B, sz, F) /\ b \in B \ F /\ b \notin {Prologue, Sentinel}
  BY DEF Freeable
<1>2. /\ r.brk = h.brk
      /\ \E sz2 : Leaves(h.mem, sz, (B \ F) \ {b}, r.mem, h.brk, (B \ F) \ {b}, sz2)
  BY <1>1, FreeLeaves
<1> QED BY <1>2 DEF Leaves, Frees

(* memcpy into a block that is allocated.                                  *)
Copies(m, e, B, sz, F, n, b, m2) ==
    /\ Heap(m, e, B, sz, F, F)
    /\ n \in B \ F /\ b \in B /\ n # b /\ sz[n] >= sz[b] + 8
    /\ m2 = memcpy(m, n, b, sz[b] - WSIZE)

(* What memcpy leaves.                                                     *)
Copied(m, e, B, sz, F, n, b, m2) ==
    /\ Heap(m2, e, B, sz, F, F) /\ Kept(m, m2, B \ {n}, sz)
    /\ \A o \in Nat : o % 4 = 0 /\ o < sz[b] - 8 => m2[n + o] = m[b + o]

(* memcpy copies the payload and leaves a heap.                            *)
LEMMA CopyStep ==
    ASSUME NEW m, NEW e, NEW B, NEW sz, NEW F, NEW n, NEW b, NEW m2,
           Copies(m, e, B, sz, F, n, b, m2)
    PROVE  Copied(m, e, B, sz, F, n, b, m2)
<1>1. /\ Heap(m, e, B, sz, F, F) /\ Layout(B, sz, e)
      /\ n \in B \ F /\ b \in B /\ n # b /\ sz[n] >= sz[b] + 8
      /\ m2 = memcpy(m, n, b, sz[b] - WSIZE)
  BY DEF Copies, Heap
<1>2. /\ n \in Nat /\ b \in Nat /\ sz[n] \in Nat /\ sz[b] \in Nat /\ n + sz[n] <= e /\ WSIZE = 4
  BY <1>1, BlockFacts, Places
<1>3. m2 = [a \in Words |-> IF a \in n..n + (sz[b] - 4) - 1 THEN m[b + (a - n)] ELSE m[a]]
  BY <1>1, <1>2 DEF memcpy
<1>4. IsMemory(m2)
  BY <1>3 DEF IsMemory
<1>5. \A a \in Words : m2[a] = m[a] \/ (n <= a /\ a < n + sz[n] - 8)
  <2> SUFFICES ASSUME NEW a \in Words, ~(n <= a /\ a < n + sz[n] - 8) PROVE m2[a] = m[a]
    OBVIOUS
  <2>1. a \in Nat
    BY WordsAre
  <2>2. a \notin n..n + (sz[b] - 4) - 1
    BY <2>1, <1>1, <1>2
  <2> QED BY <2>2, <1>3
<1>6. Heap(m2, e, B, sz, F, F) /\ Kept(m, m2, B \ {n}, sz)
  BY <1>1, <1>4, <1>5, PayloadWritten
<1>7. ASSUME NEW o \in Nat, o % 4 = 0, o < sz[b] - 8 PROVE m2[n + o] = m[b + o]
  <2>1. o < sz[n] - 8
    BY <1>1, <1>2, <1>7
  <2>2. n + o \in Words
    BY <2>1, <1>1, <1>7, PayloadWords
  <2>3. n + o \in n..n + (sz[b] - 4) - 1 /\ b + ((n + o) - n) = b + o
    BY <1>2, <1>7
  <2> DEFINE a == n + o
  <2>4. m2[a] = m[b + (a - n)]
    <3> HIDE DEF a
    <3>1. a \in Words /\ a \in n..n + (sz[b] - 4) - 1
      BY <2>2, <2>3 DEF a
    <3> QED BY <3>1, <1>3
  <2> QED BY <2>3, <2>4
<1> QED BY <1>6, <1>7 DEF Copied

(* The block moves: malloc, memcpy and free.                               *)
LEMMA ReallocMoves ==
    ASSUME NEW h, NEW B, NEW sz, NEW F, NEW b, NEW size, Resizable(h, B, sz, F, b, size),
           ALIGN_TO_FULLBLK(size) > sz[b],
           NEW n, n = mm_malloc(h, size), n.bp # NULL,
           NEW h2, h2 = [mem |-> memcpy(n.mem, n.bp, b, sz[b] - WSIZE), brk |-> n.brk],
           NEW r, r = [mm_free(h2, b) EXCEPT !.bp = n.bp]
    PROVE  Moves(h, B, sz, F, b, r, size)
<1> DEFINE m2 == memcpy(n.mem, n.bp, b, sz[b] - WSIZE)
           f  == mm_free(h2, b)
           A  == (B \ F) \ {b}
<1>1. /\ Valid(h.mem, h.brk, B, sz, F) /\ b \in B /\ b \notin F /\ b \notin {Prologue, Sentinel}
      /\ b \in Nat /\ sz[b] \in Nat /\ Aligned(sz[b]) /\ h.brk \in Nat /\ Layout(B, sz, h.brk)
  BY ResizeFacts
<1>2. size \in 1..SizeT - 16
  BY DEF Resizable
<1>3. Allocates(h, B, sz, F, n, Full(size)) /\ n.brk >= h.brk
  BY <1>1, <1>2, MallocIs
<1>4. PICK B2, sz2, F2 :
        /\ Valid(n.mem, n.brk, B2, sz2, F2)
        /\ n.bp \in B2 \ F2 /\ n.bp \notin B \ F /\ n.bp \notin {Prologue, Sentinel}
        /\ B2 \ F2 = (B \ F) \cup {n.bp}
        /\ sz2[n.bp] >= Full(size)
        /\ \A c \in B \ F : sz2[c] = sz[c]
        /\ Kept(h.mem, n.mem, B \ F, sz)
  BY <1>3 DEF Allocates
<1>5. /\ Heap(n.mem, n.brk, B2, sz2, F2, F2) /\ NoNeighbours(sz2, F2, {}) /\ Layout(B2, sz2, n.brk)
      /\ b \in B2 \ F2 /\ n.bp # b /\ sz2[b] = sz[b] /\ sz2[n.bp] \in Nat
  <2>1. Heap(n.mem, n.brk, B2, sz2, F2, F2) /\ NoNeighbours(sz2, F2, {}) /\ Layout(B2, sz2, n.brk)
    BY <1>4 DEF Valid, Heap
  <2> QED BY <2>1, <1>1, <1>4, BlockFacts
<1>6. sz2[n.bp] >= size + 8 /\ sz2[n.bp] >= sz2[b] + 8
  <2>1. /\ Full(size) \in Nat /\ Full(size) >= ALIGN_TO_FULLBLK(size) /\ Full(size) >= size + 8
        /\ ALIGN_TO_FULLBLK(size) \in Nat /\ Aligned(ALIGN_TO_FULLBLK(size))
    BY <1>2, FullIs
  <2>2. ALIGN_TO_FULLBLK(size) >= sz[b] + 8
    BY <2>1, <1>1, AlignedEight
  <2>3. size \in Nat
    BY <1>2, SizeTAssumption
  <2> QED BY <2>1, <2>2, <2>3, <1>1, <1>4, <1>5
<1>7. m2 = memcpy(n.mem, n.bp, b, sz2[b] - WSIZE) /\ h2.mem = m2 /\ h2.brk = n.brk
  BY <1>5
<1> HIDE DEF m2
<1>8. Copies(n.mem, n.brk, B2, sz2, F2, n.bp, b, m2)
  BY <1>4, <1>5, <1>6, <1>7 DEF Copies
<1>9. /\ Heap(m2, n.brk, B2, sz2, F2, F2) /\ Kept(n.mem, m2, B2 \ {n.bp}, sz2)
      /\ \A o \in Nat : o % 4 = 0 /\ o < sz2[b] - 8 => m2[n.bp + o] = n.mem[b + o]
  <2>1. Copied(n.mem, n.brk, B2, sz2, F2, n.bp, b, m2)
    BY <1>8, CopyStep
  <2> QED BY <2>1 DEF Copied
<1>10. Freeable(h2, B2, sz2, F2, b)
  BY <1>1, <1>5, <1>7, <1>9 DEF Freeable, Valid
<1>11. f = mm_free(h2, b)
  OBVIOUS
<1> HIDE DEF f
<1>12. Frees(h2, B2, sz2, F2, b, f)
  BY <1>10, <1>11, FreeIs
<1>13. f.brk = n.brk /\ r.mem = f.mem /\ r.brk = f.brk /\ r.bp = n.bp
  <2>1. r = [f EXCEPT !.bp = n.bp] /\ f = Result(f.mem, f.brk, f.bp)
    BY DEF f, mm_free, Result
  <2>2. f.brk = n.brk
    BY <1>7, <1>12 DEF Frees
  <2> QED BY <2>1, <2>2 DEF Result
<1>14. PICK B4, sz4, F4 :
        /\ Valid(f.mem, f.brk, B4, sz4, F4)
        /\ B4 \ F4 = (B2 \ F2) \ {b}
        /\ \A c \in (B2 \ F2) \ {b} : sz4[c] = sz2[c]
        /\ Kept(m2, f.mem, (B2 \ F2) \ {b}, sz2)
  BY <1>7, <1>12 DEF Frees
<1>15. /\ B4 \ F4 = A \cup {n.bp} /\ n.bp \in B4 \ F4 /\ n.bp \notin A
       /\ n.bp \in (B2 \ F2) \ {b}
       /\ A \subseteq B \ F /\ A \subseteq B2 \ {n.bp} /\ A \subseteq (B2 \ F2) \ {b}
       /\ \A c \in A : sz2[c] = sz[c] /\ sz4[c] = sz[c]
       /\ sz4[n.bp] = sz2[n.bp]
  BY <1>1, <1>4, <1>5, <1>14
<1> HIDE DEF A
<1>16. Kept(h.mem, f.mem, A, sz)
  <2>1. Kept(h.mem, m2, A, sz)
    <3>1. \A c \in A : sz[c] = sz[c] /\ sz2[c] = sz[c]
      BY <1>15
    <3> QED BY <3>1, <1>4, <1>9, <1>15, KeptTrans
  <2>2. \A c \in A : sz[c] = sz[c] /\ sz2[c] = sz[c] /\ A \subseteq A
    BY <1>15
  <2> QED BY <2>1, <2>2, <1>14, <1>15, KeptTrans
<1>17. ASSUME NEW o \in Nat, o % 4 = 0, o < sz[b] - 8
       PROVE  f.mem[n.bp + o] = h.mem[b + o]
  <2>1. /\ b + o \in Words /\ b <= b + o /\ b + o < b + sz[b] - 8
    BY <1>1, <1>17, PayloadWords
  <2>2. n.mem[b + o] = h.mem[b + o]
    BY <2>1, <1>1, <1>4 DEF Kept
  <2>3. m2[n.bp + o] = n.mem[b + o]
    BY <1>5, <1>9, <1>17
  <2>4. o < sz2[n.bp] - 8
    BY <1>1, <1>5, <1>6, <1>17
  <2>5. n.bp + o \in Words /\ n.bp <= n.bp + o /\ n.bp + o < n.bp + sz2[n.bp] - 8
    BY <2>4, <1>4, <1>5, <1>17, PayloadWords
  <2>6. f.mem[n.bp + o] = m2[n.bp + o]
    BY <2>5, <1>14, <1>15 DEF Kept
  <2> QED BY <2>2, <2>3, <2>6
<1>18. r.brk >= h.brk
  BY <1>3, <1>13
<1>19. /\ Valid(r.mem, r.brk, B4, sz4, F4)
       /\ r.bp \in B4 \ F4 /\ r.bp \notin (B \ F) \ {b} /\ r.bp \notin {Prologue, Sentinel}
       /\ B4 \ F4 = ((B \ F) \ {b}) \cup {r.bp}
       /\ sz4[r.bp] >= size + 8 /\ sz4[r.bp] >= sz[b]
       /\ \A c \in (B \ F) \ {b} : sz4[c] = sz[c]
       /\ Kept(h.mem, r.mem, (B \ F) \ {b}, sz)
  <2>1. sz4[n.bp] >= size + 8 /\ sz4[n.bp] >= sz[b]
    BY <1>1, <1>5, <1>6, <1>15
  <2> QED BY <2>1, <1>4, <1>13, <1>14, <1>15, <1>16 DEF A
<1>20. \A o \in Nat : o % 4 = 0 /\ o < sz[b] - 8 => r.mem[r.bp + o] = h.mem[b + o]
  BY <1>13, <1>17
<1> QED BY <1>18, <1>19, <1>20 DEF Moves

(* mm_realloc: the block is moved, or mm_realloc crashes or writes past    *)
(* the memory.                                                             *)
LEMMA ReallocIs ==
    ASSUME NEW h, NEW B, NEW sz, NEW F, NEW b, NEW size, Resizable(h, B, sz, F, b, size),
           NEW r, r = mm_realloc(h, b, size)
    PROVE  \/ r.bp = NULL
           \/ IsMemory(r.mem) /\ ~(NEXT(r.mem, r.bp) <= r.brk) /\ Kept(h.mem, r.mem, B, sz)
           \/ Moves(h, B, sz, F, b, r, size)
<1> DEFINE full == ALIGN_TO_FULLBLK(size)
           old  == GET_BLK_SIZE(h.mem, b)
           g    == extend_heap(h, full - sz[b])
           n    == mm_malloc(h, size)
           h2   == [mem |-> memcpy(n.mem, n.bp, b, sz[b] - WSIZE), brk |-> n.brk]
<1>1. /\ old = sz[b] /\ FTRP(h.mem, b) = b + sz[b] - 8 /\ sz[b] \in Nat
      /\ b \in Nat /\ h.brk \in Nat
  BY ResizeFacts
<1>2. full \in Nat
  <2>1. size \in 1..SizeT - 16
    BY DEF Resizable
  <2> QED BY <2>1, FullIs
<1>3. r = CASE full <= sz[b] -> Result(h.mem, h.brk, b)
            [] full > sz[b] /\ b + sz[b] - 8 = h.brk - 8 ->
                   Result(SET_BOUNDARY(g.mem, b, full, 1), g.brk, b)
            [] OTHER ->
                   IF n.bp = NULL THEN n ELSE [mm_free(h2, b) EXCEPT !.bp = n.bp]
  BY <1>1 DEF mm_realloc
<1> HIDE DEF old, h2
<1>4. CASE full <= sz[b]
  <2>1. r = Result(h.mem, h.brk, b)
    <3>1. ~(full > sz[b])
      BY <1>1, <1>2, <1>4
    <3> QED BY <3>1, <1>3, <1>4
  <2> QED BY <2>1, <1>4, ReallocKeeps
<1>5. CASE full > sz[b] /\ b + sz[b] - 8 = h.brk - 8
  <2>1. r = Result(SET_BOUNDARY(g.mem, b, full, 1), g.brk, b)
    <3>1. ~(full <= sz[b])
      BY <1>1, <1>2, <1>5
    <3> QED BY <3>1, <1>3, <1>5
  <2>2. b + sz[b] = h.brk
    BY <1>1, <1>5
  <2>3. CASE SbrkFails(h, full - sz[b])
    BY <2>1, <2>2, <2>3, <1>5, ReallocOverruns
  <2>4. CASE ~SbrkFails(h, full - sz[b])
    BY <2>1, <2>2, <2>4, <1>5, ReallocGrows
  <2> QED BY <2>3, <2>4
<1>6. CASE full > sz[b] /\ ~(b + sz[b] - 8 = h.brk - 8)
  <2>1. r = IF n.bp = NULL THEN n ELSE [mm_free(h2, b) EXCEPT !.bp = n.bp]
    <3>1. ~(full <= sz[b])
      BY <1>1, <1>2, <1>6
    <3> QED BY <3>1, <1>3, <1>6
  <2>2. CASE n.bp = NULL
    BY <2>1, <2>2
  <2>3. CASE n.bp # NULL
    <3>1. h2 = [mem |-> memcpy(n.mem, n.bp, b, sz[b] - WSIZE), brk |-> n.brk] /\ n = mm_malloc(h, size)
      BY DEF h2
    <3>2. r = [mm_free(h2, b) EXCEPT !.bp = n.bp]
      BY <2>1, <2>3
    <3> HIDE DEF n
    <3> QED BY <3>1, <3>2, <2>3, <1>6, ReallocMoves
  <2> QED BY <2>2, <2>3
<1> QED BY <1>1, <1>2, <1>4, <1>5, <1>6

-----------------------------------------------------------------------------
(* mm_init.                                                                *)

(* The words that mm_init writes.                                          *)
LEMMA FirstWords ==
    /\ Prologue - 4 \in Words /\ Prologue \in Words
    /\ First - 4 \in Words /\ First \in Words /\ First + 4 \in Words
    /\ First + 40 \in Words /\ First + 44 \in Words
    /\ Sentinel - 4 \in Words /\ Sentinel \in Words /\ Sentinel + 4 \in Words
    /\ First = Prologue + 8 /\ Sentinel = Prologue + 56 /\ Prologue \in Nat
<1> DEFINE p == Prologue
<1>1. /\ HeapLo \in Nat /\ p = HeapLo + 48 /\ First = p + 8 /\ Sentinel = p + 56 /\ p \in Nat
      /\ Aligned(p) /\ MaxAddr \in Nat /\ MaxAddr >= p + 64
  BY Places
<1> HIDE DEF p
<1>2. ASSUME NEW d, d \in {0 - 8, 0, 8, 48, 56} PROVE p + d \in Words /\ (p + d) + 4 \in Words
  <2>1. Aligned(p + d) /\ HeapLo <= p + d /\ p + d < MaxAddr
    BY <1>1, <1>2 DEF Aligned
  <2> DEFINE x == p + d
  <2> HIDE DEF x
  <2>2. Aligned(x) /\ HeapLo <= x /\ x < MaxAddr
    BY <2>1 DEF x
  <2>3. x \in Words /\ x + 4 \in Words
    BY <2>2, AlignedWords
  <2> QED BY <2>3 DEF x
<1>3. /\ (p + (0 - 8)) + 4 = p - 4 /\ p + 0 = p /\ (p + 0) + 4 = (p + 8) - 4
      /\ (p + 8) + 40 = p + 48 /\ (p + 8) + 44 = (p + 48) + 4 /\ (p + 56) - 4 = (p + 48) + 4
  BY <1>1
<1>4. /\ p - 4 \in Words /\ p \in Words /\ p + 8 \in Words /\ (p + 8) + 4 \in Words
      /\ (p + 8) - 4 \in Words /\ (p + 8) + 40 \in Words /\ (p + 8) + 44 \in Words
      /\ p + 56 \in Words /\ (p + 56) - 4 \in Words /\ (p + 56) + 4 \in Words
  BY <1>2, <1>3
<1> QED BY <1>1, <1>4 DEF p

(* A heap with one free block, between the prologue and an allocated one.  *)
FirstHeap(m, list) ==
    /\ IsMemory(m)
    /\ list = get_list(48)
    /\ m[Prologue - 4] = 9 /\ m[Prologue] = 9
    /\ m[First - 4] = 48 /\ m[First + 40] = 48
    /\ m[Sentinel - 4] = 9 /\ m[Sentinel] = 9
    /\ m[Sentinel + 4] = 1
    /\ m[First] = NULL /\ m[First + 4] = list /\ m[list] = First
    /\ \A x \in Heads \ {list} : m[x] = NULL

(* That heap has a free block of 48 bytes and the sentinel.                *)
LEMMA FirstValid ==
    ASSUME NEW m, NEW list, FirstHeap(m, list)
    PROVE  \E B, sz, F : Valid(m, Sentinel + 8, B, sz, F) /\ B \ F = {Prologue, Sentinel}
<1> DEFINE p  == Prologue
           f  == First
           s  == Sentinel
           e  == s + 8
           B  == {p, f, s}
           F  == {f}
           sz == [x \in Nat |-> IF x = f THEN 48 ELSE 8]
<1>1. /\ p \in Nat /\ f = p + 8 /\ s = p + 56 /\ e = p + 64 /\ e <= MaxAddr
      /\ Aligned(p) /\ Aligned(f) /\ Aligned(s) /\ p > 0
  BY Places
<1>2. sz \in [Nat -> Nat] /\ sz[p] = 8 /\ sz[f] = 48 /\ sz[s] = 8
  BY <1>1
<1>3. Aligned(8) /\ Aligned(48)
  BY AlignedEight
<1> HIDE DEF p, f, s, e, sz
<1>4. Layout(B, sz, e)
  <2>1. \A b \in B :
         /\ b \in Nat /\ Aligned(b) /\ Aligned(sz[b]) /\ b >= p
         /\ sz[b] >= 16 \/ b \in {p, s}
         /\ b + sz[b] \in B \cup {e}
         /\ b + sz[b] <= e
    <3>1. p + 8 = f /\ f + 48 = s /\ s + 8 = e
      BY <1>1
    <3> QED BY <3>1, <1>1, <1>2, <1>3
  <2>2. \A b \in B : b # p => \E c \in B : c + sz[c] = b
    <3>1. p + sz[p] = f /\ f + sz[f] = s
      BY <1>1, <1>2
    <3> QED BY <3>1
  <2>3. \E c \in B : c + sz[c] = e
    <3>1. s + sz[s] = e
      BY <1>1, <1>2
    <3> QED BY <3>1
  <2>4. \A b, c \in B : b < c => b + sz[b] <= c
    BY <1>1, <1>2
  <2> QED BY <2>1, <2>2, <2>3, <2>4, <1>1, <1>2 DEF Layout, p, s
<1>5. /\ IsMemory(m) /\ list = get_list(48)
      /\ m[p - 4] = 9 /\ m[p] = 9 /\ m[f - 4] = 48 /\ m[f + 40] = 48
      /\ m[s - 4] = 9 /\ m[s] = 9 /\ m[e - 4] = 1
      /\ m[f] = NULL /\ m[f + 4] = list /\ m[list] = f
      /\ \A x \in Heads \ {list} : m[x] = NULL
  <2>1. e - 4 = s + 4
    BY <1>1
  <2> QED BY <2>1 DEF FirstHeap, p, f, s
<1>6. Tags(m, e, B, sz, F)
  <2>1. /\ p + sz[p] - 8 = p /\ f + sz[f] - 8 = f + 40 /\ s + sz[s] - 8 = s
    BY <1>1, <1>2
  <2>2. Tag(p, sz, F) = 9 /\ Tag(f, sz, F) = 48 /\ Tag(s, sz, F) = 9
    BY <1>1, <1>2 DEF Tag
  <2> QED BY <2>1, <2>2, <1>5 DEF Tags
<1>7. list \in Heads /\ f \notin Heads
  <2>1. list \in Heads
    BY <1>5, GetList
  <2>2. \A x \in Heads : x \in Nat /\ x <= p - 8
    BY HeadsAre DEF p
  <2> QED BY <2>1, <2>2, <1>1
<1>8. Links(m, F, sz)
  <2>1. Class(sz, f) = list /\ Class(sz, list) = list
    BY <1>2, <1>5, <1>7 DEF Class
  <2>2. \A x \in F \cup Heads : m[x] # NULL => m[x] \in F /\ m[m[x] + 4] = x /\ Class(sz, m[x]) = Class(sz, x)
    BY <2>1, <1>5, <1>7
  <2>3. \A b \in F : m[b + 4] \in F \cup Heads /\ m[m[b + 4]] = b
    BY <1>5, <1>7
  <2>4. \E rank \in [Nat -> Nat] : \A x \in F \cup Heads : m[x] # NULL => rank[x] < rank[m[x]]
    <3> DEFINE rank == [x \in Nat |-> IF x = f THEN 1 ELSE 0]
    <3>1. rank \in [Nat -> Nat] /\ rank[f] = 1 /\ \A x \in Heads : rank[x] = 0
      BY <1>1, <1>7, HeadsAre
    <3> HIDE DEF rank
    <3>2. \A x \in F \cup Heads : m[x] # NULL => m[x] = f /\ x \in Heads
      BY <1>5, <1>7
    <3>3. \A x \in F \cup Heads : m[x] # NULL => rank[x] < rank[m[x]]
      BY <3>1, <3>2
    <3> QED BY <3>1, <3>3
  <2> QED BY <2>2, <2>3, <2>4 DEF Links
<1>9. NoNeighbours(sz, F, {})
  <2>1. f + sz[f] # f
    BY <1>1, <1>2
  <2> QED BY <2>1 DEF NoNeighbours
<1>10. F \subseteq B \ {Prologue, Sentinel} /\ B \ F = {Prologue, Sentinel}
  BY <1>1 DEF p, s
<1> HIDE DEF B, F
<1>11. Valid(m, e, B, sz, F)
  BY <1>4, <1>5, <1>6, <1>8, <1>9, <1>10 DEF Valid, Heap
<1> QED BY <1>10, <1>11 DEF e, s

(* mm_init makes that heap, whatever the memory holds.                     *)
LEMMA InitIs ==
    ASSUME NEW m, IsMemory(m)
    PROVE  /\ mm_init(m).brk = Sentinel + 8
           /\ \E list : FirstHeap(mm_init(m).mem, list)
<1> DEFINE m0 == [a \in Words |-> IF a \in List(0)..List(LIST_NUM - 1) THEN NULL ELSE m[a]]
           m1 == [m0 EXCEPT ![List(11)] = PACK(8, 1), ![List(12)] = PACK(8, 1), ![List(13)] = PACK(0, 1)]
           m2 == ExtendedMem(m1, First, 48)
           m3 == attach_block(m2, First)
           m4 == ExtendedMem(m3, Sentinel, 8)
           m5 == SET_ALLOC(m4, Sentinel)
           list == get_list(48)
           p  == Prologue
           f  == First
           s  == Sentinel
<1>1. /\ p - 4 \in Words /\ p \in Words /\ f - 4 \in Words /\ f \in Words /\ f + 4 \in Words
      /\ f + 40 \in Words /\ f + 44 \in Words
      /\ s - 4 \in Words /\ s \in Words /\ s + 4 \in Words
      /\ f = p + 8 /\ s = p + 56 /\ p \in Nat /\ f = List(14)
      /\ List(11) = p - 4 /\ List(12) = p /\ List(13) = f - 4 /\ List(0) = p - 48 /\ List(10) = p - 8
  BY FirstWords, Places DEF First
<1>2. p \in Nat /\ f \in Nat /\ s \in Nat /\ Sentinel + 8 <= MaxAddr
  BY <1>1, Places
<1>3. list \in Heads /\ list \in Words /\ list \in Nat /\ list <= p - 8 /\ list >= p - 48
      /\ \A x \in Heads : x \in Words /\ x \in Nat /\ x <= p - 8 /\ x >= p - 48
  <2>1. list \in Heads
    BY GetList
  <2>2. \A x \in Heads : x \in Words /\ x \in Nat /\ x <= p - 8 /\ x >= p - 48
    BY HeadsAre, Places
  <2> QED BY <2>1, <2>2
<1> HIDE DEF list, p, f, s, m1
<1>4. IsMemory(m1) /\ m1[p - 4] = 9 /\ m1[p] = 9 /\ \A x \in Heads : m1[x] = NULL
  <2>1. IsMemory(m0)
    BY DEF IsMemory
  <2>2. \A x \in Heads : m0[x] = NULL
    <3>1. \A x \in Heads : x \in List(0)..List(10)
      BY <1>1, <1>3
    <3> QED BY <3>1, <1>3 DEF LIST_NUM
  <2> HIDE DEF m0
  <2> DEFINE x == p - 4
             y == f - 4
  <2>3. m1 = [m0 EXCEPT ![x] = 9, ![p] = 9, ![y] = 1]
    <3>1. PACK(8, 1) = 9 /\ PACK(0, 1) = 1
      BY DEF PACK
    <3>2. List(11) = x /\ List(12) = p /\ List(13) = y
      BY <1>1
    <3> HIDE DEF x, y, m0
    <3> QED BY <3>1, <3>2 DEF m1
  <2>4. x # p /\ x # y /\ p # y /\ x \in Words /\ y \in Words /\ p \in Words
    BY <1>1
  <2>5. \A z \in Heads : z \in Words /\ z # x /\ z # p /\ z # y
    BY <1>1, <1>3
  <2> HIDE DEF x, y
  <2>6. m1 = [a \in Words |-> IF a = y THEN 1 ELSE IF a = p THEN 9 ELSE IF a = x THEN 9 ELSE m0[a]]
    <3>1. m0 = [a \in Words |-> m0[a]]
      BY <2>1 DEF IsMemory
    <3>2. [m0 EXCEPT ![x] = 9] = [a \in Words |-> IF a = x THEN 9 ELSE m0[a]]
      BY <3>1
    <3>3. [[m0 EXCEPT ![x] = 9] EXCEPT ![p] = 9] =
              [a \in Words |-> IF a = p THEN 9 ELSE IF a = x THEN 9 ELSE m0[a]]
      BY <3>2
    <3>4. [[[m0 EXCEPT ![x] = 9] EXCEPT ![p] = 9] EXCEPT ![y] = 1] =
              [a \in Words |-> IF a = y THEN 1 ELSE IF a = p THEN 9 ELSE IF a = x THEN 9 ELSE m0[a]]
      BY <3>3
    <3> QED BY <3>4, <2>3
  <2>7. IsMemory(m1)
    BY <2>6 DEF IsMemory
  <2>8. m1[x] = 9 /\ m1[p] = 9 /\ \A z \in Heads : m1[z] = m0[z]
    BY <2>4, <2>5, <2>6
  <2> QED BY <2>2, <2>7, <2>8 DEF x
<1>5. /\ IsMemory(m2)
      /\ \A a \in Words : m2[a] = IF a = s - 4 THEN 1
                                  ELSE IF a = f - 4 \/ a = f + 40 THEN 48 ELSE m1[a]
  <2>1. m2 = ExtendedMem(m1, f, 48)
    BY DEF f
  <2>2. s = f + 48 /\ f + 48 - 8 = f + 40
    BY <1>1
  <2>3. f - 4 \in Words /\ f + 48 - 8 \in Words /\ s - 4 \in Words /\ 48 \in Nat
    BY <1>1, <2>2
  <2> HIDE DEF m2
  <2>4. /\ IsMemory(m2)
        /\ \A a \in Words : m2[a] = IF a = s - 4 THEN 1
                                    ELSE IF a = f - 4 \/ a = f + 48 - 8 THEN 48 + 0 ELSE m1[a]
    BY <2>1, <2>2, <2>3, <1>2, <1>4, ExtendWrites
  <2> QED BY <2>2, <2>4
<1> HIDE DEF m2
<1>6. /\ m2[p - 4] = 9 /\ m2[p] = 9 /\ \A x \in Heads : m2[x] = NULL
      /\ m2[f - 4] = 48 /\ m2[f + 40] = 48
  <2>1. /\ p - 4 # s - 4 /\ p - 4 # f - 4 /\ p - 4 # f + 40
        /\ p # s - 4 /\ p # f - 4 /\ p # f + 40
        /\ f - 4 # s - 4 /\ f + 40 # s - 4
        /\ \A x \in Heads : x # s - 4 /\ x # f - 4 /\ x # f + 40
    BY <1>1, <1>3
  <2> QED BY <2>1, <1>1, <1>3, <1>4, <1>5
<1>7. /\ IsMemory(m3)
      /\ \A a \in Words : m3[a] = IF a = f THEN NULL ELSE IF a = f + 4 THEN list
                                  ELSE IF a = list THEN f ELSE m2[a]
  <2>1. GET_BLK_SIZE(m2, f) = 48
    BY <1>6, TagParts, AlignedEight DEF GET_BLK_SIZE, WSIZE
  <2>2. list = get_list(GET_BLK_SIZE(m2, f))
    BY <2>1 DEF list
  <2>3. list # f /\ list # f + 4 /\ f # f + 4
    BY <1>1, <1>3
  <2>4. m2[list] = NULL
    BY <1>3, <1>6
  <2>5. m3 = attach_block(m2, f)
    BY DEF f
  <2> HIDE DEF m3
  <2>6. /\ IsMemory(attach_block(m2, f))
        /\ \A a \in Words :
             attach_block(m2, f)[a] = IF m2[list] # NULL /\ a = m2[list] + 4 THEN f
                                     ELSE IF a = f THEN m2[list] ELSE IF a = f + 4 THEN list
                                     ELSE IF a = list THEN f ELSE m2[a]
    BY <2>2, <2>3, <2>4, <1>1, <1>3, <1>5, AttachWrites
  <2> QED BY <2>4, <2>5, <2>6
<1> HIDE DEF m3
<1>8. /\ IsMemory(m4)
      /\ \A a \in Words : m4[a] = IF a = s + 4 THEN 1
                                  ELSE IF a = s - 4 \/ a = s THEN 8 ELSE m3[a]
  <2> DEFINE e == s + 8
  <2>1. m4 = ExtendedMem(m3, s, 8)
    BY DEF s
  <2>2. e = s + 8 /\ s + 8 - 8 = s /\ e - 4 = s + 4
    BY <1>2
  <2>3. s - 4 \in Words /\ s + 8 - 8 \in Words /\ e - 4 \in Words /\ 8 \in Nat
    BY <1>1, <2>2
  <2> HIDE DEF m4, e
  <2>4. /\ IsMemory(m4)
        /\ \A a \in Words : m4[a] = IF a = e - 4 THEN 1
                                    ELSE IF a = s - 4 \/ a = s + 8 - 8 THEN 8 + 0 ELSE m3[a]
    BY <2>1, <2>2, <2>3, <1>2, <1>7, ExtendWrites
  <2> QED BY <2>2, <2>4
<1> HIDE DEF m4
<1>9. /\ IsMemory(m5)
      /\ \A a \in Words : m5[a] = IF a = s - 4 \/ a = s THEN 9 ELSE m4[a]
  <2>1. m4[s - 4] = 8
    <3>1. s - 4 # s + 4
      BY <1>1
    <3> QED BY <3>1, <1>1, <1>8
  <2>2. GET_BLK_SIZE(m4, s) = 8
    BY <2>1, TagParts, AlignedEight DEF GET_BLK_SIZE, WSIZE
  <2>3. m5 = SET_BOUNDARY(m4, s, 8, 1)
    BY <2>2 DEF SET_ALLOC, s
  <2>4. s + 8 - 8 = s
    BY <1>2
  <2>5. s - 4 \in Words /\ s + 8 - 8 \in Words
    BY <2>4, <1>1
  <2> HIDE DEF m5
  <2>6. /\ IsMemory(SET_BOUNDARY(m4, s, 8, 1))
        /\ \A a \in Words : SET_BOUNDARY(m4, s, 8, 1)[a] = IF a = s - 4 \/ a = s + 8 - 8 THEN 8 + 1 ELSE m4[a]
    BY <2>5, <1>8, BoundaryWrites
  <2> QED BY <2>3, <2>4, <2>6
<1> HIDE DEF m5
<1>10. ASSUME NEW a \in Words, a # s - 4, a # s, a # s + 4 PROVE m5[a] = m3[a]
  BY <1>8, <1>9, <1>10
<1>11. FirstHeap(m5, list)
  <2>1. m5[s - 4] = 9 /\ m5[s] = 9 /\ m5[s + 4] = 1
    <3>1. s + 4 # s - 4 /\ s + 4 # s
      BY <1>2
    <3> QED BY <3>1, <1>1, <1>8, <1>9
  <2>2. m5[p - 4] = 9 /\ m5[p] = 9 /\ m5[f - 4] = 48 /\ m5[f + 40] = 48
    <3>1. ASSUME NEW a \in {p - 4, p, f - 4, f + 40} PROVE m5[a] = m2[a]
      <4>1. a # s - 4 /\ a # s /\ a # s + 4 /\ a # f /\ a # f + 4 /\ a # list /\ a \in Words
        BY <1>1, <1>3
      <4> QED BY <4>1, <1>7, <1>10
    <3> QED BY <3>1, <1>6
  <2>3. m5[f] = NULL /\ m5[f + 4] = list /\ m5[list] = f
    <3>1. ASSUME NEW a \in {f, f + 4, list} PROVE m5[a] = m3[a]
      <4>1. a # s - 4 /\ a # s /\ a # s + 4 /\ a \in Words
        BY <1>1, <1>3
      <4> QED BY <4>1, <1>10
    <3>2. f + 4 # f /\ list # f /\ list # f + 4
      BY <1>1, <1>3
    <3> QED BY <3>1, <3>2, <1>1, <1>3, <1>7
  <2>4. ASSUME NEW a \in Heads \ {list} PROVE m5[a] = NULL
    <3>1. a # s - 4 /\ a # s /\ a # s + 4 /\ a # f /\ a # f + 4 /\ a # list /\ a \in Words
      BY <1>1, <1>3
    <3> QED BY <3>1, <1>6, <1>7, <1>10
  <2> QED BY <2>1, <2>2, <2>3, <2>4, <1>9 DEF FirstHeap, list, p, f, s
<1>12. mm_init(m).mem = m5 /\ mm_init(m).brk = Sentinel + 8
  <2> DEFINE g1 == [mem |-> m1, brk |-> List(14)]
             h1 == extend_heap(g1, 48)
             g2 == [mem |-> attach_block(h1.mem, h1.bp), brk |-> h1.brk]
             h2 == extend_heap(g2, 8)
  <2>1. h1 = Result(m2, Sentinel, First)
    <3>1. ~SbrkFails(g1, 48)
      <4>1. List(14) + 48 <= MaxAddr
        BY <1>1, <1>2, Places
      <4> QED BY <4>1, <1>1, <1>2, Places DEF SbrkFails, s, f
    <3>2. List(14) = First /\ First + 48 = Sentinel
      BY Places DEF First
    <3> QED BY <3>1, <3>2 DEF extend_heap, ExtendedMem, m2
  <2>2. g2 = [mem |-> m3, brk |-> Sentinel]
    BY <2>1 DEF Result, m3
  <2> HIDE DEF g2
  <2>3. h2 = Result(m4, Sentinel + 8, Sentinel)
    <3>1. ~SbrkFails(g2, 8)
      BY <2>2, <1>2, Places DEF SbrkFails, s
    <3> QED BY <3>1, <2>2 DEF extend_heap, ExtendedMem, m4
  <2> HIDE DEF h2
  <2>4. mm_init(m) = Result(SET_ALLOC(h2.mem, h2.bp), h2.brk, NULL)
    BY DEF mm_init, h2, g2, m1, m0
  <2> QED BY <2>3, <2>4 DEF Result, m5
<1> QED BY <1>11, <1>12

-----------------------------------------------------------------------------
(* The blocks of the trace, and the inductive invariant.                   *)

(* The allocated blocks A, without the prologue and the sentinel, are      *)
(* those of the ids I, each large enough.                                  *)
Held(A, sz, bl, I) ==
    /\ \A i \in I : bl[i] # NoBlock =>
         /\ bl[i].lo \in A \ {Prologue, Sentinel}
         /\ bl[i].size \in Sizes /\ sz[bl[i].lo] >= bl[i].size + 8
    /\ \A b \in A \ {Prologue, Sentinel} : \E i \in I : bl[i] # NoBlock /\ bl[i].lo = b
    /\ \A i, j \in I : bl[i] # NoBlock /\ bl[j] # NoBlock /\ bl[i].lo = bl[j].lo => i = j

(* The inductive invariant.                                                *)
HeapInductive ==
    /\ IsMemory(mem)
    /\ block \in [Ids -> [lo : Nat, size : Nat]]
    /\ status = "ok" =>
         \E B, sz, F : Valid(mem, brk, B, sz, F) /\ Held(B \ F, sz, block, Ids)

(* The id i, which held none of the blocks A, takes the block n.           *)
Takes(A, sz, bl, i, n, size, A2, sz2, bl2) ==
    /\ bl \in [Ids -> [lo : Nat, size : Nat]] /\ i \in Ids
    /\ Held(A, sz, bl, Ids \ {i})
    /\ \A c \in A : sz2[c] = sz[c]
    /\ n \in Nat /\ n \notin A /\ n \notin {Prologue, Sentinel} /\ A2 = A \cup {n}
    /\ size \in Sizes /\ sz2[n] >= size + 8
    /\ bl2 = [bl EXCEPT ![i] = [lo |-> n, size |-> size]]

(* Then the ids hold A and n.                                              *)
LEMMA HeldTakes ==
    ASSUME NEW A, NEW sz, NEW bl, NEW i, NEW n, NEW size, NEW A2, NEW sz2, NEW bl2,
           Takes(A, sz, bl, i, n, size, A2, sz2, bl2)
    PROVE  Held(A2, sz2, bl2, Ids)
<1>1. /\ bl \in [Ids -> [lo : Nat, size : Nat]] /\ i \in Ids
      /\ \A c \in A : sz2[c] = sz[c]
      /\ n \in Nat /\ n \notin A /\ n \notin {Prologue, Sentinel} /\ A2 = A \cup {n}
      /\ size \in Sizes /\ sz2[n] >= size + 8
  BY DEF Takes
<1>2. bl2[i].lo = n /\ bl2[i].size = size /\ bl2[i] # NoBlock /\ \A j \in Ids \ {i} : bl2[j] = bl[j]
  <2>1. bl2 = [bl EXCEPT ![i] = [lo |-> n, size |-> size]]
    BY DEF Takes
  <2>2. size # 0
    BY <1>1, SizesAssumption, SizeTAssumption
  <2>3. bl2[i] = [lo |-> n, size |-> size] /\ \A j \in Ids \ {i} : bl2[j] = bl[j]
    BY <2>1, <1>1
  <2> QED BY <2>2, <2>3 DEF NoBlock
<1>3. \A j \in Ids \ {i} : bl[j] # NoBlock =>
         /\ bl[j].lo \in A \ {Prologue, Sentinel}
         /\ bl[j].size \in Sizes /\ sz[bl[j].lo] >= bl[j].size + 8
  BY DEF Takes, Held
<1>4. \A b \in A \ {Prologue, Sentinel} : \E j \in Ids \ {i} : bl[j] # NoBlock /\ bl[j].lo = b
  BY DEF Takes, Held
<1>5. \A j, k \in Ids \ {i} : bl[j] # NoBlock /\ bl[k] # NoBlock /\ bl[j].lo = bl[k].lo => j = k
  BY DEF Takes, Held
<1>6. \A j \in Ids : bl2[j] # NoBlock =>
         /\ bl2[j].lo \in A2 \ {Prologue, Sentinel}
         /\ bl2[j].size \in Sizes /\ sz2[bl2[j].lo] >= bl2[j].size + 8
  <2> SUFFICES ASSUME NEW j \in Ids, bl2[j] # NoBlock
               PROVE  /\ bl2[j].lo \in A2 \ {Prologue, Sentinel}
                      /\ bl2[j].size \in Sizes /\ sz2[bl2[j].lo] >= bl2[j].size + 8
    OBVIOUS
  <2>1. CASE j = i
    BY <2>1, <1>1, <1>2
  <2>2. CASE j # i
    <3>1. bl2[j] = bl[j] /\ bl[j] # NoBlock
      BY <2>2, <1>2
    <3> QED BY <3>1, <2>2, <1>1, <1>3
  <2> QED BY <2>1, <2>2
<1>7. \A b \in A2 \ {Prologue, Sentinel} : \E j \in Ids : bl2[j] # NoBlock /\ bl2[j].lo = b
  <2> SUFFICES ASSUME NEW b \in A2 \ {Prologue, Sentinel}
               PROVE  \E j \in Ids : bl2[j] # NoBlock /\ bl2[j].lo = b
    OBVIOUS
  <2>1. CASE b = n
    BY <2>1, <1>1, <1>2
  <2>2. CASE b # n
    <3>1. PICK j \in Ids \ {i} : bl[j] # NoBlock /\ bl[j].lo = b
      BY <2>2, <1>1, <1>4
    <3> QED BY <3>1, <1>2
  <2> QED BY <2>1, <2>2
<1>8. \A j, k \in Ids : bl2[j] # NoBlock /\ bl2[k] # NoBlock /\ bl2[j].lo = bl2[k].lo => j = k
  <2> SUFFICES ASSUME NEW j \in Ids, NEW k \in Ids, bl2[j] # NoBlock, bl2[k] # NoBlock, bl2[j].lo = bl2[k].lo
               PROVE  j = k
    OBVIOUS
  <2>1. \A x \in Ids \ {i} : bl2[x] # NoBlock => bl2[x].lo # n
    BY <1>1, <1>2, <1>3
  <2>2. CASE j # i /\ k # i
    BY <2>2, <1>2, <1>5
  <2>3. CASE j = i \/ k = i
    BY <2>1, <2>3, <1>2
  <2> QED BY <2>2, <2>3
<1> QED BY <1>6, <1>7, <1>8 DEF Held

(* An id that holds no block, or the block of one.                         *)
LEMMA HeldOthers ==
    ASSUME NEW A, NEW sz, NEW bl, NEW i \in Ids, Held(A, sz, bl, Ids), bl[i] = NoBlock
    PROVE  Held(A, sz, bl, Ids \ {i})
<1>1. \A b \in A \ {Prologue, Sentinel} : \E j \in Ids \ {i} : bl[j] # NoBlock /\ bl[j].lo = b
  BY DEF Held
<1> QED BY <1>1 DEF Held

(* The block of the id i is taken from A.                                  *)
Drops(A, sz, bl, i, A2) ==
    i \in Ids /\ Held(A, sz, bl, Ids) /\ bl[i] # NoBlock /\ A2 = A \ {bl[i].lo}

(* Then the other ids hold the rest.                                       *)
LEMMA HeldDrops ==
    ASSUME NEW A, NEW sz, NEW bl, NEW i, NEW A2, Drops(A, sz, bl, i, A2)
    PROVE  Held(A2, sz, bl, Ids \ {i})
<1>1. \A j \in Ids \ {i} : bl[j] # NoBlock => bl[j].lo # bl[i].lo
  BY DEF Drops, Held
<1>2. \A b \in A2 \ {Prologue, Sentinel} : \E j \in Ids \ {i} : bl[j] # NoBlock /\ bl[j].lo = b
  BY DEF Drops, Held
<1>3. \A j \in Ids \ {i} : bl[j] # NoBlock =>
         /\ bl[j].lo \in A2 \ {Prologue, Sentinel}
         /\ bl[j].size \in Sizes /\ sz[bl[j].lo] >= bl[j].size + 8
  BY <1>1 DEF Drops, Held
<1>4. \A j, k \in Ids \ {i} : bl[j] # NoBlock /\ bl[k] # NoBlock /\ bl[j].lo = bl[k].lo => j = k
  BY DEF Drops, Held
<1> QED BY <1>2, <1>3, <1>4 DEF Held

(* The id i holds no block any more.                                       *)
Releases(A, sz, bl, i, sz2, bl2) ==
    /\ bl \in [Ids -> [lo : Nat, size : Nat]] /\ i \in Ids
    /\ Held(A, sz, bl, Ids \ {i})
    /\ \A c \in A : sz2[c] = sz[c]
    /\ bl2 = [bl EXCEPT ![i] = NoBlock]

(* Then the ids hold A.                                                    *)
LEMMA HeldReleases ==
    ASSUME NEW A, NEW sz, NEW bl, NEW i, NEW sz2, NEW bl2, Releases(A, sz, bl, i, sz2, bl2)
    PROVE  Held(A, sz2, bl2, Ids)
<1>1. bl2[i] = NoBlock /\ \A j \in Ids \ {i} : bl2[j] = bl[j]
  BY DEF Releases
<1>2. \A j \in Ids : bl2[j] # NoBlock =>
         /\ bl2[j].lo \in A \ {Prologue, Sentinel}
         /\ bl2[j].size \in Sizes /\ sz2[bl2[j].lo] >= bl2[j].size + 8
  BY <1>1 DEF Releases, Held
<1>3. \A b \in A \ {Prologue, Sentinel} : \E j \in Ids : bl2[j] # NoBlock /\ bl2[j].lo = b
  BY <1>1 DEF Releases, Held
<1>4. \A j, k \in Ids : bl2[j] # NoBlock /\ bl2[k] # NoBlock /\ bl2[j].lo = bl2[k].lo => j = k
  BY <1>1 DEF Releases, Held
<1> QED BY <1>2, <1>3, <1>4 DEF Held

-----------------------------------------------------------------------------
(* The steps of the driver.                                                *)

(* A result for the id i: the other allocated blocks are A, whose words    *)
(* are those of memory m.                                                  *)
Gives(m, A, sz, r, size, B2, sz2, F2) ==
    /\ Valid(r.mem, r.brk, B2, sz2, F2)
    /\ r.bp \in B2 \ F2 /\ r.bp \notin A /\ r.bp \notin {Prologue, Sentinel}
    /\ B2 \ F2 = A \cup {r.bp}
    /\ sz2[r.bp] >= size + 8
    /\ \A c \in A : sz2[c] = sz[c]
    /\ Kept(m, r.mem, A, sz)

(* The driver fills the new payload, or its end.                           *)
Fills(m, A, sz, r, size, B2, sz2, F2, from, i, m2) ==
    /\ Gives(m, A, sz, r, size, B2, sz2, F2)
    /\ size \in Nat /\ from \in Nat /\ from >= r.bp
    /\ m2 = Filled(r.mem, from, r.bp + size, i)

(* Filling a payload leaves a heap, and the words before the filled ones.  *)
LEMMA FillStep ==
    ASSUME NEW m, NEW A, NEW sz, NEW r, NEW size, NEW B2, NEW sz2, NEW F2, NEW from, NEW i, NEW m2,
           Fills(m, A, sz, r, size, B2, sz2, F2, from, i, m2)
    PROVE  /\ Valid(m2, r.brk, B2, sz2, F2)
           /\ Kept(m, m2, A, sz)
           /\ \A a \in Words : a < from => m2[a] = r.mem[a]
<1> DEFINE b  == r.bp
           m1 == r.mem
           e  == r.brk
<1>1. /\ Valid(m1, e, B2, sz2, F2) /\ Heap(m1, e, B2, sz2, F2, F2) /\ NoNeighbours(sz2, F2, {})
      /\ Layout(B2, sz2, e)
      /\ b \in B2 \ F2 /\ b \notin A /\ B2 \ F2 = A \cup {b}
      /\ sz2[b] >= size + 8 /\ \A c \in A : sz2[c] = sz[c]
      /\ Kept(m, m1, A, sz)
      /\ size \in Nat /\ from \in Nat /\ from >= b
      /\ m2 = Filled(m1, from, b + size, i)
  BY DEF Fills, Gives, Valid, Heap
<1> HIDE DEF b, m1, e
<1>2. b \in Nat /\ sz2[b] \in Nat
  BY <1>1, BlockFacts
<1>3. m2 = [a \in Words |-> IF a \in from..(b + size) - 1 THEN i ELSE m1[a]]
  BY <1>1 DEF Filled
<1>4. IsMemory(m2)
  BY <1>3 DEF IsMemory
<1>5. \A a \in Words : m2[a] = m1[a] \/ (b <= a /\ a < b + sz2[b] - 8)
  <2> SUFFICES ASSUME NEW a \in Words, ~(b <= a /\ a < b + sz2[b] - 8) PROVE m2[a] = m1[a]
    OBVIOUS
  <2>1. a \in Nat
    BY WordsAre
  <2>2. a \notin from..(b + size) - 1
    BY <2>1, <1>1, <1>2
  <2> QED BY <2>2, <1>3
<1>6. Heap(m2, e, B2, sz2, F2, F2) /\ Kept(m1, m2, B2 \ {b}, sz2)
  BY <1>1, <1>4, <1>5, PayloadWritten
<1>7. Kept(m, m2, A, sz)
  <2>1. A \subseteq A /\ A \subseteq B2 \ {b} /\ \A c \in A : sz[c] = sz[c] /\ sz2[c] = sz[c]
    BY <1>1
  <2> QED BY <2>1, <1>1, <1>6, KeptTrans
<1>8. \A a \in Words : a < from => m2[a] = m1[a]
  <2> SUFFICES ASSUME NEW a \in Words, a < from PROVE m2[a] = m1[a]
    OBVIOUS
  <2>1. a \in Nat
    BY WordsAre
  <2>2. a \notin from..(b + size) - 1
    BY <2>1, <1>1
  <2> QED BY <2>2, <1>3
<1>9. Valid(m2, e, B2, sz2, F2)
  BY <1>1, <1>6 DEF Valid
<1> QED BY <1>7, <1>8, <1>9 DEF e, m1

(* What malloc and realloc do when they succeed: the id i holds a block n, *)
(* with the words of the block it held, if any, and those of A are kept.   *)
Stored(i, size, B, sz, F, A, B2, sz2, F2, n) ==
    /\ Valid(mem, brk, B, sz, F) /\ Held(B \ F, sz, block, Ids)
    /\ Valid(mem', brk', B2, sz2, F2)
    /\ brk' >= brk
    /\ A \subseteq B \ F /\ Held(A, sz, block, Ids \ {i})
    /\ \A c \in A : sz2[c] = sz[c]
    /\ n \in Nat /\ n \notin A /\ n \notin {Prologue, Sentinel} /\ B2 \ F2 = A \cup {n}
    /\ sz2[n] >= size + 8
    /\ block' = [block EXCEPT ![i] = [lo |-> n, size |-> size]]
    /\ Kept(mem, mem', A, sz)
    /\ \A o \in Nat : o % 4 = 0 /\ o < block[i].size => mem'[n + o] = mem[block[i].lo + o]
    /\ status' = status

(* Malloc or realloc has succeeded.                                        *)
Stores(i, size) == \E B, sz, F, A, B2, sz2, F2, n : Stored(i, size, B, sz, F, A, B2, sz2, F2, n)

(* When they fail.                                                         *)
Stops ==
    /\ IsMemory(mem') /\ status' # "ok" /\ UNCHANGED <<brk, block>>
    /\ \E B, sz, F : Valid(mem, brk, B, sz, F) /\ Held(B \ F, sz, block, Ids) /\ Kept(mem, mem', B, sz)

(* The requests are sizes that do not wrap.                                *)
LEMMA SizesAre == \A s \in Sizes : s \in 1..SizeT - 16 /\ s \in Nat /\ s > 0
BY SizesAssumption, SizeTAssumption

(* A heap as a value.                                                      *)
LEMMA HeapIs == heap.mem = mem /\ heap.brk = brk
BY DEF heap

(* A result that meets the request is stored for the id.                   *)
LEMMA GotSteps ==
    ASSUME HeapInductive, NEW i \in Ids, NEW size \in Sizes, NEW res, Got(i, size, res),
           NEW B, NEW sz, NEW F, NEW A, NEW B2, NEW sz2, NEW F2,
           Valid(mem, brk, B, sz, F), Held(B \ F, sz, block, Ids),
           A \subseteq B \ F, Held(A, sz, block, Ids \ {i}),
           Gives(mem, A, sz, res, size, B2, sz2, F2), res.brk >= brk,
           \A o \in Nat : o % 4 = 0 /\ o < block[i].size =>
                res.bp + o \in Words /\ res.mem[res.bp + o] = mem[block[i].lo + o]
    PROVE  Stores(i, size)
<1> DEFINE n == res.bp
           from == n + block[i].size
<1>1. /\ Valid(res.mem, res.brk, B2, sz2, F2) /\ Heap(res.mem, res.brk, B2, sz2, F2, F2)
      /\ Layout(B2, sz2, res.brk) /\ n \in B2
      /\ n \notin A /\ n \notin {Prologue, Sentinel} /\ B2 \ F2 = A \cup {n}
      /\ sz2[n] >= size + 8 /\ \A c \in A : sz2[c] = sz[c]
  BY DEF Gives, Valid, Heap
<1> HIDE DEF n
<1>2. n \in Nat /\ n # NULL /\ n + sz2[n] <= res.brk /\ res.brk \in Nat /\ sz2[n] \in Nat
  <2>1. n # NULL
    BY <1>1, BlockWords, WordsAre
  <2> QED BY <2>1, <1>1, BlockFacts
<1>3. NEXT(res.mem, n) <= res.brk /\ ~(NEXT(res.mem, n) > res.brk)
  <2>1. NEXT(res.mem, n) = n + sz2[n]
    BY <1>1, Reads
  <2> QED BY <2>1, <1>2
<1>4. /\ mem' = Filled(res.mem, from, n + size, i)
      /\ brk' = res.brk
      /\ block' = [block EXCEPT ![i] = [lo |-> n, size |-> size]]
      /\ status' = status
  BY <1>2, <1>3 DEF Got, n
<1>5. block[i].size \in Nat /\ size \in Nat /\ from \in Nat /\ from >= n
  <2>1. block[i].size \in Nat /\ size \in Nat
    BY SizesAre DEF HeapInductive
  <2> QED BY <2>1, <1>2
<1> HIDE DEF from
<1>6. Fills(mem, A, sz, res, size, B2, sz2, F2, from, i, mem')
  BY <1>4, <1>5 DEF Fills, n
<1>7. /\ Valid(mem', brk', B2, sz2, F2) /\ Kept(mem, mem', A, sz)
      /\ \A a \in Words : a < from => mem'[a] = res.mem[a]
  <2> DEFINE m2 == mem'
             m == mem
             e == res.brk
  <2>1. Fills(m, A, sz, res, size, B2, sz2, F2, from, i, m2)
    BY <1>6
  <2> HIDE DEF m, m2
  <2>2. /\ Valid(m2, e, B2, sz2, F2) /\ Kept(m, m2, A, sz)
        /\ \A a \in Words : a < from => m2[a] = res.mem[a]
    BY <2>1, FillStep
  <2> QED BY <2>2, <1>4 DEF m, m2
<1>8. ASSUME NEW o \in Nat, o % 4 = 0, o < block[i].size PROVE mem'[n + o] = mem[block[i].lo + o]
  <2>1. n + o \in Words /\ res.mem[n + o] = mem[block[i].lo + o]
    BY <1>8 DEF n
  <2>2. n + o < from
    BY <1>2, <1>5, <1>8 DEF from
  <2> QED BY <2>1, <2>2, <1>7
<1>9. brk' >= brk
  BY <1>4
<1>10. Stored(i, size, B, sz, F, A, B2, sz2, F2, n)
  BY <1>1, <1>2, <1>4, <1>7, <1>8, <1>9 DEF Stored
<1> QED BY <1>10 DEF Stores

(* malloc's block meets the request.                                       *)
LEMMA AllocatesGives ==
    ASSUME NEW h, NEW B, NEW sz, NEW F, NEW r, NEW size \in 1..SizeT - 16, NEW A, A = B \ F,
           NEW m, m = h.mem, Allocates(h, B, sz, F, r, Full(size))
    PROVE  \E B2, sz2, F2 : Gives(m, A, sz, r, size, B2, sz2, F2)
<1>1. PICK B2, sz2, F2 :
        /\ Valid(r.mem, r.brk, B2, sz2, F2)
        /\ r.bp \in B2 \ F2 /\ r.bp \notin B \ F /\ r.bp \notin {Prologue, Sentinel}
        /\ B2 \ F2 = (B \ F) \cup {r.bp}
        /\ sz2[r.bp] >= Full(size)
        /\ \A b \in B \ F : sz2[b] = sz[b]
        /\ Kept(h.mem, r.mem, B \ F, sz)
  BY DEF Allocates
<1>2. sz2[r.bp] >= size + 8
  <2>1. Layout(B2, sz2, r.brk) /\ r.bp \in B2
    BY <1>1 DEF Valid, Heap
  <2>2. sz2[r.bp] \in Nat
    BY <2>1, BlockFacts
  <2>3. Full(size) \in Nat /\ Full(size) >= size + 8 /\ size \in Nat
    BY FullIs, SizeTAssumption
  <2> QED BY <2>2, <2>3, <1>1
<1>3. Gives(m, A, sz, r, size, B2, sz2, F2)
  BY <1>1, <1>2 DEF Gives
<1> QED BY <1>3

(* malloc succeeds, or the trace ends.                                     *)
LEMMA AllocStores ==
    ASSUME HeapInductive, NEW i \in Ids, NEW size \in Sizes, Alloc(i, size)
    PROVE  Stores(i, size) \/ Stops
<1> DEFINE r == mm_malloc(heap, size)
           h == heap
<1>1. status = "ok" /\ block[i] = NoBlock /\ Got(i, size, r) /\ IsMemory(mem)
  BY DEF Alloc, HeapInductive
<1>2. PICK B, sz, F : Valid(mem, brk, B, sz, F) /\ Held(B \ F, sz, block, Ids)
  BY <1>1 DEF HeapInductive
<1>3. h.mem = mem /\ h.brk = brk /\ r = mm_malloc(h, size) /\ size \in 1..SizeT - 16
  BY HeapIs, SizesAre
<1> HIDE DEF r, h
<1>4. CASE r.bp = NULL
  <2>1. status' = "crashed" /\ UNCHANGED <<mem, brk, block>>
    BY <1>1, <1>4 DEF Got
  <2>2. Kept(mem, mem', B, sz)
    BY <2>1 DEF Kept
  <2>3. IsMemory(mem')
    BY <1>1, <2>1 DEF IsMemory
  <2> QED BY <2>1, <2>2, <2>3, <1>2 DEF Stops
<1>5. CASE r.bp # NULL
  <2>1. Allocates(h, B, sz, F, r, Full(size)) /\ r.brk >= brk
    BY <1>2, <1>3, <1>5, MallocIs
  <2> DEFINE A == B \ F
             m == mem
  <2>2. A = B \ F /\ m = h.mem
    BY <1>3
  <2> HIDE DEF A, m
  <2>3. PICK B2, sz2, F2 : Gives(m, A, sz, r, size, B2, sz2, F2)
    BY <2>1, <2>2, <1>3, AllocatesGives
  <2>4. A \subseteq B \ F /\ Held(A, sz, block, Ids \ {i})
    BY <2>2, <1>1, <1>2, HeldOthers
  <2>5. \A o \in Nat : ~(o < block[i].size)
    BY <1>1 DEF NoBlock
  <2>6. Gives(mem, A, sz, r, size, B2, sz2, F2)
    BY <2>3 DEF m
  <2>7. Stores(i, size)
    BY <1>1, <1>2, <2>1, <2>4, <2>5, <2>6, GotSteps
  <2> QED BY <2>7
<1> QED BY <1>4, <1>5

(* So does realloc.                                                        *)
LEMMA ReallocStores ==
    ASSUME HeapInductive, NEW i \in Ids, NEW size \in Sizes, Realloc(i, size)
    PROVE  Stores(i, size) \/ Stops
<1> DEFINE b == block[i].lo
           h == heap
           r == mm_realloc(h, b, size)
           m == mem
<1>1. status = "ok" /\ block[i] # NoBlock /\ Got(i, size, r) /\ IsMemory(mem)
  BY DEF Realloc, HeapInductive
<1>2. PICK B, sz, F : Valid(mem, brk, B, sz, F) /\ Held(B \ F, sz, block, Ids)
  BY <1>1 DEF HeapInductive
<1>3. h.mem = m /\ h.brk = brk /\ r = mm_realloc(h, b, size) /\ size \in 1..SizeT - 16 /\ m = mem
  BY HeapIs, SizesAre
<1>4. b \in (B \ F) \ {Prologue, Sentinel} /\ sz[b] >= block[i].size + 8 /\ block[i].size \in Nat
  BY <1>1, <1>2, SizesAre DEF Held
<1> HIDE DEF r, h, b, m
<1>5. Resizable(h, B, sz, F, b, size)
  BY <1>2, <1>3, <1>4 DEF Resizable
<1>6. \/ r.bp = NULL
      \/ IsMemory(r.mem) /\ ~(NEXT(r.mem, r.bp) <= r.brk) /\ Kept(m, r.mem, B, sz)
      \/ Moves(h, B, sz, F, b, r, size)
  BY <1>3, <1>5, ReallocIs
<1>7. CASE r.bp = NULL
  <2>1. status' = "crashed" /\ UNCHANGED <<mem, brk, block>>
    BY <1>1, <1>7 DEF Got
  <2>2. Kept(mem, mem', B, sz)
    BY <2>1 DEF Kept
  <2>3. IsMemory(mem')
    BY <1>1, <2>1 DEF IsMemory
  <2> QED BY <2>1, <2>2, <2>3, <1>2 DEF Stops
<1>8. CASE Moves(h, B, sz, F, b, r, size)
  <2>1. PICK B2, sz2, F2 :
        /\ Valid(r.mem, r.brk, B2, sz2, F2)
        /\ r.bp \in B2 \ F2 /\ r.bp \notin (B \ F) \ {b} /\ r.bp \notin {Prologue, Sentinel}
        /\ B2 \ F2 = ((B \ F) \ {b}) \cup {r.bp}
        /\ sz2[r.bp] >= size + 8 /\ sz2[r.bp] >= sz[b]
        /\ \A c \in (B \ F) \ {b} : sz2[c] = sz[c]
        /\ Kept(h.mem, r.mem, (B \ F) \ {b}, sz)
        /\ \A o \in Nat : o % 4 = 0 /\ o < sz[b] - 8 => r.mem[r.bp + o] = h.mem[b + o]
    BY <1>8 DEF Moves
  <2> DEFINE A == (B \ F) \ {b}
  <2>2. Gives(mem, A, sz, r, size, B2, sz2, F2)
    BY <2>1, <1>3 DEF Gives
  <2>3. A \subseteq B \ F /\ Held(A, sz, block, Ids \ {i})
    <3> DEFINE A1 == B \ F
    <3>1. A = A1 \ {block[i].lo} /\ Held(A1, sz, block, Ids)
      BY <1>2 DEF b
    <3> HIDE DEF A, A1
    <3>2. Drops(A1, sz, block, i, A)
      BY <3>1, <1>1 DEF Drops
    <3>3. Held(A, sz, block, Ids \ {i})
      BY <3>2, HeldDrops
    <3> QED BY <3>3 DEF A
  <2> HIDE DEF A
  <2>4. ASSUME NEW o \in Nat, o % 4 = 0, o < block[i].size
        PROVE  r.bp + o \in Words /\ r.mem[r.bp + o] = mem[block[i].lo + o]
    <3>1. Layout(B2, sz2, r.brk) /\ r.bp \in B2 /\ Layout(B, sz, brk) /\ b \in B
      BY <2>1, <1>2, <1>4 DEF Valid, Heap
    <3>2. sz2[r.bp] \in Nat /\ sz[b] \in Nat
      BY <3>1, BlockFacts
    <3>3. o < sz[b] - 8
      BY <3>2, <2>4, <1>4
    <3>4. r.mem[r.bp + o] = m[b + o]
      BY <3>3, <2>1, <2>4, <1>3
    <3>5. o < sz2[r.bp] - 8
      BY <3>2, <3>3, <2>1
    <3>6. r.bp + o \in Words
      BY <3>1, <3>5, <2>4, PayloadWords
    <3> QED BY <3>4, <3>6, <1>3 DEF b
  <2>5. Stores(i, size)
    <3>1. r.brk >= brk
      BY <1>3, <1>8 DEF Moves
    <3> QED BY <3>1, <2>2, <2>3, <2>4, <1>1, <1>2, GotSteps
  <2> QED BY <2>5
<1>9. CASE r.bp # NULL /\ IsMemory(r.mem) /\ ~(NEXT(r.mem, r.bp) <= r.brk) /\ Kept(m, r.mem, B, sz)
  <2>1. mem' = r.mem /\ status' # "ok" /\ UNCHANGED <<brk, block>>
    BY <1>1, <1>9 DEF Got
  <2> QED BY <2>1, <1>2, <1>3, <1>9 DEF Stops
<1> QED BY <1>6, <1>7, <1>8, <1>9

(* free returns the block of the id.                                       *)
LEMMA ReleaseFrees ==
    ASSUME HeapInductive, NEW i \in Ids, Release(i)
    PROVE  /\ UNCHANGED <<brk, status>> /\ block' = [block EXCEPT ![i] = NoBlock]
           /\ \E B, sz, F, B2, sz2, F2, A :
                /\ Valid(mem, brk, B, sz, F) /\ Held(B \ F, sz, block, Ids)
                /\ Valid(mem', brk', B2, sz2, F2) /\ Held(B2 \ F2, sz2, block', Ids)
                /\ A \subseteq B \ F /\ Held(A, sz, block, Ids \ {i}) /\ Kept(mem, mem', A, sz)
<1> DEFINE b == block[i].lo
           h == heap
           r == mm_free(h, b)
<1>1. /\ status = "ok" /\ block[i] # NoBlock
      /\ mem' = r.mem /\ block' = [block EXCEPT ![i] = NoBlock]
      /\ UNCHANGED <<brk, status>>
  BY DEF Release
<1>2. PICK B, sz, F : Valid(mem, brk, B, sz, F) /\ Held(B \ F, sz, block, Ids)
  BY <1>1 DEF HeapInductive
<1>3. h.mem = mem /\ h.brk = brk /\ r = mm_free(h, b)
  BY HeapIs
<1>4. b \in (B \ F) \ {Prologue, Sentinel}
  BY <1>1, <1>2 DEF Held
<1> DEFINE A1 == B \ F
           A  == A1 \ {b}
<1>5. Drops(A1, sz, block, i, A)
  BY <1>1, <1>2 DEF Drops
<1> HIDE DEF r, h, b
<1>6. Frees(h, B, sz, F, b, r)
  <2>1. Freeable(h, B, sz, F, b)
    BY <1>2, <1>3, <1>4 DEF Freeable
  <2> QED BY <2>1, <1>3, FreeIs
<1>7. PICK B2, sz2, F2 :
        /\ Valid(r.mem, r.brk, B2, sz2, F2)
        /\ B2 \ F2 = A
        /\ \A c \in A : sz2[c] = sz[c]
        /\ Kept(h.mem, r.mem, A, sz)
  BY <1>6 DEF Frees
<1>8. r.brk = brk'
  BY <1>1, <1>3, <1>6 DEF Frees
<1>9. A \subseteq B \ F
  OBVIOUS
<1> HIDE DEF A1, A
<1>10. Held(A, sz, block, Ids \ {i})
  BY <1>5, HeldDrops
<1>11. Releases(A, sz, block, i, sz2, block')
  BY <1>1, <1>7, <1>10 DEF Releases, HeapInductive
<1>12. Held(A, sz2, block', Ids)
  <2> DEFINE bl2 == block'
  <2>1. Releases(A, sz, block, i, sz2, bl2)
    BY <1>11
  <2> HIDE DEF bl2
  <2>2. Held(A, sz2, bl2, Ids)
    BY <2>1, HeldReleases
  <2> QED BY <2>2 DEF bl2
<1>13. /\ Valid(mem', brk', B2, sz2, F2) /\ Held(B2 \ F2, sz2, block', Ids)
       /\ Kept(mem, mem', A, sz)
  BY <1>1, <1>3, <1>7, <1>8, <1>12
<1> QED BY <1>1, <1>2, <1>9, <1>10, <1>13

(* A new trace: the heap that mm_init makes, and no block is held.         *)
LEMMA Begins ==
    ASSUME NEW m, IsMemory(m), NEW m2, m2 = mm_init(m).mem, NEW e, e = mm_init(m).brk,
           NEW bl, bl = [i \in Ids |-> NoBlock]
    PROVE  /\ IsMemory(m2)
           /\ \E B, sz, F : Valid(m2, e, B, sz, F) /\ Held(B \ F, sz, bl, Ids)
<1>1. PICK list : FirstHeap(m2, list)
  BY InitIs
<1>2. e = Sentinel + 8
  BY InitIs
<1>3. PICK B, sz, F : Valid(m2, e, B, sz, F) /\ B \ F = {Prologue, Sentinel}
  BY <1>1, <1>2, FirstValid
<1>4. Held(B \ F, sz, bl, Ids)
  BY <1>3 DEF Held
<1>5. IsMemory(m2)
  BY <1>1 DEF FirstHeap
<1> QED BY <1>3, <1>4, <1>5

(* Until a trace ends in a failure the memory is a heap, whose lists hold  *)
(* the free blocks, no two of them neighbours, and the allocated blocks are *)
(* those of the ids (HeapInductive).                                       *)
THEOREM HeapInductiveCorrect == Spec => []HeapInductive
<1>1. Init => HeapInductive
  <2> SUFFICES ASSUME Init PROVE HeapInductive
    OBVIOUS
  <2> DEFINE m == [a \in Words |-> 0]
             m2 == mem
             e == brk
             bl == block
  <2>1. IsMemory(m)
    BY DEF IsMemory
  <2>2. m2 = mm_init(m).mem /\ e = mm_init(m).brk /\ bl = [i \in Ids |-> NoBlock]
    BY DEF Init
  <2>3. block \in [Ids -> [lo : Nat, size : Nat]]
    BY DEF Init, NoBlock
  <2> HIDE DEF m, m2, e, bl
  <2>4. /\ IsMemory(m2)
        /\ \E B, sz, F : Valid(m2, e, B, sz, F) /\ Held(B \ F, sz, bl, Ids)
    BY <2>1, <2>2, Begins
  <2> QED BY <2>3, <2>4 DEF HeapInductive, m2, e, bl
<1>2. HeapInductive /\ [Next]_vars => HeapInductive'
  <2> SUFFICES ASSUME HeapInductive, [Next]_vars PROVE HeapInductive'
    OBVIOUS
  <2>1. ASSUME NEW i \in Ids, NEW size \in Sizes, Alloc(i, size) \/ Realloc(i, size)
        PROVE  HeapInductive'
    <3>1. Stores(i, size) \/ Stops
      BY <2>1, AllocStores, ReallocStores
    <3>2. CASE Stops
      BY <3>2 DEF Stops, HeapInductive
    <3>3. CASE Stores(i, size)
      <4>1. PICK B, sz, F, A, B2, sz2, F2, n : Stored(i, size, B, sz, F, A, B2, sz2, F2, n)
        BY <3>3 DEF Stores
      <4> DEFINE bl2 == block'
                 A2  == B2 \ F2
      <4>2. Takes(A, sz, block, i, n, size, A2, sz2, bl2)
        BY <4>1 DEF Stored, Takes, HeapInductive
      <4> HIDE DEF bl2, A2
      <4>3. Held(A2, sz2, bl2, Ids)
        BY <4>2, HeldTakes
      <4>4. IsMemory(mem') /\ Valid(mem', brk', B2, sz2, F2)
        BY <4>1 DEF Stored, Valid, Heap
      <4>5. block' \in [Ids -> [lo : Nat, size : Nat]]
        <5>1. n \in Nat /\ size \in Nat /\ block' = [block EXCEPT ![i] = [lo |-> n, size |-> size]]
          BY <4>1, SizesAre DEF Stored
        <5> QED BY <5>1 DEF HeapInductive
      <4>6. IsMemory(mem)'
        BY <4>4 DEF IsMemory
      <4> QED BY <4>3, <4>4, <4>5, <4>6 DEF HeapInductive, bl2, A2
    <3> QED BY <3>1, <3>2, <3>3
  <2>2. ASSUME NEW i \in Ids, Release(i) PROVE HeapInductive'
    <3>1. /\ UNCHANGED <<brk, status>> /\ block' = [block EXCEPT ![i] = NoBlock]
          /\ \E B2, sz2, F2 : Valid(mem', brk', B2, sz2, F2) /\ Held(B2 \ F2, sz2, block', Ids)
      BY <2>2, ReleaseFrees
    <3>2. IsMemory(mem)'
      BY <3>1 DEF Valid, Heap, IsMemory
    <3>3. block' \in [Ids -> [lo : Nat, size : Nat]]
      BY <3>1 DEF HeapInductive, NoBlock
    <3> QED BY <3>1, <3>2, <3>3 DEF HeapInductive
  <2>3. CASE NextTrace
    <3> DEFINE m2 == mem'
               e  == brk'
               bl == block'
    <3>1. m2 = mm_init(mem).mem /\ e = mm_init(mem).brk /\ bl = [i \in Ids |-> NoBlock]
      BY <2>3 DEF NextTrace
    <3>2. block' \in [Ids -> [lo : Nat, size : Nat]]
      BY <2>3 DEF NextTrace, NoBlock
    <3>3. IsMemory(mem)
      BY DEF HeapInductive
    <3> HIDE DEF m2, e, bl
    <3>4. /\ IsMemory(m2)
          /\ \E B, sz, F : Valid(m2, e, B, sz, F) /\ Held(B \ F, sz, bl, Ids)
      BY <3>1, <3>3, Begins
    <3>5. IsMemory(mem)'
      BY <3>4 DEF m2, IsMemory
    <3> QED BY <3>2, <3>4, <3>5 DEF HeapInductive, m2, e, bl
  <2>4. CASE UNCHANGED vars
    BY <2>4 DEF vars, HeapInductive, IsMemory
  <2> QED BY <2>1, <2>2, <2>3, <2>4 DEF Next
<1> QED BY <1>1, <1>2, PTL DEF Spec

-----------------------------------------------------------------------------
(* The invariants that the runs check.                                     *)

(* What Blocks walks through.                                              *)
Strides(B, sz, e, at, end) ==
    /\ end \in 0..MAX_BLOCKS
    /\ at[0] = First
    /\ \A n \in 1..MAX_BLOCKS : at[n] = IF at[n - 1] \in B THEN at[n - 1] + sz[at[n - 1]] ELSE at[n - 1]
    /\ \A n \in 0..MAX_BLOCKS : at[n] \in (B \ {Prologue}) \cup {e}
    /\ \A k \in 0..end - 1 : at[k] \in B
    /\ at[end] \notin B \/ end = MAX_BLOCKS

(* Blocks follows the sizes in the headers to the epilogue.                *)
LEMMA BlocksWalk ==
    ASSUME NEW m, NEW e, NEW B, NEW sz, NEW F, NEW L, Heap(m, e, B, sz, F, L)
    PROVE  \E at, end : Strides(B, sz, e, at, end) /\ Blocks(m) = {at[n] : n \in 0..end - 1}
<1> DEFINE N == MAX_BLOCKS
           header(p) == p - WSIZE \in Words /\ GET_BLK_SIZE(m, p) > 0
           step(f, n) == IF n = 0 THEN First
                         ELSE LET p == f[n - 1] IN IF header(p) THEN NEXT(m, p) ELSE p
           at == CHOOSE f : f = [n \in 0..N |-> step(f, n)]
           Ends(n) == (\A k \in 0..n - 1 : header(at[k])) /\ (~header(at[n]) \/ n = N)
           end == CHOOSE n \in 0..N : Ends(n)
           S == (B \ {Prologue}) \cup {e}
           stride(p) == IF p \in B THEN p + sz[p] ELSE p
<1>1. Blocks(m) = {at[n] : n \in 0..end - 1}
  BY DEF Blocks
<1>2. Layout(B, sz, e) /\ e \notin B /\ N \in Nat
  BY BlockFacts, MaxBlocks DEF Heap
<1>3. \A p \in S : (header(p) <=> p \in B) /\ (p \in B => NEXT(m, p) = p + sz[p])
  <2>1. ASSUME NEW p \in B PROVE header(p) /\ NEXT(m, p) = p + sz[p]
    <3>1. p - 4 \in Words /\ sz[p] \in Nat /\ sz[p] >= 8
      BY <1>2, BlockWords, BlockFacts
    <3>2. GET_BLK_SIZE(m, p) = sz[p] /\ NEXT(m, p) = p + sz[p]
      BY Reads
    <3> QED BY <3>1, <3>2 DEF WSIZE
  <2>2. ~header(e)
    <3>1. GET_BLK_SIZE(m, e) = 0
      BY Reads
    <3> QED BY <3>1
  <2> HIDE DEF header
  <2> QED BY <2>1, <2>2, <1>2
<1> HIDE DEF header
<1>4. \A p \in S : stride(p) \in S /\ (IF header(p) THEN NEXT(m, p) ELSE p) = stride(p)
  <2> SUFFICES ASSUME NEW p \in S
               PROVE  stride(p) \in S /\ (IF header(p) THEN NEXT(m, p) ELSE p) = stride(p)
    OBVIOUS
  <2>1. (IF header(p) THEN NEXT(m, p) ELSE p) = stride(p)
    BY <1>3
  <2>2. stride(p) \in S
    <3>1. CASE p \in B
      <4>1. p + sz[p] \in B \cup {e} /\ p \in Nat /\ sz[p] \in Nat /\ sz[p] >= 8 /\ p >= Prologue /\ Prologue \in Nat
        <5>1. p \in Nat /\ sz[p] \in Nat /\ sz[p] >= 8 /\ p >= Prologue
          BY <3>1, <1>2, BlockFacts
        <5>2. Prologue \in Nat
          BY Places
        <5> QED BY <5>1, <5>2, <3>1, <1>2 DEF Layout
      <4>2. p + sz[p] # Prologue
        BY <4>1
      <4> QED BY <3>1, <4>1, <4>2
    <3>2. CASE p \notin B
      BY <3>2
    <3> QED BY <3>1, <3>2
  <2> QED BY <2>1, <2>2
<1>5. First \in S
  <2>1. Prologue \in B /\ sz[Prologue] = 8 /\ First = Prologue + 8 /\ First # Prologue
    BY <1>2, Places DEF Layout
  <2> QED BY <2>1, <1>2 DEF Layout
<1> HIDE DEF stride
<1>6. at = [n \in 0..N |-> step(at, n)] /\ at \in [0..N -> S]
  <2> DEFINE g == [p \in S |-> stride(p)]
             a == First
             Good(f) == f = [n \in 0..N |-> step(f, n)]
  <2>1. g \in [S -> S] /\ a \in S
    BY <1>4, <1>5
  <2>2. PICK f \in [0..N -> S] : f[0] = a /\ \A n \in 1..N : f[n] = g[f[n - 1]]
    <3>1. Iterable(S, a, g, N)
      BY <1>2, <2>1 DEF Iterable
    <3> HIDE DEF S, g, N, a
    <3> QED BY <3>1, Iterates
  <2>3. ASSUME NEW f2 \in [0..N -> S], f2[0] = First, \A n \in 1..N : f2[n] = stride(f2[n - 1]),
               NEW n \in 0..N
        PROVE  f2[n] = step(f2, n)
    <3>1. CASE n = 0
      BY <3>1, <2>3
    <3>2. CASE n # 0
      <4>1. n \in 1..N /\ n - 1 \in 0..N
        BY <3>2, <1>2
      <4>2. f2[n - 1] \in S /\ f2[n] = stride(f2[n - 1])
        BY <4>1, <2>3
      <4> HIDE DEF S
      <4> QED BY <4>2, <3>2, <1>4
    <3> QED BY <3>1, <3>2
  <2>4. \A n \in 1..N : f[n] = stride(f[n - 1])
    <3>1. \A n \in 1..N : n - 1 \in 0..N
      BY <1>2
    <3> HIDE DEF S
    <3> QED BY <3>1, <2>2
  <2>5. Good(f)
    <3>1. \A n \in 0..N : f[n] = step(f, n)
      BY <2>2, <2>3, <2>4
    <3> HIDE DEF S, N, step, g
    <3> QED BY <3>1, <2>2
  <2>6. Good(at)
    <3> HIDE DEF Good
    <3>1. at = CHOOSE f2 : Good(f2)
      BY DEF Good
    <3> QED BY <3>1, <2>5
  <2> HIDE DEF at, step, S
  <2>7. at \in [0..N -> S]
    <3> DEFINE G == {n \in 0..N : at[n] \in S}
    <3>1. 0 \in G
      BY <1>2, <1>5, <2>6 DEF step
    <3>2. ASSUME NEW n \in 1..N, n - 1 \in G PROVE n \in G
      <4>1. n \in 0..N /\ n # 0
        BY <1>2
      <4>2. at[n] = step(at, n)
        BY <4>1, <2>6
      <4>3. step(at, n) = stride(at[n - 1])
        BY <4>1, <3>2, <1>4 DEF step
      <4> QED BY <4>1, <4>2, <4>3, <3>2, <1>4
    <3>3. G = 0..N
      <4>1. G \in SUBSET (0..N)
        OBVIOUS
      <4> HIDE DEF G
      <4> QED BY <4>1, <3>1, <3>2, <1>2, Lasts
    <3>4. \A n \in 0..N : at[n] \in S
      BY <3>3
    <3> HIDE DEF G
    <3> QED BY <3>4, <2>6
  <2> QED BY <2>6, <2>7
<1> HIDE DEF at
<1>7. end \in 0..N /\ Ends(end)
  <2> DEFINE T == {n \in 0..N : ~header(at[n]) \/ n = N}
  <2>1. T \in SUBSET Nat /\ N \in T
    BY <1>2
  <2>2. PICK n \in T : \A k \in T : n <= k
    <3> HIDE DEF T
    <3> QED BY <2>1, LeastNumber
  <2>3. ASSUME NEW k \in 0..n - 1 PROVE header(at[k])
    <3>1. k \in 0..N /\ ~(n <= k)
      BY <2>2, <1>2
    <3>2. k \notin T
      <4> HIDE DEF T
      <4> QED BY <2>2, <3>1
    <3> QED BY <3>1, <3>2
  <2>4. n \in 0..N /\ Ends(n)
    BY <2>2, <2>3
  <2> HIDE DEF Ends
  <2> QED BY <2>4
<1> HIDE DEF end
<1>8. at[0] = First
  BY <1>2, <1>6
<1>9. ASSUME NEW n \in 1..N PROVE at[n] = stride(at[n - 1])
  <2>1. n \in 0..N /\ n # 0 /\ n - 1 \in 0..N
    BY <1>2
  <2>2. at[n] = step(at, n) /\ at[n - 1] \in S
    BY <2>1, <1>6
  <2> QED BY <2>1, <2>2, <1>4
<1>10. \A n \in 0..N : at[n] \in S
  BY <1>6
<1>11. (\A k \in 0..end - 1 : at[k] \in B) /\ (at[end] \notin B \/ end = N)
  <2>1. \A k \in 0..end - 1 : k \in 0..N
    BY <1>2, <1>7
  <2> QED BY <2>1, <1>3, <1>7, <1>10
<1>12. Strides(B, sz, e, at, end)
  BY <1>7, <1>8, <1>9, <1>10, <1>11 DEF Strides, stride
<1> QED BY <1>1, <1>12

(* The blocks found are the blocks of the layout.                          *)
LEMMA BlocksAre ==
    ASSUME NEW m, NEW e, NEW B, NEW sz, NEW F, NEW L, Heap(m, e, B, sz, F, L)
    PROVE  Blocks(m) = B \ {Prologue}
<1> DEFINE N == MAX_BLOCKS
<1>1. PICK at, end : Strides(B, sz, e, at, end) /\ Blocks(m) = {at[n] : n \in 0..end - 1}
  BY BlocksWalk
<1>2. Layout(B, sz, e) /\ e \notin B /\ e \in Nat /\ N \in Nat
  BY BlockFacts, MaxBlocks DEF Heap
<1>3. /\ end \in 0..N /\ at[0] = First
      /\ \A n \in 1..N : at[n] = IF at[n - 1] \in B THEN at[n - 1] + sz[at[n - 1]] ELSE at[n - 1]
      /\ \A n \in 0..N : at[n] \in (B \ {Prologue}) \cup {e}
      /\ \A k \in 0..end - 1 : at[k] \in B
      /\ at[end] \notin B \/ end = N
  BY <1>1 DEF Strides
<1>4. at[end] \notin B
  <2> SUFFICES ASSUME at[end] \in B PROVE FALSE
    OBVIOUS
  <2>1. end = N
    BY <1>3
  <2>2. \A n \in 0..N : at[n] \in B
    <3>1. \A n \in 0..N : n = N \/ n \in 0..N - 1
      BY <1>2
    <3> QED BY <3>1, <2>1, <1>3
  <2>3. \A n \in 0..N : at[n] \in Nat
    BY <2>2, <1>2, BlockFacts
  <2>4. \A n \in 1..N : at[n - 1] < at[n]
    <3> SUFFICES ASSUME NEW n \in 1..N PROVE at[n - 1] < at[n]
      OBVIOUS
    <3>1. n - 1 \in 0..N /\ n \in 0..N
      BY <1>2
    <3>2. at[n] = at[n - 1] + sz[at[n - 1]] /\ at[n - 1] \in B
      BY <3>1, <2>2, <1>3
    <3>3. at[n - 1] \in Nat /\ sz[at[n - 1]] \in Nat /\ sz[at[n - 1]] >= 8
      BY <3>2, <1>2, BlockFacts
    <3> QED BY <3>2, <3>3
  <2>5. ASSUME NEW i \in 0..N, NEW j \in 0..N, i < j PROVE at[i] < at[j]
    <3> DEFINE G == {d \in 0..N : i + d + 1 <= N => at[i] < at[i + d + 1]}
    <3>1. 0 \in G
      <4>1. ASSUME i + 0 + 1 <= N PROVE at[i] < at[i + 0 + 1]
        <5>1. i + 1 \in 1..N /\ (i + 1) - 1 = i /\ i + 0 + 1 = i + 1
          BY <4>1, <1>2
        <5> QED BY <5>1, <2>4
      <4> QED BY <4>1, <1>2
    <3>2. ASSUME NEW d \in 1..N, d - 1 \in G PROVE d \in G
      <4>1. ASSUME i + d + 1 <= N PROVE at[i] < at[i + d + 1]
        <5>1. /\ i + d + 1 \in 1..N /\ (i + d + 1) - 1 = i + d /\ i + (d - 1) + 1 = i + d
              /\ i + d <= N /\ i + d \in 0..N /\ i + d + 1 \in 0..N
          BY <4>1, <1>2
        <5>2. at[i] < at[i + d]
          BY <5>1, <3>2
        <5>3. at[i + d] < at[i + d + 1]
          BY <5>1, <2>4
        <5>4. at[i] \in Nat /\ at[i + d] \in Nat /\ at[i + d + 1] \in Nat
          BY <5>1, <2>3
        <5> QED BY <5>2, <5>3, <5>4
      <4>2. d \in 0..N
        BY <1>2
      <4> QED BY <4>1, <4>2
    <3>3. G \in SUBSET (0..N)
      OBVIOUS
    <3>4. G = 0..N
      <4> HIDE DEF G
      <4> QED BY <1>2, <3>1, <3>2, <3>3, Lasts
    <3>5. j - i - 1 \in 0..N /\ i + (j - i - 1) + 1 = j /\ j <= N
      BY <2>5, <1>2
    <3>6. j - i - 1 \in G
      <4> HIDE DEF G
      <4> QED BY <3>4, <3>5
    <3> QED BY <3>5, <3>6
  <2> DEFINE f == [n \in 0..N |-> at[n]]
  <2>6. f \in [0..N -> B]
    BY <2>2
  <2>7. PICK i, j \in 0..N : i < j /\ f[i] = f[j]
    <3> HIDE DEF f
    <3> QED BY <2>6, <1>2, BlocksFit
  <2>8. at[i] = at[j] /\ at[i] \in Nat
    BY <2>7, <2>3
  <2> QED BY <2>5, <2>7, <2>8
<1>5. ASSUME NEW x \in Blocks(m) PROVE x \in B \ {Prologue}
  <2>1. PICK n \in 0..end - 1 : x = at[n]
    BY <1>1
  <2>2. n \in 0..N /\ at[n] \in B
    BY <2>1, <1>2, <1>3
  <2> QED BY <2>1, <2>2, <1>2, <1>3
<1>6. ASSUME NEW x \in B \ {Prologue} PROVE x \in Blocks(m)
  <2> DEFINE Miss == {y \in B \ {Prologue} : y \notin Blocks(m)}
  <2>1. SUFFICES ASSUME Miss # {} PROVE FALSE
    BY <1>6
  <2>2. Miss \in SUBSET Nat
    BY <1>2, BlockFacts
  <2>3. PICK y \in Miss : \A z \in Miss : y <= z
    <3> HIDE DEF Miss
    <3> QED BY <2>1, <2>2, LeastNumber
  <2>4. PICK c \in B : c + sz[c] = y
    BY <2>3, <1>2 DEF Layout
  <2>5. c \in Nat /\ sz[c] \in Nat /\ sz[c] >= 8 /\ c < y
    <3>1. c \in Nat /\ sz[c] \in Nat /\ sz[c] >= 8
      BY <1>2, BlockFacts
    <3> QED BY <3>1, <2>4
  <2>6. \E k \in 0..end - 1 : at[k] = y
    <3>1. CASE c = Prologue
      <4>1. y = First
        BY <3>1, <2>4, <1>2, Places DEF Layout
      <4>2. end # 0
        BY <4>1, <2>3, <1>3, <1>4
      <4> QED BY <4>1, <4>2, <1>2, <1>3
    <3>2. CASE c # Prologue
      <4>1. c \notin Miss
        <5>1. ~(y <= c)
          BY <2>4, <2>5
        <5> HIDE DEF Miss
        <5> QED BY <5>1, <2>3
      <4>2. PICK k \in 0..end - 1 : at[k] = c
        BY <4>1, <3>2, <1>1
      <4>3. k + 1 \in 1..N /\ (k + 1) - 1 = k /\ k \in Nat /\ k + 1 <= end
        BY <1>2, <1>3
      <4>4. at[k + 1] = y
        BY <4>2, <4>3, <2>4, <1>3
      <4>5. k + 1 # end
        BY <4>4, <2>3, <1>4
      <4> QED BY <4>3, <4>4, <4>5, <1>3
    <3> QED BY <3>1, <3>2
  <2> QED BY <2>3, <2>6, <1>1
<1> QED BY <1>5, <1>6

(* The macros say of a heap what HeapTiled says of it.                     *)
LEMMA TiledIs ==
    ASSUME NEW m, NEW e, NEW B, NEW sz, NEW F, Heap(m, e, B, sz, F, F)
    PROVE  /\ m[List(11)] = PACK(8, 1) /\ m[List(12)] = PACK(8, 1) /\ m[e - WSIZE] = PACK(0, 1)
           /\ \A b \in Blocks(m) :
                /\ b % 8 = 0 /\ (GET_BLK_SIZE(m, b) >= 16 \/ b = Sentinel)
                /\ NEXT(m, b) \in Blocks(m) \cup {e}
                /\ m[b - WSIZE] = m[FTRP(m, b)]
<1>1. /\ Layout(B, sz, e) /\ Tags(m, e, B, sz, F) /\ F \subseteq B \ {Prologue, Sentinel}
      /\ Blocks(m) = B \ {Prologue}
  BY BlocksAre DEF Heap
<1>2. Prologue \in B /\ sz[Prologue] = 8 /\ Prologue \notin F /\ Prologue \in Nat /\ Prologue >= 4
  <2>1. Prologue \in Nat /\ Prologue >= 4
    BY Places
  <2> QED BY <2>1, <1>1 DEF Layout
<1>3. m[List(11)] = PACK(8, 1) /\ m[List(12)] = PACK(8, 1)
  <2>1. List(11) = Prologue - 4 /\ List(12) = Prologue + sz[Prologue] - 8
    BY <1>2, Places DEF Prologue
  <2>2. m[Prologue - 4] = Tag(Prologue, sz, F) /\ m[Prologue + sz[Prologue] - 8] = Tag(Prologue, sz, F)
    BY <1>1, <1>2 DEF Tags
  <2>3. Tag(Prologue, sz, F) = 9
    BY <1>2 DEF Tag
  <2> QED BY <2>1, <2>2, <2>3 DEF PACK
<1>4. m[e - WSIZE] = PACK(0, 1)
  BY <1>1 DEF Tags, PACK, WSIZE
<1>5. ASSUME NEW b \in Blocks(m)
      PROVE  /\ b % 8 = 0 /\ (GET_BLK_SIZE(m, b) >= 16 \/ b = Sentinel)
             /\ NEXT(m, b) \in Blocks(m) \cup {e}
             /\ m[b - WSIZE] = m[FTRP(m, b)]
  <2>1. b \in B /\ b # Prologue
    BY <1>1
  <2>2. /\ GET_BLK_SIZE(m, b) = sz[b] /\ NEXT(m, b) = b + sz[b] /\ FTRP(m, b) = b + sz[b] - 8
    BY <2>1, Reads
  <2>3. b \in Nat /\ sz[b] \in Nat /\ sz[b] >= 8 /\ b % 8 = 0 /\ b >= Prologue /\ (sz[b] >= 16 \/ b = Sentinel)
    BY <1>1, <2>1, BlockFacts DEF Aligned
  <2>4. b + sz[b] \in (B \ {Prologue}) \cup {e}
    <3>1. b + sz[b] \in B \cup {e}
      BY <1>1, <2>1 DEF Layout
    <3>2. b + sz[b] # Prologue
      BY <1>2, <2>3
    <3> QED BY <3>1, <3>2
  <2>5. m[b - WSIZE] = m[b + sz[b] - 8]
    BY <1>1, <2>1 DEF Tags, WSIZE
  <2> QED BY <1>1, <2>2, <2>3, <2>4, <2>5
<1> QED BY <1>3, <1>4, <1>5

(* The free blocks found are those of the layout.                          *)
LEMMA FreeAre ==
    ASSUME NEW m, NEW e, NEW B, NEW sz, NEW F, NEW L, Heap(m, e, B, sz, F, L)
    PROVE  FreeBlocks(m) = F /\ Blocks(m) \ FreeBlocks(m) = B \ (F \cup {Prologue})
<1>1. Blocks(m) = B \ {Prologue} /\ F \subseteq B \ {Prologue, Sentinel}
  BY BlocksAre DEF Heap
<1>2. \A b \in B : GET_BLK_ALLOC(m, b) <=> b \notin F
  BY Reads
<1> QED BY <1>1, <1>2 DEF FreeBlocks

(* The blocks that a list is found to hold, and how they are linked.       *)
LEMMA ListsAre ==
    ASSUME NEW m, NEW e, NEW B, NEW sz, NEW F, Heap(m, e, B, sz, F, F), NEW i \in 0..LIST_NUM - 1
    PROVE  /\ ListBlocks(m, i) = {b \in FreeBlocks(m) : get_list_index(GET_BLK_SIZE(m, b)) = i}
           /\ \A b \in ListBlocks(m, i) \cup {List(i)} :
                FD(m, b) # NULL => FD(m, b) \in ListBlocks(m, i) /\ BK(m, FD(m, b)) = b
<1> DEFINE list == List(i)
           f == FreeList(m, list)
<1>1. list \in Heads
  BY DEF Heads
<1>2. ListBlocks(m, i) = {f[n] : n \in DOMAIN f}
  BY DEF ListBlocks
<1> HIDE DEF list
<1>3. /\ \A n \in DOMAIN f : f[n] \in F /\ get_list(sz[f[n]]) = list
      /\ \A b \in F : get_list(sz[b]) = list => \E n \in DOMAIN f : f[n] = b
  BY <1>1, ListContents
<1> HIDE DEF f
<1>4. ListBlocks(m, i) = {b \in F : get_list(sz[b]) = list}
  BY <1>2, <1>3
<1>5. FreeBlocks(m) = F /\ Layout(B, sz, e) /\ Links(m, F, sz) /\ F \subseteq B \ {Prologue, Sentinel}
  BY FreeAre DEF Heap
<1>6. \A b \in F : GET_BLK_SIZE(m, b) = sz[b]
  BY <1>5, Reads
<1>7. \A b \in F : get_list(sz[b]) = list <=> get_list_index(sz[b]) = i
  <2> SUFFICES ASSUME NEW b \in F PROVE get_list(sz[b]) = list <=> get_list_index(sz[b]) = i
    OBVIOUS
  <2>1. sz[b] \in Nat
    BY <1>5, BlockFacts
  <2> DEFINE j == get_list_index(sz[b])
  <2>2. j \in 0..LIST_NUM - 1 /\ get_list(sz[b]) = List(j)
    BY <2>1, IndexCorrect DEF get_list
  <2> HIDE DEF j
  <2>3. List(j) = HeapLo + 4 * j /\ List(i) = HeapLo + 4 * i /\ HeapLo \in Nat
    BY <2>2, Places
  <2> QED BY <2>2, <2>3, Places DEF list, j
<1>8. ListBlocks(m, i) = {b \in FreeBlocks(m) : get_list_index(GET_BLK_SIZE(m, b)) = i}
  BY <1>4, <1>5, <1>6, <1>7
<1>9. F \cap Heads = {}
  BY <1>5, LinkWords
<1>10. ASSUME NEW b \in ListBlocks(m, i) \cup {list}, FD(m, b) # NULL
       PROVE  FD(m, b) \in ListBlocks(m, i) /\ BK(m, FD(m, b)) = b
  <2>1. b \in F \cup Heads /\ Class(sz, b) = list
    BY <1>1, <1>4, <1>9, <1>10 DEF Class
  <2>2. m[b] \in F /\ m[m[b] + 4] = b /\ Class(sz, m[b]) = list
    BY <2>1, <1>5, <1>10 DEF Links, FD
  <2>3. get_list(sz[m[b]]) = list
    BY <2>2, <1>9 DEF Class
  <2> QED BY <2>2, <2>3, <1>4 DEF FD, BK, WSIZE
<1> QED BY <1>8, <1>10 DEF list

(* The heap that the inductive invariant speaks of.                        *)
LEMMA HeapHolds ==
    ASSUME HeapInductive, status = "ok"
    PROVE  \E B, sz, F : /\ Heap(mem, brk, B, sz, F, F) /\ NoNeighbours(sz, F, {})
                         /\ Held(B \ F, sz, block, Ids)
BY DEF HeapInductive, Valid

(* The blocks cover the heap, with equal tags (HeapTiled).                 *)
THEOREM HeapTiledCorrect == Spec => []HeapTiled
<1>1. HeapInductive => HeapTiled
  <2> SUFFICES ASSUME HeapInductive, status = "ok"
               PROVE  /\ mem[List(11)] = PACK(8, 1) /\ mem[List(12)] = PACK(8, 1)
                      /\ mem[brk - WSIZE] = PACK(0, 1)
                      /\ \A b \in Blocks(mem) :
                           /\ b % 8 = 0 /\ (GET_BLK_SIZE(mem, b) >= 16 \/ b = Sentinel)
                           /\ NEXT(mem, b) \in Blocks(mem) \cup {brk}
                           /\ mem[b - WSIZE] = mem[FTRP(mem, b)]
    BY DEF HeapTiled
  <2>1. PICK B, sz, F : Heap(mem, brk, B, sz, F, F)
    BY HeapHolds
  <2> QED BY <2>1, TiledIs
<1> QED BY <1>1, HeapInductiveCorrect, PTL

(* The free lists hold the free blocks, each in its list (FreeListsExact). *)
THEOREM FreeListsExactCorrect == Spec => []FreeListsExact
<1>1. HeapInductive => FreeListsExact
  <2> SUFFICES ASSUME HeapInductive, status = "ok", NEW i \in 0..LIST_NUM - 1
               PROVE  /\ ListBlocks(mem, i) = {b \in FreeBlocks(mem) : get_list_index(GET_BLK_SIZE(mem, b)) = i}
                      /\ \A b \in ListBlocks(mem, i) \cup {List(i)} :
                           FD(mem, b) # NULL => FD(mem, b) \in ListBlocks(mem, i) /\ BK(mem, FD(mem, b)) = b
    BY DEF FreeListsExact
  <2>1. PICK B, sz, F : Heap(mem, brk, B, sz, F, F)
    BY HeapHolds
  <2> QED BY <2>1, ListsAre
<1> QED BY <1>1, HeapInductiveCorrect, PTL

(* No two neighbours are both free (NoAdjacentFree).                       *)
THEOREM NoAdjacentFreeCorrect == Spec => []NoAdjacentFree
<1>1. HeapInductive => NoAdjacentFree
  <2> SUFFICES ASSUME HeapInductive, status = "ok", NEW b \in FreeBlocks(mem)
               PROVE  NEXT(mem, b) \notin FreeBlocks(mem)
    BY DEF NoAdjacentFree
  <2>1. PICK B, sz, F : Heap(mem, brk, B, sz, F, F) /\ NoNeighbours(sz, F, {})
    BY HeapHolds
  <2>2. FreeBlocks(mem) = F /\ F \subseteq B
    BY <2>1, FreeAre DEF Heap
  <2>3. NEXT(mem, b) = b + sz[b]
    BY <2>1, <2>2, Reads
  <2> QED BY <2>1, <2>2, <2>3 DEF NoNeighbours
<1> QED BY <1>1, HeapInductiveCorrect, PTL

(* The allocated blocks are those of the trace (AllocatedAreHeld).         *)
THEOREM AllocatedAreHeldCorrect == Spec => []AllocatedAreHeld
<1>1. HeapInductive => AllocatedAreHeld
  <2> DEFINE Lows == {block[i].lo : i \in {j \in Ids : block[j] # NoBlock}}
  <2> SUFFICES ASSUME HeapInductive, status = "ok"
               PROVE  /\ Blocks(mem) \ FreeBlocks(mem) = {Sentinel} \cup Lows
                      /\ \A i \in Ids :
                           block[i] # NoBlock => GET_BLK_SIZE(mem, block[i].lo) >= block[i].size + 8
    BY DEF AllocatedAreHeld
  <2>1. PICK B, sz, F : Heap(mem, brk, B, sz, F, F) /\ Held(B \ F, sz, block, Ids)
    BY HeapHolds
  <2>2. /\ Blocks(mem) \ FreeBlocks(mem) = B \ (F \cup {Prologue})
        /\ Sentinel \in B /\ Sentinel \notin F /\ Sentinel # Prologue
    <3>1. Sentinel # Prologue
      BY Places
    <3>2. Blocks(mem) \ FreeBlocks(mem) = B \ (F \cup {Prologue})
      BY <2>1, FreeAre
    <3>3. Sentinel \in B /\ Sentinel \notin F
      BY <2>1 DEF Heap, Layout
    <3> QED BY <3>1, <3>2, <3>3
  <2>3. /\ \A i \in Ids : block[i] # NoBlock =>
             /\ block[i].lo \in (B \ F) \ {Prologue, Sentinel}
             /\ sz[block[i].lo] >= block[i].size + 8
        /\ \A b \in (B \ F) \ {Prologue, Sentinel} : \E i \in Ids : block[i] # NoBlock /\ block[i].lo = b
    BY <2>1 DEF Held
  <2>4. \A i \in Ids : block[i] # NoBlock => GET_BLK_SIZE(mem, block[i].lo) >= block[i].size + 8
    BY <2>1, <2>3, Reads
  <2>5. (B \ F) \ {Prologue, Sentinel} = Lows
    BY <2>3
  <2> QED BY <2>2, <2>4, <2>5
<1> QED BY <1>1, HeapInductiveCorrect, PTL

(* A free block too small for the block that malloc needs is too small for *)
(* the request, because sizes are multiples of 8.                          *)
LEMMA TooSmall ==
    ASSUME NEW size \in 1..SizeT - 16, NEW x, Aligned(x), x >= 16, x < Full(size)
    PROVE  x < Requested(size) + 8
<1> DEFINE full == Full(size)
           req  == Requested(size)
<1>1. /\ full \in Nat /\ Aligned(full) /\ req \in Nat
      /\ full < req + 16 \/ full = 16
  BY FullIs
<1> HIDE DEF full, req
<1>2. x + 8 <= full /\ x \in Int /\ full # 16
  <2>1. x \in Int /\ x < full
    BY DEF Aligned, full
  <2>2. x + 8 <= full
    BY <1>1, <2>1, AlignedEight
  <2> QED BY <1>1, <2>1, <2>2
<1> QED BY <1>1, <1>2 DEF req

(* malloc moves the break only when no free block is large enough.         *)
LEMMA AllocGrows ==
    ASSUME HeapInductive, NEW i \in Ids, NEW size \in Sizes, Alloc(i, size),
           block'[i] # NoBlock, brk' > brk
    PROVE  /\ block'[i].size = size /\ \A j \in Ids \ {i} : block'[j] = block[j]
           /\ \A b \in FreeBlocks(mem) : GET_BLK_SIZE(mem, b) < Requested(size) + 8
<1> DEFINE r == mm_malloc(heap, size)
           h == heap
<1>1. status = "ok" /\ block[i] = NoBlock /\ Got(i, size, r) /\ block \in [Ids -> [lo : Nat, size : Nat]]
  BY DEF Alloc, HeapInductive
<1>2. PICK B, sz, F : Valid(mem, brk, B, sz, F)
  BY <1>1 DEF HeapInductive
<1>3. h.mem = mem /\ h.brk = brk /\ r = mm_malloc(h, size) /\ size \in 1..SizeT - 16
  BY HeapIs, SizesAre
<1> HIDE DEF r, h
<1>4. brk \in Nat
  BY <1>2, BlockFacts DEF Valid, Heap
<1>5. r.bp # NULL /\ brk' = r.brk /\ block' = [block EXCEPT ![i] = [lo |-> r.bp, size |-> size]]
  BY <1>1, <1>4 DEF Got
<1>6. \A b \in F : sz[b] < Full(size)
  <2>1. r.brk # h.brk
    BY <1>3, <1>4, <1>5
  <2> QED BY <1>2, <1>3, <1>5, <2>1, MallocIs
<1>7. Heap(mem, brk, B, sz, F, F) /\ Layout(B, sz, brk) /\ F \subseteq B \ {Prologue, Sentinel}
  BY <1>2 DEF Valid, Heap
<1>8. FreeBlocks(mem) = F
  BY <1>7, FreeAre
<1>9. ASSUME NEW b \in F PROVE GET_BLK_SIZE(mem, b) < Requested(size) + 8
  <2>1. GET_BLK_SIZE(mem, b) = sz[b]
    BY <1>7, Reads
  <2>2. Aligned(sz[b]) /\ sz[b] >= 16
    BY <1>7, BlockFacts
  <2>3. sz[b] < Full(size)
    BY <1>6
  <2> DEFINE x == sz[b]
  <2> HIDE DEF x
  <2>4. x < Requested(size) + 8
    BY <2>2, <2>3, <1>3, TooSmall DEF x
  <2> QED BY <2>1, <2>4 DEF x
<1> QED BY <1>1, <1>5, <1>8, <1>9

(* The heap grows only when no free block fits (GrowsOnlyWhenNoneFits).    *)
THEOREM GrowsOnlyWhenNoneFitsCorrect == Spec => GrowsOnlyWhenNoneFits
<1> DEFINE Grown == \A i \in Ids :
                      block[i] = NoBlock /\ block'[i] # NoBlock /\ brk' > brk =>
                          \A b \in FreeBlocks(mem) :
                              GET_BLK_SIZE(mem, b) < Requested(block'[i].size) + 8
<1>1. HeapInductive /\ [Next]_vars => [Grown]_vars
  <2> SUFFICES ASSUME HeapInductive, Next, NEW i \in Ids,
                      block[i] = NoBlock, block'[i] # NoBlock, brk' > brk
               PROVE  \A b \in FreeBlocks(mem) :
                          GET_BLK_SIZE(mem, b) < Requested(block'[i].size) + 8
    OBVIOUS
  <2>1. block \in [Ids -> [lo : Nat, size : Nat]]
    BY DEF HeapInductive
  <2>2. ASSUME NEW j \in Ids, NEW size \in Sizes, Alloc(j, size)
        PROVE  \A b \in FreeBlocks(mem) :
                   GET_BLK_SIZE(mem, b) < Requested(block'[i].size) + 8
    <3>1. j = i
      <4>1. CASE block'[j] = NoBlock
        <5>1. block' = block \/ \E lo : block' = [block EXCEPT ![j] = [lo |-> lo, size |-> size]]
          BY <2>2 DEF Alloc, Got
        <5> QED BY <5>1, <2>1
      <4>2. CASE block'[j] # NoBlock
        <5>1. \A k \in Ids \ {j} : block'[k] = block[k]
          BY <2>2, <4>2, AllocGrows
        <5> QED BY <5>1
      <4> QED BY <4>1, <4>2
    <3> QED BY <3>1, <2>2, AllocGrows
  <2>3. ASSUME NEW j \in Ids, NEW size \in Sizes, Realloc(j, size) PROVE FALSE
    <3>1. block[j] # NoBlock
      BY <2>3 DEF Realloc
    <3>2. block' = block \/ \E lo : block' = [block EXCEPT ![j] = [lo |-> lo, size |-> size]]
      BY <2>3 DEF Realloc, Got
    <3> QED BY <3>1, <3>2, <2>1
  <2>4. ASSUME NEW j \in Ids, Release(j) PROVE FALSE
    <3>1. block' = [block EXCEPT ![j] = NoBlock]
      BY <2>4 DEF Release
    <3> QED BY <3>1, <2>1
  <2>5. CASE NextTrace
    BY <2>5 DEF NextTrace
  <2> QED BY <2>2, <2>3, <2>4, <2>5 DEF Next
<1> HIDE DEF Grown
<1>2. (Spec => [][Grown]_vars)
  BY <1>1, HeapInductiveCorrect, PTL DEF Spec
<1> QED BY <1>2 DEF GrowsOnlyWhenNoneFits, Grown

-----------------------------------------------------------------------------
(* The refinement.                                                         *)

(* The words of a payload, as in the refinement mapping.                   *)
Contents(m, b) == [k \in 1..b.size \div WSIZE |-> m[b.lo + WSIZE * (k - 1)]]

(* The words of a payload: as many as its size says.                       *)
LEMMA ContentsLength ==
    ASSUME NEW m, NEW b, b.size \in Nat
    PROVE  Len(Contents(m, b)) = b.size \div 4 /\ DOMAIN Contents(m, b) = 1..b.size \div 4
<1> DEFINE n == b.size \div 4
           c == Contents(m, b)
           S == {c[k] : k \in 1..n}
<1>1. n \in Nat /\ c = [k \in 1..n |-> m[b.lo + WSIZE * (k - 1)]]
  BY DEF Contents, WSIZE
<1> HIDE DEF n, c
<1>2. DOMAIN c = 1..n /\ c \in [1..n -> S]
  BY <1>1
<1> HIDE DEF S
<1>3. c \in Seq(S)
  BY <1>1, <1>2, SeqDef
<1>4. Len(c) \in Nat /\ DOMAIN c = 1..Len(c)
  BY <1>3, LenProperties
<1>5. Len(c) = n
  BY <1>1, <1>2, <1>4
<1> QED BY <1>2, <1>5 DEF n, c

(* No block, no words.                                                     *)
LEMMA NoContents == \A m : Contents(m, NoBlock) = <<>>
<1> SUFFICES ASSUME NEW m PROVE Contents(m, NoBlock) = <<>>
  OBVIOUS
<1> DEFINE c == Contents(m, NoBlock)
<1>1. c = [k \in 1..0 |-> m[0 + WSIZE * (k - 1)]]
  BY DEF Contents, NoBlock, WSIZE
<1>2. c \in Seq({})
  <2>1. c \in [1..0 -> {}]
    BY <1>1
  <2> HIDE DEF c
  <2> QED BY <2>1, SeqDef
<1>3. Len(c) = 0
  <2>1. NoBlock.size \in Nat /\ NoBlock.size \div 4 = 0
    BY DEF NoBlock
  <2> QED BY <2>1, ContentsLength
<1> HIDE DEF c
<1> QED BY <1>2, <1>3, EmptySeq DEF c

(* The payload of a block that is kept.                                    *)
LEMMA ContentsKept ==
    ASSUME NEW m, NEW m2, NEW A, NEW B, NEW sz, NEW e, Layout(B, sz, e), A \subseteq B,
           NEW bl, NEW I, Held(A, sz, bl, I), NEW j \in I, Kept(m, m2, A, sz)
    PROVE  Contents(m2, bl[j]) = Contents(m, bl[j])
<1>1. CASE bl[j] = NoBlock
  BY <1>1, NoContents
<1>2. CASE bl[j] # NoBlock
  <2> DEFINE b == bl[j].lo
             s == bl[j].size
  <2>1. b \in A /\ s \in Nat /\ sz[b] >= s + 8 /\ sz[b] \in Nat
    BY <1>2, SizesAre, BlockFacts DEF Held
  <2>2. ASSUME NEW k \in 1..s \div 4 PROVE m2[b + 4 * (k - 1)] = m[b + 4 * (k - 1)]
    <3> DEFINE o == 4 * (k - 1)
    <3>1. o \in Nat /\ o % 4 = 0 /\ o < sz[b] - 8
      BY <2>1
    <3> HIDE DEF b, s, o
    <3>2. b + o \in Words /\ b <= b + o /\ b + o < b + sz[b] - 8
      BY <2>1, <3>1, PayloadWords
    <3>3. m2[b + o] = m[b + o]
      BY <2>1, <3>2 DEF Kept
    <3> QED BY <3>3 DEF o
  <2> QED BY <2>2 DEF Contents, WSIZE
<1> QED BY <1>1, <1>2

(* A block's payload lies in the block.                                    *)
LEMMA HeldPayload ==
    ASSUME NEW A, NEW B, NEW sz, NEW e, Layout(B, sz, e), A \subseteq B,
           NEW n \in A, NEW size \in Nat, sz[n] >= size + 8
    PROVE  /\ n % 8 = 0 /\ n \in Nat /\ n < e /\ n >= HeapLo
           /\ \A x \in n..n + size - 1 : n <= x /\ x < n + sz[n] /\ x \in HeapLo..e - 1
<1>1. /\ n \in Nat /\ sz[n] \in Nat /\ sz[n] >= 8 /\ n % 8 = 0 /\ n >= Prologue /\ n + sz[n] <= e /\ e \in Nat
  BY BlockFacts DEF Aligned
<1>2. Prologue = HeapLo + 48 /\ HeapLo \in Nat
  BY Places
<1> QED BY <1>1, <1>2

(* Two payloads have no word in common.                                    *)
LEMMA HeldApart ==
    ASSUME NEW B, NEW sz, NEW e, Layout(B, sz, e), NEW n \in B, NEW c \in B, n # c,
           NEW s \in Nat, NEW t \in Nat, sz[n] >= s + 8, sz[c] >= t + 8
    PROVE  (n..n + s - 1) \cap (c..c + t - 1) = {}
<1>1. n \in Nat /\ c \in Nat /\ sz[n] \in Nat /\ sz[c] \in Nat
  BY BlockFacts
<1>2. n + sz[n] <= c \/ c + sz[c] <= n
  BY BlocksApart
<1> QED BY <1>1, <1>2

(* malloc and realloc, as the driver sees them.                            *)
LEMMA StoresImplements ==
    ASSUME HeapInductive, NEW i \in Ids, NEW size \in Sizes, Stores(i, size)
    PROVE  Abstract!Grows /\ Abstract!Moved(i)
<1>1. PICK B, sz, F, A, B2, sz2, F2, n : Stored(i, size, B, sz, F, A, B2, sz2, F2, n)
  BY DEF Stores
<1>2. /\ Valid(mem, brk, B, sz, F) /\ Valid(mem', brk', B2, sz2, F2)
      /\ brk' >= brk
      /\ A \subseteq B \ F /\ Held(A, sz, block, Ids \ {i})
      /\ \A c \in A : sz2[c] = sz[c]
      /\ n \in Nat /\ n \notin A /\ B2 \ F2 = A \cup {n}
      /\ sz2[n] >= size + 8
      /\ block' = [block EXCEPT ![i] = [lo |-> n, size |-> size]]
      /\ Kept(mem, mem', A, sz)
      /\ \A o \in Nat : o % 4 = 0 /\ o < block[i].size => mem'[n + o] = mem[block[i].lo + o]
  BY <1>1 DEF Stored
<1>3. Layout(B, sz, brk) /\ Layout(B2, sz2, brk') /\ A \subseteq B /\ A \subseteq B2 /\ n \in B2
  BY <1>2 DEF Valid, Heap
<1>4. /\ brk \in Nat /\ brk' \in Nat /\ brk' <= MaxAddr /\ MaxAddr \in Nat /\ size \in Nat
      /\ HeapLo \in Nat
  <2> DEFINE e2 == brk'
  <2>1. Layout(B2, sz2, e2)
    BY <1>3
  <2> HIDE DEF e2
  <2>2. e2 \in Nat /\ e2 <= MaxAddr
    BY <2>1, BlockFacts
  <2>3. brk \in Nat
    BY <1>3, BlockFacts
  <2> QED BY <2>2, <2>3, Places, SizesAre DEF e2
<1>5. block \in [Ids -> [lo : Nat, size : Nat]]
  BY DEF HeapInductive
<1>6. /\ block'[i].lo = n /\ block'[i].size = size /\ \A j \in Ids \ {i} : block'[j] = block[j]
      /\ block' = [block EXCEPT ![i] = [lo |-> block'[i].lo, size |-> block'[i].size]]
  BY <1>2, <1>5
<1>7. /\ n % 8 = 0 /\ n \in HeapLo..brk' - 1
      /\ n..n + size - 1 \subseteq HeapLo..brk' - 1
  <2> DEFINE e2 == brk'
  <2>1. Layout(B2, sz2, e2) /\ n \in B2 /\ B2 \subseteq B2
    BY <1>3
  <2> HIDE DEF e2
  <2>2. /\ n % 8 = 0 /\ n \in Nat /\ n < e2 /\ n >= HeapLo
        /\ \A x \in n..n + size - 1 : x \in HeapLo..e2 - 1
    BY <2>1, <1>2, <1>4, HeldPayload
  <2>3. e2 \in Nat
    BY <1>4 DEF e2
  <2>4. n \in HeapLo..e2 - 1
    BY <2>2, <2>3, <1>4
  <2> QED BY <2>2, <2>4 DEF e2
<1>8. ASSUME NEW j \in Ids \ {i}
      PROVE  (n..n + size - 1) \cap (block[j].lo..block[j].lo + block[j].size - 1) = {}
  <2>1. CASE block[j] = NoBlock
    <3>1. block[j].lo..block[j].lo + block[j].size - 1 = {}
      BY <2>1 DEF NoBlock
    <3> QED BY <3>1
  <2>2. CASE block[j] # NoBlock
    <3> DEFINE c == block[j].lo
               t == block[j].size
               e2 == brk'
    <3>1. c \in A /\ t \in Nat /\ sz2[c] >= t + 8
      BY <2>2, <1>2, SizesAre DEF Held
    <3>2. Layout(B2, sz2, e2) /\ c \in B2 /\ c # n
      BY <1>2, <1>3, <3>1
    <3> HIDE DEF c, t, e2
    <3>3. (n..n + size - 1) \cap (c..c + t - 1) = {}
      BY <1>2, <1>3, <1>4, <3>1, <3>2, HeldApart
    <3> QED BY <3>3 DEF c, t
  <2> QED BY <2>1, <2>2
<1>9. ASSUME NEW j \in Ids \ {i} PROVE Contents(mem', block'[j]) = Contents(mem, block[j])
  <2> DEFINE m  == mem
             m2 == mem'
             bl == block
             e  == brk
             I  == Ids \ {i}
  <2>1. Kept(m, m2, A, sz) /\ Held(A, sz, bl, I) /\ j \in I /\ Layout(B, sz, e) /\ A \subseteq B
    BY <1>2, <1>3
  <2> HIDE DEF m, m2, bl, I, e
  <2>2. Contents(m2, bl[j]) = Contents(m, bl[j])
    BY <2>1, ContentsKept
  <2> QED BY <2>2, <1>6 DEF m, m2, bl
<1> DEFINE old == Contents(mem, block[i])
           new == Contents(mem', block'[i])
<1>10. Len(new) = block'[i].size \div 4 /\ DOMAIN new = 1..size \div 4
  <2> DEFINE m2 == mem'
             b2 == block'[i]
  <2>1. b2.size \in Nat /\ b2.size = size
    BY <1>4, <1>6
  <2> HIDE DEF m2, b2
  <2>2. Len(Contents(m2, b2)) = b2.size \div 4 /\ DOMAIN Contents(m2, b2) = 1..b2.size \div 4
    BY <2>1, ContentsLength
  <2> QED BY <2>1, <2>2 DEF m2, b2
<1>11. DOMAIN old = 1..block[i].size \div 4 /\ block[i].size \in Nat
  BY <1>5, ContentsLength
<1>12. ASSUME NEW k \in DOMAIN new \cap DOMAIN old PROVE new[k] = old[k]
  <2>1. k \in 1..size \div 4 /\ k \in 1..block[i].size \div 4
    BY <1>10, <1>11
  <2> DEFINE o == 4 * (k - 1)
  <2>2. new[k] = mem'[n + o] /\ old[k] = mem[block[i].lo + o]
    BY <2>1, <1>6 DEF Contents, WSIZE
  <2>3. o \in Nat /\ o % 4 = 0 /\ o < block[i].size
    BY <2>1, <1>11
  <2> QED BY <2>2, <2>3, <1>2
<1>13. Abstract!Grows
  BY <1>2, <1>4 DEF Abstract!Grows
<1>14. Abstract!Apart(i, block'[i])
  BY <1>6, <1>8 DEF Abstract!Apart, Abstract!Payload
<1>16. Abstract!Acceptable(i, block'[i], brk')
  <2>1. size > 0
    BY SizesAre
  <2>2. n + size - 1 \in n..n + size - 1 /\ n \in n..n + size - 1
    BY <1>2, <1>4, <2>1
  <2>3. ASSUME NEW at \in {n, n + size - 1} PROVE at \in HeapLo..brk' - 1
    BY <1>7, <2>2
  <2>4. ASSUME NEW at \in {n, n + size - 1}, NEW j \in Ids \ {i}
        PROVE  at \notin Abstract!Payload(block[j])
    BY <1>8, <2>2 DEF Abstract!Payload
  <2> QED BY <1>6, <1>7, <2>3, <2>4 DEF Abstract!Acceptable
<1>15. Abstract!Moved(i)
  BY <1>6, <1>7, <1>9, <1>10, <1>12, <1>14, <1>16 DEF Abstract!Moved, Contents
<1> QED BY <1>13, <1>15

(* No block, and no words.                                                 *)
LEMMA EmptyImplements ==
    ASSUME block' = [i \in Ids |-> NoBlock]
    PROVE  [i \in Ids |-> Contents(mem', block'[i])] = [i \in Ids |-> <<>>]
<1>1. \A i \in Ids : Contents(mem', block'[i]) = <<>>
  <2> DEFINE m2 == mem'
  <2>1. \A i \in Ids : block'[i] = NoBlock
    OBVIOUS
  <2> HIDE DEF m2
  <2>2. \A i \in Ids : Contents(m2, block'[i]) = <<>>
    BY <2>1, NoContents
  <2> QED BY <2>2 DEF m2
<1> QED BY <1>1

(* A failure is no step for the driver: no payload changes.                *)
LEMMA StopsImplements ==
    ASSUME HeapInductive, Stops
    PROVE  UNCHANGED Abstract!vars
<1>1. PICK B, sz, F : Valid(mem, brk, B, sz, F) /\ Held(B \ F, sz, block, Ids) /\ Kept(mem, mem', B, sz)
  BY DEF Stops
<1>2. UNCHANGED <<brk, block>>
  BY DEF Stops
<1>3. ASSUME NEW i \in Ids PROVE Contents(mem', block[i]) = Contents(mem, block[i])
  <2> DEFINE m  == mem
             m2 == mem'
             bl == block
             e  == brk
             A  == B \ F
  <2>1. Kept(m, m2, A, sz) /\ Held(A, sz, bl, Ids) /\ Layout(B, sz, e) /\ A \subseteq B
    BY <1>1 DEF Kept, Valid, Heap
  <2> HIDE DEF m, m2, bl, e, A
  <2>2. Contents(m2, bl[i]) = Contents(m, bl[i])
    BY <2>1, ContentsKept
  <2> QED BY <2>2 DEF m, m2, bl
<1> QED BY <1>2, <1>3 DEF Abstract!vars, Contents

(* A block is freed, as the driver sees it.                                *)
LEMMA ReleaseImplements ==
    ASSUME HeapInductive, NEW i \in Ids, Release(i)
    PROVE  Abstract!Release(i)
<1>1. /\ UNCHANGED <<brk, status>> /\ block' = [block EXCEPT ![i] = NoBlock]
      /\ \E B, sz, F, B2, sz2, F2, A :
           /\ Valid(mem, brk, B, sz, F) /\ Held(B \ F, sz, block, Ids)
           /\ Valid(mem', brk', B2, sz2, F2) /\ Held(B2 \ F2, sz2, block', Ids)
           /\ A \subseteq B \ F /\ Held(A, sz, block, Ids \ {i}) /\ Kept(mem, mem', A, sz)
  BY ReleaseFrees
<1>2. PICK B, sz, F, A :
        /\ Valid(mem, brk, B, sz, F)
        /\ A \subseteq B \ F /\ Held(A, sz, block, Ids \ {i}) /\ Kept(mem, mem', A, sz)
  BY <1>1
<1>3. block[i] # NoBlock /\ block \in [Ids -> [lo : Nat, size : Nat]]
  BY DEF Release, HeapInductive
<1>4. block'[i] = NoBlock /\ \A j \in Ids \ {i} : block'[j] = block[j]
  BY <1>1, <1>3
<1>5. ASSUME NEW j \in Ids \ {i} PROVE Contents(mem', block'[j]) = Contents(mem, block[j])
  <2> DEFINE m  == mem
             m2 == mem'
             bl == block
             e  == brk
             I  == Ids \ {i}
  <2>1. Kept(m, m2, A, sz) /\ Held(A, sz, bl, I) /\ j \in I /\ Layout(B, sz, e) /\ A \subseteq B
    BY <1>2 DEF Valid, Heap
  <2> HIDE DEF m, m2, bl, e, I
  <2>2. Contents(m2, bl[j]) = Contents(m, bl[j])
    BY <2>1, ContentsKept
  <2> QED BY <2>2, <1>4 DEF m, m2, bl
<1>6. Contents(mem', block'[i]) = <<>>
  <2> DEFINE m2 == mem'
             b2 == block'[i]
  <2>1. b2 = NoBlock
    BY <1>4
  <2> HIDE DEF m2, b2
  <2>2. Contents(m2, b2) = <<>>
    BY <2>1, NoContents
  <2> QED BY <2>2 DEF m2, b2
<1>7. [j \in Ids |-> Contents(mem', block'[j])] =
          [[j \in Ids |-> Contents(mem, block[j])] EXCEPT ![i] = <<>>]
  BY <1>5, <1>6
<1> QED BY <1>1, <1>3, <1>7 DEF Abstract!Release, Abstract!Free, NoBlock, Contents

(* Where a trace begins.                                                   *)
LEMMA FirstBreak == Sentinel + 8 \in HeapLo..MaxAddr
BY Places

(* Each step of the allocator is a step that the driver accepts.           *)
LEMMA StepImplements ==
    ASSUME HeapInductive, [Next]_vars
    PROVE  [Abstract!Next]_(Abstract!vars)
<1>1. ASSUME NEW i \in Ids, NEW size \in Sizes, Alloc(i, size)
      PROVE  [Abstract!Next]_(Abstract!vars)
  <2>1. CASE Stops
    BY <2>1, StopsImplements
  <2>2. CASE Stores(i, size)
    <3>1. Abstract!Grows /\ Abstract!Moved(i)
      BY <2>2, StoresImplements
    <3>2. block[i] = NoBlock
      BY <1>1 DEF Alloc
    <3>3. Abstract!Malloc(i)
      BY <3>1, <3>2 DEF Abstract!Malloc, Abstract!Free, NoBlock
    <3> QED BY <3>3 DEF Abstract!Next
  <2> QED BY <1>1, <2>1, <2>2, AllocStores
<1>2. ASSUME NEW i \in Ids, NEW size \in Sizes, Realloc(i, size)
      PROVE  [Abstract!Next]_(Abstract!vars)
  <2>1. CASE Stops
    BY <2>1, StopsImplements
  <2>2. CASE Stores(i, size)
    <3>1. Abstract!Grows /\ Abstract!Moved(i)
      BY <2>2, StoresImplements
    <3>2. block[i] # NoBlock
      BY <1>2 DEF Realloc
    <3>3. Abstract!Realloc(i)
      BY <3>1, <3>2 DEF Abstract!Realloc, Abstract!Free, NoBlock
    <3> QED BY <3>3 DEF Abstract!Next
  <2> QED BY <1>2, <2>1, <2>2, ReallocStores
<1>3. ASSUME NEW i \in Ids, Release(i) PROVE [Abstract!Next]_(Abstract!vars)
  BY <1>3, ReleaseImplements DEF Abstract!Next
<1>4. CASE NextTrace
  <2>1. IsMemory(mem) /\ block' = [i \in Ids |-> NoBlock] /\ brk' = mm_init(mem).brk
    BY <1>4 DEF NextTrace, HeapInductive
  <2>2. brk' \in HeapLo..MaxAddr
    <3> DEFINE m == mem
    <3>1. IsMemory(m) /\ brk' = mm_init(m).brk
      BY <2>1
    <3> HIDE DEF m
    <3>2. mm_init(m).brk = Sentinel + 8
      BY <3>1, InitIs
    <3> QED BY <3>1, <3>2, FirstBreak
  <2>3. [i \in Ids |-> Contents(mem', block'[i])] = [i \in Ids |-> <<>>]
    BY <2>1, EmptyImplements
  <2>4. Abstract!Reset
    BY <2>1, <2>2, <2>3 DEF Abstract!Reset, Abstract!Free, NoBlock, Contents
  <2> QED BY <2>4 DEF Abstract!Next
<1>5. CASE UNCHANGED vars
  BY <1>5 DEF vars, Abstract!vars
<1> QED BY <1>1, <1>2, <1>3, <1>4, <1>5 DEF Next

(* The allocator implements what the driver demands (ImplementsAllocator). *)
THEOREM ImplementsAllocatorCorrect == Spec => ImplementsAllocator
<1>1. Init => Abstract!Init
  <2> SUFFICES ASSUME Init PROVE Abstract!Init
    OBVIOUS
  <2> DEFINE m == [a \in Words |-> 0]
  <2>1. block = [i \in Ids |-> NoBlock] /\ brk = mm_init(m).brk /\ IsMemory(m)
    BY DEF Init, IsMemory
  <2> HIDE DEF m
  <2>2. mm_init(m).brk = Sentinel + 8
    BY <2>1, InitIs
  <2>3. brk \in HeapLo..MaxAddr
    BY <2>1, <2>2, FirstBreak
  <2>4. \A i \in Ids : Contents(mem, block[i]) = <<>>
    BY <2>1, NoContents
  <2>5. [i \in Ids |-> Contents(mem, block[i])] = [i \in Ids |-> <<>>]
    BY <2>4
  <2>6. Abstract!Empty(brk)
    BY <2>1, <2>5 DEF Abstract!Empty, Abstract!Free, NoBlock, Contents
  <2> QED BY <2>3, <2>6 DEF Abstract!Init
<1>2. HeapInductive /\ [Next]_vars => [Abstract!Next]_(Abstract!vars)
  BY StepImplements
<1> QED BY <1>1, <1>2, HeapInductiveCorrect, PTL DEF Spec, ImplementsAllocator, Abstract!Spec

(* PayloadsApart, with the types it needs.                                 *)
ApartInductive ==
    /\ brk \in Nat
    /\ block \in [Ids -> [lo : Nat, size : Nat]]
    /\ Abstract!PayloadsApart

(* The constants are numbers.                                              *)
LEMMA Numbers == HeapLo \in Nat /\ MaxAddr \in Nat /\ Sizes \subseteq Nat
BY Places, SizesAre

(* A heap that grows keeps its addresses.                                  *)
LEMMA HeapGrows ==
    ASSUME NEW lo \in Nat, NEW hi \in Nat, NEW end \in Nat, NEW new \in hi..end
    PROVE  /\ lo..hi - 1 \subseteq lo..new - 1
           /\ lo..new - 1 \subseteq Nat
OBVIOUS

(* An empty heap.                                                          *)
LEMMA EmptyApart ==
    ASSUME brk \in Nat, block = [i \in Ids |-> Abstract!Free]
    PROVE  ApartInductive
<1>1. \A i \in Ids : block[i].lo = 0 /\ block[i].size = 0
  BY DEF Abstract!Free
<1>2. \A i \in Ids : Abstract!Payload(block[i]) = {}
  <2>1. SUFFICES ASSUME NEW i \in Ids PROVE Abstract!Payload(block[i]) = {}
    OBVIOUS
  <2>2. 0..0 + 0 - 1 = {}
    OBVIOUS
  <2>. QED BY <1>1, <2>2 DEF Abstract!Payload
<1>3. Abstract!PayloadsApart
  <2>1. SUFFICES ASSUME NEW i \in Ids
                 PROVE  /\ block[i].lo % 8 = 0 /\ Abstract!Payload(block[i]) \subseteq HeapLo..brk - 1
                        /\ \A j \in Ids \ {i} : Abstract!Payload(block[i]) \cap Abstract!Payload(block[j]) = {}
    BY DEF Abstract!PayloadsApart
  <2>. QED BY <1>1, <1>2
<1>4. block \in [Ids -> [lo : Nat, size : Nat]]
  BY DEF Abstract!Free
<1>. QED
  BY <1>3, <1>4 DEF ApartInductive

(* A block that is acceptable and apart leaves the payloads apart.         *)
LEMMA MovedApart ==
    ASSUME ApartInductive, NEW i \in Ids, Abstract!Grows, Abstract!Moved(i)
    PROVE  ApartInductive'
<1>. DEFINE b == block'[i]
<1>1. brk' \in Nat
  BY Numbers DEF ApartInductive, Abstract!Grows
<1>2. b.lo \in Nat /\ b.size \in Nat
  <2>1. b.size \in Sizes /\ b.lo \in HeapLo..brk' - 1
    BY DEF Abstract!Moved
  <2>2. HeapLo..brk' - 1 \subseteq Nat
    BY HeapGrows, Numbers DEF Abstract!Grows, ApartInductive
  <2>. QED BY <2>1, <2>2, Numbers
<1>3. /\ block' \in [Ids -> [lo : Nat, size : Nat]]
      /\ \A j \in Ids \ {i} : block'[j] = block[j]
  <2>1. block \in [Ids -> [lo : Nat, size : Nat]]
    BY DEF ApartInductive
  <2>2. block' = [block EXCEPT ![i] = b] /\ b \in [lo : Nat, size : Nat]
    BY <1>2, <2>1 DEF Abstract!Moved
  <2> HIDE DEF b
  <2>. QED BY <2>1, <2>2
<1>4. /\ b.lo % 8 = 0 /\ Abstract!Payload(b) \subseteq HeapLo..brk' - 1
      /\ \A j \in Ids \ {i} : Abstract!Payload(b) \cap Abstract!Payload(block'[j]) = {}
  <2>1. b.lo % 8 = 0 /\ b.lo \in HeapLo..brk' - 1 /\ b.lo + b.size - 1 \in HeapLo..brk' - 1
    BY DEF Abstract!Moved, Abstract!Acceptable
  <2>2. HeapLo \in Nat
    BY Numbers
  <2> DEFINE e2 == brk'
  <2> HIDE DEF b, e2
  <2>3. b.lo..b.lo + b.size - 1 \subseteq HeapLo..e2 - 1
    <3>1. b.lo \in HeapLo..e2 - 1 /\ b.lo + b.size - 1 \in HeapLo..e2 - 1 /\ e2 \in Nat
      BY <1>1, <2>1 DEF e2
    <3> QED BY <1>2, <2>2, <3>1
  <2>4. Abstract!Payload(b) \subseteq HeapLo..brk' - 1
    BY <2>3 DEF Abstract!Payload, e2
  <2>5. \A j \in Ids \ {i} : Abstract!Payload(b) \cap Abstract!Payload(block'[j]) = {}
    BY <1>3 DEF Abstract!Moved, Abstract!Apart, b
  <2> QED BY <2>1, <2>4, <2>5
<1>5. HeapLo..brk - 1 \subseteq HeapLo..brk' - 1
  <2>1. brk \in Nat /\ HeapLo \in Nat /\ MaxAddr \in Nat /\ brk' \in brk..MaxAddr
    BY Numbers DEF Abstract!Grows, ApartInductive
  <2>. QED BY <2>1, HeapGrows
<1>6. \A j \in Ids \ {i} : /\ block'[j].lo % 8 = 0
                           /\ Abstract!Payload(block'[j]) \subseteq HeapLo..brk' - 1
  BY <1>3, <1>5 DEF ApartInductive, Abstract!PayloadsApart
<1>7. \A j, k \in Ids \ {i} : j # k => Abstract!Payload(block'[j]) \cap Abstract!Payload(block'[k]) = {}
  BY <1>3 DEF ApartInductive, Abstract!PayloadsApart
<1>8. Abstract!PayloadsApart'
  <2>1. SUFFICES ASSUME NEW j \in Ids
                 PROVE  /\ block'[j].lo % 8 = 0
                        /\ Abstract!Payload(block'[j]) \subseteq HeapLo..brk' - 1
                        /\ \A k \in Ids \ {j} : Abstract!Payload(block'[j]) \cap Abstract!Payload(block'[k]) = {}
    BY DEF Abstract!PayloadsApart, Abstract!Payload
  <2>2. CASE j = i
    BY <2>2, <1>4
  <2>3. CASE j # i
    BY <2>3, <1>4, <1>6, <1>7
  <2>. QED BY <2>2, <2>3
<1>. QED
  BY <1>1, <1>3, <1>8 DEF ApartInductive

(* A block that is freed.                                                  *)
LEMMA ReleaseApart ==
    ASSUME ApartInductive, NEW i \in Ids, Abstract!Release(i)
    PROVE  ApartInductive'
<1>1. /\ block' = [block EXCEPT ![i] = Abstract!Free] /\ brk' = brk
  BY DEF Abstract!Release
<1>2. /\ block' \in [Ids -> [lo : Nat, size : Nat]]
      /\ block'[i].lo = 0 /\ block'[i].size = 0
      /\ \A j \in Ids \ {i} : block'[j] = block[j]
  BY <1>1 DEF ApartInductive, Abstract!Free
<1>3. Abstract!Payload(block'[i]) = {}
  BY <1>2 DEF Abstract!Payload
<1>4. Abstract!PayloadsApart'
  <2>1. SUFFICES ASSUME NEW j \in Ids
                 PROVE  /\ block'[j].lo % 8 = 0
                        /\ Abstract!Payload(block'[j]) \subseteq HeapLo..brk' - 1
                        /\ \A k \in Ids \ {j} : Abstract!Payload(block'[j]) \cap Abstract!Payload(block'[k]) = {}
    BY DEF Abstract!PayloadsApart, Abstract!Payload
  <2>2. CASE j = i
    BY <2>2, <1>2, <1>3
  <2>3. CASE j # i
    BY <2>3, <1>1, <1>2, <1>3 DEF ApartInductive, Abstract!PayloadsApart
  <2>. QED BY <2>2, <2>3
<1>. QED
  BY <1>1, <1>2, <1>4 DEF ApartInductive

(* What the allocator promises of each new payload keeps all of them in    *)
(* the heap, aligned and apart from each other.                            *)
LEMMA PromiseKeepsApart == Abstract!Spec => []Abstract!PayloadsApart
<1>1. Abstract!Init => ApartInductive
  <2>1. SUFFICES ASSUME Abstract!Init PROVE ApartInductive
    OBVIOUS
  <2>2. brk \in Nat /\ block = [i \in Ids |-> Abstract!Free]
    BY <2>1, Numbers DEF Abstract!Init, Abstract!Empty
  <2>. QED BY <2>2, EmptyApart
<1>2. ApartInductive /\ [Abstract!Next]_(Abstract!vars) => ApartInductive'
  <2>1. SUFFICES ASSUME ApartInductive, [Abstract!Next]_(Abstract!vars) PROVE ApartInductive'
    OBVIOUS
  <2>2. CASE Abstract!Reset
    <3>1. brk' \in Nat /\ block' = [i \in Ids |-> Abstract!Free]
      BY <2>1, <2>2, Numbers DEF Abstract!Reset
    <3>2. \A i \in Ids : block'[i].lo = 0 /\ block'[i].size = 0
      BY <3>1 DEF Abstract!Free
    <3>3. \A i \in Ids : Abstract!Payload(block'[i]) = {}
      BY <3>2 DEF Abstract!Payload
    <3>4. Abstract!PayloadsApart'
      BY <3>2, <3>3 DEF Abstract!PayloadsApart, Abstract!Payload
    <3>5. block' \in [Ids -> [lo : Nat, size : Nat]]
      BY <3>1 DEF Abstract!Free
    <3>. QED BY <3>1, <3>4, <3>5 DEF ApartInductive
  <2>3. ASSUME NEW i \in Ids, Abstract!Malloc(i) \/ Abstract!Realloc(i) PROVE ApartInductive'
    BY <2>1, <2>3, MovedApart DEF Abstract!Malloc, Abstract!Realloc
  <2>4. ASSUME NEW i \in Ids, Abstract!Release(i) PROVE ApartInductive'
    BY <2>1, <2>4, ReleaseApart
  <2>5. CASE UNCHANGED Abstract!vars
    BY <2>1, <2>5 DEF Abstract!vars, ApartInductive, Abstract!PayloadsApart, Abstract!Payload
  <2>. QED BY <2>1, <2>2, <2>3, <2>4, <2>5 DEF Abstract!Next
<1>3. ApartInductive => Abstract!PayloadsApart
  BY DEF ApartInductive
<1>. QED
  BY <1>1, <1>2, <1>3, PTL DEF Abstract!Spec

(* The payloads of the program's allocator are in the heap, aligned and    *)
(* apart (mm_malloc, mm_realloc and mm_free): each new one is acceptable   *)
(* and overlaps none of the others.                                        *)
THEOREM PayloadsApartCorrect == Spec => []Abstract!PayloadsApart
BY ImplementsAllocatorCorrect, PromiseKeepsApart, PTL DEF ImplementsAllocator
=============================================================================
