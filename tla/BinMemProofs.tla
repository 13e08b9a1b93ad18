---------------------------- MODULE BinMemProofs ----------------------------
(***************************************************************************)
(* The bin allocator, for every heap size, every bound and any requests:   *)
(* the heaps stay tiled by chunks whose tags agree, every free chunk is    *)
(* filed once, and no call takes away or shrinks the block of another.     *)
(***************************************************************************)
EXTENDS BinMem, SequenceTheorems, FiniteSetTheorems, TLAPS

-----------------------------------------------------------------------------
(* What the searches of bin_mem_alloc take for granted about sizes.        *)

(* A chunk has room for its header and the bytes asked for, and wastes     *)
(* less than 16 of them; it can hold the links of a free chunk.            *)
THEOREM ChunkFits ==
  ASSUME NEW si \in Nat, si >= 8
  PROVE  /\ ChunkFor(si) \in Nat /\ ChunkFor(si) % Align = 0
         /\ ChunkFor(si) >= MINSIZE
         /\ ChunkFor(si) >= HeadSize + si /\ ChunkFor(si) < HeadSize + si + 16
BY DEF ChunkFor, MINSIZE, Align, HeadSize

(* Larger chunks are filed in the same or a higher bin, so the walk upward *)
(* from a request's bin passes every free chunk that could serve it.       *)
THEOREM BinsAscend ==
  ASSUME NEW s \in Nat, NEW t \in Nat, s <= t
  PROVE  bin_index(s) <= bin_index(t)
<1> DEFINE n == s \div 512
           k == t \div 512
<1>1. n \in Nat /\ k \in Nat /\ n <= k
  OBVIOUS
<1>2. /\ s \div 8 <= t \div 8 /\ s \div 64 <= t \div 64 /\ s \div 4096 <= t \div 4096
      /\ s \div 32768 <= t \div 32768 /\ s \div 262144 <= t \div 262144
  OBVIOUS
<1>3. /\ n = 0 => s \div 8 <= 63
      /\ n <= 4 => s \div 64 <= 39
      /\ n <= 20 => n <= 20
      /\ n <= 84 => s \div 4096 <= 10
      /\ n <= 340 => s \div 32768 <= 5
      /\ n <= 1364 => s \div 262144 <= 2
  OBVIOUS
<1>4. /\ k > 0 => t \div 64 >= 8
      /\ k > 4 => k >= 5
      /\ k > 20 => t \div 4096 >= 2
      /\ k > 84 => t \div 32768 >= 1
      /\ k > 340 => t \div 262144 >= 0
  OBVIOUS
<1> QED
  BY <1>1, <1>2, <1>3, <1>4 DEF bin_index

(* A chunk from the bin of a small request, or from the next one, needs no *)
(* look at its size: it is large enough and its rest is not worth a chunk. *)
THEOREM SmallBinsExact ==
  ASSUME NEW siz \in Nat, siz % Align = 0, IsSmall(siz),
         NEW t \in Nat, t % Align = 0,
         bin_index(t) = bin_index(siz) \/ bin_index(t) = bin_index(siz) + 1
  PROVE  siz <= t /\ t < siz + MINSIZE
<1>1. siz \div 512 = 0 /\ siz \div 8 <= 62 /\ bin_index(siz) = siz \div 8
  BY DEF IsSmall, bin_index
<1>2. t \div 512 = 0
  <2>1. SUFFICES ASSUME t >= 512 PROVE FALSE
    OBVIOUS
  <2>2. bin_index(512) <= bin_index(t)
    BY <2>1, BinsAscend
  <2>3. bin_index(512) = 64
    BY DEF bin_index
  <2>4. bin_index(t) <= 63
    BY <1>1
  <2>5. bin_index(t) \in Int
    BY DEF bin_index
  <2> QED
    BY <2>2, <2>3, <2>4, <2>5
<1>3. bin_index(t) = t \div 8
  BY <1>2 DEF bin_index
<1> QED
  BY <1>1, <1>3 DEF Align, MINSIZE

-----------------------------------------------------------------------------
(* Numbers, and lists that name no chunk twice. *)

(* The least element of a set of numbers does for induction.               *)
LEMMA AllNumbers ==
  ASSUME NEW D, 0 \in D, \A m \in Nat : m \in D => m + 1 \in D
  PROVE  Nat \subseteq D
<1> SUFFICES ASSUME Nat \ D # {} PROVE FALSE
  OBVIOUS
<1>1. PICK m \in Nat \ D : \A k \in Nat \ D : <<k, m>> \notin OpToRel(<, Nat)
  <2>1. Nat \ D \subseteq Nat
    OBVIOUS
  <2> QED
    BY <2>1, NatLessThanWellFounded, WFMin
<1>2. m \in Nat /\ m \notin D /\ m # 0
  BY <1>1
<1>3. m - 1 \in Nat /\ m - 1 < m /\ (m - 1) + 1 = m
  BY <1>2
<1>4. m - 1 \notin D
  BY <1>2, <1>3
<1>5. <<m - 1, m>> \in OpToRel(<, Nat)
  BY <1>2, <1>3 DEF OpToRel
<1> QED
  BY <1>1, <1>3, <1>4, <1>5

Distinct(q) == \A i, j \in 1 .. Len(q) : q[i] = q[j] => i = j

LEMMA ToSetIs ==
  ASSUME NEW S, NEW q \in Seq(S)
  PROVE  /\ Len(q) \in Nat /\ DOMAIN q = 1 .. Len(q)
         /\ \A x : x \in ToSet(q) <=> \E i \in 1 .. Len(q) : q[i] = x
         /\ ToSet(q) \subseteq S
         /\ \A i \in 1 .. Len(q) : q[i] \in S /\ q[i] \in ToSet(q)
<1>1. Len(q) \in Nat /\ DOMAIN q = 1 .. Len(q)
  BY LenProperties
<1>2. \A i \in 1 .. Len(q) : q[i] \in S
  BY ElementOfSeq
<1> QED
  BY <1>1, <1>2 DEF ToSet

LEMMA AppendList ==
  ASSUME NEW S, NEW q \in Seq(S), Distinct(q), NEW a \in S, a \notin ToSet(q)
  PROVE  /\ Append(q, a) \in Seq(S) /\ Distinct(Append(q, a))
         /\ ToSet(Append(q, a)) = ToSet(q) \cup {a}
         /\ Len(Append(q, a)) = Len(q) + 1
<1> DEFINE r == Append(q, a)
           n == Len(q)
<1>1. n \in Nat /\ \A x : x \in ToSet(q) <=> \E i \in 1 .. n : q[i] = x
  BY ToSetIs
<1>2. /\ r \in Seq(S) /\ Len(r) = n + 1 /\ r[n + 1] = a
      /\ \A i \in 1 .. n : r[i] = q[i]
  OBVIOUS
<1>3. \A x : x \in ToSet(r) <=> \E i \in 1 .. Len(r) : r[i] = x
  BY <1>2, ToSetIs
<1> HIDE DEF r, n
<1>4. \A i \in 1 .. n : q[i] # a
  BY <1>1
<1>5. ASSUME NEW i \in 1 .. n + 1, NEW j \in 1 .. n + 1, r[i] = r[j]
      PROVE  i = j
  <2>1. \A k \in 1 .. n + 1 : k \in 1 .. n \/ k = n + 1
    BY <1>1
  <2>2. \A k, l \in 1 .. n : q[k] = q[l] => k = l
    BY DEF Distinct, n
  <2> QED
    BY <1>2, <1>4, <1>5, <2>1, <2>2
<1>6. ToSet(r) = ToSet(q) \cup {a}
  <2>1. \A k : k \in 1 .. n + 1 <=> k \in 1 .. n \/ k = n + 1
    BY <1>1
  <2> QED
    BY <1>1, <1>2, <1>3, <2>1
<1> QED
  BY <1>2, <1>5, <1>6 DEF r, n, Distinct

LEMMA RemoveAtIs ==
  ASSUME NEW S, NEW q \in Seq(S), NEW k \in 1 .. Len(q)
  PROVE  /\ RemoveAt(q, k) \in Seq(S) /\ Len(RemoveAt(q, k)) = Len(q) - 1
         /\ \A i \in 1 .. Len(q) - 1 :
               RemoveAt(q, k)[i] = IF i < k THEN q[i] ELSE q[i + 1]
<1> DEFINE n == Len(q)
           x == SubSeq(q, 1, k - 1)
           y == SubSeq(q, k + 1, n)
<1>1. n \in Nat /\ \A i \in 1 .. n : q[i] \in S
  BY LenProperties, ElementOfSeq
<1>2. k \in Int /\ 1 <= k /\ k <= n
  BY <1>1
<1> HIDE DEF n
<1>3. /\ x \in Seq(S) /\ Len(x) = k - 1
      /\ \A i \in 1 .. k - 1 : x[i] = q[i]
  <2>1. \A i \in 1 .. k - 1 : q[i] \in S
    BY <1>1, <1>2
  <2>2. /\ x \in Seq(S) /\ Len(x) = IF 1 <= k - 1 THEN (k - 1) - 1 + 1 ELSE 0
        /\ \A i \in 1 .. (k - 1) - 1 + 1 : x[i] = q[1 + i - 1]
    BY <1>2, <2>1, SubSeqProperties
  <2> QED
    BY <1>2, <2>2
<1>4. /\ y \in Seq(S) /\ Len(y) = n - k
      /\ \A i \in 1 .. n - k : y[i] = q[k + i]
  <2>1. \A i \in k + 1 .. n : q[i] \in S
    BY <1>1, <1>2
  <2>2. k + 1 \in Int /\ n \in Int
    BY <1>1, <1>2
  <2>3. /\ y \in Seq(S) /\ Len(y) = IF k + 1 <= n THEN n - (k + 1) + 1 ELSE 0
        /\ \A i \in 1 .. n - (k + 1) + 1 : y[i] = q[(k + 1) + i - 1]
    BY <2>2, <2>1, SubSeqProperties
  <2> QED
    BY <1>1, <1>2, <2>3
<1> HIDE DEF x, y
<1>5. /\ x \o y \in Seq(S) /\ Len(x \o y) = Len(x) + Len(y)
      /\ \A i \in 1 .. Len(x) + Len(y) :
            (x \o y)[i] = IF i <= Len(x) THEN x[i] ELSE y[i - Len(x)]
  <2>1. x \in Seq(S) /\ y \in Seq(S)
    BY <1>3, <1>4
  <2> QED
    BY ONLY <2>1, ConcatProperties
<1>6. RemoveAt(q, k) = x \o y
  BY DEF RemoveAt, x, y, n
<1>7. ASSUME NEW i \in 1 .. n - 1
      PROVE  (x \o y)[i] = IF i < k THEN q[i] ELSE q[i + 1]
  <2>1. i \in 1 .. Len(x) + Len(y)
    BY <1>1, <1>2, <1>3, <1>4
  <2>2. CASE i < k
    <3>1. i <= Len(x) /\ i \in 1 .. k - 1
      BY <1>1, <1>2, <1>3, <2>2
    <3> QED
      BY <1>3, <1>5, <2>1, <2>2, <3>1
  <2>3. CASE ~(i < k)
    <3>1. ~(i <= Len(x)) /\ i - Len(x) \in 1 .. n - k /\ k + (i - Len(x)) = i + 1
      BY <1>1, <1>2, <1>3, <2>3
    <3>2. (x \o y)[i] = y[i - Len(x)]
      BY <1>5, <2>1, <3>1
    <3> QED
      BY <1>4, <2>3, <3>1, <3>2
  <2> QED
    BY <2>2, <2>3
<1> QED
  <2>1. Len(x \o y) = n - 1
    BY <1>1, <1>2, <1>3, <1>4, <1>5
  <2>2. /\ RemoveAt(q, k) \in Seq(S) /\ Len(RemoveAt(q, k)) = n - 1
        /\ \A i \in 1 .. n - 1 : RemoveAt(q, k)[i] = IF i < k THEN q[i] ELSE q[i + 1]
    BY <1>5, <1>6, <1>7, <2>1
  <2> QED
    BY <2>2 DEF n

LEMMA RemoveFirstList ==
  ASSUME NEW S, NEW q \in Seq(S), Distinct(q), NEW a
  PROVE  /\ RemoveFirst(q, a) \in Seq(S) /\ Distinct(RemoveFirst(q, a))
         /\ ToSet(RemoveFirst(q, a)) = ToSet(q) \ {a}
         /\ Len(RemoveFirst(q, a)) = IF a \in ToSet(q) THEN Len(q) - 1 ELSE Len(q)
<1> DEFINE n == Len(q)
<1>1. n \in Nat /\ \A x : x \in ToSet(q) <=> \E i \in 1 .. n : q[i] = x
  BY ToSetIs
<1>2. CASE a \notin ToSet(q)
  <2>1. RemoveFirst(q, a) = q
    BY <1>1, <1>2 DEF RemoveFirst
  <2> QED
    BY <1>2, <2>1
<1>3. CASE a \in ToSet(q)
  <2>1. PICK k \in 1 .. n : q[k] = a
    BY <1>1, <1>3
  <2>2. \A i \in 1 .. n : q[i] = a => i = k
    BY <2>1 DEF Distinct
  <2> DEFINE I == {i \in 1 .. Len(q) : q[i] = a}
  <2>3. I = {k}
    BY <2>1, <2>2
  <2>4. Min(I) = k
    <3>1. k \in Int
      BY <1>1
    <3> HIDE DEF I
    <3> QED
      BY <2>3, <3>1 DEF Min
  <2>5. SelectInSeq(q, LAMBDA v : v = a) = k
    BY <2>3, <2>4 DEF SelectInSeq
  <2> DEFINE r == RemoveFirst(q, a)
  <2>6. r = RemoveAt(q, k)
    BY <2>1, <2>5 DEF RemoveFirst
  <2>7. /\ r \in Seq(S) /\ Len(r) = n - 1
        /\ \A i \in 1 .. n - 1 : r[i] = IF i < k THEN q[i] ELSE q[i + 1]
    BY <2>6, RemoveAtIs
  <2>8. \A x : x \in ToSet(r) <=> \E i \in 1 .. Len(r) : r[i] = x
    BY <2>7, ToSetIs
  <2>9. \A i, j \in 1 .. n : q[i] = q[j] => i = j
    BY DEF Distinct
  <2> HIDE DEF r, n
  <2>10. ASSUME NEW i \in 1 .. n - 1, NEW j \in 1 .. n - 1, r[i] = r[j]
         PROVE  i = j
    <3> DEFINE at(l) == IF l < k THEN l ELSE l + 1
    <3>1. \A l \in 1 .. n - 1 : at(l) \in 1 .. n /\ r[l] = q[at(l)]
      BY <1>1, <2>7
    <3>2. at(i) = at(j)
      BY <2>9, <2>10, <3>1
    <3> QED
      BY <1>1, <3>2
  <2>11. ASSUME NEW x PROVE x \in ToSet(r) <=> x \in ToSet(q) /\ x # a
    <3>1. ASSUME NEW i \in 1 .. n - 1
          PROVE  \E j \in 1 .. n : j # k /\ r[i] = q[j]
      <4>1. CASE i < k
        BY <1>1, <2>7, <4>1
      <4>2. CASE ~(i < k)
        <5>1. i + 1 \in 1 .. n /\ i + 1 # k
          BY <1>1, <4>2
        <5> QED
          BY <2>7, <4>2, <5>1
      <4> QED
        BY <4>1, <4>2
    <3>2. ASSUME NEW j \in 1 .. n, j # k
          PROVE  \E i \in 1 .. n - 1 : r[i] = q[j]
      <4>1. CASE j < k
        <5>1. j \in 1 .. n - 1
          BY <1>1, <4>1
        <5> QED
          BY <2>7, <4>1, <5>1
      <4>2. CASE j > k
        <5>1. j - 1 \in 1 .. n - 1 /\ ~(j - 1 < k) /\ (j - 1) + 1 = j
          BY <1>1, <4>2
        <5> QED
          BY <2>7, <5>1
      <4> QED
        BY <1>1, <3>2, <4>1, <4>2
    <3>3. x \in ToSet(r) <=> \E j \in 1 .. n : j # k /\ x = q[j]
      <4>1. x \in ToSet(r) <=> \E i \in 1 .. n - 1 : r[i] = x
        BY <2>7, <2>8
      <4>2. ASSUME NEW i \in 1 .. n - 1, r[i] = x
            PROVE  \E j \in 1 .. n : j # k /\ x = q[j]
        BY <3>1, <4>2
      <4>3. ASSUME NEW j \in 1 .. n, j # k, x = q[j]
            PROVE  \E i \in 1 .. n - 1 : r[i] = x
        BY <3>2, <4>3
      <4> QED
        BY <4>1, <4>2, <4>3
    <3> QED
      BY <1>1, <2>1, <2>2, <3>3
  <2> QED
    BY <1>3, <2>7, <2>10, <2>11 DEF r, n, Distinct
<1> QED
  BY <1>2, <1>3

-----------------------------------------------------------------------------
(* The sum of the sizes of the large blocks. *)

SumOf(f, S) == MapThenSumSet(LAMBDA h : f[h], S)
Pick(S) == CHOOSE x \in S : TRUE
IsIter(g, f, S) ==
  g = [s \in SUBSET S |-> IF s = {} THEN 0 ELSE f[Pick(s)] + g[s \ {Pick(s)}]]

LEMMA SumIsIter ==
  ASSUME NEW f, NEW S
  PROVE  SumOf(f, S) = (CHOOSE g : IsIter(g, f, S))[S]
BY DEF SumOf, MapThenSumSet, MapThenFoldSet, IsIter, Pick

LEMMA PickIn == ASSUME NEW S, S # {} PROVE Pick(S) \in S
BY DEF Pick

(* Two functions that satisfy the equation agree wherever both are defined. *)
LEMMA IterUnique ==
  ASSUME NEW f, NEW S, NEW T, NEW g, NEW h, IsIter(g, f, S), IsIter(h, f, T),
         NEW n \in Nat
  PROVE  \A s \in SUBSET (S \cap T) : IsFiniteSet(s) /\ Cardinality(s) = n => g[s] = h[s]
<1> DEFINE D == {k \in Nat : \A s \in SUBSET (S \cap T) :
                   IsFiniteSet(s) /\ Cardinality(s) = k => g[s] = h[s]}
<1>1. 0 \in D
  <2> SUFFICES ASSUME NEW s \in SUBSET (S \cap T), IsFiniteSet(s), Cardinality(s) = 0
               PROVE  g[s] = h[s]
    OBVIOUS
  <2>1. s = {}
    BY FS_EmptySet
  <2>2. g[s] = 0 /\ h[s] = 0
    BY <2>1 DEF IsIter
  <2> QED
    BY <2>2
<1>2. ASSUME NEW k \in Nat, k \in D PROVE k + 1 \in D
  <2> SUFFICES ASSUME NEW s \in SUBSET (S \cap T), IsFiniteSet(s), Cardinality(s) = k + 1
               PROVE  g[s] = h[s]
    OBVIOUS
  <2>1. s # {}
    BY FS_EmptySet
  <2> DEFINE u == s \ {Pick(s)}
  <2>2. Pick(s) \in s
    BY <2>1, PickIn
  <2>3. IsFiniteSet(u) /\ Cardinality(u) = k
    BY <2>2, FS_RemoveElement
  <2>4. u \in SUBSET (S \cap T)
    OBVIOUS
  <2>5. g[u] = h[u]
    BY <1>2, <2>3, <2>4
  <2>6. g[s] = f[Pick(s)] + g[u]
    BY <2>1 DEF IsIter
  <2>7. h[s] = f[Pick(s)] + h[u]
    BY <2>1 DEF IsIter
  <2> QED
    BY <2>5, <2>6, <2>7
<1> HIDE DEF D
<1>3. n \in D
  BY <1>1, <1>2, AllNumbers
<1> QED
  BY <1>3 DEF D

SumEquation(f, S) ==
  SumOf(f, S) = IF S = {} THEN 0 ELSE f[Pick(S)] + SumOf(f, S \ {Pick(S)})

LEMMA EquationFromIter ==
  ASSUME NEW f, NEW S, IsFiniteSet(S),
         \A u \in SUBSET S : \E g : IsIter(g, f, u)
  PROVE  SumEquation(f, S)
<1> DEFINE G(u) == CHOOSE g : IsIter(g, f, u)
<1>1. \A u \in SUBSET S : IsIter(G(u), f, u) /\ SumOf(f, u) = G(u)[u]
  BY SumIsIter
<1>2. CASE S = {}
  <2> HIDE DEF G
  <2>1. IsIter(G(S), f, S)
    BY <1>1
  <2>2. G(S)[S] = 0
    BY <1>2, <2>1 DEF IsIter
  <2> QED
    BY <1>1, <1>2, <2>2 DEF SumEquation
<1>3. CASE S # {}
  <2> DEFINE u == S \ {Pick(S)}
  <2>1. IsFiniteSet(u) /\ u \in SUBSET S /\ u \in SUBSET (S \cap u)
    BY FS_Subset
  <2> HIDE DEF G
  <2>2. G(S)[S] = f[Pick(S)] + G(S)[u]
    BY <1>1, <1>3 DEF IsIter
  <2>3. G(S)[u] = G(u)[u]
    <3>1. IsIter(G(S), f, S) /\ IsIter(G(u), f, u)
      BY <1>1, <2>1
    <3>2. Cardinality(u) \in Nat
      BY <2>1, FS_CardinalityType
    <3> HIDE DEF u
    <3> QED
      BY <2>1, <3>1, <3>2, IterUnique
  <2> QED
    BY <1>1, <1>3, <2>1, <2>2, <2>3 DEF SumEquation
<1> QED
  BY <1>2, <1>3

LEMMA IterExists ==
  ASSUME NEW f, NEW n \in Nat
  PROVE  \A S : IsFiniteSet(S) /\ Cardinality(S) <= n => \E g : IsIter(g, f, S)
<1> DEFINE D == {k \in Nat : \A S : IsFiniteSet(S) /\ Cardinality(S) <= k =>
                                \E g : IsIter(g, f, S)}
<1>0. ASSUME NEW S, IsFiniteSet(S),
             \A s \in SUBSET S : s # {} => SumEquation(f, s \ {Pick(s)})
      PROVE  \E g : IsIter(g, f, S)
  <2> DEFINE g == [s \in SUBSET S |-> IF s = {} THEN 0
                                      ELSE f[Pick(s)] + SumOf(f, s \ {Pick(s)})]
  <2>1. ASSUME NEW s \in SUBSET S, s # {}
        PROVE  g[s \ {Pick(s)}] = SumOf(f, s \ {Pick(s)})
    BY <1>0, <2>1 DEF SumEquation
  <2>2. g = [s \in SUBSET S |-> IF s = {} THEN 0 ELSE f[Pick(s)] + g[s \ {Pick(s)}]]
    BY <2>1
  <2> QED
    BY <2>2 DEF IsIter
<1>1. 0 \in D
  <2> SUFFICES ASSUME NEW S, IsFiniteSet(S), Cardinality(S) <= 0
               PROVE  \E g : IsIter(g, f, S)
    OBVIOUS
  <2>1. Cardinality(S) \in Nat
    BY FS_CardinalityType
  <2>2. S = {}
    BY <2>1, FS_EmptySet
  <2>3. \A s \in SUBSET S : s # {} => SumEquation(f, s \ {Pick(s)})
    BY <2>2
  <2> QED
    BY <1>0, <2>3
<1>2. ASSUME NEW k \in Nat, k \in D PROVE k + 1 \in D
  <2> SUFFICES ASSUME NEW S, IsFiniteSet(S), Cardinality(S) <= k + 1
               PROVE  \E g : IsIter(g, f, S)
    OBVIOUS
  <2>1. ASSUME NEW s \in SUBSET S, s # {}
        PROVE  SumEquation(f, s \ {Pick(s)})
    <3> DEFINE t == s \ {Pick(s)}
    <3>1. t \in SUBSET S /\ t # S /\ IsFiniteSet(t)
      BY <2>1, PickIn, FS_Subset
    <3>2. Cardinality(t) < Cardinality(S) /\ Cardinality(S) \in Nat /\ Cardinality(t) \in Nat
      BY <3>1, FS_Subset, FS_CardinalityType
    <3>3. ASSUME NEW u \in SUBSET t PROVE \E g : IsIter(g, f, u)
      <4>1. IsFiniteSet(u) /\ Cardinality(u) <= Cardinality(t) /\ Cardinality(u) \in Nat
        BY <3>1, FS_Subset, FS_CardinalityType
      <4>2. Cardinality(u) <= k
        BY <3>2, <4>1
      <4> QED
        BY <1>2, <4>1, <4>2
    <3> HIDE DEF t
    <3>4. SumEquation(f, t)
      BY <3>1, <3>3, EquationFromIter
    <3> QED
      BY <3>4 DEF t
  <2> QED
    BY <1>0, <2>1
<1> HIDE DEF D
<1>3. n \in D
  BY <1>1, <1>2, AllNumbers
<1> QED
  BY <1>3 DEF D

LEMMA SumUnfolds ==
  ASSUME NEW f, NEW S, IsFiniteSet(S)
  PROVE  SumOf(f, S) = IF S = {} THEN 0 ELSE f[Pick(S)] + SumOf(f, S \ {Pick(S)})
<1>1. ASSUME NEW u \in SUBSET S PROVE \E g : IsIter(g, f, u)
  <2>1. IsFiniteSet(u) /\ Cardinality(u) \in Nat /\ Cardinality(u) <= Cardinality(u)
    BY FS_Subset, FS_CardinalityType
  <2> QED
    BY <2>1, IterExists
<1> QED
  BY <1>1, EquationFromIter DEF SumEquation

(* An element more adds its size, whichever it is. *)
SumLaw(f, S) ==
  /\ SumOf(f, S) \in Int
  /\ \A x \in S : SumOf(f, S) = f[x] + SumOf(f, S \ {x})
  /\ (\A x \in S : f[x] \in Nat) => SumOf(f, S) \in Nat
Summable(f, S) == IsFiniteSet(S) /\ \A x \in S : f[x] \in Int

LEMMA SumRemovesUpTo ==
  ASSUME NEW f, NEW n \in Nat
  PROVE  \A S : Summable(f, S) /\ Cardinality(S) <= n => SumLaw(f, S)
<1> DEFINE D == {k \in Nat : \A S : Summable(f, S) /\ Cardinality(S) <= k => SumLaw(f, S)}
<1>1. 0 \in D
  <2> SUFFICES ASSUME NEW S, Summable(f, S), Cardinality(S) <= 0
               PROVE  SumLaw(f, S)
    OBVIOUS
  <2>1. S = {}
    <3>1. Cardinality(S) \in Nat
      BY FS_CardinalityType DEF Summable
    <3> QED
      BY <3>1, FS_EmptySet DEF Summable
  <2>2. SumOf(f, S) = 0
    BY <2>1, SumUnfolds DEF Summable
  <2> QED
    BY <2>1, <2>2 DEF SumLaw
<1>2. ASSUME NEW k \in Nat, k \in D PROVE k + 1 \in D
  <2> SUFFICES ASSUME NEW S, Summable(f, S), Cardinality(S) <= k + 1
               PROVE  SumLaw(f, S)
    OBVIOUS
  <2>1. CASE S = {}
    <3>1. SumOf(f, S) = 0
      BY <2>1, SumUnfolds DEF Summable
    <3> QED
      BY <2>1, <3>1 DEF SumLaw
  <2>2. CASE S # {}
    <3> DEFINE y == Pick(S)
    <3>1. y \in S /\ SumOf(f, S) = f[y] + SumOf(f, S \ {y})
      BY <2>2, PickIn, SumUnfolds DEF Summable
    <3> HIDE DEF y
    <3>2. ASSUME NEW T \in SUBSET S, T # S
          PROVE  SumLaw(f, T)
      <4>1. Summable(f, T)
        BY FS_Subset DEF Summable
      <4>2. Cardinality(T) \in Nat /\ Cardinality(S) \in Nat /\ Cardinality(T) < Cardinality(S)
        BY <3>2, FS_Subset, FS_CardinalityType DEF Summable
      <4> QED
        BY <1>2, <4>1, <4>2
    <3>3. ASSUME NEW x \in S
          PROVE  SumOf(f, S \ {x}) \in Int /\ f[x] \in Int
      BY <3>2 DEF SumLaw, Summable
    <3>4. ASSUME NEW x \in S, x # y
          PROVE  SumOf(f, S) = f[x] + SumOf(f, S \ {x})
      <4> DEFINE T == (S \ {x}) \ {y}
      <4>1. T = (S \ {y}) \ {x} /\ T \in SUBSET S /\ T # S
        OBVIOUS
      <4>2. SumOf(f, S \ {x}) = f[y] + SumOf(f, T)
        BY <3>1, <3>2, <3>4 DEF SumLaw
      <4>3. SumOf(f, S \ {y}) = f[x] + SumOf(f, T)
        BY <3>1, <3>2, <3>4, <4>1 DEF SumLaw
      <4>4. SumOf(f, T) \in Int
        BY <3>2, <4>1 DEF SumLaw
      <4> QED
        BY <3>1, <3>3, <4>2, <4>3, <4>4
    <3>5. ASSUME \A x \in S : f[x] \in Nat
          PROVE  SumOf(f, S) \in Nat
      <4>1. SumOf(f, S \ {y}) \in Nat /\ f[y] \in Nat
        BY <3>1, <3>2, <3>5 DEF SumLaw
      <4> QED
        BY <3>1, <4>1
    <3> QED
      <4>1. SumOf(f, S) \in Int
        BY <3>1, <3>3
      <4>2. \A x \in S : SumOf(f, S) = f[x] + SumOf(f, S \ {x})
        BY <3>1, <3>4
      <4> QED
        BY <3>5, <4>1, <4>2 DEF SumLaw
  <2> QED
    BY <2>1, <2>2
<1> HIDE DEF D
<1>3. n \in D
  BY <1>1, <1>2, AllNumbers
<1> QED
  BY <1>3 DEF D

LEMMA SumFacts ==
  ASSUME NEW f, NEW S, Summable(f, S)
  PROVE  /\ SumOf(f, S) \in Int /\ SumOf(f, {}) = 0
         /\ \A x \in S : SumOf(f, S) = f[x] + SumOf(f, S \ {x})
         /\ (\A x \in S : f[x] \in Nat) => SumOf(f, S) \in Nat
<1>1. Cardinality(S) \in Nat /\ Cardinality(S) <= Cardinality(S)
  BY FS_CardinalityType DEF Summable
<1>2. SumOf(f, {}) = 0
  BY SumUnfolds, FS_EmptySet
<1>3. SumLaw(f, S)
  BY <1>1, SumRemovesUpTo
<1> QED
  BY <1>2, <1>3 DEF SumLaw

(* The sum looks at nothing but the elements. *)
LEMMA SumSame ==
  ASSUME NEW f, NEW g, NEW n \in Nat
  PROVE  \A S : Summable(f, S) /\ Cardinality(S) <= n /\ (\A x \in S : f[x] = g[x])
                => SumOf(f, S) = SumOf(g, S)
<1> DEFINE D == {k \in Nat : \A S : Summable(f, S) /\ Cardinality(S) <= k
                                    /\ (\A x \in S : f[x] = g[x])
                                    => SumOf(f, S) = SumOf(g, S)}
<1>1. 0 \in D
  <2> SUFFICES ASSUME NEW S, Summable(f, S), Cardinality(S) <= 0
               PROVE  SumOf(f, S) = SumOf(g, S)
    OBVIOUS
  <2>1. S = {}
    <3>1. Cardinality(S) \in Nat
      BY FS_CardinalityType DEF Summable
    <3> QED
      BY <3>1, FS_EmptySet DEF Summable
  <2> QED
    BY <2>1, SumUnfolds, FS_EmptySet
<1>2. ASSUME NEW k \in Nat, k \in D PROVE k + 1 \in D
  <2> SUFFICES ASSUME NEW S, Summable(f, S), Cardinality(S) <= k + 1,
                      \A x \in S : f[x] = g[x]
               PROVE  SumOf(f, S) = SumOf(g, S)
    OBVIOUS
  <2>1. CASE S = {}
    BY <2>1, SumUnfolds, FS_EmptySet
  <2>2. CASE S # {}
    <3> DEFINE y == Pick(S)
               T == S \ {y}
    <3>1. /\ y \in S /\ SumOf(f, S) = f[y] + SumOf(f, T)
          /\ SumOf(g, S) = g[y] + SumOf(g, T)
      BY <2>2, PickIn, SumUnfolds DEF Summable
    <3> HIDE DEF y
    <3>2. Summable(f, T)
      BY FS_Subset DEF Summable
    <3>3. T # S /\ T \subseteq S
      BY <3>1
    <3>4. Cardinality(T) \in Nat /\ Cardinality(S) \in Nat /\ Cardinality(T) < Cardinality(S)
      BY <3>3, FS_Subset, FS_CardinalityType DEF Summable
    <3>5. SumOf(f, T) = SumOf(g, T)
      BY <1>2, <3>2, <3>3, <3>4
    <3> QED
      BY <3>1, <3>5
  <2> QED
    BY <2>1, <2>2
<1> HIDE DEF D
<1>3. n \in D
  BY <1>1, <1>2, AllNumbers
<1> QED
  BY <1>3 DEF D


LEMMA SumAdds ==
  ASSUME NEW f, Summable(f, DOMAIN f), NEW h, h \notin DOMAIN f, NEW s \in Int
  PROVE  LET g == With(f, h, s) IN
           /\ DOMAIN g = DOMAIN f \cup {h} /\ Summable(g, DOMAIN g)
           /\ g[h] = s /\ \A x \in DOMAIN f : g[x] = f[x]
           /\ SumOf(g, DOMAIN g) = SumOf(f, DOMAIN f) + s
<1> DEFINE g == With(f, h, s)
           S == DOMAIN f
<1>1. DOMAIN g = S \cup {h} /\ g[h] = s /\ \A x \in S : g[x] = f[x]
  BY DEF With
<1> HIDE DEF g
<1>2. IsFiniteSet(S) /\ IsFiniteSet(S \cup {h}) /\ Cardinality(S) \in Nat
  BY FS_AddElement, FS_CardinalityType DEF Summable
<1>3. Summable(g, S \cup {h})
  BY <1>1, <1>2 DEF Summable
<1>4. SumOf(g, S \cup {h}) = g[h] + SumOf(g, (S \cup {h}) \ {h})
  BY <1>3, SumFacts
<1>5. (S \cup {h}) \ {h} = S
  OBVIOUS
<1>6. SumOf(f, S) = SumOf(g, S) /\ SumOf(f, S) \in Int
  <2>1. Cardinality(S) <= Cardinality(S) /\ \A x \in S : f[x] = g[x]
    BY <1>1, <1>2
  <2> HIDE DEF S
  <2>2. Summable(f, S)
    BY DEF S
  <2> QED
    BY <1>2, <2>1, <2>2, SumSame, SumFacts
<1> QED
  BY <1>1, <1>3, <1>4, <1>5, <1>6 DEF g

LEMMA SumDrops ==
  ASSUME NEW f, Summable(f, DOMAIN f), NEW h \in DOMAIN f
  PROVE  LET g == Without(f, {h}) IN
           /\ DOMAIN g = DOMAIN f \ {h} /\ Summable(g, DOMAIN g)
           /\ \A x \in DOMAIN g : g[x] = f[x]
           /\ SumOf(g, DOMAIN g) = SumOf(f, DOMAIN f) - f[h]
<1> DEFINE g == Without(f, {h})
           S == DOMAIN f \ {h}
<1>1. DOMAIN g = S /\ \A x \in S : g[x] = f[x]
  BY DEF Without, Restrict
<1> HIDE DEF g
<1>2. IsFiniteSet(S) /\ Cardinality(S) \in Nat
  BY FS_RemoveElement, FS_CardinalityType DEF Summable
<1>3. Summable(g, S) /\ Summable(f, S)
  BY <1>1, <1>2 DEF Summable
<1>4. SumOf(f, DOMAIN f) = f[h] + SumOf(f, S)
  BY SumFacts
<1>5. SumOf(f, S) = SumOf(g, S) /\ SumOf(f, S) \in Int
  <2>1. Cardinality(S) <= Cardinality(S) /\ \A x \in S : f[x] = g[x]
    BY <1>1, <1>2
  <2> HIDE DEF S
  <2> QED
    BY <1>2, <1>3, <2>1, SumSame, SumFacts
<1>6. f[h] \in Int
  BY DEF Summable
<1>7. SumOf(g, DOMAIN g) = SumOf(f, DOMAIN f) - f[h]
  <2>1. DOMAIN g = S
    BY <1>1
  <2> HIDE DEF S
  <2> QED
    BY <1>4, <1>5, <1>6, <2>1
<1> QED
  BY <1>1, <1>3, <1>7 DEF g

LEMMA SumResizes ==
  ASSUME NEW f, Summable(f, DOMAIN f), f = [x \in DOMAIN f |-> f[x]],
         NEW h \in DOMAIN f, NEW s \in Int
  PROVE  LET g == [f EXCEPT ![h] = s] IN
           /\ DOMAIN g = DOMAIN f /\ Summable(g, DOMAIN g)
           /\ g[h] = s /\ \A x \in DOMAIN f : x # h => g[x] = f[x]
           /\ SumOf(g, DOMAIN g) = SumOf(f, DOMAIN f) - f[h] + s
<1> DEFINE g == [f EXCEPT ![h] = s]
           S == DOMAIN f \ {h}
<1>1. DOMAIN g = DOMAIN f /\ g[h] = s /\ \A x \in DOMAIN f : x # h => g[x] = f[x]
  OBVIOUS
<1> HIDE DEF g
<1>2. IsFiniteSet(S) /\ Cardinality(S) \in Nat
  BY FS_RemoveElement, FS_CardinalityType DEF Summable
<1>3. Summable(g, DOMAIN f) /\ Summable(f, S)
  BY <1>1, <1>2 DEF Summable
<1>4. /\ SumOf(f, DOMAIN f) = f[h] + SumOf(f, S)
      /\ SumOf(g, DOMAIN f) = g[h] + SumOf(g, S)
  BY <1>3, SumFacts
<1>5. SumOf(f, S) = SumOf(g, S) /\ SumOf(f, S) \in Int
  <2>1. Cardinality(S) <= Cardinality(S) /\ \A x \in S : f[x] = g[x]
    BY <1>1, <1>2
  <2> HIDE DEF S
  <2> QED
    BY <1>2, <1>3, <2>1, SumSame, SumFacts
<1>6. f[h] \in Int
  BY DEF Summable
<1> QED
  BY <1>1, <1>3, <1>4, <1>5, <1>6 DEF g

-----------------------------------------------------------------------------
(* The headers of the chunks.  H: the heaps they lie in. *)

Header == [size : 1 .. Step, used : BOOLEAN, next : BOOLEAN, prev : BOOLEAN,
           prev_size : 0 .. Step]

Follow(c, a)  == <<a[1], a[2] + c[a].size>>
Precede(c, a) == <<a[1], a[2] - c[a].prev_size>>

Headers(c, H) ==
  /\ c \in [DOMAIN c -> Header]
  /\ DOMAIN c \subseteq H \X (0 .. Step - 1)
  /\ \A h \in H : <<h, 0>> \in DOMAIN c

(* The chunk and its neighbours agree about where they are. *)
Sized(c, a) == c[a].size >= MINSIZE /\ c[a].size % Align = 0 /\ (c[a].prev <=> a[2] > 0)
NextAgrees(c, a) ==
  IF c[a].next THEN Follow(c, a) \in DOMAIN c /\ c[Follow(c, a)].prev_size = c[a].size
  ELSE a[2] + c[a].size = Step
PrevAgrees(c, a) ==
  c[a].prev => /\ Precede(c, a) \in DOMAIN c /\ c[Precede(c, a)].next
               /\ Follow(c, Precede(c, a)) = a
Linked(c) == \A a \in DOMAIN c : Sized(c, a) /\ NextAgrees(c, a) /\ PrevAgrees(c, a)

Disjoint(c) ==
  \A a, b \in DOMAIN c : a[1] = b[1] /\ a[2] < b[2] => a[2] + c[a].size <= b[2]

Tiled(c, H) == Headers(c, H) /\ Linked(c) /\ Disjoint(c)

LEMMA StepIs == Step \in Nat /\ Step % 8 = 0 /\ Step > 48 /\ MINSIZE = 24 /\ Align = 8
BY StepAssumption DEF MINSIZE, Align

LEMMA HeaderIs ==
  ASSUME NEW x \in Header
  PROVE  /\ x.size \in Int /\ 1 <= x.size /\ x.size <= Step
         /\ x.used \in BOOLEAN /\ x.next \in BOOLEAN /\ x.prev \in BOOLEAN
         /\ x.prev_size \in Int /\ 0 <= x.prev_size /\ x.prev_size <= Step
BY StepIs DEF Header

LEMMA PlaceIs ==
  ASSUME NEW H, NEW c, Headers(c, H), NEW a \in DOMAIN c
  PROVE  /\ a[1] \in H /\ a[2] \in Int /\ 0 <= a[2] /\ a[2] < Step
         /\ a = <<a[1], a[2]>> /\ c[a] \in Header
BY StepIs DEF Headers

LEMMA SamePlace ==
  ASSUME NEW H, NEW c, Headers(c, H), NEW a \in DOMAIN c, NEW b \in DOMAIN c,
         a[1] = b[1], a[2] = b[2]
  PROVE  a = b
BY PlaceIs

(* What is known of one chunk. *)
LEMMA ChunkFacts ==
  ASSUME NEW H, NEW c, Tiled(c, H), NEW a \in DOMAIN c
  PROVE  /\ a[1] \in H /\ a[2] \in Int /\ 0 <= a[2] /\ a[2] < Step
         /\ c[a].size \in Int /\ MINSIZE <= c[a].size /\ a[2] + c[a].size <= Step
         /\ c[a].size % Align = 0
         /\ (c[a].prev <=> a[2] > 0)
         /\ c[a].prev_size \in Int
         /\ c[a].next =>
              /\ Follow(c, a) \in DOMAIN c /\ c[Follow(c, a)].prev_size = c[a].size
              /\ Follow(c, a)[1] = a[1] /\ Follow(c, a)[2] = a[2] + c[a].size
              /\ Follow(c, a) # a
         /\ ~c[a].next => a[2] + c[a].size = Step
         /\ c[a].prev =>
              /\ Precede(c, a) \in DOMAIN c /\ c[Precede(c, a)].next
              /\ Follow(c, Precede(c, a)) = a
              /\ Precede(c, a)[1] = a[1] /\ Precede(c, a)[2] = a[2] - c[a].prev_size
              /\ Precede(c, a) # a
<1>1. /\ a[1] \in H /\ a[2] \in Int /\ 0 <= a[2] /\ a[2] < Step /\ c[a] \in Header
  BY PlaceIs DEF Tiled
<1>2. c[a].size \in Int /\ c[a].prev_size \in Int /\ c[a].next \in BOOLEAN
  BY <1>1, HeaderIs
<1>3. Sized(c, a) /\ NextAgrees(c, a) /\ PrevAgrees(c, a)
  BY DEF Tiled, Linked
<1>4. MINSIZE <= c[a].size /\ c[a].size % Align = 0 /\ (c[a].prev <=> a[2] > 0) /\ c[a].size > 0
  BY <1>2, <1>3, StepIs DEF Sized
<1>5. ASSUME c[a].next
      PROVE  /\ Follow(c, a) \in DOMAIN c /\ c[Follow(c, a)].prev_size = c[a].size
             /\ Follow(c, a)[1] = a[1] /\ Follow(c, a)[2] = a[2] + c[a].size
             /\ Follow(c, a) # a /\ a[2] + c[a].size <= Step
  <2>1. Follow(c, a) \in DOMAIN c /\ c[Follow(c, a)].prev_size = c[a].size
    BY <1>3, <1>5 DEF NextAgrees
  <2>2. Follow(c, a)[1] = a[1] /\ Follow(c, a)[2] = a[2] + c[a].size
    BY DEF Follow
  <2>3. Follow(c, a)[2] < Step /\ Step \in Nat
    BY <2>1, PlaceIs, StepIs DEF Tiled
  <2> QED
    BY <1>1, <1>2, <1>4, <2>1, <2>2, <2>3
<1>6. ASSUME c[a].prev
      PROVE  /\ Precede(c, a) \in DOMAIN c /\ c[Precede(c, a)].next
             /\ Follow(c, Precede(c, a)) = a
             /\ Precede(c, a)[1] = a[1] /\ Precede(c, a)[2] = a[2] - c[a].prev_size
             /\ Precede(c, a) # a
  <2>1. /\ Precede(c, a) \in DOMAIN c /\ c[Precede(c, a)].next
        /\ Follow(c, Precede(c, a)) = a
    BY <1>3, <1>6 DEF PrevAgrees
  <2>2. Precede(c, a)[1] = a[1] /\ Precede(c, a)[2] = a[2] - c[a].prev_size
    BY DEF Precede
  <2>3. Precede(c, a) # a
    <3> SUFFICES ASSUME Precede(c, a) = a PROVE FALSE
      OBVIOUS
    <3>1. Follow(c, a) = a
      BY <2>1
    <3>2. a[2] = a[2] + c[a].size
      BY <3>1 DEF Follow
    <3> QED
      BY <1>1, <1>2, <1>4, <3>2
  <2> QED
    BY <2>1, <2>2, <2>3
<1>7. ~c[a].next => a[2] + c[a].size = Step
  BY <1>3 DEF NextAgrees
<1>8. a[2] + c[a].size <= Step
  <2>1. a[2] + c[a].size \in Int
    BY <1>1, <1>2
  <2> QED
    BY <1>5, <1>7, <2>1
<1> QED
  BY <1>1, <1>2, <1>4, <1>5, <1>6, <1>7, <1>8

(* The chunk before the one after a is a. *)
LEMMA OneBefore ==
  ASSUME NEW H, NEW c, Tiled(c, H), NEW a \in DOMAIN c, NEW b \in DOMAIN c,
         c[a].next, c[b].next, Follow(c, a) = Follow(c, b)
  PROVE  a = b
<1>1. /\ a[1] = Follow(c, a)[1] /\ b[1] = Follow(c, b)[1]
      /\ a[2] + c[a].size = Follow(c, a)[2] /\ b[2] + c[b].size = Follow(c, b)[2]
      /\ c[a].size = c[Follow(c, a)].prev_size /\ c[b].size = c[Follow(c, b)].prev_size
      /\ a[2] \in Int /\ b[2] \in Int /\ c[a].size \in Int /\ c[b].size \in Int
  BY ChunkFacts
<1>2. a[1] = b[1] /\ a[2] = b[2]
  BY <1>1
<1> QED
  BY <1>2, SamePlace DEF Tiled

(* A chunk whose neighbour before it has changed its size. *)
Refoot(x, n) ==
  [size |-> x.size, used |-> x.used, next |-> x.next, prev |-> x.prev, prev_size |-> n]

LEMMA RefootIs ==
  ASSUME NEW x \in Header, NEW n \in Int, 0 <= n, n <= Step
  PROVE  /\ Refoot(x, n) \in Header /\ Refoot(x, n).size = x.size /\ Refoot(x, n).used = x.used
         /\ Refoot(x, n).next = x.next /\ Refoot(x, n).prev = x.prev
         /\ Refoot(x, n).prev_size = n
BY StepIs DEF Refoot, Header

(* d is c with the chunk a cut behind its first siz bytes. *)
Rest(a, siz) == <<a[1], a[2] + siz>>
IsSplit(c, d, a, siz) ==
  /\ a \in DOMAIN c /\ siz \in Nat /\ siz % Align = 0
  /\ MINSIZE <= siz /\ siz + MINSIZE <= c[a].size
  /\ DOMAIN d = DOMAIN c \cup {Rest(a, siz)} /\ d = [x \in DOMAIN d |-> d[x]]
  /\ d[a] = [size |-> siz, used |-> TRUE, next |-> TRUE, prev |-> c[a].prev,
             prev_size |-> c[a].prev_size]
  /\ d[Rest(a, siz)] = [size |-> c[a].size - siz, used |-> FALSE, next |-> c[a].next,
                        prev |-> TRUE, prev_size |-> siz]
  /\ \A x \in DOMAIN c : x # a =>
       d[x] = IF c[a].next /\ x = Follow(c, a) THEN Refoot(c[x], c[a].size - siz) ELSE c[x]

LEMMA SplitFacts ==
  ASSUME NEW H, NEW c, Tiled(c, H), NEW d, NEW a, NEW siz, IsSplit(c, d, a, siz)
  PROVE  /\ Rest(a, siz) \notin DOMAIN c /\ Rest(a, siz) # a
         /\ Rest(a, siz)[1] = a[1] /\ Rest(a, siz)[2] = a[2] + siz
         /\ siz \in Int /\ siz > 0 /\ c[a].size - siz \in Int /\ c[a].size - siz >= MINSIZE
         /\ (c[a].size - siz) % Align = 0
         /\ \A x \in DOMAIN c : /\ d[x] \in Header
                                /\ d[x].prev = c[x].prev
                                /\ x # a => /\ d[x].size = c[x].size /\ d[x].next = c[x].next
                                            /\ d[x].used = c[x].used
         /\ d[a].size = siz /\ d[a].used /\ d[a].next /\ d[a].prev_size = c[a].prev_size
         /\ d[Rest(a, siz)] \in Header /\ d[Rest(a, siz)].size = c[a].size - siz
         /\ ~d[Rest(a, siz)].used /\ d[Rest(a, siz)].next = c[a].next
         /\ d[Rest(a, siz)].prev /\ d[Rest(a, siz)].prev_size = siz
<1> DEFINE r == Rest(a, siz)
<1>1. /\ a \in DOMAIN c /\ siz \in Nat /\ siz % Align = 0
      /\ MINSIZE <= siz /\ siz + MINSIZE <= c[a].size
      /\ d[a] = [size |-> siz, used |-> TRUE, next |-> TRUE, prev |-> c[a].prev,
                 prev_size |-> c[a].prev_size]
      /\ d[r] = [size |-> c[a].size - siz, used |-> FALSE, next |-> c[a].next,
                 prev |-> TRUE, prev_size |-> siz]
      /\ \A x \in DOMAIN c : x # a =>
           d[x] = IF c[a].next /\ x = Follow(c, a) THEN Refoot(c[x], c[a].size - siz) ELSE c[x]
  BY DEF IsSplit
<1>2. c[a] \in Header /\ a[2] \in Int /\ c[a].size % Align = 0
  BY <1>1, PlaceIs, ChunkFacts DEF Tiled
<1>3. /\ c[a].size \in Int /\ c[a].size <= Step /\ c[a].next \in BOOLEAN /\ c[a].prev \in BOOLEAN
      /\ c[a].prev_size \in Int /\ 0 <= c[a].prev_size /\ c[a].prev_size <= Step
  BY <1>2, HeaderIs
<1>4. /\ siz \in Int /\ siz > 0 /\ siz <= Step /\ c[a].size - siz \in Int
      /\ c[a].size - siz >= MINSIZE /\ c[a].size - siz <= Step
  BY <1>1, <1>3, StepIs
<1>5. r[1] = a[1] /\ r[2] = a[2] + siz
  BY DEF Rest
<1>6. r \notin DOMAIN c
  <2> SUFFICES ASSUME r \in DOMAIN c PROVE FALSE
    OBVIOUS
  <2>1. a[2] < r[2]
    BY <1>2, <1>4, <1>5
  <2>2. a[2] + c[a].size <= r[2]
    BY <1>1, <1>5, <2>1 DEF Tiled, Disjoint
  <2> QED
    BY <1>1, <1>2, <1>3, <1>4, <1>5, <2>2, StepIs
<1>7. (c[a].size - siz) % Align = 0
  BY <1>1, <1>2, <1>3, StepIs
<1>8. d[a] \in Header /\ d[r] \in Header
  BY <1>1, <1>3, <1>4, StepIs DEF Header
<1>9. ASSUME NEW x \in DOMAIN c, x # a
      PROVE  /\ d[x] \in Header /\ d[x].prev = c[x].prev /\ d[x].size = c[x].size
             /\ d[x].next = c[x].next /\ d[x].used = c[x].used
  <2>1. c[x] \in Header
    BY PlaceIs DEF Tiled
  <2>2. 0 <= c[a].size - siz
    BY <1>4, StepIs
  <2>3. d[x] = c[x] \/ d[x] = Refoot(c[x], c[a].size - siz)
    BY <1>1, <1>9
  <2> QED
    BY <1>4, <2>1, <2>2, <2>3, RefootIs
<1> HIDE DEF r
<1>10. /\ d[a].size = siz /\ d[a].used /\ d[a].next /\ d[a].prev_size = c[a].prev_size
       /\ d[a].prev = c[a].prev
       /\ d[r].size = c[a].size - siz
       /\ ~d[r].used /\ d[r].next = c[a].next /\ d[r].prev /\ d[r].prev_size = siz
  BY <1>1
<1>11. \A x \in DOMAIN c : /\ d[x] \in Header
                           /\ d[x].prev = c[x].prev
                           /\ x # a => /\ d[x].size = c[x].size /\ d[x].next = c[x].next
                                       /\ d[x].used = c[x].used
  BY <1>8, <1>9, <1>10
<1>12. r # a
  BY <1>1, <1>6
<1> QED
  BY <1>4, <1>5, <1>6, <1>7, <1>8, <1>10, <1>11, <1>12 DEF r

LEMMA SplitTiled ==
  ASSUME NEW H, NEW c, Tiled(c, H), NEW d, NEW a, NEW siz, IsSplit(c, d, a, siz)
  PROVE  Tiled(d, H)
<1> DEFINE r == Rest(a, siz)
           C == DOMAIN c
<1>1. /\ a \in C /\ DOMAIN d = C \cup {r} /\ d = [x \in DOMAIN d |-> d[x]]
      /\ \A x \in C : x # a =>
           d[x] = IF c[a].next /\ x = Follow(c, a) THEN Refoot(c[x], c[a].size - siz) ELSE c[x]
  BY DEF IsSplit
<1>2. /\ r \notin C /\ r # a /\ r[1] = a[1] /\ r[2] = a[2] + siz
      /\ siz \in Int /\ siz > 0 /\ c[a].size - siz \in Int /\ c[a].size - siz >= MINSIZE
      /\ (c[a].size - siz) % Align = 0
      /\ d[a].size = siz /\ d[a].next /\ d[a].prev_size = c[a].prev_size
      /\ d[r] \in Header /\ d[r].size = c[a].size - siz /\ d[r].next = c[a].next
      /\ d[r].prev /\ d[r].prev_size = siz
  BY SplitFacts
<1>3. \A x \in C : /\ d[x] \in Header /\ d[x].prev = c[x].prev
                   /\ x # a => d[x].size = c[x].size /\ d[x].next = c[x].next
  BY SplitFacts
<1>4. /\ a[1] \in H /\ a[2] \in Int /\ 0 <= a[2] /\ a[2] < Step
      /\ c[a].size \in Int /\ a[2] + c[a].size <= Step /\ c[a].next \in BOOLEAN
      /\ MINSIZE <= siz /\ siz % Align = 0
  BY <1>1, ChunkFacts, PlaceIs, HeaderIs DEF Tiled, IsSplit
<1> DEFINE n == Follow(c, a)
<1>5. c[a].next => n \in C /\ n # a /\ n[1] = a[1] /\ n[2] = a[2] + c[a].size /\ n # r
  BY <1>1, <1>2, ChunkFacts
<1>6. c[a].next => d[n].prev_size = c[a].size - siz
  <2> SUFFICES ASSUME c[a].next PROVE d[n].prev_size = c[a].size - siz
    OBVIOUS
  <2>1. d[n] = Refoot(c[n], c[a].size - siz)
    BY <1>1, <1>5
  <2> QED
    BY <2>1 DEF Refoot
<1>7. \A x \in C : x # a /\ ~(c[a].next /\ x = n) => d[x] = c[x]
  BY <1>1
<1> HIDE DEF r, n
<1>8. Follow(d, a) = r /\ (\A x \in C : x # a => Follow(d, x) = Follow(c, x))
      /\ (Follow(d, r) = n)
  <2>1. Follow(d, a) = r
    BY <1>2 DEF Follow, r, Rest
  <2>2. Follow(d, r) = n
    <3>1. r[2] + d[r].size = a[2] + c[a].size
      BY <1>2, <1>4
    <3> QED
      BY <1>2, <3>1 DEF Follow, n
  <2> QED
    BY <1>3, <2>1, <2>2 DEF Follow
<1>9. Headers(d, H)
  <2>1. d \in [DOMAIN d -> Header]
    BY <1>1, <1>2, <1>3
  <2>2. C \subseteq H \X (0 .. Step - 1) /\ \A h \in H : <<h, 0>> \in C
    BY DEF Tiled, Headers
  <2>3. r \in H \X (0 .. Step - 1)
    <3>1. a[2] + siz \in 0 .. Step - 1
      BY <1>2, <1>4, StepIs
    <3> QED
      BY <1>4, <3>1 DEF r, Rest
  <2> QED
    BY <1>1, <2>1, <2>2, <2>3 DEF Headers
<1>10. ASSUME NEW x \in C \cup {r}
       PROVE  Sized(d, x)
  <2>1. CASE x = r
    BY <1>2, <1>4, <2>1, StepIs DEF Sized
  <2>2. CASE x = a
    BY <1>1, <1>2, <1>3, <1>4, <2>2, ChunkFacts DEF Sized
  <2>3. CASE x \in C /\ x # a
    <3>1. Sized(c, x)
      BY <2>3 DEF Tiled, Linked
    <3> QED
      BY <1>3, <2>3, <3>1 DEF Sized
  <2> QED
    BY <2>1, <2>2, <2>3
<1>11. ASSUME NEW x \in C \cup {r}
       PROVE  NextAgrees(d, x)
  <2>1. CASE x = r
    <3>1. CASE c[a].next
      BY <1>1, <1>2, <1>5, <1>6, <1>8, <2>1, <3>1 DEF NextAgrees
    <3>2. CASE ~c[a].next
      <4>1. a[2] + c[a].size = Step
        BY <1>1, <3>2, ChunkFacts
      <4>2. r[2] + d[r].size = Step
        BY <1>2, <1>4, <4>1
      <4> QED
        BY <1>2, <2>1, <3>2, <4>2 DEF NextAgrees
    <3> QED
      BY <3>1, <3>2
  <2>2. CASE x = a
    BY <1>1, <1>2, <1>8, <2>2 DEF NextAgrees
  <2>3. CASE x \in C /\ x # a
    <3>1. CASE c[x].next
      <4> DEFINE y == Follow(c, x)
      <4>1. y \in C /\ c[y].prev_size = c[x].size
        BY <2>3, <3>1, ChunkFacts
      <4>2. ~(c[a].next /\ y = n)
        BY <1>1, <2>3, <3>1, OneBefore DEF n
      <4> HIDE DEF y
      <4>3. d[y].prev_size = c[y].prev_size
        BY <1>2, <1>7, <4>1, <4>2
      <4>4. Follow(d, x) = y /\ d[x].next /\ d[x].size = c[x].size
        BY <1>3, <1>8, <2>3, <3>1 DEF y
      <4> QED
        BY <1>1, <4>1, <4>3, <4>4 DEF NextAgrees
    <3>2. CASE ~c[x].next
      BY <1>3, <2>3, <3>2, ChunkFacts DEF NextAgrees
    <3> QED
      BY <3>1, <3>2
  <2> QED
    BY <2>1, <2>2, <2>3
<1>12. ASSUME NEW x \in C \cup {r}
       PROVE  PrevAgrees(d, x)
  <2>1. CASE x = r
    <3>1. Precede(d, r) = a
      <4>1. r[2] - d[r].prev_size = a[2]
        BY <1>2, <1>4
      <4>2. a = <<a[1], a[2]>>
        BY <1>1, PlaceIs DEF Tiled
      <4> QED
        BY <1>2, <4>1, <4>2 DEF Precede
    <3> QED
      BY <1>1, <1>2, <1>8, <2>1, <3>1 DEF PrevAgrees
  <2>2. CASE x \in C /\ c[a].next /\ x = n
    <3>1. Precede(d, x) = r
      <4>1. x[2] - d[x].prev_size = r[2] /\ x[1] = r[1]
        BY <1>2, <1>4, <1>5, <1>6, <2>2
      <4>2. r = <<r[1], r[2]>>
        BY DEF r, Rest
      <4> QED
        BY <4>1, <4>2 DEF Precede
    <3> QED
      BY <1>1, <1>2, <1>8, <2>2, <3>1 DEF PrevAgrees
  <2>3. CASE x \in C /\ ~(c[a].next /\ x = n)
    <3> SUFFICES ASSUME d[x].prev PROVE PrevAgrees(d, x)
      BY DEF PrevAgrees
    <3> DEFINE p == Precede(c, x)
    <3>1. p \in C /\ c[p].next /\ Follow(c, p) = x
      BY <1>3, <2>3, ChunkFacts
    <3>2. p # a
      BY <2>3, <3>1 DEF n
    <3>3. Precede(d, x) = p
      <4>1. d[x].prev_size = c[x].prev_size
        BY <1>2, <1>7, <2>3
      <4> QED
        BY <4>1 DEF Precede
    <3> HIDE DEF p
    <3> QED
      BY <1>1, <1>3, <1>8, <3>1, <3>2, <3>3 DEF PrevAgrees
  <2> QED
    BY <2>1, <2>2, <2>3
<1>13. Disjoint(d)
  <2> SUFFICES ASSUME NEW x \in C \cup {r}, NEW y \in C \cup {r}, x[1] = y[1], x[2] < y[2]
               PROVE  x[2] + d[x].size <= y[2]
    BY <1>1 DEF Disjoint
  <2>1. CASE x \in C /\ y \in C
    <3>1. x[2] + c[x].size <= y[2]
      BY <2>1 DEF Tiled, Disjoint
    <3>2. x[2] \in Int /\ y[2] \in Int /\ c[x].size \in Int
      BY <2>1, ChunkFacts
    <3>3. d[x].size <= c[x].size
      BY <1>2, <1>3, <1>4, <2>1, <3>2, StepIs
    <3>4. d[x].size \in Int
      BY <1>2, <1>3, <2>1, <3>2
    <3> QED
      BY <3>1, <3>2, <3>3, <3>4
  <2>2. CASE x \in C /\ y = r
    <3>1. x[2] \in Int /\ c[x].size \in Int
      BY <2>2, ChunkFacts
    <3>2. CASE x = a
      BY <1>2, <1>4, <2>2, <3>2
    <3>3. CASE x # a /\ x[2] < a[2]
      <4>1. x[2] + c[x].size <= a[2]
        BY <1>1, <1>2, <2>2, <3>3 DEF Tiled, Disjoint
      <4> QED
        BY <1>2, <1>3, <1>4, <2>2, <3>1, <3>3, <4>1
    <3>4. CASE x # a /\ x[2] = a[2]
      BY <1>1, <1>2, <2>2, <3>4, SamePlace DEF Tiled
    <3>5. CASE x[2] > a[2]
      <4>1. a[2] + c[a].size <= x[2]
        BY <1>1, <1>2, <2>2, <3>5, <1>4, <3>1 DEF Tiled, Disjoint
      <4> QED
        BY <1>2, <1>4, <2>2, <3>1, <4>1, StepIs
    <3> QED
      BY <1>4, <3>1, <3>2, <3>3, <3>4, <3>5
  <2>3. CASE x = r /\ y \in C
    <3>1. y[2] \in Int /\ a[2] < y[2]
      BY <1>2, <1>4, <2>3, ChunkFacts
    <3>2. a[2] + c[a].size <= y[2]
      BY <1>1, <1>2, <2>3, <3>1 DEF Tiled, Disjoint
    <3> QED
      BY <1>2, <1>4, <2>3, <3>1, <3>2
  <2>4. CASE x = r /\ y = r
    BY <1>2, <1>4, <2>4
  <2> QED
    BY <2>1, <2>2, <2>3, <2>4
<1> QED
  BY <1>1, <1>9, <1>10, <1>11, <1>12, <1>13 DEF Tiled, Linked

(* d is c after the chunk a swallowed the one behind it. *)
IsMerge(c, d, a) ==
  LET n == Follow(c, a)
      s == c[a].size + c[n].size
  IN /\ a \in DOMAIN c /\ c[a].next
     /\ DOMAIN d = DOMAIN c \ {n} /\ d = [x \in DOMAIN d |-> d[x]]
     /\ d[a] = [size |-> s, used |-> FALSE, next |-> c[n].next, prev |-> c[a].prev,
                prev_size |-> c[a].prev_size]
     /\ \A x \in DOMAIN c \ {a, n} :
          d[x] = IF c[n].next /\ x = Follow(c, n) THEN Refoot(c[x], s) ELSE c[x]

LEMMA MergeFacts ==
  ASSUME NEW H, NEW c, Tiled(c, H), NEW d, NEW a, IsMerge(c, d, a)
  PROVE  LET n == Follow(c, a) IN
         /\ a \in DOMAIN d /\ n \in DOMAIN c /\ n # a
         /\ n[1] = a[1] /\ n[2] = a[2] + c[a].size
         /\ c[a].size + c[n].size \in Int /\ (c[a].size + c[n].size) % Align = 0
         /\ c[a].size + c[n].size >= MINSIZE /\ a[2] + (c[a].size + c[n].size) <= Step
         /\ d[a] \in Header /\ d[a].size = c[a].size + c[n].size /\ ~d[a].used
         /\ d[a].next = c[n].next /\ d[a].prev = c[a].prev /\ d[a].prev_size = c[a].prev_size
         /\ \A x \in DOMAIN d : x # a =>
              /\ x \in DOMAIN c /\ x # n /\ d[x] \in Header
              /\ d[x].prev = c[x].prev /\ d[x].size = c[x].size /\ d[x].next = c[x].next
              /\ d[x].used = c[x].used
<1> DEFINE n == Follow(c, a)
           s == c[a].size + c[n].size
<1>1. /\ a \in DOMAIN c /\ c[a].next /\ DOMAIN d = DOMAIN c \ {n}
      /\ d[a] = [size |-> s, used |-> FALSE, next |-> c[n].next, prev |-> c[a].prev,
                 prev_size |-> c[a].prev_size]
      /\ \A x \in DOMAIN c \ {a, n} :
           d[x] = IF c[n].next /\ x = Follow(c, n) THEN Refoot(c[x], s) ELSE c[x]
  BY DEF IsMerge
<1>2. n \in DOMAIN c /\ n # a /\ n[1] = a[1] /\ n[2] = a[2] + c[a].size
  BY <1>1, ChunkFacts
<1> HIDE DEF n
<1>3. /\ c[a].size \in Int /\ c[n].size \in Int /\ MINSIZE <= c[a].size /\ MINSIZE <= c[n].size
      /\ c[a].size % Align = 0 /\ c[n].size % Align = 0 /\ a[2] \in Int /\ 0 <= a[2]
      /\ n[2] + c[n].size <= Step
  BY <1>1, <1>2, ChunkFacts
<1>4. c[a] \in Header /\ c[n] \in Header
  BY <1>1, <1>2, PlaceIs DEF Tiled
<1>5. /\ s \in Int /\ s % Align = 0 /\ s >= MINSIZE /\ 0 <= s /\ a[2] + s <= Step /\ s <= Step
      /\ 1 <= s
  <2>1. s % Align = 0
    BY <1>3, StepIs
  <2> QED
    BY <1>2, <1>3, <2>1, StepIs
<1> HIDE DEF s
<1>6. d[a] \in Header
  BY <1>1, <1>4, <1>5, HeaderIs, StepIs DEF Header
<1>7. /\ d[a].size = s /\ ~d[a].used
      /\ d[a].next = c[n].next /\ d[a].prev = c[a].prev /\ d[a].prev_size = c[a].prev_size
  BY <1>1
<1>8. ASSUME NEW x \in DOMAIN d, x # a
      PROVE  /\ x \in DOMAIN c /\ x # n /\ d[x] \in Header
             /\ d[x].prev = c[x].prev /\ d[x].size = c[x].size /\ d[x].next = c[x].next
             /\ d[x].used = c[x].used
  <2>1. x \in DOMAIN c /\ x # n /\ (d[x] = c[x] \/ d[x] = Refoot(c[x], s))
    BY <1>1, <1>8
  <2>2. c[x] \in Header
    BY <2>1, PlaceIs DEF Tiled
  <2> QED
    BY <1>5, <2>1, <2>2, RefootIs
<1> QED
  BY <1>1, <1>2, <1>5, <1>6, <1>7, <1>8 DEF n, s

LEMMA MergeTiled ==
  ASSUME NEW H, NEW c, Tiled(c, H), NEW d, NEW a, IsMerge(c, d, a)
  PROVE  Tiled(d, H)
<1> DEFINE n == Follow(c, a)
           s == c[a].size + c[n].size
           m == Follow(c, n)
           C == DOMAIN c
           D == DOMAIN d
<1>1. /\ a \in C /\ c[a].next /\ D = C \ {n} /\ d = [x \in D |-> d[x]]
      /\ \A x \in D : x # a => d[x] = IF c[n].next /\ x = m THEN Refoot(c[x], s) ELSE c[x]
  BY DEF IsMerge
<1>2. /\ a \in D /\ n \in C /\ n # a /\ n[1] = a[1] /\ n[2] = a[2] + c[a].size
      /\ s \in Int /\ s % Align = 0 /\ s >= MINSIZE /\ a[2] + s <= Step
      /\ d[a] \in Header /\ d[a].size = s
      /\ d[a].next = c[n].next /\ d[a].prev = c[a].prev /\ d[a].prev_size = c[a].prev_size
      /\ \A x \in D : x # a =>
              /\ x \in C /\ x # n /\ d[x] \in Header
              /\ d[x].prev = c[x].prev /\ d[x].size = c[x].size /\ d[x].next = c[x].next
  BY MergeFacts
<1>3. /\ a[1] \in H /\ a[2] \in Int /\ 0 <= a[2] /\ c[a].size \in Int /\ c[n].size \in Int
      /\ n[2] \in Int /\ c[a].size > 0 /\ c[n].size > 0
  BY <1>1, <1>2, ChunkFacts, StepIs
<1>4. c[n].next => /\ m \in C /\ m # n /\ m # a /\ m[1] = a[1] /\ m[2] = a[2] + s
                   /\ m \in D
  <2> SUFFICES ASSUME c[n].next
               PROVE  /\ m \in C /\ m # n /\ m # a /\ m[1] = a[1] /\ m[2] = a[2] + s
                      /\ m \in D
    OBVIOUS
  <2>1. m \in C /\ m # n /\ m[1] = n[1] /\ m[2] = n[2] + c[n].size
    BY <1>2, ChunkFacts
  <2>2. m[2] = a[2] + s /\ m # a
    BY <1>2, <1>3, <2>1
  <2> QED
    BY <1>1, <1>2, <2>1, <2>2
<1>5. c[n].next => d[m].prev_size = s
  <2> SUFFICES ASSUME c[n].next PROVE d[m].prev_size = s
    OBVIOUS
  <2>1. d[m] = Refoot(c[m], s)
    BY <1>1, <1>4
  <2> QED
    BY <2>1 DEF Refoot
<1>6. \A x \in D : x # a /\ ~(c[n].next /\ x = m) => d[x] = c[x]
  BY <1>1
<1>7. \A x \in D : x # a => Follow(d, x) = Follow(c, x)
  BY <1>2 DEF Follow
<1>8. Follow(d, a) = m
  <2>1. a[2] + s = n[2] + c[n].size
    BY <1>2, <1>3
  <2> QED
    BY <1>2, <2>1 DEF Follow
<1>9. Headers(d, H)
  <2>1. d \in [D -> Header]
    BY <1>1, <1>2
  <2>2. C \subseteq H \X (0 .. Step - 1) /\ \A h \in H : <<h, 0>> \in C
    BY DEF Tiled, Headers
  <2>3. \A h \in H : <<h, 0>> # n
    <3>1. n[2] > 0
      BY <1>2, <1>3
    <3> QED
      BY <3>1
  <2> QED
    BY <1>1, <2>1, <2>2, <2>3 DEF Headers
<1> HIDE DEF n, s, m
<1>10. ASSUME NEW x \in D
       PROVE  Sized(d, x)
  <2>1. CASE x = a
    BY <1>1, <1>2, <2>1, ChunkFacts DEF Sized
  <2>2. CASE x # a
    <3>1. x \in C /\ Sized(c, x)
      BY <1>2, <2>2 DEF Tiled, Linked
    <3> QED
      BY <1>2, <2>2, <3>1 DEF Sized
  <2> QED
    BY <2>1, <2>2
<1>11. ASSUME NEW x \in D
       PROVE  NextAgrees(d, x)
  <2>1. CASE x = a
    <3>1. CASE c[n].next
      BY <1>2, <1>4, <1>5, <1>8, <2>1, <3>1 DEF NextAgrees
    <3>2. CASE ~c[n].next
      <4>1. n[2] + c[n].size = Step
        BY <1>2, <3>2, ChunkFacts
      <4>2. a[2] + d[a].size = Step
        BY <1>2, <1>3, <4>1 DEF s
      <4> QED
        BY <1>2, <2>1, <3>2, <4>2 DEF NextAgrees
    <3> QED
      BY <3>1, <3>2
  <2>2. CASE x # a
    <3>1. x \in C /\ x # n /\ d[x].size = c[x].size /\ d[x].next = c[x].next
          /\ Follow(d, x) = Follow(c, x)
      BY <1>2, <1>7, <2>2
    <3>2. CASE c[x].next
      <4> DEFINE y == Follow(c, x)
      <4>1. y \in C /\ c[y].prev_size = c[x].size
        BY <3>1, <3>2, ChunkFacts
      <4>2. y # n
        BY <1>1, <2>2, <3>1, <3>2, OneBefore DEF n
      <4>3. ~(c[n].next /\ y = m)
        BY <1>2, <3>1, <3>2, OneBefore DEF m
      <4> HIDE DEF y
      <4>4. y \in D /\ d[y].prev_size = c[y].prev_size
        BY <1>1, <1>2, <1>6, <4>1, <4>2, <4>3
      <4>5. Follow(d, x) = y /\ d[x].next
        BY <3>1, <3>2 DEF y
      <4> QED
        BY <3>1, <4>1, <4>4, <4>5 DEF NextAgrees
    <3>3. CASE ~c[x].next
      BY <3>1, <3>3, ChunkFacts DEF NextAgrees
    <3> QED
      BY <3>2, <3>3
  <2> QED
    BY <2>1, <2>2
<1>12. ASSUME NEW x \in D
       PROVE  PrevAgrees(d, x)
  <2>1. CASE c[n].next /\ x = m
    <3>1. Precede(d, x) = a
      <4>1. x[2] - d[x].prev_size = a[2] /\ x[1] = a[1]
        BY <1>2, <1>3, <1>4, <1>5, <2>1
      <4>2. a = <<a[1], a[2]>>
        BY <1>1, PlaceIs DEF Tiled
      <4> QED
        BY <4>1, <4>2 DEF Precede
    <3> QED
      BY <1>2, <1>8, <2>1, <3>1 DEF PrevAgrees
  <2>2. CASE ~(c[n].next /\ x = m)
    <3> SUFFICES ASSUME d[x].prev PROVE PrevAgrees(d, x)
      BY DEF PrevAgrees
    <3> DEFINE p == Precede(c, x)
    <3>1. x \in C /\ c[x].prev
      BY <1>1, <1>2
    <3>2. p \in C /\ c[p].next /\ Follow(c, p) = x
      BY <3>1, ChunkFacts
    <3>3. p # n
      BY <2>2, <3>2 DEF m
    <3>4. p # a
      BY <1>1, <3>2 DEF n
    <3>5. Precede(d, x) = p
      <4>1. d[x].prev_size = c[x].prev_size
        BY <1>2, <1>6, <2>2
      <4> QED
        BY <4>1 DEF Precede
    <3> HIDE DEF p
    <3> QED
      BY <1>1, <1>2, <1>7, <3>2, <3>3, <3>4, <3>5 DEF PrevAgrees
  <2> QED
    BY <2>1, <2>2
<1>13. Disjoint(d)
  <2> SUFFICES ASSUME NEW x \in D, NEW y \in D, x[1] = y[1], x[2] < y[2]
               PROVE  x[2] + d[x].size <= y[2]
    BY DEF Disjoint
  <2>1. x \in C /\ y \in C /\ x[2] \in Int /\ y[2] \in Int
    BY <1>1, ChunkFacts
  <2>2. x[2] + c[x].size <= y[2]
    BY <2>1 DEF Tiled, Disjoint
  <2>3. CASE x # a
    BY <1>2, <2>2, <2>3
  <2>4. CASE x = a
    <3>1. y[1] = n[1] /\ y # n
      BY <1>1, <1>2, <2>4
    <3>2. n[2] <= y[2] /\ n[2] # y[2]
      BY <1>2, <2>1, <2>2, <2>4, <3>1, SamePlace DEF Tiled
    <3>3. n[2] < y[2]
      BY <1>3, <2>1, <3>2
    <3>4. n[2] + c[n].size <= y[2]
      BY <1>2, <2>1, <3>1, <3>3 DEF Tiled, Disjoint
    <3> QED
      BY <1>2, <1>3, <2>1, <2>4, <3>4 DEF s
  <2> QED
    BY <2>3, <2>4
<1> QED
  BY <1>9, <1>10, <1>11, <1>12, <1>13 DEF Tiled, Linked

(* d is c with another used flag in a. *)
Flagged(c, a, u) == [c EXCEPT ![a].used = u]

LEMMA FlagFacts ==
  ASSUME NEW H, NEW c, Tiled(c, H), NEW a \in DOMAIN c, NEW u \in BOOLEAN
  PROVE  LET d == Flagged(c, a, u) IN
         /\ DOMAIN d = DOMAIN c /\ d = [x \in DOMAIN d |-> d[x]] /\ d[a].used = u
         /\ \A x \in DOMAIN c : /\ d[x] \in Header
                                /\ d[x].size = c[x].size /\ d[x].next = c[x].next
                                /\ d[x].prev = c[x].prev /\ d[x].prev_size = c[x].prev_size
                                /\ x # a => d[x].used = c[x].used
<1> DEFINE d == Flagged(c, a, u)
<1>1. /\ DOMAIN d = DOMAIN c /\ d[a] = [c[a] EXCEPT !.used = u]
      /\ \A x \in DOMAIN c : x # a => d[x] = c[x]
      /\ d = [x \in DOMAIN d |-> d[x]]
  <2>1. c = [x \in DOMAIN c |-> c[x]]
    BY DEF Tiled, Headers
  <2> QED
    BY <2>1 DEF Flagged
<1>2. \A x \in DOMAIN c : c[x] \in Header
  BY PlaceIs DEF Tiled
<1>3. /\ d[a] \in Header /\ d[a].used = u /\ d[a].size = c[a].size /\ d[a].next = c[a].next
      /\ d[a].prev = c[a].prev /\ d[a].prev_size = c[a].prev_size
  <2>1. c[a] \in Header
    BY <1>2
  <2> QED
    BY <1>1, <2>1 DEF Header
<1> HIDE DEF d
<1>4. \A x \in DOMAIN c : x = a \/ d[x] = c[x]
  BY <1>1
<1> QED
  BY <1>1, <1>2, <1>3, <1>4 DEF d

LEMMA FlagTiled ==
  ASSUME NEW H, NEW c, Tiled(c, H), NEW a \in DOMAIN c, NEW u \in BOOLEAN
  PROVE  Tiled(Flagged(c, a, u), H)
<1> DEFINE d == Flagged(c, a, u)
<1>1. /\ DOMAIN d = DOMAIN c /\ d = [x \in DOMAIN d |-> d[x]]
      /\ \A x \in DOMAIN c : /\ d[x] \in Header
                             /\ d[x].size = c[x].size /\ d[x].next = c[x].next
                             /\ d[x].prev = c[x].prev /\ d[x].prev_size = c[x].prev_size
  BY FlagFacts
<1> HIDE DEF d
<1>2. \A x \in DOMAIN c : Follow(d, x) = Follow(c, x) /\ Precede(d, x) = Precede(c, x)
  BY <1>1 DEF Follow, Precede
<1>3. Headers(d, H)
  BY <1>1 DEF Tiled, Headers
<1>4. ASSUME NEW x \in DOMAIN c
      PROVE  Sized(d, x) /\ NextAgrees(d, x) /\ PrevAgrees(d, x)
  <2>1. Sized(c, x) /\ NextAgrees(c, x) /\ PrevAgrees(c, x)
    BY DEF Tiled, Linked
  <2>2. Sized(d, x)
    BY <1>1, <2>1 DEF Sized
  <2>3. NextAgrees(d, x)
    BY <1>1, <1>2, <2>1 DEF NextAgrees
  <2>4. PrevAgrees(d, x)
    BY <1>1, <1>2, <2>1 DEF PrevAgrees
  <2> QED
    BY <2>2, <2>3, <2>4
<1>5. Disjoint(d)
  BY <1>1 DEF Tiled, Disjoint
<1>6. Tiled(d, H)
  BY <1>1, <1>3, <1>4, <1>5 DEF Tiled, Linked
<1> QED
  BY <1>6 DEF d

(* A heap the parent gives is one free chunk. *)
TopHeader == [size |-> Step, used |-> FALSE, next |-> FALSE, prev |-> FALSE, prev_size |-> 0]

LEMMA TopTiled ==
  ASSUME NEW H, NEW c, Tiled(c, H), NEW h, h \notin H
  PROVE  LET d == With(c, <<h, 0>>, TopHeader) IN
         /\ <<h, 0>> \notin DOMAIN c /\ DOMAIN d = DOMAIN c \cup {<<h, 0>>}
         /\ d[<<h, 0>>] = TopHeader /\ \A x \in DOMAIN c : d[x] = c[x]
         /\ Tiled(d, H \cup {h})
<1> DEFINE t == <<h, 0>>
           d == With(c, t, TopHeader)
<1>1. t \notin DOMAIN c
  <2> SUFFICES ASSUME t \in DOMAIN c PROVE FALSE
    OBVIOUS
  <2>1. t[1] \in H
    BY PlaceIs DEF Tiled
  <2> QED
    BY <2>1
<1>2. /\ DOMAIN d = DOMAIN c \cup {t} /\ d = [x \in DOMAIN d |-> d[x]]
      /\ d[t] = TopHeader /\ \A x \in DOMAIN c : d[x] = c[x]
  BY <1>1 DEF With
<1> HIDE DEF d
<1>3. TopHeader \in Header
  BY StepIs DEF TopHeader, Header
<1>4. \A x \in DOMAIN c : Follow(d, x) = Follow(c, x) /\ Precede(d, x) = Precede(c, x)
  BY <1>2 DEF Follow, Precede
<1>5. Headers(d, H \cup {h})
  <2>1. \A x \in DOMAIN c : c[x] \in Header
    BY PlaceIs DEF Tiled
  <2>2. d \in [DOMAIN d -> Header]
    BY <1>2, <1>3, <2>1
  <2>3. DOMAIN c \subseteq H \X (0 .. Step - 1) /\ \A g \in H : <<g, 0>> \in DOMAIN c
    BY DEF Tiled, Headers
  <2>4. t \in (H \cup {h}) \X (0 .. Step - 1)
    BY StepIs
  <2>5. DOMAIN d \subseteq (H \cup {h}) \X (0 .. Step - 1)
    BY <1>2, <2>3, <2>4
  <2>6. \A g \in H \cup {h} : <<g, 0>> \in DOMAIN d
    BY <1>2, <2>3
  <2> QED
    BY <2>2, <2>5, <2>6 DEF Headers
<1>6. ASSUME NEW x \in DOMAIN c
      PROVE  Sized(d, x) /\ NextAgrees(d, x) /\ PrevAgrees(d, x)
  <2>1. Sized(c, x) /\ NextAgrees(c, x) /\ PrevAgrees(c, x)
    BY DEF Tiled, Linked
  <2>2. d[x] = c[x] /\ x \in DOMAIN d
    BY <1>2
  <2>3. Sized(d, x)
    BY <2>1, <2>2 DEF Sized
  <2>4. NextAgrees(d, x)
    BY <1>2, <1>4, <2>1, <2>2 DEF NextAgrees
  <2>5. PrevAgrees(d, x)
    BY <1>2, <1>4, <2>1, <2>2 DEF PrevAgrees
  <2> QED
    BY <2>3, <2>4, <2>5
<1>7. Sized(d, t) /\ NextAgrees(d, t) /\ PrevAgrees(d, t)
  <2>1. /\ d[t].size = Step /\ ~d[t].next /\ ~d[t].prev
    BY <1>2 DEF TopHeader
  <2>2. t[2] = 0
    OBVIOUS
  <2> QED
    BY <2>1, <2>2, StepIs DEF Sized, NextAgrees, PrevAgrees
<1>8. Disjoint(d)
  <2> SUFFICES ASSUME NEW x \in DOMAIN c \cup {t}, NEW y \in DOMAIN c \cup {t},
                      x[1] = y[1], x[2] < y[2]
               PROVE  x[2] + d[x].size <= y[2]
    BY <1>2 DEF Disjoint
  <2>1. \A z \in DOMAIN c : z[1] \in H
    BY PlaceIs DEF Tiled
  <2>2. t[1] = h /\ t[2] = 0
    OBVIOUS
  <2>3. x \in DOMAIN c /\ y \in DOMAIN c
    BY <2>1, <2>2
  <2> QED
    BY <1>2, <2>3 DEF Tiled, Disjoint
<1>9. Tiled(d, H \cup {h})
  BY <1>2, <1>5, <1>6, <1>7, <1>8 DEF Tiled, Linked
<1> QED
  BY <1>1, <1>2, <1>9 DEF d

(* A chunk as large as its heap is alone in it. *)
LEMMA ReturnTiled ==
  ASSUME NEW H, NEW c, Tiled(c, H), NEW a \in DOMAIN c, c[a].size = Step
  PROVE  LET d == Without(c, {a}) IN
         /\ DOMAIN d = DOMAIN c \ {a} /\ \A x \in DOMAIN d : d[x] = c[x]
         /\ \A x \in DOMAIN d : x[1] # a[1]
         /\ Tiled(d, H \ {a[1]})
<1> DEFINE d == Without(c, {a})
<1>1. /\ DOMAIN d = DOMAIN c \ {a} /\ d = [x \in DOMAIN d |-> d[x]]
      /\ \A x \in DOMAIN d : d[x] = c[x]
  BY DEF Without, Restrict
<1> HIDE DEF d
<1>2. a[2] = 0
  BY ChunkFacts, StepIs
<1>3. ASSUME NEW x \in DOMAIN c, x # a PROVE x[1] # a[1]
  <2> SUFFICES ASSUME x[1] = a[1] PROVE FALSE
    OBVIOUS
  <2>1. x[2] \in Int /\ 0 <= x[2] /\ x[2] < Step
    BY PlaceIs DEF Tiled
  <2>2. x[2] # 0
    BY <1>2, <1>3, SamePlace DEF Tiled
  <2>3. a[2] < x[2]
    BY <1>2, <2>1, <2>2
  <2>4. a[2] + c[a].size <= x[2]
    BY <2>3 DEF Tiled, Disjoint
  <2> QED
    BY <1>2, <2>1, <2>4, StepIs
<1>4. \A x \in DOMAIN d : Follow(d, x) = Follow(c, x) /\ Precede(d, x) = Precede(c, x)
  BY <1>1 DEF Follow, Precede
<1>5. Headers(d, H \ {a[1]})
  <2>1. d \in [DOMAIN d -> Header]
    <3>1. \A x \in DOMAIN c : c[x] \in Header
      BY PlaceIs DEF Tiled
    <3> QED
      BY <1>1, <3>1
  <2>2. DOMAIN d \subseteq (H \ {a[1]}) \X (0 .. Step - 1)
    <3> SUFFICES ASSUME NEW x \in DOMAIN d PROVE x \in (H \ {a[1]}) \X (0 .. Step - 1)
      OBVIOUS
    <3>1. x \in H \X (0 .. Step - 1) /\ x[1] # a[1]
      BY <1>1, <1>3 DEF Tiled, Headers
    <3> QED
      BY <3>1
  <2>3. \A g \in H \ {a[1]} : <<g, 0>> \in DOMAIN d
    <3> SUFFICES ASSUME NEW g \in H, g # a[1] PROVE <<g, 0>> \in DOMAIN d
      OBVIOUS
    <3>1. <<g, 0>> \in DOMAIN c
      BY DEF Tiled, Headers
    <3>2. <<g, 0>> # a
      OBVIOUS
    <3> QED
      BY <1>1, <3>1, <3>2
  <2> QED
    BY <2>1, <2>2, <2>3 DEF Headers
<1>6. ASSUME NEW x \in DOMAIN d
      PROVE  Sized(d, x) /\ NextAgrees(d, x) /\ PrevAgrees(d, x)
  <2>1. Sized(c, x) /\ NextAgrees(c, x) /\ PrevAgrees(c, x)
    BY <1>1 DEF Tiled, Linked
  <2>2. d[x] = c[x] /\ x \in DOMAIN c /\ x[1] # a[1]
    BY <1>1, <1>3
  <2>3. Follow(c, x) # a /\ Precede(c, x) # a
    BY <2>2 DEF Follow, Precede
  <2>4. Sized(d, x)
    BY <2>1, <2>2 DEF Sized
  <2>5. NextAgrees(d, x)
    <3>1. CASE c[x].next
      <4>1. Follow(c, x) \in DOMAIN d
        BY <1>1, <2>1, <2>3, <3>1 DEF NextAgrees
      <4>2. d[Follow(c, x)] = c[Follow(c, x)]
        BY <1>1, <4>1
      <4> QED
        BY <1>4, <2>1, <2>2, <3>1, <4>1, <4>2 DEF NextAgrees
    <3>2. CASE ~c[x].next
      BY <2>1, <2>2, <3>2 DEF NextAgrees
    <3> QED
      BY <3>1, <3>2
  <2>6. PrevAgrees(d, x)
    <3> SUFFICES ASSUME c[x].prev PROVE PrevAgrees(d, x)
      BY <2>2 DEF PrevAgrees
    <3>1. Precede(c, x) \in DOMAIN d /\ d[Precede(c, x)] = c[Precede(c, x)]
      BY <1>1, <2>1, <2>3 DEF PrevAgrees
    <3> QED
      BY <1>4, <2>1, <2>2, <3>1 DEF PrevAgrees
  <2> QED
    BY <2>4, <2>5, <2>6
<1>7. Disjoint(d)
  BY <1>1 DEF Tiled, Disjoint
<1>8. Tiled(d, H \ {a[1]})
  BY <1>5, <1>6, <1>7 DEF Tiled, Linked
<1> QED
  BY <1>1, <1>3, <1>8 DEF d

-----------------------------------------------------------------------------
(* The bins. *)

Row == 0 .. MaxBin
Places == Nat \X Nat

LEMMA BinIs ==
  ASSUME NEW s \in Nat, MINSIZE <= s, s <= Step
  PROVE  bin_index(s) \in Row /\ bin_index(s) # 0 /\ 0 \in Row /\ MaxBin \in Nat
<1>1. s >= 24 /\ Step \in Nat
  BY StepIs
<1>2. \A t \in Nat : bin_index(t) \in Nat
  BY DEF bin_index
<1>3. bin_index(s) <= bin_index(Step)
  BY <1>1, BinsAscend
<1>4. bin_index(24) = 3
  BY DEF bin_index
<1>5. bin_index(24) <= bin_index(s)
  BY <1>1, BinsAscend
<1> QED
  BY <1>1, <1>2, <1>3, <1>4, <1>5 DEF Row, MaxBin

(* The bins a request looks at exist. *)
LEMMA BinsExist ==
  ASSUME NEW siz \in Nat, siz % Align = 0, MINSIZE <= siz, ~IsLarge(siz)
  PROVE  /\ siz + MINSIZE < Step
         /\ bin_index(siz) \in Row
         /\ IsSmall(siz) => bin_index(siz) + 1 \in Row /\ bin_index(siz) + 2 <= MaxBin
<1>1. siz + 24 < Step /\ Step \in Nat /\ Step % 8 = 0 /\ siz % 8 = 0 /\ 24 <= siz
  BY StepIs DEF IsLarge
<1>2. bin_index(siz) \in Row /\ bin_index(siz) \in Nat /\ MaxBin \in Nat
  <2>1. siz <= Step
    BY <1>1
  <2> QED
    BY <2>1, BinIs DEF Row
<1>3. ASSUME IsSmall(siz)
      PROVE  bin_index(siz) + 1 \in Row /\ bin_index(siz) + 2 <= MaxBin
  <2>1. siz + 32 <= Step /\ siz + 32 \in Nat
    BY <1>1
  <2>2. bin_index(siz + 32) <= MaxBin
    BY <1>1, <2>1, BinsAscend DEF MaxBin
  <2>3. siz <= 496 /\ siz \div 512 = 0 /\ bin_index(siz) = siz \div 8
    BY <1>1, <1>3 DEF IsSmall, bin_index
  <2>4. bin_index(siz) + 2 <= bin_index(siz + 32)
    <3>1. CASE siz + 32 < 512
      <4>1. (siz + 32) \div 512 = 0 /\ (siz + 32) \div 8 = (siz \div 8) + 4
        BY <1>1, <3>1
      <4> QED
        BY <2>3, <4>1 DEF bin_index
    <3>2. CASE siz + 32 >= 512
      <4>1. (siz + 32) \div 512 = 1 /\ (siz + 32) \div 64 = 8
        BY <1>1, <2>3, <3>2
      <4>2. bin_index(siz + 32) = 64
        BY <4>1 DEF bin_index
      <4> QED
        BY <2>3, <4>2
    <3> QED
      BY <1>1, <3>1, <3>2
  <2>5. bin_index(siz + 32) \in Nat
    BY DEF bin_index
  <2> QED
    BY <1>2, <2>2, <2>4, <2>5 DEF Row
<1> QED
  BY <1>1, <1>2, <1>3, StepIs

(* Every list names a place once, and no place is in two lists. *)
GoodBins(l) ==
  /\ l \in [Row -> Seq(Places)]
  /\ \A b \in Row : Distinct(l[b])
  /\ \A b, e \in Row : b # e => ToSet(l[b]) \cap ToSet(l[e]) = {}

OnList(l, a) == \E b \in Row : a \in ToSet(l[b])
Removed(l, a) == [b \in DOMAIN l |-> RemoveFirst(l[b], a)]
Put(l, b, a) == [l EXCEPT ![b] = Append(@, a)]

LEMMA GoodBinsEmpty == GoodBins(EmptyBins) /\ \A a : ~OnList(EmptyBins, a)
<1>1. \A b \in Row : EmptyBins[b] = <<>>
  BY DEF EmptyBins, Row
<1>2. <<>> \in Seq(Places) /\ Len(<<>>) = 0
  BY EmptySeq
<1>3. ToSet(<<>>) = {} /\ Distinct(<<>>)
  <2>1. \A x : x \in ToSet(<<>>) <=> \E i \in 1 .. Len(<<>>) : <<>>[i] = x
    BY <1>2, ToSetIs
  <2>2. 1 .. Len(<<>>) = {}
    BY <1>2
  <2> QED
    BY <2>1, <2>2 DEF Distinct
<1>4. EmptyBins \in [Row -> Seq(Places)]
  BY <1>2 DEF EmptyBins, Row
<1> QED
  BY <1>1, <1>3, <1>4 DEF GoodBins, OnList

LEMMA RemovedBins ==
  ASSUME NEW l, GoodBins(l), NEW a
  PROVE  /\ GoodBins(Removed(l, a))
         /\ \A b \in Row : /\ ToSet(Removed(l, a)[b]) = ToSet(l[b]) \ {a}
                           /\ Len(Removed(l, a)[b]) = IF a \in ToSet(l[b]) THEN Len(l[b]) - 1
                                                                          ELSE Len(l[b])
<1> DEFINE k == Removed(l, a)
<1>1. l \in [Row -> Seq(Places)] /\ \A b \in Row : Distinct(l[b]) /\ l[b] \in Seq(Places)
  BY DEF GoodBins
<1>2. DOMAIN k = Row /\ (\A b \in Row : k[b] = RemoveFirst(l[b], a))
      /\ k = [b \in Row |-> k[b]]
  BY <1>1 DEF Removed
<1>3. \A b \in Row : /\ RemoveFirst(l[b], a) \in Seq(Places) /\ Distinct(RemoveFirst(l[b], a))
                     /\ ToSet(RemoveFirst(l[b], a)) = ToSet(l[b]) \ {a}
                     /\ Len(RemoveFirst(l[b], a)) = IF a \in ToSet(l[b]) THEN Len(l[b]) - 1
                                                                        ELSE Len(l[b])
  BY <1>1, RemoveFirstList
<1> HIDE DEF k
<1>4. \A b \in Row : /\ k[b] \in Seq(Places) /\ Distinct(k[b]) /\ ToSet(k[b]) = ToSet(l[b]) \ {a}
                     /\ Len(k[b]) = IF a \in ToSet(l[b]) THEN Len(l[b]) - 1 ELSE Len(l[b])
  BY <1>2, <1>3
<1>5. k \in [Row -> Seq(Places)]
  BY <1>2, <1>4
<1>6. \A b, e \in Row : b # e => ToSet(l[b]) \cap ToSet(l[e]) = {}
  BY DEF GoodBins
<1>7. GoodBins(k)
  BY <1>4, <1>5, <1>6 DEF GoodBins
<1> QED
  BY <1>4, <1>7 DEF k

LEMMA PutBins ==
  ASSUME NEW l, GoodBins(l), NEW b \in Row, NEW a \in Places, ~OnList(l, a)
  PROVE  /\ GoodBins(Put(l, b, a))
         /\ \A e \in Row : /\ ToSet(Put(l, b, a)[e]) = IF e = b THEN ToSet(l[b]) \cup {a}
                                                               ELSE ToSet(l[e])
                           /\ Len(Put(l, b, a)[e]) = IF e = b THEN Len(l[b]) + 1
                                                             ELSE Len(l[e])
<1> DEFINE k == Put(l, b, a)
<1>1. /\ l \in [Row -> Seq(Places)] /\ (\A e \in Row : Distinct(l[e]) /\ l[e] \in Seq(Places))
      /\ \A e, f \in Row : e # f => ToSet(l[e]) \cap ToSet(l[f]) = {}
  BY DEF GoodBins
<1>2. k[b] = Append(l[b], a) /\ (\A e \in Row : e # b => k[e] = l[e]) /\ k = [e \in Row |-> k[e]]
  BY <1>1 DEF Put
<1>3. \A e \in Row : a \notin ToSet(l[e])
  BY DEF OnList
<1>4. /\ Append(l[b], a) \in Seq(Places) /\ Distinct(Append(l[b], a))
      /\ ToSet(Append(l[b], a)) = ToSet(l[b]) \cup {a}
      /\ Len(Append(l[b], a)) = Len(l[b]) + 1
  BY <1>1, <1>3, AppendList
<1> HIDE DEF k
<1>5. \A e \in Row : /\ k[e] \in Seq(Places) /\ Distinct(k[e])
                     /\ ToSet(k[e]) = IF e = b THEN ToSet(l[b]) \cup {a} ELSE ToSet(l[e])
                     /\ Len(k[e]) = IF e = b THEN Len(l[b]) + 1 ELSE Len(l[e])
  BY <1>1, <1>2, <1>4
<1>6. k \in [Row -> Seq(Places)]
  BY <1>2, <1>5
<1>7. \A e, f \in Row : e # f => ToSet(k[e]) \cap ToSet(k[f]) = {}
  BY <1>1, <1>3, <1>5
<1>8. GoodBins(k)
  BY <1>5, <1>6, <1>7 DEF GoodBins
<1> QED
  BY <1>5, <1>8 DEF k

-----------------------------------------------------------------------------
(* A context as the operators see it. *)

Mem(c, l, h, g, s) == [chunk |-> c, bins |-> l, heaps |-> h, large |-> g, heap_size |-> s]
IsMem(m) == m = Mem(m.chunk, m.bins, m.heaps, m.large, m.heap_size)

LEMMA MemParts ==
  ASSUME NEW c, NEW l, NEW h, NEW g, NEW s, NEW m, m = Mem(c, l, h, g, s)
  PROVE  /\ m.chunk = c /\ m.bins = l /\ m.heaps = h /\ m.large = g /\ m.heap_size = s
         /\ IsMem(m)
BY DEF Mem, IsMem

LEMMA ChangeBins ==
  ASSUME NEW m, IsMem(m), NEW l
  PROVE  [m EXCEPT !.bins = l] = Mem(m.chunk, l, m.heaps, m.large, m.heap_size)
BY DEF Mem, IsMem

LEMMA ChangeChunk ==
  ASSUME NEW m, IsMem(m), NEW c
  PROVE  [m EXCEPT !.chunk = c] = Mem(c, m.bins, m.heaps, m.large, m.heap_size)
BY DEF Mem, IsMem

HeapsNow(m, c, h, s) == [m EXCEPT !.chunk = c, !.heaps = h, !.heap_size = s]
LargeNow(m, g, s) == [m EXCEPT !.large = g, !.heap_size = s]

LEMMA ChangeHeaps ==
  ASSUME NEW m, IsMem(m), NEW c, NEW h, NEW s
  PROVE  HeapsNow(m, c, h, s) = Mem(c, m.bins, h, m.large, s)
<1>1. HeapsNow(m, c, h, s)
        = [[[m EXCEPT !.chunk = c] EXCEPT !.heaps = h] EXCEPT !.heap_size = s]
  BY DEF HeapsNow
<1>2. [m EXCEPT !.chunk = c] = Mem(c, m.bins, m.heaps, m.large, m.heap_size)
  BY ChangeChunk
<1>3. [Mem(c, m.bins, m.heaps, m.large, m.heap_size) EXCEPT !.heaps = h]
        = Mem(c, m.bins, h, m.large, m.heap_size)
  BY DEF Mem
<1>4. [Mem(c, m.bins, h, m.large, m.heap_size) EXCEPT !.heap_size = s]
        = Mem(c, m.bins, h, m.large, s)
  BY DEF Mem
<1> QED
  BY <1>1, <1>2, <1>3, <1>4

LEMMA ChangeLarge ==
  ASSUME NEW m, IsMem(m), NEW g, NEW s
  PROVE  LargeNow(m, g, s) = Mem(m.chunk, m.bins, m.heaps, g, s)
<1>1. LargeNow(m, g, s) = [[m EXCEPT !.large = g] EXCEPT !.heap_size = s]
  BY DEF LargeNow
<1>2. [m EXCEPT !.large = g] = Mem(m.chunk, m.bins, m.heaps, g, m.heap_size)
  BY DEF IsMem, Mem
<1>3. [Mem(m.chunk, m.bins, m.heaps, g, m.heap_size) EXCEPT !.heap_size = s]
        = Mem(m.chunk, m.bins, m.heaps, g, s)
  BY DEF Mem
<1> QED
  BY <1>1, <1>2, <1>3

LEMMA RemoveIs ==
  ASSUME NEW m, IsMem(m), NEW a
  PROVE  remove_from_bin(m, a)
           = Mem(m.chunk, Removed(m.bins, a), m.heaps, m.large, m.heap_size)
BY ChangeBins DEF remove_from_bin, Removed

LEMMA InsertIs ==
  ASSUME NEW m, IsMem(m), NEW a, NEW zero \in BOOLEAN
  PROVE  Insert(m, a, zero)
           = Mem(m.chunk, Put(m.bins, IF zero THEN 0 ELSE bin_index(SizeOf(m, a)), a),
                 m.heaps, m.large, m.heap_size)
<1> DEFINE b == IF zero THEN 0 ELSE bin_index(SizeOf(m, a))
<1>1. Insert(m, a, zero) = [m EXCEPT !.bins = [m.bins EXCEPT ![b] = Append(@, a)]]
  BY DEF Insert, IsMem, Mem
<1> QED
  BY <1>1, ChangeBins DEF Put

LEMMA SetUseIs ==
  ASSUME NEW m, IsMem(m), NEW a, NEW u \in BOOLEAN
  PROVE  SetUse(m, a, u)
           = Mem(Flagged(m.chunk, a, u), m.bins, m.heaps, m.large, m.heap_size)
<1>1. SetUse(m, a, u) = [m EXCEPT !.chunk = [m.chunk EXCEPT ![a].used = u]]
  BY DEF SetUse, IsMem, Mem
<1> QED
  BY <1>1, ChangeChunk DEF Flagged

-----------------------------------------------------------------------------
(* What every operator keeps of a context. *)

(* A listed place is a free chunk, in bins[0] or in the bin of its size. *)
Filed(m) ==
  \A b \in Row : \A a \in ToSet(m.bins[b]) :
    a \in DOMAIN m.chunk /\ ~m.chunk[a].used /\ b \in {0, bin_index(m.chunk[a].size)}

(* What the context holds from its parent. *)
Held(m) ==
  /\ IsFiniteSet(m.heaps) /\ m.heaps \subseteq Nat \ {0} /\ m.heap_size \in Int
  /\ Summable(m.large, DOMAIN m.large) /\ m.large \in [DOMAIN m.large -> Nat]
  /\ DOMAIN m.large \subseteq Nat \ {0} /\ m.heaps \cap DOMAIN m.large = {}

Good(m) == IsMem(m) /\ Tiled(m.chunk, m.heaps) /\ GoodBins(m.bins) /\ Filed(m) /\ Held(m)

(* The chunks in no list, and what heap_size counts too much. *)
Loose(m) == {a \in DOMAIN m.chunk : ~OnList(m.bins, a)}
Owed(m) == m.heap_size - (Step * Cardinality(m.heaps) + SumOf(m.large, DOMAIN m.large))

(* n keeps the chunks of S as they are in m. *)
Kept(m, n, S) ==
  \A x \in S : /\ x \in DOMAIN n.chunk
               /\ n.chunk[x].size = m.chunk[x].size /\ n.chunk[x].used = m.chunk[x].used
SameHold(m, n) == n.heaps = m.heaps /\ n.large = m.large /\ n.heap_size = m.heap_size

-----------------------------------------------------------------------------
(* The inductive invariant. *)

Blocks == (1 .. MaxHeaps) \X (0 .. Step - 1)
UsedOf(m) == {x \in DOMAIN m.chunk : m.chunk[x].used}

(* The blocks in use, lv with the bytes asked for, as the context m has    *)
(* them: its used chunks and its large blocks, each with room enough.      *)
Typed(lv) == DOMAIN lv \subseteq Blocks /\ lv \in [DOMAIN lv -> Nat]
LargeOwned(m, lv) ==
  /\ \A a \in DOMAIN lv : a[1] \in DOMAIN m.large => a[2] = 0 /\ HeadSize + lv[a] <= m.large[a[1]]
  /\ \A h \in DOMAIN m.large : <<h, 0>> \in DOMAIN lv
ChunksOwned(m, lv) ==
  /\ \A a \in DOMAIN lv : a \in DOMAIN m.chunk => a \in UsedOf(m) /\ HeadSize + lv[a] <= m.chunk[a].size
  /\ UsedOf(m) \subseteq DOMAIN lv
Owned(m, lv) ==
  /\ Good(m) /\ HeapsOf(m) \subseteq 1 .. MaxHeaps
  /\ Typed(lv) /\ LargeOwned(m, lv) /\ ChunksOwned(m, lv)

(* What a realloc that failed may break: every block in use is known, and  *)
(* so is every free chunk.                                                 *)
Known(m, lv) == \A a \in DOMAIN lv : a[1] \in DOMAIN m.large \/ a \in DOMAIN m.chunk
Settled(m, lv) == Known(m, lv) /\ Owed(m) = 0 /\ Loose(m) \subseteq UsedOf(m)

(* No neighbours are both free, no chunk in use is a whole heap, a heap    *)
(* that is one free chunk is the only one, and bins[0] has one chunk at    *)
(* most.                                                                   *)
Merged(c) == \A a \in DOMAIN c : c[a].next => c[a].used \/ c[Follow(c, a)].used
Tidy(m) ==
  /\ Merged(m.chunk)
  /\ \A x \in UsedOf(m) : m.chunk[x].size < Step
  /\ \A a, b \in m.heaps : a # b => \A x \in DOMAIN m.chunk : m.chunk[x].size < Step
  /\ Len(m.bins[0]) <= 1

BlocksInv ==
  /\ Owned(mem, live)
  /\ failed \in BOOLEAN /\ memErr \in BOOLEAN /\ wild \in BOOLEAN
  /\ staleBins \subseteq Row /\ resizes \in 0 .. MaxResizes
  /\ memErr => failed
  /\ ~failed => Settled(mem, live)
TidyInv == resizes = 0 => ~failed /\ Tidy(mem)

-----------------------------------------------------------------------------
(* The operators on chunks and bins keep a context good. *)

LEMMA GoodPlace ==
  ASSUME NEW m, Good(m), NEW a \in DOMAIN m.chunk
  PROVE  /\ a \in Places /\ a[1] \in m.heaps /\ a[1] \in Nat \ {0} /\ a # NULL
         /\ m.chunk[a].size \in Nat /\ MINSIZE <= m.chunk[a].size /\ m.chunk[a].size <= Step
         /\ m.chunk[a].size % Align = 0
         /\ a = <<a[1], a[2]>> /\ a[2] \in Int /\ 0 <= a[2] /\ a[2] < Step
<1>1. Tiled(m.chunk, m.heaps) /\ m.heaps \subseteq Nat \ {0}
  BY DEF Good, Held
<1>2. /\ a[1] \in m.heaps /\ a[2] \in Int /\ 0 <= a[2] /\ a[2] < Step
      /\ m.chunk[a].size \in Int /\ MINSIZE <= m.chunk[a].size
      /\ a[2] + m.chunk[a].size <= Step /\ m.chunk[a].size % Align = 0
  BY <1>1, ChunkFacts
<1>3. a = <<a[1], a[2]>>
  BY <1>1, PlaceIs DEF Tiled
<1>4. a # NULL
  BY <1>1, <1>2 DEF NULL
<1> QED
  BY <1>1, <1>2, <1>3, <1>4, StepIs DEF Places

LEMMA LooseIs ==
  ASSUME NEW m, Good(m)
  PROVE  /\ Loose(m) \subseteq DOMAIN m.chunk
         /\ \A a \in DOMAIN m.chunk : m.chunk[a].used => a \in Loose(m)
         /\ \A a : a \in Loose(m) <=> a \in DOMAIN m.chunk /\ \A b \in Row : a \notin ToSet(m.bins[b])
         /\ \A b \in Row : \A a \in ToSet(m.bins[b]) : a \in DOMAIN m.chunk /\ a \notin Loose(m)
                                                        /\ ~m.chunk[a].used
BY DEF Good, Filed, Loose, OnList

LEMMA RemoveGood ==
  ASSUME NEW m, Good(m), NEW a \in DOMAIN m.chunk
  PROVE  LET n == remove_from_bin(m, a) IN
         /\ Good(n) /\ n.chunk = m.chunk /\ SameHold(m, n) /\ Loose(n) = Loose(m) \cup {a}
         /\ \A b \in Row : /\ ToSet(n.bins[b]) = ToSet(m.bins[b]) \ {a}
                           /\ Len(n.bins[b]) = IF a \in ToSet(m.bins[b]) THEN Len(m.bins[b]) - 1
                                                                        ELSE Len(m.bins[b])
<1> DEFINE n == remove_from_bin(m, a)
<1>1. IsMem(m) /\ Tiled(m.chunk, m.heaps) /\ GoodBins(m.bins) /\ Filed(m) /\ Held(m)
  BY DEF Good
<1>2. n = Mem(m.chunk, Removed(m.bins, a), m.heaps, m.large, m.heap_size)
  BY <1>1, RemoveIs
<1>3. /\ n.chunk = m.chunk /\ n.bins = Removed(m.bins, a) /\ n.heaps = m.heaps
      /\ n.large = m.large /\ n.heap_size = m.heap_size /\ IsMem(n)
  BY <1>2, MemParts
<1> HIDE DEF n
<1>4. /\ GoodBins(n.bins)
      /\ \A b \in Row : /\ ToSet(n.bins[b]) = ToSet(m.bins[b]) \ {a}
                        /\ Len(n.bins[b]) = IF a \in ToSet(m.bins[b]) THEN Len(m.bins[b]) - 1
                                                                     ELSE Len(m.bins[b])
  BY <1>1, <1>3, RemovedBins
<1>5. Filed(n)
  BY <1>1, <1>3, <1>4 DEF Filed
<1>6. Held(n)
  BY <1>1, <1>3 DEF Held
<1>7. Good(n)
  BY <1>1, <1>3, <1>4, <1>5, <1>6 DEF Good
<1>8. Loose(n) = Loose(m) \cup {a}
  BY <1>3, <1>4 DEF Loose, OnList
<1> QED
  BY <1>3, <1>4, <1>7, <1>8 DEF n, SameHold

LEMMA InsertGood ==
  ASSUME NEW m, Good(m), NEW a \in Loose(m), ~m.chunk[a].used, NEW zero \in BOOLEAN
  PROVE  LET n == Insert(m, a, zero) IN
         /\ Good(n) /\ n.chunk = m.chunk /\ SameHold(m, n) /\ Loose(n) = Loose(m) \ {a}
         /\ Len(n.bins[0]) = IF zero THEN Len(m.bins[0]) + 1 ELSE Len(m.bins[0])
<1> DEFINE n == Insert(m, a, zero)
           b == IF zero THEN 0 ELSE bin_index(m.chunk[a].size)
<1>1. /\ IsMem(m) /\ Tiled(m.chunk, m.heaps) /\ GoodBins(m.bins) /\ Filed(m) /\ Held(m)
      /\ a \in DOMAIN m.chunk /\ ~OnList(m.bins, a)
  BY DEF Good, Loose
<1>2. b \in Row /\ 0 \in Row /\ (b = 0 <=> zero)
  BY <1>1, GoodPlace, BinIs
<1>3. n = Mem(m.chunk, Put(m.bins, b, a), m.heaps, m.large, m.heap_size)
  BY <1>1, InsertIs DEF SizeOf
<1>4. a \in Places
  BY <1>1, GoodPlace
<1>5. b \in {0, bin_index(m.chunk[a].size)}
  OBVIOUS
<1> HIDE DEF b
<1>6. /\ n.chunk = m.chunk /\ n.bins = Put(m.bins, b, a) /\ n.heaps = m.heaps
      /\ n.large = m.large /\ n.heap_size = m.heap_size /\ IsMem(n)
  BY <1>3, MemParts
<1> HIDE DEF n
<1>7. /\ GoodBins(n.bins)
      /\ \A e \in Row : /\ ToSet(n.bins[e]) = IF e = b THEN ToSet(m.bins[b]) \cup {a}
                                                       ELSE ToSet(m.bins[e])
                        /\ Len(n.bins[e]) = IF e = b THEN Len(m.bins[b]) + 1
                                                     ELSE Len(m.bins[e])
  <2>1. n.bins = Put(m.bins, b, a)
    BY <1>6
  <2>2. GoodBins(m.bins) /\ b \in Row /\ a \in Places /\ ~OnList(m.bins, a)
    BY <1>1, <1>2, <1>4
  <2> DEFINE l == m.bins
  <2>3. GoodBins(l) /\ b \in Row /\ a \in Places /\ ~OnList(l, a)
    BY <2>2
  <2> HIDE DEF l
  <2>4. /\ GoodBins(Put(l, b, a))
        /\ \A e \in Row : /\ ToSet(Put(l, b, a)[e]) = IF e = b THEN ToSet(l[b]) \cup {a}
                                                               ELSE ToSet(l[e])
                          /\ Len(Put(l, b, a)[e]) = IF e = b THEN Len(l[b]) + 1
                                                             ELSE Len(l[e])
    BY ONLY <2>3, PutBins
  <2> QED
    BY <2>1, <2>4 DEF l
<1>8. Filed(n)
  BY <1>1, <1>5, <1>6, <1>7 DEF Filed
<1>9. Held(n)
  BY <1>1, <1>6 DEF Held
<1>10. Good(n)
  BY <1>1, <1>6, <1>7, <1>8, <1>9 DEF Good
<1>11. Loose(n) = Loose(m) \ {a}
  BY <1>1, <1>2, <1>6, <1>7 DEF Loose, OnList
<1>12. Len(n.bins[0]) = IF zero THEN Len(m.bins[0]) + 1 ELSE Len(m.bins[0])
  BY <1>2, <1>7
<1> QED
  BY <1>6, <1>10, <1>11, <1>12 DEF n, SameHold

(* Another chunk map under the same lists. *)
LEMMA ChunkGood ==
  ASSUME NEW m, Good(m), NEW d, Tiled(d, m.heaps),
         \A x \in DOMAIN m.chunk \ Loose(m) :
           x \in DOMAIN d /\ d[x].size = m.chunk[x].size /\ ~d[x].used,
         NEW n, n = Mem(d, m.bins, m.heaps, m.large, m.heap_size)
  PROVE  /\ Good(n) /\ n.chunk = d /\ n.bins = m.bins /\ SameHold(m, n)
         /\ Loose(n) = (Loose(m) \cap DOMAIN d) \cup (DOMAIN d \ DOMAIN m.chunk)
<1>1. GoodBins(m.bins) /\ Filed(m) /\ Held(m)
  BY DEF Good
<1>2. /\ n.chunk = d /\ n.bins = m.bins /\ n.heaps = m.heaps
      /\ n.large = m.large /\ n.heap_size = m.heap_size /\ IsMem(n)
  BY MemParts
<1>3. \A b \in Row : \A a \in ToSet(m.bins[b]) : a \in DOMAIN m.chunk \ Loose(m)
  BY LooseIs
<1>4. Filed(n)
  BY <1>1, <1>2, <1>3 DEF Filed
<1>5. Held(n)
  BY <1>1, <1>2 DEF Held
<1>6. Good(n)
  BY <1>1, <1>2, <1>4, <1>5 DEF Good
<1>7. \A a : OnList(m.bins, a) => a \in DOMAIN m.chunk \ Loose(m)
  BY <1>3 DEF OnList
<1>8. Loose(n) = (Loose(m) \cap DOMAIN d) \cup (DOMAIN d \ DOMAIN m.chunk)
  BY <1>2, <1>7 DEF Loose
<1> QED
  BY <1>2, <1>6, <1>8 DEF SameHold

(* The context n is m with the flag of the chunk a set to u.               *)
Marked(m, n, a, u) ==
  /\ Good(n) /\ n.chunk = Flagged(m.chunk, a, u) /\ n.bins = m.bins /\ SameHold(m, n)
  /\ Loose(n) = Loose(m) /\ DOMAIN n.chunk = DOMAIN m.chunk
  /\ n.chunk[a].used = u /\ n.chunk[a].size = m.chunk[a].size
  /\ Kept(m, n, DOMAIN m.chunk \ {a})

LEMMA UseGood ==
  ASSUME NEW m, Good(m), NEW a \in Loose(m), NEW u \in BOOLEAN
  PROVE  Marked(m, SetUse(m, a, u), a, u)
<1> DEFINE n == SetUse(m, a, u)
           d == Flagged(m.chunk, a, u)
<1>1. IsMem(m) /\ Tiled(m.chunk, m.heaps) /\ a \in DOMAIN m.chunk
  BY LooseIs DEF Good
<1>2. n = Mem(d, m.bins, m.heaps, m.large, m.heap_size)
  BY <1>1, SetUseIs
<1>3. /\ DOMAIN d = DOMAIN m.chunk /\ d[a].used = u
      /\ \A x \in DOMAIN m.chunk : /\ d[x].size = m.chunk[x].size
                                   /\ x # a => d[x].used = m.chunk[x].used
  BY <1>1, FlagFacts
<1>4. Tiled(d, m.heaps)
  BY <1>1, FlagTiled
<1> HIDE DEF n, d
<1>5. \A x \in DOMAIN m.chunk \ Loose(m) :
        x \in DOMAIN d /\ d[x].size = m.chunk[x].size /\ ~d[x].used
  BY <1>3, LooseIs
<1>6. /\ Good(n) /\ n.chunk = d /\ n.bins = m.bins /\ SameHold(m, n)
      /\ Loose(n) = (Loose(m) \cap DOMAIN d) \cup (DOMAIN d \ DOMAIN m.chunk)
  BY <1>2, <1>4, <1>5, ChunkGood
<1>7. Loose(n) = Loose(m)
  BY <1>3, <1>6, LooseIs
<1>8. Kept(m, n, DOMAIN m.chunk \ {a})
  BY <1>3, <1>6 DEF Kept
<1>9. d = Flagged(m.chunk, a, u)
  BY DEF d
<1>10. Marked(m, n, a, u)
  BY <1>1, <1>3, <1>6, <1>7, <1>8, <1>9 DEF Marked
<1> QED
  BY <1>10 DEF n

LEMMA FootIs ==
  ASSUME NEW e, e = [x \in DOMAIN e |-> e[x]], NEW n \in DOMAIN e, e[n] \in Header, NEW s
  PROVE  LET d == [e EXCEPT ![n].prev_size = s] IN
         /\ DOMAIN d = DOMAIN e /\ d = [x \in DOMAIN d |-> d[x]]
         /\ d[n] = Refoot(e[n], s) /\ \A x \in DOMAIN e : x # n => d[x] = e[x]
<1> DEFINE d == [e EXCEPT ![n].prev_size = s]
<1>1. d[n] = [e[n] EXCEPT !.prev_size = s]
  OBVIOUS
<1>2. d[n] = Refoot(e[n], s)
  BY <1>1 DEF Header, Refoot
<1> QED
  BY <1>2

LEMMA SetFootIs ==
  ASSUME NEW m, IsMem(m), NEW a
  PROVE  SetFoot(m, a)
           = IF m.chunk[a].next
             THEN Mem([m.chunk EXCEPT ![Follow(m.chunk, a)].prev_size = m.chunk[a].size],
                      m.bins, m.heaps, m.large, m.heap_size)
             ELSE m
<1>1. [m EXCEPT !.chunk[Follow(m.chunk, a)].prev_size = m.chunk[a].size]
        = [m EXCEPT !.chunk = [m.chunk EXCEPT ![Follow(m.chunk, a)].prev_size = m.chunk[a].size]]
  BY DEF IsMem, Mem
<1> QED
  BY <1>1, ChangeChunk DEF SetFoot, After, Follow, SizeOf

LEMMA SplitShape ==
  ASSUME NEW m, Good(m), NEW a \in DOMAIN m.chunk, NEW siz \in Nat, siz % Align = 0,
         MINSIZE <= siz, siz + MINSIZE <= m.chunk[a].size, NEW zero
  PROVE  \E d : /\ IsSplit(m.chunk, d, a, siz)
                /\ Split(m, a, siz, zero)
                     = Insert(Mem(d, m.bins, m.heaps, m.large, m.heap_size), Rest(a, siz), zero)
<1> DEFINE c == m.chunk
           r == Rest(a, siz)
           f == Follow(c, a)
           A == [size |-> siz, used |-> TRUE, next |-> TRUE, prev |-> c[a].prev,
                 prev_size |-> c[a].prev_size]
           R == [size |-> c[a].size - siz, used |-> FALSE, next |-> c[a].next,
                 prev |-> TRUE, prev_size |-> siz]
           e == With([c EXCEPT ![a] = A], r, R)
           k == Mem(e, m.bins, m.heaps, m.large, m.heap_size)
           d == IF R.next THEN [e EXCEPT ![f].prev_size = R.size] ELSE e
<1>1. IsMem(m) /\ Tiled(c, m.heaps) /\ c \in [DOMAIN c -> Header] /\ a \in DOMAIN c
  BY DEF Good, Tiled, Headers
<1>2. /\ a[2] \in Int /\ c[a].size \in Int /\ siz \in Int /\ siz > 0 /\ siz < c[a].size
      /\ c[a].next => f \in DOMAIN c /\ f[1] = a[1] /\ f[2] = a[2] + c[a].size
  BY <1>1, ChunkFacts, StepIs
<1>3. r[1] = a[1] /\ r[2] = a[2] + siz /\ r = <<r[1], r[2]>>
  BY DEF Rest
<1>4. r \notin DOMAIN c
  <2> SUFFICES ASSUME r \in DOMAIN c PROVE FALSE
    OBVIOUS
  <2>1. a[2] + c[a].size <= r[2]
    BY <1>1, <1>2, <1>3 DEF Tiled, Disjoint
  <2> QED
    BY <1>2, <1>3, <2>1
<1>5. /\ DOMAIN e = DOMAIN c \cup {r} /\ e = [x \in DOMAIN e |-> e[x]]
      /\ e[a] = A /\ e[r] = R /\ \A x \in DOMAIN c : x # a => e[x] = c[x]
  <2> HIDE DEF A, R
  <2> QED
    BY <1>1, <1>4 DEF With
<1>6. Split(m, a, siz, zero) = Insert(SetFoot(k, r), r, zero)
  <2>1. k = [m EXCEPT !.chunk = e]
    BY <1>1, ChangeChunk
  <2> QED
    BY <2>1 DEF Split, Rest
<1>7. R.next = c[a].next /\ R.size = c[a].size - siz
  OBVIOUS
<1> HIDE DEF e
<1>8. Follow(e, r) = f
  <2>1. e[r].size = c[a].size - siz
    BY <1>5
  <2>2. r[2] + (c[a].size - siz) = a[2] + c[a].size
    BY <1>2, <1>3
  <2> QED
    BY <1>3, <2>1, <2>2 DEF Follow
<1> HIDE DEF A, R, f, r
<1>9. SetFoot(k, r) = Mem(d, m.bins, m.heaps, m.large, m.heap_size)
  <2>1. IsMem(k) /\ k.chunk = e /\ k.bins = m.bins /\ k.heaps = m.heaps /\ k.large = m.large
        /\ k.heap_size = m.heap_size
    BY MemParts
  <2> HIDE DEF k
  <2>2. SetFoot(k, r) = IF e[r].next
                        THEN Mem([e EXCEPT ![Follow(e, r)].prev_size = e[r].size],
                                 m.bins, m.heaps, m.large, m.heap_size)
                        ELSE k
    BY <2>1, SetFootIs, ZenonT(60)
  <2>3. e[r] = R
    BY <1>5
  <2>4. CASE R.next
    BY <1>8, <2>2, <2>3, <2>4
  <2>5. CASE ~R.next
    BY <2>2, <2>3, <2>5 DEF k
  <2> QED
    BY <2>4, <2>5
<1>10. (f # a /\ f # r) \/ ~c[a].next
  <2>1. (f[2] # a[2] /\ f[2] # r[2]) \/ ~c[a].next
    BY <1>2, <1>3
  <2> QED
    BY <2>1
<1>11. /\ DOMAIN d = DOMAIN c \cup {r} /\ d = [x \in DOMAIN d |-> d[x]]
       /\ d[a] = A /\ d[r] = R
       /\ \A x \in DOMAIN c : x # a => d[x] = IF c[a].next /\ x = f THEN Refoot(c[x], c[a].size - siz)
                                              ELSE c[x]
  <2>1. CASE c[a].next
    <3>1. f \in DOMAIN e /\ e[f] = c[f] /\ c[f] \in Header
      BY <1>1, <1>2, <1>5, <1>10, <2>1
    <3> DEFINE g == [e EXCEPT ![f].prev_size = R.size]
    <3>2. /\ DOMAIN g = DOMAIN e /\ g = [x \in DOMAIN g |-> g[x]]
          /\ g[f] = Refoot(c[f], R.size) /\ \A x \in DOMAIN e : x # f => g[x] = e[x]
      <4> DEFINE s == R.size
      <4>1. e = [x \in DOMAIN e |-> e[x]] /\ f \in DOMAIN e /\ e[f] \in Header
        BY <1>5, <3>1
      <4> HIDE DEF s
      <4>2. LET h == [e EXCEPT ![f].prev_size = s] IN
            /\ DOMAIN h = DOMAIN e /\ h = [x \in DOMAIN h |-> h[x]]
            /\ h[f] = Refoot(e[f], s) /\ \A x \in DOMAIN e : x # f => h[x] = e[x]
        BY ONLY <4>1, FootIs
      <4> QED
        BY <3>1, <4>2 DEF s
    <3>3. d = g
      BY <1>7, <2>1
    <3> HIDE DEF g, d
    <3>4. DOMAIN d = DOMAIN c \cup {r} /\ d = [x \in DOMAIN d |-> d[x]]
      BY <1>5, <3>2, <3>3
    <3>5. d[a] = A /\ d[r] = R
      BY <1>1, <1>5, <1>10, <2>1, <3>2, <3>3
    <3>6. ASSUME NEW x \in DOMAIN c, x # a
          PROVE  d[x] = IF c[a].next /\ x = f THEN Refoot(c[x], c[a].size - siz) ELSE c[x]
      BY <1>5, <1>7, <2>1, <3>2, <3>3, <3>6
    <3> QED
      BY <3>4, <3>5, <3>6
  <2>2. CASE ~c[a].next
    <3>1. d = e
      BY <1>7, <2>2
    <3> HIDE DEF d
    <3> QED
      BY <1>5, <2>2, <3>1
  <2> QED
    BY <2>1, <2>2
<1> HIDE DEF d, k
<1>12. IsSplit(c, d, a, siz)
  BY <1>11 DEF IsSplit, A, R, f, r
<1>13. Split(m, a, siz, zero)
         = Insert(Mem(d, m.bins, m.heaps, m.large, m.heap_size), Rest(a, siz), zero)
  BY <1>6, <1>9 DEF r
<1> QED
  BY <1>12, <1>13

(* A chunk in no list is cut; what is left over goes to a list at once. *)
(* The context n is m with the chunk a cut after siz bytes and the rest    *)
(* filed, in the first list or not.                                        *)
Sliced(m, n, a, siz, zero) ==
  /\ Good(n) /\ SameHold(m, n) /\ Loose(n) = Loose(m)
  /\ n.chunk[a].used /\ n.chunk[a].size = siz /\ Kept(m, n, DOMAIN m.chunk \ {a})
  /\ IsSplit(m.chunk, n.chunk, a, siz)
  /\ Len(n.bins[0]) = IF zero THEN Len(m.bins[0]) + 1 ELSE Len(m.bins[0])

LEMMA SplitGood ==
  ASSUME NEW m, Good(m), NEW a \in Loose(m), NEW siz \in Nat, siz % Align = 0,
         MINSIZE <= siz, siz + MINSIZE <= m.chunk[a].size, NEW zero \in BOOLEAN
  PROVE  Sliced(m, Split(m, a, siz, zero), a, siz, zero)
<1> DEFINE n == Split(m, a, siz, zero)
           r == Rest(a, siz)
<1>1. Tiled(m.chunk, m.heaps) /\ a \in DOMAIN m.chunk
  BY LooseIs DEF Good
<1>2. PICK d : /\ IsSplit(m.chunk, d, a, siz)
               /\ n = Insert(Mem(d, m.bins, m.heaps, m.large, m.heap_size), r, zero)
  BY <1>1, SplitShape
<1>3. Tiled(d, m.heaps)
  BY <1>1, <1>2, SplitTiled
<1>4. /\ r \notin DOMAIN m.chunk /\ ~d[r].used /\ d[a].used /\ d[a].size = siz
      /\ \A x \in DOMAIN m.chunk : x # a => d[x].size = m.chunk[x].size /\ d[x].used = m.chunk[x].used
  BY <1>1, <1>2, SplitFacts
<1>5. DOMAIN d = DOMAIN m.chunk \cup {r}
  BY <1>2 DEF IsSplit
<1> DEFINE k == Mem(d, m.bins, m.heaps, m.large, m.heap_size)
<1>6. \A x \in DOMAIN m.chunk \ Loose(m) :
        x \in DOMAIN d /\ d[x].size = m.chunk[x].size /\ ~d[x].used
  BY <1>4, <1>5, LooseIs
<1> HIDE DEF r
<1>7. /\ Good(k) /\ k.chunk = d /\ k.bins = m.bins /\ SameHold(m, k)
      /\ Loose(k) = (Loose(m) \cap DOMAIN d) \cup (DOMAIN d \ DOMAIN m.chunk)
  BY <1>3, <1>6, ChunkGood
<1>8. n = Insert(k, r, zero)
  BY <1>2
<1> HIDE DEF k, n
<1>9. Loose(k) = Loose(m) \cup {r} /\ r \notin Loose(m) /\ r \in Loose(k) /\ ~k.chunk[r].used
  BY <1>4, <1>5, <1>7, LooseIs
<1>10. /\ Good(n) /\ n.chunk = k.chunk /\ SameHold(k, n) /\ Loose(n) = Loose(k) \ {r}
       /\ Len(n.bins[0]) = IF zero THEN Len(k.bins[0]) + 1 ELSE Len(k.bins[0])
  BY <1>7, <1>8, <1>9, InsertGood
<1>11. n.chunk = d /\ SameHold(m, n) /\ Loose(n) = Loose(m)
       /\ Len(n.bins[0]) = IF zero THEN Len(m.bins[0]) + 1 ELSE Len(m.bins[0])
  BY <1>7, <1>9, <1>10 DEF SameHold
<1>12. Kept(m, n, DOMAIN m.chunk \ {a})
  BY <1>4, <1>5, <1>11 DEF Kept
<1>13. Sliced(m, n, a, siz, zero)
  BY <1>2, <1>4, <1>10, <1>11, <1>12 DEF Sliced
<1> QED
  BY <1>13 DEF n

LEMMA MergeShape ==
  ASSUME NEW m, Good(m), NEW a \in DOMAIN m.chunk, m.chunk[a].next
  PROVE  \E d : /\ IsMerge(m.chunk, d, a)
                /\ Merge(m, a) = Mem(d, m.bins, m.heaps, m.large, m.heap_size)
<1> DEFINE c == m.chunk
           n == Follow(c, a)
           s == c[a].size + c[n].size
           f == Follow(c, n)
           A == [size |-> s, used |-> FALSE, next |-> c[n].next, prev |-> c[a].prev,
                 prev_size |-> c[a].prev_size]
           e == Without([c EXCEPT ![a] = A], {n})
           k == Mem(e, m.bins, m.heaps, m.large, m.heap_size)
           d == IF A.next THEN [e EXCEPT ![f].prev_size = A.size] ELSE e
<1>1. IsMem(m) /\ Tiled(c, m.heaps) /\ c \in [DOMAIN c -> Header] /\ a \in DOMAIN c
  BY DEF Good, Tiled, Headers
<1>2. /\ n \in DOMAIN c /\ n # a /\ n[1] = a[1] /\ n[2] = a[2] + c[a].size
      /\ a[2] \in Int /\ c[a].size \in Int
  BY <1>1, ChunkFacts
<1>3. /\ c[n].size \in Int /\ n[2] \in Int /\ c[n].size > 0 /\ c[a].size > 0
      /\ c[n].next => f \in DOMAIN c /\ f[1] = n[1] /\ f[2] = n[2] + c[n].size
  BY <1>1, <1>2, ChunkFacts, StepIs
<1>4. (f # n /\ f # a) \/ ~c[n].next
  <2>1. (f[2] # n[2] /\ f[2] # a[2]) \/ ~c[n].next
    BY <1>2, <1>3
  <2> QED
    BY <2>1
<1>5. /\ DOMAIN e = DOMAIN c \ {n} /\ e = [x \in DOMAIN e |-> e[x]]
      /\ e[a] = A /\ \A x \in DOMAIN c \ {a, n} : e[x] = c[x]
  <2> HIDE DEF A, n
  <2> QED
    BY <1>1, <1>2 DEF Without, Restrict
<1>6. Merge(m, a) = SetFoot(k, a)
  <2>1. k = [m EXCEPT !.chunk = e]
    BY <1>1, ChangeChunk
  <2>2. After(m, a) = n
    BY DEF After, SizeOf, Follow
  <2> QED
    BY <2>1, <2>2 DEF Merge
<1>7. A.next = c[n].next /\ A.size = s
  OBVIOUS
<1> HIDE DEF e
<1>8. Follow(e, a) = f
  <2>1. e[a].size = s
    BY <1>5
  <2>2. a[2] + s = n[2] + c[n].size
    BY <1>2, <1>3
  <2>3. Follow(e, a) = <<a[1], a[2] + s>>
    BY <2>1 DEF Follow
  <2>4. f = <<n[1], n[2] + c[n].size>>
    BY DEF Follow
  <2> QED
    BY <1>2, <2>2, <2>3, <2>4
<1> HIDE DEF A, f, n
<1>9. SetFoot(k, a) = Mem(d, m.bins, m.heaps, m.large, m.heap_size)
  <2>1. IsMem(k) /\ k.chunk = e
        /\ k.bins = m.bins /\ k.heaps = m.heaps /\ k.large = m.large /\ k.heap_size = m.heap_size
    BY MemParts
  <2> HIDE DEF k
  <2>2. SetFoot(k, a) = IF e[a].next
                        THEN Mem([e EXCEPT ![Follow(e, a)].prev_size = e[a].size],
                                 m.bins, m.heaps, m.large, m.heap_size)
                        ELSE k
    BY <2>1, SetFootIs, ZenonT(60)
  <2>3. e[a] = A
    BY <1>5
  <2>4. CASE A.next
    BY <1>8, <2>2, <2>3, <2>4
  <2>5. CASE ~A.next
    BY <2>2, <2>3, <2>5 DEF k
  <2> QED
    BY <2>4, <2>5
<1>10. /\ DOMAIN d = DOMAIN c \ {n} /\ d = [x \in DOMAIN d |-> d[x]] /\ d[a] = A
       /\ \A x \in DOMAIN c \ {a, n} : d[x] = IF c[n].next /\ x = f THEN Refoot(c[x], s) ELSE c[x]
  <2>1. CASE c[n].next
    <3> DEFINE t == A.size
               g == [e EXCEPT ![f].prev_size = t]
    <3>1. f \in DOMAIN e /\ e[f] = c[f] /\ e[f] \in Header
      BY <1>1, <1>3, <1>4, <1>5, <2>1
    <3> HIDE DEF t
    <3>2. /\ DOMAIN g = DOMAIN e /\ g = [x \in DOMAIN g |-> g[x]]
          /\ g[f] = Refoot(e[f], t) /\ \A x \in DOMAIN e : x # f => g[x] = e[x]
      BY <1>5, <3>1, FootIs, ZenonT(60)
    <3>3. d = g /\ t = s
      BY <1>7, <2>1 DEF t
    <3> HIDE DEF g, d, s
    <3>4. DOMAIN d = DOMAIN c \ {n} /\ d = [x \in DOMAIN d |-> d[x]]
      BY <1>5, <3>2, <3>3
    <3>5. d[a] = A
      BY <1>1, <1>2, <1>4, <1>5, <2>1, <3>2, <3>3
    <3>6. ASSUME NEW x \in DOMAIN c \ {a, n}
          PROVE  d[x] = IF c[n].next /\ x = f THEN Refoot(c[x], s) ELSE c[x]
      BY <1>5, <2>1, <3>1, <3>2, <3>3
    <3> QED
      BY <3>4, <3>5, <3>6
  <2>2. CASE ~c[n].next
    <3>1. d = e
      BY <1>7, <2>2
    <3>2. a \in DOMAIN c \ {n}
      BY <1>1, <1>2
    <3> HIDE DEF d
    <3> QED
      BY <1>5, <2>2, <3>1
  <2> QED
    BY <2>1, <2>2
<1> HIDE DEF d, k
<1>11. IsMerge(c, d, a)
  BY <1>1, <1>10 DEF IsMerge, A, f, n
<1> QED
  BY <1>6, <1>9, <1>11

(* The context n is m with the chunk a grown by f, the chunk after it.     *)
Joined(m, n, a, f) ==
  /\ Good(n) /\ n.bins = m.bins /\ SameHold(m, n)
  /\ Loose(n) = Loose(m) \ {f} /\ f # a /\ f \notin DOMAIN n.chunk
  /\ DOMAIN n.chunk = DOMAIN m.chunk \ {f}
  /\ ~n.chunk[a].used /\ n.chunk[a].size = m.chunk[a].size + m.chunk[f].size
  /\ Kept(m, n, DOMAIN m.chunk \ {a, f}) /\ IsMerge(m.chunk, n.chunk, a)

LEMMA MergeGood ==
  ASSUME NEW m, Good(m), NEW a \in Loose(m), m.chunk[a].next,
         Follow(m.chunk, a) \in Loose(m)
  PROVE  Joined(m, Merge(m, a), a, Follow(m.chunk, a))
<1> DEFINE n == Merge(m, a)
           f == Follow(m.chunk, a)
<1>1. Tiled(m.chunk, m.heaps) /\ a \in DOMAIN m.chunk
  BY LooseIs DEF Good
<1>2. PICK d : IsMerge(m.chunk, d, a) /\ n = Mem(d, m.bins, m.heaps, m.large, m.heap_size)
  BY <1>1, MergeShape
<1>3. Tiled(d, m.heaps)
  BY <1>1, <1>2, MergeTiled
<1>4. /\ a \in DOMAIN d /\ f \in DOMAIN m.chunk /\ f # a
      /\ d[a].size = m.chunk[a].size + m.chunk[f].size /\ ~d[a].used
      /\ \A x \in DOMAIN d : x # a =>
           /\ x \in DOMAIN m.chunk /\ x # f
           /\ d[x].size = m.chunk[x].size /\ d[x].used = m.chunk[x].used
  BY <1>1, <1>2, MergeFacts
<1>5. DOMAIN d = DOMAIN m.chunk \ {f}
  BY <1>2 DEF IsMerge
<1>6. \A x \in DOMAIN m.chunk \ Loose(m) :
        x \in DOMAIN d /\ d[x].size = m.chunk[x].size /\ ~d[x].used
  <2> SUFFICES ASSUME NEW x \in DOMAIN m.chunk \ Loose(m)
               PROVE  x \in DOMAIN d /\ d[x].size = m.chunk[x].size /\ ~d[x].used
    OBVIOUS
  <2>1. x # f /\ x # a /\ ~m.chunk[x].used
    BY LooseIs
  <2> QED
    BY <1>4, <1>5, <2>1
<1> HIDE DEF n, f
<1>7. /\ Good(n) /\ n.chunk = d /\ n.bins = m.bins /\ SameHold(m, n)
      /\ Loose(n) = (Loose(m) \cap DOMAIN d) \cup (DOMAIN d \ DOMAIN m.chunk)
  BY <1>2, <1>3, <1>6, ChunkGood
<1>8. Loose(n) = Loose(m) \ {f}
  BY <1>5, <1>7, LooseIs
<1>9. Kept(m, n, DOMAIN m.chunk \ {a, f})
  BY <1>4, <1>5, <1>7 DEF Kept
<1>10. Joined(m, n, a, f)
  BY <1>2, <1>4, <1>5, <1>7, <1>8, <1>9 DEF Joined
<1> QED
  BY <1>10 DEF n, f

(* The smallest element of a set of numbers. *)
LEMMA MinIs ==
  ASSUME NEW S, S \subseteq Nat, S # {}
  PROVE  Min(S) \in S /\ \A x \in S : Min(S) <= x
<1> DEFINE D == {n \in Nat : \A x \in S : n <= x \/ \E y \in S : y < n /\ \A z \in S : y <= z}
<1>1. \E y \in S : \A z \in S : y <= z
  <2> SUFFICES ASSUME ~\E y \in S : \A z \in S : y <= z PROVE FALSE
    OBVIOUS
  <2> DEFINE E == {n \in Nat : \A x \in S : n <= x}
  <2>1. 0 \in E
    OBVIOUS
  <2>2. ASSUME NEW n \in Nat, n \in E PROVE n + 1 \in E
    <3>1. n \notin S
      BY <2>2
    <3>2. \A x \in S : x \in Nat /\ n <= x /\ n # x
      BY <2>2, <3>1
    <3>3. \A x \in S : n + 1 <= x
      BY <3>2
    <3> QED
      BY <3>3
  <2>3. \A n \in Nat : n \in E => n + 1 \in E
    BY <2>2
  <2> HIDE DEF E
  <2>4. Nat \subseteq E
    BY <2>1, <2>3, AllNumbers
  <2>5. PICK x \in S : TRUE
    OBVIOUS
  <2>6. x \in Nat /\ x + 1 \in E
    BY <2>4
  <2>7. x + 1 <= x
    BY <2>6 DEF E
  <2> QED
    BY <2>6, <2>7
<1> QED
  BY <1>1 DEF Min

(* The parent's next block is new to the context and to the callers. *)
LEMMA NewHeapIs ==
  ASSUME NEW m, HeapsOf(m) \subseteq 1 .. MaxHeaps, DOMAIN live \subseteq Blocks
  PROVE  /\ NewHeap(m) \in 1 .. MaxHeaps + 1 /\ NewHeap(m) \notin HeapsOf(m)
         /\ \A a \in DOMAIN live : a[1] # NewHeap(m)
<1> DEFINE S == (1 .. MaxHeaps + 1) \ (HeapsOf(m) \union {a[1] : a \in DOMAIN live})
<1>1. MaxHeaps \in Nat
  BY BoundsAssumption
<1>2. \A a \in DOMAIN live : a[1] \in 1 .. MaxHeaps
  BY DEF Blocks
<1>3. MaxHeaps + 1 \in S
  BY <1>1, <1>2
<1>4. S \subseteq Nat
  BY <1>1
<1>5. NewHeap(m) = Min(S)
  BY DEF NewHeap
<1>6. \A h \in S : h \in 1 .. MaxHeaps + 1 /\ h \notin HeapsOf(m) /\ \A a \in DOMAIN live : a[1] # h
  OBVIOUS
<1> HIDE DEF S
<1>7. NewHeap(m) \in S
  BY <1>3, <1>4, <1>5, MinIs
<1> QED
  BY <1>6, <1>7

(* A heap the parent gives. *)
TopOf(m, h) ==
  Mem(With(m.chunk, <<h, 0>>, TopHeader), m.bins, m.heaps \cup {h}, m.large, m.heap_size + Step)

LEMMA TopGood ==
  ASSUME NEW m, Good(m), NEW h \in Nat \ {0}, h \notin HeapsOf(m)
  PROVE  LET n == TopOf(m, h)
             a == <<h, 0>>
         IN /\ Good(n) /\ n.bins = m.bins /\ n.large = m.large /\ n.heaps = m.heaps \cup {h}
            /\ Owed(n) = Owed(m)
            /\ a \notin DOMAIN m.chunk /\ DOMAIN n.chunk = DOMAIN m.chunk \cup {a}
            /\ n.chunk[a] = TopHeader /\ Loose(n) = Loose(m) \cup {a}
            /\ \A x \in DOMAIN m.chunk : n.chunk[x] = m.chunk[x]
<1> DEFINE n == TopOf(m, h)
           a == <<h, 0>>
           d == With(m.chunk, a, TopHeader)
           H == m.heaps \cup {h}
<1>1. IsMem(m) /\ Tiled(m.chunk, m.heaps) /\ GoodBins(m.bins) /\ Filed(m) /\ Held(m)
  BY DEF Good
<1>2. h \notin m.heaps /\ h \notin DOMAIN m.large
  BY DEF HeapsOf
<1>3. /\ a \notin DOMAIN m.chunk /\ DOMAIN d = DOMAIN m.chunk \cup {a} /\ d[a] = TopHeader
      /\ (\A x \in DOMAIN m.chunk : d[x] = m.chunk[x]) /\ Tiled(d, H)
  BY <1>1, <1>2, TopTiled
<1>4. n = Mem(d, m.bins, H, m.large, m.heap_size + Step)
  BY DEF TopOf
<1> HIDE DEF d, a
<1>5. /\ n.chunk = d /\ n.bins = m.bins /\ n.heaps = H
      /\ n.large = m.large /\ n.heap_size = m.heap_size + Step /\ IsMem(n)
  BY <1>4, MemParts
<1> HIDE DEF n
<1>6. Step \in Int
  BY StepIs
<1>7. Held(n)
  <2>1. IsFiniteSet(H)
    BY <1>1, FS_AddElement DEF Held
  <2>2. H \cap DOMAIN m.large = {} /\ H \subseteq Nat \ {0}
    BY <1>1, <1>2 DEF Held
  <2> QED
    BY <1>1, <1>5, <1>6, <2>1, <2>2 DEF Held
<1>8. Filed(n)
  BY <1>1, <1>3, <1>5 DEF Filed
<1>9. Good(n)
  BY <1>1, <1>3, <1>5, <1>7, <1>8 DEF Good
<1>10. \A b \in Row : \A x \in ToSet(m.bins[b]) : x \in DOMAIN m.chunk
  BY <1>1 DEF Filed
<1>11. Loose(n) = Loose(m) \cup {a}
  BY <1>3, <1>5, <1>10 DEF Loose, OnList
<1>12. Owed(n) = Owed(m)
  <2> DEFINE k == Cardinality(m.heaps)
             s == SumOf(m.large, DOMAIN m.large)
  <2>1. Cardinality(H) = k + 1 /\ k \in Nat
    BY <1>1, <1>2, FS_AddElement, FS_CardinalityType DEF Held
  <2>2. s \in Int /\ m.heap_size \in Int
    BY <1>1, SumFacts DEF Held
  <2>3. Owed(n) = (m.heap_size + Step) - (Step * (k + 1) + s) /\ Owed(m) = m.heap_size - (Step * k + s)
    BY <1>5, <2>1 DEF Owed
  <2> HIDE DEF k, s
  <2>4. Step * (k + 1) = Step * k + Step /\ Step * k \in Int
    BY <1>6, <2>1
  <2> QED
    BY <1>6, <2>1, <2>2, <2>3, <2>4
<1> QED
  BY <1>3, <1>5, <1>9, <1>11, <1>12 DEF n, a

LEMMA SameOwed ==
  ASSUME NEW m, NEW n, SameHold(m, n)
  PROVE  Owed(n) = Owed(m) /\ HeapsOf(n) = HeapsOf(m)
BY DEF SameHold, Owed, HeapsOf

LEMMA ReturnGood ==
  ASSUME NEW m, Good(m), NEW a \in Loose(m), m.chunk[a].size = Step
  PROVE  LET n == ReturnHeap(m, a) IN
         /\ Good(n) /\ n.bins = m.bins /\ n.large = m.large /\ n.heaps = m.heaps \ {a[1]}
         /\ Owed(n) = Owed(m) /\ Loose(n) = Loose(m) \ {a}
         /\ DOMAIN n.chunk = DOMAIN m.chunk \ {a}
         /\ \A x \in DOMAIN n.chunk : n.chunk[x] = m.chunk[x]
<1> DEFINE n == ReturnHeap(m, a)
           d == Without(m.chunk, {a})
           H == m.heaps \ {a[1]}
<1>1. /\ IsMem(m) /\ Tiled(m.chunk, m.heaps) /\ GoodBins(m.bins) /\ Filed(m) /\ Held(m)
      /\ a \in DOMAIN m.chunk /\ a[1] \in m.heaps
  BY LooseIs, GoodPlace DEF Good
<1>2. /\ DOMAIN d = DOMAIN m.chunk \ {a} /\ (\A x \in DOMAIN d : d[x] = m.chunk[x])
      /\ Tiled(d, H)
  BY <1>1, ReturnTiled, ZenonT(60)
<1>3. n = Mem(d, m.bins, H, m.large, m.heap_size - Step)
  <2> DEFINE t == m.heap_size - Step
  <2>1. n = HeapsNow(m, d, H, t)
    BY DEF ReturnHeap, HeapsNow
  <2> HIDE DEF n, d, H, t
  <2>2. HeapsNow(m, d, H, t) = Mem(d, m.bins, H, m.large, t)
    BY <1>1, ChangeHeaps
  <2> QED
    BY <2>1, <2>2 DEF t
<1> HIDE DEF d
<1>4. /\ n.chunk = d /\ n.bins = m.bins /\ n.heaps = H
      /\ n.large = m.large /\ n.heap_size = m.heap_size - Step /\ IsMem(n)
  BY <1>3, MemParts
<1> HIDE DEF n
<1>5. Step \in Int
  BY StepIs
<1>6. Held(n)
  <2>1. IsFiniteSet(H)
    BY <1>1, FS_RemoveElement DEF Held
  <2>2. H \cap DOMAIN m.large = {} /\ H \subseteq Nat \ {0}
    BY <1>1 DEF Held
  <2> QED
    BY <1>1, <1>4, <1>5, <2>1, <2>2 DEF Held
<1>7. \A b \in Row : \A x \in ToSet(m.bins[b]) : x \in DOMAIN m.chunk /\ x # a
  BY LooseIs
<1>8. Filed(n)
  BY <1>1, <1>2, <1>4, <1>7 DEF Filed
<1>9. Good(n)
  BY <1>1, <1>2, <1>4, <1>6, <1>8 DEF Good
<1>10. Loose(n) = Loose(m) \ {a}
  BY <1>2, <1>4 DEF Loose, OnList
<1>11. Owed(n) = Owed(m)
  <2> DEFINE k == Cardinality(m.heaps)
             s == SumOf(m.large, DOMAIN m.large)
  <2>1. Cardinality(H) = k - 1 /\ k \in Nat
    BY <1>1, FS_RemoveElement, FS_CardinalityType DEF Held
  <2>2. s \in Int /\ m.heap_size \in Int
    BY <1>1, SumFacts DEF Held
  <2>3. Owed(n) = (m.heap_size - Step) - (Step * (k - 1) + s) /\ Owed(m) = m.heap_size - (Step * k + s)
    BY <1>4, <2>1 DEF Owed
  <2> HIDE DEF k, s
  <2>4. Step * (k - 1) = Step * k - Step /\ Step * k \in Int
    BY <1>5, <2>1
  <2> QED
    BY <1>5, <2>1, <2>2, <2>3, <2>4
<1> QED
  BY <1>2, <1>4, <1>9, <1>10, <1>11 DEF n

(* A heap with the chunks and lists it has, and other large blocks. *)
LEMMA LargeGood ==
  ASSUME NEW m, Good(m), NEW g, NEW s \in Int, Summable(g, DOMAIN g), g \in [DOMAIN g -> Nat],
         DOMAIN g \subseteq Nat \ {0}, m.heaps \cap DOMAIN g = {},
         SumOf(g, DOMAIN g) - SumOf(m.large, DOMAIN m.large) = s - m.heap_size,
         NEW n, n = Mem(m.chunk, m.bins, m.heaps, g, s)
  PROVE  /\ Good(n) /\ n.chunk = m.chunk /\ n.bins = m.bins /\ n.heaps = m.heaps
         /\ n.large = g /\ Owed(n) = Owed(m) /\ Loose(n) = Loose(m)
<1>1. IsMem(m) /\ Tiled(m.chunk, m.heaps) /\ GoodBins(m.bins) /\ Filed(m) /\ Held(m)
  BY DEF Good
<1>2. /\ n.chunk = m.chunk /\ n.bins = m.bins /\ n.heaps = m.heaps
      /\ n.large = g /\ n.heap_size = s /\ IsMem(n)
  BY MemParts
<1>3. Held(n)
  BY <1>1, <1>2 DEF Held
<1>4. Filed(n)
  BY <1>1, <1>2 DEF Filed
<1>5. Good(n)
  BY <1>1, <1>2, <1>3, <1>4 DEF Good
<1>6. Owed(n) = Owed(m)
  <2> DEFINE k == Step * Cardinality(m.heaps)
             t == SumOf(m.large, DOMAIN m.large)
             u == SumOf(g, DOMAIN g)
  <2>1. k \in Int
    <3>1. Cardinality(m.heaps) \in Int /\ Step \in Int
      BY <1>1, StepIs, FS_CardinalityType DEF Held
    <3> QED
      BY <3>1
  <2>2. t \in Int /\ u \in Int /\ m.heap_size \in Int
    BY <1>1, SumFacts DEF Held
  <2>3. Owed(n) = s - (k + u) /\ Owed(m) = m.heap_size - (k + t)
    BY <1>2 DEF Owed
  <2> HIDE DEF k, t, u
  <2>4. u - t = s - m.heap_size
    BY DEF t, u
  <2> QED
    BY <2>1, <2>2, <2>3, <2>4
<1>7. Loose(n) = Loose(m)
  BY <1>2 DEF Loose
<1> QED
  BY <1>2, <1>5, <1>6, <1>7

-----------------------------------------------------------------------------
(* A request: n is m with the chunk a given away, or m with nothing given. *)

IsRequest(siz) == siz \in Nat /\ siz % Align = 0 /\ MINSIZE <= siz
Given(m, n, a, siz) ==
  /\ Good(n) /\ Owed(n) = Owed(m) /\ n.large = m.large
  /\ a \notin Loose(m) /\ Loose(n) = Loose(m) \cup {a}
  /\ n.chunk[a].used /\ siz <= n.chunk[a].size /\ Kept(m, n, Loose(m))
Refused(m, n) == Good(n) /\ SameHold(m, n) /\ n.chunk = m.chunk /\ Loose(n) = Loose(m)
Served(m, r, siz) ==
  IF r[2] = NULL THEN Refused(m, r[1]) ELSE Given(m, r[1], r[2], siz)
Placed(m) == HeapsOf(m) \subseteq 1 .. MaxHeaps /\ DOMAIN live \subseteq Blocks

LEMMA UseForGood ==
  ASSUME NEW m, Good(m), NEW a \in Loose(m), NEW siz, IsRequest(siz),
         siz <= m.chunk[a].size, NEW zero \in BOOLEAN
  PROVE  LET n == UseFor(m, a, siz, zero) IN
         /\ Good(n) /\ SameHold(m, n) /\ Loose(n) = Loose(m)
         /\ n.chunk[a].used /\ siz <= n.chunk[a].size /\ Kept(m, n, DOMAIN m.chunk \ {a})
<1> DEFINE n == UseFor(m, a, siz, zero)
<1>1. m.chunk[a].size \in Int /\ siz \in Nat /\ siz % Align = 0 /\ MINSIZE <= siz /\ MINSIZE \in Int
  BY LooseIs, GoodPlace, StepIs DEF IsRequest
<1>2. CASE m.chunk[a].size >= siz + MINSIZE
  <2>1. n = Split(m, a, siz, zero)
    BY <1>2 DEF UseFor, SizeOf
  <2>2. siz + MINSIZE <= m.chunk[a].size
    BY <1>1, <1>2
  <2> HIDE DEF n
  <2>3. /\ Good(n) /\ SameHold(m, n) /\ Loose(n) = Loose(m)
        /\ n.chunk[a].used /\ n.chunk[a].size = siz /\ Kept(m, n, DOMAIN m.chunk \ {a})
    <3> DEFINE k == Split(m, a, siz, zero)
    <3>1. Sliced(m, k, a, siz, zero)
      BY <1>1, <2>2, SplitGood
    <3> QED
      BY <2>1, <3>1 DEF Sliced
  <2> QED
    BY <1>1, <2>3 DEF n
<1>3. CASE ~(m.chunk[a].size >= siz + MINSIZE)
  <2>1. n = SetUse(m, a, TRUE)
    BY <1>3 DEF UseFor, SizeOf
  <2> HIDE DEF n
  <2>2. Marked(m, n, a, TRUE)
    BY <2>1, UseGood
  <2> QED
    BY <2>2 DEF n, Marked
<1> QED
  BY <1>2, <1>3

(* A listed chunk is taken off its list and used. *)
LEMMA TakeListed ==
  ASSUME NEW m, Good(m), NEW b \in Row, NEW a \in ToSet(m.bins[b]), NEW siz, IsRequest(siz),
         siz <= m.chunk[a].size, NEW zero \in BOOLEAN
  PROVE  Given(m, UseFor(remove_from_bin(m, a), a, siz, zero), a, siz) /\ a # NULL
<1> DEFINE k == remove_from_bin(m, a)
           n == UseFor(k, a, siz, zero)
<1>1. a \in DOMAIN m.chunk /\ a \notin Loose(m) /\ Loose(m) \subseteq DOMAIN m.chunk
  BY LooseIs
<1>2. Good(k) /\ k.chunk = m.chunk /\ SameHold(m, k) /\ Loose(k) = Loose(m) \cup {a}
  BY <1>1, RemoveGood
<1> HIDE DEF k
<1>3. /\ Good(n) /\ SameHold(k, n) /\ Loose(n) = Loose(k)
      /\ n.chunk[a].used /\ siz <= n.chunk[a].size /\ Kept(k, n, DOMAIN k.chunk \ {a})
  BY <1>2, UseForGood
<1> HIDE DEF n
<1>4. Owed(n) = Owed(m) /\ n.large = m.large
  BY <1>2, <1>3, SameOwed DEF SameHold
<1>5. Kept(m, n, Loose(m))
  BY <1>1, <1>2, <1>3 DEF Kept
<1>6. a # NULL
  BY <1>1, GoodPlace
<1> QED
  BY <1>1, <1>2, <1>3, <1>4, <1>5, <1>6 DEF Given, n, k

(* A chunk the exact bins hold is taken whole. *)
LEMMA TakeWhole ==
  ASSUME NEW m, Good(m), NEW b \in Row, NEW a \in ToSet(m.bins[b]), NEW siz \in Nat,
         siz <= m.chunk[a].size
  PROVE  Given(m, SetUse(remove_from_bin(m, a), a, TRUE), a, siz) /\ a # NULL
<1> DEFINE k == remove_from_bin(m, a)
           n == SetUse(k, a, TRUE)
<1>1. a \in DOMAIN m.chunk /\ a \notin Loose(m) /\ Loose(m) \subseteq DOMAIN m.chunk
  BY LooseIs
<1>2. Good(k) /\ k.chunk = m.chunk /\ SameHold(m, k) /\ Loose(k) = Loose(m) \cup {a}
  BY <1>1, RemoveGood
<1> HIDE DEF k
<1>3. /\ Good(n) /\ SameHold(k, n) /\ Loose(n) = Loose(k)
      /\ n.chunk[a].used /\ n.chunk[a].size = k.chunk[a].size /\ Kept(k, n, DOMAIN k.chunk \ {a})
  <2>1. Marked(k, n, a, TRUE)
    BY <1>2, UseGood
  <2> HIDE DEF n
  <2> QED
    BY <2>1 DEF Marked
<1> HIDE DEF n
<1>4. Owed(n) = Owed(m) /\ n.large = m.large
  BY <1>2, <1>3, SameOwed DEF SameHold
<1>5. Kept(m, n, Loose(m))
  BY <1>1, <1>2, <1>3 DEF Kept
<1>6. a # NULL
  BY <1>1, GoodPlace
<1> QED
  BY <1>1, <1>2, <1>3, <1>4, <1>5, <1>6 DEF Given, n, k

(* The first block of a new heap. *)
LEMMA TopShape ==
  ASSUME NEW m, IsMem(m), NEW siz
  PROVE  TopAlloc(m, siz) = <<UseFor(TopOf(m, NewHeap(m)), <<NewHeap(m), 0>>, siz, TRUE),
                              <<NewHeap(m), 0>>>>
<1> DEFINE h == NewHeap(m)
           a == <<h, 0>>
           d == With(m.chunk, a, TopHeader)
           H == m.heaps \cup {a[1]}
           s == m.heap_size + Step
           k == [m EXCEPT !.heaps = H, !.heap_size = s, !.chunk = d]
<1>1. TopAlloc(m, siz) = <<UseFor(k, a, siz, TRUE), a>>
  BY DEF TopAlloc, TopHeader
<1>2. a[1] = h
  OBVIOUS
<1> HIDE DEF h, a, d
<1>3. H = m.heaps \cup {h}
  BY <1>2
<1> HIDE DEF H, s
<1>4. k = [[[m EXCEPT !.heaps = H] EXCEPT !.heap_size = s] EXCEPT !.chunk = d]
  OBVIOUS
<1>5. [m EXCEPT !.heaps = H] = Mem(m.chunk, m.bins, H, m.large, m.heap_size)
  BY DEF IsMem, Mem
<1>6. [Mem(m.chunk, m.bins, H, m.large, m.heap_size) EXCEPT !.heap_size = s]
        = Mem(m.chunk, m.bins, H, m.large, s)
  BY DEF Mem
<1>7. [Mem(m.chunk, m.bins, H, m.large, s) EXCEPT !.chunk = d] = Mem(d, m.bins, H, m.large, s)
  BY DEF Mem
<1>8. k = Mem(d, m.bins, H, m.large, s)
  BY <1>4, <1>5, <1>6, <1>7
<1>9. k = TopOf(m, h)
  BY <1>3, <1>8 DEF TopOf, d, a, s
<1> HIDE DEF k
<1> QED
  BY <1>1, <1>9 DEF h, a

LEMMA TakeTop ==
  ASSUME NEW m, Good(m), Placed(m), NEW siz, IsRequest(siz), siz <= Step
  PROVE  LET r == TopAlloc(m, siz) IN Given(m, r[1], r[2], siz) /\ r[2] # NULL
<1> DEFINE h == NewHeap(m)
           a == <<h, 0>>
           k == TopOf(m, h)
           n == UseFor(k, a, siz, TRUE)
<1>1. h \in Nat \ {0} /\ h \notin HeapsOf(m)
  <2>1. h \in 1 .. MaxHeaps + 1 /\ h \notin HeapsOf(m)
    BY NewHeapIs DEF Placed
  <2> QED
    BY <2>1, BoundsAssumption
<1>2. TopAlloc(m, siz) = <<n, a>>
  BY TopShape DEF Good
<1> HIDE DEF h
<1>3. /\ Good(k) /\ k.large = m.large /\ Owed(k) = Owed(m)
      /\ a \notin DOMAIN m.chunk /\ DOMAIN k.chunk = DOMAIN m.chunk \cup {a}
      /\ k.chunk[a] = TopHeader /\ Loose(k) = Loose(m) \cup {a}
      /\ \A x \in DOMAIN m.chunk : k.chunk[x] = m.chunk[x]
  BY <1>1, TopGood
<1>4. a # NULL
  BY <1>1 DEF NULL
<1> HIDE DEF k, a
<1>5. k.chunk[a].size = Step
  BY <1>3 DEF TopHeader
<1>6. /\ Good(n) /\ SameHold(k, n) /\ Loose(n) = Loose(k)
      /\ n.chunk[a].used /\ siz <= n.chunk[a].size /\ Kept(k, n, DOMAIN k.chunk \ {a})
  BY <1>3, <1>5, UseForGood
<1> HIDE DEF n
<1>7. Owed(n) = Owed(m) /\ n.large = m.large
  BY <1>3, <1>6, SameOwed DEF SameHold
<1>8. Loose(m) \subseteq DOMAIN m.chunk
  BY LooseIs
<1>9. Kept(m, n, Loose(m))
  BY <1>3, <1>6, <1>8 DEF Kept
<1>10. Given(m, n, a, siz)
  BY <1>3, <1>6, <1>7, <1>8, <1>9 DEF Given
<1> QED
  BY <1>2, <1>4, <1>10

LEMMA FirstFitIs ==
  ASSUME NEW m, Good(m), NEW b \in Row, NEW siz
  PROVE  LET f == FirstFit(m, b, siz) IN
         /\ f # 0 => m.bins[b][f] \in ToSet(m.bins[b]) /\ SizeOf(m, m.bins[b][f]) >= siz
         /\ f = 0 => \A a \in ToSet(m.bins[b]) : ~(SizeOf(m, a) >= siz)
<1> DEFINE q == m.bins[b]
           I == {i \in 1 .. Len(q) : SizeOf(m, q[i]) >= siz}
           f == FirstFit(m, b, siz)
<1>1. f = IF I # {} THEN Min(I) ELSE 0
  BY DEF FirstFit, SelectInSeq
<1>2. q \in Seq(Places)
  BY DEF Good, GoodBins
<1> HIDE DEF q
<1>3. /\ Len(q) \in Nat /\ \A x : x \in ToSet(q) <=> \E i \in 1 .. Len(q) : q[i] = x
      /\ \A i \in 1 .. Len(q) : q[i] \in ToSet(q)
  BY <1>2, ToSetIs
<1>4. I \subseteq Nat /\ 0 \notin I
  BY <1>3
<1>5. CASE I # {}
  <2>1. f \in I
    <3> HIDE DEF I, f
    <3> QED
      BY <1>1, <1>4, <1>5, MinIs
  <2> QED
    BY <1>3, <1>4, <2>1 DEF q
<1>6. CASE I = {}
  <2>1. f = 0
    BY <1>1, <1>6
  <2>2. \A i \in 1 .. Len(q) : ~(SizeOf(m, q[i]) >= siz)
    BY <1>6
  <2> QED
    BY <1>3, <2>1, <2>2 DEF q
<1> QED
  BY <1>5, <1>6

(* The size of a listed chunk as a number. *)
LEMMA ListedSize ==
  ASSUME NEW m, Good(m), NEW b \in Row, NEW a \in ToSet(m.bins[b]), NEW siz \in Nat
  PROVE  /\ a \in DOMAIN m.chunk /\ m.chunk[a].size \in Nat
         /\ (SizeOf(m, a) >= siz <=> siz <= m.chunk[a].size)
<1>1. a \in DOMAIN m.chunk
  BY LooseIs
<1>2. m.chunk[a].size \in Nat
  BY <1>1, GoodPlace
<1> QED
  BY <1>1, <1>2 DEF SizeOf

LEMMA ServedBy ==
  ASSUME NEW m, NEW n, NEW a, NEW siz, Given(m, n, a, siz), a # NULL,
         NEW r, r = <<n, a>>
  PROVE  Served(m, r, siz)
<1>1. r[1] = n /\ r[2] = a
  OBVIOUS
<1> QED
  BY <1>1 DEF Served

LEMMA UpwardServed ==
  ASSUME NEW m, Good(m), Placed(m), NEW siz, IsRequest(siz), siz <= Step, NEW b \in Nat,
         NEW ok \in BOOLEAN
  PROVE  Served(m, Upward(m, b, siz, ok), siz)
<1> DEFINE fit == {i \in b .. MaxBin : FirstFit(m, i, siz) # 0}
           r == Upward(m, b, siz, ok)
           i == Min(fit)
           a == m.bins[i][FirstFit(m, i, siz)]
<1>1. MaxBin \in Nat /\ siz \in Nat
  BY BinIs, StepIs DEF IsRequest
<1>2. CASE fit # {}
  <2>1. r = <<UseFor(remove_from_bin(m, a), a, siz, TRUE), a>>
    BY <1>2 DEF Upward
  <2>2. fit \subseteq Nat
    BY <1>1
  <2>3. \A k \in fit : k \in Row /\ FirstFit(m, k, siz) # 0
    BY <1>1 DEF Row
  <2> HIDE DEF fit, r
  <2>4. i \in fit
    BY <1>2, <2>2, MinIs
  <2> HIDE DEF i
  <2>5. i \in Row /\ a \in ToSet(m.bins[i]) /\ SizeOf(m, a) >= siz
    BY <2>3, <2>4, FirstFitIs
  <2> HIDE DEF a
  <2>6. siz <= m.chunk[a].size
    BY <1>1, <2>5, ListedSize
  <2>7. Given(m, UseFor(remove_from_bin(m, a), a, siz, TRUE), a, siz) /\ a # NULL
    BY <2>5, <2>6, TakeListed
  <2> QED
    BY <2>1, <2>7, ServedBy DEF r
<1>3. CASE fit = {} /\ ok
  <2>1. r = TopAlloc(m, siz)
    BY <1>3 DEF Upward
  <2> HIDE DEF r
  <2>2. Given(m, r[1], r[2], siz) /\ r[2] # NULL
    BY <2>1, TakeTop
  <2> QED
    BY <2>2 DEF Served, r
<1>4. CASE fit = {} /\ ~ok
  <2>1. r = <<m, NULL>>
    BY <1>4 DEF Upward
  <2>2. Refused(m, m)
    BY DEF Refused, SameHold
  <2> HIDE DEF r
  <2> QED
    BY <2>1, <2>2 DEF Served, r
<1> QED
  BY <1>2, <1>3, <1>4

(* What is served from a context that keeps the chunks of m is served from m. *)
LEMMA ServedFrom ==
  ASSUME NEW m, NEW k, Good(k), k.chunk = m.chunk, SameHold(m, k), Loose(k) = Loose(m),
         NEW r, NEW siz, Served(k, r, siz)
  PROVE  Served(m, r, siz)
<1>1. Owed(k) = Owed(m)
  BY SameOwed
<1> QED
  BY <1>1 DEF Served, Given, Refused, SameHold, Kept

LEMMA TryBin0Served ==
  ASSUME NEW m, Good(m), Placed(m), NEW siz, IsRequest(siz), siz <= Step, NEW b \in Nat,
         NEW ok \in BOOLEAN
  PROVE  Served(m, TryBin0(m, b, siz, ok), siz)
<1> DEFINE r == TryBin0(m, b, siz, ok)
           a == Head(m.bins[0])
           k == remove_from_bin(m, a)
           j == Insert(k, a, FALSE)
<1>1. CASE m.bins[0] = <<>>
  <2>1. r = Upward(m, b, siz, ok)
    BY <1>1 DEF TryBin0
  <2> QED
    BY <2>1, UpwardServed
<1>2. CASE m.bins[0] # <<>>
  <2>1. 0 \in Row
    BY BinIs, StepIs
  <2>2. a \in ToSet(m.bins[0])
    <3>1. m.bins[0] \in Seq(Places)
      BY <2>1 DEF Good, GoodBins
    <3>2. Len(m.bins[0]) \in Nat /\ Len(m.bins[0]) # 0 /\ m.bins[0][1] = a
      BY <1>2, <3>1
    <3> QED
      BY <3>1, <3>2, ToSetIs
  <2>3. r = IF SizeOf(m, a) >= siz THEN <<UseFor(k, a, siz, TRUE), a>> ELSE Upward(j, b, siz, ok)
    BY <1>2 DEF TryBin0
  <2> HIDE DEF a, r
  <2>4. siz \in Nat
    BY DEF IsRequest
  <2>5. a \in DOMAIN m.chunk /\ a \notin Loose(m) /\ ~m.chunk[a].used
    BY <2>1, <2>2, LooseIs
  <2>6. CASE SizeOf(m, a) >= siz
    <3>1. siz <= m.chunk[a].size
      BY <2>1, <2>2, <2>4, <2>6, ListedSize
    <3>2. Given(m, UseFor(k, a, siz, TRUE), a, siz) /\ a # NULL
      BY <2>1, <2>2, <3>1, TakeListed
    <3>3. r = <<UseFor(k, a, siz, TRUE), a>>
      BY <2>3, <2>6
    <3> QED
      BY <3>2, <3>3, ServedBy DEF r
  <2>7. CASE ~(SizeOf(m, a) >= siz)
    <3>1. Good(k) /\ k.chunk = m.chunk /\ SameHold(m, k) /\ Loose(k) = Loose(m) \cup {a}
      BY <2>5, RemoveGood
    <3>2. a \in Loose(k) /\ ~k.chunk[a].used
      BY <2>5, <3>1
    <3> HIDE DEF k
    <3>3. Good(j) /\ j.chunk = k.chunk /\ SameHold(k, j) /\ Loose(j) = Loose(k) \ {a}
      BY <3>1, <3>2, InsertGood
    <3> HIDE DEF j
    <3>4. Good(j) /\ j.chunk = m.chunk /\ SameHold(m, j) /\ Loose(j) = Loose(m)
      BY <2>5, <3>1, <3>3 DEF SameHold
    <3>5. Placed(j)
      BY <3>4, SameOwed DEF Placed
    <3>6. Served(j, Upward(j, b, siz, ok), siz)
      BY <3>4, <3>5, UpwardServed
    <3>7. r = Upward(j, b, siz, ok)
      BY <2>3, <2>7
    <3>8. Served(j, r, siz)
      BY <3>6, <3>7
    <3>9. Served(m, r, siz)
      BY <3>4, <3>8, ServedFrom
    <3> QED
      BY <3>9 DEF r
  <2> QED
    BY <2>6, <2>7
<1> QED
  BY <1>1, <1>2

LEMMA AllocFromServed ==
  ASSUME NEW m, Good(m), Placed(m), NEW siz, IsRequest(siz), ~IsLarge(siz), NEW ok \in BOOLEAN
  PROVE  Served(m, AllocFrom(m, siz, ok), siz)
<1> DEFINE b == bin_index(siz)
           exact == {i \in {b, b + 1} : m.bins[i] # <<>>}
           i == Min(exact)
           a == Head(m.bins[i])
           f == FirstFit(m, b, siz)
           g == m.bins[b][f]
           r == AllocFrom(m, siz, ok)
<1>1. siz \in Nat /\ siz % Align = 0 /\ MINSIZE <= siz
  BY DEF IsRequest
<1>2. siz + MINSIZE < Step
  BY <1>1, BinsExist
<1>3. siz <= Step /\ MINSIZE \in Int /\ Step \in Int
  BY <1>1, <1>2, StepIs
<1>4. b \in Row /\ b # 0 /\ MaxBin \in Nat /\ b \in Nat
  BY <1>1, <1>3, BinIs DEF Row
<1>5. CASE IsSmall(siz) /\ exact # {}
  <2>1. r = <<SetUse(remove_from_bin(m, a), a, TRUE), a>>
    BY <1>5 DEF AllocFrom
  <2>2. b + 1 \in Row
    BY <1>1, <1>5, BinsExist
  <2>3. exact \subseteq Nat /\ \A k \in exact : k \in {b, b + 1} /\ m.bins[k] # <<>>
    BY <1>4
  <2>4. i \in exact
    <3> HIDE DEF exact
    <3> QED
      BY <1>5, <2>3, MinIs
  <2>5. i \in {b, b + 1} /\ m.bins[i] # <<>>
    BY <2>3, <2>4
  <2> HIDE DEF b, exact, i, r
  <2>6. i \in Row /\ i # 0
    BY <1>4, <2>2, <2>5
  <2>7. a \in ToSet(m.bins[i])
    <3>1. m.bins[i] \in Seq(Places)
      BY <2>6 DEF Good, GoodBins
    <3>2. Len(m.bins[i]) \in Nat /\ Len(m.bins[i]) # 0 /\ m.bins[i][1] = a
      BY <2>5, <3>1
    <3> QED
      BY <3>1, <3>2, ToSetIs
  <2> HIDE DEF a
  <2> DEFINE t == m.chunk[a].size
  <2>8. a \in DOMAIN m.chunk /\ t \in Nat /\ t % Align = 0
    BY <2>6, <2>7, LooseIs, GoodPlace
  <2>9. i = bin_index(t)
    BY <2>6, <2>7 DEF Good, Filed
  <2> HIDE DEF t
  <2>10. siz <= t
    <3>1. bin_index(t) = bin_index(siz) \/ bin_index(t) = bin_index(siz) + 1
      BY <2>5, <2>9 DEF b
    <3> QED
      BY <1>1, <1>5, <2>8, <3>1, SmallBinsExact
  <2>11. Given(m, SetUse(remove_from_bin(m, a), a, TRUE), a, siz) /\ a # NULL
    BY <1>1, <2>6, <2>7, <2>10, TakeWhole DEF t
  <2> QED
    BY <2>1, <2>11, ServedBy DEF r
<1>6. CASE IsSmall(siz) /\ exact = {}
  <2>1. r = TryBin0(m, b + 2, siz, ok)
    BY <1>6 DEF AllocFrom
  <2>2. b + 2 \in Nat
    BY <1>4
  <2> HIDE DEF b, r
  <2>3. Served(m, TryBin0(m, b + 2, siz, ok), siz)
    BY <1>3, <2>2, TryBin0Served
  <2> QED
    BY <2>1, <2>3 DEF r
<1>7. CASE ~IsSmall(siz) /\ f # 0
  <2>1. r = <<UseFor(remove_from_bin(m, g), g, siz, FALSE), g>>
    BY <1>7 DEF AllocFrom
  <2>2. g \in ToSet(m.bins[b]) /\ SizeOf(m, g) >= siz
    BY <1>4, <1>7, FirstFitIs
  <2> HIDE DEF g, r, b
  <2>3. siz <= m.chunk[g].size
    BY <1>1, <1>4, <2>2, ListedSize
  <2>4. Given(m, UseFor(remove_from_bin(m, g), g, siz, FALSE), g, siz) /\ g # NULL
    BY <1>4, <2>2, <2>3, TakeListed
  <2> QED
    BY <2>1, <2>4, ServedBy DEF r
<1>8. CASE ~IsSmall(siz) /\ f = 0
  <2>1. r = TryBin0(m, b + 1, siz, ok)
    BY <1>8 DEF AllocFrom
  <2>2. b + 1 \in Nat
    BY <1>4
  <2> HIDE DEF b, r
  <2>3. Served(m, TryBin0(m, b + 1, siz, ok), siz)
    BY <1>3, <2>2, TryBin0Served
  <2> QED
    BY <2>1, <2>3 DEF r
<1> QED
  BY <1>5, <1>6, <1>7, <1>8

(* A large request has a block of its own. *)
Lent(m, n, h, siz) ==
  /\ Good(n) /\ Owed(n) = Owed(m) /\ n.chunk = m.chunk /\ n.bins = m.bins /\ n.heaps = m.heaps
  /\ Loose(n) = Loose(m)
  /\ h \in Nat \ {0} /\ h \notin HeapsOf(m) /\ DOMAIN n.large = DOMAIN m.large \cup {h}
  /\ n.large[h] = siz /\ \A g \in DOMAIN m.large : n.large[g] = m.large[g]

LEMMA LargeLent ==
  ASSUME NEW m, Good(m), Placed(m), NEW siz \in Nat
  PROVE  \E n : /\ LargeAlloc(m, siz) = <<n, <<NewHeap(m), 0>>>>
                /\ Lent(m, n, NewHeap(m), siz)
<1> DEFINE h == NewHeap(m)
           g == With(m.large, h, siz)
           s == m.heap_size + siz
           n == LargeNow(m, g, s)
<1>1. IsMem(m) /\ Held(m)
  BY DEF Good
<1>2. h \in Nat \ {0} /\ h \notin HeapsOf(m)
  <2>1. h \in 1 .. MaxHeaps + 1 /\ h \notin HeapsOf(m)
    BY NewHeapIs DEF Placed
  <2> QED
    BY <2>1, BoundsAssumption
<1>3. LargeAlloc(m, siz) = <<n, <<h, 0>>>>
  BY DEF LargeAlloc, LargeNow
<1> HIDE DEF h
<1>4. h \notin DOMAIN m.large /\ h \notin m.heaps
  BY <1>2 DEF HeapsOf
<1>5. /\ DOMAIN g = DOMAIN m.large \cup {h} /\ Summable(g, DOMAIN g)
      /\ g[h] = siz /\ (\A x \in DOMAIN m.large : g[x] = m.large[x])
      /\ SumOf(g, DOMAIN g) = SumOf(m.large, DOMAIN m.large) + siz
  <2> DEFINE f == m.large
  <2>1. Summable(f, DOMAIN f) /\ h \notin DOMAIN f /\ siz \in Int
    BY <1>1, <1>4 DEF Held
  <2> HIDE DEF f
  <2> DEFINE e == With(f, h, siz)
  <2>2. /\ DOMAIN e = DOMAIN f \cup {h} /\ Summable(e, DOMAIN e)
        /\ e[h] = siz /\ (\A x \in DOMAIN f : e[x] = f[x])
        /\ SumOf(e, DOMAIN e) = SumOf(f, DOMAIN f) + siz
    BY <2>1, SumAdds, ZenonT(60)
  <2> QED
    BY <2>2 DEF f
<1>6. g = [x \in DOMAIN g |-> g[x]]
  BY DEF With
<1> HIDE DEF g, s
<1>7. n = Mem(m.chunk, m.bins, m.heaps, g, s)
  BY <1>1, ChangeLarge
<1> HIDE DEF n
<1>8. g \in [DOMAIN g -> Nat]
  BY <1>1, <1>5, <1>6 DEF Held
<1>9. DOMAIN g \subseteq Nat \ {0} /\ m.heaps \cap DOMAIN g = {}
  BY <1>1, <1>2, <1>4, <1>5 DEF Held
<1>10. s \in Int /\ SumOf(g, DOMAIN g) - SumOf(m.large, DOMAIN m.large) = s - m.heap_size
  <2>1. m.heap_size \in Int /\ SumOf(m.large, DOMAIN m.large) \in Int
    BY <1>1, SumFacts DEF Held
  <2> QED
    BY <1>5, <2>1 DEF s
<1>11. /\ Good(n) /\ n.chunk = m.chunk /\ n.bins = m.bins /\ n.heaps = m.heaps
       /\ n.large = g /\ Owed(n) = Owed(m) /\ Loose(n) = Loose(m)
  BY <1>5, <1>7, <1>8, <1>9, <1>10, LargeGood
<1>12. Lent(m, n, h, siz)
  BY <1>2, <1>5, <1>11 DEF Lent
<1> QED
  BY <1>3, <1>12 DEF h

(* What bin_mem_alloc returns. *)
Answered(m, r, si) ==
  IF r[2] = NULL THEN Refused(m, r[1])
  ELSE \/ Given(m, r[1], r[2], ChunkFor(si))
       \/ r[2] = <<r[2][1], 0>> /\ Lent(m, r[1], r[2][1], ChunkFor(si))

LEMMA RequestIs ==
  ASSUME NEW si \in Nat \ 0 .. 7
  PROVE  IsRequest(ChunkFor(si)) /\ ChunkFor(si) \in Nat /\ HeadSize + si <= ChunkFor(si)
<1>1. si \in Nat /\ si >= 8
  OBVIOUS
<1>2. /\ ChunkFor(si) \in Nat /\ ChunkFor(si) % Align = 0
      /\ ChunkFor(si) >= MINSIZE /\ ChunkFor(si) >= HeadSize + si
  BY <1>1, ChunkFits
<1>3. MINSIZE \in Int /\ HeadSize \in Int
  BY DEF MINSIZE, HeadSize
<1> QED
  BY <1>1, <1>2, <1>3 DEF IsRequest

THEOREM AllocAnswered ==
  ASSUME NEW m, Good(m), Placed(m), NEW si \in Nat \ 0 .. 7, NEW ok \in BOOLEAN
  PROVE  Answered(m, bin_mem_alloc(m, si, ok), si)
<1> DEFINE siz == ChunkFor(si)
           r == bin_mem_alloc(m, si, ok)
<1>1. IsRequest(siz) /\ siz \in Nat
  BY RequestIs
<1>2. CASE ~IsLarge(siz)
  <2>1. r = AllocFrom(m, siz, ok)
    BY <1>2 DEF bin_mem_alloc
  <2> HIDE DEF siz, r
  <2>2. Served(m, r, siz)
    BY <1>1, <1>2, <2>1, AllocFromServed
  <2> QED
    BY <2>2 DEF Served, Answered, siz, r
<1>3. CASE IsLarge(siz) /\ ok
  <2>1. r = LargeAlloc(m, siz)
    BY <1>3 DEF bin_mem_alloc
  <2> HIDE DEF siz, r
  <2> DEFINE h == NewHeap(m)
             a == <<h, 0>>
  <2>2. PICK n : r = <<n, a>> /\ Lent(m, n, h, siz)
    BY <1>1, <2>1, LargeLent
  <2> HIDE DEF h
  <2>3. h \in Nat \ {0}
    BY <2>2 DEF Lent
  <2>4. a # NULL /\ a[1] = h
    BY <2>3 DEF NULL
  <2>5. a = <<a[1], 0>>
    BY <2>4
  <2> HIDE DEF a
  <2>6. r[1] = n /\ r[2] = a
    BY <2>2
  <2> QED
    BY <2>2, <2>4, <2>5, <2>6 DEF Answered, siz, r
<1>4. CASE IsLarge(siz) /\ ~ok
  <2>1. r = <<m, NULL>>
    BY <1>4 DEF bin_mem_alloc
  <2>2. Refused(m, m)
    BY DEF Refused, SameHold
  <2>3. r[1] = m /\ r[2] = NULL
    BY <2>1
  <2> HIDE DEF r
  <2> QED
    BY <2>2, <2>3 DEF Answered, r
<1> QED
  BY <1>2, <1>3, <1>4

-----------------------------------------------------------------------------
(* A free: n is m without the used chunk a. *)

Freed(m, n, a) ==
  /\ Good(n) /\ Owed(n) = Owed(m) /\ n.large = m.large /\ n.heaps \subseteq m.heaps
  /\ UsedOf(n) = UsedOf(m) \ {a} /\ Kept(m, n, UsedOf(m) \ {a})
  /\ Loose(n) \subseteq Loose(m) \ {a}

(* Half way: p, the free chunk a became part of, is in no list yet. *)
Freeing(m, n, a, p) ==
  /\ Good(n) /\ SameHold(m, n) /\ p \in Loose(n) /\ ~n.chunk[p].used
  /\ UsedOf(n) = UsedOf(m) \ {a} /\ Kept(m, n, UsedOf(m) \ {a})
  /\ Loose(n) \ {p} \subseteq Loose(m) \ {a}

(* The neighbours of a chunk. *)
LEMMA AfterIs ==
  ASSUME NEW m, Good(m), NEW a \in DOMAIN m.chunk, m.chunk[a].next
  PROVE  /\ After(m, a) = Follow(m.chunk, a) /\ After(m, a) \in DOMAIN m.chunk /\ After(m, a) # a
         /\ m.chunk[After(m, a)].prev /\ m.chunk[After(m, a)].prev_size = m.chunk[a].size
<1> DEFINE c == m.chunk
           n == Follow(c, a)
<1>1. Tiled(c, m.heaps)
  BY DEF Good
<1>2. /\ n \in DOMAIN c /\ n # a /\ c[n].prev_size = c[a].size /\ n[2] = a[2] + c[a].size
      /\ a[2] \in Int /\ 0 <= a[2] /\ c[a].size \in Int /\ MINSIZE <= c[a].size
  BY <1>1, ChunkFacts
<1>3. c[n].prev <=> n[2] > 0
  BY <1>1, <1>2, ChunkFacts
<1>4. n[2] > 0
  BY <1>2, StepIs
<1>5. After(m, a) = n
  BY DEF After, SizeOf, Follow
<1> QED
  BY <1>2, <1>3, <1>4, <1>5

LEMMA BeforeIs ==
  ASSUME NEW m, Good(m), NEW a \in DOMAIN m.chunk, m.chunk[a].prev
  PROVE  /\ Before(m, a) \in DOMAIN m.chunk /\ m.chunk[Before(m, a)].next
         /\ Follow(m.chunk, Before(m, a)) = a /\ Before(m, a) # a
<1> DEFINE c == m.chunk
           p == Precede(c, a)
<1>1. Tiled(c, m.heaps)
  BY DEF Good
<1>2. p \in DOMAIN c /\ c[p].next /\ Follow(c, p) = a
  BY <1>1, ChunkFacts
<1>3. Follow(c, p) # p
  BY <1>1, <1>2, ChunkFacts
<1>4. Before(m, a) = p
  BY DEF Before, Precede
<1> QED
  BY <1>2, <1>3, <1>4

(* The check of a free never fires. *)
LEMMA TagsAgreeAlways ==
  ASSUME NEW m, Good(m), NEW a \in DOMAIN m.chunk
  PROVE  TagsAgree(m, a)
<1>1. ASSUME m.chunk[a].prev
      PROVE  m.chunk[Before(m, a)].next /\ After(m, Before(m, a)) = a
  <2>1. /\ Before(m, a) \in DOMAIN m.chunk /\ m.chunk[Before(m, a)].next
        /\ Follow(m.chunk, Before(m, a)) = a
    BY <1>1, BeforeIs
  <2> QED
    BY <2>1, AfterIs
<1>2. ASSUME m.chunk[a].next
      PROVE  m.chunk[After(m, a)].prev /\ m.chunk[After(m, a)].prev_size = SizeOf(m, a)
  BY <1>2, AfterIs DEF SizeOf
<1> QED
  BY <1>1, <1>2 DEF TagsAgree

(* The free chunk behind a is swallowed. *)
Forward(m, a) == IF FreeAfter(m, a) THEN Merge(remove_from_bin(m, After(m, a)), a) ELSE m

LEMMA ForwardIs ==
  ASSUME NEW m, Good(m), NEW a \in Loose(m)
  PROVE  LET k == Forward(m, a) IN
         /\ Good(k) /\ SameHold(m, k) /\ a \in Loose(k) /\ Loose(k) \subseteq Loose(m)
         /\ UsedOf(k) \ {a} = UsedOf(m) \ {a} /\ Kept(m, k, UsedOf(m) \ {a})
<1> DEFINE f == After(m, a)
           j == remove_from_bin(m, f)
           k == Forward(m, a)
<1>1. a \in DOMAIN m.chunk /\ Loose(m) \subseteq DOMAIN m.chunk
  BY LooseIs
<1>2. CASE FreeAfter(m, a)
  <2>1. k = Merge(j, a)
    BY <1>2 DEF Forward
  <2>2. m.chunk[a].next /\ ~m.chunk[f].used
    BY <1>2 DEF FreeAfter
  <2>3. f = Follow(m.chunk, a) /\ f \in DOMAIN m.chunk /\ f # a
    BY <1>1, <2>2, AfterIs
  <2> HIDE DEF f, k
  <2>4. Good(j) /\ j.chunk = m.chunk /\ SameHold(m, j) /\ Loose(j) = Loose(m) \cup {f}
    BY <2>3, RemoveGood
  <2> HIDE DEF j
  <2>5. a \in Loose(j) /\ f \in Loose(j) /\ f = Follow(j.chunk, a) /\ j.chunk[a].next
    BY <2>2, <2>3, <2>4
  <2>6. Joined(j, k, a, f)
    BY <2>1, <2>4, <2>5, MergeGood
  <2>7. /\ DOMAIN k.chunk = DOMAIN m.chunk \ {f} /\ SameHold(m, k)
        /\ Kept(m, k, DOMAIN m.chunk \ {a, f})
    BY <2>4, <2>6 DEF Joined, SameHold, Kept
  <2>8. UsedOf(k) \ {a} = UsedOf(m) \ {a} /\ Kept(m, k, UsedOf(m) \ {a})
    BY <2>2, <2>3, <2>7 DEF UsedOf, Kept
  <2>9. a \in Loose(k) /\ Loose(k) \subseteq Loose(m)
    BY <2>3, <2>4, <2>6 DEF Joined
  <2> QED
    BY <2>6, <2>7, <2>8, <2>9 DEF k, Joined
<1>3. CASE ~FreeAfter(m, a)
  <2>1. k = m
    BY <1>3 DEF Forward
  <2> QED
    BY <1>1, <2>1 DEF SameHold, Kept, UsedOf
<1> QED
  BY <1>2, <1>3

(* a becomes part of the free chunk before it. *)
Backward(m, a) == Merge(remove_from_bin(m, Before(m, a)), Before(m, a))

LEMMA BackwardIs ==
  ASSUME NEW m, Good(m), NEW a \in Loose(m), FreeBefore(m, a)
  PROVE  LET p == Before(m, a) IN
         /\ Freeing(m, Backward(m, a), a, p) /\ p # a /\ a \notin DOMAIN Backward(m, a).chunk
         /\ ~m.chunk[p].used
         /\ Backward(m, a).chunk[p].size \in Nat
         /\ m.chunk[a].size <= Backward(m, a).chunk[p].size
<1> DEFINE p == Before(m, a)
           j == remove_from_bin(m, p)
           n == Backward(m, a)
<1>1. a \in DOMAIN m.chunk /\ Loose(m) \subseteq DOMAIN m.chunk
  BY LooseIs
<1>2. m.chunk[a].prev /\ ~m.chunk[p].used
  BY DEF FreeBefore
<1>3. p \in DOMAIN m.chunk /\ m.chunk[p].next /\ Follow(m.chunk, p) = a /\ p # a
  BY <1>1, <1>2, BeforeIs
<1>4. n = Merge(j, p)
  BY DEF Backward
<1> HIDE DEF p, n
<1>5. Good(j) /\ j.chunk = m.chunk /\ SameHold(m, j) /\ Loose(j) = Loose(m) \cup {p}
  BY <1>3, RemoveGood
<1> HIDE DEF j
<1>6. p \in Loose(j) /\ Follow(j.chunk, p) \in Loose(j) /\ j.chunk[p].next
  BY <1>3, <1>5
<1>7. /\ Good(n) /\ SameHold(j, n) /\ Loose(n) = Loose(j) \ {a}
      /\ DOMAIN n.chunk = DOMAIN j.chunk \ {a} /\ ~n.chunk[p].used
      /\ n.chunk[p].size = j.chunk[p].size + j.chunk[a].size
      /\ Kept(j, n, DOMAIN j.chunk \ {p, a})
  <2>1. Joined(j, Merge(j, p), p, Follow(j.chunk, p))
    BY <1>5, <1>6, MergeGood
  <2>2. Follow(j.chunk, p) = a
    BY <1>3, <1>5
  <2> QED
    BY <1>4, <2>1, <2>2 DEF Joined
<1>8. /\ SameHold(m, n) /\ DOMAIN n.chunk = DOMAIN m.chunk \ {a}
      /\ Kept(m, n, DOMAIN m.chunk \ {p, a})
      /\ n.chunk[p].size = m.chunk[p].size + m.chunk[a].size
  BY <1>5, <1>7 DEF SameHold, Kept
<1>9. UsedOf(n) = UsedOf(m) \ {a} /\ Kept(m, n, UsedOf(m) \ {a})
  BY <1>2, <1>3, <1>7, <1>8 DEF UsedOf, Kept
<1>10. p \in Loose(n) /\ Loose(n) \ {p} \subseteq Loose(m) \ {a}
  BY <1>3, <1>5, <1>7
<1>11. m.chunk[p].size \in Nat /\ m.chunk[a].size \in Nat
  BY <1>1, <1>3, GoodPlace
<1>12. n.chunk[p].size \in Nat /\ m.chunk[a].size <= n.chunk[p].size
  BY <1>8, <1>11
<1>13. Freeing(m, n, a, p)
  BY <1>7, <1>8, <1>9, <1>10 DEF Freeing
<1> QED
  BY <1>2, <1>3, <1>8, <1>12, <1>13 DEF n, p

LEMMA FileIs ==
  ASSUME NEW m, NEW k, NEW a, NEW p, Good(m), Freeing(m, k, a, p), NEW zero \in BOOLEAN
  PROVE  Freed(m, File(k, p, zero), a)
<1> DEFINE n == File(k, p, zero)
<1>1. /\ Good(k) /\ SameHold(m, k) /\ p \in Loose(k) /\ ~k.chunk[p].used
      /\ UsedOf(k) = UsedOf(m) \ {a} /\ Kept(m, k, UsedOf(m) \ {a})
      /\ Loose(k) \ {p} \subseteq Loose(m) \ {a}
  BY DEF Freeing
<1>2. Owed(k) = Owed(m) /\ k.large = m.large /\ k.heaps = m.heaps
  BY <1>1, SameOwed DEF SameHold
<1>3. p \notin UsedOf(m) \ {a}
  BY <1>1 DEF UsedOf
<1>4. CASE SizeOf(k, p) = Step /\ Cardinality(k.heaps) > 1
  <2>1. n = ReturnHeap(k, p)
    BY <1>4 DEF File
  <2>2. k.chunk[p].size = Step
    BY <1>4 DEF SizeOf
  <2> HIDE DEF n
  <2>3. /\ Good(n) /\ n.large = k.large /\ n.heaps = k.heaps \ {p[1]}
        /\ Owed(n) = Owed(k) /\ Loose(n) = Loose(k) \ {p}
        /\ DOMAIN n.chunk = DOMAIN k.chunk \ {p} /\ \A x \in DOMAIN n.chunk : n.chunk[x] = k.chunk[x]
    BY <1>1, <2>1, <2>2, ReturnGood
  <2>4. UsedOf(n) = UsedOf(m) \ {a}
    BY <1>1, <2>3 DEF UsedOf
  <2>5. Kept(m, n, UsedOf(m) \ {a})
    BY <1>1, <1>3, <2>3 DEF Kept
  <2>6. Loose(n) \subseteq Loose(m) \ {a} /\ n.heaps \subseteq m.heaps
    BY <1>1, <1>2, <2>3
  <2> QED
    BY <1>2, <2>3, <2>4, <2>5, <2>6 DEF Freed, n
<1>5. CASE ~(SizeOf(k, p) = Step /\ Cardinality(k.heaps) > 1)
  <2>1. n = Insert(k, p, zero)
    BY <1>5 DEF File
  <2> HIDE DEF n
  <2>2. Good(n) /\ n.chunk = k.chunk /\ SameHold(k, n) /\ Loose(n) = Loose(k) \ {p}
    BY <1>1, <2>1, InsertGood
  <2>3. Owed(n) = Owed(m) /\ n.large = m.large /\ n.heaps = m.heaps
    BY <1>2, <2>2, SameOwed DEF SameHold
  <2>4. UsedOf(n) = UsedOf(m) \ {a} /\ Kept(m, n, UsedOf(m) \ {a})
    BY <1>1, <2>2 DEF UsedOf, Kept
  <2>5. Loose(n) \subseteq Loose(m) \ {a}
    BY <1>1, <2>2
  <2> QED
    BY <2>2, <2>3, <2>4, <2>5 DEF Freed, n
<1> QED
  BY <1>4, <1>5

THEOREM ChunkFreed ==
  ASSUME NEW m, Good(m), NEW a \in UsedOf(m)
  PROVE  Freed(m, FreeChunk(m, a), a)
<1> DEFINE k == Forward(m, a)
           z == FreeAfter(m, a) /\ InBin0First(m, After(m, a))
           p == Before(k, a)
           n == FreeChunk(m, a)
<1>1. a \in Loose(m)
  BY LooseIs DEF UsedOf
<1>2. /\ Good(k) /\ SameHold(m, k) /\ a \in Loose(k) /\ Loose(k) \subseteq Loose(m)
      /\ UsedOf(k) \ {a} = UsedOf(m) \ {a} /\ Kept(m, k, UsedOf(m) \ {a})
  BY <1>1, ForwardIs
<1>3. n = IF FreeBefore(k, a) THEN File(Backward(k, a), p, z \/ InBin0First(k, p))
          ELSE File(SetUse(k, a, FALSE), a, z)
  BY DEF FreeChunk, Forward, Backward
<1>4. z \in BOOLEAN /\ (z \/ InBin0First(k, p)) \in BOOLEAN
  OBVIOUS
<1> HIDE DEF z, n, k
<1>5. ASSUME NEW j, NEW q, Freeing(k, j, a, q)
      PROVE  Freeing(m, j, a, q)
  BY <1>2, <1>5 DEF Freeing, SameHold, Kept
<1>6. CASE FreeBefore(k, a)
  <2>1. Freeing(k, Backward(k, a), a, p)
    BY <1>2, <1>6, BackwardIs
  <2>2. Freeing(m, Backward(k, a), a, p)
    BY <1>5, <2>1
  <2>3. n = File(Backward(k, a), p, z \/ InBin0First(k, p))
    BY <1>3, <1>6
  <2> QED
    BY <1>4, <2>2, <2>3, FileIs DEF n
<1>7. CASE ~FreeBefore(k, a)
  <2> DEFINE j == SetUse(k, a, FALSE)
  <2>1. /\ Good(j) /\ SameHold(k, j) /\ Loose(j) = Loose(k) /\ DOMAIN j.chunk = DOMAIN k.chunk
        /\ j.chunk[a].used = FALSE /\ Kept(k, j, DOMAIN k.chunk \ {a})
    <3>1. Marked(k, j, a, FALSE)
      BY <1>2, UseGood
    <3> HIDE DEF j
    <3> QED
      BY <3>1 DEF Marked
  <2>2. n = File(j, a, z)
    BY <1>3, <1>7
  <2> HIDE DEF j
  <2>3. UsedOf(j) = UsedOf(k) \ {a} /\ Kept(k, j, UsedOf(k) \ {a})
    BY <2>1 DEF UsedOf, Kept
  <2>4. Freeing(k, j, a, a)
    BY <1>2, <2>1, <2>3 DEF Freeing
  <2>5. Freeing(m, j, a, a)
    BY <1>5, <2>4
  <2> QED
    BY <1>4, <2>2, <2>5, FileIs DEF n
<1> QED
  BY <1>6, <1>7

-----------------------------------------------------------------------------
(* A realloc: the bytes of a move to b, or the request is refused. *)

(* Another way to say what an answer changes. *)
LEMMA GivenUsed ==
  ASSUME NEW m, NEW n, NEW b, NEW siz, Good(m), Given(m, n, b, siz)
  PROVE  /\ UsedOf(n) = UsedOf(m) \cup {b} /\ Kept(m, n, UsedOf(m)) /\ b \notin UsedOf(m)
         /\ b \in DOMAIN n.chunk
<1>1. UsedOf(m) \subseteq Loose(m)
  BY LooseIs DEF UsedOf
<1>2. /\ Good(n) /\ b \notin Loose(m) /\ Loose(n) = Loose(m) \cup {b}
      /\ n.chunk[b].used /\ Kept(m, n, Loose(m))
  BY DEF Given
<1>3. UsedOf(n) \subseteq Loose(n) /\ Loose(n) \subseteq DOMAIN n.chunk
      /\ Loose(m) \subseteq DOMAIN m.chunk
  BY <1>2, LooseIs DEF UsedOf
<1>4. ASSUME NEW x
      PROVE  x \in UsedOf(n) <=> x \in UsedOf(m) \cup {b}
  <2>1. CASE x = b
    BY <1>2, <1>3, <2>1 DEF UsedOf
  <2>2. CASE x # b /\ x \in Loose(m)
    BY <1>2, <1>3, <2>2 DEF UsedOf, Kept
  <2>3. CASE x # b /\ x \notin Loose(m)
    BY <1>1, <1>2, <1>3, <2>3
  <2> QED
    BY <2>1, <2>2, <2>3
<1>5. Kept(m, n, UsedOf(m))
  BY <1>1, <1>2 DEF Kept
<1> QED
  BY <1>1, <1>2, <1>3, <1>4, <1>5

LEMMA UseForUsed ==
  ASSUME NEW m, Good(m), NEW a \in Loose(m), NEW siz, IsRequest(siz),
         siz <= m.chunk[a].size, NEW zero \in BOOLEAN
  PROVE  LET n == UseFor(m, a, siz, zero) IN
         /\ Good(n) /\ SameHold(m, n) /\ Loose(n) = Loose(m) /\ a \in DOMAIN n.chunk
         /\ UsedOf(n) = UsedOf(m) \cup {a} /\ siz <= n.chunk[a].size
         /\ Kept(m, n, UsedOf(m) \ {a})
<1> DEFINE n == UseFor(m, a, siz, zero)
<1>1. /\ Good(n) /\ SameHold(m, n) /\ Loose(n) = Loose(m)
      /\ n.chunk[a].used /\ siz <= n.chunk[a].size /\ Kept(m, n, DOMAIN m.chunk \ {a})
  BY UseForGood
<1> HIDE DEF n
<1>2. UsedOf(m) \subseteq Loose(m) /\ UsedOf(n) \subseteq Loose(n)
      /\ Loose(m) \subseteq DOMAIN m.chunk /\ Loose(n) \subseteq DOMAIN n.chunk
  BY <1>1, LooseIs DEF UsedOf
<1>3. ASSUME NEW x
      PROVE  x \in UsedOf(n) <=> x \in UsedOf(m) \cup {a}
  <2>1. CASE x = a
    BY <1>1, <1>2, <2>1 DEF UsedOf
  <2>2. CASE x # a /\ x \in Loose(m)
    BY <1>1, <1>2, <2>2 DEF UsedOf, Kept
  <2>3. CASE x # a /\ x \notin Loose(m)
    BY <1>1, <1>2, <2>3
  <2> QED
    BY <2>1, <2>2, <2>3
<1>4. Kept(m, n, UsedOf(m) \ {a})
  BY <1>1, <1>2 DEF Kept
<1> QED
  BY <1>1, <1>2, <1>3, <1>4 DEF n

(* k is m while the block a, now in the chunk p, is on the move. *)
Moving(m, k, a, p) ==
  /\ Good(k) /\ SameHold(m, k) /\ p \in Loose(k)
  /\ UsedOf(k) \ {p} = UsedOf(m) \ {a} /\ Kept(m, k, UsedOf(m) \ {a})
  /\ Loose(k) \ {p} \subseteq Loose(m) \ {a}

Moved(m, n, a, b, si) ==
  /\ Good(n) /\ Owed(n) = Owed(m) /\ n.large = m.large
  /\ b \in DOMAIN n.chunk /\ ChunkFor(si) <= n.chunk[b].size
  /\ UsedOf(n) = (UsedOf(m) \ {a}) \cup {b}
  /\ Kept(m, n, (UsedOf(m) \ {a}) \ {b}) /\ Loose(n) \subseteq (Loose(m) \ {a}) \cup {b}

MovedOut(m, n, a, h, si) ==
  /\ Good(n) /\ Owed(n) = Owed(m) /\ n.heaps = m.heaps
  /\ UsedOf(n) = UsedOf(m) \ {a}
  /\ Kept(m, n, UsedOf(m) \ {a}) /\ Loose(n) \subseteq Loose(m) \ {a}
  /\ h \in Nat \ {0} /\ h \notin HeapsOf(m) /\ DOMAIN n.large = DOMAIN m.large \cup {h}
  /\ n.large[h] = ChunkFor(si) /\ \A g \in DOMAIN m.large : n.large[g] = m.large[g]

(* A refused realloc: a may have gone into the chunk before it. *)
NotMoved(m, n, a) ==
  /\ Good(n) /\ SameHold(m, n)
  /\ UsedOf(m) \ {a} \subseteq UsedOf(n) /\ UsedOf(n) \subseteq UsedOf(m)
  /\ Kept(m, n, UsedOf(n)) /\ (a \in DOMAIN n.chunk => a \in UsedOf(n))

Reallocated(m, r, a, si) ==
  IF r[2] = NULL THEN NotMoved(m, r[1], a)
  ELSE \/ Moved(m, r[1], a, r[2], si)
       \/ r[2] = <<r[2][1], 0>> /\ MovedOut(m, r[1], a, r[2][1], si)

(* The chunk the block leaves is filed. *)
LEMMA LeaveIs ==
  ASSUME NEW k, Good(k), NEW p \in Loose(k), NEW zero \in BOOLEAN
  PROVE  LET n == Insert(SetUse(k, p, FALSE), p, zero) IN
         /\ Good(n) /\ SameHold(k, n) /\ Loose(n) = Loose(k) \ {p}
         /\ UsedOf(n) = UsedOf(k) \ {p} /\ Kept(k, n, UsedOf(k) \ {p})
         /\ DOMAIN n.chunk = DOMAIN k.chunk
<1> DEFINE j == SetUse(k, p, FALSE)
           n == Insert(j, p, zero)
<1>1. /\ Good(j) /\ SameHold(k, j) /\ Loose(j) = Loose(k) /\ DOMAIN j.chunk = DOMAIN k.chunk
      /\ j.chunk[p].used = FALSE /\ Kept(k, j, DOMAIN k.chunk \ {p})
  <2>1. Marked(k, j, p, FALSE)
    BY UseGood
  <2> HIDE DEF j
  <2> QED
    BY <2>1 DEF Marked
<1> HIDE DEF j
<1>2. Good(n) /\ n.chunk = j.chunk /\ SameHold(j, n) /\ Loose(n) = Loose(j) \ {p}
  BY <1>1, InsertGood
<1> HIDE DEF n
<1>3. SameHold(k, n) /\ Loose(n) = Loose(k) \ {p} /\ DOMAIN n.chunk = DOMAIN k.chunk
  BY <1>1, <1>2 DEF SameHold
<1>4. UsedOf(n) = UsedOf(k) \ {p} /\ Kept(k, n, UsedOf(k) \ {p})
  BY <1>1, <1>2 DEF UsedOf, Kept
<1> QED
  BY <1>2, <1>3, <1>4 DEF n, j

LEMMA MoveOutIs ==
  ASSUME NEW m, Good(m), Placed(m), NEW k, NEW a, NEW p, Moving(m, k, a, p),
         NEW si \in Nat \ 0 .. 7, NEW zero \in BOOLEAN, NEW ok \in BOOLEAN
  PROVE  LET r == MoveOut(k, p, si, zero, ok) IN
         IF r[2] = NULL THEN Refused(k, r[1])
         ELSE \/ Moved(m, r[1], a, r[2], si)
              \/ r[2] = <<r[2][1], 0>> /\ MovedOut(m, r[1], a, r[2][1], si)
<1> DEFINE new == bin_mem_alloc(k, si, ok)
           j == new[1]
           b == new[2]
           z == zero /\ SetUse(j, p, FALSE).bins[0] # <<>>
           n == Insert(SetUse(j, p, FALSE), p, z)
           r == MoveOut(k, p, si, zero, ok)
<1>1. /\ Good(k) /\ SameHold(m, k) /\ p \in Loose(k)
      /\ UsedOf(k) \ {p} = UsedOf(m) \ {a} /\ Kept(m, k, UsedOf(m) \ {a})
      /\ Loose(k) \ {p} \subseteq Loose(m) \ {a}
  BY DEF Moving
<1>2. Placed(k) /\ Owed(k) = Owed(m) /\ HeapsOf(k) = HeapsOf(m) /\ k.large = m.large
      /\ k.heaps = m.heaps
  BY <1>1, SameOwed DEF Placed, SameHold
<1>3. Answered(k, new, si)
  BY <1>1, <1>2, AllocAnswered
<1>4. r = IF b = NULL THEN new ELSE <<n, b>>
  BY DEF MoveOut
<1>5. z \in BOOLEAN
  OBVIOUS
<1> HIDE DEF new, r, z
<1>6. CASE b = NULL
  BY <1>3, <1>4, <1>6 DEF Answered, r
<1>7. CASE b # NULL /\ Given(k, j, b, ChunkFor(si))
  <2> DEFINE siz == ChunkFor(si)
  <2>1. r[1] = n /\ r[2] = b
    BY <1>4, <1>7
  <2> HIDE DEF j, b, siz
  <2>2. /\ Good(j) /\ Owed(j) = Owed(k) /\ j.large = k.large /\ b \notin Loose(k)
        /\ Loose(j) = Loose(k) \cup {b} /\ siz <= j.chunk[b].size
    BY <1>7 DEF Given, siz
  <2>3. UsedOf(j) = UsedOf(k) \cup {b} /\ Kept(k, j, UsedOf(k)) /\ b \in DOMAIN j.chunk
    BY <1>1, <1>7, GivenUsed DEF siz
  <2>4. p \in Loose(j) /\ p # b
    BY <1>1, <2>2
  <2>5. /\ Good(n) /\ SameHold(j, n) /\ Loose(n) = Loose(j) \ {p}
        /\ UsedOf(n) = UsedOf(j) \ {p} /\ Kept(j, n, UsedOf(j) \ {p})
        /\ DOMAIN n.chunk = DOMAIN j.chunk
    BY <1>5, <2>2, <2>4, LeaveIs
  <2> HIDE DEF n
  <2>6. Owed(n) = Owed(m) /\ n.large = m.large
    BY <1>2, <2>2, <2>5, SameOwed DEF SameHold
  <2>7. UsedOf(n) = (UsedOf(m) \ {a}) \cup {b}
    BY <1>1, <2>3, <2>4, <2>5
  <2>8. n.chunk[b].size = j.chunk[b].size
    BY <2>3, <2>4, <2>5 DEF Kept
  <2>9. Kept(m, n, UsedOf(m) \ {a})
    <3> SUFFICES ASSUME NEW x \in UsedOf(m) \ {a}
                 PROVE  /\ x \in DOMAIN n.chunk
                        /\ n.chunk[x].size = m.chunk[x].size /\ n.chunk[x].used = m.chunk[x].used
      BY DEF Kept
    <3>1. x \in UsedOf(k) /\ x # p
      BY <1>1
    <3>2. x \in UsedOf(j) \ {p}
      BY <2>3, <3>1
    <3> QED
      BY <1>1, <2>3, <2>5, <3>1, <3>2 DEF Kept
  <2>10. Loose(n) \subseteq (Loose(m) \ {a}) \cup {b}
    BY <1>1, <2>2, <2>5
  <2>11. Kept(m, n, (UsedOf(m) \ {a}) \ {b})
    BY <2>9 DEF Kept
  <2>12. Moved(m, n, a, b, si)
    BY <2>2, <2>3, <2>5, <2>6, <2>7, <2>8, <2>10, <2>11 DEF Moved, siz
  <2> QED
    BY <1>7, <2>1, <2>12 DEF r
<1>8. CASE b # NULL /\ b = <<b[1], 0>> /\ Lent(k, j, b[1], ChunkFor(si))
  <2> DEFINE h == b[1]
             siz == ChunkFor(si)
  <2>1. r[1] = n /\ r[2] = b
    BY <1>4, <1>8
  <2> HIDE DEF j, b
  <2>2. /\ Good(j) /\ Owed(j) = Owed(k) /\ j.chunk = k.chunk /\ j.heaps = k.heaps
        /\ Loose(j) = Loose(k)
        /\ h \in Nat \ {0} /\ h \notin HeapsOf(k) /\ DOMAIN j.large = DOMAIN k.large \cup {h}
        /\ j.large[h] = siz /\ \A g \in DOMAIN k.large : j.large[g] = k.large[g]
    BY <1>8 DEF Lent
  <2> HIDE DEF h, siz
  <2>3. UsedOf(j) = UsedOf(k)
    BY <2>2 DEF UsedOf
  <2>4. /\ Good(n) /\ SameHold(j, n) /\ Loose(n) = Loose(j) \ {p}
        /\ UsedOf(n) = UsedOf(j) \ {p} /\ Kept(j, n, UsedOf(j) \ {p})
    <3>1. Good(j) /\ p \in Loose(j)
      BY <1>1, <2>2
    <3> QED
      BY <1>5, <3>1, LeaveIs
  <2> HIDE DEF n
  <2>5. Owed(n) = Owed(m) /\ n.heaps = m.heaps /\ n.large = j.large
    BY <1>2, <2>2, <2>4, SameOwed DEF SameHold
  <2>6. UsedOf(n) = UsedOf(m) \ {a} /\ Loose(n) \subseteq Loose(m) \ {a}
    BY <1>1, <2>2, <2>3, <2>4
  <2>7. Kept(m, n, UsedOf(m) \ {a})
    <3> SUFFICES ASSUME NEW x \in UsedOf(m) \ {a}
                 PROVE  /\ x \in DOMAIN n.chunk
                        /\ n.chunk[x].size = m.chunk[x].size /\ n.chunk[x].used = m.chunk[x].used
      BY DEF Kept
    <3>1. x \in UsedOf(k) /\ x # p /\ x \in UsedOf(j) \ {p}
      BY <1>1, <2>3
    <3> QED
      BY <1>1, <2>2, <2>4, <3>1 DEF Kept
  <2>8. /\ h \notin HeapsOf(m) /\ DOMAIN n.large = DOMAIN m.large \cup {h}
        /\ n.large[h] = siz /\ \A g \in DOMAIN m.large : n.large[g] = m.large[g]
    BY <1>2, <2>2, <2>5
  <2>9. MovedOut(m, n, a, h, si)
    BY <2>2, <2>4, <2>5, <2>6, <2>7, <2>8 DEF MovedOut, siz
  <2> QED
    BY <1>8, <2>1, <2>9 DEF r, h
<1> QED
  BY <1>3, <1>6, <1>7, <1>8 DEF Answered

THEOREM ReallocAnswered ==
  ASSUME NEW m, Good(m), Placed(m), NEW a \in UsedOf(m), NEW si \in Nat \ 0 .. 7,
         NEW ok \in BOOLEAN
  PROVE  Reallocated(m, ReallocChunk(m, a, si, ok), a, si)
<1> DEFINE siz == ChunkFor(si)
           grown == GrowBackwards(m, a)
           k == grown[1]
           p == grown[2]
           zero == p # a /\ m.bins[0] # <<>> /\ Last(m.bins[0]) = p
           r == ReallocChunk(m, a, si, ok)
<1>1. a \in Loose(m) /\ a \in DOMAIN m.chunk /\ m.chunk[a].size \in Nat
  BY LooseIs, GoodPlace DEF UsedOf
<1>2. IsRequest(siz) /\ siz \in Nat
  BY RequestIs
<1>3. zero \in BOOLEAN
  OBVIOUS
<1>4. r = IF m.chunk[a].size >= siz THEN <<UseFor(m, a, siz, FALSE), a>>
          ELSE IF k.chunk[p].size >= siz THEN <<UseFor(k, p, siz, zero), p>>
          ELSE MoveOut(k, p, si, zero, ok)
  BY DEF ReallocChunk, SizeOf
<1> HIDE DEF zero, siz
<1>5. ASSUME NEW n, NEW b, r = <<n, b>>, b # NULL, Moved(m, n, a, b, si)
      PROVE  Reallocated(m, r, a, si)
  <2>1. r[1] = n /\ r[2] = b
    BY <1>5
  <2> HIDE DEF r
  <2> QED
    BY <1>5, <2>1 DEF Reallocated
<1>6. CASE m.chunk[a].size >= siz
  <2> DEFINE n == UseFor(m, a, siz, FALSE)
  <2>1. r = <<n, a>>
    BY <1>4, <1>6
  <2>2. siz <= m.chunk[a].size
    BY <1>1, <1>2, <1>6
  <2>3. /\ Good(n) /\ SameHold(m, n) /\ Loose(n) = Loose(m) /\ a \in DOMAIN n.chunk
        /\ UsedOf(n) = UsedOf(m) \cup {a} /\ siz <= n.chunk[a].size
        /\ Kept(m, n, UsedOf(m) \ {a})
    BY <1>1, <1>2, <2>2, UseForUsed
  <2> HIDE DEF n, r
  <2>4. Owed(n) = Owed(m) /\ n.large = m.large
    BY <2>3, SameOwed DEF SameHold
  <2>5. Moved(m, n, a, a, si)
    BY <2>3, <2>4 DEF Moved, Kept, siz
  <2>6. a # NULL
    BY <1>1, GoodPlace
  <2> QED
    BY <1>5, <2>1, <2>5, <2>6 DEF r
<1>7. CASE ~(m.chunk[a].size >= siz) /\ ~FreeBefore(m, a)
  <2>1. grown = <<m, a>>
    BY <1>7 DEF GrowBackwards
  <2>2. k = m /\ p = a
    BY <2>1
  <2> HIDE DEF k, p
  <2>3. r = MoveOut(m, a, si, zero, ok)
    BY <1>4, <1>7, <2>2
  <2>4. Moving(m, m, a, a)
    BY <1>1 DEF Moving, SameHold, Kept, UsedOf
  <2> HIDE DEF r
  <2>5. IF r[2] = NULL THEN Refused(m, r[1])
        ELSE \/ Moved(m, r[1], a, r[2], si)
             \/ r[2] = <<r[2][1], 0>> /\ MovedOut(m, r[1], a, r[2][1], si)
    BY <1>3, <2>3, <2>4, MoveOutIs
  <2>6. ASSUME Refused(m, r[1]) PROVE NotMoved(m, r[1], a)
    BY <2>6 DEF Refused, NotMoved, Kept, UsedOf
  <2> QED
    BY <2>5, <2>6 DEF Reallocated, r
<1>8. CASE ~(m.chunk[a].size >= siz) /\ FreeBefore(m, a)
  <2>1. grown = <<Backward(m, a), Before(m, a)>>
    BY <1>8 DEF GrowBackwards, Backward
  <2>2. k = Backward(m, a) /\ p = Before(m, a)
    BY <2>1
  <2> HIDE DEF k, p
  <2>3. /\ Freeing(m, k, a, p) /\ p # a /\ a \notin DOMAIN k.chunk /\ k.chunk[p].size \in Nat
    BY <1>1, <1>8, <2>2, BackwardIs
  <2>4. /\ Good(k) /\ SameHold(m, k) /\ p \in Loose(k) /\ ~k.chunk[p].used
        /\ UsedOf(k) = UsedOf(m) \ {a} /\ Kept(m, k, UsedOf(m) \ {a})
        /\ Loose(k) \ {p} \subseteq Loose(m) \ {a}
    BY <2>3 DEF Freeing
  <2>5. p \notin UsedOf(k)
    BY <2>4 DEF UsedOf
  <2>6. CASE k.chunk[p].size >= siz
    <3> DEFINE n == UseFor(k, p, siz, zero)
    <3>1. r = <<n, p>>
      BY <1>4, <1>8, <2>6
    <3>2. siz <= k.chunk[p].size
      BY <1>2, <2>3, <2>6
    <3>3. /\ Good(n) /\ SameHold(k, n) /\ Loose(n) = Loose(k) /\ p \in DOMAIN n.chunk
          /\ UsedOf(n) = UsedOf(k) \cup {p} /\ siz <= n.chunk[p].size
          /\ Kept(k, n, UsedOf(k) \ {p})
      BY <1>2, <1>3, <2>4, <3>2, UseForUsed, ZenonT(60)
    <3> HIDE DEF n, r
    <3>4. Owed(n) = Owed(m) /\ n.large = m.large
      BY <2>4, <3>3, SameOwed DEF SameHold
    <3>5. UsedOf(n) = (UsedOf(m) \ {a}) \cup {p} /\ Loose(n) \subseteq (Loose(m) \ {a}) \cup {p}
      BY <2>4, <3>3
    <3>6. Kept(m, n, (UsedOf(m) \ {a}) \ {p})
      BY <2>4, <3>3 DEF Kept
    <3>7. Moved(m, n, a, p, si)
      BY <3>3, <3>4, <3>5, <3>6 DEF Moved, siz
    <3>8. p # NULL
      BY <2>4, LooseIs, GoodPlace
    <3> QED
      BY <1>5, <3>1, <3>7, <3>8 DEF r
  <2>7. CASE ~(k.chunk[p].size >= siz)
    <3>1. r = MoveOut(k, p, si, zero, ok)
      BY <1>4, <1>8, <2>7
    <3>2. Moving(m, k, a, p)
      BY <2>4, <2>5 DEF Moving
    <3> HIDE DEF r
    <3>3. IF r[2] = NULL THEN Refused(k, r[1])
          ELSE \/ Moved(m, r[1], a, r[2], si)
               \/ r[2] = <<r[2][1], 0>> /\ MovedOut(m, r[1], a, r[2][1], si)
      BY <1>3, <3>1, <3>2, MoveOutIs
    <3>4. ASSUME Refused(k, r[1]) PROVE NotMoved(m, r[1], a)
      <4> DEFINE n == r[1]
      <4>1. Good(n) /\ SameHold(k, n) /\ n.chunk = k.chunk
        BY <3>4 DEF Refused
      <4> HIDE DEF n
      <4>2. SameHold(m, n) /\ UsedOf(n) = UsedOf(m) \ {a} /\ Kept(m, n, UsedOf(m) \ {a})
            /\ a \notin DOMAIN n.chunk
        BY <2>3, <2>4, <4>1 DEF SameHold, UsedOf, Kept
      <4> QED
        BY <4>1, <4>2 DEF NotMoved, n
    <3> QED
      BY <3>3, <3>4 DEF Reallocated, r
  <2> QED
    BY <2>6, <2>7
<1> QED
  BY <1>6, <1>7, <1>8

-----------------------------------------------------------------------------
(* The blocks in use after a call. *)

LEMMA OwnedParts ==
  ASSUME NEW m, NEW lv, Owned(m, lv)
  PROVE  /\ Good(m) /\ m.heaps \subseteq 1 .. MaxHeaps /\ DOMAIN m.large \subseteq 1 .. MaxHeaps
         /\ m.heaps \cap DOMAIN m.large = {}
         /\ DOMAIN lv \subseteq Blocks /\ lv = [x \in DOMAIN lv |-> lv[x]]
         /\ \A a \in DOMAIN lv : /\ lv[a] \in Nat /\ a = <<a[1], a[2]>>
                                 /\ a[1] \in DOMAIN m.large => a = <<a[1], 0>> /\ HeadSize + lv[a] <= m.large[a[1]]
                                 /\ a \in DOMAIN m.chunk => a \in UsedOf(m) /\ HeadSize + lv[a] <= m.chunk[a].size
         /\ \A h \in DOMAIN m.large : <<h, 0>> \in DOMAIN lv
         /\ UsedOf(m) \subseteq DOMAIN lv
         /\ \A a \in DOMAIN m.chunk : a[1] \in m.heaps /\ a[1] \notin DOMAIN m.large
<1>1. Good(m) /\ HeapsOf(m) \subseteq 1 .. MaxHeaps /\ Typed(lv) /\ LargeOwned(m, lv) /\ ChunksOwned(m, lv)
  BY DEF Owned
<1>2. m.heaps \subseteq 1 .. MaxHeaps /\ DOMAIN m.large \subseteq 1 .. MaxHeaps
  BY <1>1 DEF HeapsOf
<1>3. m.heaps \cap DOMAIN m.large = {}
  BY <1>1 DEF Good, Held
<1>4. /\ DOMAIN lv \subseteq Blocks /\ lv = [x \in DOMAIN lv |-> lv[x]]
      /\ \A a \in DOMAIN lv : lv[a] \in Nat /\ a = <<a[1], a[2]>>
  BY <1>1 DEF Typed, Blocks
<1>5. \A a \in DOMAIN m.chunk : a[1] \in m.heaps
  BY <1>1, GoodPlace
<1> QED
  BY <1>1, <1>2, <1>3, <1>4, <1>5 DEF LargeOwned, ChunksOwned

(* The blocks of lv without those of S, and b. *)
IsTaken(lv, lw, S, b, si) ==
  /\ DOMAIN lw = (DOMAIN lv \ S) \cup {b} /\ lw = [x \in DOMAIN lw |-> lw[x]]
  /\ lw[b] = si /\ \A x \in DOMAIN lv \ S : x # b => lw[x] = lv[x]

LEMMA OwnedChunk ==
  ASSUME NEW m, NEW lv, Owned(m, lv), Known(m, lv), NEW S, S \subseteq DOMAIN m.chunk,
         NEW n, Good(n), HeapsOf(n) \subseteq 1 .. MaxHeaps, n.large = m.large,
         NEW b \in DOMAIN n.chunk, NEW si \in Nat, HeadSize + si <= n.chunk[b].size,
         UsedOf(n) = (UsedOf(m) \ S) \cup {b}, Kept(m, n, (UsedOf(m) \ S) \ {b}),
         NEW lw, IsTaken(lv, lw, S, b, si)
  PROVE  Owned(n, lw) /\ Known(n, lw)
<1>1. /\ DOMAIN lw = (DOMAIN lv \ S) \cup {b} /\ lw = [x \in DOMAIN lw |-> lw[x]]
      /\ lw[b] = si /\ \A x \in DOMAIN lv \ S : x # b => lw[x] = lv[x]
  BY DEF IsTaken
<1>2. /\ DOMAIN lv \subseteq Blocks
      /\ \A a \in DOMAIN lv : /\ lv[a] \in Nat /\ a = <<a[1], a[2]>>
                              /\ a[1] \in DOMAIN m.large => a = <<a[1], 0>> /\ HeadSize + lv[a] <= m.large[a[1]]
                              /\ a \in DOMAIN m.chunk => a \in UsedOf(m) /\ HeadSize + lv[a] <= m.chunk[a].size
      /\ \A h \in DOMAIN m.large : <<h, 0>> \in DOMAIN lv
      /\ UsedOf(m) \subseteq DOMAIN lv
      /\ \A a \in DOMAIN m.chunk : a[1] \notin DOMAIN m.large
  BY OwnedParts
<1>3. n.heaps \cap DOMAIN n.large = {} /\ n.heaps \subseteq 1 .. MaxHeaps
  BY DEF Good, Held, HeapsOf
<1>4. \A x \in DOMAIN n.chunk : x[1] \in n.heaps /\ x[1] \notin DOMAIN m.large
  BY <1>3, GoodPlace
<1>5. b \in Blocks
  BY <1>3, GoodPlace, StepIs DEF Blocks
<1>6. Typed(lw)
  BY <1>1, <1>2, <1>5 DEF Typed
<1>7. LargeOwned(n, lw)
  <2>1. ASSUME NEW x \in DOMAIN lw, x[1] \in DOMAIN n.large
        PROVE  x[2] = 0 /\ HeadSize + lw[x] <= n.large[x[1]]
    <3>1. x # b /\ x \in DOMAIN lv \ S
      BY <1>1, <1>4, <2>1
    <3>2. x = <<x[1], 0>> /\ HeadSize + lv[x] <= m.large[x[1]]
      BY <1>2, <2>1, <3>1
    <3> QED
      BY <1>1, <3>1, <3>2
  <2>2. ASSUME NEW h \in DOMAIN n.large
        PROVE  <<h, 0>> \in DOMAIN lw
    <3>1. <<h, 0>> \in DOMAIN lv
      BY <1>2
    <3>2. <<h, 0>> \notin S
      BY <1>2
    <3> QED
      BY <1>1, <3>1, <3>2
  <2> QED
    BY <2>1, <2>2 DEF LargeOwned
<1>8. ASSUME NEW x \in DOMAIN lw, x # b
      PROVE  \/ x[1] \in DOMAIN n.large /\ x \notin DOMAIN n.chunk
             \/ x \in UsedOf(n) /\ x \in DOMAIN n.chunk /\ HeadSize + lw[x] <= n.chunk[x].size
  <2>1. x \in DOMAIN lv \ S /\ lw[x] = lv[x]
    BY <1>1, <1>8
  <2>2. CASE x[1] \in DOMAIN m.large
    BY <1>4, <2>2
  <2>3. CASE x \in DOMAIN m.chunk
    <3>1. x \in UsedOf(m) /\ HeadSize + lv[x] <= m.chunk[x].size
      BY <1>2, <2>1, <2>3
    <3>2. x \in DOMAIN n.chunk /\ n.chunk[x].size = m.chunk[x].size /\ x \in UsedOf(n)
      BY <1>8, <2>1, <3>1 DEF Kept
    <3> QED
      BY <2>1, <3>1, <3>2
  <2> QED
    BY <2>1, <2>2, <2>3 DEF Known
<1>9. ChunksOwned(n, lw)
  <2>1. b \in UsedOf(n) /\ HeadSize + lw[b] <= n.chunk[b].size
    BY <1>1
  <2>2. UsedOf(n) \subseteq DOMAIN lw
    BY <1>1, <1>2
  <2> QED
    BY <1>8, <2>1, <2>2 DEF ChunksOwned
<1>10. Known(n, lw)
  BY <1>8 DEF Known
<1> QED
  BY <1>6, <1>7, <1>9, <1>10 DEF Owned

LEMMA OwnedLent ==
  ASSUME NEW m, NEW lv, Owned(m, lv), Known(m, lv), NEW S, S \subseteq DOMAIN m.chunk,
         NEW n, Good(n), HeapsOf(n) \subseteq 1 .. MaxHeaps, n.heaps = m.heaps,
         UsedOf(n) = UsedOf(m) \ S, Kept(m, n, UsedOf(m) \ S),
         NEW h, h \notin HeapsOf(m), DOMAIN n.large = DOMAIN m.large \cup {h},
         \A g \in DOMAIN m.large : n.large[g] = m.large[g],
         NEW si \in Nat, HeadSize + si <= n.large[h],
         NEW lw, IsTaken(lv, lw, S, <<h, 0>>, si)
  PROVE  Owned(n, lw) /\ Known(n, lw)
<1> DEFINE b == <<h, 0>>
<1>1. /\ DOMAIN lw = (DOMAIN lv \ S) \cup {b} /\ lw = [x \in DOMAIN lw |-> lw[x]]
      /\ lw[b] = si /\ \A x \in DOMAIN lv \ S : x # b => lw[x] = lv[x]
  BY DEF IsTaken
<1>2. /\ DOMAIN lv \subseteq Blocks
      /\ \A a \in DOMAIN lv : /\ lv[a] \in Nat /\ a = <<a[1], a[2]>>
                              /\ a[1] \in DOMAIN m.large => a = <<a[1], 0>> /\ HeadSize + lv[a] <= m.large[a[1]]
                              /\ a \in DOMAIN m.chunk => a \in UsedOf(m) /\ HeadSize + lv[a] <= m.chunk[a].size
      /\ \A g \in DOMAIN m.large : <<g, 0>> \in DOMAIN lv
      /\ UsedOf(m) \subseteq DOMAIN lv
      /\ \A a \in DOMAIN m.chunk : a[1] \in m.heaps /\ a[1] \notin DOMAIN m.large
  BY OwnedParts
<1>3. n.heaps \cap DOMAIN n.large = {} /\ DOMAIN n.large \subseteq 1 .. MaxHeaps
  BY DEF Good, Held, HeapsOf
<1>4. \A x \in DOMAIN n.chunk : x[1] \in n.heaps /\ x[1] \notin DOMAIN n.large
  BY <1>3, GoodPlace
<1>5. h \notin m.heaps /\ h \notin DOMAIN m.large /\ h \in DOMAIN n.large
  BY DEF HeapsOf
<1>6. b[1] = h /\ b[2] = 0 /\ b \in Blocks /\ \A g : <<g, 0>>[1] = g
  BY <1>3, <1>5, StepIs DEF Blocks
<1>7. Typed(lw)
  BY <1>1, <1>2, <1>6 DEF Typed
<1>8. ASSUME NEW x \in DOMAIN lw, x # b
      PROVE  /\ x[1] # h
             /\ \/ /\ x[1] \in DOMAIN n.large /\ x \notin DOMAIN n.chunk
                   /\ x[2] = 0 /\ HeadSize + lw[x] <= n.large[x[1]]
                \/ /\ x \in UsedOf(n) /\ x \in DOMAIN n.chunk
                   /\ HeadSize + lw[x] <= n.chunk[x].size
  <2>1. x \in DOMAIN lv \ S /\ lw[x] = lv[x]
    BY <1>1, <1>8
  <2>2. CASE x[1] \in DOMAIN m.large
    <3>1. x = <<x[1], 0>> /\ HeadSize + lv[x] <= m.large[x[1]]
      BY <1>2, <2>1, <2>2
    <3>2. x[2] = 0
      BY <3>1
    <3> QED
      BY <1>4, <1>5, <2>1, <2>2, <3>1, <3>2
  <2>3. CASE x \in DOMAIN m.chunk
    <3>1. x \in UsedOf(m) /\ HeadSize + lv[x] <= m.chunk[x].size /\ x[1] \in m.heaps
      BY <1>2, <2>1, <2>3
    <3>2. x \in DOMAIN n.chunk /\ n.chunk[x].size = m.chunk[x].size /\ x \in UsedOf(n)
      BY <2>1, <3>1 DEF Kept
    <3> QED
      BY <1>5, <2>1, <3>1, <3>2
  <2> QED
    BY <2>1, <2>2, <2>3 DEF Known
<1> HIDE DEF b
<1>9. b \notin DOMAIN n.chunk
  BY <1>4, <1>5, <1>6
<1>10. LargeOwned(n, lw)
  <2>1. ASSUME NEW x \in DOMAIN lw, x[1] \in DOMAIN n.large
        PROVE  x[2] = 0 /\ HeadSize + lw[x] <= n.large[x[1]]
    <3>1. CASE x = b
      BY <1>1, <1>6, <3>1
    <3>2. CASE x # b
      BY <1>4, <1>8, <2>1, <3>2
    <3> QED
      BY <3>1, <3>2
  <2>2. ASSUME NEW g \in DOMAIN n.large
        PROVE  <<g, 0>> \in DOMAIN lw
    <3>1. CASE g = h
      BY <1>1, <3>1 DEF b
    <3>2. CASE g \in DOMAIN m.large
      <4>1. <<g, 0>> \in DOMAIN lv
        BY <1>2, <3>2
      <4>2. <<g, 0>> \notin S
        BY <1>2, <1>6, <3>2
      <4> QED
        BY <1>1, <4>1, <4>2
    <3> QED
      BY <3>1, <3>2
  <2> QED
    BY <2>1, <2>2 DEF LargeOwned
<1>11. ChunksOwned(n, lw)
  <2>1. UsedOf(n) \subseteq DOMAIN lw
    BY <1>1, <1>2
  <2> QED
    BY <1>8, <1>9, <2>1 DEF ChunksOwned
<1>12. Known(n, lw)
  BY <1>5, <1>6, <1>8 DEF Known
<1> QED
  BY <1>7, <1>10, <1>11, <1>12 DEF Owned

(* The blocks of lv without a. *)
IsDropped(lv, lw, a) ==
  /\ DOMAIN lw = DOMAIN lv \ {a} /\ lw = [x \in DOMAIN lw |-> lw[x]]
  /\ \A x \in DOMAIN lw : lw[x] = lv[x]

LEMMA WithoutIs ==
  ASSUME NEW lv, NEW a
  PROVE  IsDropped(lv, Without(lv, {a}), a)
BY DEF IsDropped, Without, Restrict

LEMMA OwnedLess ==
  ASSUME NEW m, NEW lv, Owned(m, lv), Known(m, lv), NEW a \in UsedOf(m),
         NEW n, Freed(m, n, a), NEW lw, IsDropped(lv, lw, a)
  PROVE  Owned(n, lw) /\ Known(n, lw)
<1>1. /\ DOMAIN lw = DOMAIN lv \ {a} /\ lw = [x \in DOMAIN lw |-> lw[x]]
      /\ \A x \in DOMAIN lw : lw[x] = lv[x]
  BY DEF IsDropped
<1>2. /\ DOMAIN lv \subseteq Blocks /\ m.heaps \subseteq 1 .. MaxHeaps
      /\ DOMAIN m.large \subseteq 1 .. MaxHeaps
      /\ \A x \in DOMAIN lv : /\ lv[x] \in Nat
                              /\ x[1] \in DOMAIN m.large => x = <<x[1], 0>> /\ HeadSize + lv[x] <= m.large[x[1]]
                              /\ x \in DOMAIN m.chunk => x \in UsedOf(m) /\ HeadSize + lv[x] <= m.chunk[x].size
      /\ \A h \in DOMAIN m.large : <<h, 0>> \in DOMAIN lv
      /\ UsedOf(m) \subseteq DOMAIN lv
      /\ \A x \in DOMAIN m.chunk : x[1] \notin DOMAIN m.large
  BY OwnedParts
<1>3. /\ Good(n) /\ n.large = m.large /\ n.heaps \subseteq m.heaps
      /\ UsedOf(n) = UsedOf(m) \ {a} /\ Kept(m, n, UsedOf(m) \ {a})
  BY DEF Freed
<1>4. \A x \in DOMAIN n.chunk : x[1] \notin DOMAIN n.large
  BY <1>3, GoodPlace DEF Good, Held
<1>5. HeapsOf(n) \subseteq 1 .. MaxHeaps
  BY <1>2, <1>3 DEF HeapsOf
<1>6. Typed(lw)
  BY <1>1, <1>2 DEF Typed
<1>7. a[1] \notin DOMAIN m.large
  BY <1>2 DEF UsedOf
<1>8. LargeOwned(n, lw)
  <2>1. \A x \in DOMAIN lw : x[1] \in DOMAIN m.large => x[2] = 0 /\ HeadSize + lw[x] <= m.large[x[1]]
    <3> SUFFICES ASSUME NEW x \in DOMAIN lw, x[1] \in DOMAIN m.large
                 PROVE  x[2] = 0 /\ HeadSize + lw[x] <= m.large[x[1]]
      OBVIOUS
    <3>1. x = <<x[1], 0>> /\ HeadSize + lw[x] <= m.large[x[1]]
      BY <1>1, <1>2
    <3> QED
      BY <3>1
  <2>2. \A h \in DOMAIN m.large : <<h, 0>> \in DOMAIN lw
    BY <1>1, <1>2, <1>7
  <2> QED
    BY <1>3, <2>1, <2>2 DEF LargeOwned
<1>9. ASSUME NEW x \in DOMAIN lw
      PROVE  \/ x[1] \in DOMAIN n.large /\ x \notin DOMAIN n.chunk
             \/ x \in UsedOf(n) /\ x \in DOMAIN n.chunk /\ HeadSize + lw[x] <= n.chunk[x].size
  <2>1. x \in DOMAIN lv \ {a} /\ lw[x] = lv[x]
    BY <1>1
  <2>2. CASE x[1] \in DOMAIN m.large
    BY <1>3, <1>4, <2>2
  <2>3. CASE x \in DOMAIN m.chunk
    <3>1. x \in UsedOf(m) /\ HeadSize + lv[x] <= m.chunk[x].size
      BY <1>2, <2>1, <2>3
    <3>2. x \in DOMAIN n.chunk /\ n.chunk[x].size = m.chunk[x].size /\ x \in UsedOf(n)
      BY <1>3, <2>1, <3>1 DEF Kept
    <3> QED
      BY <2>1, <3>1, <3>2
  <2> QED
    BY <2>1, <2>2, <2>3 DEF Known
<1>10. ChunksOwned(n, lw)
  <2>1. UsedOf(n) \subseteq DOMAIN lw
    BY <1>1, <1>2, <1>3
  <2> QED
    BY <1>9, <2>1 DEF ChunksOwned
<1>11. Known(n, lw)
  BY <1>9 DEF Known
<1> QED
  BY <1>3, <1>5, <1>6, <1>8, <1>10, <1>11 DEF Owned

LEMMA OwnedStill ==
  ASSUME NEW m, NEW lv, Owned(m, lv), Known(m, lv), NEW a, NEW n, NotMoved(m, n, a)
  PROVE  Owned(n, lv)
<1>1. /\ Good(n) /\ SameHold(m, n)
      /\ UsedOf(m) \ {a} \subseteq UsedOf(n) /\ UsedOf(n) \subseteq UsedOf(m)
      /\ Kept(m, n, UsedOf(n)) /\ (a \in DOMAIN n.chunk => a \in UsedOf(n))
  BY DEF NotMoved
<1>2. /\ UsedOf(m) \subseteq DOMAIN lv
      /\ \A x \in DOMAIN lv :
           x \in DOMAIN m.chunk => x \in UsedOf(m) /\ HeadSize + lv[x] <= m.chunk[x].size
  BY OwnedParts
<1>3. HeapsOf(n) \subseteq 1 .. MaxHeaps /\ Typed(lv) /\ LargeOwned(n, lv)
  BY <1>1, SameOwed DEF Owned, LargeOwned, SameHold
<1>4. \A x \in DOMAIN n.chunk : x[1] \notin DOMAIN m.large
  BY <1>1, GoodPlace DEF Good, Held, SameHold
<1>5. ASSUME NEW x \in DOMAIN lv, x \in DOMAIN n.chunk
      PROVE  x \in UsedOf(n) /\ HeadSize + lv[x] <= n.chunk[x].size
  <2>1. x \in DOMAIN m.chunk
    BY <1>4, <1>5 DEF Known
  <2>2. x \in UsedOf(m) /\ HeadSize + lv[x] <= m.chunk[x].size
    BY <1>2, <2>1
  <2>3. x \in UsedOf(n)
    BY <1>1, <1>5, <2>2
  <2>4. n.chunk[x].size = m.chunk[x].size
    BY <1>1, <2>3 DEF Kept
  <2> QED
    BY <2>2, <2>3, <2>4
<1>6. ChunksOwned(n, lv)
  BY <1>1, <1>2, <1>5 DEF ChunksOwned
<1> QED
  BY <1>1, <1>3, <1>6 DEF Owned

(* Large blocks come and go, the chunks stay. *)
SameChunks(m, n) ==
  /\ Good(n) /\ Owed(n) = Owed(m) /\ n.chunk = m.chunk /\ n.heaps = m.heaps
  /\ n.bins = m.bins /\ Loose(n) = Loose(m) /\ UsedOf(n) = UsedOf(m)

LargeLess(m, h) ==
  Mem(m.chunk, m.bins, m.heaps, Without(m.large, {h}), m.heap_size - m.large[h])

LEMMA LargeGone ==
  ASSUME NEW m, Good(m), NEW h \in DOMAIN m.large, NEW n, n = LargeLess(m, h)
  PROVE  /\ SameChunks(m, n) /\ DOMAIN n.large = DOMAIN m.large \ {h}
         /\ \A x \in DOMAIN n.large : n.large[x] = m.large[x]
<1> DEFINE f == m.large
           g == Without(f, {h})
           s == m.heap_size - f[h]
<1>1. Held(m) /\ n = Mem(m.chunk, m.bins, m.heaps, g, s)
  BY DEF Good, LargeLess
<1>2. /\ Summable(f, DOMAIN f) /\ f \in [DOMAIN f -> Nat] /\ DOMAIN f \subseteq Nat \ {0}
      /\ m.heaps \cap DOMAIN f = {} /\ m.heap_size \in Int
  BY <1>1 DEF Held
<1> HIDE DEF f
<1>3. /\ DOMAIN g = DOMAIN f \ {h} /\ Summable(g, DOMAIN g) /\ (\A x \in DOMAIN g : g[x] = f[x])
      /\ SumOf(g, DOMAIN g) = SumOf(f, DOMAIN f) - f[h]
  <2>1. h \in DOMAIN f
    BY DEF f
  <2> QED
    BY <1>2, <2>1, SumDrops
<1>4. g = [x \in DOMAIN g |-> g[x]]
  BY DEF Without, Restrict
<1> HIDE DEF g
<1>5. g \in [DOMAIN g -> Nat] /\ DOMAIN g \subseteq Nat \ {0} /\ m.heaps \cap DOMAIN g = {}
  BY <1>2, <1>3, <1>4
<1>6. s \in Int /\ SumOf(g, DOMAIN g) - SumOf(f, DOMAIN f) = s - m.heap_size
  <2>1. SumOf(f, DOMAIN f) \in Int /\ f[h] \in Int
    BY <1>2, SumFacts DEF f
  <2> QED
    BY <1>2, <1>3, <2>1
<1> HIDE DEF s
<1>7. /\ Good(n) /\ n.chunk = m.chunk /\ n.bins = m.bins /\ n.heaps = m.heaps
      /\ n.large = g /\ Owed(n) = Owed(m) /\ Loose(n) = Loose(m)
  BY <1>1, <1>3, <1>5, <1>6, LargeGood DEF f
<1> QED
  BY <1>3, <1>7 DEF SameChunks, UsedOf, f

LEMMA LargeResized ==
  ASSUME NEW m, Good(m), NEW h \in DOMAIN m.large, NEW siz \in Nat, NEW n,
         n = Mem(m.chunk, m.bins, m.heaps, [m.large EXCEPT ![h] = siz],
                 m.heap_size - m.large[h] + siz)
  PROVE  /\ SameChunks(m, n) /\ DOMAIN n.large = DOMAIN m.large
         /\ n.large[h] = siz /\ \A x \in DOMAIN n.large : x # h => n.large[x] = m.large[x]
<1> DEFINE f == m.large
           g == [f EXCEPT ![h] = siz]
           s == m.heap_size - f[h] + siz
<1>1. Held(m) /\ n = Mem(m.chunk, m.bins, m.heaps, g, s)
  BY DEF Good
<1>2. /\ Summable(f, DOMAIN f) /\ f \in [DOMAIN f -> Nat] /\ DOMAIN f \subseteq Nat \ {0}
      /\ m.heaps \cap DOMAIN f = {} /\ m.heap_size \in Int
  BY <1>1 DEF Held
<1>3. h \in DOMAIN f /\ f[h] \in Int
  BY <1>2 DEF f
<1> HIDE DEF f
<1>4. /\ DOMAIN g = DOMAIN f /\ Summable(g, DOMAIN g)
      /\ g[h] = siz /\ (\A x \in DOMAIN f : x # h => g[x] = f[x])
      /\ SumOf(g, DOMAIN g) = SumOf(f, DOMAIN f) - f[h] + siz
  <2>1. f = [x \in DOMAIN f |-> f[x]] /\ siz \in Int
    BY <1>2
  <2> QED
    BY <1>2, <1>3, <2>1, SumResizes
<1>5. g \in [DOMAIN g -> Nat]
  BY <1>2, <1>3
<1> HIDE DEF g
<1>6. DOMAIN g \subseteq Nat \ {0} /\ m.heaps \cap DOMAIN g = {}
  BY <1>2, <1>4
<1>7. s \in Int /\ SumOf(g, DOMAIN g) - SumOf(f, DOMAIN f) = s - m.heap_size
  <2>1. SumOf(f, DOMAIN f) \in Int
    BY <1>2, SumFacts
  <2> QED
    BY <1>2, <1>3, <1>4, <2>1
<1> HIDE DEF s
<1>8. /\ Good(n) /\ n.chunk = m.chunk /\ n.bins = m.bins /\ n.heaps = m.heaps
      /\ n.large = g /\ Owed(n) = Owed(m) /\ Loose(n) = Loose(m)
  BY <1>1, <1>4, <1>5, <1>6, <1>7, LargeGood DEF f
<1> QED
  BY <1>4, <1>8 DEF SameChunks, UsedOf, f

LEMMA OwnedLargeFreed ==
  ASSUME NEW m, NEW lv, Owned(m, lv), Known(m, lv), NEW a \in DOMAIN lv,
         a[1] \in DOMAIN m.large, NEW n, SameChunks(m, n),
         DOMAIN n.large = DOMAIN m.large \ {a[1]},
         \A x \in DOMAIN n.large : n.large[x] = m.large[x]
  PROVE  /\ Owned(n, lv)
         /\ \A lw : IsDropped(lv, lw, a) => Owned(n, lw) /\ Known(n, lw)
<1>1. /\ Good(n) /\ n.chunk = m.chunk /\ n.heaps = m.heaps /\ UsedOf(n) = UsedOf(m)
  BY DEF SameChunks
<1>2. /\ DOMAIN lv \subseteq Blocks /\ lv = [x \in DOMAIN lv |-> lv[x]]
      /\ \A x \in DOMAIN lv : /\ lv[x] \in Nat
                              /\ x[1] \in DOMAIN m.large => x = <<x[1], 0>> /\ HeadSize + lv[x] <= m.large[x[1]]
                              /\ x \in DOMAIN m.chunk => x \in UsedOf(m) /\ HeadSize + lv[x] <= m.chunk[x].size
      /\ \A h \in DOMAIN m.large : <<h, 0>> \in DOMAIN lv
      /\ UsedOf(m) \subseteq DOMAIN lv
      /\ \A x \in DOMAIN m.chunk : x[1] \notin DOMAIN m.large
  BY OwnedParts
<1>3. HeapsOf(n) \subseteq 1 .. MaxHeaps
  BY <1>1 DEF Owned, HeapsOf
<1>4. \A x \in DOMAIN lv : x[1] \in DOMAIN n.large =>
        x # a /\ x = <<x[1], 0>> /\ HeadSize + lv[x] <= n.large[x[1]]
  BY <1>2
<1>5. \A x \in DOMAIN lv : x[1] \in DOMAIN n.large => x[2] = 0
  <2> SUFFICES ASSUME NEW x \in DOMAIN lv, x[1] \in DOMAIN n.large PROVE x[2] = 0
    OBVIOUS
  <2>1. x = <<x[1], 0>>
    BY <1>4
  <2> QED
    BY <2>1
<1>6. LargeOwned(n, lv)
  BY <1>2, <1>4, <1>5 DEF LargeOwned
<1>7. ChunksOwned(n, lv)
  BY <1>1, <1>2 DEF ChunksOwned
<1>8. Owned(n, lv)
  BY <1>1, <1>3, <1>6, <1>7 DEF Owned
<1>9. ASSUME NEW lw, IsDropped(lv, lw, a)
      PROVE  Owned(n, lw) /\ Known(n, lw)
  <2>1. /\ DOMAIN lw = DOMAIN lv \ {a} /\ lw = [x \in DOMAIN lw |-> lw[x]]
        /\ \A x \in DOMAIN lw : lw[x] = lv[x]
    BY <1>9 DEF IsDropped
  <2>2. Typed(lw)
    BY <1>2, <2>1 DEF Typed
  <2>3. LargeOwned(n, lw)
    <3>1. \A x \in DOMAIN lw : x[1] \in DOMAIN n.large => x[2] = 0 /\ HeadSize + lw[x] <= n.large[x[1]]
      BY <1>4, <1>5, <2>1
    <3>2. \A h \in DOMAIN n.large : <<h, 0>> \in DOMAIN lw
      <4> SUFFICES ASSUME NEW h \in DOMAIN n.large PROVE <<h, 0>> \in DOMAIN lw
        OBVIOUS
      <4>1. <<h, 0>> \in DOMAIN lv
        BY <1>2
      <4>2. <<h, 0>>[1] = h /\ h # a[1]
        OBVIOUS
      <4>3. <<h, 0>> # a
        BY <4>2
      <4> QED
        BY <2>1, <4>1, <4>3
    <3> QED
      BY <3>1, <3>2 DEF LargeOwned
  <2>4. a \notin UsedOf(m)
    BY <1>2 DEF UsedOf
  <2>5. ChunksOwned(n, lw)
    BY <1>1, <1>2, <2>1, <2>4 DEF ChunksOwned
  <2>6. Known(n, lw)
    <3> SUFFICES ASSUME NEW x \in DOMAIN lw
                 PROVE  x[1] \in DOMAIN n.large \/ x \in DOMAIN n.chunk
      BY DEF Known
    <3>1. CASE x[1] = a[1]
      BY <1>2, <2>1, <3>1
    <3>2. CASE x[1] # a[1]
      BY <1>1, <2>1, <3>2 DEF Known
    <3> QED
      BY <3>1, <3>2
  <2> QED
    BY <1>1, <1>3, <2>2, <2>3, <2>5, <2>6 DEF Owned
<1> QED
  BY <1>8, <1>9

LEMMA OwnedLargeResized ==
  ASSUME NEW m, NEW lv, Owned(m, lv), Known(m, lv), NEW a \in DOMAIN lv,
         a[1] \in DOMAIN m.large, NEW n, SameChunks(m, n), DOMAIN n.large = DOMAIN m.large,
         NEW si \in Nat, HeadSize + si <= n.large[a[1]],
         \A x \in DOMAIN n.large : x # a[1] => n.large[x] = m.large[x]
  PROVE  Owned(n, [lv EXCEPT ![a] = si]) /\ Known(n, [lv EXCEPT ![a] = si])
<1> DEFINE lw == [lv EXCEPT ![a] = si]
<1>1. /\ Good(n) /\ n.chunk = m.chunk /\ n.heaps = m.heaps /\ UsedOf(n) = UsedOf(m)
  BY DEF SameChunks
<1>2. /\ DOMAIN lv \subseteq Blocks /\ lv = [x \in DOMAIN lv |-> lv[x]]
      /\ \A x \in DOMAIN lv : /\ lv[x] \in Nat
                              /\ x[1] \in DOMAIN m.large => x = <<x[1], 0>> /\ HeadSize + lv[x] <= m.large[x[1]]
                              /\ x \in DOMAIN m.chunk => x \in UsedOf(m) /\ HeadSize + lv[x] <= m.chunk[x].size
      /\ \A h \in DOMAIN m.large : <<h, 0>> \in DOMAIN lv
      /\ UsedOf(m) \subseteq DOMAIN lv
      /\ \A x \in DOMAIN m.chunk : x[1] \notin DOMAIN m.large
  BY OwnedParts
<1>3. HeapsOf(n) \subseteq 1 .. MaxHeaps
  BY <1>1 DEF Owned, HeapsOf
<1>4. /\ DOMAIN lw = DOMAIN lv /\ lw[a] = si /\ (\A x \in DOMAIN lv : x # a => lw[x] = lv[x])
      /\ lw = [x \in DOMAIN lw |-> lw[x]]
  BY <1>2
<1> HIDE DEF lw
<1>5. Typed(lw)
  BY <1>2, <1>4 DEF Typed
<1>6. LargeOwned(n, lw)
  <2>1. ASSUME NEW x \in DOMAIN lw, x[1] \in DOMAIN n.large
        PROVE  x[2] = 0 /\ HeadSize + lw[x] <= n.large[x[1]]
    <3>1. x = <<x[1], 0>> /\ HeadSize + lv[x] <= m.large[x[1]] /\ a = <<a[1], 0>>
      BY <1>2, <1>4, <2>1
    <3>2. x[2] = 0
      BY <3>1
    <3>3. CASE x = a
      BY <1>4, <3>2, <3>3
    <3>4. CASE x # a
      <4>1. x[1] # a[1]
        BY <3>1, <3>4
      <4> QED
        BY <1>4, <2>1, <3>1, <3>2, <3>4, <4>1
    <3> QED
      BY <3>3, <3>4
  <2> QED
    BY <1>2, <1>4, <2>1 DEF LargeOwned
<1>7. a \notin DOMAIN m.chunk
  BY <1>2
<1>8. ChunksOwned(n, lw)
  BY <1>1, <1>2, <1>4, <1>7 DEF ChunksOwned
<1>9. Known(n, lw)
  BY <1>1, <1>4 DEF Known
<1>10. Owned(n, lw)
  BY <1>1, <1>3, <1>5, <1>6, <1>8 DEF Owned
<1> QED
  BY <1>9, <1>10 DEF lw

LEMMA OwnedLost ==
  ASSUME NEW m, NEW lv, Owned(m, lv), NEW a, a \notin DOMAIN m.chunk,
         a[1] \notin DOMAIN m.large, NEW s \in Int, NEW n,
         n = Mem(m.chunk, m.bins, m.heaps, m.large, s), NEW lw, IsDropped(lv, lw, a)
  PROVE  Owned(n, lw)
<1>1. /\ DOMAIN lw = DOMAIN lv \ {a} /\ lw = [x \in DOMAIN lw |-> lw[x]]
      /\ \A x \in DOMAIN lw : lw[x] = lv[x]
  BY DEF IsDropped
<1>2. /\ n.chunk = m.chunk /\ n.bins = m.bins /\ n.heaps = m.heaps /\ n.large = m.large
      /\ n.heap_size = s /\ IsMem(n)
  BY MemParts
<1>3. Good(n)
  BY <1>2 DEF Owned, Good, Filed, Held
<1>4. HeapsOf(n) \subseteq 1 .. MaxHeaps
  BY <1>2 DEF Owned, HeapsOf
<1>5. Typed(lw)
  BY <1>1 DEF Owned, Typed
<1>6. \A h \in DOMAIN m.large : <<h, 0>> # a
  <2> SUFFICES ASSUME NEW h \in DOMAIN m.large, <<h, 0>> = a PROVE FALSE
    OBVIOUS
  <2>1. <<h, 0>>[1] = h
    OBVIOUS
  <2> QED
    BY <2>1
<1>7. LargeOwned(n, lw)
  BY <1>1, <1>2, <1>6 DEF Owned, LargeOwned
<1>8. ChunksOwned(n, lw)
  BY <1>1, <1>2 DEF Owned, ChunksOwned, UsedOf
<1> QED
  BY <1>3, <1>4, <1>5, <1>7, <1>8 DEF Owned

EmptyMem == Mem(<<>>, EmptyBins, {}, <<>>, 0)

LEMMA EmptyOwned == Owned(EmptyMem, <<>>) /\ Settled(EmptyMem, <<>>) /\ Tidy(EmptyMem)
<1> DEFINE m == EmptyMem
<1>1. /\ m.chunk = <<>> /\ m.bins = EmptyBins /\ m.heaps = {} /\ m.large = <<>>
      /\ m.heap_size = 0 /\ IsMem(m)
  BY MemParts DEF EmptyMem
<1>2. DOMAIN <<>> = {} /\ <<>> = [x \in {} |-> x]
  OBVIOUS
<1> HIDE DEF m
<1>3. \A T : <<>> \in [DOMAIN <<>> -> T]
  BY <1>2
<1>4. Tiled(m.chunk, m.heaps)
  BY <1>1, <1>2, <1>3 DEF Tiled, Headers, Linked, Disjoint
<1>5. GoodBins(m.bins) /\ \A a : ~OnList(m.bins, a)
  BY <1>1, GoodBinsEmpty
<1>6. Filed(m)
  BY <1>5 DEF Filed, OnList
<1>7. IsFiniteSet({}) /\ Cardinality({}) = 0
  BY FS_EmptySet
<1>8. Summable(<<>>, {})
  BY <1>7 DEF Summable
<1>9. Held(m)
  BY <1>1, <1>2, <1>3, <1>7, <1>8 DEF Held
<1>10. Good(m)
  BY <1>1, <1>4, <1>5, <1>6, <1>9 DEF Good
<1>11. UsedOf(m) = {} /\ Loose(m) = {} /\ HeapsOf(m) = {}
  BY <1>1, <1>2 DEF UsedOf, Loose, HeapsOf
<1>12. Owned(m, <<>>)
  BY <1>1, <1>2, <1>3, <1>10, <1>11 DEF Owned, Typed, LargeOwned, ChunksOwned
<1>13. Owed(m) = 0
  <2>1. SumOf(<<>>, {}) = 0
    BY <1>8, SumFacts
  <2>2. Owed(m) = 0 - (Step * 0 + 0)
    BY <1>1, <1>2, <1>7, <2>1 DEF Owed
  <2> QED
    BY <2>2, StepIs
<1>14. Settled(m, <<>>)
  BY <1>2, <1>11, <1>13 DEF Settled, Known
<1>15. Len(m.bins[0]) <= 1
  <2>1. m.bins[0] = <<>>
    BY <1>1, BinIs, StepIs DEF EmptyBins, Row
  <2> QED
    BY <2>1
<1>16. Tidy(m)
  BY <1>1, <1>2, <1>11, <1>15 DEF Tidy, Merged
<1> QED
  BY <1>12, <1>14, <1>16 DEF m

-----------------------------------------------------------------------------
(* Every step keeps the blocks: one lemma for each action. *)

LEMMA MemIs ==
  /\ mem.chunk = chunk /\ mem.bins = bins /\ mem.heaps = heaps /\ mem.large = large
  /\ mem.heap_size = heap_size /\ IsMem(mem)
  /\ mem = Mem(chunk, bins, heaps, large, heap_size)
BY DEF mem, Mem, IsMem

LEMMA BecomeIs ==
  ASSUME NEW n, IsMem(n), Become(n)
  PROVE  mem' = n
BY DEF IsMem, Become, mem, Mem

(* What an action shows of the context it leaves. *)
LEMMA BlocksStep ==
  ASSUME BlocksInv, NEW n, NEW lw, mem' = n, live' = lw, Owned(n, lw),
         failed' \in BOOLEAN, memErr' \in BOOLEAN, wild' \in BOOLEAN,
         staleBins' \subseteq Row, resizes' \in 0 .. MaxResizes,
         memErr' => failed', ~failed' => Settled(n, lw)
  PROVE  BlocksInv'
<1>1. Owned(mem', live') /\ (~failed' => Settled(mem', live'))
  OBVIOUS
<1> QED
  BY <1>1 DEF BlocksInv

LEMMA InvParts ==
  ASSUME BlocksInv
  PROVE  /\ Owned(mem, live) /\ Good(mem) /\ Placed(mem)
         /\ failed \in BOOLEAN /\ memErr \in BOOLEAN /\ wild \in BOOLEAN
         /\ staleBins \subseteq Row /\ resizes \in 0 .. MaxResizes
         /\ (memErr => failed) /\ (~failed => Settled(mem, live))
         /\ (Usable => Known(mem, live))
<1>1. Usable => Known(mem, live)
  BY MemIs DEF Usable, Intact, Known
<1> QED
  BY <1>1 DEF BlocksInv, Owned, Placed, Typed

LEMMA AskedIs ==
  /\ \A si \in Sizes \cup ReSizes :
       si \in Nat \ 0 .. 7 /\ si \in Nat /\ ChunkFor(si) \in Nat /\ HeadSize + si <= ChunkFor(si)
  /\ \A call, ok : ok \in ParentHas(call) => ok \in BOOLEAN
BY SizesAssumption, RequestIs DEF ParentHas

LEMMA WithTakes ==
  ASSUME NEW lv, NEW b, NEW si
  PROVE  IsTaken(lv, With(lv, b, si), {}, b, si)
BY DEF IsTaken, With

(* An answer is a block more. *)
LEMMA AnswerOwned ==
  ASSUME NEW m, NEW lv, Owned(m, lv), Known(m, lv), NEW si \in Nat,
         HeadSize + si <= ChunkFor(si), ChunkFor(si) \in Nat,
         NEW r, Answered(m, r, si), HeapsOf(r[1]) \subseteq 1 .. MaxHeaps,
         NEW lw, lw = IF r[2] = NULL THEN lv ELSE With(lv, r[2], si)
  PROVE  Owned(r[1], lw) /\ (Settled(m, lv) => Settled(r[1], lw))
<1> DEFINE n == r[1]
           b == r[2]
           siz == ChunkFor(si)
<1>1. Good(m)
  BY DEF Owned
<1>2. \A x : x \in UsedOf(m) => x \in Loose(m) /\ x \in DOMAIN m.chunk
  BY <1>1, LooseIs DEF UsedOf
<1>3. CASE b = NULL
  <2>1. Good(n) /\ SameHold(m, n) /\ n.chunk = m.chunk /\ Loose(n) = Loose(m) /\ lw = lv
    BY <1>3 DEF Answered, Refused
  <2> HIDE DEF n
  <2>2. Owed(n) = Owed(m) /\ UsedOf(n) = UsedOf(m) /\ n.large = m.large /\ n.heaps = m.heaps
    BY <2>1, SameOwed DEF UsedOf, SameHold
  <2>3. Owned(n, lv)
    BY <2>1, <2>2 DEF Owned, LargeOwned, ChunksOwned, HeapsOf
  <2>4. Settled(m, lv) => Settled(n, lv)
    BY <2>1, <2>2 DEF Settled, Known
  <2> QED
    BY <2>1, <2>3, <2>4 DEF n
<1>4. CASE b # NULL /\ Given(m, n, b, siz)
  <2> DEFINE S == {}
  <2>1. /\ Good(n) /\ Owed(n) = Owed(m) /\ n.large = m.large
        /\ Loose(n) = Loose(m) \cup {b} /\ n.chunk[b].used /\ siz <= n.chunk[b].size
    BY <1>4 DEF Given
  <2>2. UsedOf(n) = UsedOf(m) \cup {b} /\ Kept(m, n, UsedOf(m)) /\ b \in DOMAIN n.chunk
    BY <1>1, <1>4, GivenUsed
  <2>3. IsTaken(lv, lw, S, b, si)
    <3>1. lw = With(lv, b, si)
      BY <1>4
    <3> QED
      BY <3>1, WithTakes
  <2> HIDE DEF n, b, siz
  <2>4. n.chunk[b].size \in Nat
    BY <2>1, <2>2, GoodPlace
  <2>5. HeadSize + si <= n.chunk[b].size
    BY <2>1, <2>4 DEF siz, HeadSize
  <2>6. UsedOf(n) = (UsedOf(m) \ S) \cup {b} /\ Kept(m, n, (UsedOf(m) \ S) \ {b})
        /\ S \subseteq DOMAIN m.chunk
    BY <2>2 DEF Kept
  <2>7. HeapsOf(n) \subseteq 1 .. MaxHeaps
    BY DEF n
  <2> HIDE DEF S
  <2>8. Owned(n, lw) /\ Known(n, lw)
    BY <2>1, <2>2, <2>3, <2>5, <2>6, <2>7, OwnedChunk
  <2>9. Settled(m, lv) => Settled(n, lw)
    BY <2>1, <2>2, <2>8 DEF Settled
  <2> QED
    BY <2>8, <2>9 DEF n
<1>5. CASE b # NULL /\ b = <<b[1], 0>> /\ Lent(m, n, b[1], siz)
  <2> DEFINE h == b[1]
             S == {}
  <2>1. /\ Good(n) /\ Owed(n) = Owed(m) /\ n.chunk = m.chunk /\ n.heaps = m.heaps
        /\ Loose(n) = Loose(m)
        /\ h \notin HeapsOf(m) /\ DOMAIN n.large = DOMAIN m.large \cup {h}
        /\ n.large[h] = siz /\ \A g \in DOMAIN m.large : n.large[g] = m.large[g]
    BY <1>5 DEF Lent
  <2>2. IsTaken(lv, lw, S, <<h, 0>>, si)
    <3>1. lw = With(lv, b, si)
      BY <1>5
    <3>2. <<h, 0>> = b
      BY <1>5
    <3> HIDE DEF b, h
    <3> QED
      BY <3>1, <3>2, WithTakes
  <2>3. HeapsOf(n) \subseteq 1 .. MaxHeaps
    OBVIOUS
  <2> HIDE DEF n, h, siz
  <2>4. UsedOf(n) = UsedOf(m) \ S /\ Kept(m, n, UsedOf(m) \ S) /\ S \subseteq DOMAIN m.chunk
        /\ UsedOf(n) = UsedOf(m)
    BY <2>1 DEF Kept, UsedOf
  <2>5. HeadSize + si <= n.large[h]
    BY <2>1 DEF siz
  <2> HIDE DEF S
  <2>6. Owned(n, lw) /\ Known(n, lw)
    BY <2>1, <2>2, <2>3, <2>4, <2>5, OwnedLent
  <2>7. Settled(m, lv) => Settled(n, lw)
    BY <2>1, <2>4, <2>6 DEF Settled
  <2> QED
    BY <2>6, <2>7 DEF n
<1> QED
  BY <1>3, <1>4, <1>5 DEF Answered

LEMMA AllocBlocks ==
  ASSUME BlocksInv, NEW si \in Sizes, Alloc(si)
  PROVE  BlocksInv'
<1>1. /\ Owned(mem, live) /\ Good(mem) /\ Placed(mem) /\ Known(mem, live)
      /\ (~failed => Settled(mem, live)) /\ (memErr => failed)
      /\ failed \in BOOLEAN /\ memErr \in BOOLEAN /\ wild \in BOOLEAN
      /\ staleBins \subseteq Row /\ resizes \in 0 .. MaxResizes
  BY InvParts DEF Alloc
<1>2. si \in Nat \ 0 .. 7 /\ si \in Nat /\ ChunkFor(si) \in Nat /\ HeadSize + si <= ChunkFor(si)
  BY AskedIs
<1>3. PICK ok \in ParentHas("alloc") :
        LET r == bin_mem_alloc(mem, si, ok) IN
          /\ HeapsOf(r[1]) \subseteq 1 .. MaxHeaps
          /\ Become(r[1])
          /\ live' = IF r[2] = NULL THEN live ELSE With(live, r[2], si)
  BY DEF Alloc
<1>4. PICK r : r = bin_mem_alloc(mem, si, ok)
  OBVIOUS
<1>5. PICK lw : lw = IF r[2] = NULL THEN live ELSE With(live, r[2], si)
  OBVIOUS
<1>6. /\ HeapsOf(r[1]) \subseteq 1 .. MaxHeaps /\ Become(r[1]) /\ live' = lw
      /\ UNCHANGED <<resizes, failed, memErr, staleBins, wild>>
  BY <1>3, <1>4, <1>5 DEF Alloc
<1>7. Answered(mem, r, si)
  <2>1. ok \in BOOLEAN
    BY AskedIs
  <2> QED
    BY <1>1, <1>2, <1>4, <2>1, AllocAnswered
<1>8. Owned(r[1], lw) /\ (Settled(mem, live) => Settled(r[1], lw))
  BY <1>1, <1>2, <1>5, <1>6, <1>7, AnswerOwned
<1> DEFINE n == r[1]
<1>9. mem' = n
  <2>1. IsMem(n)
    BY <1>8 DEF Owned, Good
  <2> QED
    BY <1>6, <2>1, BecomeIs
<1> HIDE DEF n
<1>10. Owned(n, lw) /\ (~failed' => Settled(n, lw)) /\ memErr' = memErr /\ failed' = failed
       /\ wild' = wild /\ staleBins' = staleBins /\ resizes' = resizes
  BY <1>1, <1>6, <1>8 DEF n
<1> QED
  BY <1>1, <1>6, <1>9, <1>10, BlocksStep

LEMMA FreeBlocks ==
  ASSUME BlocksInv, NEW a \in DOMAIN live, Free(a)
  PROVE  BlocksInv'
<1>1. /\ Owned(mem, live) /\ Good(mem) /\ Known(mem, live)
      /\ (~failed => Settled(mem, live)) /\ (memErr => failed)
      /\ failed \in BOOLEAN /\ memErr \in BOOLEAN /\ wild \in BOOLEAN
      /\ staleBins \subseteq Row /\ resizes \in 0 .. MaxResizes
  BY InvParts DEF Free
<1>2. a \in DOMAIN mem.chunk
  BY MemIs DEF Free
<1>3. a \in UsedOf(mem)
  BY <1>1, <1>2, OwnedParts
<1>4. TagsAgree(mem, a)
  BY <1>1, <1>2, TagsAgreeAlways
<1>5. PICK n : n = FreeChunk(mem, a)
  OBVIOUS
<1>6. PICK lw : lw = Without(live, {a})
  OBVIOUS
<1>7. /\ Become(n) /\ live' = lw
      /\ UNCHANGED <<resizes, failed, memErr, staleBins, wild>>
  BY <1>4, <1>5, <1>6 DEF Free
<1>8. Freed(mem, n, a)
  BY <1>1, <1>3, <1>5, ChunkFreed
<1>9. IsDropped(live, lw, a)
  BY <1>6, WithoutIs
<1>10. Owned(n, lw) /\ Known(n, lw)
  BY <1>1, <1>3, <1>8, <1>9, OwnedLess
<1>11. Settled(mem, live) => Settled(n, lw)
  BY <1>8, <1>10 DEF Settled, Freed
<1>12. mem' = n
  BY <1>7, <1>10, BecomeIs DEF Owned, Good
<1>13. memErr' = memErr /\ failed' = failed /\ wild' = wild /\ staleBins' = staleBins
       /\ resizes' = resizes
  BY <1>7
<1> QED
  BY <1>1, <1>7, <1>10, <1>11, <1>12, <1>13, BlocksStep

LEMMA FreeLargeBlocks ==
  ASSUME BlocksInv, NEW a \in DOMAIN live, FreeLarge(a)
  PROVE  BlocksInv'
<1>1. /\ Owned(mem, live) /\ Good(mem) /\ Known(mem, live)
      /\ (~failed => Settled(mem, live)) /\ (memErr => failed)
      /\ failed \in BOOLEAN /\ memErr \in BOOLEAN /\ wild \in BOOLEAN
      /\ staleBins \subseteq Row /\ resizes \in 0 .. MaxResizes
  BY InvParts DEF FreeLarge
<1>2. a[1] \in DOMAIN mem.large
  BY MemIs DEF FreeLarge
<1>3. PICK n : n = LargeLess(mem, a[1])
  OBVIOUS
<1>4. PICK lw : lw = Without(live, {a})
  OBVIOUS
<1>5. mem' = n /\ live' = lw /\ UNCHANGED <<resizes, failed, memErr, staleBins, wild>>
  BY <1>3, <1>4, MemIs DEF FreeLarge, mem, Mem, LargeLess
<1>6. /\ SameChunks(mem, n) /\ DOMAIN n.large = DOMAIN mem.large \ {a[1]}
      /\ \A x \in DOMAIN n.large : n.large[x] = mem.large[x]
  BY <1>1, <1>2, <1>3, LargeGone
<1>7. IsDropped(live, lw, a)
  BY <1>4, WithoutIs
<1>8. Owned(n, lw) /\ Known(n, lw)
  BY <1>1, <1>2, <1>6, <1>7, OwnedLargeFreed
<1>9. Settled(mem, live) => Settled(n, lw)
  BY <1>6, <1>8 DEF Settled, SameChunks
<1>10. memErr' = memErr /\ failed' = failed /\ wild' = wild /\ staleBins' = staleBins
       /\ resizes' = resizes
  BY <1>5
<1> QED
  BY <1>1, <1>5, <1>8, <1>9, <1>10, BlocksStep

LEMMA FreeLostBlocks ==
  ASSUME BlocksInv, NEW a \in DOMAIN live, FreeLost(a)
  PROVE  BlocksInv'
<1>1. /\ Owned(mem, live) /\ Good(mem)
      /\ (~failed => Settled(mem, live)) /\ (memErr => failed)
      /\ failed \in BOOLEAN /\ memErr \in BOOLEAN /\ wild \in BOOLEAN
      /\ staleBins \subseteq Row /\ resizes \in 0 .. MaxResizes
  BY InvParts
<1>2. a \notin DOMAIN mem.chunk /\ a[1] \notin DOMAIN mem.large
  BY MemIs DEF FreeLost
<1>3. failed
  BY <1>1, <1>2 DEF Settled, Known
<1>4. PICK s : s = IF a[1] \in heaps THEN heap_size ELSE heap_size - ChunkFor(live[a])
  OBVIOUS
<1>5. PICK lw : lw = Without(live, {a})
  OBVIOUS
<1>6. PICK n : n = Mem(mem.chunk, mem.bins, mem.heaps, mem.large, s)
  OBVIOUS
<1>7. mem' = n /\ live' = lw /\ UNCHANGED <<resizes, failed, staleBins, wild>>
      /\ memErr' \in BOOLEAN
  <2>1. heap_size' = s
    BY <1>4 DEF FreeLost
  <2>2. memErr' \in BOOLEAN
    BY <1>1 DEF FreeLost
  <2> QED
    BY <1>5, <1>6, <2>1, <2>2, MemIs DEF FreeLost, mem, Mem
<1>8. s \in Int
  <2>1. heap_size \in Int
    BY <1>1, MemIs DEF Good, Held
  <2>2. live[a] \in Nat
    BY <1>1, OwnedParts
  <2>3. ChunkFor(live[a]) \in Int
    BY <2>2 DEF ChunkFor, MINSIZE, Align
  <2> QED
    BY <1>4, <2>1, <2>3
<1>9. IsDropped(live, lw, a)
  BY <1>5, WithoutIs
<1>10. Owned(n, lw)
  BY <1>1, <1>2, <1>6, <1>8, <1>9, OwnedLost
<1>11. failed' /\ failed' \in BOOLEAN /\ wild' \in BOOLEAN /\ staleBins' \subseteq Row
       /\ resizes' \in 0 .. MaxResizes
  BY <1>1, <1>3, <1>7
<1> QED
  BY <1>7, <1>10, <1>11, BlocksStep

LEMMA ReallocLargeBlocks ==
  ASSUME BlocksInv, NEW a \in DOMAIN live, NEW si \in ReSizes, ReallocLarge(a, si)
  PROVE  BlocksInv'
<1>1. /\ Owned(mem, live) /\ Good(mem) /\ Known(mem, live)
      /\ (~failed => Settled(mem, live)) /\ (memErr => failed)
      /\ failed \in BOOLEAN /\ memErr \in BOOLEAN /\ wild \in BOOLEAN
      /\ staleBins \subseteq Row /\ resizes \in 0 .. MaxResizes
  BY InvParts DEF ReallocLarge
<1>2. a[1] \in DOMAIN mem.large
  BY MemIs DEF ReallocLarge
<1>3. si \in Nat /\ ChunkFor(si) \in Nat /\ HeadSize + si <= ChunkFor(si)
  BY AskedIs
<1>4. resizes' \in 0 .. MaxResizes
  BY <1>1, BoundsAssumption DEF ReallocLarge
<1>5. UNCHANGED <<chunk, bins, heaps, memErr, staleBins, wild>>
  BY DEF ReallocLarge
<1>6. CASE /\ large' = [large EXCEPT ![a[1]] = ChunkFor(si)]
           /\ heap_size' = heap_size - large[a[1]] + ChunkFor(si)
           /\ live' = [live EXCEPT ![a] = si]
           /\ UNCHANGED failed
  <2>1. PICK siz \in Nat : siz = ChunkFor(si)
    BY <1>3
  <2>2. PICK n : n = Mem(mem.chunk, mem.bins, mem.heaps, [mem.large EXCEPT ![a[1]] = siz],
                         mem.heap_size - mem.large[a[1]] + siz)
    OBVIOUS
  <2>3. PICK lw : lw = [live EXCEPT ![a] = si]
    OBVIOUS
  <2>4. mem' = n /\ live' = lw
    BY <1>5, <1>6, <2>1, <2>2, <2>3, MemIs DEF mem, Mem
  <2>5. /\ SameChunks(mem, n) /\ DOMAIN n.large = DOMAIN mem.large
        /\ n.large[a[1]] = siz /\ \A x \in DOMAIN n.large : x # a[1] => n.large[x] = mem.large[x]
    BY <1>1, <1>2, <2>2, LargeResized, SMTT(40)
  <2>6. Owned(n, lw) /\ Known(n, lw)
    BY <1>1, <1>2, <1>3, <2>1, <2>3, <2>5, OwnedLargeResized, ZenonT(60)
  <2>7. Settled(mem, live) => Settled(n, lw)
    BY <2>5, <2>6 DEF Settled, SameChunks
  <2>8. memErr' = memErr /\ failed' = failed /\ wild' = wild /\ staleBins' = staleBins
    BY <1>5, <1>6
  <2> QED
    BY <1>1, <1>4, <2>4, <2>6, <2>7, <2>8, BlocksStep
<1>7. CASE /\ large' = Without(large, {a[1]})
           /\ heap_size' = heap_size - large[a[1]]
           /\ failed' = TRUE /\ UNCHANGED live
  <2>1. PICK n : n = LargeLess(mem, a[1])
    OBVIOUS
  <2>2. PICK lw : lw = live
    OBVIOUS
  <2>3. mem' = n /\ live' = lw
    BY <1>5, <1>7, <2>1, <2>2, MemIs DEF mem, Mem, LargeLess
  <2>4. /\ SameChunks(mem, n) /\ DOMAIN n.large = DOMAIN mem.large \ {a[1]}
        /\ \A x \in DOMAIN n.large : n.large[x] = mem.large[x]
    BY <1>1, <1>2, <2>1, LargeGone
  <2>5. Owned(n, lw)
    BY <1>1, <1>2, <2>2, <2>4, OwnedLargeFreed
  <2>6. failed' /\ failed' \in BOOLEAN /\ memErr' \in BOOLEAN /\ wild' \in BOOLEAN
        /\ staleBins' \subseteq Row
    BY <1>1, <1>5, <1>7
  <2> QED
    BY <1>4, <2>3, <2>5, <2>6, BlocksStep
<1> QED
  BY <1>6, <1>7 DEF ReallocLarge

(* The context a caller empties. *)
LEMMA EmptyBlocks ==
  ASSUME BlocksInv, chunk' = <<>>, bins' = EmptyBins, heaps' = {}, large' = <<>>,
         heap_size' = 0, live' = <<>>, failed' \in BOOLEAN, memErr' \in BOOLEAN,
         wild' \in BOOLEAN, staleBins' \subseteq Row, resizes' \in 0 .. MaxResizes,
         memErr' => failed'
  PROVE  BlocksInv'
<1>1. PICK n : n = EmptyMem
  OBVIOUS
<1>2. PICK lw : lw = <<>>
  OBVIOUS
<1>3. mem' = n /\ live' = lw
  BY <1>1, <1>2 DEF mem, Mem, EmptyMem
<1>4. Owned(n, lw) /\ Settled(n, lw)
  BY <1>1, <1>2, EmptyOwned
<1> QED
  BY <1>3, <1>4, BlocksStep

LEMMA ForgetBlocks ==
  ASSUME BlocksInv, Reset \/ Clear \/ \E si \in Sizes : AllocFromFreed(si)
  PROVE  BlocksInv'
<1>1. /\ failed \in BOOLEAN /\ memErr \in BOOLEAN /\ wild \in BOOLEAN
      /\ staleBins \subseteq Row /\ resizes \in 0 .. MaxResizes /\ (memErr => failed)
  BY InvParts
<1>2. DOMAIN bins = Row
  BY InvParts, MemIs DEF Good, GoodBins
<1>3. CASE Reset
  BY <1>1, <1>3, EmptyBlocks DEF Reset, ForgetEverything
<1>4. CASE Clear
  BY <1>1, <1>2, <1>4, EmptyBlocks DEF Clear, ForgetEverything
<1>5. CASE \E si \in Sizes : AllocFromFreed(si)
  BY <1>1, <1>5, EmptyBlocks DEF AllocFromFreed
<1> QED
  BY <1>3, <1>4, <1>5

LEMMA DropAndTake ==
  ASSUME NEW lv, NEW a, NEW b, NEW si
  PROVE  IsTaken(lv, With(Without(lv, {a}), b, si), {a}, b, si)
<1> DEFINE k == Without(lv, {a})
           lw == With(k, b, si)
<1>1. DOMAIN k = DOMAIN lv \ {a} /\ \A x \in DOMAIN k : k[x] = lv[x]
  BY DEF Without, Restrict
<1> HIDE DEF k
<1>2. /\ DOMAIN lw = DOMAIN k \cup {b} /\ lw = [x \in DOMAIN lw |-> lw[x]]
      /\ lw[b] = si /\ \A x \in DOMAIN k : x # b => lw[x] = k[x]
  BY DEF With
<1> HIDE DEF lw
<1>3. IsTaken(lv, lw, {a}, b, si)
  BY <1>1, <1>2 DEF IsTaken
<1> QED
  BY <1>3 DEF lw, k

(* So is a block that was given another size. *)
AsResized(lv, a, r, si) == IF r[2] = NULL THEN lv ELSE With(Without(lv, {a}), r[2], si)

LEMMA ReallocOwned ==
  ASSUME NEW m, NEW lv, Owned(m, lv), Known(m, lv), NEW a \in UsedOf(m), NEW si \in Nat,
         HeadSize + si <= ChunkFor(si), ChunkFor(si) \in Nat,
         NEW r, Reallocated(m, r, a, si), HeapsOf(r[1]) \subseteq 1 .. MaxHeaps,
         NEW lw, lw = AsResized(lv, a, r, si)
  PROVE  Owned(r[1], lw) /\ (r[2] # NULL /\ Settled(m, lv) => Settled(r[1], lw))
<1> DEFINE n == r[1]
           b == r[2]
           siz == ChunkFor(si)
           S == {a}
<1>1. S \subseteq DOMAIN m.chunk /\ lw = IF b = NULL THEN lv ELSE With(Without(lv, S), b, si)
  BY DEF UsedOf, AsResized
<1>2. CASE b = NULL
  <2>1. NotMoved(m, n, a) /\ lw = lv
    BY <1>1, <1>2 DEF Reallocated
  <2> HIDE DEF n
  <2>2. Owned(n, lv)
    BY <2>1, OwnedStill
  <2> QED
    BY <1>2, <2>1, <2>2 DEF n
<1>3. CASE b # NULL /\ Moved(m, n, a, b, si)
  <2>1. IsTaken(lv, lw, S, b, si)
    BY <1>1, <1>3, DropAndTake
  <2>2. /\ Good(n) /\ Owed(n) = Owed(m) /\ n.large = m.large
        /\ b \in DOMAIN n.chunk /\ siz <= n.chunk[b].size
        /\ UsedOf(n) = (UsedOf(m) \ S) \cup {b} /\ Kept(m, n, (UsedOf(m) \ S) \ {b})
        /\ Loose(n) \subseteq (Loose(m) \ S) \cup {b}
    BY <1>3 DEF Moved
  <2>3. HeapsOf(n) \subseteq 1 .. MaxHeaps
    OBVIOUS
  <2> HIDE DEF n, b, S
  <2>4. HeadSize + si <= n.chunk[b].size
    <3>1. n.chunk[b].size \in Nat /\ siz \in Nat
      BY <2>2, GoodPlace
    <3>2. HeadSize + si <= siz /\ HeadSize + si \in Nat
      BY DEF HeadSize
    <3> HIDE DEF siz
    <3> QED
      BY <2>2, <3>1, <3>2
  <2> HIDE DEF siz
  <2>5. Owned(n, lw) /\ Known(n, lw)
    BY <1>1, <2>1, <2>2, <2>3, <2>4, OwnedChunk
  <2>6. Settled(m, lv) => Settled(n, lw)
    BY <2>2, <2>5 DEF Settled
  <2> QED
    BY <2>5, <2>6 DEF n, b
<1>4. CASE b # NULL /\ b = <<b[1], 0>> /\ MovedOut(m, n, a, b[1], si)
  <2> DEFINE h == b[1]
  <2>1. IsTaken(lv, lw, S, <<h, 0>>, si)
    <3>1. <<h, 0>> = b
      BY <1>4
    <3>2. lw = With(Without(lv, S), b, si)
      BY <1>1, <1>4
    <3> HIDE DEF h, b
    <3> QED
      BY <3>1, <3>2, DropAndTake
  <2>2. /\ Good(n) /\ Owed(n) = Owed(m) /\ n.heaps = m.heaps
        /\ UsedOf(n) = UsedOf(m) \ S
        /\ Kept(m, n, UsedOf(m) \ S) /\ Loose(n) \subseteq Loose(m) \ S
        /\ h \notin HeapsOf(m) /\ DOMAIN n.large = DOMAIN m.large \cup {h}
        /\ n.large[h] = siz /\ \A g \in DOMAIN m.large : n.large[g] = m.large[g]
    BY <1>4 DEF MovedOut
  <2>3. HeapsOf(n) \subseteq 1 .. MaxHeaps
    OBVIOUS
  <2> HIDE DEF n, h, S
  <2>4. HeadSize + si <= n.large[h]
    BY <2>2
  <2> HIDE DEF siz
  <2>5. Owned(n, lw) /\ Known(n, lw)
    BY <1>1, <2>1, <2>2, <2>3, <2>4, OwnedLent
  <2>6. Settled(m, lv) => Settled(n, lw)
    BY <2>2, <2>5 DEF Settled
  <2> QED
    BY <2>5, <2>6 DEF n
<1> QED
  BY <1>2, <1>3, <1>4 DEF Reallocated

LEMMA ReallocBlocks ==
  ASSUME BlocksInv, NEW a \in DOMAIN live, NEW si \in ReSizes, Realloc(a, si)
  PROVE  BlocksInv'
<1>1. /\ Owned(mem, live) /\ Good(mem) /\ Placed(mem) /\ Known(mem, live)
      /\ (~failed => Settled(mem, live)) /\ (memErr => failed)
      /\ failed \in BOOLEAN /\ memErr \in BOOLEAN /\ wild \in BOOLEAN
      /\ staleBins \subseteq Row /\ resizes \in 0 .. MaxResizes
  BY InvParts DEF Realloc
<1>2. si \in Nat \ 0 .. 7 /\ si \in Nat /\ ChunkFor(si) \in Nat /\ HeadSize + si <= ChunkFor(si)
  BY AskedIs
<1>3. PICK ok \in ParentHas("realloc") :
        LET r == ReallocChunk(mem, a, si, ok) IN
          /\ HeapsOf(r[1]) \subseteq 1 .. MaxHeaps
          /\ Become(r[1])
          /\ live' = IF r[2] = NULL THEN live ELSE With(Without(live, {a}), r[2], si)
          /\ failed' = (failed \/ r[2] = NULL)
  BY DEF Realloc
<1>4. PICK r : r = ReallocChunk(mem, a, si, ok)
  OBVIOUS
<1>5. PICK lw : lw = AsResized(live, a, r, si)
  OBVIOUS
<1>6. /\ HeapsOf(r[1]) \subseteq 1 .. MaxHeaps /\ Become(r[1]) /\ live' = lw
      /\ failed' = (failed \/ r[2] = NULL)
      /\ memErr' = memErr /\ staleBins' = staleBins /\ wild' = wild
  BY <1>3, <1>4, <1>5 DEF Realloc, AsResized
<1>7. a \in UsedOf(mem)
  <2>1. a \in DOMAIN mem.chunk
    BY MemIs DEF Realloc
  <2> QED
    BY <1>1, <2>1, OwnedParts
<1>8. Reallocated(mem, r, a, si)
  <2>1. ok \in BOOLEAN
    BY AskedIs
  <2> QED
    BY <1>1, <1>2, <1>4, <1>7, <2>1, ReallocAnswered
<1>9. Owned(r[1], lw) /\ (r[2] # NULL /\ Settled(mem, live) => Settled(r[1], lw))
  BY <1>1, <1>2, <1>5, <1>6, <1>7, <1>8, ReallocOwned
<1> DEFINE n == r[1]
           null == r[2] = NULL
<1>10. mem' = n
  BY <1>6, <1>9, BecomeIs DEF Owned, Good
<1>11. resizes' \in 0 .. MaxResizes
  BY <1>1, BoundsAssumption DEF Realloc
<1>12. null \in BOOLEAN
  OBVIOUS
<1> HIDE DEF n, null
<1>13. /\ Owned(n, lw) /\ (~failed' => Settled(n, lw)) /\ failed' \in BOOLEAN
       /\ memErr' \in BOOLEAN /\ wild' \in BOOLEAN /\ staleBins' \subseteq Row
       /\ (memErr' => failed')
  <2>1. failed' = (failed \/ null)
    BY <1>6 DEF null
  <2>2. Owned(n, lw) /\ (~null /\ Settled(mem, live) => Settled(n, lw))
    BY <1>9 DEF n, null
  <2> QED
    BY <1>1, <1>6, <1>12, <2>1, <2>2
<1> QED
  BY <1>6, <1>10, <1>11, <1>13, BlocksStep

(* In every behaviour the blocks in use are the context's own, each with   *)
(* room enough; until a realloc fails every block and every free chunk is  *)
(* known and heap_size is what is held.                                    *)
THEOREM BlocksKept == Spec => []BlocksInv
<1>1. Init => BlocksInv
  <2> SUFFICES ASSUME Init PROVE BlocksInv
    OBVIOUS
  <2>1. mem = EmptyMem /\ live = <<>>
    BY DEF Init, mem, EmptyMem, Mem
  <2>2. Owned(mem, live) /\ Settled(mem, live)
    BY <2>1, EmptyOwned
  <2>3. resizes \in 0 .. MaxResizes
    BY BoundsAssumption DEF Init
  <2> QED
    BY <2>2, <2>3 DEF Init, BlocksInv
<1>2. BlocksInv /\ [Next]_vars => BlocksInv'
  <2> SUFFICES ASSUME BlocksInv, [Next]_vars PROVE BlocksInv'
    OBVIOUS
  <2>1. CASE UNCHANGED vars
    <3>1. mem' = mem /\ live' = live
      BY <2>1 DEF vars, mem
    <3>2. Owned(mem', live') /\ (~failed' => Settled(mem', live'))
      BY <2>1, <3>1 DEF vars, BlocksInv
    <3> QED
      BY <2>1, <3>2 DEF vars, BlocksInv
  <2>2. CASE \E si \in Sizes : Alloc(si)
    BY <2>2, AllocBlocks
  <2>3. CASE \E a \in DOMAIN live : Free(a)
    BY <2>3, FreeBlocks
  <2>4. CASE \E a \in DOMAIN live : FreeLarge(a)
    BY <2>4, FreeLargeBlocks
  <2>5. CASE \E a \in DOMAIN live : FreeLost(a)
    BY <2>5, FreeLostBlocks
  <2>6. CASE \E a \in DOMAIN live, si \in ReSizes : Realloc(a, si)
    BY <2>6, ReallocBlocks
  <2>7. CASE \E a \in DOMAIN live, si \in ReSizes : ReallocLarge(a, si)
    BY <2>7, ReallocLargeBlocks
  <2>8. CASE Reset \/ Clear \/ \E si \in Sizes : AllocFromFreed(si)
    BY <2>8, ForgetBlocks
  <2> QED
    BY <2>1, <2>2, <2>3, <2>4, <2>5, <2>6, <2>7, <2>8 DEF Next
<1> QED
  BY <1>1, <1>2, PTL DEF Spec

-----------------------------------------------------------------------------
(* What the inductive invariant says of the runs' properties. *)

LEMMA TypesHold == ASSUME BlocksInv PROVE TypeOK
<1>1. /\ Owned(mem, live) /\ Good(mem) /\ HeapsOf(mem) \subseteq 1 .. MaxHeaps /\ Typed(live)
      /\ failed \in BOOLEAN /\ memErr \in BOOLEAN /\ wild \in BOOLEAN
      /\ staleBins \subseteq Row /\ resizes \in 0 .. MaxResizes
      /\ (~failed => Settled(mem, live))
  BY DEF BlocksInv, Owned
<1>2. Headers(chunk, heaps) /\ Held(mem) /\ Filed(mem)
  BY <1>1, MemIs DEF Good, Tiled
<1>3. heaps \subseteq 1 .. MaxHeaps /\ DOMAIN large \subseteq 1 .. MaxHeaps
  BY <1>1, MemIs DEF HeapsOf
<1>4. /\ chunk \in [DOMAIN chunk -> [size : 1 .. Step, used : BOOLEAN, next : BOOLEAN,
                                     prev : BOOLEAN, prev_size : 0 .. Step]]
      /\ DOMAIN chunk \subseteq heaps \X (0 .. Step - 1)
  BY <1>2 DEF Headers, Header
<1>5. \A b \in 0 .. MaxBin : ToSet(bins[b]) \subseteq (1 .. MaxHeaps) \X (0 .. Step - 1)
  BY <1>2, <1>3, <1>4, MemIs DEF Filed, Row
<1>6. heap_size \in (IF failed THEN Int ELSE Nat)
  <2>1. heap_size \in Int
    BY <1>2, MemIs DEF Held
  <2>2. ASSUME ~failed PROVE heap_size \in Nat
    <3>1. Owed(mem) = 0
      BY <1>1, <2>2 DEF Settled
    <3>2. /\ IsFiniteSet(heaps) /\ Summable(large, DOMAIN large)
          /\ \A h \in DOMAIN large : large[h] \in Nat
      BY <1>2, MemIs DEF Held
    <3>3. Cardinality(heaps) \in Nat /\ SumOf(large, DOMAIN large) \in Nat
      BY <3>2, FS_CardinalityType, SumFacts
    <3>4. heap_size - (Step * Cardinality(heaps) + SumOf(large, DOMAIN large)) = 0
      BY <3>1, MemIs DEF Owed
    <3> QED
      BY <2>1, <3>3, <3>4, StepIs
  <2> QED
    BY <2>1, <2>2
<1>7. DOMAIN live \subseteq (1 .. MaxHeaps) \X (0 .. Step - 1) /\ staleBins \subseteq 0 .. MaxBin
  BY <1>1 DEF Typed, Blocks, Row
<1> QED
  BY <1>1, <1>3, <1>4, <1>5, <1>6, <1>7 DEF TypeOK

LEMMA TiledHolds == ASSUME BlocksInv PROVE Tiling
<1>1. Good(mem)
  BY DEF BlocksInv, Owned
<1>2. Headers(chunk, heaps) /\ Linked(chunk) /\ Disjoint(chunk)
  BY <1>1, MemIs DEF Good, Tiled
<1>3. \A a : After(mem, a) = Follow(chunk, a)
  BY MemIs DEF After, SizeOf, Follow
<1>4. ASSUME NEW a \in DOMAIN chunk
      PROVE  /\ chunk[a].size >= MINSIZE
             /\ chunk[a].prev <=> a[2] > 0
             /\ IF chunk[a].next
                THEN /\ After(mem, a) \in DOMAIN chunk
                     /\ chunk[After(mem, a)].prev_size = chunk[a].size
                ELSE a[2] + chunk[a].size = Step
             /\ \A b \in DOMAIN chunk : a[1] = b[1] /\ a[2] < b[2] => a[2] + chunk[a].size <= b[2]
  BY <1>2, <1>3 DEF Linked, Sized, NextAgrees, Disjoint
<1>5. \A h \in heaps : <<h, 0>> \in DOMAIN chunk
  BY <1>2 DEF Headers
<1> QED
  BY <1>4, <1>5 DEF Tiling

(* The heaps are sound after any sequence of calls, failed ones included:  *)
(* chunks tile them, no tag leads out of a heap or into a chunk, and the   *)
(* check SAFE_FREE makes never fires (kci_bin_mem.cpp).                    *)
THEOREM HeapsAlwaysSound == Spec => []HeapsSound
<1>1. BlocksInv => HeapsSound
  <2> SUFFICES ASSUME BlocksInv PROVE HeapsSound
    OBVIOUS
  <2>1. SafeFree
    BY DEF BlocksInv, SafeFree
  <2> QED
    BY <2>1, TypesHold, TiledHolds DEF HeapsSound
<1> QED
  BY <1>1, BlocksKept, PTL

LEMMA FiledHolds == ASSUME BlocksInv PROVE FiledOnce
<1> SUFFICES ASSUME ~failed PROVE FiledOnce
  BY DEF FiledOnce
<1>1. GoodBins(bins) /\ Filed(mem) /\ Loose(mem) \subseteq UsedOf(mem)
  BY MemIs DEF BlocksInv, Owned, Good, Settled
<1>2. /\ DOMAIN bins = Row /\ \A b \in Row : bins[b] \in Seq(Places)
      /\ \A b \in Row : Distinct(bins[b])
      /\ \A b, e \in Row : b # e => ToSet(bins[b]) \cap ToSet(bins[e]) = {}
  BY <1>1 DEF GoodBins
<1>3. \A b \in Row : \A a \in ToSet(bins[b]) :
        a \in DOMAIN chunk /\ ~chunk[a].used /\ b \in {0, bin_index(chunk[a].size)}
  BY <1>1, MemIs DEF Filed
<1>4. \A a \in DOMAIN chunk : ~chunk[a].used => OnList(bins, a)
  BY <1>1, MemIs DEF Loose, UsedOf
<1>5. \A b \in DOMAIN bins : ToSet(bins[b]) \subseteq DOMAIN chunk
  BY <1>2, <1>3
<1> DEFINE filed == UNION {{b} \X DOMAIN bins[b] : b \in DOMAIN bins}
<1>6. ASSUME NEW w \in filed
      PROVE  /\ w[1] \in Row /\ w[2] \in 1 .. Len(bins[w[1]]) /\ w = <<w[1], w[2]>>
             /\ bins[w[1]][w[2]] \in ToSet(bins[w[1]])
  <2>1. PICK b \in DOMAIN bins : w \in {b} \X DOMAIN bins[b]
    OBVIOUS
  <2>2. w[1] = b /\ w[2] \in DOMAIN bins[b] /\ w = <<w[1], w[2]>>
    BY <2>1
  <2>3. b \in Row /\ bins[b] \in Seq(Places)
    BY <1>2
  <2> QED
    BY <2>2, <2>3, ToSetIs
<1>7. ASSUME NEW b \in Row, NEW i \in 1 .. Len(bins[b]) PROVE <<b, i>> \in filed
  <2>1. i \in DOMAIN bins[b]
    BY <1>2, ToSetIs
  <2> QED
    BY <1>2, <2>1
<1> HIDE DEF filed
<1>8. ASSUME NEW a \in DOMAIN chunk
      PROVE  LET where == {w \in filed : bins[w[1]][w[2]] = a}
             IN IF chunk[a].used THEN where = {}
                ELSE /\ Cardinality(where) = 1
                     /\ \A w \in where : w[1] \in {0, bin_index(chunk[a].size)}
  <2> DEFINE where == {w \in filed : bins[w[1]][w[2]] = a}
  <2>1. \A w \in where : /\ w \in filed /\ w[1] \in Row /\ w[2] \in 1 .. Len(bins[w[1]])
                         /\ w = <<w[1], w[2]>> /\ bins[w[1]][w[2]] = a /\ a \in ToSet(bins[w[1]])
    BY <1>6
  <2>2. CASE chunk[a].used
    <3>1. where = {}
      BY <1>3, <2>1, <2>2
    <3> QED
      BY <2>2, <3>1
  <2>3. CASE ~chunk[a].used
    <3>1. PICK b \in Row : a \in ToSet(bins[b])
      BY <1>4, <2>3 DEF OnList
    <3>2. PICK i \in 1 .. Len(bins[b]) : bins[b][i] = a
      BY <1>2, <3>1, ToSetIs
    <3>3. <<b, i>> \in where
      <4>1. <<b, i>>[1] = b /\ <<b, i>>[2] = i
        OBVIOUS
      <4> QED
        BY <1>7, <3>2, <4>1
    <3> HIDE DEF where
    <3>4. ASSUME NEW w \in where PROVE w = <<b, i>>
      <4>1. w[1] = b
        BY <1>2, <2>1, <3>1
      <4>2. w[2] = i
        BY <1>2, <2>1, <3>2, <4>1 DEF Distinct
      <4> QED
        BY <2>1, <4>1, <4>2
    <3>5. where = {<<b, i>>}
      BY <3>3, <3>4
    <3>6. Cardinality(where) = 1
      BY <3>5, FS_Singleton
    <3>7. \A w \in where : w[1] \in {0, bin_index(chunk[a].size)}
      BY <1>3, <2>1
    <3> QED
      BY <2>3, <3>6, <3>7 DEF where
  <2> QED
    BY <2>2, <2>3
<1> QED
  BY <1>5, <1>8 DEF FiledOnce, filed

LEMMA HeldHolds == ASSUME BlocksInv PROVE HeapAccounting
<1> SUFFICES ASSUME ~failed PROVE HeapAccounting
  BY DEF HeapAccounting
<1>1. Owed(mem) = 0 /\ Held(mem)
  BY DEF BlocksInv, Owned, Good, Settled
<1>2. heap_size \in Int /\ Cardinality(heaps) \in Int /\ SumOf(large, DOMAIN large) \in Int
  <2>1. heap_size \in Int /\ IsFiniteSet(heaps) /\ Summable(large, DOMAIN large)
    BY <1>1, MemIs DEF Held
  <2> QED
    BY <2>1, FS_CardinalityType, SumFacts
<1>3. heap_size - (Step * Cardinality(heaps) + SumOf(large, DOMAIN large)) = 0
  BY <1>1, MemIs DEF Owed
<1>4. heap_size = Step * Cardinality(heaps) + SumOf(large, DOMAIN large)
  BY <1>2, <1>3, StepIs
<1> QED
  BY <1>4 DEF HeapAccounting, SumOf

(* Until a realloc fails nothing is counted twice or forgotten: every free *)
(* chunk is in one list, once, and heap_size is the sum of the heaps and   *)
(* the large blocks the context has from its parent.                       *)
THEOREM AlwaysAccounted == Spec => []Accounted
<1>1. BlocksInv => Accounted
  BY FiledHolds, HeldHolds DEF Accounted
<1> QED
  BY <1>1, BlocksKept, PTL

(* Until a realloc fails the blocks in use are exactly the used chunks and *)
(* the large blocks, and each holds its header and the bytes asked for: no *)
(* alloc, free or realloc takes away or shrinks the block of another.      *)
THEOREM BlocksAlwaysFit == Spec => []LiveBlocksFit
<1>1. BlocksInv => LiveBlocksFit
  <2> SUFFICES ASSUME BlocksInv, ~failed PROVE LiveBlocksFit
    BY DEF LiveBlocksFit
  <2>1. Owned(mem, live) /\ Known(mem, live)
    BY DEF BlocksInv, Settled
  <2>2. \A a \in DOMAIN live : a[1] \in DOMAIN large \/ a \in DOMAIN chunk
    BY <2>1, MemIs DEF Known
  <2>3. /\ \A a \in DOMAIN live :
             /\ a[1] \in DOMAIN large => HeadSize + live[a] <= large[a[1]]
             /\ a \in DOMAIN chunk => chunk[a].used /\ HeadSize + live[a] <= chunk[a].size
        /\ \A h \in DOMAIN large : <<h, 0>> \in DOMAIN live
        /\ \A a \in DOMAIN chunk : chunk[a].used => a \in DOMAIN live
        /\ \A a \in DOMAIN chunk : a[1] \notin DOMAIN large
    BY <2>1, OwnedParts, MemIs DEF UsedOf
  <2>4. {a \in DOMAIN live : a[1] \notin DOMAIN large} = {a \in DOMAIN chunk : chunk[a].used}
    BY <2>2, <2>3
  <2>5. {a[1] : a \in DOMAIN live} \intersect DOMAIN large = DOMAIN large
    <3>1. \A h \in DOMAIN large : <<h, 0>> \in DOMAIN live /\ <<h, 0>>[1] = h
      BY <2>3
    <3> QED
      BY <3>1
  <2>6. \A a \in DOMAIN live :
          HeadSize + live[a] <= IF a[1] \in DOMAIN large THEN large[a[1]] ELSE chunk[a].size
    BY <2>2, <2>3
  <2> QED
    BY <2>4, <2>5, <2>6 DEF LiveBlocksFit
<1> QED
  BY <1>1, BlocksKept, PTL

-----------------------------------------------------------------------------
(* Without realloc memory is not broken up. *)

LEMMA SplitMerged ==
  ASSUME NEW H, NEW c, Tiled(c, H), Merged(c), NEW d, NEW a, NEW siz, IsSplit(c, d, a, siz),
         ~c[a].used
  PROVE  Merged(d)
<1> DEFINE r == Rest(a, siz)
<1>1. a \in DOMAIN c /\ DOMAIN d = DOMAIN c \cup {r}
  BY DEF IsSplit
<1>2. /\ r \notin DOMAIN c /\ r # a /\ r[1] = a[1] /\ r[2] = a[2] + siz
      /\ siz \in Int /\ d[a].used
      /\ \A x \in DOMAIN c : x # a => /\ d[x].size = c[x].size /\ d[x].next = c[x].next
                                      /\ d[x].used = c[x].used
      /\ d[r].size = c[a].size - siz /\ d[r].next = c[a].next
  BY SplitFacts
<1>3. a[2] \in Int /\ c[a].size \in Int
  BY <1>1, ChunkFacts
<1> HIDE DEF r
<1>4. ASSUME NEW x \in DOMAIN c, x # a, d[x].next
      PROVE  d[x].used \/ d[Follow(d, x)].used
  <2>1. c[x].next /\ Follow(d, x) = Follow(c, x) /\ d[x].used = c[x].used
    BY <1>2, <1>4 DEF Follow
  <2>2. Follow(c, x) \in DOMAIN c
    BY <2>1, ChunkFacts
  <2>3. c[x].used \/ c[Follow(c, x)].used
    BY <2>1 DEF Merged
  <2> QED
    BY <1>2, <2>1, <2>2, <2>3
<1>5. ASSUME d[r].next
      PROVE  d[Follow(d, r)].used
  <2>1. Follow(d, r) = Follow(c, a)
    BY <1>2, <1>3 DEF Follow
  <2>2. Follow(c, a) \in DOMAIN c /\ Follow(c, a) # a
    <3>1. c[a].next
      BY <1>2, <1>5
    <3> QED
      BY <1>1, <3>1, ChunkFacts
  <2>3. c[Follow(c, a)].used
    BY <1>1, <1>2, <1>5 DEF Merged
  <2> QED
    BY <1>2, <2>1, <2>2, <2>3
<1> QED
  BY <1>1, <1>2, <1>4, <1>5 DEF Merged

LEMMA UsedMerged ==
  ASSUME NEW H, NEW c, Tiled(c, H), Merged(c), NEW a \in DOMAIN c
  PROVE  Merged(Flagged(c, a, TRUE))
<1> DEFINE d == Flagged(c, a, TRUE)
<1>1. /\ DOMAIN d = DOMAIN c /\ d[a].used = TRUE
      /\ \A x \in DOMAIN c : /\ d[x].size = c[x].size /\ d[x].next = c[x].next
                             /\ x # a => d[x].used = c[x].used
  <2>1. PICK u \in BOOLEAN : u = TRUE
    OBVIOUS
  <2>2. d = Flagged(c, a, u)
    BY <2>1
  <2> HIDE DEF d
  <2>3. LET e == Flagged(c, a, u) IN
        /\ DOMAIN e = DOMAIN c /\ e[a].used = u
        /\ \A x \in DOMAIN c : /\ e[x].size = c[x].size /\ e[x].next = c[x].next
                               /\ x # a => e[x].used = c[x].used
    BY FlagFacts
  <2> QED
    BY <2>1, <2>2, <2>3
<1> HIDE DEF d
<1>2. ASSUME NEW x \in DOMAIN c, d[x].next
      PROVE  d[x].used \/ d[Follow(d, x)].used
  <2>1. c[x].next /\ Follow(d, x) = Follow(c, x)
    BY <1>1, <1>2 DEF Follow
  <2>2. Follow(c, x) \in DOMAIN c
    BY <2>1, ChunkFacts
  <2>3. c[x].used \/ c[Follow(c, x)].used
    BY <2>1 DEF Merged
  <2> QED
    BY <1>1, <2>1, <2>2, <2>3
<1>3. Merged(d)
  BY <1>1, <1>2 DEF Merged
<1> QED
  BY <1>3 DEF d

(* The chunks of n that are not chunks of m, and a, are less than a heap. *)
Cut(m, n, a) ==
  \A x \in DOMAIN n.chunk :
    \/ n.chunk[x].size < Step
    \/ /\ x \in DOMAIN m.chunk /\ x # a
       /\ n.chunk[x].size = m.chunk[x].size /\ n.chunk[x].used = m.chunk[x].used

LEMMA UseForMerged ==
  ASSUME NEW m, Good(m), Merged(m.chunk), NEW a \in Loose(m), ~m.chunk[a].used,
         NEW siz, IsRequest(siz), siz + MINSIZE < Step, siz <= m.chunk[a].size, NEW zero \in BOOLEAN
  PROVE  LET n == UseFor(m, a, siz, zero) IN
         /\ Merged(n.chunk) /\ n.heaps = m.heaps /\ Cut(m, n, a)
         /\ Len(n.bins[0]) <= IF zero THEN Len(m.bins[0]) + 1 ELSE Len(m.bins[0])
<1> DEFINE n == UseFor(m, a, siz, zero)
<1>1. siz \in Nat /\ siz % Align = 0 /\ MINSIZE <= siz
  BY DEF IsRequest
<1>2. /\ a \in DOMAIN m.chunk /\ m.chunk[a].size \in Nat /\ m.chunk[a].size <= Step
      /\ Step \in Nat /\ MINSIZE = 24 /\ Len(m.bins[0]) \in Nat
  <2>1. a \in DOMAIN m.chunk
    BY LooseIs
  <2>2. m.bins[0] \in Seq(Places)
    BY BinIs, StepIs DEF Good, GoodBins
  <2> QED
    BY <2>1, <2>2, GoodPlace, StepIs
<1>3. Tiled(m.chunk, m.heaps)
  BY DEF Good
<1>4. CASE m.chunk[a].size >= siz + MINSIZE
  <2>1. n = Split(m, a, siz, zero)
    BY <1>4 DEF UseFor, SizeOf
  <2>2. siz + MINSIZE <= m.chunk[a].size
    BY <1>1, <1>2, <1>4
  <2> HIDE DEF n
  <2>3. /\ SameHold(m, n) /\ IsSplit(m.chunk, n.chunk, a, siz)
        /\ Len(n.bins[0]) = IF zero THEN Len(m.bins[0]) + 1 ELSE Len(m.bins[0])
    <3> DEFINE k == Split(m, a, siz, zero)
    <3>1. /\ Good(m) /\ a \in Loose(m) /\ siz \in Nat /\ siz % Align = 0 /\ MINSIZE <= siz
          /\ siz + MINSIZE <= m.chunk[a].size /\ zero \in BOOLEAN
      BY <1>1, <2>2
    <3>2. Sliced(m, k, a, siz, zero)
      BY <1>1, <2>2, SplitGood
    <3> QED
      BY <2>1, <3>2 DEF Sliced
  <2>4. Merged(n.chunk)
    BY <1>3, <2>3, SplitMerged
  <2>5. Cut(m, n, a)
    <3> DEFINE r == Rest(a, siz)
               d == n.chunk
    <3>1. DOMAIN d = DOMAIN m.chunk \cup {r}
      BY <2>3 DEF IsSplit
    <3>2. /\ d[a].size = siz /\ d[r].size = m.chunk[a].size - siz
          /\ \A x \in DOMAIN m.chunk : x # a => /\ d[x].size = m.chunk[x].size
                                                /\ d[x].used = m.chunk[x].used
      BY <1>3, <2>3, SplitFacts
    <3>3. d[a].size < Step /\ d[r].size < Step
      BY <1>1, <1>2, <3>2
    <3> HIDE DEF r
    <3> QED
      BY <3>1, <3>2, <3>3 DEF Cut
  <2> QED
    BY <1>2, <2>3, <2>4, <2>5 DEF n, SameHold
<1>5. CASE ~(m.chunk[a].size >= siz + MINSIZE)
  <2>1. n = SetUse(m, a, TRUE)
    BY <1>5 DEF UseFor, SizeOf
  <2> HIDE DEF n
  <2>2. /\ n.chunk = Flagged(m.chunk, a, TRUE) /\ n.bins = m.bins /\ SameHold(m, n)
        /\ DOMAIN n.chunk = DOMAIN m.chunk /\ n.chunk[a].size = m.chunk[a].size
        /\ Kept(m, n, DOMAIN m.chunk \ {a})
    <3>1. Marked(m, n, a, TRUE)
      BY <2>1, UseGood
    <3> QED
      BY <3>1 DEF Marked
  <2>3. Merged(n.chunk)
    BY <1>2, <1>3, <2>2, UsedMerged
  <2>4. n.chunk[a].size < Step
    <3>1. n.chunk[a].size = m.chunk[a].size
      BY <2>2
    <3> HIDE DEF n
    <3> QED
      BY <1>1, <1>2, <1>5, <3>1
  <2>5. Cut(m, n, a)
    BY <2>2, <2>4 DEF Cut, Kept
  <2>6. n.heaps = m.heaps /\ n.bins[0] = m.bins[0]
    BY <2>2 DEF SameHold
  <2> DEFINE t == Len(m.bins[0])
  <2>7. t \in Nat
    BY <1>2
  <2>8. Len(n.bins[0]) = t
    BY <2>6
  <2> HIDE DEF t
  <2>9. Len(n.bins[0]) <= IF zero THEN t + 1 ELSE t
    BY <2>7, <2>8
  <2> QED
    BY <2>3, <2>5, <2>6, <2>9 DEF n, t
<1> QED
  BY <1>4, <1>5

(* The rest of Tidy: used chunks are less than a heap, and a heap that is  *)
(* one free chunk is the only one.                                         *)
Spare(m) ==
  /\ \A x \in UsedOf(m) : m.chunk[x].size < Step
  /\ \A a, b \in m.heaps : a # b => \A x \in DOMAIN m.chunk : m.chunk[x].size < Step

LEMMA TidyIs ==
  ASSUME NEW m
  PROVE  Tidy(m) <=> Merged(m.chunk) /\ Spare(m) /\ Len(m.bins[0]) <= 1
BY DEF Tidy, Spare

LEMMA CutSpare ==
  ASSUME NEW m, NEW n, NEW a, Spare(m), Cut(m, n, a), n.heaps = m.heaps
  PROVE  Spare(n)
BY DEF Spare, Cut, UsedOf

(* Neither chunks nor heaps change. *)
LEMMA SameTidy ==
  ASSUME NEW m, Tidy(m), NEW n, n.chunk = m.chunk, n.heaps = m.heaps, Len(n.bins[0]) <= 1
  PROVE  Tidy(n)
BY DEF Tidy, UsedOf

(* The first list after a chunk is taken off. *)
LEMMA Bin0Less ==
  ASSUME NEW m, Good(m), Len(m.bins[0]) <= 1, NEW a \in DOMAIN m.chunk
  PROVE  LET n == remove_from_bin(m, a) IN
         /\ Len(m.bins[0]) \in Nat /\ Len(n.bins[0]) \in Nat /\ Len(n.bins[0]) <= 1
         /\ a \in ToSet(m.bins[0]) => Len(n.bins[0]) = 0 /\ ToSet(m.bins[0]) = {a}
         /\ Len(m.bins[0]) = 0 => Len(n.bins[0]) = 0
<1> DEFINE n == remove_from_bin(m, a)
           q == m.bins[0]
           k == n.bins[0]
<1>1. 0 \in Row
  BY BinIs, StepIs
<1>2. Good(n) /\ Len(k) = IF a \in ToSet(q) THEN Len(q) - 1 ELSE Len(q)
  BY <1>1, RemoveGood
<1> HIDE DEF n
<1>3. q \in Seq(Places) /\ k \in Seq(Places)
  BY <1>1, <1>2 DEF Good, GoodBins
<1> HIDE DEF k, q
<1>4. /\ Len(q) \in Nat /\ Len(k) \in Nat
      /\ \A x : x \in ToSet(q) <=> \E i \in 1 .. Len(q) : q[i] = x
  BY <1>3, ToSetIs
<1>5. Len(q) <= 1
  BY DEF q
<1>6. ASSUME a \in ToSet(q)
      PROVE  Len(k) = 0 /\ ToSet(q) = {a}
  <2>1. PICK i \in 1 .. Len(q) : q[i] = a
    BY <1>4, <1>6
  <2> DEFINE l == Len(q)
  <2>2. l \in Nat /\ l <= 1 /\ i \in 1 .. l
    BY <1>4, <1>5
  <2> HIDE DEF l
  <2>3. l = 1 /\ i = 1
    BY <2>2
  <2>4. Len(k) = 0
    BY <1>2, <1>6, <2>3 DEF l
  <2>5. \A x : x \in ToSet(q) <=> x = a
    BY <1>4, <2>1, <2>3 DEF l
  <2> QED
    BY <2>4, <2>5
<1>7. Len(k) <= 1 /\ (Len(q) = 0 => Len(k) = 0)
  BY <1>2, <1>4, <1>5, <1>6
<1> QED
  BY <1>4, <1>6, <1>7 DEF n, k, q

LEMMA TakeListedTidy ==
  ASSUME NEW m, Good(m), Tidy(m), NEW b \in Row, NEW a \in ToSet(m.bins[b]),
         NEW siz, IsRequest(siz), siz + MINSIZE < Step, siz <= m.chunk[a].size, NEW zero \in BOOLEAN,
         zero => Len(m.bins[0]) = 0 \/ a \in ToSet(m.bins[0])
  PROVE  Tidy(UseFor(remove_from_bin(m, a), a, siz, zero))
<1> DEFINE k == remove_from_bin(m, a)
           n == UseFor(k, a, siz, zero)
<1>1. a \in DOMAIN m.chunk /\ ~m.chunk[a].used /\ Len(m.bins[0]) <= 1
  BY LooseIs DEF Tidy
<1>2. Good(k) /\ k.chunk = m.chunk /\ SameHold(m, k) /\ Loose(k) = Loose(m) \cup {a}
  BY <1>1, RemoveGood
<1>3. Len(k.bins[0]) \in Nat /\ Len(k.bins[0]) <= 1 /\ (zero => Len(k.bins[0]) = 0)
  BY <1>1, Bin0Less
<1> HIDE DEF k
<1>4. Tidy(k)
  BY <1>2, <1>3, SameTidy DEF SameHold
<1>5. a \in Loose(k) /\ ~k.chunk[a].used /\ siz <= k.chunk[a].size
  BY <1>1, <1>2
<1>6. Merged(k.chunk) /\ Spare(k)
  BY <1>4, TidyIs
<1>7. /\ Merged(n.chunk) /\ n.heaps = k.heaps /\ Cut(k, n, a)
      /\ Len(n.bins[0]) <= IF zero THEN Len(k.bins[0]) + 1 ELSE Len(k.bins[0])
  BY <1>2, <1>5, <1>6, UseForMerged
<1>8. Good(n)
  BY <1>2, <1>5, UseForGood
<1> HIDE DEF n
<1>9. Spare(n)
  BY <1>6, <1>7, CutSpare
<1>10. Len(n.bins[0]) <= 1
  <2>1. n.bins[0] \in Seq(Places)
    BY <1>8, BinIs, StepIs DEF Good, GoodBins
  <2>2. Len(n.bins[0]) \in Nat
    BY <2>1
  <2> QED
    BY <1>3, <1>7, <2>2
<1>11. Tidy(n)
  BY <1>7, <1>9, <1>10, TidyIs
<1> QED
  BY <1>11 DEF n, k

LEMMA TakeWholeTidy ==
  ASSUME NEW m, Good(m), Tidy(m), NEW b \in Row, NEW a \in ToSet(m.bins[b]),
         m.chunk[a].size < Step
  PROVE  Tidy(SetUse(remove_from_bin(m, a), a, TRUE))
<1> DEFINE k == remove_from_bin(m, a)
           n == SetUse(k, a, TRUE)
<1>1. a \in DOMAIN m.chunk /\ Len(m.bins[0]) <= 1
  BY LooseIs DEF Tidy
<1>2. Good(k) /\ k.chunk = m.chunk /\ SameHold(m, k) /\ Loose(k) = Loose(m) \cup {a}
  BY <1>1, RemoveGood
<1>3. Len(k.bins[0]) <= 1
  BY <1>1, Bin0Less
<1> HIDE DEF k
<1>4. Tidy(k)
  BY <1>2, <1>3, SameTidy DEF SameHold
<1>5. a \in Loose(k) /\ k.chunk[a].size < Step
  BY <1>2
<1>6. /\ n.chunk = Flagged(k.chunk, a, TRUE) /\ n.bins = k.bins /\ SameHold(k, n)
      /\ DOMAIN n.chunk = DOMAIN k.chunk /\ n.chunk[a].size = k.chunk[a].size
      /\ Kept(k, n, DOMAIN k.chunk \ {a})
  <2>1. Marked(k, n, a, TRUE)
    BY <1>2, <1>5, UseGood
  <2> HIDE DEF n
  <2> QED
    BY <2>1 DEF Marked
<1> HIDE DEF n
<1>7. Merged(n.chunk)
  BY <1>1, <1>2, <1>4, <1>6, UsedMerged DEF Tidy, Good
<1>8. Cut(k, n, a)
  BY <1>5, <1>6 DEF Cut, Kept
<1>9. Spare(n)
  BY <1>4, <1>6, <1>8, TidyIs, CutSpare DEF SameHold
<1>10. Tidy(n)
  BY <1>3, <1>6, <1>7, <1>9, TidyIs
<1> QED
  BY <1>10 DEF n, k

LEMMA TakeTopTidy ==
  ASSUME NEW m, Good(m), Placed(m), Tidy(m), Len(m.bins[0]) = 0,
         \A x \in DOMAIN m.chunk : m.chunk[x].size < Step,
         NEW siz, IsRequest(siz), siz + MINSIZE < Step
  PROVE  Tidy(TopAlloc(m, siz)[1])
<1> DEFINE h == NewHeap(m)
           a == <<h, 0>>
           k == TopOf(m, h)
           n == UseFor(k, a, siz, TRUE)
<1>1. h \in Nat \ {0} /\ h \notin HeapsOf(m)
  <2>1. h \in 1 .. MaxHeaps + 1 /\ h \notin HeapsOf(m)
    BY NewHeapIs DEF Placed
  <2> QED
    BY <2>1, BoundsAssumption
<1>2. TopAlloc(m, siz)[1] = n
  <2>1. IsMem(m)
    BY DEF Good
  <2>2. TopAlloc(m, siz) = <<n, a>>
    BY <2>1, TopShape
  <2> HIDE DEF n, a
  <2> QED
    BY <2>2
<1> HIDE DEF h
<1>3. /\ Good(k) /\ k.bins = m.bins /\ k.heaps = m.heaps \cup {h}
      /\ a \notin DOMAIN m.chunk /\ DOMAIN k.chunk = DOMAIN m.chunk \cup {a}
      /\ k.chunk[a] = TopHeader /\ Loose(k) = Loose(m) \cup {a}
      /\ \A x \in DOMAIN m.chunk : k.chunk[x] = m.chunk[x]
  BY <1>1, TopGood
<1> HIDE DEF k, a
<1>4. k.chunk[a].size = Step /\ ~k.chunk[a].used /\ ~k.chunk[a].next /\ a \in Loose(k)
  BY <1>3 DEF TopHeader
<1>5. Merged(k.chunk)
  <2>1. Merged(m.chunk) /\ Tiled(m.chunk, m.heaps)
    BY DEF Tidy, Good
  <2>2. ASSUME NEW x \in DOMAIN m.chunk, k.chunk[x].next
        PROVE  k.chunk[x].used \/ k.chunk[Follow(k.chunk, x)].used
    <3>1. m.chunk[x].next /\ Follow(k.chunk, x) = Follow(m.chunk, x)
      BY <1>3, <2>2 DEF Follow
    <3>2. Follow(m.chunk, x) \in DOMAIN m.chunk
      BY <2>1, <3>1, ChunkFacts
    <3> QED
      BY <1>3, <2>1, <3>1, <3>2 DEF Merged
  <2> QED
    BY <1>3, <1>4, <2>2 DEF Merged
<1>6. siz <= k.chunk[a].size
  <2>1. siz \in Nat
    BY DEF IsRequest
  <2> QED
    BY <1>4, <2>1, StepIs
<1>7. /\ Merged(n.chunk) /\ Cut(k, n, a)
      /\ Len(n.bins[0]) <= Len(k.bins[0]) + 1
  BY <1>3, <1>4, <1>5, <1>6, UseForMerged
<1> HIDE DEF n
<1>8. \A x \in DOMAIN n.chunk : n.chunk[x].size < Step
  BY <1>3, <1>7 DEF Cut
<1>9. Spare(n)
  BY <1>8 DEF Spare, UsedOf
<1>10. Len(n.bins[0]) <= 1
  BY <1>3, <1>7
<1>11. Tidy(n)
  BY <1>7, <1>9, <1>10, TidyIs
<1> QED
  BY <1>2, <1>11 DEF n, k, a

(* Every free chunk is in a list, and none of the lists below b has a      *)
(* whole heap.                                                             *)
AllListed(m) == Loose(m) \subseteq UsedOf(m)
Below(m, b) ==
  \A e \in Row : e # 0 /\ e < b => \A x \in ToSet(m.bins[e]) : m.chunk[x].size < Step

(* When the search upwards finds nothing no chunk is a whole heap.         *)
LEMMA NoneWhole ==
  ASSUME NEW m, Good(m), Tidy(m), AllListed(m), Len(m.bins[0]) = 0, NEW siz, IsRequest(siz),
         siz + MINSIZE < Step, NEW b \in Nat, Below(m, b),
         \A i \in b .. MaxBin : FirstFit(m, i, siz) = 0, NEW x \in DOMAIN m.chunk
  PROVE  m.chunk[x].size < Step
<1>1. siz \in Nat /\ m.chunk[x].size \in Nat /\ Step \in Nat /\ MINSIZE = 24
  BY GoodPlace, StepIs DEF IsRequest
<1>2. CASE m.chunk[x].used
  BY <1>2 DEF Tidy, UsedOf
<1>3. CASE ~m.chunk[x].used
  <2>1. x \notin Loose(m)
    BY <1>3 DEF AllListed, UsedOf
  <2>2. PICK e \in Row : x \in ToSet(m.bins[e])
    BY <2>1, LooseIs
  <2>3. e # 0
    <3>1. ASSUME e = 0 PROVE FALSE
      <4>1. m.bins[0] \in Seq(Places) /\ x \in ToSet(m.bins[0])
        BY <2>2, <3>1 DEF Good, GoodBins
      <4>2. PICK i \in 1 .. Len(m.bins[0]) : m.bins[0][i] = x
        BY <4>1, ToSetIs
      <4> QED
        BY <4>2
    <3> QED
      BY <3>1
  <2>4. CASE e < b
    BY <2>2, <2>3, <2>4 DEF Below
  <2>5. CASE ~(e < b)
    <3>1. e \in b .. MaxBin
      BY <2>5, BinIs, StepIs DEF Row
    <3>2. FirstFit(m, e, siz) = 0
      BY <3>1
    <3>3. ~(SizeOf(m, x) >= siz)
      BY <2>2, <3>2, FirstFitIs
    <3>4. m.chunk[x].size < siz
      BY <1>1, <3>3 DEF SizeOf
    <3> QED
      BY <1>1, <3>4
  <2> QED
    BY <2>4, <2>5
<1> QED
  BY <1>2, <1>3

LEMMA UpwardTidy ==
  ASSUME NEW m, Good(m), Placed(m), Tidy(m), AllListed(m), Len(m.bins[0]) = 0,
         NEW siz, IsRequest(siz), siz + MINSIZE < Step, NEW b \in Nat, Below(m, b),
         NEW ok \in BOOLEAN
  PROVE  Tidy(Upward(m, b, siz, ok)[1])
<1> DEFINE fit == {i \in b .. MaxBin : FirstFit(m, i, siz) # 0}
           r == Upward(m, b, siz, ok)
           i == Min(fit)
           a == m.bins[i][FirstFit(m, i, siz)]
<1>1. MaxBin \in Nat /\ siz \in Nat
  BY BinIs, StepIs DEF IsRequest
<1>2. CASE fit # {}
  <2>1. r[1] = UseFor(remove_from_bin(m, a), a, siz, TRUE)
    BY <1>2 DEF Upward
  <2>2. fit \subseteq Nat
    BY <1>1
  <2>3. \A k \in fit : k \in Row /\ FirstFit(m, k, siz) # 0
    BY <1>1 DEF Row
  <2> HIDE DEF fit, r
  <2>4. i \in fit
    BY <1>2, <2>2, MinIs
  <2> HIDE DEF i
  <2>5. i \in Row /\ a \in ToSet(m.bins[i]) /\ SizeOf(m, a) >= siz
    BY <2>3, <2>4, FirstFitIs
  <2> HIDE DEF a
  <2>6. siz <= m.chunk[a].size
    BY <1>1, <2>5, ListedSize
  <2>7. Tidy(UseFor(remove_from_bin(m, a), a, siz, TRUE))
    BY <2>5, <2>6, TakeListedTidy
  <2> QED
    BY <2>1, <2>7 DEF r
<1>3. CASE fit = {} /\ ok
  <2>1. r = TopAlloc(m, siz)
    BY <1>3 DEF Upward
  <2>2. \A k \in b .. MaxBin : FirstFit(m, k, siz) = 0
    BY <1>3
  <2> HIDE DEF r
  <2>3. \A x \in DOMAIN m.chunk : m.chunk[x].size < Step
    BY <2>2, NoneWhole
  <2>4. Tidy(TopAlloc(m, siz)[1])
    BY <2>3, TakeTopTidy
  <2> QED
    BY <2>1, <2>4 DEF r
<1>4. CASE fit = {} /\ ~ok
  <2>1. r[1] = m
    BY <1>4 DEF Upward
  <2> QED
    BY <2>1
<1> QED
  BY <1>2, <1>3, <1>4

LEMMA TryBin0Tidy ==
  ASSUME NEW m, Good(m), Placed(m), Tidy(m), AllListed(m),
         NEW siz, IsRequest(siz), siz + MINSIZE < Step, NEW b \in Nat, Below(m, b),
         NEW ok \in BOOLEAN
  PROVE  Tidy(TryBin0(m, b, siz, ok)[1])
<1> DEFINE r == TryBin0(m, b, siz, ok)
           a == Head(m.bins[0])
           k == remove_from_bin(m, a)
           j == Insert(k, a, FALSE)
<1>1. CASE m.bins[0] = <<>>
  <2>1. r = Upward(m, b, siz, ok)
    BY <1>1 DEF TryBin0
  <2>2. Len(m.bins[0]) = 0
    BY <1>1
  <2>3. Tidy(Upward(m, b, siz, ok)[1])
    BY <2>2, UpwardTidy
  <2> QED
    BY <2>1, <2>3
<1>2. CASE m.bins[0] # <<>>
  <2>1. 0 \in Row /\ MINSIZE = 24
    BY BinIs, StepIs
  <2>2. a \in ToSet(m.bins[0])
    <3>1. m.bins[0] \in Seq(Places)
      BY <2>1 DEF Good, GoodBins
    <3>2. Len(m.bins[0]) \in Nat /\ Len(m.bins[0]) # 0 /\ m.bins[0][1] = a
      BY <1>2, <3>1
    <3> QED
      BY <3>1, <3>2, ToSetIs
  <2>3. r = IF SizeOf(m, a) >= siz THEN <<UseFor(k, a, siz, TRUE), a>> ELSE Upward(j, b, siz, ok)
    BY <1>2 DEF TryBin0
  <2> HIDE DEF a, r
  <2>4. siz \in Nat /\ Len(m.bins[0]) <= 1 /\ Step \in Nat
    BY StepIs DEF IsRequest, Tidy
  <2>5. a \in DOMAIN m.chunk /\ a \notin Loose(m) /\ ~m.chunk[a].used /\ m.chunk[a].size \in Nat
    BY <2>1, <2>2, LooseIs, GoodPlace
  <2>6. CASE SizeOf(m, a) >= siz
    <3>1. siz <= m.chunk[a].size
      BY <2>1, <2>2, <2>4, <2>6, ListedSize
    <3>2. Tidy(UseFor(k, a, siz, TRUE))
      BY <2>1, <2>2, <3>1, TakeListedTidy
    <3>3. r[1] = UseFor(k, a, siz, TRUE)
      BY <2>3, <2>6
    <3> QED
      BY <3>2, <3>3 DEF r
  <2>7. CASE ~(SizeOf(m, a) >= siz)
    <3>1. Good(k) /\ k.chunk = m.chunk /\ SameHold(m, k) /\ Loose(k) = Loose(m) \cup {a}
      BY <2>5, RemoveGood
    <3>2. Len(k.bins[0]) = 0 /\ ToSet(m.bins[0]) = {a}
      BY <2>2, <2>4, <2>5, Bin0Less
    <3>3. a \in Loose(k) /\ ~k.chunk[a].used
      BY <2>5, <3>1
    <3> HIDE DEF k
    <3>4. /\ Good(j) /\ j.chunk = k.chunk /\ SameHold(k, j) /\ Loose(j) = Loose(k) \ {a}
          /\ Len(j.bins[0]) = Len(k.bins[0])
      BY <3>1, <3>3, InsertGood
    <3> HIDE DEF j
    <3>5. Good(j) /\ j.chunk = m.chunk /\ SameHold(m, j) /\ Loose(j) = Loose(m) /\ Len(j.bins[0]) = 0
      BY <2>5, <3>1, <3>2, <3>4 DEF SameHold
    <3>6. Placed(j) /\ AllListed(j)
      BY <3>5, SameOwed DEF Placed, AllListed, UsedOf
    <3>7. Tidy(j)
      BY <3>5, SameTidy DEF SameHold
    <3>8. Below(j, b)
      <4> SUFFICES ASSUME NEW e \in Row, e # 0, e < b, NEW x \in ToSet(j.bins[e])
                   PROVE  j.chunk[x].size < Step
        BY DEF Below
      <4>1. /\ x \in DOMAIN m.chunk /\ x \notin Loose(m) /\ e = bin_index(m.chunk[x].size)
        <5>1. x \in DOMAIN j.chunk /\ x \notin Loose(j)
          BY <3>5, LooseIs
        <5>2. e \in {0, bin_index(j.chunk[x].size)}
          BY <3>5 DEF Good, Filed
        <5> QED
          BY <3>5, <5>1, <5>2
      <4>2. PICK f \in Row : x \in ToSet(m.bins[f])
        BY <4>1, LooseIs
      <4>3. f \in {0, bin_index(m.chunk[x].size)}
        BY <4>2 DEF Good, Filed
      <4>4. CASE f = 0
        <5>1. x = a
          BY <3>2, <4>2, <4>4
        <5>2. m.chunk[x].size < siz
          BY <2>4, <2>5, <2>7, <5>1 DEF SizeOf
        <5> QED
          BY <2>1, <2>4, <2>5, <3>5, <5>1, <5>2
      <4>5. CASE f = e
        BY <3>5, <4>2, <4>5 DEF Below
      <4> QED
        BY <4>1, <4>3, <4>4, <4>5
    <3>9. Tidy(Upward(j, b, siz, ok)[1])
      BY <3>5, <3>6, <3>7, <3>8, UpwardTidy
    <3>10. r = Upward(j, b, siz, ok)
      BY <2>3, <2>7
    <3> QED
      BY <3>9, <3>10 DEF r
  <2> QED
    BY <2>6, <2>7
<1> QED
  BY <1>1, <1>2

(* A listed chunk that is a whole heap is in the last bin or in bins[0].   *)
LEMMA WholeInLast ==
  ASSUME NEW m, Good(m), NEW e \in Row, e # 0, NEW x \in ToSet(m.bins[e])
  PROVE  m.chunk[x].size < Step \/ e = MaxBin
<1>1. x \in DOMAIN m.chunk /\ e \in {0, bin_index(m.chunk[x].size)}
  BY DEF Good, Filed
<1>2. m.chunk[x].size \in Nat /\ m.chunk[x].size <= Step /\ Step \in Nat
  BY <1>1, GoodPlace, StepIs
<1>3. m.chunk[x].size < Step \/ m.chunk[x].size = Step
  BY <1>2
<1> QED
  BY <1>1, <1>3 DEF MaxBin

LEMMA AllocFromTidy ==
  ASSUME NEW m, Good(m), Placed(m), Tidy(m), AllListed(m), NEW siz, IsRequest(siz),
         ~IsLarge(siz), NEW ok \in BOOLEAN
  PROVE  Tidy(AllocFrom(m, siz, ok)[1])
<1> DEFINE b == bin_index(siz)
           exact == {i \in {b, b + 1} : m.bins[i] # <<>>}
           i == Min(exact)
           a == Head(m.bins[i])
           f == FirstFit(m, b, siz)
           g == m.bins[b][f]
           r == AllocFrom(m, siz, ok)
<1>1. siz \in Nat /\ siz % Align = 0 /\ MINSIZE <= siz
  BY DEF IsRequest
<1>2. siz + MINSIZE < Step
  BY <1>1, BinsExist
<1>3. siz <= Step /\ MINSIZE = 24 /\ Step \in Nat
  BY <1>1, <1>2, StepIs
<1>4. b \in Row /\ b # 0 /\ MaxBin \in Nat /\ b \in Nat
  BY <1>1, <1>3, BinIs, StepIs DEF Row
<1>5. CASE IsSmall(siz) /\ exact # {}
  <2>1. r[1] = SetUse(remove_from_bin(m, a), a, TRUE)
    BY <1>5 DEF AllocFrom
  <2>2. b + 1 \in Row
    BY <1>1, <1>5, BinsExist
  <2>3. exact \subseteq Nat /\ \A k \in exact : k \in {b, b + 1} /\ m.bins[k] # <<>>
    BY <1>4
  <2>4. i \in exact
    <3> HIDE DEF exact
    <3> QED
      BY <1>5, <2>3, MinIs
  <2>5. i \in {b, b + 1} /\ m.bins[i] # <<>>
    BY <2>3, <2>4
  <2> HIDE DEF b, exact, i, r
  <2>6. i \in Row /\ i # 0
    BY <1>4, <2>2, <2>5
  <2>7. a \in ToSet(m.bins[i])
    <3>1. m.bins[i] \in Seq(Places)
      BY <2>6 DEF Good, GoodBins
    <3>2. Len(m.bins[i]) \in Nat /\ Len(m.bins[i]) # 0 /\ m.bins[i][1] = a
      BY <2>5, <3>1
    <3> QED
      BY <3>1, <3>2, ToSetIs
  <2> HIDE DEF a
  <2> DEFINE t == m.chunk[a].size
  <2>8. a \in DOMAIN m.chunk /\ t \in Nat /\ t % Align = 0
    BY <2>6, <2>7, LooseIs, GoodPlace
  <2>9. i = bin_index(t)
    BY <2>6, <2>7 DEF Good, Filed
  <2> HIDE DEF t
  <2>10. t < siz + MINSIZE
    <3>1. bin_index(t) = bin_index(siz) \/ bin_index(t) = bin_index(siz) + 1
      BY <2>5, <2>9 DEF b
    <3> QED
      BY <1>1, <1>5, <2>8, <3>1, SmallBinsExact
  <2>11. t < Step
    BY <1>1, <1>2, <1>3, <2>8, <2>10
  <2>12. Tidy(SetUse(remove_from_bin(m, a), a, TRUE))
    BY <2>6, <2>7, <2>11, TakeWholeTidy DEF t
  <2> QED
    BY <2>1, <2>12 DEF r
<1>6. CASE IsSmall(siz) /\ exact = {}
  <2>1. r = TryBin0(m, b + 2, siz, ok)
    BY <1>6 DEF AllocFrom
  <2>2. b + 2 \in Nat /\ b + 2 <= MaxBin
    BY <1>1, <1>4, <1>6, BinsExist
  <2> HIDE DEF b, r
  <2>3. Below(m, b + 2)
    <3> SUFFICES ASSUME NEW e \in Row, e # 0, e < b + 2, NEW x \in ToSet(m.bins[e])
                 PROVE  m.chunk[x].size < Step
      BY DEF Below
    <3>1. e # MaxBin
      BY <1>4, <2>2 DEF Row
    <3> QED
      BY <3>1, WholeInLast
  <2>4. Tidy(TryBin0(m, b + 2, siz, ok)[1])
    BY <1>2, <2>2, <2>3, TryBin0Tidy
  <2> QED
    BY <2>1, <2>4 DEF r
<1>7. CASE ~IsSmall(siz) /\ f # 0
  <2>1. r[1] = UseFor(remove_from_bin(m, g), g, siz, FALSE)
    BY <1>7 DEF AllocFrom
  <2>2. g \in ToSet(m.bins[b]) /\ SizeOf(m, g) >= siz
    BY <1>4, <1>7, FirstFitIs
  <2> HIDE DEF g, r, b
  <2>3. siz <= m.chunk[g].size
    BY <1>1, <1>4, <2>2, ListedSize
  <2>4. Tidy(UseFor(remove_from_bin(m, g), g, siz, FALSE))
    BY <1>2, <1>4, <2>2, <2>3, TakeListedTidy
  <2> QED
    BY <2>1, <2>4 DEF r
<1>8. CASE ~IsSmall(siz) /\ f = 0
  <2>1. r = TryBin0(m, b + 1, siz, ok)
    BY <1>8 DEF AllocFrom
  <2>2. b + 1 \in Nat /\ b <= MaxBin
    BY <1>4 DEF Row
  <2>3. \A x \in ToSet(m.bins[b]) : ~(SizeOf(m, x) >= siz)
    BY <1>4, <1>8, FirstFitIs
  <2> HIDE DEF b, r
  <2>4. Below(m, b + 1)
    <3> SUFFICES ASSUME NEW e \in Row, e # 0, e < b + 1, NEW x \in ToSet(m.bins[e])
                 PROVE  m.chunk[x].size < Step
      BY DEF Below
    <3>1. CASE e # MaxBin
      BY <3>1, WholeInLast
    <3>2. CASE e = MaxBin
      <4>1. e = b
        BY <1>4, <2>2, <3>2
      <4>2. ~(SizeOf(m, x) >= siz) /\ x \in DOMAIN m.chunk /\ m.chunk[x].size \in Nat
        BY <2>3, <4>1, LooseIs, GoodPlace
      <4> QED
        BY <1>1, <1>2, <1>3, <4>2 DEF SizeOf
    <3> QED
      BY <3>1, <3>2
  <2>5. Tidy(TryBin0(m, b + 1, siz, ok)[1])
    BY <1>2, <2>2, <2>4, TryBin0Tidy
  <2> QED
    BY <2>1, <2>5 DEF r
<1> QED
  BY <1>5, <1>6, <1>7, <1>8

(* A request breaks up no more than it needs. *)
LEMMA RequestTidy ==
  ASSUME NEW m, Good(m), Placed(m), Tidy(m), AllListed(m), NEW si \in Nat \ 0 .. 7,
         NEW ok \in BOOLEAN
  PROVE  Tidy(bin_mem_alloc(m, si, ok)[1])
<1> DEFINE siz == ChunkFor(si)
           r == bin_mem_alloc(m, si, ok)
<1>1. IsRequest(siz) /\ siz \in Nat
  BY RequestIs
<1>2. CASE ~IsLarge(siz)
  <2>1. r = AllocFrom(m, siz, ok)
    BY <1>2 DEF bin_mem_alloc
  <2> HIDE DEF siz, r
  <2>2. Tidy(AllocFrom(m, siz, ok)[1])
    BY <1>1, <1>2, AllocFromTidy
  <2> QED
    BY <2>1, <2>2 DEF r
<1>3. CASE IsLarge(siz) /\ ok
  <2>1. r = LargeAlloc(m, siz)
    BY <1>3 DEF bin_mem_alloc
  <2> HIDE DEF siz, r
  <2>2. PICK n : r = <<n, <<NewHeap(m), 0>>>> /\ Lent(m, n, NewHeap(m), siz)
    BY <1>1, <2>1, LargeLent
  <2>3. r[1] = n
    BY <2>2
  <2>4. n.chunk = m.chunk /\ n.heaps = m.heaps /\ n.bins = m.bins
    BY <2>2 DEF Lent
  <2>5. Tidy(n)
    BY <2>4, SameTidy DEF Tidy
  <2> QED
    BY <2>3, <2>5 DEF r
<1>4. CASE IsLarge(siz) /\ ~ok
  <2>1. r[1] = m
    BY <1>4 DEF bin_mem_alloc
  <2> QED
    BY <2>1
<1> QED
  BY <1>2, <1>3, <1>4

(* Free neighbours only around a, whose successor is in use.               *)
Almost(c, a) ==
  /\ \A x \in DOMAIN c : c[x].next => c[x].used \/ c[Follow(c, x)].used \/ Follow(c, x) = a
  /\ c[a].next => c[Follow(c, a)].used

LEMMA MergeAlmost ==
  ASSUME NEW H, NEW c, Tiled(c, H), Merged(c), NEW d, NEW a, IsMerge(c, d, a),
         ~c[Follow(c, a)].used
  PROVE  Almost(d, a)
<1> DEFINE n == Follow(c, a)
           f == Follow(c, n)
<1>1. a \in DOMAIN c /\ c[a].next /\ DOMAIN d = DOMAIN c \ {n}
  BY DEF IsMerge
<1>2. /\ a \in DOMAIN d /\ n \in DOMAIN c /\ n # a /\ n[1] = a[1] /\ n[2] = a[2] + c[a].size
      /\ d[a].size = c[a].size + c[n].size /\ d[a].next = c[n].next
      /\ \A x \in DOMAIN d : x # a =>
           /\ x \in DOMAIN c /\ x # n /\ d[x].size = c[x].size /\ d[x].next = c[x].next
           /\ d[x].used = c[x].used
  BY MergeFacts
<1>3. /\ a[2] \in Int /\ c[a].size \in Int /\ c[n].size \in Int /\ c[a].size > 0 /\ c[n].size > 0
      /\ n[2] \in Int
  BY <1>1, <1>2, ChunkFacts, StepIs
<1>4. Follow(d, a) = <<n[1], n[2] + c[n].size>>
  BY <1>2, <1>3 DEF Follow
<1>5. ASSUME d[a].next
      PROVE  d[Follow(d, a)].used
  <2>1. c[n].next /\ c[f].used
    BY <1>2, <1>5 DEF Merged
  <2>2. f \in DOMAIN c /\ f # n /\ f[2] = n[2] + c[n].size
    BY <1>2, <2>1, ChunkFacts
  <2>3. f # a
    BY <1>2, <1>3, <2>2
  <2>4. Follow(d, a) = f
    BY <1>4 DEF Follow
  <2>5. f \in DOMAIN d
    BY <1>1, <2>2
  <2> QED
    BY <1>2, <2>1, <2>3, <2>4, <2>5
<1>6. ASSUME NEW x \in DOMAIN d, x # a, d[x].next
      PROVE  d[x].used \/ d[Follow(d, x)].used \/ Follow(d, x) = a
  <2>1. x \in DOMAIN c /\ c[x].next /\ Follow(d, x) = Follow(c, x) /\ d[x].used = c[x].used
    BY <1>2, <1>6 DEF Follow
  <2>2. Follow(c, x) \in DOMAIN c /\ (c[x].used \/ c[Follow(c, x)].used)
    BY <2>1, ChunkFacts DEF Merged
  <2>3. Follow(c, x) # n
    BY <1>1, <1>6, <2>1, OneBefore
  <2>4. Follow(c, x) \in DOMAIN d
    BY <1>1, <2>2, <2>3
  <2> HIDE DEF n
  <2> QED
    BY <1>2, <2>1, <2>2, <2>4
<1> HIDE DEF n
<1> QED
  BY <1>5, <1>6 DEF Almost

LEMMA MergeMerged ==
  ASSUME NEW H, NEW c, Tiled(c, H), NEW d, NEW p, NEW a, IsMerge(c, d, p), Follow(c, p) = a,
         Almost(c, a), ~c[p].used
  PROVE  Merged(d)
<1> DEFINE f == Follow(c, a)
<1>1. p \in DOMAIN c /\ c[p].next /\ DOMAIN d = DOMAIN c \ {a}
  BY DEF IsMerge
<1>2. /\ p \in DOMAIN d /\ a \in DOMAIN c /\ a # p /\ a[1] = p[1] /\ a[2] = p[2] + c[p].size
      /\ d[p].size = c[p].size + c[a].size /\ d[p].next = c[a].next
      /\ \A x \in DOMAIN d : x # p =>
           /\ x \in DOMAIN c /\ x # a /\ d[x].size = c[x].size /\ d[x].next = c[x].next
           /\ d[x].used = c[x].used
  BY MergeFacts
<1>3. /\ p[2] \in Int /\ c[p].size \in Int /\ c[a].size \in Int /\ c[p].size > 0 /\ c[a].size > 0
      /\ a[2] \in Int
  BY <1>1, <1>2, ChunkFacts, StepIs
<1>4. Follow(d, p) = f
  BY <1>2, <1>3 DEF Follow
<1>5. ASSUME d[p].next
      PROVE  d[Follow(d, p)].used
  <2>1. c[a].next /\ c[f].used
    BY <1>2, <1>5 DEF Almost
  <2>2. f \in DOMAIN c /\ f # a /\ f[2] = a[2] + c[a].size
    BY <1>2, <2>1, ChunkFacts
  <2>3. f # p
    BY <1>2, <1>3, <2>2
  <2>4. f \in DOMAIN d
    BY <1>1, <2>2
  <2> QED
    BY <1>2, <1>4, <2>1, <2>3, <2>4
<1>6. ASSUME NEW x \in DOMAIN d, x # p, d[x].next
      PROVE  d[x].used \/ d[Follow(d, x)].used
  <2>1. x \in DOMAIN c /\ c[x].next /\ Follow(d, x) = Follow(c, x) /\ d[x].used = c[x].used
    BY <1>2, <1>6 DEF Follow
  <2>2. Follow(c, x) # a
    BY <1>1, <1>6, <2>1, OneBefore
  <2>3. Follow(c, x) \in DOMAIN c /\ (c[x].used \/ c[Follow(c, x)].used)
    BY <2>1, <2>2, ChunkFacts DEF Almost
  <2>4. Follow(c, x) \in DOMAIN d
    BY <1>1, <2>2, <2>3
  <2> QED
    BY <1>2, <2>1, <2>3, <2>4
<1> QED
  BY <1>5, <1>6 DEF Merged

LEMMA FreedMerged ==
  ASSUME NEW H, NEW c, Tiled(c, H), NEW a \in DOMAIN c, Almost(c, a),
         c[a].prev => c[Precede(c, a)].used
  PROVE  Merged(Flagged(c, a, FALSE))
<1> DEFINE d == Flagged(c, a, FALSE)
<1>1. /\ DOMAIN d = DOMAIN c
      /\ \A x \in DOMAIN c : /\ d[x].size = c[x].size /\ d[x].next = c[x].next
                             /\ x # a => d[x].used = c[x].used
  <2>1. PICK u \in BOOLEAN : u = FALSE
    OBVIOUS
  <2>2. d = Flagged(c, a, u)
    BY <2>1
  <2> HIDE DEF d
  <2>3. LET e == Flagged(c, a, u) IN
        /\ DOMAIN e = DOMAIN c
        /\ \A x \in DOMAIN c : /\ e[x].size = c[x].size /\ e[x].next = c[x].next
                               /\ x # a => e[x].used = c[x].used
    BY FlagFacts
  <2> QED
    BY <2>1, <2>2, <2>3
<1> HIDE DEF d
<1>2. ASSUME NEW x \in DOMAIN c, d[x].next
      PROVE  d[x].used \/ d[Follow(d, x)].used
  <2>1. c[x].next /\ Follow(d, x) = Follow(c, x)
    BY <1>1, <1>2 DEF Follow
  <2>2. Follow(c, x) \in DOMAIN c /\ Follow(c, x) # x
    BY <2>1, ChunkFacts
  <2>3. CASE x = a
    BY <1>1, <2>1, <2>2, <2>3 DEF Almost
  <2>4. CASE x # a /\ Follow(c, x) # a
    BY <1>1, <2>1, <2>2, <2>4 DEF Almost
  <2>5. CASE x # a /\ Follow(c, x) = a
    <3>1. /\ a[2] = x[2] + c[x].size /\ x[2] \in Int /\ 0 <= x[2] /\ c[x].size \in Int
          /\ c[x].size > 0 /\ a[2] \in Int
      BY <2>1, <2>5, ChunkFacts, StepIs
    <3>2. a[2] > 0
      BY <3>1
    <3>3. c[a].prev
      BY <3>2, ChunkFacts
    <3>4. Precede(c, a) \in DOMAIN c /\ c[Precede(c, a)].next /\ Follow(c, Precede(c, a)) = a
      BY <3>3, ChunkFacts
    <3>5. x = Precede(c, a)
      BY <2>1, <2>5, <3>4, OneBefore
    <3> QED
      BY <1>1, <2>5, <3>3, <3>5
  <2> QED
    BY <2>3, <2>4, <2>5
<1>3. Merged(d)
  BY <1>1, <1>2 DEF Merged
<1> QED
  BY <1>3 DEF d

(* k is m but for the chunk p.                                             *)
OthersSame(m, k, p) ==
  \A x \in DOMAIN k.chunk : x # p =>
    /\ x \in DOMAIN m.chunk
    /\ k.chunk[x].size = m.chunk[x].size /\ k.chunk[x].used = m.chunk[x].used

LEMMA FirstListed ==
  ASSUME NEW m, Good(m), NEW a, InBin0First(m, a)
  PROVE  a \in ToSet(m.bins[0])
<1>1. 0 \in Row
  BY BinIs, StepIs
<1>2. m.bins[0] \in Seq(Places)
  BY <1>1 DEF Good, GoodBins
<1>3. Len(m.bins[0]) \in Nat /\ Len(m.bins[0]) # 0 /\ m.bins[0][1] = a
  BY <1>2 DEF InBin0First
<1> QED
  BY <1>2, <1>3, ToSetIs

LEMMA ForwardTidy ==
  ASSUME NEW m, Good(m), Tidy(m), NEW a \in Loose(m)
  PROVE  LET k == Forward(m, a) IN
         /\ Almost(k.chunk, a) /\ OthersSame(m, k, a) /\ Len(k.bins[0]) <= 1
         /\ FreeAfter(m, a) /\ InBin0First(m, After(m, a)) => Len(k.bins[0]) = 0
<1> DEFINE f == After(m, a)
           j == remove_from_bin(m, f)
           k == Forward(m, a)
<1>1. a \in DOMAIN m.chunk /\ Merged(m.chunk) /\ Len(m.bins[0]) <= 1
  BY LooseIs DEF Tidy
<1>2. CASE FreeAfter(m, a)
  <2>1. k = Merge(j, a)
    BY <1>2 DEF Forward
  <2>2. m.chunk[a].next /\ ~m.chunk[f].used
    BY <1>2 DEF FreeAfter
  <2>3. f = Follow(m.chunk, a) /\ f \in DOMAIN m.chunk /\ f # a
    BY <1>1, <2>2, AfterIs
  <2>4. Len(j.bins[0]) <= 1 /\ (f \in ToSet(m.bins[0]) => Len(j.bins[0]) = 0)
    BY <1>1, <2>3, Bin0Less
  <2>5. InBin0First(m, f) => f \in ToSet(m.bins[0])
    BY FirstListed
  <2> HIDE DEF f, k
  <2>6. Good(j) /\ j.chunk = m.chunk /\ Loose(j) = Loose(m) \cup {f}
    BY <2>3, RemoveGood
  <2> HIDE DEF j
  <2>7. a \in Loose(j) /\ f \in Loose(j) /\ f = Follow(j.chunk, a) /\ j.chunk[a].next
        /\ ~j.chunk[Follow(j.chunk, a)].used
    BY <2>2, <2>3, <2>6
  <2>8. /\ k.bins = j.bins /\ DOMAIN k.chunk = DOMAIN j.chunk \ {f}
        /\ Kept(j, k, DOMAIN j.chunk \ {a, f}) /\ IsMerge(j.chunk, k.chunk, a)
    <3>1. Joined(j, k, a, f)
      BY <2>1, <2>6, <2>7, MergeGood
    <3> QED
      BY <3>1 DEF Joined
  <2>9. Almost(k.chunk, a)
    BY <1>1, <2>6, <2>7, <2>8, MergeAlmost DEF Good
  <2>10. OthersSame(m, k, a)
    BY <2>6, <2>8 DEF OthersSame, Kept
  <2> QED
    BY <2>4, <2>5, <2>8, <2>9, <2>10 DEF k, f
<1>3. CASE ~FreeAfter(m, a)
  <2>1. k = m
    BY <1>3 DEF Forward
  <2>2. m.chunk[a].next => m.chunk[Follow(m.chunk, a)].used
    BY <1>1, <1>3, AfterIs DEF FreeAfter
  <2>3. Almost(m.chunk, a)
    BY <1>1, <2>2 DEF Almost, Merged
  <2>4. OthersSame(m, m, a)
    BY DEF OthersSame
  <2> QED
    BY <1>1, <1>3, <2>1, <2>3, <2>4
<1> QED
  BY <1>2, <1>3

LEMMA BackwardTidy ==
  ASSUME NEW m, Good(m), NEW a \in Loose(m), FreeBefore(m, a), Almost(m.chunk, a),
         Len(m.bins[0]) <= 1
  PROVE  LET p == Before(m, a)
             n == Backward(m, a)
         IN /\ Merged(n.chunk) /\ OthersSame(m, n, p) /\ a \notin DOMAIN n.chunk
            /\ Len(n.bins[0]) <= 1
            /\ Len(m.bins[0]) = 0 \/ InBin0First(m, p) => Len(n.bins[0]) = 0
<1> DEFINE p == Before(m, a)
           j == remove_from_bin(m, p)
           n == Backward(m, a)
<1>1. a \in DOMAIN m.chunk /\ m.chunk[a].prev /\ ~m.chunk[p].used
  BY LooseIs DEF FreeBefore
<1>2. p \in DOMAIN m.chunk /\ m.chunk[p].next /\ Follow(m.chunk, p) = a /\ p # a
  BY <1>1, BeforeIs
<1>3. n = Merge(j, p)
  BY DEF Backward
<1>4. /\ Len(j.bins[0]) <= 1 /\ (p \in ToSet(m.bins[0]) => Len(j.bins[0]) = 0)
      /\ (Len(m.bins[0]) = 0 => Len(j.bins[0]) = 0)
  BY <1>2, Bin0Less
<1>5. InBin0First(m, p) => p \in ToSet(m.bins[0])
  BY FirstListed
<1> HIDE DEF p, n
<1>6. Good(j) /\ j.chunk = m.chunk /\ Loose(j) = Loose(m) \cup {p}
  BY <1>2, RemoveGood
<1> HIDE DEF j
<1>7. p \in Loose(j) /\ Follow(j.chunk, p) = a /\ a \in Loose(j) /\ j.chunk[p].next
  BY <1>2, <1>6
<1>8. /\ n.bins = j.bins /\ DOMAIN n.chunk = DOMAIN j.chunk \ {a}
      /\ Kept(j, n, DOMAIN j.chunk \ {p, a}) /\ IsMerge(j.chunk, n.chunk, p)
  <2>1. Joined(j, Merge(j, p), p, Follow(j.chunk, p))
    BY <1>6, <1>7, MergeGood
  <2> QED
    BY <1>3, <1>7, <2>1 DEF Joined
<1>9. Merged(n.chunk)
  BY <1>1, <1>6, <1>7, <1>8, MergeMerged DEF Good
<1>10. OthersSame(m, n, p)
  BY <1>6, <1>8 DEF OthersSame, Kept
<1> QED
  BY <1>4, <1>5, <1>8, <1>9, <1>10 DEF n, p

LEMMA TwoMany ==
  ASSUME NEW S, IsFiniteSet(S), NEW a \in S, NEW b \in S, a # b
  PROVE  Cardinality(S) > 1
<1>1. Cardinality(S) \in Nat /\ Cardinality(S \ {a}) \in Nat
      /\ Cardinality(S) = Cardinality(S \ {a}) + 1 /\ IsFiniteSet(S \ {a})
  BY FS_RemoveElement, FS_AddElement, FS_CardinalityType
<1>2. Cardinality(S \ {a}) # 0
  BY <1>1, FS_EmptySet
<1> QED
  BY <1>1, <1>2

LEMMA FileTidy ==
  ASSUME NEW m, Spare(m), NEW k, Good(k), k.heaps = m.heaps, NEW p \in Loose(k),
         ~k.chunk[p].used, Merged(k.chunk), OthersSame(m, k, p),
         Len(k.bins[0]) <= 1, NEW zero \in BOOLEAN, zero => Len(k.bins[0]) = 0
  PROVE  Tidy(File(k, p, zero))
<1> DEFINE n == File(k, p, zero)
<1>1. /\ p \in DOMAIN k.chunk /\ k.chunk[p].size \in Nat /\ k.chunk[p].size <= Step
      /\ Step \in Nat
  BY LooseIs, GoodPlace, StepIs
<1>2. Tiled(k.chunk, k.heaps) /\ IsFiniteSet(k.heaps)
  BY DEF Good, Held
<1>3. \A x \in DOMAIN k.chunk : x # p /\ k.chunk[x].used => k.chunk[x].size < Step
  BY DEF OthersSame, Spare, UsedOf
<1>4. \A a, b \in k.heaps : a # b => \A x \in DOMAIN k.chunk : x # p => k.chunk[x].size < Step
  BY DEF OthersSame, Spare
<1>5. CASE SizeOf(k, p) = Step /\ Cardinality(k.heaps) > 1
  <2>1. n = ReturnHeap(k, p) /\ k.chunk[p].size = Step
    BY <1>5 DEF File, SizeOf
  <2> HIDE DEF n
  <2>2. /\ n.bins = k.bins /\ n.heaps = k.heaps \ {p[1]}
        /\ DOMAIN n.chunk = DOMAIN k.chunk \ {p} /\ \A x \in DOMAIN n.chunk : n.chunk[x] = k.chunk[x]
    BY <2>1, ReturnGood
  <2>3. ASSUME NEW x \in DOMAIN k.chunk, k.chunk[x].next PROVE Follow(k.chunk, x) # p
    <3>1. /\ Follow(k.chunk, x)[2] = x[2] + k.chunk[x].size /\ x[2] \in Int /\ 0 <= x[2]
          /\ k.chunk[x].size \in Int /\ k.chunk[x].size > 0
      BY <1>2, <2>3, ChunkFacts, StepIs
    <3>2. p[2] \in Int /\ p[2] + Step <= Step
      BY <1>1, <1>2, <2>1, ChunkFacts
    <3> QED
      BY <1>1, <3>1, <3>2
  <2>4. Merged(n.chunk)
    <3> SUFFICES ASSUME NEW x \in DOMAIN n.chunk, n.chunk[x].next
                 PROVE  n.chunk[x].used \/ n.chunk[Follow(n.chunk, x)].used
      BY DEF Merged
    <3>1. x \in DOMAIN k.chunk /\ k.chunk[x].next /\ Follow(n.chunk, x) = Follow(k.chunk, x)
      BY <2>2 DEF Follow
    <3>2. Follow(k.chunk, x) \in DOMAIN n.chunk
      BY <1>2, <2>2, <2>3, <3>1, ChunkFacts
    <3> QED
      BY <2>2, <3>1, <3>2 DEF Merged
  <2>5. Spare(n)
    BY <1>3, <1>4, <2>2 DEF Spare, UsedOf
  <2>6. Tidy(n)
    BY <2>2, <2>4, <2>5, TidyIs
  <2> QED
    BY <2>6 DEF n
<1>6. CASE ~(SizeOf(k, p) = Step /\ Cardinality(k.heaps) > 1)
  <2>1. n = Insert(k, p, zero)
    BY <1>6 DEF File
  <2> HIDE DEF n
  <2>2. /\ n.chunk = k.chunk /\ SameHold(k, n)
        /\ Len(n.bins[0]) = IF zero THEN Len(k.bins[0]) + 1 ELSE Len(k.bins[0])
    BY <2>1, InsertGood
  <2>3. ASSUME NEW a \in k.heaps, NEW b \in k.heaps, a # b PROVE k.chunk[p].size < Step
    <3>1. Cardinality(k.heaps) > 1
      BY <1>2, <2>3, TwoMany
    <3>2. k.chunk[p].size # Step
      BY <1>6, <3>1 DEF SizeOf
    <3> QED
      BY <1>1, <3>2
  <2>4. Spare(k)
    BY <1>3, <1>4, <2>3 DEF Spare, UsedOf
  <2>5. Spare(n)
    BY <2>2, <2>4 DEF Spare, UsedOf, SameHold
  <2>6. Tidy(n)
    BY <2>2, <2>5, TidyIs
  <2> QED
    BY <2>6 DEF n
<1> QED
  BY <1>5, <1>6

(* A free merges what it can and returns the heap when others are left.    *)
LEMMA FreeTidy ==
  ASSUME NEW m, Good(m), Tidy(m), NEW a \in UsedOf(m)
  PROVE  Tidy(FreeChunk(m, a))
<1> DEFINE k == Forward(m, a)
           z == FreeAfter(m, a) /\ InBin0First(m, After(m, a))
           p == Before(k, a)
           n == FreeChunk(m, a)
<1>1. a \in Loose(m) /\ Spare(m)
  BY LooseIs, TidyIs DEF UsedOf
<1>2. Good(k) /\ SameHold(m, k) /\ a \in Loose(k)
  BY <1>1, ForwardIs
<1>3. /\ Almost(k.chunk, a) /\ OthersSame(m, k, a) /\ Len(k.bins[0]) <= 1
      /\ z => Len(k.bins[0]) = 0
  BY <1>1, ForwardTidy
<1>4. n = IF FreeBefore(k, a) THEN File(Backward(k, a), p, z \/ InBin0First(k, p))
          ELSE File(SetUse(k, a, FALSE), a, z)
  BY DEF FreeChunk, Forward, Backward
<1>5. z \in BOOLEAN /\ (z \/ InBin0First(k, p)) \in BOOLEAN
  OBVIOUS
<1> HIDE DEF z, n, k
<1>6. CASE FreeBefore(k, a)
  <2> DEFINE j == Backward(k, a)
             y == z \/ InBin0First(k, p)
  <2>1. Freeing(k, j, a, p)
    BY <1>2, <1>6, BackwardIs
  <2>2. /\ Merged(j.chunk) /\ OthersSame(k, j, p) /\ a \notin DOMAIN j.chunk
        /\ Len(j.bins[0]) <= 1
        /\ Len(k.bins[0]) = 0 \/ InBin0First(k, p) => Len(j.bins[0]) = 0
    BY <1>2, <1>3, <1>6, BackwardTidy
  <2>3. n = File(j, p, y)
    BY <1>4, <1>6
  <2>4. y => Len(j.bins[0]) = 0
    BY <1>3, <2>2
  <2>5. y \in BOOLEAN
    BY <1>5
  <2> HIDE DEF j, p, y
  <2>6. Good(j) /\ SameHold(k, j) /\ p \in Loose(j) /\ ~j.chunk[p].used
    BY <2>1 DEF Freeing
  <2>7. j.heaps = m.heaps
    BY <1>2, <2>6 DEF SameHold
  <2>8. OthersSame(m, j, p)
    BY <1>3, <2>2 DEF OthersSame
  <2>9. Tidy(File(j, p, y))
    BY <1>1, <2>2, <2>4, <2>5, <2>6, <2>7, <2>8, FileTidy
  <2> QED
    BY <2>3, <2>9 DEF n
<1>7. CASE ~FreeBefore(k, a)
  <2> DEFINE j == SetUse(k, a, FALSE)
  <2>1. a \in DOMAIN k.chunk /\ Tiled(k.chunk, k.heaps)
    BY <1>2, LooseIs DEF Good
  <2>2. /\ Good(j) /\ j.chunk = Flagged(k.chunk, a, FALSE) /\ j.bins = k.bins /\ SameHold(k, j)
        /\ Loose(j) = Loose(k) /\ DOMAIN j.chunk = DOMAIN k.chunk
        /\ j.chunk[a].used = FALSE /\ Kept(k, j, DOMAIN k.chunk \ {a})
    <3>1. Marked(k, j, a, FALSE)
      BY <1>2, UseGood
    <3> HIDE DEF j
    <3> QED
      BY <3>1 DEF Marked
  <2>3. n = File(j, a, z)
    BY <1>4, <1>7
  <2> HIDE DEF j
  <2>4. k.chunk[a].prev => k.chunk[Precede(k.chunk, a)].used
    BY <1>7 DEF FreeBefore, Before, Precede
  <2>5. Merged(j.chunk)
    BY <1>3, <2>1, <2>2, <2>4, FreedMerged
  <2>6. OthersSame(m, j, a)
    BY <1>3, <2>2 DEF OthersSame, Kept
  <2>7. j.heaps = m.heaps /\ a \in Loose(j) /\ ~j.chunk[a].used /\ Len(j.bins[0]) <= 1
        /\ (z => Len(j.bins[0]) = 0)
    BY <1>2, <1>3, <2>2 DEF SameHold
  <2>8. Tidy(File(j, a, z))
    BY <1>1, <1>5, <2>2, <2>5, <2>6, <2>7, FileTidy
  <2> QED
    BY <2>3, <2>8 DEF n
<1> QED
  BY <1>6, <1>7

(* Every step keeps the context tidy until the first realloc. *)
LEMMA AllocTidy ==
  ASSUME BlocksInv, TidyInv, resizes = 0, NEW si \in Sizes, Alloc(si)
  PROVE  Tidy(mem')
<1>1. Good(mem) /\ Placed(mem) /\ Settled(mem, live) /\ Tidy(mem)
  BY InvParts DEF TidyInv
<1>2. AllListed(mem)
  BY <1>1 DEF Settled, AllListed
<1>3. PICK ok \in ParentHas("alloc") : Become(bin_mem_alloc(mem, si, ok)[1])
  BY DEF Alloc
<1>4. PICK r : r = bin_mem_alloc(mem, si, ok)
  OBVIOUS
<1>5. si \in Nat \ 0 .. 7 /\ ok \in BOOLEAN
  BY AskedIs
<1>6. ChunkFor(si) \in Nat
  BY AskedIs
<1>7. Tidy(r[1])
  BY <1>1, <1>2, <1>4, <1>5, RequestTidy
<1>8. Answered(mem, r, si)
  BY <1>1, <1>4, <1>5, AllocAnswered
<1>9. IsMem(r[1])
  BY <1>8 DEF Answered, Refused, Given, Lent, Good
<1> DEFINE n == r[1]
<1>10. Tidy(n) /\ IsMem(n) /\ Become(n)
  BY <1>3, <1>4, <1>7, <1>9
<1> HIDE DEF n
<1>11. mem' = n
  BY <1>10, BecomeIs
<1> QED
  BY <1>10, <1>11

LEMMA FreeStepTidy ==
  ASSUME BlocksInv, TidyInv, resizes = 0, NEW a \in DOMAIN live, Free(a)
  PROVE  Tidy(mem')
<1>1. Owned(mem, live) /\ Good(mem) /\ Tidy(mem)
  BY InvParts DEF TidyInv
<1>2. a \in DOMAIN mem.chunk
  BY MemIs DEF Free
<1>3. a \in UsedOf(mem)
  BY <1>1, <1>2, OwnedParts
<1>4. TagsAgree(mem, a)
  BY <1>1, <1>2, TagsAgreeAlways
<1>5. PICK n : n = FreeChunk(mem, a)
  OBVIOUS
<1>6. Become(n)
  BY <1>4, <1>5 DEF Free
<1>7. Freed(mem, n, a)
  BY <1>1, <1>3, <1>5, ChunkFreed
<1>8. mem' = n
  BY <1>6, <1>7, BecomeIs DEF Freed, Good
<1>9. Tidy(n)
  BY <1>1, <1>3, <1>5, FreeTidy
<1> QED
  BY <1>8, <1>9

LEMMA FreeLargeTidy ==
  ASSUME TidyInv, resizes = 0, NEW a, FreeLarge(a)
  PROVE  Tidy(mem')
<1>1. PICK n : n = mem'
  OBVIOUS
<1>2. n.chunk = mem.chunk /\ n.heaps = mem.heaps /\ n.bins = mem.bins
  BY <1>1 DEF FreeLarge, mem
<1>3. Tidy(mem)
  BY DEF TidyInv
<1>4. Tidy(n)
  BY <1>2, <1>3, SameTidy DEF Tidy
<1> QED
  BY <1>1, <1>4

(* A block is lost only to a realloc. *)
LEMMA NothingLost ==
  ASSUME BlocksInv, TidyInv, resizes = 0, NEW a \in DOMAIN live
  PROVE  ~FreeLost(a)
<1>1. Known(mem, live)
  BY InvParts DEF TidyInv, Settled
<1> QED
  BY <1>1, MemIs DEF Known, FreeLost

LEMMA EmptyTidy ==
  ASSUME chunk' = <<>>, bins' = EmptyBins, heaps' = {}, large' = <<>>, heap_size' = 0
  PROVE  Tidy(mem')
<1>1. mem' = EmptyMem
  BY DEF mem, Mem, EmptyMem
<1> QED
  BY <1>1, EmptyOwned

LEMMA TidyStep ==
  ASSUME BlocksInv, TidyInv, [Next]_vars
  PROVE  TidyInv'
<1>1. resizes \in 0 .. MaxResizes /\ resizes \in Nat
  BY InvParts, BoundsAssumption
<1>2. CASE UNCHANGED vars
  <2>1. mem' = mem /\ resizes' = resizes /\ failed' = failed
    BY <1>2 DEF vars, mem
  <2> QED
    BY <2>1 DEF TidyInv
<1>3. CASE \E si \in Sizes : Alloc(si)
  <2>1. PICK si \in Sizes : Alloc(si)
    BY <1>3
  <2>2. resizes' = resizes /\ failed' = failed
    BY <2>1 DEF Alloc
  <2>3. resizes = 0 => ~failed /\ Tidy(mem')
    BY <2>1, AllocTidy DEF TidyInv
  <2> QED
    BY <2>2, <2>3 DEF TidyInv
<1>4. CASE \E a \in DOMAIN live : Free(a)
  <2>1. PICK a \in DOMAIN live : Free(a)
    BY <1>4
  <2>2. resizes' = resizes /\ failed' = failed
    BY <2>1 DEF Free
  <2>3. resizes = 0 => ~failed /\ Tidy(mem')
    BY <2>1, FreeStepTidy DEF TidyInv
  <2> QED
    BY <2>2, <2>3 DEF TidyInv
<1>5. CASE \E a \in DOMAIN live : FreeLarge(a)
  <2>1. PICK a \in DOMAIN live : FreeLarge(a)
    BY <1>5
  <2>2. resizes' = resizes /\ failed' = failed
    BY <2>1 DEF FreeLarge
  <2>3. resizes = 0 => ~failed /\ Tidy(mem')
    BY <2>1, FreeLargeTidy DEF TidyInv
  <2> QED
    BY <2>2, <2>3 DEF TidyInv
<1>6. CASE \E a \in DOMAIN live : FreeLost(a)
  <2>1. resizes' = resizes
    BY <1>6 DEF FreeLost
  <2>2. resizes # 0
    BY <1>6, NothingLost
  <2> QED
    BY <2>1, <2>2 DEF TidyInv
<1>7. CASE \E a \in DOMAIN live, si \in ReSizes : Realloc(a, si) \/ ReallocLarge(a, si)
  <2>1. resizes' = resizes + 1
    BY <1>7 DEF Realloc, ReallocLarge
  <2>2. resizes' # 0
    BY <1>1, <2>1
  <2> QED
    BY <2>2 DEF TidyInv
<1>8. CASE Reset \/ Clear \/ \E si \in Sizes : AllocFromFreed(si)
  <2>1. /\ chunk' = <<>> /\ bins' = EmptyBins /\ heaps' = {} /\ large' = <<>> /\ heap_size' = 0
        /\ resizes' = resizes /\ (~failed => ~failed')
    BY <1>8 DEF Reset, Clear, ForgetEverything, AllocFromFreed
  <2>2. Tidy(mem')
    BY <2>1, EmptyTidy
  <2> QED
    BY <2>1, <2>2 DEF TidyInv
<1> QED
  BY <1>2, <1>3, <1>4, <1>5, <1>6, <1>7, <1>8 DEF Next

LEMMA TidyHolds == ASSUME BlocksInv, TidyInv PROVE FewFragments
<1> SUFFICES ASSUME resizes = 0 PROVE FewFragments
  BY DEF FewFragments, LastSplitOnly, Coalesced
<1>1. Tidy(mem) /\ Good(mem)
  BY InvParts DEF TidyInv
<1>2. LastSplitOnly
  BY <1>1, MemIs DEF Tidy, LastSplitOnly
<1>3. \A a : After(mem, a) = Follow(chunk, a)
  BY MemIs DEF After, SizeOf, Follow
<1>4. \A a \in DOMAIN chunk : chunk[a].next => chunk[a].used \/ chunk[After(mem, a)].used
  BY <1>1, <1>3, MemIs DEF Tidy, Merged
<1>5. ASSUME Cardinality(heaps) > 1, NEW x \in DOMAIN chunk
      PROVE  chunk[x].size < Step
  <2>1. PICK a, b \in heaps : a # b
    <3> SUFFICES ASSUME \A a, b \in heaps : a = b PROVE FALSE
      OBVIOUS
    <3>1. heaps = {} \/ \E a \in heaps : heaps = {a}
      OBVIOUS
    <3>2. Cardinality(heaps) \in {0, 1}
      BY <3>1, FS_EmptySet, FS_Singleton
    <3> QED
      BY <1>5, <3>2
  <2> QED
    BY <1>1, <2>1, MemIs DEF Tidy
<1>6. Coalesced
  BY <1>4, <1>5 DEF Coalesced
<1> QED
  BY <1>2, <1>6 DEF FewFragments

(* Until the first realloc bins[0] holds the rest of the last split and    *)
(* nothing else, no two free chunks are neighbours, and a heap that nobody *)
(* uses is kept only when it is the only one: every free merges all it can *)
(* and no request takes a new heap while an old one is free.               *)
THEOREM FewFragmentsAlways == Spec => []FewFragments
<1>1. Init => TidyInv
  <2> SUFFICES ASSUME Init PROVE TidyInv
    OBVIOUS
  <2>1. mem = EmptyMem
    BY DEF Init, mem, EmptyMem, Mem
  <2>2. Tidy(mem)
    BY <2>1, EmptyOwned
  <2> QED
    BY <2>2 DEF Init, TidyInv
<1>2. BlocksInv /\ TidyInv /\ [Next]_vars => TidyInv'
  BY TidyStep
<1>3. BlocksInv /\ TidyInv => FewFragments
  BY TidyHolds
<1> QED
  BY <1>1, <1>2, <1>3, BlocksKept, PTL DEF Spec
=============================================================================
