-------------------------- MODULE LosMemoryProofs ---------------------------
(***************************************************************************)
(* Theorems about LosMemory, for every size of the pool, of the requests   *)
(* and of the classes: the nodes, the free lists and the bitmap agree,     *)
(* blocks are accepted back, no stretch of free words that is long enough  *)
(* is overlooked, and the blocks never overlap (Heap).                     *)
(*                                                                         *)
(* Between the steps of one call the pool is not in order: a node is free  *)
(* and in no list yet, and lies beside another free node.  The lemmas on   *)
(* the operations therefore speak of a pool that is in order but for the   *)
(* node that is worked on (Open), and of the nodes that a call spares      *)
(* (Keeps): the blocks in those are still where they were.                 *)
(***************************************************************************)
EXTENDS LosMemory, SequenceTheorems, WellFoundedInduction, TLAPS

-----------------------------------------------------------------------------
(* Size classes.                                                           *)

\* Numbers have a least one.
LEMMA LeastNumber ==
  ASSUME NEW B \in SUBSET Nat, B # {}
  PROVE  \E x \in B : \A y \in B : x <= y
<1>1. PICK x \in B : \A y \in B : ~(<<y, x>> \in OpToRel(<, Nat))
  BY NatLessThanWellFounded, WFMin
<1>2. \A y \in B : ~(y < x)
  BY <1>1 DEF OpToRel
<1> QED BY <1>2

\* A number below a bound: a set of them has a greatest.
LEMMA GreatestNumber ==
  ASSUME NEW m \in Nat, NEW B \in SUBSET (0..m), B # {}
  PROVE  \E x \in B : \A y \in B : y <= x
<1> DEFINE C == {m - x : x \in B}
<1>1. C \in SUBSET Nat /\ C # {}
  <2>1. \A x \in B : x \in 0..m
    OBVIOUS
  <2>2. \A x \in 0..m : m - x \in Nat
    OBVIOUS
  <2> QED BY <2>1, <2>2
<1>2. PICK c \in C : \A d \in C : c <= d
  BY <1>1, LeastNumber
<1>3. PICK x \in B : c = m - x
  BY <1>2
<1>4. ASSUME NEW y \in B PROVE y <= x
  <2>1. m - y \in C
    OBVIOUS
  <2>2. m - x <= m - y
    BY <2>1, <1>2, <1>3
  <2> QED BY <2>2
<1> QED BY <1>3, <1>4

\* The powers of two that sizes meet.
LEMMA PowersOfTwo ==
  ASSUME NEW f \in 0..29
  PROVE  /\ 2^f \in Nat \ {0}
         /\ 2^(f + 1) = 2 * 2^f
<1> DEFINE P(k) == 2^k
<1>1. /\ P(0) = 1 /\ P(1) = 2 /\ P(2) = 4 /\ P(3) = 8 /\ P(4) = 16
      /\ P(5) = 32 /\ P(6) = 64 /\ P(7) = 128 /\ P(8) = 256 /\ P(9) = 512
      /\ P(10) = 1024 /\ P(11) = 2048 /\ P(12) = 4096 /\ P(13) = 8192 /\ P(14) = 16384
      /\ P(15) = 32768 /\ P(16) = 65536 /\ P(17) = 131072 /\ P(18) = 262144 /\ P(19) = 524288
      /\ P(20) = 1048576 /\ P(21) = 2097152 /\ P(22) = 4194304 /\ P(23) = 8388608 /\ P(24) = 16777216
      /\ P(25) = 33554432 /\ P(26) = 67108864 /\ P(27) = 134217728 /\ P(28) = 268435456 /\ P(29) = 536870912
      /\ P(30) = 1073741824
  BY SMT
<1> HIDE DEF P
<1>2. \/ f = 0 \/ f = 1 \/ f = 2 \/ f = 3 \/ f = 4 \/ f = 5 \/ f = 6 \/ f = 7 \/ f = 8 \/ f = 9
      \/ f = 10 \/ f = 11 \/ f = 12 \/ f = 13 \/ f = 14 \/ f = 15 \/ f = 16 \/ f = 17 \/ f = 18 \/ f = 19
      \/ f = 20 \/ f = 21 \/ f = 22 \/ f = 23 \/ f = 24 \/ f = 25 \/ f = 26 \/ f = 27 \/ f = 28 \/ f = 29
  OBVIOUS
<1>3. P(f) \in Nat \ {0} /\ P(f + 1) = 2 * P(f)
  BY <1>1, <1>2, SMT
<1> QED BY <1>3 DEF P

\* ... whichever of them it is.
LEMMA PowerType ==
  ASSUME NEW f \in 0..30
  PROVE  2^f \in Nat \ {0}
<1>1. CASE f = 30
  <2>1. 29 + 1 = 30 /\ 29 \in 0..29
    OBVIOUS
  <2>2. 2^29 \in Nat \ {0} /\ 2^(29 + 1) = 2 * 2^29
    BY <2>1, PowersOfTwo
  <2> QED BY <2>1, <2>2, <1>1
<1>2. CASE f # 30
  <2>1. f \in 0..29
    BY <1>2
  <2> QED BY <2>1, PowersOfTwo
<1> QED BY <1>1, <1>2

\* The powers of two grow by factors of two at least.
LEMMA PowersGrow ==
  ASSUME NEW f \in 0..30, NEW g \in 0..30, f < g
  PROVE  2 * 2^f <= 2^g
<1> DEFINE Bad == {h \in Nat : h \in 0..30 /\ f < h /\ ~(2 * 2^f <= 2^h)}
<1>1. SUFFICES ASSUME Bad # {} PROVE FALSE
  OBVIOUS
<1>2. PICK h \in Bad : \A y \in Bad : h <= y
  BY <1>1, LeastNumber
<1>3. h \in 1..30 /\ h - 1 \in 0..29 /\ (h - 1) + 1 = h /\ f \in 0..29
  <2>1. h \in 0..30 /\ f < h
    BY <1>2
  <2> QED BY <2>1
<1>4. 2^(h - 1) \in Nat \ {0} /\ 2^h = 2 * 2^(h - 1) /\ 2^f \in Nat \ {0} /\ 2^h \in Nat \ {0}
  <2>1. 2^(h - 1) \in Nat \ {0} /\ 2^((h - 1) + 1) = 2 * 2^(h - 1)
    BY <1>3, PowersOfTwo
  <2> QED BY <2>1, <1>3, PowerType
<1>5. CASE h - 1 = f
  BY <1>5, <1>4, <1>2
<1>6. CASE h - 1 # f
  <2>1. h - 1 \notin Bad /\ f < h - 1
    BY <1>2, <1>3, <1>6
  <2>2. 2 * 2^f <= 2^(h - 1)
    BY <2>1, <1>3
  <2> QED BY <2>2, <1>4, <1>2
<1> QED BY <1>5, <1>6

\* The sizes that have a class.
Sizes == {w \in Nat : w > 0 /\ w \div 2 < 2^30}

\* OsMemFLS is the position of the highest bit.
LEMMA Log2Is ==
  ASSUME NEW w \in Sizes
  PROVE  /\ Log2(w) \in 0..30
         /\ 2^Log2(w) <= w /\ w < 2 * 2^Log2(w)
<1> DEFINE Fits(f) == 2^f <= w /\ w \div 2 < 2^f
           B == {f \in Nat : f \in 0..30 /\ w \div 2 < 2^f}
<1>1. w \in Nat /\ w > 0 /\ w \div 2 \in Nat
  BY DEF Sizes
<1>2. \E f \in 0..30 : Fits(f)
  <2>1. 30 \in B
    BY DEF Sizes
  <2>2. PICK f \in B : \A y \in B : f <= y
    BY <2>1, LeastNumber
  <2>3. CASE f = 0
    <3>1. 2^0 = 1
      BY SMT
    <3> QED BY <3>1, <2>2, <2>3, <1>1
  <2>4. CASE f # 0
    <3>1. f - 1 \in 0..29 /\ (f - 1) + 1 = f
      BY <2>2, <2>4
    <3>2. 2^(f - 1) \in Nat \ {0} /\ 2^((f - 1) + 1) = 2 * 2^(f - 1)
      BY <3>1, PowersOfTwo
    <3>3. ~(w \div 2 < 2^(f - 1))
      BY <3>1, <2>2
    <3>4. 2 * 2^(f - 1) <= w
      <4>1. PICK m \in Nat : m = 2^(f - 1)
        BY <3>2
      <4>2. m <= w \div 2
        BY <4>1, <3>3, <1>1
      <4> QED BY <4>1, <4>2, <1>1
    <3> QED BY <3>1, <3>2, <3>4, <2>2
  <2> QED BY <2>3, <2>4
<1>3. Log2(w) \in 0..30 /\ Fits(Log2(w))
  BY <1>2 DEF Log2
<1>4. PICK m \in Nat : m = 2^Log2(w)
  BY <1>3, PowerType
<1>5. w < 2 * m
  BY <1>1, <1>3, <1>4
<1> QED BY <1>3, <1>4, <1>5

\* A larger size has no lower highest bit.
LEMMA Log2Grows ==
  ASSUME NEW w \in Sizes, NEW v \in Sizes, w <= v
  PROVE  Log2(w) <= Log2(v)
<1>1. SUFFICES ASSUME Log2(v) < Log2(w) PROVE FALSE
  BY Log2Is
<1>2. PICK m \in Nat : m = 2^Log2(v)
  BY Log2Is, PowerType
<1>3. PICK k \in Nat : k = 2^Log2(w)
  BY Log2Is, PowerType
<1>4. 2 * m <= k /\ v < 2 * m /\ k <= w /\ w \in Nat /\ v \in Nat
  BY <1>1, <1>2, <1>3, Log2Is, PowersGrow DEF Sizes
<1> QED BY <1>2, <1>3, <1>4

-----------------------------------------------------------------------------
\* The classes: one for each small size, 2^SLI for each power of two.
LEMMA SmallMaxIsSize == SmallMax \in Sizes /\ SmallMax > 1
<1>1. PICK f \in 1..30 : SmallMax = 2^f
  BY ClassAssumption
<1>2. f - 1 \in 0..29 /\ (f - 1) + 1 = f /\ 30 \in 0..30 /\ f - 1 \in 0..30 /\ f - 1 < 30
  OBVIOUS
<1>3. 2^(f - 1) \in Nat \ {0} /\ 2^f = 2 * 2^(f - 1)
  <2>1. 2^((f - 1) + 1) = 2 * 2^(f - 1) /\ 2^(f - 1) \in Nat \ {0}
    BY <1>2, PowersOfTwo
  <2> QED BY <2>1, <1>2
<1>4. 2 * 2^(f - 1) <= 2^30 /\ 2^30 \in Nat
  BY <1>2, PowersGrow, PowerType
<1>5. PICK m \in Nat \ {0} : m = 2^(f - 1)
  BY <1>3
<1>6. PICK k \in Nat : k = 2^30
  BY <1>4
<1>7. SmallMax = 2 * m /\ 2 * m <= k
  BY <1>1, <1>3, <1>4, <1>5, <1>6
<1>8. (2 * m) \div 2 = m /\ m < k
  BY <1>7
<1> QED BY <1>6, <1>7, <1>8 DEF Sizes

ClassIs(x, K) ==
  /\ x < SmallMax => OsMemFreeListIndexGet(x) = x - 1
  /\ ~(x < SmallMax) =>
       /\ Log2(SmallMax) <= Log2(x)
       /\ \E r \in K .. (2 * K - 1) :
            OsMemFreeListIndexGet(x) = (SmallMax - 1) + (Log2(x) - Log2(SmallMax)) * K + r - K

LEMMA Classes ==
  ASSUME NEW w \in Sizes, NEW K \in Nat \ {0}, K = 2^SLI
  PROVE  ClassIs(w, K)
<1>1. CASE w < SmallMax
  BY <1>1 DEF ClassIs, OsMemFreeListIndexGet
<1>2. CASE ~(w < SmallMax)
  <2>1. PICK m \in Nat \ {0} : m = 2^Log2(w)
    BY Log2Is, PowerType
  <2>2. m <= w /\ w < 2 * m /\ w \in Nat
    BY <2>1, Log2Is DEF Sizes
  <2>3. PICK n \in Nat : n = w * K
    BY <2>2
  <2>4. n >= K * m /\ n < (2 * K) * m
    BY <2>2, <2>3
  <2>5. PICK k \in Nat : k = 2 * K
    OBVIOUS
  <2>6. K <= n \div m /\ n \div m < k
    BY <2>4, <2>5
  <2>7. PICK r \in Nat : r = n \div m
    OBVIOUS
  <2>8. r \in K .. (2 * K - 1)
    BY <2>5, <2>6, <2>7
  <2>9. OsMemFreeListIndexGet(w) = (SmallMax - 1) + (Log2(w) - Log2(SmallMax)) * K + r - K
    BY <2>1, <2>3, <2>7, <1>2 DEF OsMemFreeListIndexGet
  <2>10. Log2(SmallMax) <= Log2(w)
    BY <1>2, <2>2, SmallMaxIsSize, Log2Grows DEF Sizes
  <2> QED BY <2>8, <2>9, <2>10, <1>2 DEF ClassIs
<1> QED BY <1>1, <1>2

\* A larger size has no earlier class, and a class below SmallMax has one size
\* (OsMemFreeListIndexGet).
LEMMA ClassGrows ==
  ASSUME NEW w \in Sizes, NEW v \in Sizes, w <= v
  PROVE  /\ OsMemFreeListIndexGet(w) \in Nat
         /\ OsMemFreeListIndexGet(w) <= OsMemFreeListIndexGet(v)
         /\ w < SmallMax /\ w < v => OsMemFreeListIndexGet(w) < OsMemFreeListIndexGet(v)
<1>1. PICK K \in Nat \ {0} : K = 2^SLI
  BY ClassAssumption, PowerType
<1>2. PICK s \in Nat : s = SmallMax /\ s > 1
  BY SmallMaxIsSize DEF Sizes
<1>3. PICK g \in Int : g = Log2(SmallMax)
  BY SmallMaxIsSize, Log2Is
<1>4. PICK f \in Int : f = Log2(w)
  BY Log2Is
<1>5. PICK h \in Int : h = Log2(v) /\ f <= h
  BY Log2Is, Log2Grows, <1>4
<1>6. PICK c : c = OsMemFreeListIndexGet(w)
  OBVIOUS
<1>7. PICK d : d = OsMemFreeListIndexGet(v)
  OBVIOUS
<1>8. /\ w < s => c = w - 1
      /\ ~(w < s) => g <= f /\ \E r \in K .. (2 * K - 1) : c = (s - 1) + (f - g) * K + r - K
  BY <1>1, <1>2, <1>3, <1>4, <1>6, Classes DEF ClassIs
<1>9. /\ v < s => d = v - 1
      /\ ~(v < s) => g <= h /\ \E r \in K .. (2 * K - 1) : d = (s - 1) + (h - g) * K + r - K
  BY <1>1, <1>2, <1>3, <1>5, <1>7, Classes DEF ClassIs
<1>10. w \in Nat \ {0} /\ v \in Nat \ {0}
  BY DEF Sizes
<1>11. \A x, y \in Int : x <= y => x * K <= y * K
  BY SMT
<1>12. (f - g) \in Int /\ (h - g) \in Int /\ (f - g) * K \in Int /\ (h - g) * K \in Int
  OBVIOUS
<1>13. CASE v < s
  BY <1>8, <1>9, <1>10, <1>13, <1>6, <1>7, <1>2
<1>14. CASE w < s /\ ~(v < s)
  <2>1. 0 <= h - g /\ 0 * K = 0
    BY <1>9, <1>14
  <2>2. 0 <= (h - g) * K
    BY <2>1, <1>11, <1>12
  <2>3. PICK a \in Nat : a = (h - g) * K
    BY <2>2, <1>12
  <2>4. PICK r \in K .. (2 * K - 1) : d = (s - 1) + a + r - K
    BY <1>9, <1>14, <2>3
  <2>5. d >= s - 1
    BY <2>3, <2>4
  <2> QED BY <2>4, <2>5, <1>8, <1>14, <1>10, <1>6, <1>7, <1>2
<1>15. CASE ~(w < s)
  <2>1. ~(v < s)
    BY <1>15, <1>10
  <2>2. PICK a \in Int : a = (f - g) * K
    BY <1>12
  <2>3. PICK b \in Int : b = (h - g) * K
    BY <1>12
  <2>4. PICK q \in K .. (2 * K - 1) : c = (s - 1) + a + q - K
    BY <1>8, <1>15, <2>2
  <2>5. PICK r \in K .. (2 * K - 1) : d = (s - 1) + b + r - K
    BY <1>9, <2>1, <2>3
  <2>6. 0 <= a
    <3>1. 0 <= f - g /\ 0 * K = 0
      BY <1>8, <1>15
    <3> QED BY <3>1, <1>11, <1>12, <2>2
  <2>7. CASE f = h
    <3>1. PICK m \in Nat \ {0} : m = 2^f
      BY <1>4, Log2Is, PowerType
    <3>2. c = (s - 1) + a + (w * K) \div m - K /\ d = (s - 1) + a + (v * K) \div m - K
      BY <1>1, <1>2, <1>3, <1>4, <1>5, <1>6, <1>7, <1>15, <2>1, <2>2, <2>7, <3>1
         DEF OsMemFreeListIndexGet
    <3>3. PICK x \in Nat : x = w * K
      BY <1>10
    <3>4. PICK y \in Nat : y = v * K
      BY <1>10
    <3>5. x <= y
      BY <3>3, <3>4, <1>10
    <3>6. x \div m <= y \div m
      BY <3>5
    <3>7. c <= d
      BY <3>2, <3>3, <3>4, <3>6
    <3> QED BY <3>7, <2>4, <2>6, <1>15, <1>6, <1>7, <1>2
  <2>8. CASE f # h
    <3>1. f + 1 <= h /\ (f - g) + 1 <= h - g /\ (f - g) + 1 \in Int
      BY <2>8, <1>5
    <3>2. ((f - g) + 1) * K <= (h - g) * K
      BY <3>1, <1>11, <1>12
    <3>3. ((f - g) + 1) * K = a + K
      BY <2>2
    <3>4. a + K <= b
      BY <3>2, <3>3, <2>3
    <3> QED BY <3>4, <2>4, <2>5, <2>6, <1>15, <1>6, <1>7, <1>2
  <2> QED BY <2>7, <2>8
<1> QED BY <1>13, <1>14, <1>15

-----------------------------------------------------------------------------
(* Lists.                                                                  *)

\* Each node is in the list once.
Distinct(list) == \A j, k \in DOMAIN list : list[j] = list[k] => j = k

\* Removal of the i-th node closes the list up around it.
LEMMA RemoveAtProperties ==
  ASSUME NEW S, NEW s \in Seq(S), NEW i \in 1..Len(s)
  PROVE  /\ RemoveAt(s, i) \in Seq(S)
         /\ Len(RemoveAt(s, i)) = Len(s) - 1
         /\ \A j \in 1..(Len(s) - 1) :
              RemoveAt(s, i)[j] = IF j < i THEN s[j] ELSE s[j + 1]
<1> DEFINE a == SubSeq(s, 1, i - 1)
           b == SubSeq(s, i + 1, Len(s))
<1>1. Len(s) \in Nat /\ i \in Int
  BY LenProperties
<1>2. \A j \in 1..Len(s) : s[j] \in S
  BY ElementOfSeq
<1>3. /\ a \in Seq(S) /\ Len(a) = i - 1
      /\ \A j \in 1..(i - 1) : a[j] = s[j]
  <2>1. \A j \in 1..(i - 1) : s[j] \in S
    BY <1>1, <1>2
  <2> QED BY <2>1, <1>1, SubSeqProperties
<1>4. /\ b \in Seq(S) /\ Len(b) = Len(s) - i
      /\ \A j \in 1..(Len(s) - i) : b[j] = s[i + j]
  <2>1. \A j \in (i + 1)..Len(s) : s[j] \in S
    BY <1>1, <1>2
  <2>2. /\ b \in Seq(S)
        /\ Len(b) = IF i + 1 <= Len(s) THEN Len(s) - (i + 1) + 1 ELSE 0
        /\ \A j \in 1..(Len(s) - (i + 1) + 1) : b[j] = s[(i + 1) + j - 1]
    BY <2>1, <1>1, SubSeqProperties
  <2> QED BY <2>2, <1>1
<1>5. RemoveAt(s, i) = a \o b
  BY DEF RemoveAt
<1>6. /\ a \o b \in Seq(S)
      /\ Len(a \o b) = Len(a) + Len(b)
      /\ \A j \in 1..(Len(a) + Len(b)) :
           (a \o b)[j] = IF j <= Len(a) THEN a[j] ELSE b[j - Len(a)]
  BY <1>3, <1>4, ConcatProperties
<1> HIDE DEF a, b
<1> QED BY <1>1, <1>3, <1>4, <1>5, <1>6

\* LOS_ListDelete: from a list that holds each node once, exactly t goes.
LEMMA WithoutProperties ==
  ASSUME NEW S, NEW s \in Seq(S), NEW t
  PROVE  /\ Without(s, t) \in Seq(S)
         /\ Distinct(s) => /\ Distinct(Without(s, t))
                           /\ \A u : In(u, Without(s, t)) <=> In(u, s) /\ u # t
<1>1. CASE ~In(t, s)
  BY <1>1 DEF Without, In
<1>2. CASE In(t, s)
  <2> DEFINE i == CHOOSE j \in DOMAIN s : s[j] = t
             w == RemoveAt(s, i)
  <2>1. DOMAIN s = 1..Len(s) /\ Len(s) \in Nat
    BY LenProperties
  <2>2. i \in 1..Len(s) /\ s[i] = t
    BY <1>2, <2>1 DEF In
  <2>3. Without(s, t) = w
    BY <1>2 DEF Without
  <2> HIDE DEF i
  <2>4. /\ w \in Seq(S) /\ Len(w) = Len(s) - 1
        /\ \A j \in 1..(Len(s) - 1) : w[j] = IF j < i THEN s[j] ELSE s[j + 1]
    BY <2>2, RemoveAtProperties
  <2>5. DOMAIN w = 1..(Len(s) - 1)
    BY <2>4, LenProperties
  <2> HIDE DEF w
  <2>6. ASSUME Distinct(s)
        PROVE  Distinct(w) /\ \A u : In(u, w) <=> In(u, s) /\ u # t
    <3>1. ASSUME NEW a \in 1..(Len(s) - 1), NEW b \in 1..(Len(s) - 1), w[a] = w[b]
          PROVE  a = b
      <4>1. (IF a < i THEN a ELSE a + 1) = (IF b < i THEN b ELSE b + 1)
        <5>1. /\ (IF a < i THEN a ELSE a + 1) \in 1..Len(s)
              /\ (IF b < i THEN b ELSE b + 1) \in 1..Len(s)
          BY <2>1, <2>2
        <5> QED BY <5>1, <2>1, <2>4, <2>6, <3>1 DEF Distinct
      <4> QED BY <4>1, <2>1, <2>2
    <3>2. ASSUME NEW u, In(u, w) PROVE In(u, s) /\ u # t
      BY <3>2, <2>1, <2>2, <2>4, <2>5, <2>6 DEF Distinct, In
    <3>3. ASSUME NEW u, In(u, s), u # t PROVE In(u, w)
      <4>1. PICK j \in 1..Len(s) : s[j] = u
        BY <3>3, <2>1 DEF In
      <4>2. CASE j < i
        BY <4>1, <4>2, <2>1, <2>2, <2>4, <2>5 DEF In
      <4>3. CASE j > i
        <5>1. j - 1 \in 1..(Len(s) - 1) /\ w[j - 1] = s[j]
          BY <4>3, <2>1, <2>2, <2>4
        <5> QED BY <5>1, <4>1, <2>5 DEF In
      <4> QED BY <4>1, <4>2, <4>3, <3>3, <2>1, <2>2
    <3> QED BY <3>1, <3>2, <3>3, <2>5 DEF Distinct
  <2> QED BY <2>3, <2>4, <2>6
<1> QED BY <1>1, <1>2

\* A node put at the head of a list that does not hold it.
LEMMA HeadPut ==
  ASSUME NEW S, NEW s \in Seq(S), NEW t \in S
  PROVE  /\ <<t>> \o s \in Seq(S) /\ <<t>> \o s # <<>>
         /\ \A u : In(u, <<t>> \o s) <=> In(u, s) \/ u = t
         /\ Distinct(s) /\ ~In(t, s) => Distinct(<<t>> \o s)
<1>1. /\ DOMAIN s = 1..Len(s) /\ Len(s) \in Nat
      /\ <<t>> \in Seq(S) /\ Len(<<t>>) = 1 /\ <<t>>[1] = t
  BY LenProperties
<1>2. /\ <<t>> \o s \in Seq(S) /\ Len(<<t>> \o s) = 1 + Len(s)
      /\ \A i \in 1..(1 + Len(s)) : (<<t>> \o s)[i] = IF i <= 1 THEN <<t>>[i] ELSE s[i - 1]
  BY <1>1, ConcatProperties
<1> DEFINE y == <<t>> \o s
<1>3. DOMAIN y = 1..(Len(s) + 1)
  BY <1>1, <1>2, LenProperties
<1>4. y # <<>>
  BY <1>1, <1>2
<1>5. \A i \in 1..(Len(s) + 1) : y[i] = IF i = 1 THEN t ELSE s[i - 1]
  BY <1>1, <1>2
<1> HIDE DEF y
<1>6. ASSUME NEW u PROVE In(u, y) <=> In(u, s) \/ u = t
  <2>1. ASSUME NEW i \in 1..Len(s) PROVE i + 1 \in 1..(Len(s) + 1) /\ y[i + 1] = s[i]
    BY <1>1, <1>5
  <2>2. 1 \in 1..(Len(s) + 1) /\ y[1] = t
    BY <1>1, <1>5
  <2>3. In(u, s) \/ u = t => In(u, y)
    BY <2>1, <2>2, <1>1, <1>3 DEF In
  <2>4. In(u, y) => In(u, s) \/ u = t
    <3>1. ASSUME NEW i \in 1..(Len(s) + 1), y[i] = u
          PROVE  In(u, s) \/ u = t
      <4>1. i = 1 \/ (i - 1 \in 1..Len(s) /\ y[i] = s[i - 1])
        BY <1>1, <1>5
      <4> QED BY <4>1, <3>1, <2>2, <1>1 DEF In
    <3> QED BY <3>1, <1>3 DEF In
  <2> QED BY <2>3, <2>4
<1>7. ASSUME Distinct(s), ~In(t, s) PROVE Distinct(y)
  <2>1. ASSUME NEW i \in 1..(Len(s) + 1), NEW j \in 1..(Len(s) + 1), y[i] = y[j]
        PROVE  i = j
    <3>1. /\ i = 1 \/ (i - 1 \in 1..Len(s) /\ y[i] = s[i - 1])
          /\ j = 1 \/ (j - 1 \in 1..Len(s) /\ y[j] = s[j - 1])
          /\ y[1] = t
      BY <1>1, <1>5
    <3>2. \A k \in 1..Len(s) : s[k] # t
      BY <1>1, <1>7 DEF In
    <3>3. \A k, l \in 1..Len(s) : s[k] = s[l] => k = l
      BY <1>1, <1>7 DEF Distinct
    <3> QED BY <3>1, <3>2, <3>3, <2>1, <1>1
  <2> QED BY <2>1, <1>3 DEF Distinct
<1> QED BY <1>2, <1>4, <1>6, <1>7 DEF y

-----------------------------------------------------------------------------
(* The nodes tile the pool.                                                *)

\* The heads at 0, at EndNode and at each word where a node ends; each knows the
\* node before it.
Tiles(N) ==
  /\ N = [a \in DOMAIN N |-> N[a]]
  /\ DOMAIN N \subseteq 0..EndNode /\ 0 \in DOMAIN N /\ EndNode \in DOMAIN N
  /\ \A a \in DOMAIN N : N[a] \in NodeHead
  /\ N[EndNode].used /\ N[0].prev = EndNode
  /\ \A a \in DOMAIN N \ {EndNode} :
       /\ N[a].size > 0 /\ a + N[a].size \in DOMAIN N /\ N[a + N[a].size].prev = a
       /\ \A b \in DOMAIN N : a < b => a + N[a].size <= b
  /\ \A a \in DOMAIN N \ {0} :
       N[a].prev \in DOMAIN N \ {EndNode} /\ N[a].prev + N[N[a].prev].size = a

\* The numbers.
LEMMA PoolNumbers == PoolSize \in Nat /\ EndNode \in Nat \ {0} /\ EndNode < PoolSize
BY PoolAssumption DEF EndNode, HeadSize, MinLeft

\* What is known of a node and its neighbours.
LEMMA NodeFacts ==
  ASSUME NEW N, Tiles(N), NEW a \in DOMAIN N
  PROVE  /\ a \in Int /\ 0 <= a /\ a <= EndNode /\ N[a].size \in Int /\ N[a] \in NodeHead
         /\ a # EndNode => /\ 0 < N[a].size /\ N[a].size <= PoolSize
                           /\ a + N[a].size \in DOMAIN N /\ a + N[a].size <= EndNode
                           /\ N[a + N[a].size].prev = a
         /\ a # 0 => /\ N[a].prev \in DOMAIN N \ {EndNode}
                     /\ N[a].prev + N[N[a].prev].size = a /\ N[a].prev < a
<1>1. a \in 0..EndNode /\ N[a].size \in 0..PoolSize /\ N[a] \in NodeHead
  BY DEF Tiles, NodeHead
<1>2. a # EndNode => 0 < N[a].size /\ a + N[a].size \in DOMAIN N /\ N[a + N[a].size].prev = a
  BY DEF Tiles
<1>3. a # EndNode => a + N[a].size <= EndNode
  <2>1. \A x \in DOMAIN N : x <= EndNode
    BY PoolNumbers DEF Tiles
  <2> QED BY <2>1, <1>2
<1>4. ASSUME a # 0
      PROVE  N[a].prev \in DOMAIN N \ {EndNode} /\ N[a].prev + N[N[a].prev].size = a /\ N[a].prev < a
  <2>1. PICK b \in DOMAIN N \ {EndNode} : b = N[a].prev /\ b + N[b].size = a
    BY <1>4 DEF Tiles
  <2>2. b \in 0..EndNode /\ N[b].size \in 0..PoolSize /\ N[b].size > 0
    BY DEF Tiles, NodeHead
  <2> QED BY <2>1, <2>2, PoolNumbers
<1> QED BY <1>1, <1>2, <1>3, <1>4, PoolNumbers

\* Nodes behind a node begin behind its end.
LEMMA NextIsNext ==
  ASSUME NEW N, Tiles(N), NEW a \in DOMAIN N \ {EndNode}, NEW b \in DOMAIN N, a < b
  PROVE  a + N[a].size <= b
BY DEF Tiles

\* A header with other flags is a header.
LEMMA HeadFields ==
  ASSUME NEW h \in NodeHead
  PROVE  /\ \A n \in 0..PoolSize : /\ [h EXCEPT !.size = n] \in NodeHead
                                   /\ [h EXCEPT !.size = n].size = n
                                   /\ [h EXCEPT !.size = n].prev = h.prev
                                   /\ [h EXCEPT !.size = n].used = h.used
                                   /\ [h EXCEPT !.size = n].taskID = h.taskID
         /\ \A b \in 0..PoolSize : /\ [h EXCEPT !.prev = b] \in NodeHead
                                   /\ [h EXCEPT !.prev = b].size = h.size
                                   /\ [h EXCEPT !.prev = b].prev = b
                                   /\ [h EXCEPT !.prev = b].used = h.used
                                   /\ [h EXCEPT !.prev = b].taskID = h.taskID
BY DEF NodeHead

\* Node a as a part of the node before it.
Merged(N, a) ==
  [x \in DOMAIN N \ {a} |->
     IF x = N[a].prev THEN [N[x] EXCEPT !.size = @ + N[a].size]
     ELSE IF x = a + N[a].size THEN [N[x] EXCEPT !.prev = N[a].prev]
     ELSE N[x]]

\* ... which leaves the rest of the pool as it is.
IsMerged(N, a, M) ==
  LET b == N[a].prev
  IN  /\ Tiles(M) /\ DOMAIN M = DOMAIN N \ {a} /\ b \in DOMAIN M \ {EndNode}
      /\ M[b].size = N[b].size + N[a].size
      /\ b + M[b].size = a + N[a].size
      /\ \A x \in DOMAIN M : /\ x # b => M[x].size = N[x].size
                             /\ M[x].used = N[x].used /\ M[x].taskID = N[x].taskID

\* The nodes still tile the pool when a node is merged into the one before it.
LEMMA MergeTiles ==
  ASSUME NEW N, Tiles(N), NEW a \in DOMAIN N, a # 0, a # EndNode
  PROVE  IsMerged(N, a, Merged(N, a))
<1> DEFINE M == Merged(N, a)
           b == N[a].prev
           c == a + N[a].size
<1>1. /\ b \in DOMAIN N \ {EndNode} /\ b + N[b].size = a /\ b < a /\ b \in Int
      /\ c \in DOMAIN N /\ a < c /\ c <= EndNode /\ N[c].prev = a /\ c \in Int /\ a \in Int
      /\ N[a].size \in Int /\ N[b].size \in Int /\ 0 <= b /\ 0 < N[b].size /\ 0 < N[a].size
  BY NodeFacts
<1>2. DOMAIN M = DOMAIN N \ {a} /\ b \in DOMAIN M /\ c \in DOMAIN M /\ b # c
      /\ EndNode \in DOMAIN M /\ 0 \in DOMAIN M
  BY <1>1 DEF Merged, Tiles
<1>3. N[b].size + N[a].size \in 0..PoolSize /\ b \in 0..PoolSize
  BY <1>1, PoolNumbers
<1>4. /\ M[b] \in NodeHead /\ M[b].size = N[b].size + N[a].size /\ M[b].prev = N[b].prev
      /\ M[b].used = N[b].used /\ M[b].taskID = N[b].taskID
  <2>1. M[b] = [N[b] EXCEPT !.size = N[b].size + N[a].size]
    BY <1>2 DEF Merged
  <2>2. N[b] \in NodeHead
    BY <1>1, NodeFacts
  <2> QED BY <2>1, <2>2, <1>3, HeadFields
<1>5. /\ M[c] \in NodeHead /\ M[c].size = N[c].size /\ M[c].prev = b
      /\ M[c].used = N[c].used /\ M[c].taskID = N[c].taskID
  <2>1. M[c] = [N[c] EXCEPT !.prev = b]
    BY <1>2 DEF Merged
  <2>2. N[c] \in NodeHead
    BY <1>1, NodeFacts
  <2> QED BY <2>1, <2>2, <1>3, HeadFields
<1>6. \A x \in DOMAIN M : x # b /\ x # c => M[x] = N[x]
  BY DEF Merged
<1>7. M = [x \in DOMAIN M |-> M[x]]
  BY DEF Merged
<1> HIDE DEF M
<1>8. \A x \in DOMAIN M : /\ M[x] \in NodeHead /\ (x # b => M[x].size = N[x].size)
                          /\ M[x].used = N[x].used /\ M[x].taskID = N[x].taskID
                          /\ (x # c => M[x].prev = N[x].prev)
  <2>1. \A x \in DOMAIN M : N[x] \in NodeHead
    BY <1>2, NodeFacts
  <2> QED BY <2>1, <1>4, <1>5, <1>6
<1> HIDE DEF b, c
<1>9. b + M[b].size = c
  BY <1>1, <1>4 DEF c
<1>10. ASSUME NEW x \in DOMAIN M \ {EndNode}
       PROVE  /\ M[x].size > 0 /\ x + M[x].size \in DOMAIN M /\ M[x + M[x].size].prev = x
              /\ \A y \in DOMAIN M : x < y => x + M[x].size <= y
  <2>1. CASE x = b
    <3>1. ASSUME NEW y \in DOMAIN M, b < y PROVE c <= y
      <4>1. y \in DOMAIN N /\ y # a /\ y \in Int
        BY <1>2, NodeFacts
      <4>2. a <= y
        BY <4>1, <3>1, <1>1, NextIsNext
      <4> QED BY <4>1, <4>2, <1>1, NextIsNext DEF c
    <3> QED BY <3>1, <2>1, <1>1, <1>2, <1>4, <1>5, <1>9
  <2>2. CASE x # b
    <3>1. x \in DOMAIN N \ {EndNode} /\ x # a /\ M[x].size = N[x].size
      BY <2>2, <1>2, <1>8
    <3>2. PICK z : z = x + N[x].size
      OBVIOUS
    <3>3. z \in DOMAIN N /\ N[z].prev = x /\ N[x].size > 0
      BY <3>1, <3>2, NodeFacts
    <3>4. z # a /\ z # c
      BY <3>1, <3>3, <2>2, <1>1 DEF b
    <3>5. M[z].prev = x /\ z \in DOMAIN M
      BY <3>3, <3>4, <1>2, <1>8
    <3>6. \A y \in DOMAIN M : x < y => z <= y
      BY <3>1, <3>2, <1>2, NextIsNext
    <3> QED BY <3>1, <3>2, <3>3, <3>5, <3>6
  <2> QED BY <2>1, <2>2
<1>11. ASSUME NEW x \in DOMAIN M \ {0}
       PROVE  M[x].prev \in DOMAIN M \ {EndNode} /\ M[x].prev + M[M[x].prev].size = x
  <2>1. CASE x = c
    BY <2>1, <1>1, <1>2, <1>5, <1>9
  <2>2. CASE x # c
    <3>1. PICK y \in DOMAIN N \ {EndNode} : y = N[x].prev /\ y + N[y].size = x
      BY <1>2, NodeFacts
    <3>2. y # a /\ y # b
      BY <3>1, <2>2, <1>1, <1>2 DEF c
    <3>3. M[x].prev = y /\ y \in DOMAIN M /\ M[y].size = N[y].size
      BY <3>1, <3>2, <2>2, <1>2, <1>8
    <3> QED BY <3>1, <3>3
  <2> QED BY <2>1, <2>2
<1>12. M[EndNode].used /\ M[0].prev = EndNode
  <2>1. N[EndNode].used /\ N[0].prev = EndNode
    BY DEF Tiles
  <2>2. c # 0
    BY <1>1
  <2> QED BY <2>1, <2>2, <1>2, <1>8
<1>13. Tiles(M)
  <2>1. DOMAIN M \subseteq 0..EndNode
    BY <1>2 DEF Tiles
  <2> QED BY <2>1, <1>2, <1>7, <1>8, <1>10, <1>11, <1>12 DEF Tiles
<1> QED BY <1>1, <1>2, <1>4, <1>8, <1>9, <1>13 DEF M, b, c, IsMerged

\* Node a cut off after w words, the rest a free node.
Cut(N, a, w) ==
  [x \in DOMAIN N \cup {a + w} |->
     IF x = a THEN [N[a] EXCEPT !.size = w]
     ELSE IF x = a + w THEN [size |-> N[a].size - w, used |-> FALSE, aligned |-> FALSE,
                             prev |-> a, taskID |-> "none"]
     ELSE IF x = a + N[a].size THEN [N[x] EXCEPT !.prev = a + w]
     ELSE N[x]]

\* ... which leaves the rest of the pool as it is, too.
IsCut(N, a, w, C) ==
  LET rest == a + w
  IN  /\ Tiles(C) /\ DOMAIN C = DOMAIN N \cup {rest} /\ rest \notin DOMAIN N
      /\ rest \notin {0, EndNode} /\ rest # a /\ C[a].size = w /\ C[a].prev = N[a].prev
      /\ C[rest].size = N[a].size - w /\ ~C[rest].used
      /\ \A x \in DOMAIN N : /\ x # a => C[x].size = N[x].size
                             /\ C[x].used = N[x].used /\ C[x].taskID = N[x].taskID

\* The nodes still tile the pool when one of them is cut in two.
LEMMA CutTiles ==
  ASSUME NEW N, Tiles(N), NEW a \in DOMAIN N, a # EndNode, NEW w \in Nat, w > 0, w < N[a].size
  PROVE  IsCut(N, a, w, Cut(N, a, w))
<1> DEFINE C == Cut(N, a, w)
           r == a + w
           c == a + N[a].size
<1>1. /\ a \in Int /\ N[a].size \in Int /\ w \in Int /\ 0 < w /\ w < N[a].size /\ 0 <= a
      /\ c \in DOMAIN N /\ c \in Int /\ c <= EndNode /\ N[c].prev = a /\ N[a] \in NodeHead
      /\ N[c] \in NodeHead
  BY NodeFacts
<1>2. /\ a < r /\ r < c /\ r \in Int /\ r <= EndNode /\ r # 0 /\ r # EndNode /\ r \in 0..PoolSize
      /\ w \in 0..PoolSize /\ N[a].size - w \in 0..PoolSize /\ N[a].size - w > 0
      /\ r + (N[a].size - w) = c
  BY <1>1, NodeFacts, PoolNumbers
<1>3. r \notin DOMAIN N
  BY <1>1, <1>2, NextIsNext
<1>4. DOMAIN C = DOMAIN N \cup {r}
  BY DEF Cut
<1>5. C[a] \in NodeHead /\ C[a].size = w /\ C[a].prev = N[a].prev /\ C[a].used = N[a].used
      /\ C[a].taskID = N[a].taskID
  <2>1. C[a] = [N[a] EXCEPT !.size = w]
    BY <1>4 DEF Cut
  <2> QED BY <2>1, <1>1, <1>2, HeadFields
<1>6. C[r] \in NodeHead /\ C[r].size = N[a].size - w /\ C[r].prev = a /\ ~C[r].used
  <2>1. C[r] = [size |-> N[a].size - w, used |-> FALSE, aligned |-> FALSE, prev |-> a,
                taskID |-> "none"]
    BY <1>2, <1>4 DEF Cut
  <2>2. a \in 0..PoolSize
    BY <1>1, <1>2, PoolNumbers
  <2> QED BY <2>1, <2>2, <1>2 DEF NodeHead
<1>7. C[c] \in NodeHead /\ C[c].size = N[c].size /\ C[c].prev = r /\ C[c].used = N[c].used
      /\ C[c].taskID = N[c].taskID
  <2>1. C[c] = [N[c] EXCEPT !.prev = r]
    BY <1>1, <1>2, <1>4 DEF Cut
  <2> QED BY <2>1, <1>1, <1>2, HeadFields
<1>8. \A x \in DOMAIN C : x # a /\ x # r /\ x # c => C[x] = N[x]
  BY DEF Cut
<1>9. C = [x \in DOMAIN C |-> C[x]]
  BY DEF Cut
<1> HIDE DEF C
<1>10. \A x \in DOMAIN N : /\ C[x] \in NodeHead /\ (x # a => C[x].size = N[x].size)
                           /\ C[x].used = N[x].used /\ C[x].taskID = N[x].taskID
                           /\ (x # c => C[x].prev = N[x].prev)
  <2>1. ASSUME NEW x \in DOMAIN N
        PROVE  /\ C[x] \in NodeHead /\ (x # a => C[x].size = N[x].size)
               /\ C[x].used = N[x].used /\ C[x].taskID = N[x].taskID
               /\ (x # c => C[x].prev = N[x].prev)
    <3>1. CASE x = a
      BY <3>1, <1>5
    <3>2. CASE x = c /\ x # a
      BY <3>2, <1>7
    <3>3. CASE x # a /\ x # c
      <4>1. C[x] = N[x] /\ N[x] \in NodeHead
        BY <3>3, <1>3, <1>4, <1>8, NodeFacts
      <4> QED BY <4>1
    <3> QED BY <3>1, <3>2, <3>3
  <2> QED BY <2>1
<1> HIDE DEF r, c
<1>11. a + C[a].size = r /\ r + C[r].size = c /\ a + N[a].size = c
  BY <1>2, <1>5, <1>6 DEF r, c
<1>12. ASSUME NEW x \in DOMAIN C \ {EndNode}
       PROVE  /\ C[x].size > 0 /\ x + C[x].size \in DOMAIN C /\ C[x + C[x].size].prev = x
              /\ \A y \in DOMAIN C : x < y => x + C[x].size <= y
  <2>1. CASE x = a
    <3>1. ASSUME NEW y \in DOMAIN C, a < y PROVE r <= y
      <4>1. CASE y = r
        BY <4>1, <1>2
      <4>2. CASE y # r
        <5>1. y \in DOMAIN N
          BY <4>2, <1>4
        <5>2. c <= y /\ y \in Int
          BY <5>1, <3>1, <1>11, NextIsNext, NodeFacts
        <5> QED BY <5>2, <1>1, <1>2
      <4> QED BY <4>1, <4>2
    <3> QED BY <3>1, <2>1, <1>1, <1>4, <1>5, <1>6, <1>11
  <2>2. CASE x = r
    <3>1. ASSUME NEW y \in DOMAIN C, r < y PROVE c <= y
      <4>1. y \in DOMAIN N /\ y \in Int
        BY <3>1, <1>2, <1>4, NodeFacts
      <4>2. a < y
        BY <4>1, <3>1, <1>1, <1>2
      <4> QED BY <4>1, <4>2, <1>11, NextIsNext
    <3> QED BY <3>1, <2>2, <1>1, <1>2, <1>4, <1>6, <1>7, <1>11
  <2>3. CASE x # a /\ x # r
    <3>1. x \in DOMAIN N \ {EndNode} /\ C[x].size = N[x].size
      BY <2>3, <1>4, <1>10
    <3>2. PICK z : z = x + N[x].size
      OBVIOUS
    <3>3. z \in DOMAIN N /\ N[z].prev = x /\ N[x].size > 0 /\ z \in Int
      BY <3>1, <3>2, NodeFacts
    <3>4. z # c
      BY <3>3, <2>3, <1>1
    <3>5. C[z].prev = x /\ z \in DOMAIN C
      BY <3>3, <3>4, <1>4, <1>10
    <3>6. ASSUME NEW y \in DOMAIN C, x < y PROVE z <= y
      <4>1. CASE y = r
        <5>1. x \in Int
          BY <3>1, NodeFacts
        <5>2. x < a
          <6>1. CASE a < x
            <7>1. c <= x
              BY <6>1, <3>1, <1>11, NextIsNext
            <7> QED BY <7>1, <5>1, <4>1, <3>6, <1>1, <1>2
          <6> QED BY <6>1, <5>1, <2>3, <1>1
        <5>3. z <= a
          BY <5>2, <3>1, <3>2, NextIsNext
        <5> QED BY <5>3, <4>1, <3>3, <1>1, <1>2
      <4>2. CASE y # r
        BY <4>2, <3>6, <3>1, <3>2, <1>4, NextIsNext
      <4> QED BY <4>1, <4>2
    <3> QED BY <3>1, <3>2, <3>3, <3>5, <3>6
  <2> QED BY <2>1, <2>2, <2>3
<1>13. ASSUME NEW x \in DOMAIN C \ {0}
       PROVE  C[x].prev \in DOMAIN C \ {EndNode} /\ C[x].prev + C[C[x].prev].size = x
  <2>1. CASE x = c
    BY <2>1, <1>2, <1>4, <1>7, <1>11
  <2>2. CASE x = r
    BY <2>2, <1>4, <1>6, <1>11
  <2>3. CASE x # c /\ x # r
    <3>1. x \in DOMAIN N
      BY <2>3, <1>4
    <3>2. PICK y \in DOMAIN N \ {EndNode} : y = N[x].prev /\ y + N[y].size = x
      BY <3>1, NodeFacts
    <3>3. y # a
      BY <3>2, <2>3, <1>11
    <3>4. C[x].prev = y /\ y \in DOMAIN C /\ C[y].size = N[y].size
      BY <3>1, <3>2, <3>3, <2>3, <1>4, <1>10
    <3> QED BY <3>2, <3>4
  <2> QED BY <2>1, <2>2, <2>3
<1>14. C[EndNode].used /\ C[0].prev = EndNode /\ EndNode \in DOMAIN C /\ 0 \in DOMAIN C
  <2>1. N[EndNode].used /\ N[0].prev = EndNode /\ 0 \in DOMAIN N /\ EndNode \in DOMAIN N
    BY DEF Tiles
  <2>2. c # 0
    BY <1>1, <1>2
  <2> QED BY <2>1, <2>2, <1>4, <1>10
<1>15. Tiles(C)
  <2>1. DOMAIN C \subseteq 0..EndNode
    <3>1. r \in 0..EndNode
      BY <1>1, <1>2
    <3> QED BY <3>1, <1>4 DEF Tiles
  <2>2. \A x \in DOMAIN C : C[x] \in NodeHead
    BY <1>4, <1>6, <1>10
  <2> QED BY <2>1, <2>2, <1>9, <1>12, <1>13, <1>14 DEF Tiles
<1> QED BY <1>2, <1>3, <1>4, <1>5, <1>6, <1>10, <1>15 DEF C, r, c, IsCut

\* Flags do not move nodes.
LEMMA SameTiles ==
  ASSUME NEW N, Tiles(N), NEW M, M = [x \in DOMAIN N |-> M[x]],
         \A x \in DOMAIN N : /\ M[x] \in NodeHead
                             /\ M[x].size = N[x].size /\ M[x].prev = N[x].prev,
         M[EndNode].used
  PROVE  Tiles(M)
<1>1. DOMAIN M = DOMAIN N
  OBVIOUS
<1>2. \A x \in DOMAIN N \ {EndNode} : x + N[x].size \in DOMAIN N
  BY DEF Tiles
<1>3. \A x \in DOMAIN N \ {0} : N[x].prev \in DOMAIN N
  BY DEF Tiles
<1> QED BY <1>1, <1>2, <1>3 DEF Tiles

-----------------------------------------------------------------------------
(* The free lists.                                                         *)

\* The nodes of class i, but for those that an operation has taken out of the
\* lists and not put back yet.
Listed(p, out, i) ==
  {a \in DOMAIN p.node \ out : /\ ~p.node[a].used
                               /\ OsMemFreeListIndexGet(p.node[a].size) = i}

Lists(p, out) ==
  \A i \in Index : /\ Distinct(p.free[i])
                   /\ i \in p.bitmap <=> p.free[i] # <<>>
                   /\ \A a : In(a, p.free[i]) <=> a \in Listed(p, out, i)

IsPool(p) ==
  /\ p = [node |-> p.node, free |-> p.free, bitmap |-> p.bitmap, curUsed |-> p.curUsed]
  /\ p.free \in [Index -> Seq(Int)] /\ p.bitmap \subseteq Index

\* The sizes of nodes, and those that are asked for, have a class.
LEMMA SizesOfNodes ==
  /\ \A n \in 1..PoolSize : n \in Sizes /\ OsMemFreeListIndexGet(n) \in Index
  /\ \A n \in 1..(2 * 2^30 - 1) : n \in Sizes
<1>1. PICK m \in Nat \ {0} : m = 2^30
  <2>1. 30 \in 0..30
    OBVIOUS
  <2> QED BY <2>1, PowerType
<1>2. \A n \in 1..(2 * 2^30 - 1) : n \in Sizes
  <2>1. \A n \in 1..(2 * m - 1) : n \in Nat /\ n > 0 /\ n \div 2 < m
    OBVIOUS
  <2> QED BY <2>1, <1>1 DEF Sizes
<1>3. ASSUME NEW n \in 1..PoolSize
      PROVE  n \in Sizes /\ OsMemFreeListIndexGet(n) \in Index
  <2>1. PoolSize \in Nat /\ PoolSize < m
    BY <1>1, PoolNumbers, RequestAssumption
  <2>2. n \in Nat /\ n > 0 /\ n <= PoolSize
    BY <2>1
  <2>3. n \in Sizes /\ PoolSize \in Sizes
    <3>1. n \in 1..(2 * m - 1) /\ PoolSize \in 1..(2 * m - 1)
      BY <2>1, <2>2
    <3> QED BY <3>1, <1>1, <1>2
  <2>4. /\ OsMemFreeListIndexGet(n) \in Nat /\ OsMemFreeListIndexGet(PoolSize) \in Nat
        /\ OsMemFreeListIndexGet(n) <= OsMemFreeListIndexGet(PoolSize)
    BY <2>2, <2>3, ClassGrows
  <2> QED BY <2>3, <2>4 DEF Index
<1> QED BY <1>2, <1>3

\* ... so does each node of the pool but the end node.
LEMMA NodeClass ==
  ASSUME NEW N, Tiles(N), NEW a \in DOMAIN N \ {EndNode}
  PROVE  N[a].size \in Sizes /\ OsMemFreeListIndexGet(N[a].size) \in Index
<1>1. N[a].size \in Int /\ 0 < N[a].size /\ N[a].size <= PoolSize /\ PoolSize \in Int
  BY NodeFacts, PoolNumbers
<1>2. N[a].size \in 1..PoolSize
  BY <1>1
<1> QED BY <1>2, SizesOfNodes

\* The lists need no change when the same nodes are free, of the same sizes.
LEMMA ListsSame ==
  ASSUME NEW p, NEW q, NEW out, NEW more, Lists(p, out),
         q.free = p.free, q.bitmap = p.bitmap,
         \A x : /\ (x \in DOMAIN q.node \ more /\ ~q.node[x].used)
                     <=> (x \in DOMAIN p.node \ out /\ ~p.node[x].used)
                /\ x \in DOMAIN p.node \ out /\ ~p.node[x].used
                     => q.node[x].size = p.node[x].size
  PROVE  Lists(q, more)
<1>1. ASSUME NEW i, NEW x PROVE x \in Listed(q, more, i) <=> x \in Listed(p, out, i)
  BY DEF Listed
<1> QED BY <1>1 DEF Lists

\* OsMemFreeNodeDelete: the node is out of the lists.
LEMMA FreeNodeDelete ==
  ASSUME NEW p, NEW out, IsPool(p), Tiles(p.node), Lists(p, out),
         NEW a \in DOMAIN p.node \ {EndNode}
  PROVE  LET q == OsMemFreeNodeDelete(p, a)
         IN  IsPool(q) /\ q.node = p.node /\ Lists(q, out \cup {a})
<1> DEFINE q    == OsMemFreeNodeDelete(p, a)
           i    == OsMemFreeListIndexGet(p.node[a].size)
           rest == Without(p.free[i], a)
<1>1. i \in Index
  BY NodeClass
<1>2. p.free[i] \in Seq(Int)
  BY <1>1 DEF IsPool
<1>3. rest \in Seq(Int)
  BY <1>2, WithoutProperties
<1>4. /\ Distinct(p.free[i])
      /\ \A u : In(u, p.free[i]) <=> u \in Listed(p, out, i)
  BY <1>1 DEF Lists
<1>5. /\ Distinct(rest)
      /\ \A u : In(u, rest) <=> In(u, p.free[i]) /\ u # a
  BY <1>2, <1>4, WithoutProperties
<1>6. q = [p EXCEPT !.free[i] = rest, !.bitmap = IF rest = <<>> THEN @ \ {i} ELSE @]
  BY DEF OsMemFreeNodeDelete
<1>7. i \in p.bitmap <=> p.free[i] # <<>>
  BY <1>1 DEF Lists
<1>8. p.free[i] = <<>> => rest = <<>>
  <2>1. p.free[i] = <<>> => ~In(a, p.free[i])
    BY DEF In
  <2> QED BY <2>1 DEF Without
<1> HIDE DEF i, rest, q
<1>9. /\ q = [node |-> p.node, free |-> [p.free EXCEPT ![i] = rest],
              bitmap |-> IF rest = <<>> THEN p.bitmap \ {i} ELSE p.bitmap,
              curUsed |-> p.curUsed]
  BY <1>6 DEF IsPool
<1>10. IsPool(q) /\ q.node = p.node
  <2>1. [p.free EXCEPT ![i] = rest] \in [Index -> Seq(Int)]
    BY <1>3 DEF IsPool
  <2> QED BY <2>1, <1>9 DEF IsPool
<1>11. ASSUME NEW k \in Index
       PROVE  /\ Distinct(q.free[k]) /\ (k \in q.bitmap <=> q.free[k] # <<>>)
              /\ \A u : In(u, q.free[k]) <=> u \in Listed(q, out \cup {a}, k)
  <2>1. CASE k = i
    <3>1. q.free[k] = rest
      BY <2>1, <1>9 DEF IsPool
    <3>2. \A u : u \in Listed(q, out \cup {a}, i) <=> u \in Listed(p, out, i) /\ u # a
      BY <1>10 DEF Listed
    <3>3. i \in q.bitmap <=> rest # <<>>
      BY <1>7, <1>8, <1>9
    <3> QED BY <3>1, <3>2, <3>3, <1>4, <1>5, <2>1
  <2>2. CASE k # i
    <3>1. q.free[k] = p.free[k] /\ (k \in q.bitmap <=> k \in p.bitmap)
      BY <2>2, <1>9 DEF IsPool
    <3>2. \A u : u \in Listed(q, out \cup {a}, k) <=> u \in Listed(p, out, k)
      BY <2>2, <1>10 DEF Listed, i
    <3> QED BY <3>1, <3>2 DEF Lists
  <2> QED BY <2>1, <2>2
<1>12. Lists(q, out \cup {a})
  BY <1>11 DEF Lists
<1> QED BY <1>10, <1>12 DEF q

\* OsMemFreeNodeAdd: a free node is back in the lists.
LEMMA FreeNodeAdd ==
  ASSUME NEW p, NEW out, IsPool(p), Tiles(p.node), Lists(p, out),
         NEW a \in DOMAIN p.node \ {EndNode}, a \in out, ~p.node[a].used
  PROVE  LET q == OsMemFreeNodeAdd(p, a)
         IN  IsPool(q) /\ q.node = p.node /\ Lists(q, out \ {a})
<1> DEFINE q    == OsMemFreeNodeAdd(p, a)
           i    == OsMemFreeListIndexGet(p.node[a].size)
           more == <<a>> \o p.free[i]
<1>1. i \in Index
  BY NodeClass
<1>2. p.free[i] \in Seq(Int) /\ a \in Int
  BY <1>1, NodeFacts DEF IsPool
<1>3. /\ Distinct(p.free[i])
      /\ \A u : In(u, p.free[i]) <=> u \in Listed(p, out, i)
  BY <1>1 DEF Lists
<1>4. ~In(a, p.free[i])
  BY <1>3 DEF Listed
<1>5. /\ more \in Seq(Int) /\ more # <<>> /\ Distinct(more)
      /\ \A u : In(u, more) <=> In(u, p.free[i]) \/ u = a
  BY <1>2, <1>3, <1>4, HeadPut
<1>6. q = [p EXCEPT !.free[i] = more, !.bitmap = @ \cup {i}]
  BY <1>1 DEF OsMemFreeNodeAdd, IsPool
<1> HIDE DEF i, more, q
<1>7. q = [node |-> p.node, free |-> [p.free EXCEPT ![i] = more],
           bitmap |-> p.bitmap \cup {i}, curUsed |-> p.curUsed]
  BY <1>6 DEF IsPool
<1>8. IsPool(q) /\ q.node = p.node
  <2>1. [p.free EXCEPT ![i] = more] \in [Index -> Seq(Int)]
    BY <1>5 DEF IsPool
  <2> QED BY <2>1, <1>1, <1>7 DEF IsPool
<1>9. ASSUME NEW k \in Index
      PROVE  /\ Distinct(q.free[k]) /\ (k \in q.bitmap <=> q.free[k] # <<>>)
             /\ \A u : In(u, q.free[k]) <=> u \in Listed(q, out \ {a}, k)
  <2>1. CASE k = i
    <3>1. q.free[k] = more /\ k \in q.bitmap
      BY <2>1, <1>7 DEF IsPool
    <3>2. \A u : u \in Listed(q, out \ {a}, i) <=> u \in Listed(p, out, i) \/ u = a
      BY <1>8 DEF Listed, i
    <3> QED BY <3>1, <3>2, <1>3, <1>5, <2>1
  <2>2. CASE k # i
    <3>1. q.free[k] = p.free[k] /\ (k \in q.bitmap <=> k \in p.bitmap)
      BY <2>2, <1>7 DEF IsPool
    <3>2. \A u : u \in Listed(q, out \ {a}, k) <=> u \in Listed(p, out, k)
      BY <2>2, <1>8 DEF Listed, i
    <3> QED BY <3>1, <3>2 DEF Lists
  <2> QED BY <2>1, <2>2
<1>10. Lists(q, out \ {a})
  BY <1>9 DEF Lists
<1> QED BY <1>8, <1>10 DEF q

-----------------------------------------------------------------------------
(* A node that is being worked on.                                         *)

\* No two free nodes touch, but for those at the nodes of X.
AltAway(N, X) ==
  \A x \in DOMAIN N \ {EndNode} :
    x \notin X /\ x + N[x].size \notin X => N[x].used \/ N[x + N[x].size].used

UsedIn(N) == {x \in DOMAIN N : N[x].used}

\* The used nodes, but for those of S, are the same as before.
Keeps(N, M, S) ==
  /\ \A x : x \notin S => (x \in UsedIn(M) <=> x \in UsedIn(N))
  /\ \A x : x \in UsedIn(N) /\ x \notin S => M[x].size = N[x].size /\ M[x].taskID = N[x].taskID

\* What two operations keep, the two together keep.
LEMMA KeepsTwice ==
  ASSUME NEW N, NEW M, NEW K, NEW S, Keeps(N, M, S), Keeps(M, K, S)
  PROVE  Keeps(N, K, S)
BY DEF Keeps

\* An operation that spares the nodes of R spares those of a larger set.
LEMMA KeepsMore ==
  ASSUME NEW N, NEW M, NEW S, NEW R, Keeps(N, M, R), R \subseteq S
  PROVE  Keeps(N, M, S)
BY DEF Keeps

\* Node n, the last of those in X, is free and in no list, and the nodes next
\* to it may be free as well.
Open(p, n, X) ==
  /\ IsPool(p) /\ Tiles(p.node) /\ Lists(p, X) /\ AltAway(p.node, X)
  /\ n \in DOMAIN p.node \ {EndNode} /\ ~p.node[n].used /\ n \in X
  /\ \A x \in X : x \in Int /\ x <= n

\* OsMemMergeNode: nothing of the rest of the pool changes.
Merges(p, out, a, q) ==
  LET b == p.node[a].prev
  IN  /\ IsPool(q) /\ Tiles(q.node) /\ Lists(q, out \ {a})
      /\ DOMAIN q.node = DOMAIN p.node \ {a} /\ b \in DOMAIN q.node \ {EndNode} /\ b < a
      /\ q.node[b].size = p.node[b].size + p.node[a].size
      /\ b + q.node[b].size = a + p.node[a].size
      /\ \A x \in DOMAIN q.node : /\ x # b => q.node[x].size = p.node[x].size
                                  /\ q.node[x].used = p.node[x].used
      /\ Keeps(p.node, q.node, {})
      /\ \A X : AltAway(p.node, X) /\ a \in X /\ b \in X => AltAway(q.node, X \ {a})

\* OsMemMergeNode keeps the tiling, the free lists and the used nodes.
LEMMA MergeNode ==
  ASSUME NEW p, NEW out, IsPool(p), Tiles(p.node), Lists(p, out),
         NEW a \in DOMAIN p.node \ {0, EndNode}, a \in out, ~p.node[a].used,
         p.node[a].prev \in out, ~p.node[p.node[a].prev].used
  PROVE  Merges(p, out, a, OsMemMergeNode(p, a))
<1> DEFINE N == p.node
           q == OsMemMergeNode(p, a)
           M == Merged(N, a)
           b == N[a].prev
<1>1. q = [p EXCEPT !.node = M]
  BY DEF OsMemMergeNode, Merged, NextNode
<1>2. /\ Tiles(M) /\ DOMAIN M = DOMAIN N \ {a} /\ b \in DOMAIN M \ {EndNode}
      /\ M[b].size = N[b].size + N[a].size
      /\ b + M[b].size = a + N[a].size
      /\ \A x \in DOMAIN M : /\ x # b => M[x].size = N[x].size
                             /\ M[x].used = N[x].used /\ M[x].taskID = N[x].taskID
  <2>1. Tiles(N) /\ a \in DOMAIN N /\ a # 0 /\ a # EndNode
    OBVIOUS
  <2> HIDE DEF N
  <2>2. IsMerged(N, a, M)
    BY <2>1, MergeTiles
  <2> QED BY <2>2 DEF IsMerged
<1>3. b \in DOMAIN N \ {EndNode} /\ b + N[b].size = a /\ b < a
  BY NodeFacts
<1> HIDE DEF M, q
<1>4. q = [node |-> M, free |-> p.free, bitmap |-> p.bitmap, curUsed |-> p.curUsed]
  BY <1>1 DEF IsPool
<1>5. IsPool(q) /\ q.node = M /\ q.free = p.free /\ q.bitmap = p.bitmap
  BY <1>4 DEF IsPool
<1>6. Lists(q, out \ {a})
  <2>1. \A x : /\ (x \in DOMAIN M \ (out \ {a}) /\ ~M[x].used)
                    <=> (x \in DOMAIN N \ out /\ ~N[x].used)
               /\ x \in DOMAIN N \ out /\ ~N[x].used => M[x].size = N[x].size
    BY <1>2
  <2> QED BY <2>1, <1>5, ListsSame
<1>7. Keeps(N, M, {})
  BY <1>2 DEF Keeps, UsedIn
<1>8. ASSUME NEW X, AltAway(N, X), a \in X, b \in X PROVE AltAway(M, X \ {a})
  <2>1. ASSUME NEW x \in DOMAIN M \ {EndNode}, x \notin X \ {a}, x + M[x].size \notin X \ {a}
        PROVE  M[x].used \/ M[x + M[x].size].used
    <3>1. x \in DOMAIN N \ {EndNode} /\ x # a /\ x # b /\ M[x].size = N[x].size
      BY <1>2, <1>8, <1>3, <2>1
    <3>2. x + N[x].size # a
      <4>1. x + N[x].size = a => N[a].prev = x
        BY <3>1, NodeFacts
      <4> QED BY <4>1, <3>1
    <3>3. N[x].used \/ N[x + N[x].size].used
      BY <3>1, <3>2, <2>1, <1>8 DEF AltAway
    <3>4. x + M[x].size \in DOMAIN M
      BY <1>2, <2>1, NodeFacts
    <3> QED BY <3>1, <3>3, <3>4, <1>2
  <2> QED BY <2>1 DEF AltAway
<1> QED BY <1>2, <1>3, <1>5, <1>6, <1>7, <1>8 DEF q, Merges

\* The free node n together with the next node, if that is free.
Join(p, n) ==
  IF p.node[NextNode(p, n)].used THEN p
  ELSE OsMemMergeNode(OsMemFreeNodeDelete(p, NextNode(p, n)), NextNode(p, n))

\* ... is followed by a used node, and its beginning is the same.
IsJoined(p, n, X, q) ==
  /\ Open(q, n, X) /\ q.node[NextNode(q, n)].used
  /\ p.node[n].size <= q.node[n].size
  /\ ~p.node[NextNode(p, n)].used =>
       q.node[n].size = p.node[n].size + p.node[NextNode(p, n)].size
  /\ \A x \in DOMAIN p.node : x <= n => x \in DOMAIN q.node
  /\ \A x \in DOMAIN q.node : /\ x \in DOMAIN p.node
                              /\ x # n => q.node[x].size = p.node[x].size
                              /\ q.node[x].used = p.node[x].used
  /\ Keeps(p.node, q.node, {})

\* The node on which an operation works takes in the free node that follows it.
LEMMA JoinNext ==
  ASSUME NEW p, NEW n, NEW X, Open(p, n, X)
  PROVE  IsJoined(p, n, X, Join(p, n))
<1>1. PICK N : N = p.node
  OBVIOUS
<1>2. PICK c : c = n + N[n].size
  OBVIOUS
<1>3. NextNode(p, n) = c
  BY <1>1, <1>2 DEF NextNode
<1>4. /\ IsPool(p) /\ Tiles(N) /\ Lists(p, X) /\ AltAway(N, X)
      /\ n \in DOMAIN N \ {EndNode} /\ ~N[n].used /\ n \in X
      /\ \A x \in X : x \in Int /\ x <= n
  BY <1>1 DEF Open
<1>5. /\ n \in Int /\ 0 <= n /\ N[n].size \in Int /\ N[n].size > 0
      /\ c \in DOMAIN N /\ c \in Int /\ n < c /\ N[c].prev = n /\ c \notin X
  <2>1. /\ n \in Int /\ 0 <= n /\ N[n].size \in Int /\ N[n].size > 0 /\ c \in DOMAIN N /\ N[c].prev = n
    BY <1>2, <1>4, NodeFacts
  <2> QED BY <2>1, <1>2, <1>4
<1>6. CASE N[c].used
  <2>1. Join(p, n) = p
    BY <1>1, <1>3, <1>6 DEF Join
  <2>2. Keeps(N, N, {})
    BY DEF Keeps
  <2> QED BY <2>1, <2>2, <1>1, <1>3, <1>5, <1>6 DEF IsJoined, Open
<1>7. CASE ~N[c].used
  <2>1. PICK d : d = OsMemFreeNodeDelete(p, c)
    OBVIOUS
  <2>2. PICK q : q = OsMemMergeNode(d, c)
    OBVIOUS
  <2>3. Join(p, n) = q
    BY <2>1, <2>2, <1>1, <1>3, <1>7 DEF Join
  <2>4. c \in DOMAIN N /\ c # 0 /\ c # EndNode /\ c \in DOMAIN p.node \ {EndNode}
    BY <1>1, <1>4, <1>5, <1>7 DEF Tiles
  <2>5. IsPool(d) /\ d.node = N /\ Lists(d, X \cup {c})
    BY <2>1, <2>4, <1>1, <1>4, FreeNodeDelete
  <2>6. /\ c \in DOMAIN d.node \ {0, EndNode} /\ c \in X \cup {c} /\ ~d.node[c].used /\ Tiles(d.node)
        /\ d.node[c].prev \in X \cup {c} /\ ~d.node[d.node[c].prev].used /\ d.node[c].prev = n
    BY <2>4, <2>5, <1>4, <1>5, <1>7
  <2>7. /\ IsPool(q) /\ Tiles(q.node) /\ Lists(q, (X \cup {c}) \ {c})
        /\ DOMAIN q.node = DOMAIN N \ {c} /\ n \in DOMAIN q.node \ {EndNode}
        /\ q.node[n].size = N[n].size + N[c].size
        /\ n + q.node[n].size = c + N[c].size
        /\ \A x \in DOMAIN q.node : /\ x # n => q.node[x].size = N[x].size
                                    /\ q.node[x].used = N[x].used
        /\ Keeps(N, q.node, {})
        /\ \A Y : AltAway(N, Y) /\ c \in Y /\ n \in Y => AltAway(q.node, Y \ {c})
    <3>1. Merges(d, X \cup {c}, c, q)
      BY <2>2, <2>5, <2>6, MergeNode
    <3> QED BY <3>1, <2>5, <2>6 DEF Merges
  <2>8. (X \cup {c}) \ {c} = X
    BY <1>5
  <2>9. AltAway(q.node, X)
    <3>1. AltAway(N, X \cup {c})
      BY <1>4 DEF AltAway
    <3> QED BY <3>1, <2>7, <2>8, <1>4
  <2>10. Open(q, n, X)
    BY <2>7, <2>8, <2>9, <1>4 DEF Open
  <2>11. PICK e : e = c + N[c].size
    OBVIOUS
  <2>12. e \in DOMAIN N /\ e \in Int /\ c < e /\ N[c].size \in Int /\ N[c].size > 0
    <3>1. e \in DOMAIN N /\ N[c].size \in Int /\ N[c].size > 0
      BY <2>4, <2>11, <1>4, NodeFacts
    <3> QED BY <3>1, <2>11, <1>5
  <2>13. N[e].used
    <3>1. e \notin X
      BY <2>12, <1>4, <1>5
    <3> QED BY <3>1, <2>4, <2>11, <1>4, <1>5, <1>7 DEF AltAway
  <2>14. q.node[NextNode(q, n)].used
    <3>1. NextNode(q, n) = e /\ e \in DOMAIN q.node
      BY <2>7, <2>11, <2>12 DEF NextNode
    <3> QED BY <3>1, <2>7, <2>13
  <2>15. \A x \in DOMAIN N : x <= n => x \in DOMAIN q.node
    BY <2>7, <1>5
  <2>16. N[n].size <= q.node[n].size
    BY <2>7, <2>12, <1>5
  <2> QED BY <2>3, <2>7, <2>10, <2>14, <2>15, <2>16, <1>1, <1>3 DEF IsJoined
<1> QED BY <1>6, <1>7

\* OsMemSplitNode: node a of the size asked for, and the rest in the lists.
IsSplit(p, a, w, q) ==
  /\ Open(q, a, {a}) /\ Keeps(p.node, q.node, {})
  /\ q.node[a].size = w

\* OsMemSplitNode leaves the node with w words, and puts the rest, with the free
\* node behind it if there is one, into its list.
LEMMA SplitNode ==
  ASSUME NEW p, NEW a, Open(p, a, {a}), NEW w \in Nat, w > 0, w < p.node[a].size
  PROVE  IsSplit(p, a, w, OsMemSplitNode(p, a, w))
<1>1. PICK N : N = p.node
  OBVIOUS
<1>2. PICK rest : rest = a + w
  OBVIOUS
<1>3. PICK C : C = Cut(N, a, w)
  OBVIOUS
<1>4. PICK cut : cut = [p EXCEPT !.node = C]
  OBVIOUS
<1>5. /\ IsPool(p) /\ Tiles(N) /\ Lists(p, {a}) /\ AltAway(N, {a})
      /\ a \in DOMAIN N \ {EndNode} /\ ~N[a].used
  BY <1>1 DEF Open
<1>6. /\ Tiles(C) /\ DOMAIN C = DOMAIN N \cup {rest} /\ rest \notin DOMAIN N
      /\ rest \notin {0, EndNode} /\ rest # a /\ C[a].size = w
      /\ C[rest].size = N[a].size - w /\ ~C[rest].used
      /\ \A x \in DOMAIN N : /\ x # a => C[x].size = N[x].size
                             /\ C[x].used = N[x].used /\ C[x].taskID = N[x].taskID
  <2>1. IsCut(N, a, w, C)
    BY <1>1, <1>3, <1>5, CutTiles
  <2> QED BY <2>1, <1>2 DEF IsCut
<1>7. /\ a \in Int /\ N[a].size \in Int /\ rest \in Int /\ a < rest /\ 0 < N[a].size
      /\ rest + C[rest].size = a + N[a].size /\ a + N[a].size \in DOMAIN N
  <2>1. a \in Int /\ N[a].size \in Int /\ 0 < N[a].size /\ a + N[a].size \in DOMAIN N
    BY <1>5, NodeFacts
  <2> QED BY <2>1, <1>2, <1>6
<1>8. /\ cut = [node |-> C, free |-> p.free, bitmap |-> p.bitmap, curUsed |-> p.curUsed]
      /\ cut.node = C /\ cut.free = p.free /\ cut.bitmap = p.bitmap
  BY <1>4, <1>5 DEF IsPool
<1>9. IsPool(cut)
  BY <1>5, <1>8 DEF IsPool
<1>10. PICK X : X = {a, rest}
  OBVIOUS
<1>11. Lists(cut, X)
  <2>1. \A x : /\ (x \in DOMAIN C \ X /\ ~C[x].used) <=> (x \in DOMAIN N \ {a} /\ ~N[x].used)
               /\ x \in DOMAIN N \ {a} /\ ~N[x].used => C[x].size = N[x].size
    BY <1>6, <1>10
  <2> QED BY <2>1, <1>1, <1>5, <1>8, ListsSame
<1>12. AltAway(C, X)
  <2>1. ASSUME NEW x \in DOMAIN C \ {EndNode}, x \notin X, x + C[x].size \notin X
        PROVE  C[x].used \/ C[x + C[x].size].used
    <3>1. x \in DOMAIN N \ {EndNode} /\ x # a /\ C[x].size = N[x].size
      BY <2>1, <1>6, <1>10
    <3>2. x + N[x].size # a /\ x + N[x].size \in DOMAIN N
      BY <3>1, <2>1, <1>5, <1>10, NodeFacts
    <3>3. N[x].used \/ N[x + N[x].size].used
      BY <3>1, <3>2, <1>5 DEF AltAway
    <3> QED BY <3>1, <3>2, <3>3, <1>6
  <2> QED BY <2>1 DEF AltAway
<1>13. Open(cut, rest, X)
  BY <1>6, <1>7, <1>8, <1>9, <1>10, <1>11, <1>12 DEF Open
<1>14. PICK j : j = Join(cut, rest)
  OBVIOUS
<1>15. IsJoined(cut, rest, X, j)
  BY <1>13, <1>14, JoinNext
<1>16. OsMemSplitNode(p, a, w) = OsMemFreeNodeAdd(j, rest)
  <2>1. NextNode(p, a) = a + N[a].size /\ NextNode(cut, rest) = a + N[a].size
    BY <1>1, <1>7, <1>8 DEF NextNode
  <2>2. cut.node[NextNode(p, a)].used = p.node[NextNode(p, a)].used
    BY <2>1, <1>1, <1>6, <1>7, <1>8
  <2>3. cut = [p EXCEPT !.node = [x \in DOMAIN p.node \cup {rest} |->
                 IF x = a THEN [p.node[a] EXCEPT !.size = w]
                 ELSE IF x = rest THEN [size |-> p.node[a].size - w, used |-> FALSE,
                                        aligned |-> FALSE, prev |-> a, taskID |-> "none"]
                 ELSE IF x = NextNode(p, a) THEN [p.node[x] EXCEPT !.prev = rest]
                 ELSE p.node[x]]]
    BY <2>1, <1>1, <1>2, <1>3, <1>4 DEF Cut
  <2> QED BY <2>1, <2>2, <2>3, <1>2, <1>14 DEF OsMemSplitNode, Join
<1>17. PICK q : q = OsMemFreeNodeAdd(j, rest)
  OBVIOUS
<1>18. PICK M : M = j.node
  OBVIOUS
<1>19. /\ IsPool(j) /\ Tiles(M) /\ Lists(j, X) /\ AltAway(M, X) /\ rest \in DOMAIN M \ {EndNode}
       /\ ~M[rest].used /\ M[rest + M[rest].size].used
       /\ a \in DOMAIN M /\ M[a].size = w /\ ~M[a].used
       /\ Keeps(C, M, {})
  <2>1. Open(j, rest, X)
    BY <1>15 DEF IsJoined
  <2>2. a \in DOMAIN M
    <3>1. a \in DOMAIN cut.node /\ a <= rest
      BY <1>5, <1>6, <1>7, <1>8
    <3> QED BY <3>1, <1>15, <1>18 DEF IsJoined
  <2> QED BY <2>1, <2>2, <1>5, <1>6, <1>8, <1>15, <1>18 DEF IsJoined, Open, NextNode
<1>20. IsPool(q) /\ q.node = M /\ Lists(q, X \ {rest})
  <2>1. rest \in X
    BY <1>10
  <2> QED BY <2>1, <1>17, <1>18, <1>19, FreeNodeAdd
<1>21. X \ {rest} = {a}
  BY <1>6, <1>10
<1>22. AltAway(M, {a})
  <2>1. ASSUME NEW x \in DOMAIN M \ {EndNode}, x # a, x + M[x].size # a
        PROVE  M[x].used \/ M[x + M[x].size].used
    <3>1. CASE x = rest
      BY <3>1, <1>19
    <3>2. CASE x + M[x].size = rest
      <4>1. M[rest].prev = x
        BY <3>2, <2>1, <1>19, NodeFacts
      <4>2. a + M[a].size = rest /\ a # EndNode
        BY <1>2, <1>5, <1>19
      <4>3. M[rest].prev = a
        BY <4>2, <1>19, NodeFacts
      <4> QED BY <4>1, <4>3, <2>1
    <3>3. CASE x # rest /\ x + M[x].size # rest
      BY <3>3, <2>1, <1>10, <1>19 DEF AltAway
    <3> QED BY <3>1, <3>2, <3>3
  <2> QED BY <2>1 DEF AltAway
<1>23. Keeps(N, M, {})
  <2>1. Keeps(N, C, {})
    BY <1>5, <1>6 DEF Keeps, UsedIn
  <2> QED BY <2>1, <1>19, KeepsTwice
<1>24. Open(q, a, {a})
  BY <1>5, <1>7, <1>19, <1>20, <1>21, <1>22 DEF Open
<1> QED BY <1>1, <1>16, <1>17, <1>19, <1>20, <1>23, <1>24 DEF IsSplit

\* The pool between two operations.
Good(p) == IsPool(p) /\ Tiles(p.node) /\ Lists(p, {}) /\ AltAway(p.node, {})

\* Other flags in the header of node a.
Relabelled(p, a, h, k) ==
  [node |-> [p.node EXCEPT ![a] = h], free |-> p.free, bitmap |-> p.bitmap, curUsed |-> k]

\* What other flags in one header leave as it was.
LEMMA Relabel ==
  ASSUME NEW p, IsPool(p), Tiles(p.node), NEW a \in DOMAIN p.node, a # EndNode,
         NEW h \in NodeHead, h.size = p.node[a].size, h.prev = p.node[a].prev,
         NEW k, NEW q, q = Relabelled(p, a, h, k)
  PROVE  /\ IsPool(q) /\ Tiles(q.node) /\ DOMAIN q.node = DOMAIN p.node
         /\ \A x \in DOMAIN p.node : q.node[x] = IF x = a THEN h ELSE p.node[x]
         /\ Keeps(p.node, q.node, {a})
         /\ AltAway(p.node, {a}) => AltAway(q.node, {a})
         /\ AltAway(p.node, {a}) /\ h.used => AltAway(q.node, {})
         /\ Lists(p, {}) /\ p.node[a].used /\ ~h.used => Lists(q, {a})
         /\ Lists(p, {}) /\ p.node[a].used /\ h.used => Lists(q, {})
         /\ Lists(p, {a}) /\ h.used => Lists(q, {})
<1>1. PICK N : N = p.node
  OBVIOUS
<1>2. PICK M : M = [N EXCEPT ![a] = h]
  OBVIOUS
<1>3. /\ q = [node |-> M, free |-> p.free, bitmap |-> p.bitmap, curUsed |-> k]
      /\ q.node = M /\ q.free = p.free /\ q.bitmap = p.bitmap
  BY <1>1, <1>2 DEF Relabelled
<1>4. IsPool(q)
  BY <1>3 DEF IsPool
<1>5. /\ DOMAIN M = DOMAIN N /\ M = [x \in DOMAIN N |-> M[x]]
      /\ \A x \in DOMAIN N : M[x] = IF x = a THEN h ELSE N[x]
  BY <1>1, <1>2 DEF Tiles
<1>6. Tiles(M)
  <2>1. \A x \in DOMAIN N : M[x] \in NodeHead /\ M[x].size = N[x].size /\ M[x].prev = N[x].prev
    BY <1>1, <1>5, NodeFacts
  <2>2. M[EndNode].used
    BY <1>1, <1>5 DEF Tiles
  <2> QED BY <2>1, <2>2, <1>1, <1>5, SameTiles
<1>7. Keeps(N, M, {a})
  BY <1>5 DEF Keeps, UsedIn
<1>8. \A x \in DOMAIN N \ {EndNode} : M[x].size = N[x].size /\ x + N[x].size \in DOMAIN N
  BY <1>1, <1>5, NodeFacts
<1>9. AltAway(N, {a}) => AltAway(M, {a})
  BY <1>5, <1>8 DEF AltAway
<1>10. AltAway(N, {a}) /\ h.used => AltAway(M, {})
  BY <1>5, <1>8 DEF AltAway
<1>11. ASSUME NEW out, NEW more, Lists(p, out),
              \A x : (x \in DOMAIN M \ more /\ ~M[x].used) <=> (x \in DOMAIN N \ out /\ ~N[x].used)
       PROVE  Lists(q, more)
  <2>1. \A x \in DOMAIN N : M[x].size = N[x].size
    BY <1>1, <1>5
  <2> QED BY <2>1, <1>1, <1>3, <1>11, ListsSame
<1>12. Lists(p, {}) /\ N[a].used /\ ~h.used => Lists(q, {a})
  <2>1. N[a].used => \A x : (x \in DOMAIN M \ {a} /\ ~M[x].used) <=> (x \in DOMAIN N \ {} /\ ~N[x].used)
    BY <1>5
  <2> QED BY <2>1, <1>11
<1>13. Lists(p, {}) /\ N[a].used /\ h.used => Lists(q, {})
  <2>1. N[a].used /\ h.used =>
          \A x : (x \in DOMAIN M \ {} /\ ~M[x].used) <=> (x \in DOMAIN N \ {} /\ ~N[x].used)
    BY <1>5
  <2> QED BY <2>1, <1>11
<1>14. Lists(p, {a}) /\ h.used => Lists(q, {})
  <2>1. h.used =>
          \A x : (x \in DOMAIN M \ {} /\ ~M[x].used) <=> (x \in DOMAIN N \ {a} /\ ~N[x].used)
    BY <1>5
  <2> QED BY <2>1, <1>11
<1> QED BY <1>1, <1>3, <1>4, <1>5, <1>6, <1>7, <1>9, <1>10, <1>12, <1>13, <1>14

\* OsMemNodeSetUsedFlag: the node is the application's.
IsTaken(p, a, q) ==
  Good(q) /\ a \in UsedIn(q.node) /\ q.node[a].size = p.node[a].size /\ Keeps(p.node, q.node, {a})

\* The node becomes the application's, and the pool is in order again.
LEMMA SetUsedGood ==
  ASSUME NEW p, NEW a, Open(p, a, {a}), NEW n, NEW task \in Owner \cup {"none"}
  PROVE  /\ IsTaken(p, a, SetUsed(Count(p, n), a, task))
         /\ SetUsed(Count(p, n), a, task).curUsed = (p.curUsed + n) % (2 * UsedFlag)
<1> DEFINE h == [p.node[a] EXCEPT !.used = TRUE, !.taskID = task]
           k == (p.curUsed + n) % (2 * UsedFlag)
           q == SetUsed(Count(p, n), a, task)
<1>1. /\ IsPool(p) /\ Tiles(p.node) /\ Lists(p, {a}) /\ AltAway(p.node, {a})
      /\ a \in DOMAIN p.node /\ a # EndNode
  BY DEF Open
<1>2. p.node[a] \in NodeHead
  BY <1>1, NodeFacts
<1>3. h \in NodeHead /\ h.size = p.node[a].size /\ h.prev = p.node[a].prev /\ h.used
  BY <1>2 DEF NodeHead
<1>4. q = Relabelled(p, a, h, k)
  <2>1. PICK c : c = Count(p, n)
    OBVIOUS
  <2>2. p = [node |-> p.node, free |-> p.free, bitmap |-> p.bitmap, curUsed |-> p.curUsed]
    BY <1>1 DEF IsPool
  <2>3. c = [p EXCEPT !.curUsed = k]
    BY <2>1 DEF Count
  <2> HIDE DEF k
  <2>4. c = [node |-> p.node, free |-> p.free, bitmap |-> p.bitmap, curUsed |-> k]
    BY <2>2, <2>3
  <2>5. q = [c EXCEPT !.node[a] = h]
    BY <2>1, <2>4 DEF SetUsed
  <2> HIDE DEF h, q
  <2> QED BY <2>4, <2>5 DEF Relabelled
<1> HIDE DEF h, k, q
<1>5. /\ IsPool(q) /\ Tiles(q.node) /\ DOMAIN q.node = DOMAIN p.node
      /\ \A x \in DOMAIN p.node : q.node[x] = IF x = a THEN h ELSE p.node[x]
      /\ Keeps(p.node, q.node, {a})
      /\ AltAway(p.node, {a}) /\ h.used => AltAway(q.node, {})
      /\ Lists(p, {a}) /\ h.used => Lists(q, {})
  BY <1>1, <1>3, <1>4, Relabel
<1>6. Good(q) /\ a \in UsedIn(q.node) /\ q.node[a].size = p.node[a].size
  BY <1>1, <1>3, <1>5 DEF Good, UsedIn
<1>7. q.curUsed = k
  BY <1>4 DEF Relabelled
<1> QED BY <1>5, <1>6, <1>7 DEF IsTaken, q, k

\* ... and no longer: it is free, but in no list yet.
IsGivenUp(p, a, q) ==
  /\ Open(q, a, {a}) /\ DOMAIN q.node = DOMAIN p.node
  /\ \A x \in DOMAIN p.node : /\ q.node[x].size = p.node[x].size
                              /\ q.node[x].prev = p.node[x].prev
                              /\ x # a => q.node[x].used = p.node[x].used
  /\ Keeps(p.node, q.node, {a})

\* A used node whose flag is taken away is the one free node in no list.
LEMMA GiveUp ==
  ASSUME NEW p, Good(p), NEW a \in UsedIn(p.node), a # EndNode,
         NEW h \in NodeHead, h.size = p.node[a].size, h.prev = p.node[a].prev, ~h.used,
         NEW k
  PROVE  IsGivenUp(p, a, Relabelled(p, a, h, k))
<1>1. /\ IsPool(p) /\ Tiles(p.node) /\ Lists(p, {}) /\ AltAway(p.node, {})
      /\ a \in DOMAIN p.node /\ p.node[a].used
  BY DEF Good, UsedIn
<1>2. AltAway(p.node, {a})
  BY <1>1 DEF AltAway
<1>3. PICK q : q = Relabelled(p, a, h, k)
  OBVIOUS
<1>4. /\ IsPool(q) /\ Tiles(q.node) /\ DOMAIN q.node = DOMAIN p.node
      /\ \A x \in DOMAIN p.node : q.node[x] = IF x = a THEN h ELSE p.node[x]
      /\ Keeps(p.node, q.node, {a})
      /\ AltAway(p.node, {a}) => AltAway(q.node, {a})
      /\ Lists(p, {}) /\ p.node[a].used /\ ~h.used => Lists(q, {a})
  BY <1>1, <1>3, Relabel
<1>5. a \in Int
  BY <1>1, NodeFacts
<1>6. Open(q, a, {a})
  BY <1>1, <1>2, <1>4, <1>5 DEF Open
<1> QED BY <1>3, <1>4, <1>6 DEF IsGivenUp

\* The header that OsMemFree and the reallocations leave in between.
LEMMA FreedHead ==
  ASSUME NEW h \in NodeHead
  PROVE  /\ [h EXCEPT !.used = FALSE, !.aligned = FALSE] \in NodeHead
         /\ [h EXCEPT !.used = FALSE, !.aligned = FALSE].size = h.size
         /\ [h EXCEPT !.used = FALSE, !.aligned = FALSE].prev = h.prev
         /\ ~[h EXCEPT !.used = FALSE, !.aligned = FALSE].used
         /\ [h EXCEPT !.used = FALSE, !.aligned = FALSE, !.taskID = "none"] \in NodeHead
         /\ [h EXCEPT !.used = FALSE, !.aligned = FALSE, !.taskID = "none"].size = h.size
         /\ [h EXCEPT !.used = FALSE, !.aligned = FALSE, !.taskID = "none"].prev = h.prev
         /\ ~[h EXCEPT !.used = FALSE, !.aligned = FALSE, !.taskID = "none"].used
BY DEF NodeHead

\* A free node behind a used one goes into the lists, with the next one if that
\* is free.
LEMMA CloseFree ==
  ASSUME NEW p, NEW n, Open(p, n, {n}),
         \A x \in DOMAIN p.node \ {EndNode} : x + p.node[x].size = n => p.node[x].used
  PROVE  LET q == OsMemFreeNodeAdd(Join(p, n), n)
         IN  Good(q) /\ Keeps(p.node, q.node, {})
<1>1. PICK j : j = Join(p, n)
  OBVIOUS
<1>2. PICK q : q = OsMemFreeNodeAdd(j, n)
  OBVIOUS
<1>3. IsJoined(p, n, {n}, j)
  BY <1>1, JoinNext
<1>4. PICK M : M = j.node
  OBVIOUS
<1>5. /\ IsPool(j) /\ Tiles(M) /\ Lists(j, {n}) /\ AltAway(M, {n})
      /\ n \in DOMAIN M \ {EndNode} /\ ~M[n].used /\ M[n + M[n].size].used
      /\ \A x \in DOMAIN M : /\ x \in DOMAIN p.node
                             /\ x # n => M[x].size = p.node[x].size
                             /\ M[x].used = p.node[x].used
      /\ Keeps(p.node, M, {})
  <2>1. Open(j, n, {n})
    BY <1>3 DEF IsJoined
  <2> QED BY <2>1, <1>3, <1>4 DEF IsJoined, Open, NextNode
<1>6. IsPool(q) /\ q.node = M /\ Lists(q, {n} \ {n})
  BY <1>2, <1>4, <1>5, FreeNodeAdd
<1>7. {n} \ {n} = {}
  OBVIOUS
<1>8. AltAway(M, {})
  <2>1. ASSUME NEW x \in DOMAIN M \ {EndNode} PROVE M[x].used \/ M[x + M[x].size].used
    <3>1. CASE x = n
      BY <3>1, <1>5
    <3>2. CASE x # n /\ x + M[x].size = n
      BY <3>2, <1>5
    <3>3. CASE x # n /\ x + M[x].size # n
      BY <3>3, <1>5 DEF AltAway
    <3> QED BY <3>1, <3>2, <3>3
  <2> QED BY <2>1 DEF AltAway
<1>9. Good(q)
  BY <1>5, <1>6, <1>7, <1>8 DEF Good
<1> QED BY <1>1, <1>2, <1>5, <1>6, <1>9

-----------------------------------------------------------------------------
(* What is counted.                                                        *)

\* The operations on lists and headers leave the count as it is.
Uncounted(p, q) ==
  /\ q = [node |-> q.node, free |-> q.free, bitmap |-> q.bitmap, curUsed |-> q.curUsed]
  /\ q.curUsed = p.curUsed

\* None of these three counts anything.
LEMMA FreeNodesUncounted ==
  ASSUME NEW p, p = [node |-> p.node, free |-> p.free, bitmap |-> p.bitmap, curUsed |-> p.curUsed],
         NEW a
  PROVE  /\ Uncounted(p, OsMemFreeNodeAdd(p, a)) /\ Uncounted(p, OsMemFreeNodeDelete(p, a))
         /\ Uncounted(p, OsMemMergeNode(p, a)) /\ Uncounted(p, p)
<1>1. Uncounted(p, OsMemFreeNodeAdd(p, a))
  <2>1. PICK f, b : OsMemFreeNodeAdd(p, a) = [p EXCEPT !.free = f, !.bitmap = b]
    BY DEF OsMemFreeNodeAdd
  <2> QED BY <2>1 DEF Uncounted
<1>2. Uncounted(p, OsMemFreeNodeDelete(p, a))
  <2>1. PICK f, b : OsMemFreeNodeDelete(p, a) = [p EXCEPT !.free = f, !.bitmap = b]
    BY DEF OsMemFreeNodeDelete
  <2> QED BY <2>1 DEF Uncounted
<1>3. Uncounted(p, OsMemMergeNode(p, a))
  <2>1. PICK N : OsMemMergeNode(p, a) = [p EXCEPT !.node = N]
    BY DEF OsMemMergeNode
  <2> QED BY <2>1 DEF Uncounted
<1> QED BY <1>1, <1>2, <1>3 DEF Uncounted

\* ... nor OsMemSplitNode.
LEMMA SplitUncounted ==
  ASSUME NEW p, p = [node |-> p.node, free |-> p.free, bitmap |-> p.bitmap, curUsed |-> p.curUsed],
         NEW a, NEW w
  PROVE  Uncounted(p, SplitIfWorth(p, a, w))
<1>1. CASE w + MinLeft <= p.node[a].size
  <2>1. PICK rest : rest = a + w
    OBVIOUS
  <2>2. PICK next : next = NextNode(p, a)
    OBVIOUS
  <2>3. PICK N : N = [x \in DOMAIN p.node \cup {rest} |->
                 IF x = a THEN [p.node[a] EXCEPT !.size = w]
                 ELSE IF x = rest THEN [size |-> p.node[a].size - w, used |-> FALSE,
                                        aligned |-> FALSE, prev |-> a, taskID |-> "none"]
                 ELSE IF x = next THEN [p.node[x] EXCEPT !.prev = rest]
                 ELSE p.node[x]]
    OBVIOUS
  <2>4. PICK cut : cut = [p EXCEPT !.node = N]
    OBVIOUS
  <2>5. Uncounted(p, cut)
    BY <2>4 DEF Uncounted
  <2>6. PICK d : d = OsMemFreeNodeDelete(cut, next)
    OBVIOUS
  <2>7. Uncounted(cut, d)
    BY <2>5, <2>6, FreeNodesUncounted DEF Uncounted
  <2>8. PICK j : j = IF p.node[next].used THEN cut ELSE OsMemMergeNode(d, next)
    OBVIOUS
  <2>9. Uncounted(p, j)
    <3>1. Uncounted(d, OsMemMergeNode(d, next))
      BY <2>7, FreeNodesUncounted DEF Uncounted
    <3> QED BY <3>1, <2>5, <2>7, <2>8 DEF Uncounted
  <2>10. SplitIfWorth(p, a, w) = OsMemFreeNodeAdd(j, rest)
    BY <2>1, <2>2, <2>3, <2>4, <2>6, <2>8, <1>1 DEF SplitIfWorth, OsMemSplitNode
  <2>11. Uncounted(j, OsMemFreeNodeAdd(j, rest))
    BY <2>9, FreeNodesUncounted DEF Uncounted
  <2> QED BY <2>9, <2>10, <2>11 DEF Uncounted
<1>2. CASE ~(w + MinLeft <= p.node[a].size)
  BY <1>2 DEF SplitIfWorth, Uncounted
<1> QED BY <1>1, <1>2

\* ... nor what joins a node with the next one.
LEMMA JoinUncounted ==
  ASSUME NEW p, IsPool(p), NEW n
  PROVE  Uncounted(p, Join(p, n))
<1>1. PICK c : c = NextNode(p, n)
  OBVIOUS
<1>2. PICK d : d = OsMemFreeNodeDelete(p, c)
  OBVIOUS
<1>3. Uncounted(p, d) /\ Uncounted(p, p)
  BY <1>2, FreeNodesUncounted DEF IsPool
<1>4. Uncounted(d, OsMemMergeNode(d, c))
  BY <1>3, FreeNodesUncounted DEF Uncounted
<1>5. Join(p, n) = p \/ Join(p, n) = OsMemMergeNode(d, c)
  BY <1>1, <1>2 DEF Join
<1> QED BY <1>3, <1>4, <1>5 DEF Uncounted

\* What is counted is how much larger the node a has become, if it is used, but
\* for the used flag.
Recounted(p, a, q) ==
  \E d \in Int, j \in Int :
    /\ d = (UsedAt(q.node, a) - UsedAt(p.node, a)) + j * UsedFlag
    /\ q.curUsed = (p.curUsed + d) % (2 * UsedFlag)


-----------------------------------------------------------------------------
(* The operations.                                                         *)

\* A block search that finds a node finds a free one of the size, and one that
\* finds none has overlooked none (OsMemFindNextSuitableBlock).
LEMMA SuitableNode ==
  ASSUME NEW p, Good(p), NEW w \in Sizes
  PROVE  LET a == OsMemFindNextSuitableBlock(p, w)
         IN  /\ a # NoNode => /\ a \in DOMAIN p.node /\ a # EndNode /\ ~p.node[a].used
                              /\ p.node[a].size >= w
             /\ a = NoNode => \A x \in DOMAIN p.node : ~p.node[x].used => p.node[x].size < w
<1> DEFINE N     == p.node
           own   == OsMemFreeListIndexGet(w)
           above == {i \in p.bitmap : i >= IF w < SmallMax THEN own ELSE own + 1}
           a     == OsMemFindNextSuitableBlock(p, w)
<1>1. IsPool(p) /\ Tiles(N) /\ Lists(p, {})
  BY DEF Good
<1>2. /\ own \in Nat /\ w \in Nat /\ SmallMax \in Nat /\ p.bitmap \subseteq Index
      /\ p.free \in [Index -> Seq(Int)] /\ Index \subseteq Nat
  <2>1. OsMemFreeListIndexGet(PoolSize) \in Nat
    <3>1. PoolSize \in 1..PoolSize
      BY PoolAssumption DEF HeadSize, MinLeft
    <3>2. PoolSize \in Sizes
      BY <3>1, SizesOfNodes
    <3>3. PoolSize <= PoolSize
      BY PoolNumbers
    <3> QED BY <3>2, <3>3, ClassGrows
  <2>2. Index \subseteq Nat
    BY <2>1 DEF Index
  <2>3. own \in Nat
    BY ClassGrows DEF Sizes
  <2> QED BY <2>2, <2>3, <1>1, SmallMaxIsSize DEF IsPool, Sizes
<1>3. ASSUME NEW x \in DOMAIN N, ~N[x].used
      PROVE  /\ x # EndNode /\ x # NoNode /\ N[x].size \in Sizes /\ N[x].size \in Nat
             /\ OsMemFreeListIndexGet(N[x].size) \in p.bitmap
             /\ OsMemFreeListIndexGet(N[x].size) \in Index
             /\ In(x, p.free[OsMemFreeListIndexGet(N[x].size)])
  <2>1. x # EndNode
    BY <1>1, <1>3 DEF Tiles
  <2>2. x \in Int /\ 0 <= x
    BY <1>1, NodeFacts
  <2>3. N[x].size \in Sizes /\ OsMemFreeListIndexGet(N[x].size) \in Index
    BY <2>1, <1>1, NodeClass
  <2>4. PICK i \in Index : i = OsMemFreeListIndexGet(N[x].size)
    BY <2>3
  <2>5. In(x, p.free[i])
    BY <2>4, <1>1, <1>3 DEF Lists, Listed
  <2>6. p.free[i] # <<>>
    BY <2>5 DEF In
  <2>7. i \in p.bitmap
    BY <2>6, <1>1 DEF Lists
  <2> QED BY <2>1, <2>2, <2>3, <2>4, <2>5, <2>7 DEF NoNode, Sizes
<1>4. ASSUME NEW i \in Index, NEW x, In(x, p.free[i])
      PROVE  x \in DOMAIN N /\ ~N[x].used /\ OsMemFreeListIndexGet(N[x].size) = i
  BY <1>1, <1>4 DEF Lists, Listed
<1> HIDE DEF N
<1>5. CASE above # {}
  <2>1. \E i \in above : \A j \in above : i <= j
    <3>1. above \in SUBSET Nat
      BY <1>2
    <3> HIDE DEF above
    <3> QED BY <3>1, <1>5, LeastNumber
  <2>2. PICK i : i = Least(above)
    OBVIOUS
  <2>3. i \in above
    BY <2>1, <2>2 DEF Least
  <2>4. i \in Index /\ i \in p.bitmap /\ i \in Nat /\ i >= IF w < SmallMax THEN own ELSE own + 1
    BY <2>3, <1>2
  <2>5. a = Head(p.free[i])
    BY <2>2, <1>5 DEF OsMemFindNextSuitableBlock
  <2> HIDE DEF a
  <2>6. p.free[i] \in Seq(Int) /\ p.free[i] # <<>>
    BY <2>4, <1>1, <1>2 DEF Lists
  <2>7. In(a, p.free[i])
    BY <2>5, <2>6 DEF In
  <2>8. a \in DOMAIN N /\ ~N[a].used /\ OsMemFreeListIndexGet(N[a].size) = i
    BY <2>4, <2>7, <1>4
  <2>9. a # EndNode /\ a # NoNode /\ N[a].size \in Sizes /\ N[a].size \in Nat
    BY <2>8, <1>3
  <2>10. N[a].size >= w
    <3>1. SUFFICES ASSUME N[a].size < w PROVE FALSE
      BY <2>9, <1>2
    <3>2. /\ OsMemFreeListIndexGet(N[a].size) <= OsMemFreeListIndexGet(w)
          /\ N[a].size < SmallMax /\ N[a].size < w
               => OsMemFreeListIndexGet(N[a].size) < OsMemFreeListIndexGet(w)
      BY <3>1, <2>9, <1>2, ClassGrows
    <3> QED BY <3>1, <3>2, <2>4, <2>8, <2>9, <1>2
  <2> QED BY <2>8, <2>9, <2>10 DEF a, N
<1>6. CASE above = {}
  <2>1. ASSUME NEW x \in DOMAIN N, ~N[x].used, N[x].size >= w
        PROVE  ~(w < SmallMax) /\ OsMemFreeListIndexGet(N[x].size) = own
    <3>1. N[x].size \in Sizes /\ OsMemFreeListIndexGet(N[x].size) \in p.bitmap
      BY <2>1, <1>3
    <3>2. own <= OsMemFreeListIndexGet(N[x].size) /\ OsMemFreeListIndexGet(N[x].size) \in Nat
      BY <3>1, <2>1, <1>2, ClassGrows DEF Sizes
    <3> QED BY <3>1, <3>2, <1>2, <1>6
  <2>2. CASE w < SmallMax
    <3>1. a = NoNode
      BY <2>2, <1>6 DEF OsMemFindNextSuitableBlock
    <3>2. \A x \in DOMAIN N : ~N[x].used => N[x].size < w
      BY <2>1, <2>2, <1>2, <1>3
    <3> HIDE DEF a
    <3> QED BY <3>1, <3>2 DEF a, N
  <2>3. CASE ~(w < SmallMax)
    <3> DEFINE fits == {j \in IF own \in Index THEN DOMAIN p.free[own] ELSE {} :
                          N[p.free[own][j]].size >= w}
    <3>1. a = FirstFit(p, own, w)
      BY <2>3, <1>6 DEF OsMemFindNextSuitableBlock
    <3>2. a = IF fits = {} THEN NoNode ELSE p.free[own][Least(fits)]
      BY <3>1 DEF FirstFit, N
    <3> HIDE DEF a
    <3>3. CASE fits = {}
      <4>1. ASSUME NEW x \in DOMAIN N, ~N[x].used PROVE N[x].size < w
        <5>1. SUFFICES ASSUME N[x].size >= w PROVE FALSE
          BY <4>1, <1>2, <1>3
        <5>2. own \in Index /\ In(x, p.free[own])
          BY <4>1, <5>1, <2>1, <1>3
        <5>3. PICK j \in DOMAIN p.free[own] : p.free[own][j] = x
          BY <5>2 DEF In
        <5> QED BY <5>1, <5>2, <5>3, <3>3
      <4> QED BY <4>1, <3>2, <3>3 DEF a, N
    <3>4. CASE fits # {}
      <4>1. own \in Index
        BY <3>4
      <4>2. p.free[own] \in Seq(Int)
        BY <4>1, <1>2
      <4>3. fits \in SUBSET Nat
        <5>1. DOMAIN p.free[own] = 1..Len(p.free[own]) /\ Len(p.free[own]) \in Nat
          BY <4>2, LenProperties
        <5> QED BY <5>1, <4>1
      <4>4. \E j \in fits : \A k \in fits : j <= k
        <5> HIDE DEF fits
        <5> QED BY <4>3, <3>4, LeastNumber
      <4>5. PICK j : j = Least(fits)
        OBVIOUS
      <4>6. j \in fits
        BY <4>4, <4>5 DEF Least
      <4>7. j \in DOMAIN p.free[own] /\ N[p.free[own][j]].size >= w
        BY <4>1, <4>6
      <4>8. a = p.free[own][j] /\ In(a, p.free[own])
        BY <4>5, <4>7, <3>2, <3>4 DEF In
      <4>9. a \in DOMAIN N /\ ~N[a].used /\ N[a].size >= w
        BY <4>1, <4>7, <4>8, <1>4
      <4>10. a # EndNode /\ a # NoNode
        BY <4>9, <1>3
      <4> QED BY <4>9, <4>10 DEF a, N
    <3> QED BY <3>3, <3>4
  <2> QED BY <2>2, <2>3
<1> QED BY <1>5, <1>6

\* OsMemSplitNode when it is worth a node.
LEMMA WorthGood ==
  ASSUME NEW p, NEW a, Open(p, a, {a}), NEW w \in Nat, w > 0, w <= p.node[a].size
  PROVE  LET q == SplitIfWorth(p, a, w)
         IN  /\ Open(q, a, {a}) /\ Keeps(p.node, q.node, {}) /\ q.node[a].size >= w
             /\ q.node[a].size \in {w, p.node[a].size}
<1>1. p.node[a].size \in Int
  BY NodeFacts DEF Open
<1>2. CASE w + MinLeft <= p.node[a].size
  <2>1. w < p.node[a].size
    BY <1>1, <1>2 DEF MinLeft
  <2>2. IsSplit(p, a, w, OsMemSplitNode(p, a, w))
    BY <2>1, SplitNode
  <2> QED BY <2>2, <1>2 DEF SplitIfWorth, IsSplit
<1>3. CASE ~(w + MinLeft <= p.node[a].size)
  <2>1. SplitIfWorth(p, a, w) = p
    BY <1>3 DEF SplitIfWorth
  <2> QED BY <2>1, <1>1 DEF Keeps
<1> QED BY <1>2, <1>3

\* OsMemAlloc: a node that was free is used, and large enough.
IsAllocated(p, n, a, q) ==
  /\ Good(q) /\ a \in UsedIn(q.node) /\ a # EndNode /\ a \notin UsedIn(p.node)
  /\ q.node[a].size >= AllocSize(n) /\ Keeps(p.node, q.node, {a}) /\ Recounted(p, a, q)

\* OsMemAlloc, when a node is found: it becomes used, and is large enough.
LEMMA AllocGood ==
  ASSUME NEW p, Good(p), NEW n, AllocSize(n) \in Sizes, NEW task \in Owner, Suitable(p, n) # NoNode
  PROVE  IsAllocated(p, n, Suitable(p, n), OsMemAlloc(p, n, task))
<1>1. PICK w \in Nat : w = AllocSize(n) /\ w > 0
  BY DEF Sizes
<1>2. PICK a : a = Suitable(p, n)
  OBVIOUS
<1>3. IsPool(p) /\ Tiles(p.node) /\ Lists(p, {}) /\ AltAway(p.node, {})
  BY DEF Good
<1>4. /\ a \in DOMAIN p.node /\ a # EndNode /\ ~p.node[a].used
      /\ p.node[a].size >= w /\ a \in DOMAIN p.node \ {EndNode}
  BY <1>1, <1>2, SuitableNode DEF Suitable
<1>5. PICK d : d = OsMemFreeNodeDelete(p, a)
  OBVIOUS
<1>6. IsPool(d) /\ d.node = p.node /\ Lists(d, {} \cup {a})
  BY <1>3, <1>4, <1>5, FreeNodeDelete
<1>7. {} \cup {a} = {a}
  OBVIOUS
<1>8. Open(d, a, {a})
  <2>1. AltAway(p.node, {a})
    BY <1>3 DEF AltAway
  <2>2. a \in Int /\ p.node[a].size \in Int
    BY <1>3, <1>4, NodeFacts
  <2> QED BY <2>1, <2>2, <1>3, <1>4, <1>6, <1>7 DEF Open
<1>9. w <= d.node[a].size
  <2>1. p.node[a].size \in Int
    BY <1>3, <1>4, NodeFacts
  <2> QED BY <2>1, <1>4, <1>6
<1>10. PICK t : t = SplitIfWorth(d, a, w)
  OBVIOUS
<1>11. Open(t, a, {a}) /\ Keeps(d.node, t.node, {}) /\ t.node[a].size >= w
  BY <1>1, <1>8, <1>9, <1>10, WorthGood
<1>12. PICK q : q = SetUsed(Count(t, t.node[a].size), a, task)
  OBVIOUS
<1>13. IsTaken(t, a, q) /\ q.curUsed = (t.curUsed + t.node[a].size) % (2 * UsedFlag)
  <2>1. task \in Owner \cup {"none"}
    OBVIOUS
  <2> QED BY <2>1, <1>11, <1>12, SetUsedGood
<1>14. OsMemAlloc(p, n, task) = q
  BY <1>1, <1>2, <1>5, <1>10, <1>12 DEF OsMemAlloc
<1>15. Keeps(p.node, q.node, {a})
  <2>1. Keeps(p.node, t.node, {a})
    BY <1>6, <1>11, KeepsMore
  <2>2. Keeps(t.node, q.node, {a})
    BY <1>13 DEF IsTaken
  <2> QED BY <2>1, <2>2, KeepsTwice
<1>16. Recounted(p, a, q)
  <2>1. Uncounted(p, d) /\ Uncounted(d, t)
    BY <1>3, <1>5, <1>6, <1>10, FreeNodesUncounted, SplitUncounted DEF IsPool
  <2>2. UsedAt(p.node, a) = 0 /\ UsedAt(q.node, a) = t.node[a].size
    BY <1>4, <1>13 DEF UsedAt, IsTaken, UsedIn
  <2>3. t.node[a].size \in Int
    BY <1>11, NodeFacts DEF Open
  <2>4. t.node[a].size = (UsedAt(q.node, a) - UsedAt(p.node, a)) + 0 * UsedFlag
    BY <2>2, <2>3, PoolAssumption
  <2> QED BY <2>1, <2>3, <2>4, <1>13 DEF Uncounted, Recounted
<1>17. IsAllocated(p, n, a, q)
  BY <1>1, <1>4, <1>11, <1>13, <1>15, <1>16 DEF IsAllocated, IsTaken, UsedIn
<1> QED BY <1>2, <1>14, <1>17

\* OsMemFree: the node, and no other one, is no longer used.
IsFreed(p, a, q) ==
  Good(q) /\ a \notin UsedIn(q.node) /\ Keeps(p.node, q.node, {a}) /\ Recounted(p, a, q)

\* OsMemFree merges the node with its free neighbours and lists the result.
LEMMA FreeGood ==
  ASSUME NEW p, Good(p), NEW a \in UsedIn(p.node), a # EndNode
  PROVE  IsFreed(p, a, OsMemFree(p, a))
<1>1. /\ IsPool(p) /\ Tiles(p.node) /\ Lists(p, {}) /\ AltAway(p.node, {})
      /\ a \in DOMAIN p.node /\ p.node[a].used
  BY DEF Good, UsedIn
<1>2. PICK h : h = [p.node[a] EXCEPT !.used = FALSE, !.aligned = FALSE, !.taskID = "none"]
  OBVIOUS
<1>3. h \in NodeHead /\ h.size = p.node[a].size /\ h.prev = p.node[a].prev /\ ~h.used
  <2>1. p.node[a] \in NodeHead
    BY <1>1, NodeFacts
  <2> QED BY <2>1, <1>2, FreedHead
<1>4. PICK k : k = (p.curUsed + (2 * UsedFlag - p.node[a].size)) % (2 * UsedFlag)
  OBVIOUS
<1>5. PICK freed : freed = Relabelled(p, a, h, k)
  OBVIOUS
<1>6. freed = Count([p EXCEPT !.node[a] = [@ EXCEPT !.used = FALSE, !.aligned = FALSE,
                                                    !.taskID = "none"]],
                    2 * UsedFlag - p.node[a].size)
  <2>1. PICK c : c = [p EXCEPT !.node[a] = [@ EXCEPT !.used = FALSE, !.aligned = FALSE,
                                                    !.taskID = "none"]]
    OBVIOUS
  <2>2. p = [node |-> p.node, free |-> p.free, bitmap |-> p.bitmap, curUsed |-> p.curUsed]
    BY <1>1 DEF IsPool
  <2>3. c = [p EXCEPT !.node[a] = h]
    BY <2>1, <1>2
  <2>4. c = [node |-> [p.node EXCEPT ![a] = h], free |-> p.free, bitmap |-> p.bitmap,
             curUsed |-> p.curUsed]
    BY <2>2, <2>3
  <2>5. Count(c, 2 * UsedFlag - p.node[a].size) = [c EXCEPT !.curUsed = k]
    BY <2>4, <1>4 DEF Count
  <2>6. [c EXCEPT !.curUsed = k] = freed
    BY <2>4, <1>5 DEF Relabelled
  <2> QED BY <2>1, <2>5, <2>6
<1>7. IsGivenUp(p, a, freed)
  BY <1>3, <1>5, GiveUp
<1>8. PICK F : F = freed.node
  OBVIOUS
<1>9. /\ Open(freed, a, {a}) /\ DOMAIN F = DOMAIN p.node /\ Keeps(p.node, F, {a})
      /\ F[a].prev = p.node[a].prev
      /\ IsPool(freed) /\ Tiles(F) /\ Lists(freed, {a}) /\ AltAway(F, {a})
      /\ a \in DOMAIN F \ {EndNode} /\ ~F[a].used
  BY <1>1, <1>7, <1>8 DEF IsGivenUp, Open
<1>10. PICK before : before = F[a].prev
  OBVIOUS
<1>11. PICK q : q = OsMemFree(p, a)
  OBVIOUS
<1>12. ASSUME NEW back, NEW n, IsPool(back), back.curUsed = freed.curUsed,
              q = OsMemFreeNodeAdd(Join(back, n), n), a \notin UsedIn(q.node)
       PROVE  Recounted(p, a, q)
  <2>1. Uncounted(back, Join(back, n)) /\ Uncounted(Join(back, n), q)
    BY <1>12, JoinUncounted, FreeNodesUncounted DEF Uncounted
  <2>2. q.curUsed = k
    BY <2>1, <1>5, <1>12 DEF Uncounted, Relabelled
  <2>3. PICK size \in Int : size = p.node[a].size
    BY <1>1, NodeFacts
  <2>4. PICK d \in Int : d = 2 * UsedFlag - size
    BY <2>3, PoolAssumption
  <2>5. UsedAt(p.node, a) = size /\ UsedAt(q.node, a) = 0
    BY <2>3, <1>1, <1>12 DEF UsedAt, UsedIn
  <2>6. d = (UsedAt(q.node, a) - UsedAt(p.node, a)) + 2 * UsedFlag
    BY <2>4, <2>5, PoolAssumption
  <2> QED BY <2>2, <2>3, <2>4, <2>6, <1>4 DEF Recounted
<1>13. CASE F[before].used
  <2>1. q = OsMemFreeNodeAdd(Join(freed, a), a)
    BY <1>6, <1>8, <1>10, <1>11, <1>13 DEF OsMemFree, Join
  <2>2. \A x \in DOMAIN F \ {EndNode} : x + F[x].size = a => F[x].used
    <3>1. ASSUME NEW x \in DOMAIN F \ {EndNode}, x + F[x].size = a PROVE x = before
      BY <3>1, <1>9, <1>10, NodeFacts
    <3> QED BY <3>1, <1>13
  <2>3. Good(q) /\ Keeps(F, q.node, {})
    BY <2>1, <2>2, <1>8, <1>9, CloseFree
  <2>4. Keeps(p.node, q.node, {a}) /\ a \notin UsedIn(q.node)
    <3>1. Keeps(F, q.node, {a})
      BY <2>3, KeepsMore
    <3>2. Keeps(p.node, q.node, {a})
      BY <3>1, <1>9, KeepsTwice
    <3> QED BY <3>2, <2>3, <1>9 DEF Keeps, UsedIn
  <2>5. Recounted(p, a, q)
    BY <2>1, <2>4, <1>9, <1>12
  <2> QED BY <2>3, <2>4, <2>5, <1>11 DEF IsFreed
<1>14. CASE ~F[before].used
  <2>1. a # 0
    BY <1>9, <1>10, <1>14 DEF Tiles
  <2>2. /\ before \in DOMAIN F \ {EndNode} /\ before < a /\ before \in Int /\ a \in Int
        /\ before + F[before].size = a
    <3>1. before \in DOMAIN F /\ before # EndNode /\ before < a /\ before + F[before].size = a
      BY <2>1, <1>9, <1>10, NodeFacts
    <3>2. before \in Int
      BY <3>1, <1>9, NodeFacts
    <3>3. a \in Int
      BY <1>9, NodeFacts
    <3> QED BY <3>1, <3>2, <3>3
  <2>3. PICK d : d = OsMemFreeNodeDelete(freed, before)
    OBVIOUS
  <2>4. IsPool(d) /\ d.node = F /\ Lists(d, {a} \cup {before})
    BY <2>2, <2>3, <1>8, <1>9, FreeNodeDelete
  <2>5. PICK back : back = OsMemMergeNode(d, a)
    OBVIOUS
  <2>6. Merges(d, {a} \cup {before}, a, back)
    <3>1. a \in DOMAIN d.node \ {0, EndNode} /\ d.node[a].prev = before /\ ~d.node[before].used
      BY <2>1, <2>4, <1>9, <1>10, <1>14
    <3> QED BY <3>1, <2>4, <2>5, <1>9, MergeNode
  <2>7. /\ IsPool(back) /\ Tiles(back.node) /\ Lists(back, ({a} \cup {before}) \ {a})
        /\ DOMAIN back.node = DOMAIN F \ {a} /\ before \in DOMAIN back.node \ {EndNode}
        /\ \A x \in DOMAIN back.node : /\ x # before => back.node[x].size = F[x].size
                                       /\ back.node[x].used = F[x].used
        /\ Keeps(F, back.node, {})
        /\ AltAway(F, {a, before}) => AltAway(back.node, {a, before} \ {a})
    BY <2>4, <2>6, <1>10 DEF Merges
  <2>8. ({a} \cup {before}) \ {a} = {before} /\ {a, before} \ {a} = {before}
    BY <2>2
  <2>9. AltAway(F, {a, before})
    BY <1>9 DEF AltAway
  <2>10. Open(back, before, {before})
    <3>1. Lists(back, {before}) /\ AltAway(back.node, {before})
      BY <2>7, <2>8, <2>9
    <3>2. before \in DOMAIN back.node \ {EndNode} /\ ~back.node[before].used
      BY <2>7, <1>14
    <3>3. \A x \in {before} : x \in Int /\ x <= before
      BY <2>2
    <3> QED BY <3>1, <3>2, <3>3, <2>7 DEF Open
  <2>11. \A x \in DOMAIN back.node \ {EndNode} :
           x + back.node[x].size = before => back.node[x].used
    <3>1. ASSUME NEW x \in DOMAIN back.node \ {EndNode}, x + back.node[x].size = before
          PROVE  back.node[x].used
      <4>1. x # before /\ x # a /\ x \in DOMAIN F \ {EndNode}
        <5>1. x \in Int /\ back.node[x].size \in Int /\ 0 < back.node[x].size
          BY <3>1, <2>7, NodeFacts
        <5> QED BY <5>1, <3>1, <2>2, <2>7
      <4>2. x + F[x].size = before
        BY <4>1, <3>1, <2>7
      <4>3. F[x].used \/ F[before].used
        BY <4>1, <4>2, <2>2, <1>9 DEF AltAway
      <4> QED BY <4>3, <3>1, <2>7, <1>14
    <3> QED BY <3>1
  <2>12. q = OsMemFreeNodeAdd(Join(back, before), before)
    BY <2>3, <2>5, <1>6, <1>8, <1>10, <1>11, <1>14 DEF OsMemFree, Join
  <2>13. Good(q) /\ Keeps(back.node, q.node, {})
    BY <2>10, <2>11, <2>12, CloseFree
  <2>14. Keeps(p.node, q.node, {a}) /\ a \notin UsedIn(q.node)
    <3>1. Keeps(F, q.node, {})
      BY <2>7, <2>13, KeepsTwice
    <3>2. Keeps(F, q.node, {a})
      BY <3>1, KeepsMore
    <3>3. Keeps(p.node, q.node, {a})
      BY <3>2, <1>9, KeepsTwice
    <3> QED BY <3>1, <3>3, <1>9 DEF Keeps, UsedIn
  <2>15. back.curUsed = freed.curUsed
    <3>1. Uncounted(freed, d) /\ Uncounted(d, back)
      BY <2>3, <2>4, <2>5, <1>9, FreeNodesUncounted DEF IsPool
    <3> QED BY <3>1 DEF Uncounted
  <2>16. Recounted(p, a, q)
    BY <2>7, <2>12, <2>14, <2>15, <1>12
  <2> QED BY <2>13, <2>14, <2>16, <1>11 DEF IsFreed
<1> QED BY <1>13, <1>14

\* The reallocations in place: the node stays used, and is large enough.
IsResized(p, a, w, q) ==
  Good(q) /\ a \in UsedIn(q.node) /\ q.node[a].size >= w /\ Keeps(p.node, q.node, {a})

\* OsMemReAllocSmaller and OsMemMergeNodeForReAllocBigger take the flag away first.
LEMMA UnflaggedOpen ==
  ASSUME NEW p, Good(p), NEW a \in UsedIn(p.node), a # EndNode
  PROVE  IsGivenUp(p, a, Unflagged(p, a)) /\ p.node[a].taskID \in Owner \cup {"none"}
<1>1. IsPool(p) /\ Tiles(p.node) /\ a \in DOMAIN p.node
  BY DEF Good, UsedIn
<1>2. p.node[a] \in NodeHead
  BY <1>1, NodeFacts
<1>3. PICK h : h = [p.node[a] EXCEPT !.used = FALSE, !.aligned = FALSE]
  OBVIOUS
<1>4. h \in NodeHead /\ h.size = p.node[a].size /\ h.prev = p.node[a].prev /\ ~h.used
  BY <1>2, <1>3, FreedHead
<1>5. Unflagged(p, a) = Relabelled(p, a, h, p.curUsed)
  <2>1. p = [node |-> p.node, free |-> p.free, bitmap |-> p.bitmap, curUsed |-> p.curUsed]
    BY <1>1 DEF IsPool
  <2>2. Unflagged(p, a) = [p EXCEPT !.node[a] = h]
    BY <1>3 DEF Unflagged
  <2> QED BY <2>1, <2>2 DEF Relabelled
<1>6. IsGivenUp(p, a, Unflagged(p, a))
  BY <1>4, <1>5, GiveUp
<1> QED BY <1>2, <1>6 DEF NodeHead

\* What both of them do to the node in the end.
LEMMA WorthThenUsed ==
  ASSUME NEW p, NEW a, Open(p, a, {a}), NEW w \in Nat, w > 0, w <= p.node[a].size,
         NEW n, NEW task \in Owner \cup {"none"}
  PROVE  LET q == SetUsed(Count(SplitIfWorth(p, a, w), n), a, task)
         IN  /\ IsResized(p, a, w, q)
             /\ q.curUsed = (p.curUsed + n) % (2 * UsedFlag)
             /\ q.node[a].size = SplitIfWorth(p, a, w).node[a].size
             /\ q.node[a].size \in {w, p.node[a].size}
<1>1. PICK t : t = SplitIfWorth(p, a, w)
  OBVIOUS
<1>2. /\ Open(t, a, {a}) /\ Keeps(p.node, t.node, {}) /\ t.node[a].size >= w
      /\ t.node[a].size \in {w, p.node[a].size}
  BY <1>1, WorthGood
<1>3. PICK q : q = SetUsed(Count(t, n), a, task)
  OBVIOUS
<1>4. IsTaken(t, a, q) /\ q.curUsed = (t.curUsed + n) % (2 * UsedFlag)
  BY <1>2, <1>3, SetUsedGood
<1>5. Keeps(p.node, q.node, {a})
  <2>1. Keeps(p.node, t.node, {a})
    BY <1>2, KeepsMore
  <2> QED BY <2>1, <1>4, KeepsTwice DEF IsTaken
<1>6. t.curUsed = p.curUsed
  BY <1>1, SplitUncounted DEF Open, IsPool, Uncounted
<1> QED BY <1>1, <1>2, <1>3, <1>4, <1>5, <1>6 DEF IsTaken, IsResized

\* OsMemReAllocSmaller: the block stays in its node, which is still large enough.
LEMMA SmallerGood ==
  ASSUME NEW p, Good(p), NEW a \in UsedIn(p.node), a # EndNode,
         NEW w \in Nat, w > 0, Smaller(p, a, w)
  PROVE  /\ IsResized(p, a, w, ReAllocSmaller(p, a, w))
         /\ Recounted(p, a, ReAllocSmaller(p, a, w))
<1>1. PICK u : u = Unflagged(p, a)
  OBVIOUS
<1>2. IsGivenUp(p, a, u) /\ p.node[a].taskID \in Owner \cup {"none"}
  BY <1>1, UnflaggedOpen
<1>3. Open(u, a, {a}) /\ u.node[a].size = p.node[a].size /\ Keeps(p.node, u.node, {a})
  BY <1>2 DEF IsGivenUp, UsedIn
<1>4. w <= u.node[a].size
  <2>1. u.node[a].size \in Int
    BY <1>3, NodeFacts DEF Open
  <2> QED BY <2>1, <1>3 DEF Smaller
<1>5. PICK n : n = IF SplitIfWorth(u, a, w).node[a].size = p.node[a].size THEN 0
                   ELSE 2 * UsedFlag - (p.node[a].size - w)
  OBVIOUS
<1>6. PICK q : q = SetUsed(Count(SplitIfWorth(u, a, w), n), a, p.node[a].taskID)
  OBVIOUS
<1>7. ReAllocSmaller(p, a, w) = q
  BY <1>1, <1>5, <1>6 DEF ReAllocSmaller
<1>8. /\ IsResized(u, a, w, q) /\ q.curUsed = (u.curUsed + n) % (2 * UsedFlag)
      /\ q.node[a].size = SplitIfWorth(u, a, w).node[a].size
      /\ q.node[a].size \in {w, u.node[a].size}
  BY <1>2, <1>3, <1>4, <1>6, WorthThenUsed
<1>9. Keeps(p.node, q.node, {a})
  BY <1>3, <1>8, KeepsTwice DEF IsResized
<1>10. Recounted(p, a, q)
  <2>1. PICK old \in Int, new \in Int : old = p.node[a].size /\ new = q.node[a].size
    BY <1>3, <1>8, NodeFacts DEF IsResized, Good, UsedIn
  <2>2. UsedAt(p.node, a) = old /\ UsedAt(q.node, a) = new
    BY <2>1, <1>8 DEF UsedAt, UsedIn, IsResized
  <2>3. u.curUsed = p.curUsed
    BY <1>1 DEF Unflagged, Good, IsPool
  <2>4. CASE new = old
    <3>1. n = 0
      BY <2>1, <2>4, <1>5, <1>8
    <3>2. n = (UsedAt(q.node, a) - UsedAt(p.node, a)) + 0 * UsedFlag
      BY <3>1, <2>1, <2>2, <2>4, PoolAssumption
    <3> QED BY <3>1, <3>2, <2>3, <1>8 DEF Recounted
  <2>5. CASE new # old
    <3>1. new = w /\ n = 2 * UsedFlag - (old - w)
      BY <2>1, <2>5, <1>3, <1>5, <1>8
    <3>2. n \in Int /\ n = (UsedAt(q.node, a) - UsedAt(p.node, a)) + 2 * UsedFlag
      BY <3>1, <2>1, <2>2, PoolAssumption
    <3> QED BY <3>2, <2>3, <1>8 DEF Recounted
  <2> QED BY <2>4, <2>5
<1> QED BY <1>7, <1>8, <1>9, <1>10 DEF IsResized

\* OsMemMergeNodeForReAllocBigger: the node takes in the next one and is large enough.
LEMMA BiggerGood ==
  ASSUME NEW p, Good(p), NEW a \in UsedIn(p.node), a # EndNode,
         NEW w \in Nat, w > 0, Bigger(p, a, w)
  PROVE  /\ IsResized(p, a, w, ReAllocBigger(p, a, w))
         /\ Recounted(p, a, ReAllocBigger(p, a, w))
<1>1. PICK u : u = Unflagged(p, a)
  OBVIOUS
<1>2. IsGivenUp(p, a, u) /\ p.node[a].taskID \in Owner \cup {"none"}
  BY <1>1, UnflaggedOpen
<1>3. /\ Open(u, a, {a}) /\ u.node[a].size = p.node[a].size /\ Keeps(p.node, u.node, {a})
      /\ DOMAIN u.node = DOMAIN p.node
      /\ \A x \in DOMAIN p.node : /\ u.node[x].size = p.node[x].size
                                  /\ x # a => u.node[x].used = p.node[x].used
      /\ a \in DOMAIN p.node
  BY <1>2 DEF IsGivenUp, UsedIn
<1>4. PICK c : c = NextNode(p, a)
  OBVIOUS
<1>5. c \in DOMAIN p.node /\ c # a /\ ~p.node[c].used
  <2>1. /\ a \in Int /\ p.node[a].size \in Int /\ 0 < p.node[a].size
        /\ a + p.node[a].size \in DOMAIN p.node
    BY <1>3, NodeFacts DEF Good
  <2>2. c = a + p.node[a].size
    BY <1>4 DEF NextNode
  <2> QED BY <2>1, <2>2, <1>4 DEF Bigger
<1>6. NextNode(u, a) = c /\ ~u.node[c].used /\ u.node[c].size = p.node[c].size
  BY <1>3, <1>4, <1>5 DEF NextNode
<1>7. PICK j : j = Join(u, a)
  OBVIOUS
<1>8. j = OsMemMergeNode(OsMemFreeNodeDelete(u, c), c)
  BY <1>6, <1>7 DEF Join
<1>9. IsJoined(u, a, {a}, j)
  BY <1>3, <1>7, JoinNext
<1>10. /\ Open(j, a, {a}) /\ j.node[a].size = p.node[a].size + p.node[c].size
       /\ Keeps(u.node, j.node, {a})
  <2>1. Keeps(u.node, j.node, {a})
    BY <1>9, KeepsMore DEF IsJoined
  <2> QED BY <2>1, <1>3, <1>6, <1>9 DEF IsJoined
<1>11. w <= j.node[a].size
  <2>1. p.node[a].size \in Int /\ p.node[c].size \in Int
    BY <1>3, <1>5, NodeFacts DEF Good
  <2> QED BY <2>1, <1>4, <1>10 DEF Bigger
<1>12. PICK n : n = SplitIfWorth(j, a, w).node[a].size + UsedFlag - p.node[a].size
  OBVIOUS
<1>13. PICK q : q = SetUsed(Count(SplitIfWorth(j, a, w), n), a, p.node[a].taskID)
  OBVIOUS
<1>14. ReAllocBigger(p, a, w) = q
  BY <1>1, <1>4, <1>8, <1>12, <1>13 DEF ReAllocBigger
<1>15. /\ IsResized(j, a, w, q) /\ q.curUsed = (j.curUsed + n) % (2 * UsedFlag)
       /\ q.node[a].size = SplitIfWorth(j, a, w).node[a].size
  BY <1>2, <1>10, <1>11, <1>13, WorthThenUsed
<1>16. Keeps(p.node, q.node, {a})
  <2>1. Keeps(p.node, j.node, {a})
    BY <1>3, <1>10, KeepsTwice
  <2> QED BY <2>1, <1>15, KeepsTwice DEF IsResized
<1>17. Recounted(p, a, q)
  <2>1. PICK old \in Int, new \in Int : old = p.node[a].size /\ new = q.node[a].size
    BY <1>3, <1>15, NodeFacts DEF IsResized, Good, UsedIn
  <2>2. UsedAt(p.node, a) = old /\ UsedAt(q.node, a) = new
    BY <2>1, <1>15 DEF UsedAt, UsedIn, IsResized
  <2>3. u.curUsed = p.curUsed /\ j.curUsed = u.curUsed
    <3>1. u.curUsed = p.curUsed
      BY <1>1 DEF Unflagged, Good, IsPool
    <3>2. j.curUsed = u.curUsed
      BY <1>3, <1>7, JoinUncounted DEF Open, Uncounted
    <3> QED BY <3>1, <3>2
  <2>4. n = new + UsedFlag - old
    BY <2>1, <1>12, <1>15
  <2>5. n \in Int /\ n = (UsedAt(q.node, a) - UsedAt(p.node, a)) + 1 * UsedFlag
    BY <2>1, <2>2, <2>4, PoolAssumption
  <2> QED BY <2>3, <2>5, <1>15 DEF Recounted
<1> QED BY <1>14, <1>15, <1>16, <1>17 DEF IsResized

\* f is the walk of LOS_MemFreeByTaskID over the first n words of the pool.
IsWalk(f, n, p, task) ==
  f = [a \in 0..n |-> IF a = 0 THEN p ELSE FreeIfOf(f[a - 1], a - 1, task)]

\* The walk of LOS_MemFreeByTaskID is defined, however long the pool.
LEMMA WalkExists ==
  ASSUME NEW p, NEW task, NEW n \in Nat
  PROVE  \E f : IsWalk(f, n, p, task)
<1> DEFINE Bad == {m \in Nat : ~\E f : IsWalk(f, m, p, task)}
<1>1. SUFFICES ASSUME Bad # {} PROVE FALSE
  BY DEF Bad
<1>2. PICK m \in Bad : \A y \in Bad : m <= y
  BY <1>1, LeastNumber
<1>3. m \in Nat /\ ~\E f : IsWalk(f, m, p, task)
  BY <1>2
<1>4. CASE m = 0
  <2> DEFINE f == [a \in 0..0 |-> p]
  <2>1. f = [a \in 0..0 |-> IF a = 0 THEN p ELSE FreeIfOf(f[a - 1], a - 1, task)]
    OBVIOUS
  <2>2. IsWalk(f, 0, p, task)
    BY <2>1 DEF IsWalk
  <2> QED BY <2>2, <1>3, <1>4
<1>5. CASE m # 0
  <2>1. m - 1 \in Nat /\ m - 1 \notin Bad
    BY <1>2, <1>3, <1>5
  <2>2. PICK f : IsWalk(f, m - 1, p, task)
    BY <2>1
  <2> DEFINE g == [a \in 0..m |-> IF a = m THEN FreeIfOf(f[m - 1], m - 1, task) ELSE f[a]]
  <2>3. f = [a \in 0..(m - 1) |-> IF a = 0 THEN p ELSE FreeIfOf(f[a - 1], a - 1, task)]
    BY <2>2 DEF IsWalk
  <2>4. ASSUME NEW a \in 0..m
        PROVE  g[a] = IF a = 0 THEN p ELSE FreeIfOf(g[a - 1], a - 1, task)
    <3>1. CASE a = m
      <4>1. g[a] = FreeIfOf(f[m - 1], m - 1, task) /\ m - 1 \in 0..m /\ m - 1 # m
        BY <3>1, <1>3, <1>5
      <4>2. g[a - 1] = f[m - 1]
        BY <4>1, <3>1
      <4> QED BY <4>1, <4>2, <3>1, <1>5
    <3>2. CASE a # m
      <4>1. a \in 0..(m - 1) /\ g[a] = f[a]
        BY <3>2, <1>3
      <4>2. CASE a = 0
        BY <4>1, <4>2, <2>3
      <4>3. CASE a # 0
        <5>1. a - 1 \in 0..m /\ a - 1 # m
          BY <4>1, <4>3, <1>3
        <5>2. g[a - 1] = f[a - 1]
          BY <5>1
        <5> HIDE DEF g
        <5> QED BY <4>1, <4>3, <5>2, <2>3
      <4> QED BY <4>2, <4>3
    <3> QED BY <3>1, <3>2
  <2>5. g = [a \in 0..m |-> g[a]]
    OBVIOUS
  <2> HIDE DEF g
  <2>6. g = [a \in 0..m |-> IF a = 0 THEN p ELSE FreeIfOf(g[a - 1], a - 1, task)]
    BY <2>4, <2>5
  <2>7. IsWalk(g, m, p, task)
    BY <2>6 DEF IsWalk
  <2> QED BY <2>7, <1>3
<1> QED BY <1>4, <1>5

\* The nodes of the task that begin before word n.
Of(p, task, n) == {x \in UsedIn(p.node) : x < n /\ p.node[x].taskID = task}

\* One word more.
LEMMA FreeIfOfGood ==
  ASSUME NEW p, NEW task, NEW n \in 0..(EndNode - 1), NEW t, Good(t),
         Keeps(p.node, t.node, Of(p, task, n)), Tiles(p.node)
  PROVE  LET q == FreeIfOf(t, n, task)
         IN  Good(q) /\ Keeps(p.node, q.node, Of(p, task, n + 1))
<1>1. Of(p, task, n) \subseteq Of(p, task, n + 1)
  <2>1. \A x \in UsedIn(p.node) : x \in Int
    BY NodeFacts DEF UsedIn
  <2> QED BY <2>1 DEF Of
<1>2. Keeps(p.node, t.node, Of(p, task, n + 1))
  BY <1>1, KeepsMore
<1>3. CASE ~IsOf(t, n, task)
  BY <1>2, <1>3 DEF FreeIfOf
<1>4. CASE IsOf(t, n, task)
  <2>1. n \in UsedIn(t.node) /\ n # EndNode /\ t.node[n].taskID = task
    BY <1>4 DEF IsOf, UsedIn
  <2>2. PICK q : q = OsMemFree(t, n)
    OBVIOUS
  <2>3. Good(q) /\ Keeps(t.node, q.node, {n})
    BY <2>1, <2>2, FreeGood DEF IsFreed
  <2>4. n \in Of(p, task, n + 1)
    <3>1. n \notin Of(p, task, n)
      BY DEF Of
    <3>2. n \in UsedIn(p.node) /\ p.node[n].taskID = task
      BY <3>1, <2>1 DEF Keeps
    <3> QED BY <3>2 DEF Of
  <2>5. Keeps(t.node, q.node, Of(p, task, n + 1))
    BY <2>3, <2>4, KeepsMore
  <2>6. FreeIfOf(t, n, task) = q
    BY <2>2, <1>4 DEF FreeIfOf
  <2> QED BY <2>3, <2>5, <2>6, <1>2, KeepsTwice
<1> QED BY <1>3, <1>4

\* LOS_MemFreeByTaskID: the nodes of other tasks stay.
LEMMA WalkGood ==
  ASSUME NEW p, Good(p), NEW task, NEW f, IsWalk(f, EndNode, p, task)
  PROVE  Good(f[EndNode]) /\ Keeps(p.node, f[EndNode].node, Of(p, task, EndNode))
<1> DEFINE Bad == {n \in Nat : /\ n <= EndNode
                               /\ ~(Good(f[n]) /\ Keeps(p.node, f[n].node, Of(p, task, n)))}
<1>1. EndNode \in Nat
  BY PoolNumbers
<1>2. SUFFICES ASSUME Bad # {} PROVE FALSE
  BY <1>1
<1>3. PICK m \in Bad : \A y \in Bad : m <= y
  BY <1>2, LeastNumber
<1>4. m \in 0..EndNode
  BY <1>1, <1>3
<1>5. f[m] = IF m = 0 THEN p ELSE FreeIfOf(f[m - 1], m - 1, task)
  BY <1>4 DEF IsWalk
<1>6. CASE m = 0
  BY <1>3, <1>5, <1>6 DEF Keeps
<1>7. CASE m # 0
  <2>1. m - 1 \in 0..(EndNode - 1) /\ m - 1 \in Nat /\ m - 1 <= EndNode /\ ~(m <= m - 1)
        /\ (m - 1) + 1 = m
    BY <1>1, <1>4, <1>7
  <2>2. Good(f[m - 1]) /\ Keeps(p.node, f[m - 1].node, Of(p, task, m - 1))
    BY <2>1, <1>3
  <2>3. LET q == FreeIfOf(f[m - 1], m - 1, task)
        IN  Good(q) /\ Keeps(p.node, q.node, Of(p, task, (m - 1) + 1))
    BY <2>1, <2>2, FreeIfOfGood DEF Good
  <2> QED BY <2>1, <2>3, <1>3, <1>5, <1>7
<1> QED BY <1>6, <1>7

-----------------------------------------------------------------------------
(* The blocks.                                                             *)

\* The node of a block, and what a block at ptr needs: its gap and its words
\* lie in a used node, behind the header.
NodeIn(block, ptr) == ptr - block.gap - HeadSize

BlockAt(N, block, ptr) ==
  /\ ptr \in Int /\ block.gap \in Nat /\ block.size \in Nat /\ block.size > 0
  /\ NodeIn(block, ptr) \in UsedIn(N) /\ NodeIn(block, ptr) # EndNode
  /\ block.gap + block.size + HeadSize <= N[NodeIn(block, ptr)].size

HeldInv ==
  /\ \A ptr \in DOMAIN held : BlockAt(heap.node, held[ptr], ptr)
  /\ \A p, q \in DOMAIN held : NodeOf(p) = NodeOf(q) => p = q

HeapInv == Good(heap) /\ HeldInv

\* A block lies in the pool, behind its node's header.
LEMMA BlockExtent ==
  ASSUME NEW N, Tiles(N), NEW b, NEW ptr, BlockAt(N, b, ptr)
  PROVE  LET a == NodeIn(b, ptr)
         IN  /\ a \in DOMAIN N /\ a # EndNode /\ a \in Int /\ N[a].size \in Int
             /\ 0 <= a /\ a < ptr /\ ptr + b.size <= a + N[a].size /\ a + N[a].size <= EndNode
<1>1. PICK a : a = NodeIn(b, ptr)
  OBVIOUS
<1>2. /\ a \in DOMAIN N /\ a # EndNode /\ ptr \in Int /\ b.gap \in Nat /\ b.size \in Nat
      /\ a = ptr - b.gap - 2 /\ b.gap + b.size + 2 <= N[a].size
  BY <1>1 DEF BlockAt, NodeIn, HeadSize, UsedIn
<1>3. a \in Int /\ 0 <= a /\ N[a].size \in Int /\ a + N[a].size <= EndNode
  BY <1>2, NodeFacts
<1>4. a < ptr /\ ptr + b.size <= a + N[a].size
  BY <1>2, <1>3
<1> QED BY <1>1, <1>2, <1>3, <1>4

\* Blocks of two nodes share no word.
LEMMA BlocksApart ==
  ASSUME NEW N, Tiles(N), NEW b, NEW ptr, BlockAt(N, b, ptr), NEW c, NEW q, BlockAt(N, c, q),
         NodeIn(b, ptr) # NodeIn(c, q)
  PROVE  /\ ptr # q
         /\ (ptr .. (ptr + b.size - 1)) \cap (q .. (q + c.size - 1)) = {}
<1>1. PICK d : d = NodeIn(b, ptr)
  OBVIOUS
<1>2. PICK e : e = NodeIn(c, q)
  OBVIOUS
<1>3. /\ d \in DOMAIN N /\ d # EndNode /\ d \in Int /\ N[d].size \in Int
      /\ d < ptr /\ ptr + b.size <= d + N[d].size
  BY <1>1, BlockExtent
<1>4. /\ e \in DOMAIN N /\ e # EndNode /\ e \in Int /\ N[e].size \in Int
      /\ e < q /\ q + c.size <= e + N[e].size
  BY <1>2, BlockExtent
<1>5. ptr \in Int /\ q \in Int /\ b.size \in Nat /\ c.size \in Nat /\ b.size > 0 /\ c.size > 0
  BY DEF BlockAt
<1>6. d # e
  BY <1>1, <1>2
<1>7. CASE d < e
  <2>1. d + N[d].size <= e
    BY <1>3, <1>4, <1>7, NextIsNext
  <2>2. ptr + b.size < q
    BY <2>1, <1>3, <1>4, <1>5
  <2> QED BY <2>2, <1>5
<1>8. CASE e < d
  <2>1. e + N[e].size <= d
    BY <1>3, <1>4, <1>8, NextIsNext
  <2>2. q + c.size < ptr
    BY <2>1, <1>3, <1>4, <1>5
  <2> QED BY <2>2, <1>5
<1> QED BY <1>3, <1>4, <1>6, <1>7, <1>8

\* The blocks of nodes that are kept keep their place.
LEMMA BlockKept ==
  ASSUME NEW N, NEW M, NEW S, Keeps(N, M, S), NEW b, NEW ptr, BlockAt(N, b, ptr),
         NodeIn(b, ptr) \notin S
  PROVE  BlockAt(M, b, ptr)
BY DEF Keeps, BlockAt

\* Some of the blocks stay: those whose nodes do.
LEMMA BlocksStay ==
  ASSUME HeldInv, NEW ptrs \in SUBSET DOMAIN held, NEW N, NEW S,
         Keeps(heap.node, N, S), \A r \in ptrs : NodeOf(r) \notin S
  PROVE  /\ \A r \in ptrs : BlockAt(N, held[r], r) /\ NodeOf(r) = NodeIn(held[r], r)
         /\ \A r, s \in ptrs : NodeOf(r) = NodeOf(s) => r = s
<1>1. ASSUME NEW r \in ptrs PROVE BlockAt(N, held[r], r) /\ NodeOf(r) = NodeIn(held[r], r)
  <2>1. NodeOf(r) = NodeIn(held[r], r)
    BY DEF NodeOf, NodeIn
  <2>2. BlockAt(heap.node, held[r], r)
    BY DEF HeldInv
  <2> QED BY <2>1, <2>2, <1>1, BlockKept
<1> QED BY <1>1 DEF HeldInv

\* Blocks that are given back.
LEMMA BlocksGone ==
  ASSUME HeapInv, NEW ptrs \in SUBSET DOMAIN held, NEW S, Good(heap'),
         Keeps(heap.node, heap'.node, S), \A r \in ptrs : NodeOf(r) \notin S,
         held' = [r \in ptrs |-> held[r]]
  PROVE  HeapInv' /\ AbstractHeap!Next
<1>1. /\ \A r \in ptrs : BlockAt(heap'.node, held[r], r) /\ NodeOf(r) = NodeIn(held[r], r)
      /\ \A r, s \in ptrs : NodeOf(r) = NodeOf(s) => r = s
  BY BlocksStay DEF HeapInv
<1>2. DOMAIN held' = ptrs /\ \A r \in ptrs : held'[r] = held[r]
  OBVIOUS
<1>3. HeldInv'
  <2>1. \A r \in ptrs : NodeOf(r)' = NodeOf(r)
    BY <1>2 DEF NodeOf
  <2> QED BY <2>1, <1>1, <1>2 DEF HeldInv
<1>4. Good(heap)'
  OBVIOUS
<1>5. DOMAIN [r \in DOMAIN held |-> held[r].size] \ DOMAIN [r \in DOMAIN held |-> held[r].size]'
        = DOMAIN held \ ptrs
  BY <1>2
<1>6. AbstractHeap!Release(DOMAIN [r \in DOMAIN held |-> held[r].size]
                             \ DOMAIN [r \in DOMAIN held |-> held[r].size]')
  <2>1. PICK gone : gone = DOMAIN [r \in DOMAIN held |-> held[r].size]
                             \ DOMAIN [r \in DOMAIN held |-> held[r].size]'
    OBVIOUS
  <2>2. DOMAIN held \ gone = ptrs
    BY <2>1, <1>5
  <2>3. [r \in DOMAIN held' |-> held'[r].size]
          = [r \in DOMAIN held \ gone |-> [s \in DOMAIN held |-> held[s].size][r]]
    BY <2>2, <1>2
  <2> QED BY <2>1, <2>3 DEF AbstractHeap!Release
<1>7. AbstractHeap!Next
  BY <1>6 DEF AbstractHeap!Next, AbstractHeap!Release
<1> QED BY <1>3, <1>4, <1>7 DEF HeapInv

\* A block that is handed out, in a node no other block has, while the blocks
\* of ptrs stay.
Puts(ptrs, S, ptr, block) ==
  /\ ptrs \subseteq DOMAIN held /\ Good(heap') /\ Keeps(heap.node, heap'.node, S)
  /\ \A r \in ptrs : NodeOf(r) \notin S /\ NodeOf(r) # NodeIn(block, ptr)
  /\ BlockAt(heap'.node, block, ptr)
  /\ held' = Hold(ptrs, ptr, block)

\* A block that is put into a node of its own, the blocks at ptrs staying: HeapInv
\* holds, and the abstract heap may place the block there.
LEMMA BlockPut ==
  ASSUME HeapInv, NEW ptrs, NEW S, NEW ptr, NEW block, Puts(ptrs, S, ptr, block)
  PROVE  /\ HeapInv' /\ ptr \in DOMAIN held'
         /\ AbstractHeap!Place(ptr, block.size, ptrs) /\ AbstractHeap!Fits(ptr, block.size, ptrs)
<1> DEFINE blocks == [r \in DOMAIN held |-> held[r].size]
<1>0. /\ ptrs \in SUBSET DOMAIN held /\ Good(heap') /\ Keeps(heap.node, heap'.node, S)
      /\ \A r \in ptrs : NodeOf(r) \notin S
      /\ \A r \in ptrs : NodeOf(r) # NodeIn(block, ptr)
      /\ BlockAt(heap'.node, block, ptr)
      /\ held' = Hold(ptrs, ptr, block)
  BY DEF Puts
<1>1. /\ \A r \in ptrs : BlockAt(heap'.node, held[r], r) /\ NodeOf(r) = NodeIn(held[r], r)
      /\ \A r, s \in ptrs : NodeOf(r) = NodeOf(s) => r = s
  BY <1>0, BlocksStay DEF HeapInv
<1>2. Tiles(heap'.node)
  BY <1>0 DEF Good
<1>3. \A r \in ptrs : /\ r # ptr
                      /\ (ptr .. (ptr + block.size - 1)) \cap (r .. (r + held[r].size - 1)) = {}
  BY <1>0, <1>1, <1>2, BlocksApart
<1>4. /\ DOMAIN held' = ptrs \cup {ptr} /\ held'[ptr] = block
      /\ \A r \in ptrs : held'[r] = held[r]
  BY <1>0, <1>3 DEF Hold
<1>5. HeldInv'
  <2>1. \A r \in ptrs : NodeOf(r)' = NodeOf(r)
    BY <1>4 DEF NodeOf
  <2>2. NodeOf(ptr)' = NodeIn(block, ptr)
    BY <1>4 DEF NodeOf, NodeIn
  <2>3. \A r \in DOMAIN held' : BlockAt(heap'.node, held'[r], r)
    BY <1>0, <1>1, <1>4
  <2>4. \A r, s \in DOMAIN held' : NodeOf(r)' = NodeOf(s)' => r = s
    BY <2>1, <2>2, <1>0, <1>1, <1>4
  <2> QED BY <2>3, <2>4 DEF HeldInv
<1>6. Good(heap)'
  BY <1>0
<1>7. AbstractHeap!Place(ptr, block.size, ptrs)
  <2>1. [r \in DOMAIN held' |-> held'[r].size]
          = [r \in ptrs \cup {ptr} |-> IF r = ptr THEN block.size ELSE blocks[r]]
    BY <1>0, <1>4
  <2> QED BY <2>1 DEF AbstractHeap!Place
<1>8. AbstractHeap!Fits(ptr, block.size, ptrs)
  <2>1. AbstractHeap!Extent(ptr, block.size) \subseteq 0 .. (EndNode - 1)
    <3>1. PICK a : a = NodeIn(block, ptr)
      OBVIOUS
    <3>2. PICK e : e = a + heap'.node[a].size
      OBVIOUS
    <3>3. a \in Int /\ heap'.node[a].size \in Int /\ 0 <= a /\ a < ptr /\ ptr + block.size <= e /\ e <= EndNode
      BY <3>1, <3>2, <1>0, <1>2, BlockExtent
    <3>4. ptr \in Int /\ block.size \in Nat /\ e \in Int /\ EndNode \in Int
      BY <3>2, <3>3, <1>0, PoolNumbers DEF BlockAt
    <3>5. \A x \in ptr .. (ptr + block.size - 1) : x \in 0 .. (EndNode - 1)
      BY <3>3, <3>4
    <3> QED BY <3>5 DEF AbstractHeap!Extent
  <2>2. \A r \in ptrs : blocks[r] = held[r].size
    BY <1>0
  <2>3. \A r \in ptrs : AbstractHeap!Extent(ptr, block.size) \cap AbstractHeap!Extent(r, blocks[r]) = {}
    BY <2>2, <1>3 DEF AbstractHeap!Extent
  <2> QED BY <2>1, <2>3 DEF AbstractHeap!Fits
<1> QED BY <1>4, <1>5, <1>6, <1>7, <1>8 DEF HeapInv

\* The sizes that the application asks for have a class, with a header and with
\* the room for a gap.
LEMMA Requests ==
  /\ \A n \in Request : /\ n \in Nat /\ n > 0
                        /\ AllocSize(n) \in Sizes /\ AllocSize(n) >= n + HeadSize
  /\ \A n \in Request, b \in Boundary :
       LET use == (IF n < MinAlloc THEN MinAlloc ELSE n) + b - 1
       IN  /\ b \in Nat /\ b > 0
           /\ AllocSize(use) \in Sizes /\ AllocSize(use) >= n + (b - 1) + HeadSize
<1>1. PICK m \in Nat : m = 2^29 /\ m >= 4 /\ 2^30 = 2 * m
  <2>1. 29 \in 0..29 /\ 29 + 1 = 30 /\ 1 \in 0..30 /\ 29 \in 0..30 /\ 1 < 29
    OBVIOUS
  <2>2. 2^29 \in Nat \ {0} /\ 2^30 = 2 * 2^29
    <3>1. 2^29 \in Nat \ {0} /\ 2^(29 + 1) = 2 * 2^29
      BY <2>1, PowersOfTwo
    <3> QED BY <3>1, <2>1
  <2>3. 2 * 2^1 <= 2^29 /\ 2^1 = 2
    <3>1. 2^1 = 2
      BY SMT
    <3> QED BY <3>1, <2>1, PowersGrow
  <2>4. PICK m : m = 2^29
    OBVIOUS
  <2>5. m \in Nat \ {0} /\ 2 * 2^1 <= m /\ 2^30 = 2 * m
    BY <2>2, <2>3, <2>4
  <2>6. m >= 4
    BY <2>3, <2>5
  <2> QED BY <2>4, <2>5, <2>6
<1>2. \A n \in Request : n \in Nat /\ n > 0 /\ n <= m
  <2>1. Request \subseteq 1..m
    <3>1. Request \subseteq 1..2^29
      BY RequestAssumption
    <3> QED BY <3>1, <1>1
  <2>2. \A n \in 1..m : n \in Nat /\ n > 0 /\ n <= m
    OBVIOUS
  <2> QED BY <2>1, <2>2
<1>3. \A b \in Boundary : b \in Nat /\ b > 0 /\ b <= m
  <2>1. ASSUME NEW f \in 1..29 PROVE 2^f \in Nat /\ 2^f > 0 /\ 2^f <= m
    <3>1. f \in 0..30 /\ 29 \in 0..30 /\ (f = 29 \/ f < 29)
      OBVIOUS
    <3>2. 2^f \in Nat \ {0}
      BY <3>1, PowerType
    <3>3. CASE f = 29
      BY <3>2, <3>3, <1>1
    <3>4. CASE f < 29
      <4>1. 2 * 2^f <= 2^29
        BY <3>1, <3>4, PowersGrow
      <4>2. PICK k \in Nat : k = 2^f
        BY <3>2
      <4> QED BY <4>1, <4>2, <3>2, <1>1
    <3> QED BY <3>1, <3>3, <3>4
  <2> QED BY <2>1, RequestAssumption
<1>4. \A n \in 1..(4 * m - 1) : n \in Sizes
  <2>1. \A n \in 1..(2 * (2 * m) - 1) : n \in Sizes
    BY <1>1, SizesOfNodes
  <2>2. 2 * (2 * m) - 1 = 4 * m - 1
    BY <1>1
  <2> QED BY <2>1, <2>2
<1>5. ASSUME NEW n \in Request
      PROVE  AllocSize(n) \in Sizes /\ AllocSize(n) >= n + HeadSize
  <2>1. PICK w : w = AllocSize(n)
    OBVIOUS
  <2>2. w \in 1..(4 * m - 1) /\ w >= n + 2
    BY <2>1, <1>1, <1>2 DEF AllocSize, MinAlloc, HeadSize
  <2> QED BY <2>1, <2>2, <1>4 DEF HeadSize
<1>6. ASSUME NEW n \in Request, NEW b \in Boundary
      PROVE  LET use == (IF n < MinAlloc THEN MinAlloc ELSE n) + b - 1
             IN  AllocSize(use) \in Sizes /\ AllocSize(use) >= n + (b - 1) + HeadSize
  <2>1. PICK use : use = (IF n < MinAlloc THEN MinAlloc ELSE n) + b - 1
    OBVIOUS
  <2>2. use \in Int /\ use >= 2 /\ use >= n + (b - 1) /\ use <= 2 * m + 1
    BY <2>1, <1>1, <1>2, <1>3 DEF MinAlloc
  <2>3. AllocSize(use) = use + 2
    BY <2>2 DEF AllocSize, MinAlloc, HeadSize
  <2>4. use + 2 \in 1..(4 * m - 1)
    BY <2>2, <1>1
  <2>5. use + 2 \in Sizes
    BY <2>4, <1>4
  <2>6. use + 2 >= n + (b - 1) + 2
    BY <2>2, <1>2, <1>3
  <2> QED BY <2>1, <2>3, <2>5, <2>6 DEF HeadSize
<1> QED BY <1>2, <1>3, <1>5, <1>6

\* What a step of the abstract heap is.
LEMMA AllocateStep ==
  ASSUME NEW n \in Request, NEW ptr \in DOMAIN held', NEW others, others = DOMAIN held,
         AbstractHeap!Place(ptr, n, others), AbstractHeap!Fits(ptr, n, others)
  PROVE  AbstractHeap!Next
<1>1. /\ DOMAIN [r \in DOMAIN held |-> held[r].size] = DOMAIN held
      /\ DOMAIN [r \in DOMAIN held |-> held[r].size]' = DOMAIN held'
  OBVIOUS
<1>2. AbstractHeap!Allocate(n)
  BY <1>1 DEF AbstractHeap!Allocate, AbstractHeap!Place, AbstractHeap!Fits
<1> QED BY <1>2 DEF AbstractHeap!Next

\* A block placed instead of old is a reallocation of the abstract heap.
LEMMA ResizeStep ==
  ASSUME NEW n \in Request, NEW old \in DOMAIN held, NEW ptr \in DOMAIN held',
         NEW others, others = DOMAIN held \ {old},
         AbstractHeap!Place(ptr, n, others), AbstractHeap!Fits(ptr, n, others)
  PROVE  AbstractHeap!Next
<1>1. /\ DOMAIN [r \in DOMAIN held |-> held[r].size] = DOMAIN held
      /\ DOMAIN [r \in DOMAIN held |-> held[r].size]' = DOMAIN held'
  OBVIOUS
<1>2. AbstractHeap!Resize(old, n)
  BY <1>1 DEF AbstractHeap!Resize, AbstractHeap!Place, AbstractHeap!Fits
<1> QED BY <1>1, <1>2 DEF AbstractHeap!Next

-----------------------------------------------------------------------------
(* The invariant.                                                          *)

\* What is known of a node that a block has.
LEMMA HeldNode ==
  ASSUME HeapInv, NEW ptr \in DOMAIN held
  PROVE  /\ NodeOf(ptr) \in UsedIn(heap.node) /\ NodeOf(ptr) # EndNode /\ NodeOf(ptr) \in Int
         /\ \A r \in DOMAIN held \ {ptr} : NodeOf(r) # NodeOf(ptr)
<1>1. NodeOf(ptr) = NodeIn(held[ptr], ptr)
  BY DEF NodeOf, NodeIn
<1>2. NodeOf(ptr) \in UsedIn(heap.node) /\ NodeOf(ptr) # EndNode
  BY <1>1 DEF HeapInv, HeldInv, BlockAt
<1>3. NodeOf(ptr) \in Int
  <2>1. Tiles(heap.node) /\ NodeOf(ptr) \in DOMAIN heap.node
    BY <1>2 DEF HeapInv, Good, UsedIn
  <2> QED BY <2>1, NodeFacts
<1> QED BY <1>2, <1>3 DEF HeapInv, HeldInv

\* A block of n words in a used node that is large enough, at ptr.
LEMMA BlockThere ==
  ASSUME NEW p, Good(p), NEW a \in UsedIn(p.node), a # EndNode,
         NEW n \in Nat, n > 0, NEW gap \in Nat, n + gap + HeadSize <= p.node[a].size,
         NEW block, block.size = n, block.gap = gap, NEW ptr, ptr = a + HeadSize + gap
  PROVE  BlockAt(p.node, block, ptr) /\ NodeIn(block, ptr) = a
<1>1. a \in Int /\ p.node[a].size \in Int
  BY NodeFacts DEF Good, UsedIn
<1>2. HeadSize = 2
  BY DEF HeadSize
<1>3. ptr \in Int /\ NodeIn(block, ptr) = a
  BY <1>1, <1>2 DEF NodeIn
<1>4. gap + n + HeadSize <= p.node[a].size
  BY <1>1, <1>2
<1> QED BY <1>3, <1>4 DEF BlockAt

\* LOS_MemAlloc keeps the invariant and allocates in the abstract heap.
LEMMA AllocStep ==
  ASSUME HeapInv, NEW task \in Owner, NEW n \in Request, LOS_MemAlloc(task, n)
  PROVE  HeapInv' /\ AbstractHeap!Next
<1>1. PICK a : a = Suitable(heap, n)
  OBVIOUS
<1>2. PICK block : block = [size |-> n, gap |-> 0, data |-> a + HeadSize]
  OBVIOUS
<1>3. /\ a # NoNode /\ heap' = OsMemAlloc(heap, n, task)
      /\ held' = Hold(DOMAIN held, a + HeadSize, block)
  BY <1>1, <1>2 DEF LOS_MemAlloc
<1>4. n \in Nat /\ n > 0 /\ AllocSize(n) \in Sizes /\ AllocSize(n) >= n + HeadSize
  BY Requests
<1>5. IsAllocated(heap, n, a, heap')
  BY <1>1, <1>3, <1>4, AllocGood DEF HeapInv
<1>6. /\ Good(heap') /\ a \in UsedIn(heap'.node) /\ a # EndNode /\ a \notin UsedIn(heap.node)
      /\ heap'.node[a].size >= AllocSize(n) /\ Keeps(heap.node, heap'.node, {a})
  BY <1>5 DEF IsAllocated
<1>7. a \in Int /\ heap'.node[a].size \in Int
  BY <1>6, NodeFacts DEF Good, UsedIn
<1>8. BlockAt(heap'.node, block, a + HeadSize) /\ NodeIn(block, a + HeadSize) = a
  <2>1. n + 0 + HeadSize <= heap'.node[a].size /\ a + HeadSize = a + HeadSize + 0
    BY <1>4, <1>6, <1>7 DEF HeadSize, Sizes
  <2>2. block.size = n /\ block.gap = 0 /\ 0 \in Nat
    BY <1>2
  <2> QED BY <2>1, <2>2, <1>4, <1>6, BlockThere
<1>9. PICK others : others = DOMAIN held
  OBVIOUS
<1>10. PICK ptr : ptr = a + HeadSize
  OBVIOUS
<1>11. Puts(others, {a}, ptr, block)
  <2>1. \A r \in DOMAIN held : NodeOf(r) \notin {a} /\ NodeOf(r) # NodeIn(block, ptr)
    BY <1>6, <1>8, <1>10, HeldNode
  <2> QED BY <2>1, <1>3, <1>6, <1>8, <1>9, <1>10 DEF Puts
<1>12. /\ HeapInv' /\ ptr \in DOMAIN held'
       /\ AbstractHeap!Place(ptr, block.size, others) /\ AbstractHeap!Fits(ptr, block.size, others)
  BY <1>11, BlockPut
<1>13. block.size = n
  BY <1>2
<1> QED BY <1>9, <1>12, <1>13, AllocateStep

\* The gap is shorter than the boundary.
LEMMA GapIs ==
  ASSUME NEW ptr \in Int, NEW b \in Nat, b > 0
  PROVE  Gap(ptr, b) \in 0..(b - 1)
<1>1. PICK x \in Int : x = Base + ptr
  BY PoolAssumption
<1>2. PICK y \in 0..(b - 1) : y = x % b
  OBVIOUS
<1>3. PICK z \in Int : z = b - y
  OBVIOUS
<1>4. z % b \in 0..(b - 1)
  OBVIOUS
<1> QED BY <1>1, <1>2, <1>3, <1>4 DEF Gap

\* LOS_MemAllocAlign: the gap before the block is part of the node.
LEMMA AlignStep ==
  ASSUME HeapInv, NEW task \in Owner, NEW n \in Request, NEW b \in Boundary,
         LOS_MemAllocAlign(task, n, b)
  PROVE  HeapInv' /\ AbstractHeap!Next
<1>1. PICK use : use = (IF n < MinAlloc THEN MinAlloc ELSE n) + b - 1
  OBVIOUS
<1>2. PICK a : a = Suitable(heap, use)
  OBVIOUS
<1>3. PICK gap : gap = Gap(a + HeadSize, b)
  OBVIOUS
<1>4. PICK ptr : ptr = a + HeadSize + gap
  OBVIOUS
<1>5. PICK block : block = [size |-> n, gap |-> gap, data |-> ptr]
  OBVIOUS
<1>6. PICK p : p = OsMemAlloc(heap, use, task)
  OBVIOUS
<1>7. /\ a # NoNode /\ heap' = [p EXCEPT !.node[a].aligned = (gap # 0)]
      /\ held' = Hold(DOMAIN held, ptr, block)
  BY <1>1, <1>2, <1>3, <1>4, <1>5, <1>6 DEF LOS_MemAllocAlign
<1>8. /\ n \in Nat /\ n > 0 /\ b \in Nat /\ b > 0
      /\ AllocSize(use) \in Sizes /\ AllocSize(use) >= n + (b - 1) + HeadSize
  BY <1>1, Requests
<1>9. IsAllocated(heap, use, a, p)
  BY <1>2, <1>6, <1>7, <1>8, AllocGood DEF HeapInv
<1>10. /\ Good(p) /\ a \in UsedIn(p.node) /\ a # EndNode /\ a \notin UsedIn(heap.node)
       /\ p.node[a].size >= AllocSize(use) /\ Keeps(heap.node, p.node, {a})
  BY <1>9 DEF IsAllocated
<1>11. /\ IsPool(p) /\ Tiles(p.node) /\ Lists(p, {}) /\ AltAway(p.node, {}) /\ AltAway(p.node, {a})
       /\ a \in DOMAIN p.node /\ p.node[a].used
  BY <1>10 DEF Good, UsedIn, AltAway
<1>12. a \in Int /\ p.node[a].size \in Int /\ p.node[a] \in NodeHead
  BY <1>11, NodeFacts
<1>13. PICK h : h = [p.node[a] EXCEPT !.aligned = (gap # 0)]
  OBVIOUS
<1>14. h \in NodeHead /\ h.size = p.node[a].size /\ h.prev = p.node[a].prev /\ h.used
  BY <1>11, <1>12, <1>13 DEF NodeHead
<1>15. heap' = Relabelled(p, a, h, p.curUsed)
  <2>1. p = [node |-> p.node, free |-> p.free, bitmap |-> p.bitmap, curUsed |-> p.curUsed]
    BY <1>11 DEF IsPool
  <2>2. heap' = [p EXCEPT !.node[a] = h]
    BY <2>1, <1>7, <1>11, <1>13
  <2> QED BY <2>1, <2>2 DEF Relabelled
<1>16. /\ IsPool(heap') /\ Tiles(heap'.node) /\ DOMAIN heap'.node = DOMAIN p.node
       /\ heap'.node[a] = h /\ Keeps(p.node, heap'.node, {a})
       /\ AltAway(heap'.node, {}) /\ Lists(heap', {})
  <2>1. PICK k : k = p.curUsed
    OBVIOUS
  <2> QED BY <2>1, <1>10, <1>11, <1>14, <1>15, Relabel
<1>17. Good(heap') /\ a \in UsedIn(heap'.node) /\ heap'.node[a].size = p.node[a].size
  BY <1>11, <1>14, <1>16 DEF Good, UsedIn
<1>18. Keeps(heap.node, heap'.node, {a})
  BY <1>10, <1>16, KeepsTwice
<1>19. BlockAt(heap'.node, block, ptr) /\ NodeIn(block, ptr) = a
  <2>1. gap \in Nat /\ gap <= b - 1
    <3>1. a + HeadSize \in Int
      BY <1>12 DEF HeadSize
    <3>2. gap \in 0..(b - 1)
      BY <3>1, <1>3, <1>8, GapIs
    <3> QED BY <3>2, <1>8
  <2>2. n + gap + HeadSize <= heap'.node[a].size
    BY <2>1, <1>8, <1>10, <1>12, <1>17 DEF HeadSize, Sizes
  <2>3. block.size = n /\ block.gap = gap
    BY <1>5
  <2> QED BY <2>1, <2>2, <2>3, <1>4, <1>8, <1>10, <1>17, BlockThere
<1>20. PICK others : others = DOMAIN held
  OBVIOUS
<1>21. Puts(others, {a}, ptr, block)
  <2>1. \A r \in DOMAIN held : NodeOf(r) \notin {a} /\ NodeOf(r) # NodeIn(block, ptr)
    BY <1>10, <1>19, HeldNode
  <2> QED BY <2>1, <1>7, <1>17, <1>18, <1>19, <1>20 DEF Puts
<1>22. /\ HeapInv' /\ ptr \in DOMAIN held'
       /\ AbstractHeap!Place(ptr, block.size, others) /\ AbstractHeap!Fits(ptr, block.size, others)
  BY <1>21, BlockPut
<1>23. block.size = n
  BY <1>5
<1> QED BY <1>20, <1>22, <1>23, AllocateStep

\* LOS_MemFree keeps the invariant and frees in the abstract heap.
LEMMA FreeStep ==
  ASSUME HeapInv, NEW ptr \in DOMAIN held, LOS_MemFree(ptr)
  PROVE  HeapInv' /\ AbstractHeap!Next
<1>1. PICK a : a = NodeOf(ptr)
  OBVIOUS
<1>2. heap' = OsMemFree(heap, a) /\ held' = [q \in DOMAIN held \ {ptr} |-> held[q]]
  BY <1>1 DEF LOS_MemFree
<1>3. /\ a \in UsedIn(heap.node) /\ a # EndNode
      /\ \A r \in DOMAIN held \ {ptr} : NodeOf(r) \notin {a}
  BY <1>1, HeldNode
<1>4. Good(heap') /\ Keeps(heap.node, heap'.node, {a})
  BY <1>2, <1>3, FreeGood DEF IsFreed, HeapInv
<1> QED BY <1>2, <1>3, <1>4, BlocksGone

\* LOS_MemFreeByTaskID: the blocks of other tasks stay where they are.
LEMMA FreeByTaskStep ==
  ASSUME HeapInv, NEW task, LOS_MemFreeByTaskID(task)
  PROVE  HeapInv' /\ AbstractHeap!Next
<1> DEFINE f == CHOOSE g : IsWalk(g, EndNode, heap, task)
           ptrs == {ptr \in DOMAIN held : ~IsOf(heap, NodeOf(ptr), task)}
<1>1. IsWalk(f, EndNode, heap, task)
  BY WalkExists, PoolNumbers
<1>2. heap' = f[EndNode]
  BY DEF LOS_MemFreeByTaskID, IsWalk
<1>3. held' = [q \in ptrs |-> held[q]]
  BY DEF LOS_MemFreeByTaskID
<1> HIDE DEF f
<1>4. Good(heap') /\ Keeps(heap.node, heap'.node, Of(heap, task, EndNode))
  BY <1>1, <1>2, WalkGood DEF HeapInv
<1>5. \A r \in ptrs : NodeOf(r) \notin Of(heap, task, EndNode)
  BY DEF Of, UsedIn, IsOf
<1> HIDE DEF ptrs
<1>6. ptrs \in SUBSET DOMAIN held
  BY DEF ptrs
<1> QED BY <1>3, <1>4, <1>5, <1>6, BlocksGone

\* LOS_MemRealloc: in place, smaller or larger, or elsewhere.
LEMMA ReallocStep ==
  ASSUME HeapInv, NEW task \in Owner, NEW ptr \in DOMAIN held, NEW n \in Request,
         LOS_MemRealloc(task, ptr, n)
  PROVE  HeapInv' /\ AbstractHeap!Next
<1>1. PICK a : a = NodeOf(ptr)
  OBVIOUS
<1>2. PICK w : w = AllocSize(n)
  OBVIOUS
<1>3. PICK other : other = Suitable(heap, n)
  OBVIOUS
<1>4. PICK at : at = IF Smaller(heap, a, w) \/ Bigger(heap, a, w) THEN a + HeadSize
                     ELSE other + HeadSize
  OBVIOUS
<1>5. PICK block : block = [size |-> n, gap |-> 0,
                            data |-> at + (held[ptr].data - (a + HeadSize))]
  OBVIOUS
<1>6. PICK others : others = DOMAIN held \ {ptr}
  OBVIOUS
<1>7. /\ \/ Smaller(heap, a, w) /\ heap' = ReAllocSmaller(heap, a, w)
         \/ Bigger(heap, a, w) /\ heap' = ReAllocBigger(heap, a, w)
         \/ /\ ~Smaller(heap, a, w) /\ ~Bigger(heap, a, w) /\ other # NoNode
            /\ heap' = OsMemFree(OsMemAlloc(heap, n, task), a)
      /\ held' = Hold(others, at, block)
  BY <1>1, <1>2, <1>3, <1>4, <1>5, <1>6 DEF LOS_MemRealloc
<1>8. /\ a \in UsedIn(heap.node) /\ a # EndNode /\ a \in Int
      /\ \A r \in others : NodeOf(r) # a
  BY <1>1, <1>6, HeldNode
<1>9. n \in Nat /\ n > 0 /\ w \in Sizes /\ w \in Nat /\ w > 0 /\ w >= n + HeadSize
  BY <1>2, Requests DEF Sizes
<1>10. Good(heap)
  BY DEF HeapInv
<1>11. ASSUME NEW S, NEW node, Good(heap'), Keeps(heap.node, heap'.node, S),
              node \in UsedIn(heap'.node), node # EndNode, heap'.node[node].size >= w,
              at = node + HeadSize, \A r \in others : NodeOf(r) \notin S /\ NodeOf(r) # node
       PROVE  HeapInv' /\ AbstractHeap!Next
  <2>1. node \in Int /\ heap'.node[node].size \in Int
    BY <1>11, NodeFacts DEF Good, UsedIn
  <2>2. BlockAt(heap'.node, block, at) /\ NodeIn(block, at) = node
    <3>1. n + 0 + HeadSize <= heap'.node[node].size /\ at = node + HeadSize + 0
      BY <2>1, <1>9, <1>11 DEF HeadSize
    <3>2. block.size = n /\ block.gap = 0 /\ 0 \in Nat
      BY <1>5
    <3> QED BY <3>1, <3>2, <1>9, <1>11, BlockThere
  <2>3. Puts(others, S, at, block)
    BY <2>2, <1>6, <1>7, <1>11 DEF Puts
  <2>4. /\ HeapInv' /\ at \in DOMAIN held'
        /\ AbstractHeap!Place(at, block.size, others) /\ AbstractHeap!Fits(at, block.size, others)
    BY <2>3, BlockPut
  <2>5. block.size = n
    BY <1>5
  <2> QED BY <2>4, <2>5, <1>6, ResizeStep
<1>12. CASE Smaller(heap, a, w) /\ heap' = ReAllocSmaller(heap, a, w)
  <2>1. IsResized(heap, a, w, heap')
    BY <1>8, <1>9, <1>10, <1>12, SmallerGood
  <2>2. at = a + HeadSize
    BY <1>4, <1>12
  <2>3. \A r \in others : NodeOf(r) \notin {a} /\ NodeOf(r) # a
    BY <1>8
  <2> QED BY <2>1, <2>2, <2>3, <1>8, <1>11 DEF IsResized
<1>13. CASE Bigger(heap, a, w) /\ heap' = ReAllocBigger(heap, a, w)
  <2>1. IsResized(heap, a, w, heap')
    BY <1>8, <1>9, <1>10, <1>13, BiggerGood
  <2>2. at = a + HeadSize
    BY <1>4, <1>13
  <2>3. \A r \in others : NodeOf(r) \notin {a} /\ NodeOf(r) # a
    BY <1>8
  <2> QED BY <2>1, <2>2, <2>3, <1>8, <1>11 DEF IsResized
<1>14. CASE /\ ~Smaller(heap, a, w) /\ ~Bigger(heap, a, w) /\ other # NoNode
            /\ heap' = OsMemFree(OsMemAlloc(heap, n, task), a)
  <2>1. PICK p : p = OsMemAlloc(heap, n, task)
    OBVIOUS
  <2>2. IsAllocated(heap, n, other, p)
    BY <2>1, <1>2, <1>3, <1>9, <1>10, <1>14, AllocGood
  <2>3. /\ Good(p) /\ other \in UsedIn(p.node) /\ other # EndNode /\ other \notin UsedIn(heap.node)
        /\ p.node[other].size >= w /\ Keeps(heap.node, p.node, {other})
    BY <2>2, <1>2 DEF IsAllocated
  <2>4. a \in UsedIn(p.node) /\ a # other
    BY <2>3, <1>8 DEF Keeps
  <2>5. Good(heap') /\ Keeps(p.node, heap'.node, {a})
    BY <2>1, <2>3, <2>4, <1>8, <1>14, FreeGood DEF IsFreed
  <2>6. other \in UsedIn(heap'.node) /\ heap'.node[other].size >= w
    BY <2>3, <2>4, <2>5 DEF Keeps
  <2>7. Keeps(heap.node, heap'.node, {a, other})
    <3>1. Keeps(heap.node, p.node, {a, other})
      BY <2>3, KeepsMore
    <3>2. Keeps(p.node, heap'.node, {a, other})
      BY <2>5, KeepsMore
    <3> QED BY <3>1, <3>2, KeepsTwice
  <2>8. \A r \in others : NodeOf(r) \notin {a, other} /\ NodeOf(r) # other
    BY <2>3, <1>6, <1>8, HeldNode
  <2>9. at = other + HeadSize
    BY <1>4, <1>14
  <2> QED BY <2>3, <2>5, <2>6, <2>7, <2>8, <2>9, <1>11
<1> QED BY <1>7, <1>12, <1>13, <1>14

\* Every step of the heap.
LEMMA HeapStep ==
  ASSUME HeapInv, MemoryNext
  PROVE  HeapInv' /\ AbstractHeap!Next
<1>1. CASE \E task \in Owner, n \in Request : LOS_MemAlloc(task, n)
  BY <1>1, AllocStep
<1>2. CASE \E task \in Owner, n \in Request, b \in Boundary : LOS_MemAllocAlign(task, n, b)
  BY <1>2, AlignStep
<1>3. CASE \E task \in Owner, n \in Request, ptr \in DOMAIN held : LOS_MemRealloc(task, ptr, n)
  BY <1>3, ReallocStep
<1>4. CASE \E ptr \in DOMAIN held : LOS_MemFree(ptr)
  BY <1>4, FreeStep
<1>5. CASE \E task \in Owner : LOS_MemFreeByTaskID(task)
  BY <1>5, FreeByTaskStep
<1> QED BY <1>1, <1>2, <1>3, <1>4, <1>5 DEF MemoryNext

\* ... and a step that changes nothing.
LEMMA HeapStutter ==
  ASSUME HeapInv, UNCHANGED memoryVars
  PROVE  HeapInv'
<1>1. heap' = heap /\ held' = held
  BY DEF memoryVars
<1>2. \A r \in DOMAIN held : NodeOf(r)' = NodeOf(r)
  BY <1>1 DEF NodeOf
<1>3. HeldInv'
  BY <1>1, <1>2 DEF HeapInv, HeldInv
<1> QED BY <1>1, <1>3 DEF HeapInv

\* OsMemPoolInit.
LEMMA HeapInitInv == MemoryInit => HeapInv
<1>1. SUFFICES ASSUME MemoryInit PROVE HeapInv
  OBVIOUS
<1>2. PICK first : first = [size |-> EndNode, used |-> FALSE, aligned |-> FALSE,
                            prev |-> EndNode, taskID |-> "none"]
  OBVIOUS
<1>3. PICK last : last = [size |-> 0, used |-> TRUE, aligned |-> FALSE, prev |-> 0, taskID |-> "none"]
  OBVIOUS
<1>4. PICK N : N = [x \in {0, EndNode} |-> IF x = 0 THEN first ELSE last]
  OBVIOUS
<1>5. PICK p : p = [node |-> N, free |-> [i \in Index |-> <<>>], bitmap |-> {}, curUsed |-> HeadSize]
  OBVIOUS
<1>6. heap = OsMemFreeNodeAdd(p, 0) /\ held = <<>>
  BY <1>1, <1>2, <1>3, <1>4, <1>5 DEF MemoryInit, HeapInit
<1>7. /\ EndNode \in Nat /\ EndNode # 0 /\ EndNode > 0 /\ EndNode \in 0..PoolSize /\ 0 \in 0..PoolSize
      /\ 0 \in 0..EndNode /\ EndNode \in 0..EndNode
  BY PoolNumbers
<1>8. /\ DOMAIN N = {0, EndNode} /\ N[0] = first /\ N[EndNode] = last
      /\ N = [x \in DOMAIN N |-> N[x]]
  BY <1>4, <1>7
<1>9. /\ first \in NodeHead /\ first.size = EndNode /\ ~first.used /\ first.prev = EndNode
      /\ last \in NodeHead /\ last.used /\ last.prev = 0
  BY <1>2, <1>3, <1>7 DEF NodeHead
<1>10. Tiles(N)
  <2>1. 0 + EndNode = EndNode
    BY <1>7
  <2>2. \A a \in DOMAIN N \ {EndNode} :
          /\ N[a].size > 0 /\ a + N[a].size \in DOMAIN N /\ N[a + N[a].size].prev = a
          /\ \A b \in DOMAIN N : a < b => a + N[a].size <= b
    BY <2>1, <1>7, <1>8, <1>9
  <2>3. \A a \in DOMAIN N \ {0} :
          N[a].prev \in DOMAIN N \ {EndNode} /\ N[a].prev + N[N[a].prev].size = a
    BY <2>1, <1>7, <1>8, <1>9
  <2> QED BY <2>2, <2>3, <1>7, <1>8, <1>9 DEF Tiles
<1>11. IsPool(p) /\ p.node = N
  BY <1>5 DEF IsPool
<1>12. Lists(p, {0})
  <2>1. ASSUME NEW i \in Index
        PROVE  /\ Distinct(p.free[i]) /\ (i \in p.bitmap <=> p.free[i] # <<>>)
               /\ \A a : In(a, p.free[i]) <=> a \in Listed(p, {0}, i)
    <3>1. p.free[i] = <<>> /\ i \notin p.bitmap
      BY <1>5
    <3>2. \A a : a \notin Listed(p, {0}, i)
      BY <1>8, <1>9, <1>11 DEF Listed
    <3>3. Distinct(<<>>) /\ \A a : ~In(a, <<>>)
      BY DEF Distinct, In
    <3> QED BY <3>1, <3>2, <3>3
  <2> QED BY <2>1 DEF Lists
<1>13. IsPool(heap) /\ heap.node = N /\ Lists(heap, {0} \ {0})
  <2>1. 0 \in DOMAIN p.node \ {EndNode} /\ 0 \in {0} /\ ~p.node[0].used
    BY <1>7, <1>8, <1>9, <1>11
  <2> QED BY <2>1, <1>6, <1>10, <1>11, <1>12, FreeNodeAdd
<1>14. {0} \ {0} = {}
  OBVIOUS
<1>15. AltAway(N, {})
  <2>1. 0 + N[0].size = EndNode
    BY <1>7, <1>8, <1>9
  <2> QED BY <2>1, <1>8, <1>9 DEF AltAway
<1>16. HeldInv
  <2>1. DOMAIN held = {}
    BY <1>6
  <2> QED BY <2>1 DEF HeldInv
<1> QED BY <1>10, <1>13, <1>14, <1>15, <1>16 DEF HeapInv, Good

\* The invariant of the heap: the nodes tile the pool, no two free nodes touch,
\* each free node is once in the list of its class and no other one is, and every
\* block lies in a used node of its own (los_memory.c).
THEOREM HeapInvariant == MemorySpec => []HeapInv
<1>1. HeapInv /\ [MemoryNext]_memoryVars => HeapInv'
  BY HeapStep, HeapStutter
<1> QED BY <1>1, HeapInitInv, PTL DEF MemorySpec

\* The nodes and the free lists always agree, after any sequence of calls
\* (OsMemFree, OsMemSplitNode, OsMemMergeNode).
THEOREM HeapAgreesAlways == MemorySpec => []HeapAgrees
<1>1. HeapInv => HeapAgrees
  <2>1. SUFFICES ASSUME HeapInv PROVE HeapAgrees
    OBVIOUS
  <2>2. /\ Tiles(heap.node) /\ Lists(heap, {}) /\ AltAway(heap.node, {})
    BY <2>1 DEF HeapInv, Good
  <2>3. ASSUME NEW a \in DOMAIN heap.node \ {EndNode}
        PROVE  /\ NextNode(heap, a) \in DOMAIN heap.node
               /\ heap.node[NextNode(heap, a)].prev = a
               /\ heap.node[a].used \/ heap.node[NextNode(heap, a)].used
               /\ \A b \in DOMAIN heap.node : a < b => NextNode(heap, a) <= b
    BY <2>2 DEF Tiles, AltAway, NextNode
  <2>4. ASSUME NEW i \in Index
        PROVE  /\ \A j, k \in DOMAIN heap.free[i] : heap.free[i][j] = heap.free[i][k] => j = k
               /\ {heap.free[i][j] : j \in DOMAIN heap.free[i]} =
                    {a \in DOMAIN heap.node : /\ ~heap.node[a].used
                                              /\ OsMemFreeListIndexGet(heap.node[a].size) = i}
               /\ i \in heap.bitmap <=> heap.free[i] # <<>>
    <3>1. /\ Distinct(heap.free[i]) /\ (i \in heap.bitmap <=> heap.free[i] # <<>>)
          /\ \A a : In(a, heap.free[i]) <=> a \in Listed(heap, {}, i)
      BY <2>2 DEF Lists
    <3>2. \A a : a \in {heap.free[i][j] : j \in DOMAIN heap.free[i]} <=> In(a, heap.free[i])
      BY DEF In
    <3> QED BY <3>1, <3>2 DEF Distinct, Listed
  <2> QED BY <2>3, <2>4 DEF HeapAgrees
<1> QED BY <1>1, HeapInvariant, PTL

\* A block that was handed out is always accepted back (OsMemCheckUsedNode).
THEOREM BlocksAlwaysAccepted == MemorySpec => []BlocksAreAccepted
<1>1. HeapInv => BlocksAreAccepted
  <2>1. SUFFICES ASSUME HeapInv, NEW ptr \in DOMAIN held PROVE OsMemCheckUsedNode(heap, NodeOf(ptr))
    BY DEF BlocksAreAccepted
  <2>2. PICK a : a = NodeOf(ptr)
    OBVIOUS
  <2>3. PICK N : N = heap.node
    OBVIOUS
  <2>4. Tiles(N) /\ a \in DOMAIN N /\ a # EndNode /\ N[a].used
    BY <2>1, <2>2, <2>3, HeldNode DEF HeapInv, Good, UsedIn
  <2>5. a + N[a].size \in DOMAIN N /\ N[a + N[a].size].prev = a
    BY <2>4, NodeFacts
  <2>6. \A x \in DOMAIN N : N[x].prev \in 0..PoolSize
    BY <2>4, NodeFacts DEF NodeHead
  <2>7. a # 0 => N[a].prev \in DOMAIN N /\ N[a].prev + N[N[a].prev].size = a
    BY <2>4, NodeFacts
  <2> QED BY <2>2, <2>3, <2>4, <2>5, <2>6, <2>7 DEF OsMemCheckUsedNode, IsNodeValid, NextNode
<1> QED BY <1>1, HeapInvariant, PTL

\* LOS_MemAlloc fails only when no stretch of free words is long enough
\* (OsMemFindNextSuitableBlock): free words in one stretch are one node's, for no
\* two free nodes touch, and no free node that is large enough is overlooked.
THEOREM NoSpaceIsOverlooked == MemorySpec => []NoSpaceOverlooked
<1>1. HeapInv => NoSpaceOverlooked
  <2>1. SUFFICES ASSUME HeapInv, NEW n \in Request, Suitable(heap, n) = NoNode,
                        NEW a \in 0 .. (EndNode - AllocSize(n)),
                        (a .. (a + AllocSize(n) - 1)) \cap InUse = {}
                 PROVE  FALSE
    BY DEF NoSpaceOverlooked
  <2>2. PICK N : N = heap.node
    OBVIOUS
  <2>3. Good(heap) /\ Tiles(N) /\ AltAway(N, {})
    BY <2>1, <2>2 DEF HeapInv, Good
  <2>4. PICK w \in Nat : w = AllocSize(n) /\ w > 0 /\ w \in Sizes
    BY Requests DEF Sizes
  <2>5. \A x \in DOMAIN N : ~N[x].used => N[x].size < w
    BY <2>1, <2>2, <2>3, <2>4, SuitableNode DEF Suitable
  <2>6. EndNode \in Nat /\ a \in Nat /\ a + w <= EndNode /\ a < EndNode
    BY <2>1, <2>4, PoolNumbers
  <2>7. \A x \in DOMAIN N, y \in Int :
          N[x].used /\ x <= y /\ y < x + N[x].size => ~(a <= y /\ y < a + w)
    <3>1. ASSUME NEW x \in DOMAIN N, NEW y \in Int, N[x].used, x <= y, y < x + N[x].size,
                 a <= y, y < a + w
          PROVE  FALSE
      <4>1. x \in Int /\ N[x].size \in Int
        BY <2>3, NodeFacts
      <4>2. y \in x .. (NextNode(heap, x) - 1)
        BY <4>1, <3>1, <2>2 DEF NextNode
      <4>3. y \in InUse
        BY <4>2, <3>1, <2>2 DEF InUse
      <4>4. y \in a .. (a + AllocSize(n) - 1)
        BY <3>1, <2>4, <2>6
      <4> QED BY <4>3, <4>4, <2>1
    <3> QED BY <3>1
  <2>8. PICK b \in DOMAIN N : b <= a /\ \A y \in DOMAIN N : y <= a => y <= b
    <3> DEFINE B == {x \in DOMAIN N : x <= a}
    <3>1. B \in SUBSET (0..a) /\ B # {}
      <4>1. 0 \in B
        BY <2>3, <2>6 DEF Tiles
      <4>2. \A x \in DOMAIN N : x \in Int /\ 0 <= x
        BY <2>3, NodeFacts
      <4> QED BY <4>1, <4>2, <2>6
    <3>2. \E x \in B : \A y \in B : y <= x
      <4> HIDE DEF B
      <4> QED BY <3>1, <2>6, GreatestNumber
    <3> QED BY <3>2
  <2>9. b # EndNode /\ b \in Int /\ N[b].size \in Int /\ 0 < N[b].size /\ b + N[b].size \in DOMAIN N
    <3>1. b # EndNode
      BY <2>6, <2>8
    <3> QED BY <3>1, <2>3, <2>8, NodeFacts
  <2>10. PICK c \in DOMAIN N : c = b + N[b].size /\ c \in Int /\ a < c
    <3>1. ~(b + N[b].size <= a)
      BY <2>8, <2>9
    <3> QED BY <3>1, <2>6, <2>9
  <2>11. ~N[b].used
    BY <2>4, <2>6, <2>7, <2>8, <2>9, <2>10
  <2>12. N[c].used
    BY <2>3, <2>8, <2>9, <2>10, <2>11 DEF AltAway
  <2>13. a + w <= c
    <3>1. CASE c = EndNode
      BY <3>1, <2>6
    <3>2. CASE c # EndNode
      <4>1. N[c].size \in Int /\ 0 < N[c].size
        BY <3>2, <2>3, <2>10, NodeFacts
      <4>2. c < c + N[c].size /\ c <= c
        BY <4>1, <2>10
      <4>3. ~(a <= c /\ c < a + w)
        BY <4>2, <2>7, <2>10, <2>12
      <4> QED BY <4>3, <2>4, <2>6, <2>10
    <3> QED BY <3>1, <3>2
  <2>14. N[b].size >= w
    BY <2>4, <2>6, <2>8, <2>9, <2>10, <2>13
  <2> QED BY <2>4, <2>5, <2>8, <2>9, <2>11, <2>14
<1> QED BY <1>1, HeapInvariant, PTL

\* The blocks never overlap, whatever the sequence of allocations, aligned or
\* not, reallocations and frees: every step of the heap is one of the abstract
\* heap's (los_memory.c).
THEOREM HeapImplementsHeap == MemorySpec => ImplementsHeap
<1>1. MemoryInit => AbstractHeap!Init
  <2>1. SUFFICES ASSUME held = <<>> PROVE AbstractHeap!Init
    BY DEF MemoryInit
  <2>2. DOMAIN held = {}
    BY <2>1
  <2>3. [ptr \in DOMAIN held |-> held[ptr].size] = <<>>
    BY <2>2
  <2> QED BY <2>3 DEF AbstractHeap!Init
<1>2. HeapInv /\ [MemoryNext]_memoryVars
        => [AbstractHeap!Next]_([ptr \in DOMAIN held |-> held[ptr].size])
  <2>1. CASE UNCHANGED memoryVars
    BY <2>1 DEF memoryVars
  <2> QED BY <2>1, HeapStep
<1> QED BY <1>1, <1>2, HeapInvariant, PTL DEF MemorySpec, ImplementsHeap, AbstractHeap!Spec

-----------------------------------------------------------------------------
(* curUsedSize.                                                            *)

\* f counts the used words, one word of the pool after the other, up to word n.
IsSum(f, n, N) == f = [a \in 0..n |-> IF a = 0 THEN 0 ELSE f[a - 1] + UsedAt(N, a - 1)]

\* The sum is defined, however long the pool.
LEMMA SumExists ==
  ASSUME NEW N, NEW n \in Nat
  PROVE  \E f : IsSum(f, n, N)
<1> DEFINE Bad == {m \in Nat : ~\E f : IsSum(f, m, N)}
<1>1. SUFFICES ASSUME Bad # {} PROVE FALSE
  BY DEF Bad
<1>2. PICK m \in Bad : \A y \in Bad : m <= y
  BY <1>1, LeastNumber
<1>3. m \in Nat /\ ~\E f : IsSum(f, m, N)
  BY <1>2
<1>4. CASE m = 0
  <2> DEFINE f == [a \in 0..0 |-> 0]
  <2>1. f = [a \in 0..0 |-> IF a = 0 THEN 0 ELSE f[a - 1] + UsedAt(N, a - 1)]
    OBVIOUS
  <2>2. IsSum(f, 0, N)
    BY <2>1 DEF IsSum
  <2> QED BY <2>2, <1>3, <1>4
<1>5. CASE m # 0
  <2>1. m - 1 \in Nat /\ m - 1 \notin Bad
    BY <1>2, <1>3, <1>5
  <2>2. PICK f : IsSum(f, m - 1, N)
    BY <2>1
  <2>3. PICK last : last = f[m - 1] + UsedAt(N, m - 1)
    OBVIOUS
  <2> DEFINE g == [a \in 0..m |-> IF a = m THEN last ELSE f[a]]
  <2>4. f = [a \in 0..(m - 1) |-> IF a = 0 THEN 0 ELSE f[a - 1] + UsedAt(N, a - 1)]
    BY <2>2 DEF IsSum
  <2>5. ASSUME NEW a \in 0..m
        PROVE  g[a] = IF a = 0 THEN 0 ELSE g[a - 1] + UsedAt(N, a - 1)
    <3>1. CASE a = m
      <4>1. g[a] = last /\ m - 1 \in 0..m /\ m - 1 # m
        BY <3>1, <1>3, <1>5
      <4>2. g[a - 1] = f[m - 1]
        BY <4>1, <3>1
      <4> HIDE DEF g
      <4> QED BY <4>1, <4>2, <3>1, <2>3, <1>5
    <3>2. CASE a # m
      <4>1. a \in 0..(m - 1) /\ g[a] = f[a]
        BY <3>2, <1>3
      <4>2. CASE a = 0
        BY <4>1, <4>2, <2>4
      <4>3. CASE a # 0
        <5>1. a - 1 \in 0..m /\ a - 1 # m
          BY <4>1, <4>3, <1>3
        <5>2. g[a - 1] = f[a - 1]
          BY <5>1
        <5> HIDE DEF g
        <5> QED BY <4>1, <4>3, <5>2, <2>4
      <4> QED BY <4>2, <4>3
    <3> QED BY <3>1, <3>2
  <2>6. g = [a \in 0..m |-> g[a]]
    OBVIOUS
  <2> HIDE DEF g
  <2>7. g = [a \in 0..m |-> IF a = 0 THEN 0 ELSE g[a - 1] + UsedAt(N, a - 1)]
    BY <2>5, <2>6
  <2>8. IsSum(g, m, N)
    BY <2>7 DEF IsSum
  <2> QED BY <2>8, <1>3
<1> QED BY <1>4, <1>5

\* UsedWords is such a sum.
LEMMA UsedWordsIs ==
  ASSUME NEW N
  PROVE  \E f : IsSum(f, EndNode, N) /\ UsedWords(N) = f[EndNode]
<1> DEFINE f == CHOOSE g : IsSum(g, EndNode, N)
<1>1. IsSum(f, EndNode, N)
  BY SumExists, PoolNumbers
<1>2. UsedWords(N) = f[EndNode]
  BY DEF UsedWords, IsSum
<1> QED BY <1>1, <1>2

\* One step of it.
LEMMA SumStep ==
  ASSUME NEW N, NEW f, IsSum(f, EndNode, N), NEW a \in 0..EndNode
  PROVE  f[a] = IF a = 0 THEN 0 ELSE f[a - 1] + UsedAt(N, a - 1)
BY DEF IsSum

\* What one word counts.
LEMMA UsedAtIs ==
  ASSUME NEW N, Tiles(N), NEW a \in 0..EndNode
  PROVE  UsedAt(N, a) \in Nat
BY NodeFacts DEF UsedAt, Tiles, NodeHead

\* The used nodes before word n end before any node that begins there or later.
LEMMA SumBound ==
  ASSUME NEW N, Tiles(N), NEW f, IsSum(f, EndNode, N), NEW n \in 0..EndNode
  PROVE  f[n] \in Nat /\ \A b \in DOMAIN N : n <= b => f[n] <= b
<1> DEFINE OK(m) == f[m] \in Nat /\ \A b \in DOMAIN N : m <= b => f[m] <= b
           Bad == {m \in Nat : m \in 0..EndNode /\ ~OK(m)}
<1>1. SUFFICES ASSUME Bad # {} PROVE FALSE
  BY PoolNumbers DEF Bad
<1>2. PICK m \in Bad : \A y \in Bad : m <= y
  BY <1>1, LeastNumber
<1>3. m \in 0..EndNode /\ ~OK(m)
  BY <1>2
<1>4. \A b \in DOMAIN N : b \in Int /\ 0 <= b
  BY NodeFacts
<1>5. CASE m = 0
  <2>1. f[0] = 0
    BY <1>3, <1>5, SumStep
  <2> QED BY <2>1, <1>3, <1>4, <1>5
<1>6. CASE m # 0
  <2>1. m - 1 \in Nat /\ m - 1 \in 0..EndNode /\ ~(m <= m - 1) /\ m - 1 < m
    BY <1>3, <1>6, PoolNumbers
  <2>2. OK(m - 1)
    BY <2>1, <1>2
  <2>3. PICK c \in Nat : c = m - 1
    BY <2>1
  <2>4. f[m] = f[c] + UsedAt(N, c) /\ UsedAt(N, c) \in Nat /\ f[c] \in Nat
    BY <2>1, <2>2, <2>3, <1>3, <1>6, SumStep, UsedAtIs
  <2>5. ASSUME NEW b \in DOMAIN N, m <= b PROVE f[m] <= b
    <3>1. CASE c \in DOMAIN N /\ N[c].used
      <4>1. f[c] <= c /\ UsedAt(N, c) = N[c].size
        BY <3>1, <2>2, <2>3 DEF UsedAt
      <4>2. c # EndNode
        BY <2>1, <2>3, <1>3
      <4>3. c + N[c].size <= b
        BY <4>2, <3>1, <2>1, <2>3, <2>5, <1>3, <1>4 DEF Tiles
      <4> QED BY <4>1, <4>3, <2>3, <2>4, <1>4
    <3>2. CASE ~(c \in DOMAIN N /\ N[c].used)
      <4>1. UsedAt(N, c) = 0 /\ c <= b
        BY <3>2, <2>1, <2>3, <2>5, <1>3, <1>4 DEF UsedAt
      <4>2. f[c] <= b
        BY <4>1, <2>2, <2>3
      <4> QED BY <4>1, <4>2, <2>4
    <3> QED BY <3>1, <3>2
  <2> QED BY <2>4, <2>5, <1>3
<1> QED BY <1>5, <1>6

\* The used words are words of the pool.
LEMMA UsedWordsFit ==
  ASSUME NEW N, Tiles(N)
  PROVE  UsedWords(N) \in Nat /\ UsedWords(N) <= EndNode
<1>1. PICK f : IsSum(f, EndNode, N) /\ UsedWords(N) = f[EndNode]
  BY UsedWordsIs
<1>2. EndNode \in 0..EndNode /\ EndNode \in DOMAIN N /\ EndNode <= EndNode
  BY PoolNumbers DEF Tiles
<1> QED BY <1>1, <1>2, SumBound

\* When all used nodes but one stay, the sum changes by that one.
LEMMA SumChanges ==
  ASSUME NEW N, NEW M, Tiles(N), Tiles(M), NEW a \in 0..(EndNode - 1), Keeps(N, M, {a})
  PROVE  UsedWords(M) = UsedWords(N) + (UsedAt(M, a) - UsedAt(N, a))
<1>1. PICK f : IsSum(f, EndNode, N) /\ UsedWords(N) = f[EndNode]
  BY UsedWordsIs
<1>2. PICK g : IsSum(g, EndNode, M) /\ UsedWords(M) = g[EndNode]
  BY UsedWordsIs
<1>3. PICK d \in Int : d = UsedAt(M, a) - UsedAt(N, a)
  BY UsedAtIs, PoolNumbers
<1> DEFINE OK(m) == g[m] = f[m] + (IF m > a THEN d ELSE 0)
           Bad == {m \in Nat : m \in 0..EndNode /\ ~OK(m)}
<1>4. CASE Bad = {}
  <2>1. EndNode \in Nat /\ EndNode \in 0..EndNode /\ EndNode > a
    BY PoolNumbers
  <2>2. OK(EndNode)
    BY <2>1, <1>4
  <2> QED BY <2>1, <2>2, <1>1, <1>2, <1>3
<1>5. CASE Bad # {}
  <2>1. PICK m \in Bad : \A y \in Bad : m <= y
    BY <1>5, LeastNumber
  <2>2. m \in 0..EndNode /\ ~OK(m)
    BY <2>1
  <2>3. CASE m = 0
    <3>1. f[0] = 0 /\ g[0] = 0
      BY <2>2, <2>3, <1>1, <1>2, SumStep
    <3> QED BY <3>1, <2>2, <2>3
  <2>4. CASE m # 0
    <3>1. m - 1 \in Nat /\ m - 1 \in 0..EndNode /\ ~(m <= m - 1) /\ m - 1 < m
      BY <2>2, <2>4, PoolNumbers
    <3>2. OK(m - 1)
      BY <3>1, <2>1
    <3>3. PICK c \in Nat : c = m - 1
      BY <3>1
    <3>4. /\ f[m] = f[c] + UsedAt(N, c) /\ UsedAt(N, c) \in Nat /\ f[c] \in Nat
          /\ g[m] = g[c] + UsedAt(M, c) /\ UsedAt(M, c) \in Nat /\ g[c] \in Nat
      <4>1. c \in 0..EndNode
        BY <3>1, <3>3
      <4>2. UsedAt(N, c) \in Nat /\ UsedAt(M, c) \in Nat
        BY <4>1, UsedAtIs
      <4>3. f[c] \in Nat /\ g[c] \in Nat
        BY <4>1, <1>1, <1>2, SumBound
      <4>4. f[m] = f[c] + UsedAt(N, c) /\ g[m] = g[c] + UsedAt(M, c)
        BY <3>3, <2>2, <2>4, <1>1, <1>2, SumStep
      <4> QED BY <4>2, <4>3, <4>4
    <3>5. CASE c = a
      <4>1. g[c] = f[c]
        BY <3>2, <3>3, <3>4, <3>5
      <4>2. m > a /\ UsedAt(M, c) = UsedAt(N, c) + d
        <5>1. m \in Int /\ m = c + 1
          BY <3>3, <2>2
        <5> QED BY <5>1, <3>4, <3>5, <1>3
      <4>3. g[m] = f[m] + d
        BY <4>1, <4>2, <3>4, <1>3
      <4> QED BY <4>2, <4>3, <2>2
    <3>6. CASE c # a
      <4>1. UsedAt(M, c) = UsedAt(N, c)
        BY <3>6 DEF UsedAt, Keeps, UsedIn
      <4>2. m > a <=> c > a
        BY <3>3, <3>6, <2>2
      <4> QED BY <4>1, <4>2, <3>2, <3>3, <3>4, <2>2, <1>3
    <3> QED BY <3>5, <3>6
  <2> QED BY <2>3, <2>4
<1> QED BY <1>4, <1>5

\* Counts are congruent modulo the used flag.
LEMMA CountCongruent ==
  ASSUME NEW c \in Int, NEW x \in Int, NEW y \in Int, NEW k \in Int, NEW j \in Int, NEW d \in Int,
         c = x + k * UsedFlag, d = (y - x) + j * UsedFlag
  PROVE  /\ (c + d) % (2 * UsedFlag) \in Int
         /\ \E m \in Int : (c + d) % (2 * UsedFlag) = y + m * UsedFlag
<1>1. PICK U \in Nat \ {0} : U = UsedFlag
  BY PoolAssumption
<1>2. PICK z \in Int : z = c + d
  OBVIOUS
<1>3. PICK n \in Nat \ {0} : n = 2 * U
  OBVIOUS
<1>4. PICK q \in Int : q = z \div n
  OBVIOUS
<1>5. PICK s \in Int : s = z % n /\ z = n * q + s
  BY <1>4
<1>6. PICK v \in Int : v = (k + j) - 2 * q
  OBVIOUS
<1>7. v * U = k * U + j * U - n * q
  BY <1>3, <1>6
<1>8. k * U \in Int /\ j * U \in Int /\ n * q \in Int /\ v * U \in Int
  OBVIOUS
<1>9. s = y + v * U
  BY <1>1, <1>2, <1>5, <1>7, <1>8
<1> QED BY <1>1, <1>2, <1>3, <1>5, <1>9

\* ... and a number below the flag is the remainder of those congruent to it.
LEMMA RemainderIs ==
  ASSUME NEW c \in Int, NEW r \in Nat, r < UsedFlag, NEW k \in Int, c = r + k * UsedFlag
  PROVE  c % UsedFlag = r
<1>1. PICK U \in Nat \ {0} : U = UsedFlag
  BY PoolAssumption
<1>2. PICK q \in Int : q = c \div U
  BY <1>1
<1>3. PICK s \in Int : s = c % U /\ 0 <= s /\ s < U /\ c = U * q + s
  BY <1>1, <1>2
<1>4. r - s = U * q - k * U
  BY <1>1, <1>3
<1>5. PICK e \in Int : e = q - k
  OBVIOUS
<1>6. U * q - k * U = e * U
  BY <1>5
<1>7. r - s = e * U
  BY <1>4, <1>6
<1>8. CASE e = 0
  BY <1>1, <1>3, <1>7, <1>8
<1>9. CASE e >= 1
  <2>1. e * U >= U
    BY <1>9
  <2> QED BY <2>1, <1>1, <1>3, <1>7
<1>10. CASE e <= -1
  <2>1. e * U <= -U
    BY <1>10
  <2> QED BY <2>1, <1>1, <1>3, <1>7
<1> QED BY <1>8, <1>9, <1>10

\* What is counted is the words in use, but for the used flag, and the flag is
\* more than they can be.
CountOK(p) ==
  /\ p.curUsed \in Int
  /\ \E k \in Int : p.curUsed = (HeadSize + UsedWords(p.node)) + k * UsedFlag

\* An operation on one node.
LEMMA CountKept ==
  ASSUME NEW p, NEW q, Tiles(p.node), Tiles(q.node), CountOK(p), NEW a \in DOMAIN p.node,
         a # EndNode, Keeps(p.node, q.node, {a}), Recounted(p, a, q)
  PROVE  CountOK(q)
<1>1. a \in 0..(EndNode - 1) /\ a \in 0..EndNode
  <2>1. a \in Int /\ 0 <= a /\ a <= EndNode
    BY NodeFacts
  <2> QED BY <2>1, PoolNumbers
<1>2. PICK x \in Int : x = HeadSize + UsedWords(p.node)
  BY UsedWordsFit DEF HeadSize
<1>3. PICK y \in Int : y = HeadSize + UsedWords(q.node)
  BY UsedWordsFit DEF HeadSize
<1>4. y - x = UsedAt(q.node, a) - UsedAt(p.node, a)
  <2>1. UsedAt(q.node, a) \in Nat /\ UsedAt(p.node, a) \in Nat
    BY <1>1, UsedAtIs
  <2>2. UsedWords(q.node) = UsedWords(p.node) + (UsedAt(q.node, a) - UsedAt(p.node, a))
    BY <1>1, SumChanges
  <2>3. UsedWords(q.node) \in Nat /\ UsedWords(p.node) \in Nat
    BY UsedWordsFit
  <2> QED BY <2>1, <2>2, <2>3, <1>2, <1>3 DEF HeadSize
<1>5. PICK d \in Int, j \in Int : /\ d = (y - x) + j * UsedFlag
                                  /\ q.curUsed = (p.curUsed + d) % (2 * UsedFlag)
  BY <1>4 DEF Recounted
<1>6. PICK c \in Int, k \in Int : c = p.curUsed /\ c = x + k * UsedFlag
  BY <1>2 DEF CountOK
<1>7. q.curUsed \in Int /\ \E m \in Int : q.curUsed = y + m * UsedFlag
  <2>1. /\ (c + d) % (2 * UsedFlag) \in Int
        /\ \E m \in Int : (c + d) % (2 * UsedFlag) = y + m * UsedFlag
    BY <1>5, <1>6, CountCongruent
  <2>2. q.curUsed = (c + d) % (2 * UsedFlag)
    BY <1>5, <1>6
  <2> QED BY <2>1, <2>2
<1> QED BY <1>3, <1>7 DEF CountOK

\* LOS_MemAlloc and what else goes through OsMemAlloc.
LEMMA AllocCounts ==
  ASSUME NEW p, Good(p), CountOK(p), NEW n, AllocSize(n) \in Sizes, NEW task \in Owner,
         Suitable(p, n) # NoNode
  PROVE  CountOK(OsMemAlloc(p, n, task))
<1>1. PICK a : a = Suitable(p, n)
  OBVIOUS
<1>2. PICK q : q = OsMemAlloc(p, n, task)
  OBVIOUS
<1>3. IsAllocated(p, n, a, q)
  BY <1>1, <1>2, AllocGood
<1>4. a \in DOMAIN p.node
  BY <1>1, SuitableNode DEF Suitable
<1>5. CountOK(q)
  BY <1>3, <1>4, CountKept DEF IsAllocated, Good
<1> QED BY <1>2, <1>5

\* OsMemFree.
LEMMA FreeCounts ==
  ASSUME NEW p, Good(p), CountOK(p), NEW a \in UsedIn(p.node), a # EndNode
  PROVE  CountOK(OsMemFree(p, a))
<1>1. PICK q : q = OsMemFree(p, a)
  OBVIOUS
<1>2. IsFreed(p, a, q)
  BY <1>1, FreeGood
<1>3. CountOK(q)
  BY <1>2, CountKept DEF IsFreed, Good, UsedIn
<1> QED BY <1>1, <1>3

\* LOS_MemFreeByTaskID, node by node.
LEMMA WalkCounts ==
  ASSUME NEW p, Good(p), CountOK(p), NEW task, NEW f, IsWalk(f, EndNode, p, task)
  PROVE  CountOK(f[EndNode])
<1> DEFINE Bad == {n \in Nat : n <= EndNode /\ ~(Good(f[n]) /\ CountOK(f[n]))}
<1>1. EndNode \in Nat
  BY PoolNumbers
<1>2. SUFFICES ASSUME Bad # {} PROVE FALSE
  BY <1>1
<1>3. PICK m \in Bad : \A y \in Bad : m <= y
  BY <1>2, LeastNumber
<1>4. m \in 0..EndNode
  BY <1>1, <1>3
<1>5. f[m] = IF m = 0 THEN p ELSE FreeIfOf(f[m - 1], m - 1, task)
  BY <1>4 DEF IsWalk
<1>6. CASE m = 0
  BY <1>3, <1>5, <1>6
<1>7. CASE m # 0
  <2>1. m - 1 \in Nat /\ m - 1 <= EndNode /\ ~(m <= m - 1) /\ m - 1 # EndNode
    BY <1>1, <1>4, <1>7
  <2>2. PICK t : t = f[m - 1]
    OBVIOUS
  <2>3. Good(t) /\ CountOK(t)
    BY <2>1, <2>2, <1>3
  <2>4. CASE IsOf(t, m - 1, task)
    <3>1. m - 1 \in UsedIn(t.node)
      BY <2>4 DEF IsOf, UsedIn
    <3>2. Good(OsMemFree(t, m - 1)) /\ CountOK(OsMemFree(t, m - 1))
      BY <3>1, <2>1, <2>3, FreeGood, FreeCounts DEF IsFreed
    <3> QED BY <3>2, <2>2, <2>4, <1>3, <1>5, <1>7 DEF FreeIfOf
  <2>5. CASE ~IsOf(t, m - 1, task)
    BY <2>2, <2>3, <2>5, <1>3, <1>5, <1>7 DEF FreeIfOf
  <2> QED BY <2>4, <2>5
<1> QED BY <1>6, <1>7

\* Every step of the heap keeps the count.
LEMMA CountStep ==
  ASSUME HeapInv, HeapInv', CountOK(heap), MemoryNext
  PROVE  CountOK(heap')
<1>1. Good(heap) /\ Good(heap')
  BY DEF HeapInv
<1>2. ASSUME NEW task \in Owner, NEW n \in Request, LOS_MemAlloc(task, n)
      PROVE  CountOK(heap')
  BY <1>1, <1>2, Requests, AllocCounts DEF LOS_MemAlloc
<1>3. ASSUME NEW task \in Owner, NEW n \in Request, NEW b \in Boundary,
             LOS_MemAllocAlign(task, n, b)
      PROVE  CountOK(heap')
  <2>1. PICK use : use = (IF n < MinAlloc THEN MinAlloc ELSE n) + b - 1
    OBVIOUS
  <2>2. PICK a : a = Suitable(heap, use)
    OBVIOUS
  <2>3. PICK aligned : aligned = (Gap(a + HeadSize, b) # 0)
    OBVIOUS
  <2>4. PICK p : p = OsMemAlloc(heap, use, task)
    OBVIOUS
  <2>5. a # NoNode /\ heap' = [p EXCEPT !.node[a].aligned = aligned]
    BY <2>1, <2>2, <2>3, <2>4, <1>3 DEF LOS_MemAllocAlign
  <2>6. AllocSize(use) \in Sizes
    BY <2>1, Requests
  <2>7. IsAllocated(heap, use, a, p)
    BY <2>2, <2>4, <2>5, <2>6, <1>1, AllocGood
  <2>8. Good(p) /\ CountOK(p) /\ a \in DOMAIN p.node /\ a # EndNode
    BY <2>2, <2>4, <2>5, <2>6, <2>7, <1>1, AllocCounts DEF IsAllocated, UsedIn
  <2>9. p = [node |-> p.node, free |-> p.free, bitmap |-> p.bitmap, curUsed |-> p.curUsed]
    BY <2>8 DEF Good, IsPool
  <2>10. heap'.curUsed = p.curUsed
    BY <2>5, <2>9
  <2>11. Tiles(p.node) /\ Tiles(heap'.node)
    BY <2>8, <1>1 DEF Good
  <2>12. /\ DOMAIN heap'.node = DOMAIN p.node
         /\ \A x \in DOMAIN p.node : x # a => heap'.node[x] = p.node[x]
         /\ heap'.node[a] = [p.node[a] EXCEPT !.aligned = aligned]
    <3>1. heap'.node = [p.node EXCEPT ![a] = [p.node[a] EXCEPT !.aligned = aligned]]
      BY <2>5, <2>9
    <3> QED BY <3>1, <2>8
  <2>13. /\ heap'.node[a].used = p.node[a].used /\ heap'.node[a].size = p.node[a].size
         /\ heap'.node[a].taskID = p.node[a].taskID
    <3>1. p.node[a] \in NodeHead
      BY <2>8, <2>11, NodeFacts
    <3> QED BY <3>1, <2>12 DEF NodeHead
  <2>14. Keeps(p.node, heap'.node, {a}) /\ UsedAt(heap'.node, a) = UsedAt(p.node, a)
    BY <2>12, <2>13, <2>8 DEF Keeps, UsedIn, UsedAt
  <2>15. UsedWords(heap'.node) = UsedWords(p.node)
    <3>1. a \in 0..(EndNode - 1) /\ a \in 0..EndNode
      <4>1. a \in Int /\ 0 <= a /\ a <= EndNode
        BY <2>8, <2>11, NodeFacts
      <4> QED BY <4>1, <2>8, PoolNumbers
    <3>2. UsedAt(p.node, a) \in Nat /\ UsedWords(p.node) \in Nat
      BY <3>1, <2>11, UsedAtIs, UsedWordsFit
    <3>3. UsedWords(heap'.node) = UsedWords(p.node) + (UsedAt(heap'.node, a) - UsedAt(p.node, a))
      BY <3>1, <2>11, <2>14, SumChanges
    <3> QED BY <3>2, <3>3, <2>14
  <2> QED BY <2>8, <2>10, <2>15 DEF CountOK
<1>4. ASSUME NEW task \in Owner, NEW n \in Request, NEW ptr \in DOMAIN held,
             LOS_MemRealloc(task, ptr, n)
      PROVE  CountOK(heap')
  <2>1. PICK a : a = NodeOf(ptr)
    OBVIOUS
  <2>2. PICK w : w = AllocSize(n)
    OBVIOUS
  <2>3. w \in Nat /\ w > 0 /\ AllocSize(n) \in Sizes
    BY <2>2, Requests DEF Sizes
  <2>4. a \in UsedIn(heap.node) /\ a # EndNode /\ a \in DOMAIN heap.node
    BY <2>1, HeldNode DEF UsedIn
  <2>5. \/ Smaller(heap, a, w) /\ heap' = ReAllocSmaller(heap, a, w)
        \/ Bigger(heap, a, w) /\ heap' = ReAllocBigger(heap, a, w)
        \/ Suitable(heap, n) # NoNode /\ heap' = OsMemFree(OsMemAlloc(heap, n, task), a)
    BY <2>1, <2>2, <1>4 DEF LOS_MemRealloc
  <2>6. ASSUME IsResized(heap, a, w, heap'), Recounted(heap, a, heap') PROVE CountOK(heap')
    BY <2>4, <2>6, <1>1, CountKept DEF IsResized, Good
  <2>7. CASE Smaller(heap, a, w) /\ heap' = ReAllocSmaller(heap, a, w)
    BY <2>3, <2>4, <2>6, <2>7, <1>1, SmallerGood
  <2>8. CASE Bigger(heap, a, w) /\ heap' = ReAllocBigger(heap, a, w)
    BY <2>3, <2>4, <2>6, <2>8, <1>1, BiggerGood
  <2>9. CASE Suitable(heap, n) # NoNode /\ heap' = OsMemFree(OsMemAlloc(heap, n, task), a)
    <3>1. PICK p : p = OsMemAlloc(heap, n, task)
      OBVIOUS
    <3>2. IsAllocated(heap, n, Suitable(heap, n), p)
      BY <3>1, <2>3, <2>9, <1>1, AllocGood
    <3>3. Good(p) /\ CountOK(p)
      BY <3>1, <3>2, <2>3, <2>9, <1>1, AllocCounts DEF IsAllocated
    <3>4. a \in UsedIn(p.node)
      BY <3>2, <2>4 DEF IsAllocated, Keeps
    <3> QED BY <3>1, <3>3, <3>4, <2>4, <2>9, FreeCounts
  <2> QED BY <2>5, <2>7, <2>8, <2>9
<1>5. ASSUME NEW ptr \in DOMAIN held, LOS_MemFree(ptr)
      PROVE  CountOK(heap')
  <2>1. NodeOf(ptr) \in UsedIn(heap.node) /\ NodeOf(ptr) # EndNode
    BY HeldNode
  <2>2. heap' = OsMemFree(heap, NodeOf(ptr))
    BY <1>5 DEF LOS_MemFree
  <2> QED BY <2>1, <2>2, <1>1, FreeCounts
<1>6. ASSUME NEW task \in Owner, LOS_MemFreeByTaskID(task)
      PROVE  CountOK(heap')
  <2> DEFINE f == CHOOSE g : IsWalk(g, EndNode, heap, task)
  <2>1. IsWalk(f, EndNode, heap, task)
    BY WalkExists, PoolNumbers
  <2>2. heap' = f[EndNode]
    BY <1>6 DEF LOS_MemFreeByTaskID, IsWalk
  <2> HIDE DEF f
  <2> QED BY <2>1, <2>2, <1>1, WalkCounts
<1> QED BY <1>2, <1>3, <1>4, <1>5, <1>6 DEF MemoryNext

\* OsMemPoolInit: the two heads are counted, and no word is in use.
LEMMA CountInit ==
  ASSUME MemoryInit, HeapInv
  PROVE  CountOK(heap)
<1>1. PICK first : first = [size |-> EndNode, used |-> FALSE, aligned |-> FALSE,
                            prev |-> EndNode, taskID |-> "none"]
  OBVIOUS
<1>2. PICK last : last = [size |-> 0, used |-> TRUE, aligned |-> FALSE, prev |-> 0, taskID |-> "none"]
  OBVIOUS
<1>3. PICK N : N = [x \in {0, EndNode} |-> IF x = 0 THEN first ELSE last]
  OBVIOUS
<1>4. PICK p : p = [node |-> N, free |-> [i \in Index |-> <<>>], bitmap |-> {}, curUsed |-> HeadSize]
  OBVIOUS
<1>5. heap = OsMemFreeNodeAdd(p, 0)
  BY <1>1, <1>2, <1>3, <1>4 DEF MemoryInit, HeapInit
<1>6. heap.curUsed = HeadSize /\ heap.node = N
  <2>1. PICK f, b : OsMemFreeNodeAdd(p, 0) = [p EXCEPT !.free = f, !.bitmap = b]
    BY DEF OsMemFreeNodeAdd
  <2> QED BY <2>1, <1>4, <1>5
<1>7. Tiles(N)
  BY <1>6 DEF HeapInv, Good
<1>8. \A a : UsedAt(N, a) = 0
  BY <1>1, <1>2, <1>3, PoolNumbers DEF UsedAt
<1>9. UsedWords(N) = 0
  <2>1. PICK g : IsSum(g, EndNode, N) /\ UsedWords(N) = g[EndNode]
    BY UsedWordsIs
  <2> DEFINE Bad == {m \in Nat : m \in 0..EndNode /\ g[m] # 0}
  <2>2. CASE Bad = {}
    <3>1. EndNode \in Nat /\ EndNode \in 0..EndNode
      BY PoolNumbers
    <3> QED BY <3>1, <2>1, <2>2
  <2>3. CASE Bad # {}
    <3>1. PICK m \in Bad : \A y \in Bad : m <= y
      BY <2>3, LeastNumber
    <3>2. g[m] = IF m = 0 THEN 0 ELSE g[m - 1] + UsedAt(N, m - 1)
      BY <3>1, <2>1, SumStep
    <3>3. m # 0 /\ m - 1 \in Nat /\ m - 1 \in 0..EndNode /\ ~(m <= m - 1)
      BY <3>1, <3>2, PoolNumbers
    <3>4. g[m - 1] = 0
      BY <3>1, <3>3
    <3> QED BY <3>1, <3>2, <3>3, <3>4, <1>8
  <2> QED BY <2>2, <2>3
<1>10. PICK k \in Int : k = 0
  OBVIOUS
<1>11. HeadSize \in Int /\ HeadSize = (HeadSize + 0) + k * UsedFlag
  BY <1>10, PoolAssumption DEF HeadSize
<1> QED BY <1>6, <1>9, <1>10, <1>11 DEF CountOK

\* curUsedSize is always the size of the used nodes, in all bits below the used
\* flag, which a block that grows in place brings into the sum
\* (OsMemMergeNodeForReAllocBigger).
THEOREM UsedSizeAlwaysAgrees == MemorySpec => []UsedSizeAgrees
<1>1. MemoryInit => CountOK(heap)
  BY HeapInitInv, CountInit
<1>2. HeapInv /\ HeapInv' /\ CountOK(heap) /\ [MemoryNext]_memoryVars => CountOK(heap)'
  <2>1. SUFFICES ASSUME HeapInv, HeapInv', CountOK(heap), [MemoryNext]_memoryVars
                 PROVE  CountOK(heap')
    BY DEF CountOK
  <2>2. CASE MemoryNext
    BY <2>1, <2>2, CountStep
  <2>3. CASE UNCHANGED memoryVars
    BY <2>1, <2>3 DEF memoryVars
  <2> QED BY <2>1, <2>2, <2>3
<1>3. HeapInv /\ CountOK(heap) => UsedSizeAgrees
  <2>1. SUFFICES ASSUME HeapInv, CountOK(heap) PROVE UsedSizeAgrees
    OBVIOUS
  <2>2. PICK r \in Nat : r = HeadSize + UsedWords(heap.node) /\ r < UsedFlag
    <3>1. UsedWords(heap.node) \in Nat /\ UsedWords(heap.node) <= EndNode
      BY <2>1, UsedWordsFit DEF HeapInv, Good
    <3> QED BY <3>1, PoolAssumption DEF EndNode, HeadSize
  <2>3. PICK c \in Int, k \in Int : c = heap.curUsed /\ c = r + k * UsedFlag
    BY <2>1, <2>2 DEF CountOK
  <2>4. c % UsedFlag = r
    BY <2>2, <2>3, RemainderIs
  <2> QED BY <2>2, <2>3, <2>4 DEF UsedSizeAgrees
<1> QED BY <1>1, <1>2, <1>3, HeapInvariant, PTL DEF MemorySpec

=============================================================================
