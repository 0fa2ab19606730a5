---------------------------- MODULE NumberProofs ----------------------------
(***************************************************************************)
(* Facts about natural numbers and sequences that the proofs of several    *)
(* components use: least and greatest members, induction stated over sets, *)
(* the sizes of sets of positions, and sequences put together and cut.     *)
(***************************************************************************)
EXTENDS Integers, Sequences, FiniteSets, FiniteSetTheorems, SequenceTheorems,
        WellFoundedInduction, TLAPS

\* Every set of numbers that is not empty has a least one.
LEMMA LeastNumber ==
  ASSUME NEW S \in SUBSET Nat, S # {}
  PROVE  \E m \in S : \A k \in S : m <= k
<1> DEFINE T == {0 .. k : k \in S}
<1>1. IsWellFoundedOn(StrictSubsetOrdering(Nat), FiniteSubsetsOf(Nat))
  BY FS_StrictSubsetOrderingWellFounded
<1>2. T \subseteq FiniteSubsetsOf(Nat)
  <2> SUFFICES ASSUME NEW k \in S
               PROVE  0 .. k \in FiniteSubsetsOf(Nat)
    OBVIOUS
  <2>1. k \in Int /\ 0 .. k \in SUBSET Nat
    OBVIOUS
  <2>2. IsFiniteSet(0 .. k)
    BY <2>1, FS_Interval
  <2> QED
    BY <2>1, <2>2 DEF FiniteSubsetsOf
<1>3. T # {}
  OBVIOUS
<1>4. PICK i \in T : \A j \in T : ~(<<j, i>> \in StrictSubsetOrdering(Nat))
  <2> HIDE DEF T
  <2> QED
    BY <1>1, <1>2, <1>3, WFMin
<1>5. PICK m \in S : i = 0 .. m
  OBVIOUS
<1>6. ASSUME NEW k \in S, k < m
      PROVE  FALSE
  <2>1. (0 .. k) \in T /\ (0 .. k) \subseteq i /\ (0 .. k) # i
    BY <1>5, <1>6
  <2>2. <<0 .. k, i>> \in StrictSubsetOrdering(Nat)
    BY <2>1, <1>5 DEF StrictSubsetOrdering
  <2> QED
    BY <1>4, <2>1, <2>2
<1> QED
  BY <1>6

\* Induction over numbers, for a set.
LEMMA AllNumbers ==
  ASSUME NEW S \in SUBSET Nat, 0 \in S, \A n \in S : n + 1 \in S
  PROVE  S = Nat
<1> DEFINE T == Nat \ S
<1>1. SUFFICES ASSUME T # {} PROVE FALSE
  OBVIOUS
<1>2. PICK m \in T : \A k \in T : m <= k
  BY <1>1, LeastNumber
<1>3. m # 0 /\ m - 1 \in S
  BY <1>2
<1> QED
  BY <1>2, <1>3

\* A bounded set of numbers that is not empty has a greatest one.
LEMMA GreatestNumber ==
  ASSUME NEW n \in Nat, NEW S \in SUBSET (0 .. n), S # {}
  PROVE  \E m \in S : \A k \in S : m >= k
<1> DEFINE T == {n - k : k \in S}
<1>1. T \in SUBSET Nat /\ T # {}
  <2>1. \A k \in S : n - k \in Nat
    OBVIOUS
  <2> QED
    BY <2>1
<1>2. PICK t \in T : \A u \in T : t <= u
  BY <1>1, LeastNumber
<1>3. PICK m \in S : t = n - m
  BY <1>2
<1>4. ASSUME NEW k \in S PROVE m >= k
  <2>1. n - k \in T
    OBVIOUS
  <2>2. t <= n - k
    BY <1>2, <2>1
  <2> QED
    BY <1>3, <2>2
<1> QED
  BY <1>4
-----------------------------------------------------------------------------
\* A set of positions is finite; it grows by one with each new member and
\* loses one with each that goes.
LEMMA PositionsCount ==
  ASSUME NEW n \in Nat, NEW S \in SUBSET (1 .. n)
  PROVE  /\ IsFiniteSet(S) /\ Cardinality(S) \in Nat
         /\ \A i \in 1 .. n : i \notin S => Cardinality(S \cup {i}) = Cardinality(S) + 1
         /\ \A i \in S : Cardinality(S \ {i}) = Cardinality(S) - 1
         /\ \A R \in SUBSET S : Cardinality(R) <= Cardinality(S)
<1>1. IsFiniteSet(1 .. n)
  BY FS_Interval
<1>2. IsFiniteSet(S)
  BY <1>1, FS_Subset
<1>3. Cardinality(S) \in Nat
  BY <1>2, FS_CardinalityType
<1>4. ASSUME NEW i \in 1 .. n, i \notin S
      PROVE  Cardinality(S \cup {i}) = Cardinality(S) + 1
  BY <1>2, <1>4, FS_AddElement
<1>5. ASSUME NEW i \in S
      PROVE  Cardinality(S \ {i}) = Cardinality(S) - 1
  BY <1>2, FS_RemoveElement
<1>6. ASSUME NEW R \in SUBSET S
      PROVE  Cardinality(R) <= Cardinality(S)
  BY <1>2, FS_Subset
<1> QED
  BY <1>2, <1>3, <1>4, <1>5, <1>6

\* Among the members of a set of positions there is one of each rank.
LEMMA PositionOfRank ==
  ASSUME NEW n \in Nat, NEW I \in SUBSET (1 .. n), NEW r \in 1 .. Cardinality(I)
  PROVE  \E i \in I : Cardinality({j \in I : j <= i}) = r
<1> DEFINE UpTo(i) == {j \in I : j <= i}
           S == {q \in Nat : q + 1 <= Cardinality(I) =>
                               \E i \in I : Cardinality(UpTo(i)) = q + 1}
<1>1. /\ IsFiniteSet(I) /\ Cardinality(I) \in Nat /\ I \in SUBSET Nat
      /\ \A j \in I : j \in Nat
  BY PositionsCount
<1>2. 0 \in S
  <2> SUFFICES ASSUME 1 <= Cardinality(I)
               PROVE  \E i \in I : Cardinality(UpTo(i)) = 1
    OBVIOUS
  <2>1. I # {}
    BY FS_EmptySet
  <2>2. PICK m \in I : \A k \in I : m <= k
    BY <1>1, <2>1, LeastNumber
  <2>3. UpTo(m) = {m}
    <3>1. \A j \in I : j <= m => j = m
      BY <1>1, <2>2
    <3>2. m <= m
      BY <1>1
    <3> QED
      BY <3>1, <3>2
  <2>4. Cardinality({m}) = 1
    BY FS_Singleton
  <2> QED
    BY <2>3, <2>4
<1>3. ASSUME NEW q \in S PROVE q + 1 \in S
  <2> SUFFICES ASSUME q + 2 <= Cardinality(I)
               PROVE  \E i \in I : Cardinality(UpTo(i)) = q + 2
    OBVIOUS
  <2>1. PICK i \in I : Cardinality(UpTo(i)) = q + 1
    BY <1>1
  <2>2. UpTo(i) \in SUBSET (1 .. n) /\ q \in Nat /\ i \in Nat
    BY <1>1
  <2>3. I \ UpTo(i) # {} /\ I \ UpTo(i) \in SUBSET Nat
    <3>1. CASE I = UpTo(i)
      BY <1>1, <2>1, <2>2, <3>1
    <3> QED
      BY <1>1, <3>1
  <2>4. PICK m \in I \ UpTo(i) : \A k \in I \ UpTo(i) : m <= k
    BY <2>3, LeastNumber
  <2>5. UpTo(m) = UpTo(i) \cup {m}
    <3>1. \A j \in I : j <= m <=> (j <= i \/ j = m)
      <4>1. m \in I /\ i < m
        BY <1>1, <2>2, <2>4
      <4>2. \A j \in I : ~(j <= i) => m <= j
        BY <2>4
      <4> QED
        BY <1>1, <4>1, <4>2
    <3> QED
      BY <2>4, <3>1
  <2>6. m \in 1 .. n /\ m \notin UpTo(i) /\ m \in I
    BY <2>4
  <2>7. Cardinality(UpTo(i) \cup {m}) = Cardinality(UpTo(i)) + 1
    <3> HIDE DEF UpTo
    <3> QED
      BY <2>2, <2>6, PositionsCount
  <2>8. Cardinality(UpTo(m)) = q + 2
    BY <2>1, <2>2, <2>5, <2>7
  <2> QED
    BY <2>6, <2>8
<1>4. S = Nat
  <2>1. S \in SUBSET Nat
    OBVIOUS
  <2> HIDE DEF S
  <2> QED
    BY <1>2, <1>3, <2>1, AllNumbers
<1>5. r - 1 \in Nat /\ (r - 1) + 1 = r /\ r <= Cardinality(I)
  BY <1>1
<1>6. r - 1 \in S
  BY <1>4, <1>5
<1> QED
  BY <1>5, <1>6

\* An even share of a product.
LEMMA Share ==
  ASSUME NEW a \in Nat, NEW b \in Nat, NEW c \in Nat, c > 0, a <= b * c
  PROVE  a \div c \in Nat /\ a \div c <= b
<1> DEFINE q == a \div c
<1>1. q \in Int /\ a = c * q + (a % c) /\ a % c >= 0 /\ a % c < c /\ a % c \in Int
  OBVIOUS
<1>2. PICK r \in Nat : a = c * q + r /\ r < c
  BY <1>1
<1> HIDE DEF q
<1>3. q >= 0
  <2> SUFFICES ASSUME q <= -1 PROVE FALSE
    BY <1>1
  <2>1. c * q <= -c
    BY <1>1
  <2> QED BY <2>1, <1>2, <1>1
<1>4. q <= b
  <2> SUFFICES ASSUME q >= b + 1 PROVE FALSE
    BY <1>1
  <2>1. c * q >= c * b + c
    BY <1>1
  <2> QED BY <2>1, <1>2, <1>1
<1> QED BY <1>1, <1>3, <1>4 DEF q
-----------------------------------------------------------------------------
\* A sequence that takes in others after the first y.
LEMMA PutIn ==
  ASSUME NEW T, NEW s \in Seq(T), NEW new \in Seq(T), NEW y \in 0 .. Len(s)
  PROVE  LET t == SubSeq(s, 1, y) \o new \o SubSeq(s, y + 1, Len(s))
         IN  /\ t \in Seq(T) /\ Len(t) = Len(s) + Len(new)
             /\ \A i \in 1 .. y : t[i] = s[i]
             /\ \A i \in 1 .. Len(new) : t[y + i] = new[i]
             /\ \A i \in y + 1 .. Len(s) : t[i + Len(new)] = s[i]
<1> DEFINE t == SubSeq(s, 1, y) \o new \o SubSeq(s, y + 1, Len(s))
<1>1. PICK n \in Nat, k \in Nat : n = Len(s) /\ k = Len(new)
  OBVIOUS
<1> DEFINE a == SubSeq(s, 1, y)
           b == SubSeq(s, y + 1, n)
<1>2. /\ a \in Seq(T) /\ Len(a) = y /\ \A i \in 1 .. y : a[i] = s[i]
  BY <1>1
<1>3. /\ b \in Seq(T) /\ Len(b) = n - y /\ \A i \in 1 .. n - y : b[i] = s[y + i]
  BY <1>1
<1> HIDE DEF a, b
<1>4. /\ (a \o new) \in Seq(T) /\ Len(a \o new) = y + k
      /\ \A i \in 1 .. y + k : (a \o new)[i] = IF i <= y THEN a[i] ELSE new[i - y]
  BY <1>1, <1>2, ConcatProperties
<1>5. t = (a \o new) \o b
  BY <1>1 DEF a, b
<1> HIDE DEF t
<1>6. /\ t \in Seq(T) /\ Len(t) = n + k
      /\ \A i \in 1 .. n + k : t[i] = IF i <= y + k THEN (a \o new)[i] ELSE b[i - (y + k)]
  <2> DEFINE c == a \o new
  <2>1. c \in Seq(T) /\ Len(c) = y + k /\ t = c \o b
    BY <1>4, <1>5
  <2> HIDE DEF c
  <2>2. /\ c \o b \in Seq(T) /\ Len(c \o b) = Len(c) + Len(b)
        /\ \A i \in 1 .. Len(c) + Len(b) : (c \o b)[i] = IF i <= Len(c) THEN c[i] ELSE b[i - Len(c)]
    BY <1>3, <2>1, ConcatProperties
  <2>3. Len(c) + Len(b) = n + k
    BY <1>1, <1>3, <2>1
  <2>4. /\ t \in Seq(T) /\ Len(t) = n + k
        /\ \A i \in 1 .. n + k : t[i] = IF i <= y + k THEN c[i] ELSE b[i - (y + k)]
    BY <2>1, <2>2, <2>3
  <2> QED BY <2>4 DEF c
<1>7. \A i \in 1 .. y : t[i] = s[i]
  <2> SUFFICES ASSUME NEW i \in 1 .. y PROVE t[i] = s[i]
    OBVIOUS
  <2>1. i \in 1 .. n + k /\ i \in 1 .. y + k /\ i <= y + k /\ i <= y
    BY <1>1
  <2> QED BY <1>2, <1>4, <1>6, <2>1
<1>8. \A i \in 1 .. k : t[y + i] = new[i]
  <2> SUFFICES ASSUME NEW i \in 1 .. k PROVE t[y + i] = new[i]
    OBVIOUS
  <2>1. y + i \in 1 .. n + k /\ y + i <= y + k /\ ~(y + i <= y) /\ (y + i) - y = i
    BY <1>1
  <2>2. y + i \in 1 .. y + k
    BY <1>1
  <2> QED BY <1>4, <1>6, <2>1, <2>2
<1>9. \A i \in y + 1 .. n : t[i + k] = s[i]
  <2> SUFFICES ASSUME NEW i \in y + 1 .. n PROVE t[i + k] = s[i]
    OBVIOUS
  <2>1. i + k \in 1 .. n + k /\ ~(i + k <= y + k) /\ (i + k) - (y + k) = i - y
    BY <1>1
  <2>2. i - y \in 1 .. n - y /\ y + (i - y) = i
    BY <1>1
  <2> QED BY <1>3, <1>6, <2>1, <2>2
<1>10. /\ t \in Seq(T) /\ Len(t) = Len(s) + Len(new)
       /\ \A i \in 1 .. y : t[i] = s[i]
       /\ \A i \in 1 .. Len(new) : t[y + i] = new[i]
       /\ \A i \in y + 1 .. Len(s) : t[i + Len(new)] = s[i]
  BY <1>1, <1>6, <1>7, <1>8, <1>9
<1> QED BY <1>10 DEF t

\* A sequence without its positions from y + 1 to z.
LEMMA TakenOut ==
  ASSUME NEW T, NEW s \in Seq(T), NEW y \in 0 .. Len(s), NEW z \in y .. Len(s)
  PROVE  LET t == SubSeq(s, 1, y) \o SubSeq(s, z + 1, Len(s))
         IN  /\ t \in Seq(T) /\ Len(t) = Len(s) - (z - y)
             /\ \A i \in 1 .. y : t[i] = s[i]
             /\ \A i \in z + 1 .. Len(s) : t[i - (z - y)] = s[i]
             /\ \A i \in 1 .. Len(t) : i <= y \/ t[i] = s[i + (z - y)]
<1> DEFINE t == SubSeq(s, 1, y) \o SubSeq(s, z + 1, Len(s))
<1>1. PICK n \in Nat : n = Len(s)
  OBVIOUS
<1> DEFINE a == SubSeq(s, 1, y)
           b == SubSeq(s, z + 1, n)
<1>2. /\ a \in Seq(T) /\ Len(a) = y /\ \A i \in 1 .. y : a[i] = s[i]
  BY <1>1
<1>3. /\ b \in Seq(T) /\ Len(b) = n - z /\ \A i \in 1 .. n - z : b[i] = s[z + i]
  BY <1>1
<1> HIDE DEF a, b
<1>4. t = a \o b
  BY <1>1 DEF a, b
<1> HIDE DEF t
<1>5. /\ t \in Seq(T) /\ Len(t) = y + (n - z)
      /\ \A i \in 1 .. y + (n - z) : t[i] = IF i <= y THEN a[i] ELSE b[i - y]
  <2>1. /\ a \o b \in Seq(T) /\ Len(a \o b) = Len(a) + Len(b)
        /\ \A i \in 1 .. Len(a) + Len(b) : (a \o b)[i] = IF i <= Len(a) THEN a[i] ELSE b[i - Len(a)]
    BY <1>2, <1>3, ConcatProperties
  <2> QED BY <1>2, <1>3, <1>4, <2>1
<1>6. \A i \in 1 .. y : t[i] = s[i]
  BY <1>1, <1>2, <1>5
<1>7. \A i \in y + 1 .. y + (n - z) : t[i] = s[i + (z - y)]
  <2> SUFFICES ASSUME NEW i \in y + 1 .. y + (n - z) PROVE t[i] = s[i + (z - y)]
    OBVIOUS
  <2>1. i \in 1 .. y + (n - z) /\ ~(i <= y)
    BY <1>1
  <2>2. i - y \in 1 .. n - z /\ z + (i - y) = i + (z - y)
    BY <1>1
  <2> QED BY <1>3, <1>5, <2>1, <2>2
<1>8. \A i \in z + 1 .. n : t[i - (z - y)] = s[i]
  <2> SUFFICES ASSUME NEW i \in z + 1 .. n PROVE t[i - (z - y)] = s[i]
    OBVIOUS
  <2>1. i - (z - y) \in y + 1 .. y + (n - z) /\ (i - (z - y)) + (z - y) = i
    BY <1>1
  <2> QED BY <1>7, <2>1
<1>0. y \in Nat /\ z \in Nat /\ y <= z /\ z <= n
  BY <1>1
<1>9. \A i \in 1 .. Len(t) : i <= y \/ t[i] = s[i + (z - y)]
  <2>1. Len(t) = y + (n - z)
    BY <1>5
  <2> SUFFICES ASSUME NEW i \in 1 .. y + (n - z), ~(i <= y)
               PROVE  t[i] = s[i + (z - y)]
    BY <2>1
  <2>2. i \in y + 1 .. y + (n - z)
    BY <1>0
  <2> QED BY <1>7, <2>2
<1>10. Len(t) = Len(s) - (z - y)
  <2>1. Len(t) = y + (n - z)
    BY <1>5
  <2>2. y + (n - z) = n - (z - y)
    BY <1>0
  <2> QED BY <1>1, <2>1, <2>2
<1>11. /\ t \in Seq(T) /\ Len(t) = Len(s) - (z - y)
       /\ \A i \in 1 .. y : t[i] = s[i]
       /\ \A i \in z + 1 .. Len(s) : t[i - (z - y)] = s[i]
       /\ \A i \in 1 .. Len(t) : i <= y \/ t[i] = s[i + (z - y)]
  BY <1>1, <1>5, <1>6, <1>8, <1>9, <1>10
<1> QED BY <1>11 DEF t
=============================================================================
