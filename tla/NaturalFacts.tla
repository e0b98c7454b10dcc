----------------------------- MODULE NaturalFacts -----------------------------
(***************************************************************************)
(* Facts about sets of natural numbers that proofs of several components   *)
(* rest on: least and greatest elements, and the rank of an element, which *)
(* is what SELECT ROW_NUMBER() OVER (ORDER BY id) numbers rows by.         *)
(* Induction is done with the first: a least counterexample.               *)
(***************************************************************************)
EXTENDS Integers, FiniteSets, FiniteSetTheorems, WellFoundedInduction, TLAPS

\* Every non-empty set of natural numbers has a least one.
LEMMA LeastNatural ==
    ASSUME NEW S \in SUBSET Nat, S # {}
    PROVE  \E m \in S : \A n \in S : m <= n
<1> DEFINE less == {ss \in Nat \X Nat : ss[1] < ss[2]}
<1>1. IsWellFoundedOn(less, Nat)
  BY NatLessThanWellFounded DEF OpToRel
<1>2. PICK m \in S : \A n \in S : ~(<<n, m>> \in less)
  <2> HIDE DEF less
  <2> QED
    BY <1>1, WFMin
<1>3. \A n \in S : ~(n < m)
  BY <1>2
<1> QED
  BY <1>3

\* A bounded one has a greatest: the least bound is in it.
LEMMA GreatestNatural ==
    ASSUME NEW S \in SUBSET Nat, S # {}, NEW b \in Nat, \A n \in S : n <= b
    PROVE  \E m \in S : \A n \in S : n <= m
<1> DEFINE Bounds == {k \in Nat : \A n \in S : n <= k}
<1>1. PICK k \in Bounds : \A l \in Bounds : k <= l
  <2>1. b \in Bounds /\ Bounds \in SUBSET Nat
    OBVIOUS
  <2> HIDE DEF Bounds
  <2> QED
    BY <2>1, LeastNatural
<1>2. k \in Nat /\ \A n \in S : n <= k
  OBVIOUS
<1>3. CASE k \notin S
  <2>1. \A n \in S : n <= k - 1
    BY <1>2, <1>3
  <2>2. k - 1 \in Nat
    <3>1. PICK n \in S : n <= k - 1
      BY <2>1
    <3>2. n \in Nat
      OBVIOUS
    <3> QED
      BY <1>2, <3>1, <3>2
  <2>3. k - 1 \in Bounds
    BY <2>1, <2>2
  <2>4. k <= k - 1
    <3> HIDE DEF Bounds
    <3> QED
      BY <1>1, <2>3
  <2> QED
    BY <1>2, <2>4
<1> QED
  BY <1>2, <1>3

\* The rank of i in S.
Rank(S, i) == Cardinality({n \in S : n <= i})

\* Ranks in a finite set of natural numbers are 1, 2, ..., and never the same.
LEMMA RankRange ==
    ASSUME NEW S \in SUBSET Nat, IsFiniteSet(S), NEW i \in S
    PROVE  Rank(S, i) \in 1..Cardinality(S)
<1> DEFINE below == {n \in S : n <= i}
<1>1. below \in SUBSET S /\ i \in below /\ below # {}
  OBVIOUS
<1> HIDE DEF below
<1>2. IsFiniteSet(below) /\ Cardinality(below) <= Cardinality(S)
  BY <1>1, FS_Subset
<1>3. Cardinality(below) \in Nat /\ Cardinality(S) \in Nat /\ Cardinality(below) # 0
  BY <1>1, <1>2, FS_CardinalityType, FS_EmptySet
<1>4. Rank(S, i) = Cardinality(below)
  BY DEF Rank, below
<1> QED
  BY <1>2, <1>3, <1>4

LEMMA RankGrows ==
    ASSUME NEW S \in SUBSET Nat, IsFiniteSet(S), NEW i \in S, NEW j \in S, i < j
    PROVE  Rank(S, i) < Rank(S, j)
<1> DEFINE low == {n \in S : n <= i}
           high == {n \in S : n <= j}
<1>1. /\ high \in SUBSET S /\ low \in SUBSET high
      /\ j \in high /\ j \notin low
  <2>1. \A n \in S : n \in Nat /\ i \in Nat /\ j \in Nat
    OBVIOUS
  <2>2. ~(j <= i) /\ j <= j
    BY <2>1
  <2>3. \A n \in S : n <= i => n <= j
    BY <2>1
  <2> QED
    BY <2>2, <2>3
<1> HIDE DEF low, high
<1>2. IsFiniteSet(high)
  BY <1>1, FS_Subset
<1>3. /\ IsFiniteSet(low) /\ Cardinality(low) <= Cardinality(high)
      /\ Cardinality(low) # Cardinality(high)
  BY <1>1, <1>2, FS_Subset
<1>4. Cardinality(low) \in Nat /\ Cardinality(high) \in Nat
  BY <1>2, <1>3, FS_CardinalityType
<1>5. Rank(S, i) = Cardinality(low) /\ Rank(S, j) = Cardinality(high)
  BY DEF Rank, low, high
<1> QED
  BY <1>3, <1>4, <1>5

LEMMA RankTells ==
    ASSUME NEW S \in SUBSET Nat, IsFiniteSet(S), NEW i \in S, NEW j \in S,
           Rank(S, i) = Rank(S, j)
    PROVE  i = j
<1>1. Rank(S, i) \in Nat
  BY RankRange
<1>2. CASE i < j
  BY <1>1, <1>2, RankGrows
<1>3. CASE j < i
  BY <1>1, <1>3, RankGrows
<1> QED
  BY <1>2, <1>3
=============================================================================
