---------------------------- MODULE NumberFacts ----------------------------
(***************************************************************************)
(* Facts about numbers that the proofs of several modules use.             *)
(***************************************************************************)
EXTENDS Integers, FiniteSets, FiniteSetsExt, FiniteSetTheorems, WellFoundedInduction, TLAPS

\* The larger and the smaller of two integers.
LEMMA MaxPair ==
  ASSUME NEW a \in Int, NEW b \in Int
  PROVE  Max({a, b}) = IF a >= b THEN a ELSE b
<1>1. \E x \in {a, b} : \A y \in {a, b} : x >= y
  <2>1. CASE a >= b
    BY <2>1
  <2>2. CASE b >= a
    BY <2>2
  <2> QED BY <2>1, <2>2
<1> QED BY <1>1 DEF Max

LEMMA MinPair ==
  ASSUME NEW a \in Int, NEW b \in Int
  PROVE  Min({a, b}) = IF a <= b THEN a ELSE b
<1>1. \E x \in {a, b} : \A y \in {a, b} : x =< y
  <2>1. CASE a <= b
    BY <2>1
  <2>2. CASE b <= a
    BY <2>2
  <2> QED BY <2>1, <2>2
<1> QED BY <1>1 DEF Min

\* The shift is at most 31, so the factor is one of 32 powers.
LEMMA PowerPositive ==
  ASSUME NEW k \in 0..31
  PROVE  2^k \in Nat \ {0}
<1>1. /\ 2^0 >= 1 /\ 2^1 >= 1 /\ 2^2 >= 1 /\ 2^3 >= 1 /\ 2^4 >= 1 /\ 2^5 >= 1 /\ 2^6 >= 1 /\ 2^7 >= 1
      /\ 2^8 >= 1 /\ 2^9 >= 1 /\ 2^10 >= 1 /\ 2^11 >= 1 /\ 2^12 >= 1 /\ 2^13 >= 1 /\ 2^14 >= 1 /\ 2^15 >= 1
  OBVIOUS
<1>2. /\ 2^16 >= 1 /\ 2^17 >= 1 /\ 2^18 >= 1 /\ 2^19 >= 1 /\ 2^20 >= 1 /\ 2^21 >= 1 /\ 2^22 >= 1 /\ 2^23 >= 1
      /\ 2^24 >= 1 /\ 2^25 >= 1 /\ 2^26 >= 1 /\ 2^27 >= 1 /\ 2^28 >= 1 /\ 2^29 >= 1 /\ 2^30 >= 1 /\ 2^31 >= 1
  OBVIOUS
<1>3. ASSUME k \in 0..15 PROVE 2^k >= 1
  <2>1. \/ k = 0 \/ k = 1 \/ k = 2 \/ k = 3 \/ k = 4 \/ k = 5 \/ k = 6 \/ k = 7
      \/ k = 8 \/ k = 9 \/ k = 10 \/ k = 11 \/ k = 12 \/ k = 13 \/ k = 14 \/ k = 15
    BY <1>3
  <2> QED BY <2>1, <1>1, Zenon
<1>4. ASSUME k \in 16..31 PROVE 2^k >= 1
  <2>1. \/ k = 16 \/ k = 17 \/ k = 18 \/ k = 19 \/ k = 20 \/ k = 21 \/ k = 22 \/ k = 23
      \/ k = 24 \/ k = 25 \/ k = 26 \/ k = 27 \/ k = 28 \/ k = 29 \/ k = 30 \/ k = 31
    BY <1>4
  <2> QED BY <2>1, <1>2, Zenon
<1>6. 2^k \in Int
  OBVIOUS
<1>7. 2^k >= 1
  <2>1. k \in 0..15 \/ k \in 16..31
    OBVIOUS
  <2> QED BY <2>1, <1>3, <1>4
<1> QED BY <1>6, <1>7

\* A non-empty set of numbers has a least element: the intervals below its
\* elements are finite sets, and these are well-founded under strict inclusion.
LEMMA LeastNat ==
  ASSUME NEW T, T \subseteq Nat, T # {}
  PROVE  \E x \in T : \A y \in T : x <= y
<1> DEFINE I(n) == 0..(n - 1)
           X == {I(n) : n \in T}
<1>1. ASSUME NEW n \in Nat PROVE I(n) \in FiniteSubsetsOf(Nat)
  <2>1. IsFiniteSet(0..(n - 1))
    BY FS_Interval
  <2>2. 0..(n - 1) \subseteq Nat
    OBVIOUS
  <2> QED BY <2>1, <2>2 DEF FiniteSubsetsOf
<1>2. X \subseteq FiniteSubsetsOf(Nat) /\ X # {}
  BY <1>1
<1>3. IsWellFoundedOn(StrictSubsetOrdering(Nat), FiniteSubsetsOf(Nat))
  BY FS_StrictSubsetOrderingWellFounded
<1>4. PICK m \in X : \A z \in X : ~(<<z, m>> \in StrictSubsetOrdering(Nat))
  <2> HIDE DEF X
  <2> QED BY <1>2, <1>3, WFMin
<1>5. PICK x \in T : m = I(x)
  BY <1>4
<1>6. ASSUME NEW y \in T, y < x PROVE FALSE
  <2>1. I(y) \subseteq I(x) /\ y \in I(x) /\ y \notin I(y)
    BY <1>6
  <2>2. I(y) \in SUBSET Nat /\ I(x) \in SUBSET Nat
    OBVIOUS
  <2>3. <<I(y), I(x)>> \in StrictSubsetOrdering(Nat)
    <3> HIDE DEF I
    <3> QED BY <2>1, <2>2 DEF StrictSubsetOrdering
  <2> QED BY <2>3, <1>4, <1>5
<1> QED BY <1>6

\* The image of a finite set is finite.
LEMMA ImageFinite ==
  ASSUME NEW S, IsFiniteSet(S), NEW f
  PROVE  IsFiniteSet({f[x] : x \in S})
<1> DEFINE T == {f[x] : x \in S}
           g == [x \in S |-> f[x]]
<1>1. g \in Surjection(S, T)
  BY DEF Surjection
<1> HIDE DEF T, g
<1>2. IsFiniteSet(T)
  BY <1>1, FS_Surjection
<1> QED BY <1>2 DEF T

\* The least element of a set of numbers, and the greatest of a finite one.
LEMMA MinNat ==
  ASSUME NEW T, T \subseteq Nat, T # {}
  PROVE  Min(T) \in T /\ \A y \in T : Min(T) <= y
BY LeastNat DEF Min

LEMMA MaxNat ==
  ASSUME NEW T, T \subseteq Nat, T # {}, NEW n \in Nat, \A y \in T : y <= n
  PROVE  Max(T) \in T /\ \A y \in T : y <= Max(T)
<1> DEFINE D == {n - y : y \in T}
<1>1. D \subseteq Nat /\ D # {}
  <2>1. \A y \in T : n - y \in Nat
    OBVIOUS
  <2> QED BY <2>1
<1>2. PICK d \in D : \A e \in D : d <= e
  <2> HIDE DEF D
  <2> QED BY <1>1, LeastNat
<1>3. PICK x \in T : d = n - x
  OBVIOUS
<1>4. \A y \in T : x >= y
  BY <1>2, <1>3
<1> QED BY <1>4 DEF Max
=============================================================================
