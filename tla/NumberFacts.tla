---------------------------- MODULE NumberFacts ----------------------------
(***************************************************************************)
(* Least and greatest numbers of a set, counting and iteration: what the   *)
(* proofs about pages, floors, bounds and searches need of the naturals.   *)
(***************************************************************************)
EXTENDS Naturals, FiniteSets, TLAPS, FiniteSetTheorems, WellFoundedInduction

\* A set of numbers has a least one: the floor of a feed exists.
LEMMA LeastNumber ==
  ASSUME NEW T, T \subseteq Nat, T # {}
  PROVE  \E m \in T : \A n \in T : m <= n
<1> DEFINE R == OpToRel(<, Nat)
<1>1. IsWellFoundedOn(R, Nat)
  BY NatLessThanWellFounded
<1>2. \A x \in Nat, y \in Nat : y < x => <<y, x>> \in R
  BY DEF OpToRel
<1> HIDE DEF R
<1>3. PICK m \in T : \A n \in T : ~ (<<n, m>> \in R)
  BY <1>1, WFMin
<1>4. ASSUME NEW n \in T PROVE m <= n
  <2>1. n \in Nat /\ m \in Nat
    OBVIOUS
  <2>2. ~ (n < m)
    <3>1. <<n, m>> \notin R
      BY <1>3
    <3> QED
      BY <3>1, <2>1, <1>2
  <2> QED
    BY <2>1, <2>2
<1> QED
  BY <1>4

\* A bounded set of numbers has a greatest one: a page has a last event.
LEMMA GreatestNumber ==
  ASSUME NEW T, T \subseteq Nat, T # {}, NEW b \in Nat, \A n \in T : n <= b
  PROVE  \E m \in T : \A n \in T : n <= m
<1> DEFINE U == {b - n : n \in T}
<1>1. U \subseteq Nat
  <2> SUFFICES ASSUME NEW n \in T PROVE b - n \in Nat
    OBVIOUS
  <2>1. n \in Nat /\ n <= b
    OBVIOUS
  <2> QED
    BY <2>1
<1>2. U # {}
  <2>1. PICK n \in T : TRUE
    OBVIOUS
  <2>2. b - n \in U
    OBVIOUS
  <2> QED
    BY <2>2
<1>3. PICK u \in U : \A v \in U : u <= v
  <2> HIDE DEF U
  <2> QED
    BY <1>1, <1>2, LeastNumber
<1>4. PICK m \in T : u = b - m
  OBVIOUS
<1>5. ASSUME NEW n \in T PROVE n <= m
  <2>1. b - n \in U
    OBVIOUS
  <2>2. b - m <= b - n
    BY <1>3, <1>4, <2>1
  <2>3. n \in Nat /\ m \in Nat
    OBVIOUS
  <2> QED
    BY <2>2, <2>3
<1> QED
  BY <1>5

\* Induction over the numbers, for a set: a fold has run through n elements.
LEMMA NumberInduction ==
  ASSUME NEW T, 0 \in T, \A n \in Nat : n \in T => n + 1 \in T
  PROVE  \A n \in Nat : n \in T
<1> SUFFICES ASSUME NEW z \in Nat, z \notin T PROVE FALSE
  OBVIOUS
<1>1. PICK m \in Nat \ T : \A n \in Nat \ T : m <= n
  <2> DEFINE U == Nat \ T
  <2>1. U \subseteq Nat /\ U # {}
    OBVIOUS
  <2> HIDE DEF U
  <2>2. \E m \in U : \A n \in U : m <= n
    BY <2>1, LeastNumber
  <2> QED
    BY <2>2 DEF U
<1>2. m # 0 /\ m - 1 \in Nat
  BY <1>1
<1>3. m - 1 \in T
  BY <1>1, <1>2
<1>4. (m - 1) + 1 \in T
  BY <1>2, <1>3
<1> QED
  BY <1>1, <1>4

\* A step taken again and again from a start: what a recursive function of the model computes exists.
Iterated(M, X, b, G) == \E f \in [0..M -> X] : f[0] = b /\ \A n \in 1..M : f[n] = G[f[n - 1]]

\* The iteration exists for every number of steps.
LEMMA Iterates ==
  ASSUME NEW M \in Nat, NEW X, NEW b \in X, NEW G \in [X -> X]
  PROVE  Iterated(M, X, b, G)
<1> DEFINE Upto(m) == \E f \in [0..m -> X] : f[0] = b /\ \A n \in 1..m : f[n] = G[f[n - 1]]
<1> DEFINE T == {m \in Nat : Upto(m)}
<1>1. 0 \in T
  <2>1. [n \in 0..0 |-> b] \in [0..0 -> X] /\ [n \in 0..0 |-> b][0] = b /\ 1..0 = {}
    OBVIOUS
  <2> QED
    BY <2>1
<1>2. ASSUME NEW m \in Nat, m \in T PROVE m + 1 \in T
  <2>1. PICK f \in [0..m -> X] : f[0] = b /\ \A n \in 1..m : f[n] = G[f[n - 1]]
    BY <1>2
  <2> DEFINE g == [n \in 0..(m + 1) |-> IF n = m + 1 THEN G[f[m]] ELSE f[n]]
  <2>2. g \in [0..(m + 1) -> X]
    <3>1. ASSUME NEW n \in 0..(m + 1) PROVE g[n] \in X
      BY <2>1
    <3> QED
      BY <3>1
  <2>3. g[0] = b
    BY <2>1
  <2>4. ASSUME NEW n \in 1..(m + 1) PROVE g[n] = G[g[n - 1]]
    <3>1. n - 1 \in 0..m /\ g[n - 1] = f[n - 1]
      OBVIOUS
    <3>2. CASE n = m + 1
      BY <3>1, <3>2
    <3>3. CASE n # m + 1
      <4>1. n \in 1..m /\ g[n] = f[n]
        BY <3>3
      <4> QED
        BY <2>1, <3>1, <4>1
    <3> QED
      BY <3>2, <3>3
  <2> HIDE DEF g
  <2>5. Upto(m + 1)
    BY <2>2, <2>3, <2>4
  <2> QED
    BY <2>5
<1> HIDE DEF T
<1>3. \A n \in Nat : n \in T
  BY <1>1, <1>2, NumberInduction
<1> QED
  BY <1>3 DEF T, Iterated

\* Induction up to a bound.
LEMMA BoundedInduction ==
  ASSUME NEW M \in Nat, NEW T, 0 \in T, \A n \in 1..M : n - 1 \in T => n \in T
  PROVE  \A n \in 0..M : n \in T
<1> DEFINE U == {n \in Nat : n <= M => n \in T}
<1>1. 0 \in U
  OBVIOUS
<1>2. ASSUME NEW n \in Nat, n \in U PROVE n + 1 \in U
  <2>1. CASE n + 1 <= M
    <3>1. n + 1 \in 1..M /\ (n + 1) - 1 = n /\ n \in T
      BY <1>2, <2>1
    <3>2. n + 1 \in T
      BY <3>1
    <3> QED
      BY <3>2
  <2>2. CASE ~(n + 1 <= M)
    BY <2>2
  <2> QED
    BY <2>1, <2>2
<1> HIDE DEF U
<1>3. \A n \in Nat : n \in U
  BY <1>1, <1>2, NumberInduction
<1> QED
  BY <1>3 DEF U

\* A finite set of numbers has a greatest one.
LEMMA FiniteGreatest ==
  ASSUME NEW S, S \subseteq Nat, IsFiniteSet(S), S # {}
  PROVE  \E m \in S : \A n \in S : n <= m
<1> DEFINE Has(R) == \E m \in R : \A n \in R : n <= m
<1> DEFINE T == {k \in Nat : \A R \in SUBSET Nat : IsFiniteSet(R) /\ Cardinality(R) = k /\ R # {} => Has(R)}
<1>1. 0 \in T
  <2>1. ASSUME NEW R \in SUBSET Nat, IsFiniteSet(R), Cardinality(R) = 0 PROVE R = {}
    BY <2>1, FS_EmptySet
  <2> QED
    BY <2>1
<1>2. ASSUME NEW k \in Nat, k \in T PROVE k + 1 \in T
  <2>1. ASSUME NEW R \in SUBSET Nat, IsFiniteSet(R), Cardinality(R) = k + 1, R # {} PROVE Has(R)
    <3>1. PICK x \in R : TRUE
      BY <2>1
    <3>2. IsFiniteSet(R \ {x}) /\ Cardinality(R \ {x}) = Cardinality(R) - 1
      BY <2>1, <3>1, FS_RemoveElement
    <3>3. Cardinality(R \ {x}) = k /\ R \ {x} \in SUBSET Nat
      BY <2>1, <3>2
    <3>4. CASE R \ {x} = {}
      <4>1. \A n \in R : n = x
        BY <3>4
      <4> QED
        BY <3>1, <4>1
    <3>5. CASE R \ {x} # {}
      <4>1. PICK m \in R \ {x} : \A n \in R \ {x} : n <= m
        BY <1>2, <3>2, <3>3, <3>5
      <4>2. x \in Nat /\ m \in Nat /\ m \in R /\ \A n \in R : n \in Nat
        BY <3>1, <4>1
      <4>3. CASE x <= m
        <5>1. \A n \in R : n <= m
          BY <4>1, <4>3
        <5> QED
          BY <4>2, <5>1
      <4>4. CASE ~(x <= m)
        <5>1. \A n \in R : n <= x
          BY <4>1, <4>2, <4>4
        <5> QED
          BY <3>1, <5>1
      <4> QED
        BY <4>3, <4>4
    <3> QED
      BY <3>4, <3>5
  <2> QED
    BY <2>1
<1> HIDE DEF T
<1>3. \A n \in Nat : n \in T
  BY <1>1, <1>2, NumberInduction
<1>4. Cardinality(S) \in T
  BY <1>3, FS_CardinalityType
<1> QED
  BY <1>4 DEF T

=============================================================================
