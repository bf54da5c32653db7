---------------------------- MODULE NumberLemmas ----------------------------
(***************************************************************************)
(* Least and largest numbers, as Min and Max of the community modules give *)
(* them.  Induction over the naturals is taken here as the existence of a  *)
(* least counterexample: < is well-founded on Nat.  So is recursion: a     *)
(* function of the numbers up to a bound is defined by its first value and *)
(* its steps.                                                              *)
(***************************************************************************)
EXTENDS Integers, FiniteSetsExt, FiniteSetTheorems, WellFoundedInduction, TLAPS

\* A set of naturals that is not empty has a least element.
LEMMA LeastNatural ==
  ASSUME NEW T \in SUBSET Nat, T # {}
  PROVE  \E m \in T : \A k \in T : m <= k
  <1>1. PICK m \in T : \A k \in T : ~(<<k, m>> \in OpToRel(<, Nat))
    BY NatLessThanWellFounded, WFMin
  <1>2. \A k \in T : ~(k < m)
    BY <1>1 DEF OpToRel
  <1> QED
    BY <1>2

\* Min of a set of naturals that is not empty is in it.
LEMMA MinOfNaturals ==
  ASSUME NEW T \in SUBSET Nat, T # {}
  PROVE  Min(T) \in T /\ \A k \in T : Min(T) <= k
  BY LeastNatural DEF Min

\* A finite set of integers that is not empty has a largest element, and Max is it.
LEMMA MaxOfSet ==
  ASSUME NEW S \in SUBSET Int, IsFiniteSet(S), S # {}
  PROVE  Max(S) \in S /\ \A y \in S : y <= Max(S)
  <1> DEFINE HasMax(R) == \E x \in R : \A y \in R : y <= x
             Bad == {n \in Nat : \E R \in SUBSET S :
                       R # {} /\ Cardinality(R) = n /\ ~HasMax(R)}
  <1>1. Bad = {}
    <2> SUFFICES ASSUME Bad # {} PROVE FALSE
      OBVIOUS
    <2>1. PICK n \in Bad : \A k \in Bad : n <= k
      BY LeastNatural
    <2>2. PICK R \in SUBSET S : R # {} /\ Cardinality(R) = n /\ ~HasMax(R)
      BY <2>1
    <2>3. PICK x \in R : TRUE
      BY <2>2
    <2>4. IsFiniteSet(R) /\ IsFiniteSet(R \ {x}) /\ R \ {x} \in SUBSET S
      BY FS_Subset, <2>2
    <2>5. n \in Nat /\ Cardinality(R \ {x}) \in Nat /\ Cardinality(R \ {x}) < n
      BY <2>2, <2>3, <2>4, FS_CardinalityType, FS_RemoveElement
    <2>6. CASE R \ {x} = {}
      BY <2>2, <2>3, <2>6
    <2>7. CASE R \ {x} # {}
      <3>1. ASSUME ~HasMax(R \ {x}) PROVE FALSE
        <4>1. Cardinality(R \ {x}) \in Bad
          BY <2>4, <2>5, <2>7, <3>1
        <4> HIDE DEF Bad
        <4> QED
          BY <2>1, <2>5, <4>1
      <3>2. PICK y \in R \ {x} : \A z \in R \ {x} : z <= y
        BY <3>1
      <3>3. x \in Int /\ y \in Int /\ \A z \in R : z \in Int
        BY <2>3
      <3>4. CASE x <= y
        BY <2>2, <3>2, <3>3, <3>4
      <3>5. CASE ~(x <= y)
        <4>1. \A z \in R : z <= x
          BY <3>2, <3>3, <3>5
        <4> QED
          BY <2>2, <4>1
      <3> QED
        BY <3>4, <3>5
    <2> QED
      BY <2>6, <2>7
  <1>2. HasMax(S)
    BY <1>1, FS_CardinalityType
  <1>3. \E x \in S : \A y \in S : x >= y
    BY <1>2
  <1> QED
    BY <1>3 DEF Max

\* The smaller of two integers, as Min gives it.
LEMMA MinOfTwo ==
  ASSUME NEW a \in Int, NEW b \in Int
  PROVE  Min({a, b}) = IF a <= b THEN a ELSE b
  <1>1. CASE a <= b
    <2>1. a \in {a, b} /\ \A y \in {a, b} : a <= y
      BY <1>1
    <2>2. \A x \in {a, b} : (\A y \in {a, b} : x <= y) => x = a
      BY <1>1
    <2> QED
      BY <1>1, <2>1, <2>2 DEF Min
  <1>2. CASE ~(a <= b)
    <2>1. b \in {a, b} /\ \A y \in {a, b} : b <= y
      BY <1>2
    <2>2. \A x \in {a, b} : (\A y \in {a, b} : x <= y) => x = b
      BY <1>2
    <2> QED
      BY <1>2, <2>1, <2>2 DEF Min
  <1> QED
    BY <1>1, <1>2

\* The larger of two integers, as Max gives it.
LEMMA MaxOfTwo ==
  ASSUME NEW a \in Int, NEW b \in Int
  PROVE  Max({a, b}) = IF a >= b THEN a ELSE b
  <1>1. CASE a >= b
    <2>1. a \in {a, b} /\ \A y \in {a, b} : a >= y
      BY <1>1
    <2>2. \A x \in {a, b} : (\A y \in {a, b} : x >= y) => x = a
      BY <1>1
    <2> QED
      BY <1>1, <2>1, <2>2 DEF Max
  <1>2. CASE ~(a >= b)
    <2>1. b \in {a, b} /\ \A y \in {a, b} : b >= y
      BY <1>2
    <2>2. \A x \in {a, b} : (\A y \in {a, b} : x >= y) => x = b
      BY <1>2
    <2> QED
      BY <1>2, <2>1, <2>2 DEF Max
  <1> QED
    BY <1>1, <1>2

\* f begins with b and goes on to N by the steps of G.
Steps(f, N, S, b, G) ==
  f \in [0..N -> S] /\ f[0] = b /\ \A n \in 1..N : f[n] = G[<<n, f[n - 1]>>]

\* Recursion over 0..N has a solution.
LEMMA StepsExist ==
  ASSUME NEW N \in Nat, NEW S, NEW b \in S, NEW G,
         \A n \in 1..N, s \in S : G[<<n, s>>] \in S
  PROVE  \E f : Steps(f, N, S, b, G)
  <1> DEFINE Solves(f, k) == f[0] = b /\ \A n \in 1..k : f[n] = G[<<n, f[n - 1]>>]
             Bad == {k \in 0..N : ~ \E f \in [0..k -> S] : Solves(f, k)}
  <1>1. Bad = {}
    <2> SUFFICES ASSUME Bad # {} PROVE FALSE
      OBVIOUS
    <2>1. PICK k \in Bad : \A j \in Bad : k <= j
      <3>1. Bad \in SUBSET Nat
        OBVIOUS
      <3> HIDE DEF Bad
      <3> QED
        BY <3>1, LeastNatural
    <2>2. CASE k = 0
      <3>1. [i \in 0..0 |-> b] \in [0..0 -> S] /\ Solves([i \in 0..0 |-> b], 0)
        OBVIOUS
      <3> QED
        BY <2>1, <2>2, <3>1
    <2>3. CASE k # 0
      <3>1. k \in 1..N /\ k - 1 \in 0..N /\ k - 1 \notin Bad
        <4>1. k \in 0..N
          BY <2>1
        <4> HIDE DEF Bad
        <4> QED
          BY <2>1, <2>3, <4>1
      <3>2. PICK f \in [0..(k - 1) -> S] : Solves(f, k - 1)
        BY <3>1
      <3> DEFINE g == [i \in 0..k |-> IF i = k THEN G[<<k, f[k - 1]>>] ELSE f[i]]
      <3>3. G[<<k, f[k - 1]>>] \in S
        BY <3>1
      <3>4. g \in [0..k -> S]
        BY <3>1, <3>3
      <3>5. g[0] = b /\ \A n \in 0..(k - 1) : g[n] = f[n]
        BY <3>1, <3>2
      <3>6. \A n \in 1..k : g[n] = G[<<n, g[n - 1]>>]
        <4> SUFFICES ASSUME NEW n \in 1..k PROVE g[n] = G[<<n, g[n - 1]>>]
          OBVIOUS
        <4>1. g[n - 1] = f[n - 1]
          BY <3>1, <3>5
        <4>2. CASE n = k
          <5>1. g[k] = G[<<k, f[k - 1]>>]
            BY <3>1
          <5> HIDE DEF g
          <5> QED
            BY <4>1, <4>2, <5>1
        <4>3. CASE n # k
          <5>1. n \in 1..(k - 1) /\ g[n] = f[n]
            BY <3>1, <4>3, <3>5
          <5> QED
            BY <3>2, <4>1, <5>1
        <4> QED
          BY <4>2, <4>3
      <3> HIDE DEF g
      <3> QED
        BY <2>1, <3>4, <3>5, <3>6
    <2> QED
      BY <2>2, <2>3
  <1>2. \E f \in [0..N -> S] : Solves(f, N)
    BY <1>1
  <1> QED
    BY <1>2 DEF Steps

\* What holds of 0, and of each number if of the one before, holds up to N.
LEMMA UpTo ==
  ASSUME NEW N \in Nat, NEW T, 0 \in T, \A n \in 1..N : n - 1 \in T => n \in T
  PROVE  \A n \in 0..N : n \in T
  <1> DEFINE Bad == {n \in 0..N : n \notin T}
  <1> SUFFICES ASSUME Bad # {} PROVE FALSE
    OBVIOUS
  <1>1. Bad \in SUBSET Nat
    OBVIOUS
  <1>2. PICK k \in Bad : \A j \in Bad : k <= j
    <2> HIDE DEF Bad
    <2> QED
      BY <1>1, LeastNatural
  <1>3. k \in 1..N /\ k \notin T
    BY <1>2
  <1>4. k - 1 \in 0..N /\ k - 1 \notin Bad
    BY <1>2, <1>3
  <1> QED
    BY <1>3, <1>4
=============================================================================
