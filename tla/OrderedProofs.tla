--------------------------- MODULE OrderedProofs ---------------------------
(***************************************************************************)
(* What the other proofs need about order: sets of numbers have a least    *)
(* one, and InOrder is the sorted sequence of a set.                       *)
(***************************************************************************)
EXTENDS Ordered, FiniteSetTheorems, WellFoundedInduction, TLAPS

\* A set of natural numbers that has, with a number, a smaller one is empty.
LEMMA LeastNumber ==
  ASSUME NEW S \in SUBSET Nat, \A m \in S : \E l \in S : l < m
  PROVE  S = {}
<1> DEFINE Less == OpToRel(<, Nat)
<1>1. SUFFICES ASSUME S # {} PROVE FALSE
  OBVIOUS
<1>2. PICK m \in S : \A l \in S : <<l, m>> \notin Less
  BY <1>1, NatLessThanWellFounded, WFMin
<1>3. PICK l \in S : l < m
  BY <1>2
<1>4. <<l, m>> \in Less
  BY <1>2, <1>3 DEF OpToRel
<1> QED BY <1>2, <1>3, <1>4

----------------------------------------------------------------------------
(* Sorting *)

IsStrictOrder(S, R) ==
  /\ \A x \in S : <<x, x>> \notin R
  /\ \A x, y, z \in S : <<x, y>> \in R /\ <<y, z>> \in R => <<x, z>> \in R
  /\ \A x, y \in S : x = y \/ <<x, y>> \in R \/ <<y, x>> \in R

Before(S, R, x) == {y \in S : <<y, x>> \in R}

LEMMA MoreBefore ==
  ASSUME NEW S, IsFiniteSet(S), NEW R, IsStrictOrder(S, R),
         NEW x \in S, NEW y \in S, <<x, y>> \in R
  PROVE  Cardinality(Before(S, R, x)) < Cardinality(Before(S, R, y))
<1>1. Before(S, R, y) \in SUBSET S /\ Before(S, R, x) \in SUBSET Before(S, R, y)
  BY DEF Before, IsStrictOrder
<1>2. x \in Before(S, R, y) /\ x \notin Before(S, R, x)
  BY DEF Before, IsStrictOrder
<1>3. IsFiniteSet(Before(S, R, y))
  BY <1>1, FS_Subset
<1>4. IsFiniteSet(Before(S, R, x))
      /\ Cardinality(Before(S, R, x)) <= Cardinality(Before(S, R, y))
      /\ Cardinality(Before(S, R, x)) # Cardinality(Before(S, R, y))
  BY <1>1, <1>2, <1>3, FS_Subset
<1>5. Cardinality(Before(S, R, x)) \in Nat /\ Cardinality(Before(S, R, y)) \in Nat
  BY <1>3, <1>4, FS_CardinalityType
<1> QED BY <1>4, <1>5

\* InOrder lists each element once, in the order of the relation.
LEMMA InOrderSorts ==
  ASSUME NEW S, IsFiniteSet(S), NEW R, IsStrictOrder(S, R)
  PROVE  /\ InOrder(S, R) \in [1 .. Cardinality(S) -> S]
         /\ \A x \in S : \E k \in 1 .. Cardinality(S) : InOrder(S, R)[k] = x
         /\ \A k, l \in 1 .. Cardinality(S) :
              k < l => <<InOrder(S, R)[k], InOrder(S, R)[l]>> \in R
<1> DEFINE n == Cardinality(S)
           rank == [x \in S |-> Cardinality(Before(S, R, x)) + 1]
           q == InOrder(S, R)
<1>1. n \in Nat
  BY FS_CardinalityType
<1>2. ASSUME NEW x \in S PROVE rank[x] \in 1 .. n
  <2>1. Before(S, R, x) \in SUBSET S /\ x \notin Before(S, R, x)
    BY DEF Before, IsStrictOrder
  <2>2. /\ IsFiniteSet(Before(S, R, x))
        /\ Cardinality(Before(S, R, x)) <= n
        /\ Cardinality(Before(S, R, x)) # n
    BY <2>1, FS_Subset
  <2>3. Cardinality(Before(S, R, x)) \in Nat
    BY <2>2, FS_CardinalityType
  <2> QED BY <1>1, <2>2, <2>3
<1>3. ASSUME NEW x \in S, NEW y \in S, <<x, y>> \in R PROVE rank[x] < rank[y]
  <2>1. Cardinality(Before(S, R, x)) < Cardinality(Before(S, R, y))
    BY <1>3, MoreBefore
  <2>2. rank[x] \in 1 .. n /\ rank[y] \in 1 .. n
    BY <1>2
  <2>3. Cardinality(Before(S, R, x)) \in Nat /\ Cardinality(Before(S, R, y)) \in Nat
    <3>1. Before(S, R, x) \in SUBSET S /\ Before(S, R, y) \in SUBSET S
      BY DEF Before
    <3> QED BY <3>1, FS_Subset, FS_CardinalityType
  <2> QED BY <2>1, <2>3
<1>4. rank \in [S -> 1 .. n]
  BY <1>2
<1>5. \A k \in 1 .. n : q[k] = CHOOSE x \in S : Cardinality(Before(S, R, x)) = k - 1
  BY DEF InOrder, Before
<1>d. q = [k \in 1 .. n |-> CHOOSE x \in S : Cardinality(Before(S, R, x)) = k - 1]
  BY DEF InOrder, Before
<1>6. \A x \in S : rank[x] = Cardinality(Before(S, R, x)) + 1
                   /\ Cardinality(Before(S, R, x)) \in Nat
  <2>1. ASSUME NEW x \in S PROVE Cardinality(Before(S, R, x)) \in Nat
    <3>1. Before(S, R, x) \in SUBSET S
      BY DEF Before
    <3> QED BY <3>1, FS_Subset, FS_CardinalityType
  <2> QED BY <2>1
<1> HIDE DEF rank, q
<1>7. rank \in Injection(S, 1 .. n)
  <2>1. ASSUME NEW x \in S, NEW y \in S, rank[x] = rank[y] PROVE x = y
    <3>1. ~(rank[x] < rank[y]) /\ ~(rank[y] < rank[x])
      BY <1>2, <2>1
    <3> QED BY <1>3, <3>1 DEF IsStrictOrder
  <2> QED BY <1>4, <2>1 DEF Injection, IsInjective
<1>8. IsFiniteSet(1 .. n) /\ Cardinality(1 .. n) = n
  BY <1>1, FS_Interval
<1>9. rank \in Surjection(S, 1 .. n)
  BY <1>7, <1>8, FS_Injection
<1>10. ASSUME NEW k \in 1 .. n PROVE q[k] \in S /\ rank[q[k]] = k
  <2>1. PICK x \in S : rank[x] = k
    BY <1>9 DEF Surjection
  <2>2. Cardinality(Before(S, R, x)) = k - 1
    BY <1>6, <2>1
  <2>3. q[k] \in S /\ Cardinality(Before(S, R, q[k])) = k - 1
    BY <1>5, <2>2
  <2> QED BY <1>6, <2>3
<1>11. q \in [1 .. n -> S]
  <2>1. \A k \in 1 .. n : (CHOOSE x \in S : Cardinality(Before(S, R, x)) = k - 1) \in S
    BY <1>5, <1>10
  <2> QED BY <1>d, <2>1
<1>12. ASSUME NEW x \in S PROVE \E k \in 1 .. n : q[k] = x
  <2>1. rank[x] \in 1 .. n
    BY <1>2
  <2>2. q[rank[x]] \in S /\ rank[q[rank[x]]] = rank[x]
    BY <1>10, <2>1
  <2>3. q[rank[x]] = x
    BY <1>7, <2>2 DEF Injection, IsInjective
  <2> QED BY <2>1, <2>3
<1>13. ASSUME NEW k \in 1 .. n, NEW l \in 1 .. n, k < l PROVE <<q[k], q[l]>> \in R
  <2>1. q[k] \in S /\ q[l] \in S /\ rank[q[k]] = k /\ rank[q[l]] = l
    BY <1>10
  <2>2. q[k] # q[l]
    BY <1>13, <2>1
  <2>3. <<q[l], q[k]>> \notin R
    <3>1. SUFFICES ASSUME <<q[l], q[k]>> \in R PROVE FALSE
      OBVIOUS
    <3>2. rank[q[l]] < rank[q[k]]
      BY <1>3, <2>1, <3>1
    <3> QED BY <1>13, <2>1, <3>2
  <2> QED BY <2>1, <2>2, <2>3 DEF IsStrictOrder
<1> QED BY <1>11, <1>12, <1>13 DEF q
=============================================================================
