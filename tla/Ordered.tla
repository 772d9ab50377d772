------------------------------ MODULE Ordered ------------------------------
(***************************************************************************)
(* Finite sets in the order of a relation: what the sorted containers and  *)
(* the calls of std::sort make of their elements.                          *)
(***************************************************************************)
EXTENDS Integers, FiniteSets

\* S as a sequence, each element after those that R, a set of pairs, puts before it.
InOrder(S, R) ==
  [k \in 1 .. Cardinality(S) |->
     CHOOSE x \in S : Cardinality({y \in S : <<y, x>> \in R}) = k - 1]

\* The pairs of integers of S, the smaller one first.
Ascending(S) == {p \in S \X S : p[1] < p[2]}
=============================================================================
