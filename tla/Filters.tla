------------------------------- MODULE Filters -------------------------------
(***************************************************************************)
(* What `filter` of JavaScript makes of an array: the elements at certain  *)
(* positions, in their order.  Defined by positions and not by recursion,  *)
(* so that a proof can say which element stands where.                     *)
(***************************************************************************)
EXTENDS Naturals, Sequences, FiniteSets

\* the i-th number of K, counted from the smallest
NthOf(K, i) == CHOOSE k \in K : Cardinality({j \in K : j <= k}) = i

\* the elements of s at the positions K
Picked(s, K) == [i \in 1 .. Cardinality(K) |-> s[NthOf(K, i)]]
=============================================================================
