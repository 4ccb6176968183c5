------------------------------ MODULE Ordering ------------------------------
(***************************************************************************)
(* What Python's sort makes of a set: the sequence of its members in an    *)
(* order that tells any two of them apart.  The order is a set of pairs.   *)
(***************************************************************************)
EXTENDS Integers, FiniteSets

RankIn(R, K, i) == Cardinality({j \in K : <<j, i>> \in R})

Enumerated(R, K) == [n \in 1 .. Cardinality(K) |-> CHOOSE i \in K : RankIn(R, K, i) = n - 1]
=============================================================================
