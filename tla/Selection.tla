------------------------------- MODULE Selection -------------------------------
(***************************************************************************)
(* What filtering an array, or deleting a key from a Map, leaves: the         *)
(* elements at certain places, in their order.  The places are a set, so      *)
(* that what is left can be reasoned about without recursion.                 *)
(***************************************************************************)
EXTENDS Integers, Sequences, FiniteSets

(* The i-th smallest of a finite set of places.                              *)
Rank(places, k) == Cardinality({j \in places : j <= k})
Place(places, i) == CHOOSE k \in places : Rank(places, k) = i

Selected(s, places) == [i \in 1 .. Cardinality(places) |-> s[Place(places, i)]]
=============================================================================
