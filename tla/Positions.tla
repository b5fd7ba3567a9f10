----------------------------- MODULE Positions -----------------------------
(***************************************************************************)
(* The elements of a finite set of integers in increasing order: how the   *)
(* code lists the positions it selects from a list, and sorted().          *)
(***************************************************************************)
EXTENDS Integers, FiniteSets

Rank(S, p) == Cardinality({q \in S : q <= p})

InOrder(S) == [k \in 1..Cardinality(S) |-> CHOOSE p \in S : Rank(S, p) = k]
=============================================================================
