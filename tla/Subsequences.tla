---------------------------- MODULE Subsequences ----------------------------
(* What the loops of the journal, its readers and the traversal engine have   *)
(* in common: they copy a sequence and leave some of its elements out.        *)
EXTENDS Naturals, FiniteSets

(* How many of the positions P are not after position i. *)
Rank(P, i) == Cardinality({j \in P : j <= i})

(* The elements of the sequence s at the positions P, in their order. *)
ElementsAt(s, P) ==
    [k \in 1..Cardinality(P) |-> s[CHOOSE i \in P : Rank(P, i) = k]]
=============================================================================
