----------------------------- MODULE MCTabVisit -----------------------------
(* Instances of TabVisit for TLC. *)
EXTENDS TabVisit

CONSTANTS a, b, c, p, q

TwoTabs == {a, b}
ThreeTabs == {a, b, c}
TabSymmetry == Permutations(Uid)
=============================================================================
