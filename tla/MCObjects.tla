------------------------------ MODULE MCObjects -------------------------------
(* A small instance of Objects for TLC. *)
EXTENDS Objects, TLC

CONSTANTS a, b

\* Two keys meet in one bucket.
SmallHash == (a :> 1) @@ (b :> 3)
MCSymmetry == Permutations(Cache) \cup Permutations(Page)
=============================================================================
