------------------------------- MODULE MCLogin -----------------------------
(* Login.tla for TLC.  Requests are interchangeable.                       *)
EXTENDS Login, TLC

Symmetry == Permutations(Requests)
============================================================================
