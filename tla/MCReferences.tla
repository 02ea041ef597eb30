----------------------------- MODULE MCReferences -----------------------------
(* References with two files of two contents. *)
EXTENDS References, TLC

CONSTANTS f1, f2, t1, t2, q1
Symmetry == Permutations({f1, f2}) \cup Permutations({t1, t2})
==============================================================================
