----------------------------- MODULE MCReadiness -----------------------------
(* Instance of Readiness for TLC. *)
EXTENDS Readiness, TLC

Symmetry == Permutations(Waiter) \cup Permutations(Token)
=============================================================================
