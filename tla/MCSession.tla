------------------------------ MODULE MCSession ------------------------------
(* Instance of Session for TLC.  A text is the number of edits applied to the
   initial one, so that a lost or repeated edit shows. *)
EXTENDS Session, TLC

MCText == 0..(MaxEdits + 1)
MCApply(t, e) == IF t < MaxEdits THEN t + e ELSE t

Symmetry == Permutations(Proc) \cup Permutations(URI)
=============================================================================
