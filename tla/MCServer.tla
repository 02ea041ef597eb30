------------------------------- MODULE MCServer -------------------------------
(* Server with two languages, two calls at a time, and files of one or two roots. *)
EXTENDS Server, TLC

CONSTANTS a, b, r1, r2, f1, f2, f3

TheEntries == <<"go", "typescript">>
TheLangs == [f \in {f1, f2, f3} |-> IF f = f2 THEN "typescript" ELSE "go"]
TheRoots == [f \in {f1, f2, f3} |-> IF f = f3 THEN r2 ELSE r1]
Symmetry == Permutations(Caller)
==============================================================================
