-------------------------------- MODULE MCEdits -------------------------------
(* Edits with two calls and two files. *)
EXTENDS Edits, TLC

CONSTANTS f1, f2

E(f) == [op |-> "edit", file |-> f, to |-> f]
O(op, f, t) == [op |-> op, file |-> f, to |-> t]

\* One file, a deleted file, extraction to a new file, a renamed file.
ThePlans == {<<E(f1)>>, <<E(f1), O("delete", f2, f2)>>,
             <<E(f1), O("create", f2, f2), E(f2)>>, <<E(f1), O("rename", f1, f2)>>}
Calls == Permutations(Call)
==============================================================================
