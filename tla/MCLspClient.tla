----------------------------- MODULE MCLspClient -----------------------------
(* Instance of LspClient for TLC: one query and one restart at a time. *)
EXTENDS LspClient

CONSTANTS q1, r1  \* the two callers
=============================================================================
