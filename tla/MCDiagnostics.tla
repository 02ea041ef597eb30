---------------------------- MODULE MCDiagnostics ----------------------------
(* Instance of Diagnostics for TLC. *)
EXTENDS Diagnostics, TLC

\* like gopls (publishes every version), clangd (versions, silent when nothing
\* changed, clears on close) and typescript-language-server (no versions)
MCKinds ==
  {[versioned |-> TRUE, republishes |-> TRUE, timely |-> FALSE, clears |-> FALSE],
   [versioned |-> TRUE, republishes |-> FALSE, timely |-> TRUE, clears |-> TRUE],
   [versioned |-> FALSE, republishes |-> FALSE, timely |-> TRUE, clears |-> FALSE]}

Symmetry == Permutations(Caller)
=============================================================================
