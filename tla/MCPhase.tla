------------------------------- MODULE MCPhase -------------------------------
(* Phase with the builtin skills: every tool they name, and two they do not. *)
EXTENDS Phase, PhaseSkills

MCTool ==
  {"start_lsp", "go_to_symbol", "prepare_rename", "find_references", "rename_symbol",
   "apply_edit", "get_diagnostics", "simulate_edit", "simulate_chain", "preview_edit",
   "run_build", "run_tests", "format_document", "blast_radius", "open_document",
   "refactor", "get_tests_for_file", "suggest_fixes", "replace_symbol_body"}
==============================================================================
