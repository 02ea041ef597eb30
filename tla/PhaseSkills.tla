----------------------------- MODULE PhaseSkills -----------------------------
(***************************************************************************)
(* The skills agent-lsp ships with (internal/phase/skills.go), restricted   *)
(* to the tools a client can call; "simulate_*" stands for the tools it     *)
(* matches (internal/phase/matcher.go).  Edit, Write and Bash are tools of  *)
(* the agent, which the server never sees.                                  *)
(***************************************************************************)
EXTENDS Sequences

SimulateTools == {"simulate_edit", "simulate_chain"}

SkillRename == <<
  [allowed |-> {"start_lsp"}, forbidden |-> {}],
  [allowed |-> {"go_to_symbol", "prepare_rename", "find_references", "rename_symbol"},
   forbidden |-> {"apply_edit"}],
  [allowed |-> {"get_diagnostics", "rename_symbol", "apply_edit"},
   forbidden |-> SimulateTools \cup {"preview_edit", "run_build"}] >>

SkillRefactor == <<
  [allowed |-> {"blast_radius", "go_to_symbol", "find_references"},
   forbidden |-> SimulateTools \cup {"apply_edit", "preview_edit"}],
  [allowed |-> {"open_document", "get_diagnostics", "preview_edit", "simulate_chain"},
   forbidden |-> {"apply_edit"}],
  [allowed |-> {"apply_edit", "refactor", "format_document"},
   forbidden |-> SimulateTools \cup {"preview_edit", "rename_symbol"}],
  [allowed |-> {"get_diagnostics", "run_build"}, forbidden |-> {"apply_edit"}],
  [allowed |-> {"get_tests_for_file", "run_tests"}, forbidden |-> {"apply_edit"}] >>

SkillSafeEdit == <<
  [allowed |-> {"start_lsp", "open_document", "get_diagnostics"},
   forbidden |-> {"apply_edit"}],
  [allowed |-> {"preview_edit", "simulate_chain"}, forbidden |-> {"apply_edit"}],
  [allowed |-> {"apply_edit"}, forbidden |-> SimulateTools \cup {"preview_edit"}],
  [allowed |-> {"get_diagnostics", "suggest_fixes", "apply_edit", "format_document"},
   forbidden |-> SimulateTools \cup {"preview_edit", "run_build", "run_tests"}] >>

SkillVerify == <<
  [allowed |-> {"get_tests_for_file"}, forbidden |-> {"apply_edit"}],
  [allowed |-> {"start_lsp", "get_diagnostics"}, forbidden |-> {"apply_edit"}],
  [allowed |-> {"run_build"}, forbidden |-> {"apply_edit"}],
  [allowed |-> {"run_tests"}, forbidden |-> {"apply_edit"}],
  [allowed |-> {"suggest_fixes", "apply_edit", "format_document", "get_diagnostics"},
   forbidden |-> SimulateTools \cup {"preview_edit", "run_build", "run_tests"}] >>

BuiltinSkills ==
  [rename |-> SkillRename, refactor |-> SkillRefactor,
   safe_edit |-> SkillSafeEdit, verify |-> SkillVerify]

BuiltinGlobalForbidden ==
  [rename |-> {"format_document", "run_tests"},
   refactor |-> {"rename_symbol"},
   safe_edit |-> {"rename_symbol", "blast_radius"},
   verify |-> SimulateTools \cup {"preview_edit", "rename_symbol"}]
==============================================================================
