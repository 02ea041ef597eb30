CONSTANTS
  Skill = {"rename", "refactor", "safe_edit", "verify"}
  NoSkill = NoSkill
  Tool <- MCTool
  Phases <- BuiltinSkills
  GlobalForbidden <- BuiltinGlobalForbidden
  MaxHistory = 4
SPECIFICATION PhaseSpec
INVARIANTS
  HistoryExplainsPhase
PROPERTIES
  ImplementsGate
