CONSTANTS
  f1 = f1
  f2 = f2
  c1 = c1
  c2 = c2
  File = {f1, f2}
  Call = {c1, c2}
  Loop = Loop
  None = None
  User = User
  Gone = Gone
  Plans <- ThePlans
  MaxUser = 1
SPECIFICATION Spec
SYMMETRY Calls
INVARIANTS
  MatchedEditsLand
  ServerInSync
  
  DryRunWritesNothing
  SimulatedIsWritten
CHECK_DEADLOCK FALSE
