CONSTANTS
  q1 = q1
  r1 = r1
  Query = {q1}
  Restarter = {r1}
  MaxId = 4
  MaxProc = 2
SPECIFICATION Spec
INVARIANTS
  OneOutcome
  OneProcess
  Connected
  FailFast
PROPERTIES
  OwnOutcome
CHECK_DEADLOCK FALSE
