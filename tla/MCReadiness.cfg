CONSTANTS
  w1 = w1
  w2 = w2
  t1 = t1
  t2 = t2
  Waiter = {w1, w2}
  Token = {t1, t2}
  NoToken = NoToken
  Nobody = Nobody
  MaxRuns = 3
  MaxRestarts = 1
  Cancels = TRUE
SYMMETRY Symmetry
SPECIFICATION Spec
INVARIANTS
  IndexedUnlessOverwritten
PROPERTIES
  LoadedForGood
CHECK_DEADLOCK FALSE
