CONSTANTS
  f1 = f1
  f2 = f2
  t1 = t1
  t2 = t2
  q1 = q1
  File = {f1, f2}
  Text = {t1, t2}
  Query = {q1}
  Watcher = {1, 2}
  NoRow = NoRow
  MaxErrors = 1
  MaxEvents = 3
SYMMETRY Symmetry
SPECIFICATION Spec
INVARIANTS
  HitsMatchTheFile
  
  NothingUntold
CHECK_DEADLOCK FALSE
