CONSTANTS
  u1 = u1
  c1 = c1
  c2 = c2
  good = good
  bad = bad
  URI = {u1}
  Caller = {c1, c2}
  Text = {good, bad}
  DiskText = good
  NoText = NoText
  NoDoc = NoDoc
  NoMark = NoMark
  NoCall = NoCall
  Kinds <- MCKinds
  MaxSends = 2
SYMMETRY Symmetry
SPECIFICATION Spec
INVARIANTS
  SettledIsCurrent
CHECK_DEADLOCK FALSE
