CONSTANTS
  s1 = s1
  f1 = f1
  f2 = f2
  p1 = p1
  p2 = p2
  SessionId = {s1}
  URI = {f1, f2}
  Proc = {p1, p2}
  Text <- MCText
  Edit = {1}
  ApplyRangeEdit <- MCApply
  InitialText = 0
  TornText = 3
  ExternalText = {3}
  NoText = NoText
  NoSession = NoSession
  NoProc = NoProc
  NoItem = NoItem
  MaxEdits = 2
  ChainLen = 2
SYMMETRY Symmetry
SPECIFICATION Spec
INVARIANTS
  TypeOK
  ExecutorMutex
  EvaluatingHasOwner
  
  EditsExplainContents
  DiscardReverts
PROPERTIES
  SnapshotImmutable
CHECK_DEADLOCK FALSE
