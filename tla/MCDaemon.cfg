CONSTANTS
  b1 = b1
  b2 = b2
  s1 = s1
  s2 = s2
  Broker = {b1, b2}
  Session = {s1, s2}
  None = None
SPECIFICATION DaemonSpec
SYMMETRY Processes
INVARIANTS
  PublishedIsBound
  ServingIsRegistered
  
CHECK_DEADLOCK FALSE
