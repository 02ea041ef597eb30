CONSTANTS
  a = a
  b = b
  r1 = r1
  r2 = r2
  f1 = f1
  f2 = f2
  f3 = f3
  Caller = {a, b}
  MaxClients = 6
  Entry <- TheEntries
  DaemonLang = {"typescript"}
  ScopeLang = {"typescript"}
  File = {f1, f2, f3}
  LangOf <- TheLangs
  RootOf <- TheRoots
  Root = {r1, r2}
  None = None
  MaxCalls = 3
  MaxCrashes = 1
  Tools = {"file", "all", "lang", "connect"}
SYMMETRY Symmetry
SPECIFICATION Spec
INVARIANTS
  
  CurrentIsUsable
  UserConfigKept
