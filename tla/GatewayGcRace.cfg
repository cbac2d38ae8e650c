SPECIFICATION Spec
CONSTANTS
  Procs = {p1, p2}
  MaxId = 3
  Retains = {}
  SameSecond = FALSE
  MaxFaults = 0
  MaxCrashes = 0
INVARIANT
  ProtectedReady
