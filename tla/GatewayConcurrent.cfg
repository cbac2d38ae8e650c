SPECIFICATION Spec
SYMMETRY ProcSymmetry
CONSTANTS
  Procs = {p1, p2}
  MaxId = 3
  Retains = {}
  SameSecond = TRUE
  MaxFaults = 0
  MaxCrashes = 0
INVARIANTS
  PendingConsistent
PROPERTIES
  NewestSurvives OnlyTwinsRewrite
