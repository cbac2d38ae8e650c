SPECIFICATION Spec
CONSTANTS
  Procs = {p1}
  MaxId = 3
  Retains = {1, 2}
  SameSecond = TRUE
  MaxFaults = 2
  MaxCrashes = 1
INVARIANTS
  TypeOK
  ProtectedReady
PROPERTIES
  FailedOpUndone
  OldestGoFirst
  ImplementsReleasePointers
