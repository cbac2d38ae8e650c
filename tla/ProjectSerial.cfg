SPECIFICATION Spec
CONSTANTS
  Procs = {p1}
  Readers = {r1}
  MaxId = 3
  Retains = {1, 2}
  Republish = FALSE
  FailServing = FALSE
  MaxFaults = 2
  MaxCrashes = 1
INVARIANTS StoreAgrees GraphServed
PROPERTIES FailedOpUndone ImplementsReleasePointers
