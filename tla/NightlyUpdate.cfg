SPECIFICATION Spec
CONSTANTS
  f1 = f1
  f2 = f2
  Files <- MCFiles
  BatchOf <- MCBatchOf
  MaxContent = 2
  FreshContent = TRUE
  FixedFiles = FALSE
  MaxCommits = 3
  MaxFaults = 1
INVARIANTS GraphNotAheadOfMirror RecordedIsBuilt
PROPERTIES NightsGoOn SourcesCatchUp
