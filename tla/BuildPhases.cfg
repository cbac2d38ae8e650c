SPECIFICATION Spec
CONSTANTS
  f1 = f1
  f2 = f2
  f3 = f3
  Files <- MCFiles
  BatchOf <- MCBatchOf
  Code <- MCCode
  Unparsable <- MCUnparsable
  MaxContent = 3
  MaxCommits = 3
  FreshContent = TRUE
  FixedFiles = FALSE
  MaxTouched = 1
  MaxCrashes = 1
INVARIANTS NotBehindBase ResumeIsFull BatchedFilesCurrent BackfillFillsGaps
