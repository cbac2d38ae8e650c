SPECIFICATION Spec
CONSTANTS
  Workers = {0, 1, 2}
  Models <- TwoModels
  Concurrency = 2
  TaskSize = 2
  Threshold = 2
  Repeats = FALSE
  FilesOf <- TasksOfTwo
  Mappers = 2
  LlmAnalysis = TRUE
  Orphan = FALSE
  MayVanish <- Vanishing
  MayBeLeft <- Leftovers
  MaxFaults = 1
INVARIANTS MergedIsWhole NoStrays CallsAddUp
