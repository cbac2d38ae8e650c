SPECIFICATION LaunchSpec
CONSTANTS
  None = None
  MaxNumber = 100
  MaxOptions = 3
  HostMappers = 4
  Missing = 5
INVARIANTS TypedWins BudgetKept ChildrenHear
CHECK_DEADLOCK FALSE
