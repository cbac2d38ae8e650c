SPECIFICATION Spec
CONSTANTS
  None = None
  Projects = {"a", "b"}
  Inits = {1, 2}
  Refreshes = {3, 4}
  MaxCommands = 2
  MaxEdits = 1
  MaxKills = 1
INVARIANT RefreshSettles
PROPERTIES InitIsAtomic TokenKept CommandsEnd
CHECK_DEADLOCK FALSE
