SPECIFICATION Spec
CONSTANTS
  Cmds = {c1, c2}
  Options = {a, b}
  OnePort = TRUE
  MaxPid = 2
  MaxFaults = 2
INVARIANTS PidFileIsTrue AbandonedNotServing
PROPERTIES CommandsEnd
