SPECIFICATION Spec
CONSTANTS
  Pid = {p, q}
  FollowModes = {"play"}
  Commands = {"die"}
  MaxCommands = 1
  MaxPanics = 0
  MaxCrashes = 0
INVARIANTS OneGameOver
CHECK_DEADLOCK FALSE
