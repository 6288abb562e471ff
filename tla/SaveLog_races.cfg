SPECIFICATION Spec
CONSTANTS
  Pid = {p, q}
  FollowModes = {"play", "watch"}
  Commands = {"go", "long", "ask", "die"}
  MaxCommands = 1
  MaxPanics = 1
  MaxCrashes = 1
INVARIANTS LogIsPlayable SavesAreTrue Agreement CutsAreSafe NeverLost
CHECK_DEADLOCK FALSE
