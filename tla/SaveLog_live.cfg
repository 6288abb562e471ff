SPECIFICATION FairSpec
CONSTANTS
  Pid = {p, q}
  FollowModes = {"play", "watch"}
  Commands = {"go", "ask", "die"}
  MaxCommands = 2
  MaxPanics = 0
  MaxCrashes = 0
PROPERTIES RestartsEnd FollowersCatchUp
CHECK_DEADLOCK FALSE
