SPECIFICATION Spec
CONSTANTS
  N = 3
  Shapes = {"restart"}
  Successors = {2, 3}
  At = 2
  Lag = 0
  Faults = {}
  Ops = {}
  MaxFaults = 2
  MaxHead = 3
  MaxCommands = 3
PROPERTY CrossedOnTheNewBuild
CHECK_DEADLOCK FALSE
