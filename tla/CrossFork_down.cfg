SPECIFICATION Spec
CONSTANTS
  N = 3
  Shapes = {"handover"}
  Successors = {2, 3}
  At = 2
  Lag = 0
  Faults = {"launch"}
  Ops = {}
  MaxFaults = 2
  MaxHead = 3
  MaxCommands = 3
PROPERTY CrossedMeansUp
CHECK_DEADLOCK FALSE
