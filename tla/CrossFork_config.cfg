SPECIFICATION Spec
CONSTANTS
  N = 3
  Shapes = {"handover", "restart"}
  Successors = {2, 3}
  At = 2
  Lag = 0
  Faults = {"kill"}
  Ops = {"stop", "start"}
  MaxFaults = 2
  MaxHead = 3
  MaxCommands = 3
INVARIANT ConfigFitsBuild
CHECK_DEADLOCK FALSE
