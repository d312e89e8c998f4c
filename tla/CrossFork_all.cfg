SPECIFICATION Spec
CONSTANTS
  N = 3
  Shapes = {"handover", "restart"}
  Successors = {2, 3}
  At = 2
  Lag = 1
  Faults = {"kill", "die", "refuse", "stop", "config", "launch", "check", "rpc"}
  Ops = {"stop", "start", "startall"}
  MaxFaults = 3
  MaxHead = 3
  MaxCommands = 4
INVARIANTS NobodySealsEarly ArgvFitsBuild WalkedMeansMoved
CHECK_DEADLOCK FALSE
