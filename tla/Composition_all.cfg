SPECIFICATION CompositionSpec
CONSTANTS
  N = 2
  Genesis = {"g1", "g2"}
  Config = {"k1", "k2"}
  None = None
  Partial = Partial
  Phases <- MCPhases
  Actions <- MCActions
  Requests <- MCEvery
  Ops = {"up", "compare", "step", "resume", "stop", "rm", "restart"}
  Faults = {"crash", "fail", "die", "stop", "hide"}
  MaxCommands = 3
  MaxFaults = 2
CHECK_DEADLOCK FALSE
INVARIANTS ServesTheRequest RefusalTouchesNothing
PROPERTIES DataStaysUnderTheLive RollbackIsExact
