SPECIFICATION CompositionSpec
CONSTANTS
  N = 2
  Genesis = {"g1", "g2"}
  Config = {"k1", "k2"}
  None = None
  Partial = Partial
  Phases <- MCPhases
  Actions <- MCActions
  Requests <- MCDrift
  Ops = {"up"}
  Faults = {}
  MaxCommands = 2
  MaxFaults = 0
CHECK_DEADLOCK FALSE
INVARIANT DriftIsRedone
