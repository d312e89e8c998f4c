SPECIFICATION CompositionSpec
CONSTANTS
  N = 2
  Genesis = {"g1", "g2"}
  Config = {"k1", "k2"}
  None = None
  Partial = Partial
  Phases <- MCPhases
  Actions <- MCActions
  Requests <- MCRequests
  Ops = {"compare"}
  Faults = {"fail"}
  MaxCommands = 4
  MaxFaults = 1
CHECK_DEADLOCK FALSE
INVARIANT ComparedIsWanted
