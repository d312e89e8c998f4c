SPECIFICATION FairSpec
CONSTANTS
  a1 = a1
  a2 = a2
  b1 = b1
  NoProc = NoProc
  Proc = {a1, a2, b1}
  Waiter = {a2}
  HostOf <- MCHostOf
  PidOf <- MCPidOf
  MaxDepth = 2
  MaxTakes = 2
  MaxSpawns = 4
CHECK_DEADLOCK FALSE
INVARIANTS MutualExclusion HolderIsVisible
PROPERTIES ImplementsMutex CallsReturn
