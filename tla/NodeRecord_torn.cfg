SPECIFICATION Spec
CONSTANTS
  n1 = n1
  n2 = n2
  b1 = b1
  b2 = b2
  NoBuild = NoBuild
  NoCommand = NoCommand
  Default = b1
  Build = {b1, b2}
  Node = {n1}
  Command = {c1}
  Ops = {"note", "stopnode", "startnode", "restart", "swap", "stop", "plan", "rm", "reconcile"}
  Faults = {"crash", "tear"}
  MaxPid = 2
  MaxHistory = 2
  c1 = c1
  c2 = c2
  Name <- MCNames
INVARIANT NothingIsOverwritten
