SPECIFICATION Spec
CONSTANTS
  n1 = n1
  n2 = n2
  b1 = b1
  b2 = b2
  NoBuild = NoBuild
  NoCommand = NoCommand
  Default = b1
  Build = {b1, b2}
  Node = {n1}
  Command = {c1, c2}
  Ops = {"restart", "swap", "stop", "note"}
  Faults = {"crash", "tear", "blind"}
  MaxPid = 2
  MaxHistory = 2
  c1 = c1
  c2 = c2
  Name <- MCRenamed
INVARIANTS TypeOK RevisionsIncrease LaunchesAreEntered LiveNodesAreNamed
PROPERTY StopStopsAll
