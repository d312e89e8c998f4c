CONSTANTS
  j1 = j1  j2 = j2  c1 = c1  c2 = c2  s1 = s1  s2 = s2
  Job = {j1, j2}  NoJob = NoJob
  Client = {c2}  NoClient = NoClient
  Scope <- Scopes
  Slot = {s1, s2}  NoSlot = NoSlot
  Buffer = 2  Wire = 1
  MaxVersion = 4
  Faults = {"restart", "break", "expire", "refresh"}
  MaxFaults = 1
SPECIFICATION FairSpec
INVARIANTS ViewIsCommitted ReplayFits
PROPERTIES NeverBack CatchesUp
