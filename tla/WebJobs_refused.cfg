SPECIFICATION FairSpec
CONSTANTS
  tidy = tidy
  watch = watch
  other = other
  w1 = w1
  w2 = w2
  disk = disk
  bin = bin
  log = log
  ann = ann
  ssh = ssh
  acct = acct
  NoPlan = NoPlan
  NoKey = NoKey
  PlanId = {tidy}
  Monitors = {}
  Space = {w1}
  Resource = {disk}
  Executable = {}
  Actor = {ann}
  Credential = {}
  Key = {k1}
  Request = {r1}
  PlanSpace <- Spaces
  PlanClaims <- ClaimsDisk
  PlanActor <- Owners
  PlanCredentials <- None
  PlanAccounts <- None
  PlanRetention <- Retentions
  Faults = {"cancel", "drift"}
  MaxJobs = 1
CHECK_DEADLOCK FALSE
PROPERTY RefusedJobsEnd
