SPECIFICATION FairSpec
CONSTANTS
  tidy = tidy
  watch = watch
  other = other
  w1 = w1
  w2 = w2
  disk = disk
  bin = bin
  log = log
  ann = ann
  ssh = ssh
  acct = acct
  NoPlan = NoPlan
  NoKey = NoKey
  PlanId = {tidy, watch}
  Monitors = {watch}
  Space = {w1}
  Resource = {disk, log}
  Executable = {}
  Actor = {ann}
  Credential = {ssh, acct}
  Key = {k1}
  Request = {r1}
  PlanSpace <- Spaces
  PlanClaims <- ClaimsDisk
  PlanActor <- Owners
  PlanCredentials <- Logins
  PlanAccounts <- Keys
  PlanRetention <- Retentions
  Faults = {"crash", "cancel", "write", "drift", "revoke", "expire"}
  MaxJobs = 1
CHECK_DEADLOCK FALSE
INVARIANT RevokedWorkStops
PROPERTY JobsEnd
