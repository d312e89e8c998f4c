SPECIFICATION Spec
CONSTANTS
  tidy = tidy
  watch = watch
  other = other
  w1 = w1
  w2 = w2
  disk = disk
  bin = bin
  log = log
  ann = ann
  ssh = ssh
  acct = acct
  NoPlan = NoPlan
  NoKey = NoKey
  PlanId = {tidy}
  Monitors = {}
  Space = {w1}
  Resource = {disk}
  Executable = {}
  Actor = {ann}
  Credential = {acct}
  Key = {k1, k2}
  Request = {r1, r2}
  PlanSpace <- Spaces
  PlanClaims <- ClaimsDisk
  PlanActor <- Owners
  PlanCredentials <- Logins
  PlanAccounts <- Keys
  PlanRetention <- Retentions
  Faults = {"crash", "cancel", "write", "drift", "revoke", "expire"}
  MaxJobs = 2
CHECK_DEADLOCK FALSE
SYMMETRY Alike
INVARIANT ClaimsAreExclusive
INVARIANT OneJobPerKey
INVARIANT CancelReachesTheWork
PROPERTY EndIsFinal
