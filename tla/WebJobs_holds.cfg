SPECIFICATION Spec
CONSTANTS
  tidy = tidy
  watch = watch
  other = other
  w1 = w1
  w2 = w2
  disk = disk
  bin = bin
  log = log
  ann = ann
  ssh = ssh
  acct = acct
  NoPlan = NoPlan
  NoKey = NoKey
  PlanId = {tidy, other, watch}
  Monitors = {watch}
  Space = {w1, w2}
  Resource = {disk, bin, log}
  Executable = {bin}
  Actor = {ann}
  Credential = {}
  Key = {k1, k2, k3}
  Request = {r1}
  PlanSpace <- Spaces
  PlanClaims <- ClaimsBin
  PlanActor <- Owners
  PlanCredentials <- None
  PlanAccounts <- None
  PlanRetention <- Retentions
  Faults = {"crash"}
  MaxJobs = 3
CHECK_DEADLOCK FALSE
SYMMETRY Alike
INVARIANT NoForeignNodes
