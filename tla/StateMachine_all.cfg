SPECIFICATION FairSpec
CONSTANTS
  top = top
  stage = stage
  one = one
  two = two
  failed = failed
  go = go
  oops = oops
  NoState = NoState
  NoMsg = NoMsg
  State = {top, stage, one, two, failed}
  Parent <- Tree
  Msg = {go, oops}
  Accepts <- TreeAccepts
  Emits <- TreeEmits
  Ignores <- NoneIgnored
  Refuses = {failed}
  FailMsg = oops
  Faults = {"misuse", "process", "enter", "exit", "cancel"}
  MaxDispatch = 2
  MaxQueue = 1
  MaxSends = 2
CHECK_DEADLOCK FALSE
INVARIANT ActiveIsLineage
INVARIANT EnterAndExitNest
PROPERTY OkIsRest
PROPERTY SendReturns
