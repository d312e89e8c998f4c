SPECIFICATION Spec
CONSTANTS
  top = top
  stage = stage
  one = one
  two = two
  failed = failed
  go = go
  oops = oops
  NoState = NoState
  NoMsg = NoMsg
  State = {top, one, failed}
  Parent <- SmallTree
  Msg = {go, oops}
  Accepts <- TreeAccepts
  Emits <- TreeEmits
  Ignores <- AllIgnored
  Refuses = {failed}
  FailMsg = NoMsg
  Faults = {"misuse"}
  MaxDispatch = 2
  MaxQueue = 1
  MaxSends = 2
CHECK_DEADLOCK FALSE
INVARIANT NextSendStartsClean
