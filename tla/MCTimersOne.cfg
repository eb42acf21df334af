SPECIFICATION Spec
CONSTANTS
  Timers = {a}
  Controllers = {c, d}
  Loop = loop
  Nobody = nobody
  Infinite = infinite
  Intervals <- OneOrTwo
  Repeats = {TRUE, FALSE}
  WaitTime = 1
  MaxTime = 1
  ControllerOps = {"start", "restart", "stop", "destroy"}
  HandlerOps = {"setHandler", "setInterval", "setRepeat"}
INVARIANTS
  DestroyedIsGone
PROPERTIES
  ContractSpec
CHECK_DEADLOCK FALSE
