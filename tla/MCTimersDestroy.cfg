SPECIFICATION Spec
CONSTANTS
  Timers = {a}
  Controllers = {c}
  Loop = loop
  Nobody = nobody
  Infinite = infinite
  Intervals <- JustOne
  Repeats = {TRUE, FALSE}
  WaitTime = 1
  MaxTime = 1
  ControllerOps = {"start", "destroy"}
  HandlerOps = {}
INVARIANTS
  NotTouchedAfterDestruction
CHECK_DEADLOCK FALSE
