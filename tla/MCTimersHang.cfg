SPECIFICATION FairSpec
CONSTANTS
  Timers = {a}
  Controllers = {c}
  Loop = loop
  Nobody = nobody
  Infinite = infinite
  Intervals <- JustOne
  Repeats = {TRUE, FALSE}
  WaitTime = 1
  MaxTime = 1
  ControllerOps = {"start"}
  HandlerOps = {}
PROPERTIES
  WaiterReleased
CHECK_DEADLOCK FALSE
