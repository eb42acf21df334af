SPECIFICATION FairSpec
CONSTANTS
  Timers = {a, b}
  Controllers = {c}
  Loop = loop
  Nobody = nobody
  Infinite = infinite
  Intervals <- JustOne
  Repeats = {TRUE}
  WaitTime = 1
  MaxTime = 2
  ControllerOps = {"start", "stop"}
  HandlerOps = {"start", "stop"}
INVARIANTS
  ListIsSound
  NoOversleep
  NoCircularWait
PROPERTIES
  ExpiredTimerFires
CHECK_DEADLOCK FALSE
