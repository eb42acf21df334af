SPECIFICATION OwnersSpec
CONSTANTS
  Callers = {c1, c2}
  Controllers = {c1, c2}
  Worker = w
  NoThread = none
  Threads = {c1, c2, w}
  Intervals = {1, 3, 5}
  IntMax = 3
  MaxTime = 4
  MaxCalls = 2
  Tasks = {f, g}
  NoTask = nothing
  QueueCapacity = 2
  MaxSignals = 2
INVARIANTS
  TypeOK
  UsedObjectsExist
  ShutdownGoesOn
PROPERTIES
  CallsOnTime
  TaskStable
  MainReturns
CHECK_DEADLOCK FALSE
