SPECIFICATION FairSpec
CONSTANTS
  Callers = {c}
  Loop = loop
  Nobody = nobody
  Watchers = {w}
  CommandPipe = commandpipe
  kMaxFunctionSize = 2
  kMaxFdWatcherSize = 1
  PipeSize = 2
INVARIANTS
  TypeOK
  NoForgottenFunction
  TerminationIsNoticed
PROPERTIES
  TerminateEnds
  FunctionsRun
CHECK_DEADLOCK FALSE
