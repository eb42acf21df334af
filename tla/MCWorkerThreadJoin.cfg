SPECIFICATION FairSpec
CONSTANTS
  Callers = {c1, c2}
  Worker = w
  NoThread = none
  CallerOps <- AllOps
  RunOps <- OwnOps
PROPERTIES
  StopRequestsStop
