SPECIFICATION FairSpec
CONSTANTS
  Callers = {c1, c2}
  Worker = w
  NoThread = none
  CallerOps <- AllOps
  RunOps <- OwnOps
INVARIANTS
  StopNotLost
  JoinIsSound
  IdleIsQuiescent
  WaitersAreServed
PROPERTIES
  StopLeavesIdle
  ContractSpec
  LifeSpec
  RequestedWorkerExits
  LifecycleReleased
