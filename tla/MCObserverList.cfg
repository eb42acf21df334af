SPECIFICATION FairSpec
CONSTANTS
  Threads = {t1, t2, t3, t4}
  Observers = {x, y}
  NoObserver = none
  MaxObservers = 2
  MaxGeneration = 2
INVARIANTS
  SlotsAccounted
  WaiterNoticed
PROPERTIES
  ContractSpec
  RemovalReturns
