SPECIFICATION Spec
CONSTANTS
  T = {x, y}
  capacity = 2
  Threads = {t1, t2, t3}
  Ops <- EveryOp
INVARIANTS
  TypeOK
  NoConsumerForgotten
  NoProducerForgotten
  EndOfStreamReleases
PROPERTIES
  ContractSpec
