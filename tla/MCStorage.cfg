SPECIFICATION Spec
CONSTANTS
  Capacity = 3
  BITS_PER_CHUNK = 2
  SizeOfT = 2
  Storage = 1
  RingCapacity = 4
  ByteBits = 1
  Widths = {1, 2, 4}
  TypeBits = 4
  FixedFunctions = {f, g, h}
  Callables = {c, d}
  Nothing = nothing
INVARIANTS
  TypeOK
  ExtractedBytes
  CallablesOwned
PROPERTIES
  PoolPromiseSpec
  RingPromiseSpec
