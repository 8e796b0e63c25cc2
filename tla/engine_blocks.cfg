SPECIFICATION Spec
CONSTANTS
  Reqs = {1, 2, 3}
  Prompt <- ShortLongShort
  MaxOut = 2
  BlockSize = 3
  Blocks = {1, 2, 3}
  Budget = 3
  MaxRunning = 3
  Depth = 3
  Guard = 1
  SpecTokens = 1
  Impatient = {2}
  DropStale = FALSE
  Recompute = TRUE
  MaxFailures = 1
CHECK_DEADLOCK FALSE
INVARIANTS
  TypeOK
  BlocksAreHeldOnce
  InFlightWritesKept
PROPERTIES
  DeliveredInPlace
  InvalidIsRecomputed
