SPECIFICATION FairSpec
CONSTANTS
  Reqs = {1, 2, 3}
  Prompt <- ShortLongShort
  MaxOut = 2
  BlockSize = 3
  Blocks = {1, 2, 3}
  Budget = 3
  MaxRunning = 3
  Depth = 2
  Guard = 1
  SpecTokens = 0
  Impatient = {2, 3}
  DropStale = FALSE
  Recompute = TRUE
  MaxFailures = 1
CHECK_DEADLOCK FALSE
PROPERTIES
  GuardedDecodes
  EveryRequestEnds
