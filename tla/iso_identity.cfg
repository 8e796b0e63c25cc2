SPECIFICATION FairSpec
CONSTANTS
  Pids <- TwoPids
  MaxBirths = 3
  Strict = TRUE
  ReuseInSample = FALSE
  QueriesMayFail = TRUE
INVARIANTS
  AdoptedAreOurs
PROPERTIES
  ForeignCaught
