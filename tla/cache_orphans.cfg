\* Two lifecycles and a native boot, three starts, two kills or failures.
SPECIFICATION FairSpec
CONSTANTS
  Lifecycles = 2
  Natives = 1
  Stages = 1
  MaxRuns = 3
  MaxFaults = 2
\* The phase stops for good when all cases are attempted.
CHECK_DEADLOCK FALSE
INVARIANTS
  TypeOK
  EmptiedWithoutServer
  NoStaleTier
  RefusalHasCause
  RowsAreFinal
PROPERTIES
  DeletesOnlyOwned
  AttemptedOrRefused
