SPECIFICATION Spec
CONSTANTS
  PhaseCount = 3
  MaxSignals = 2
  SignalPoints <- CoveredPoints
  DockerMayFail = TRUE
  InspectMayFail = FALSE
  OrphanClients = FALSE
  MaxLost = 1
  InitialTest = {"absent", "stopped", "unowned"}
INVARIANTS
  NoOverlap
  RestoreReceiptHonest
PROPERTIES
  CleanSlatePerPhase
  LeaseHonoured
