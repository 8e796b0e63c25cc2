SPECIFICATION FairSpec
CONSTANTS
  PhaseCount = 3
  MaxSignals = 2
  SignalPoints <- CoveredPoints
  DockerMayFail = FALSE
  InspectMayFail = FALSE
  OrphanClients = FALSE
  MaxLost = 1
  InitialTest = {"absent", "stopped"}
INVARIANTS
  RestoredAtExit
PROPERTIES
  CoordinatorExits
