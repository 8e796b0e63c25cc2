SPECIFICATION Spec
CONSTANTS
  PhaseCount = 2
  MaxSignals = 2
  SignalPoints <- Points
  DockerMayFail = TRUE
  InspectMayFail = TRUE
  OrphanClients = TRUE
  MaxLost = 1
  InitialTest = {"absent", "stopped", "unowned"}
INVARIANTS
  TypeOK
PROPERTIES
  UnownedUntouched
