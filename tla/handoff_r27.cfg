SPECIFICATION Spec
CONSTANTS
  Count = 4
  Kind <- ResumedKind
  Root <- ResumedRoot
INVARIANTS
  R27GateMeansRestored
