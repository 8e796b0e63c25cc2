SPECIFICATION FairSpec
CONSTANTS
  Count = 3
  Kind <- ChainKind
  Root <- ChainRoot
INVARIANTS
  TypeOK
  StrictGateMeansRestored
PROPERTIES
  TurnComes
