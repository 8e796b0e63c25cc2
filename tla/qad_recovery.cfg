SPECIFICATION Spec
CONSTANTS
  Last = 5
  TailFrom = 3
  MaxInterrupts = 2
INVARIANTS
  LedgerEarned
  EvidenceSurvives
  StaleOnly
