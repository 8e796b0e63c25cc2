SPECIFICATION Spec
CONSTANTS
  c1 = c1
  c2 = c2
  b1 = b1
  NoCell = NoCell
  Cells = {c1, c2}
  Boots = {b1}
  BootOf <- SharedBoot
  MaxRuns = 2
  MaxDamage = 1
SYMMETRY CellSymmetry
INVARIANTS
  TypeOK
  LedgerIsConsistent
  ReceiptMatchesLedger
  TwoPerRun
PROPERTIES
  CompleteIsEarned
