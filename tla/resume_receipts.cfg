SPECIFICATION Spec
CONSTANTS
  Groups = 2
  PlanGroup <- TwoPlans
  CellPlan <- ThreeCells
  LmcacheGroups = {2}
  OverlayGroups = {2}
  MaxRuns = 3
  MaxFresh = 2
  MaxConfigs = 2
INVARIANTS
  TypeOK
  RecordsAreCurrent
  LabelsAreTrue
PROPERTIES
  ResumeKeepsMeasurements
  CompleteIsEarned
CHECK_DEADLOCK FALSE
