CONSTANTS
  g1 = g1
  Groups = {g1, g2}
  Evaluators = {e1, e2}
  Required = 2
  Interval = 4
  CallsPerCycle = 2
  CycleSpan = 1
  MaxGap = 6
  SameGroupOverlap = FALSE
  OutsideEvaluations = FALSE
  StoreErrors = FALSE
  TornReads = TRUE
  NearBasis = FALSE
  NoRow = NoRow
  NoFile = NoFile
SPECIFICATION MCSpec
PROPERTIES
  FiresOnDistinctCyclesInTurn
  PersistentTriggerFiresInTheEnd
