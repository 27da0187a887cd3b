SPECIFICATION Spec
CONSTANTS
  Outcomes = {"review"}
  MaxRuns = 2
  MaxTurns = 2
  MaxNotes = 2
  MaxUse = 2
  Capacity = 2
  StallDetection = TRUE
INVARIANTS
  TotalsAreReports
  OutputOfThisTurn
PROPERTIES
  RunEnds
CHECK_DEADLOCK FALSE
