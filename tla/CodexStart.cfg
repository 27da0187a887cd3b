SPECIFICATION Spec
CONSTANTS
  Outcomes = {"review"}
  MaxRuns = 1
  MaxTurns = 1
  MaxNotes = 1
  MaxUse = 1
  Capacity = 2
  StallDetection = FALSE
CHECK_DEADLOCK FALSE
PROPERTY StartAnswersOrTimesOut
