SPECIFICATION Spec
CONSTANTS
  t1 = t1
  t2 = t2
  Threads <- MCThreads
  ActiveOrder <- MCActive
  ReviewState = "Review"
  OtherStates = {"Done"}
  HumanTargets = {"Todo", "Done"}
  MaxTurns = 3
  Tasks = 1
  CreateExecPlan = TRUE
  NoPlan = NoPlan
  Unreadable = Unreadable
  NoThread = NoThread
PROPERTIES
  PlanGate
  ReviewHasDiff
  AnsweredBeforeReview
  RunEnds
