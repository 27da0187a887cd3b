SPECIFICATION Spec
CONSTANTS
  t1 = t1
  t2 = t2
  Threads <- OneThread
  ActiveOrder <- MCActive
  ReviewState = "Review"
  OtherStates = {"Done"}
  HumanTargets = {"Todo"}
  MaxTurns = 1
  Tasks = 1
  CreateExecPlan = TRUE
  NoPlan = NoPlan
  Unreadable = Unreadable
  NoThread = NoThread
PROPERTY ReviewMeansPlanDone
