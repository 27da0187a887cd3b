SPECIFICATION Spec
CONSTANTS
  t1 = t1
  t2 = t2
  Threads <- MCThreads
  ActiveOrder <- MCActive
  ReviewState = "Review"
  OtherStates = {"Done"}
  HumanTargets = {"Todo"}
  MaxTurns = 1
  Tasks = 1
  CreateExecPlan = FALSE
  NoPlan = NoPlan
  Unreadable = Unreadable
  NoThread = NoThread
PROPERTY AddressedThreadsOnly
