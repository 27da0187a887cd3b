SPECIFICATION FairSpec
CONSTANTS
  i1 = i1
  i2 = i2
  Issues <- OneIssue
  Rank <- MCRank
  BlockedBy <- NoBlockers
  ActiveOrder <- TwoActive
  PublishStates = {"Review"}
  MergeStates = {"Merge"}
  TerminalStates = {"Done"}
  ParkedStates = {"Refine"}
  RefineState = "Refine"
  TodoState = "Todo"
  PostMergeState = "Done"
  StateLimit <- MergeOne
  Limits = {0, 1}
  HumanTargets = {"Todo", "Review", "Merge"}
  HoldIssues <- OneIssue
  ChanCap = 1
  MaxRestarts = 0
  NoState = NoState
  NoEntry = NoEntry
INVARIANTS
  WorkerBehindEntry
PROPERTIES
  ActiveWorkIsPickedUp
CHECK_DEADLOCK FALSE
