SPECIFICATION Spec
CONSTANTS
  i1 = i1
  i2 = i2
  Issues <- MCIssues
  Rank <- MCRank
  BlockedBy <- SecondBlocked
  ActiveOrder <- OneActive
  PublishStates = {"Review"}
  MergeStates = {"Merge"}
  TerminalStates = {"Done"}
  ParkedStates = {"Refine"}
  RefineState = "Refine"
  TodoState = "Todo"
  PostMergeState = "Done"
  StateLimit <- MergeOne
  Limits = {2}
  HumanTargets = {"Todo", "Merge"}
  HoldIssues = {}
  ChanCap = 1
  MaxRestarts = 1
  NoState = NoState
  NoEntry = NoEntry
INVARIANTS
  ClaimsExact
  TimerBehindRetry
  MergeSerialized
PROPERTIES
  ImplementsClaims
CHECK_DEADLOCK FALSE
