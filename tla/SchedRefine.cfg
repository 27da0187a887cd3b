SPECIFICATION Spec
CONSTANTS
  i1 = i1
  i2 = i2
  Issues <- MCIssues
  Rank <- MCRank
  BlockedBy <- NoBlockers
  ActiveOrder <- OneActive
  PublishStates = {"Review"}
  MergeStates = {"Merge"}
  TerminalStates = {"Done"}
  ParkedStates = {"Refine"}
  RefineState = "Refine"
  TodoState = "Todo"
  PostMergeState = "Done"
  StateLimit <- MergeOne
  Limits = {1}
  HumanTargets = {"Todo"}
  HoldIssues = {}
  ChanCap = 2
  MaxRestarts = 0
  NoState = NoState
  NoEntry = NoEntry
PROPERTY RefineHandoffReported
CHECK_DEADLOCK FALSE
