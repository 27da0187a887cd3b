SPECIFICATION Spec
CONSTANTS
  Works = {"fix", "late"}
  Mine = {"fix"}
  MaxBase = 2
  MaxTurns = 2
  MaxRetries = 2
  Threshold = 3
  Reasons = {"timeout"}
  ReviewsEnabled = TRUE
  PostMerge = "Merged"
  Events = 4
  NoBranch = NoBranch
  NoReason = NoReason
INVARIANTS
  RepairIsReal
  OnePullRequest
  MergedWorkLanded
  LoopStops
PROPERTIES
  BranchOnlyGrows
  MergeSettles
CHECK_DEADLOCK FALSE
