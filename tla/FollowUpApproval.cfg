SPECIFICATION Spec
CONSTANTS
  h1 = h1
  c1 = c1
  c2 = c2
  HumanThreads <- NoHuman
  CodexThreads <- TwoCodex
  ThreadOrder <- OrderCodex
  MaxReaction = 2
  None = None
INVARIANT ApprovalRecorded
