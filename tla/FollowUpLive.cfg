SPECIFICATION FairSpec
CONSTANTS
  h1 = h1
  c1 = c1
  c2 = c2
  HumanThreads <- OneHuman
  CodexThreads <- OneCodex
  ThreadOrder <- OrderTwo
  MaxReaction = 1
  None = None
PROPERTY
  FeedbackAnswered
