SPECIFICATION MetaSpec
CONSTANTS
  d1 = d1
  d2 = d2
  s1 = s1
  u1 = u1
  u2 = u2
  Bases <- TwoBases
  Active = {"Todo"}
  Passive = {}
  Terminal = {"Done"}
  MaxMessages = 2
  Deliveries <- TwoDeliveries
  Announced <- TwoReplies
  Sessions <- OneSession
  Faults = 1
  NoState = NoState
  NoSession = NoSession
  NoBase = NoBase
SYMMETRY Symmetry
INVARIANTS
  AnsweredOnce
PROPERTIES
  WriteLands
  OneMessageWhileRunning
CHECK_DEADLOCK FALSE
