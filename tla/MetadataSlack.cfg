SPECIFICATION MetaSpec
CONSTANTS
  d1 = d1
  d2 = d2
  s1 = s1
  u1 = u1
  u2 = u2
  Bases <- TwoBases
  Active = {"Todo"}
  Passive = {}
  Terminal = {"Done"}
  MaxMessages = 2
  Deliveries <- TwoDeliveries
  Announced <- OneEach
  Sessions <- OneSession
  Faults = 0
  NoState = NoState
  NoSession = NoSession
  NoBase = NoBase
CHECK_DEADLOCK FALSE
INVARIANTS
  OneMessage
