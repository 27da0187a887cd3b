SPECIFICATION Spec
CONSTANTS
  Callers = {"worker", "loop", "setup"}
  Clients = {"old", "new", "cli"}
  Home <- HomeOf
  Keyed = {}
  Ops <- OpsOf
  NoOne = NoOne
  Undated = {1}
  FirstHooks <- TwoHooks
  MaxTokens = 6
  MaxCalls = 2
  MaxAges = 2
  MaxFaults = 1
PROPERTY CallsTimeOut
CHECK_DEADLOCK FALSE
