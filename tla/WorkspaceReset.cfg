SPECIFICATION Spec
CONSTANTS
  i1 = i1
  i2 = i2
  a = a
  b = b
  Loop = Loop
  NoOne = NoOne
  NoBranch = NoBranch
  Issues <- TwoIssues
  Branches <- TwoBranches
  Targets <- OwnOrShared
  Managers = {1, 2}
  Faults = 1
CHECK_DEADLOCK FALSE
PROPERTY NeverReset
