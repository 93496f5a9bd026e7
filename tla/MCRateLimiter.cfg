CONSTANTS
  Workspaces = {w1}
  Devices = {d1}
  Anonymous = anonymous
  Capacity = 2
  WindowMs = 2
  MaxCost = 3
  MaxTime = 3
SPECIFICATION RateSpec
INVARIANTS
  CapacityHeld
  RetryAfterIsHonest
