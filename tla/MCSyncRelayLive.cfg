CONSTANTS
  d1 = d1
  d2 = d2
  Workspaces = {w1}
  Devices = {d1, d2}
  EventIds <- MCEventIds
  Origin = 9
  MaxPosition = 3
  Sequences <- MCSequences
  MaxBatch = 2
  MaxLimit = 2
  LocalEvents <- MCLocalEvents
  PageSize = 1
  InFlight = 2
  PerDevice = 1
  Backlog = 1
SPECIFICATION RelaySpec
PROPERTIES
  Converges
