CONSTANTS
  Workspaces = {w1, w2}
  Devices = {d1}
  EventIds <- MCEventIds
  Origin = 9
  MaxPosition = 2
  Sequences <- MCSequences
  MaxBatch = 2
  MaxLimit = 2
  MaxReplayLimit = 2
SPECIFICATION Spec
INVARIANTS
  AcceptedOnce
  BatchesTileTheLog
  PagesAreLogSegments
  ReplayIsDownload
PROPERTIES
  ImplementsLog
