CONSTANTS
  Workspaces = {w1}
  Devices = {d1}
  EventIds <- MCEventIds
  Origin = 9
  MaxPosition = 3
  Sequences <- MCSequences
  MaxBatch = 1
  MaxLimit = 2
  MaxReplayLimit = 2
  Times <- MCTimes
  MaxCatalog = 3
SPECIFICATION CatalogSpec
INVARIANTS
  PlanForetellsUpload
  ReportAgreesWithImport
  DamagedCatalogsAreRefused
  DamageShowsInReplay
PROPERTIES
  PlansLandAsForetold
