SPECIFICATION PartsSpec
CONSTANTS
  MaxEvent = 4
  EventIds = {"e1", "e2", "e3", "e4"}
  RangeSizes = {1, 2, 3}
  Minimum = 2
  StepIds = {"m1", "m2", "m3"}
  LastVersion = 4
  CurrentSchema = 1
  BackupIds = {1, 2, 3, 4}
  LastDay = 2
  Sweepers = {"w1", "w2"}
  Policies <- MCPolicies
  Reviews = {"v1", "v2"}
  DecisionNames = {"d1", "d2"}
  MarkerNames = {"k1", "k2"}
  MaxMarkers = 2
  TaskCalls = {"t1", "t2"}
  Texts = {"x", "y"}
  MaxPuts = 3
  Documents = {"d1", "d2"}
  Bodies = {"x", "y"}
  DraftCalls = {"q1", "q2"}
  MaxRevision = 3
  MaxAuditEvents = 4
  MaxTicks = 2
  Increments = {1, 2}
  TickBound = 5
  CallBound = 4
  RecordIds = {1, 2, 3}
  Posts = {"o1", "o2"}
  PageSizes = {1, 2}
  LastMoment = 2
  Callers = {"c1", "c2"}
  Bundles = {"b1", "b2"}
  BundleFaults = {"crash", "io"}
INVARIANTS
  PlansCutTheRuns
  CheckpointsVouchForTheirPrefix
  MigrationsCompose
  LockIsHeldOrBlamed
  ApprovedIsClear
  EventsTellTheTask
  CleanMeansSaved
  GoodRunsTellAll
  PagesShowEveryRecord
PROPERTIES
  ImplementsBundleRegister
  RetentionHolds
CHECK_DEADLOCK FALSE
