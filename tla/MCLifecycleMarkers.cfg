CONSTANTS
  Reviews = {"r1"}
  DecisionNames = {"d1"}
  MarkerNames = {"m1"}
  MaxMarkers = 2
SPECIFICATION LifecycleSpec
INVARIANT MarkerIdsAreUnique
CHECK_DEADLOCK FALSE
