CONSTANTS
  Processes = {p1, p2, p3}
  Locking = {p1, p2}
  SnapshotIds = {s1}
  Records = {r1, r2}
  Faults = {"power"}
SPECIFICATION Spec
INVARIANTS
  ReadsFindWholeRecords
