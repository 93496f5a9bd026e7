CONSTANTS
  p1 = p1
  p2 = p2
  p3 = p3
  r1 = r1
  r2 = r2
  Processes <- MCProcesses
  Locking <- MCLocking
  SnapshotIds = {s1}
  Records <- MCRecords
  Faults = {"crash", "io", "power"}
SPECIFICATION Spec
SYMMETRY MCSymmetry
INVARIANTS
  AnswersAreTrue
  LockExcludes
