SPECIFICATION CoreSpec
CONSTANTS
  r1 = r1
  r2 = r2
  r3 = r3
  s1 = s1
  s2 = s2
  n1 = n1
  n2 = n2
  h1 = h1
  h2 = h2
  Replicas <- MCReplicas
  Objects = {o1, o2}
  Schemas = {1, 2}
  MaxCounter = 2
  MaxChanges = 4
  Logs = {l1, l2}
  Writers = {w1, w2}
  Bodies = {"x", "y", "bad"}
  Malformed = {"bad"}
  None <- MCNone
  Digest <- MCDigest
  MaxLen = 3
  Workspaces = {"w1"}
  Devices = {"d1", "d2"}
  Invites = {"i1"}
  Tokens = {"t1", "t2"}
  Hash <- MCHash
  MaxTime = 2
  Sessions <- MCSessions
  SnapshotNames <- MCSnapshotNames
  EventNames <- MCEventNames
  Homes <- MCHomes
  MaxSequence = 2
SYMMETRY MCSymmetry
INVARIANTS
  ClocksAreHistories
  CompareIsCausality
  RacesAreConflicts
  SameTipSameHistory
  InvitesAreSingleUse
  SessionsStayUsable
  FoundById
PROPERTIES
  RevocationSticks
CHECK_DEADLOCK FALSE
