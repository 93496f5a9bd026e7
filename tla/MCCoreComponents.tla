-------------------------- MODULE MCCoreComponents --------------------------
(* Four components that share no state, one after the other: focus picks    *)
(* the one that runs, the others stay as they began.  The state spaces add  *)
(* up instead of multiplying.  Replicas are all alike, and so are sessions  *)
(* and snapshots by name; the log's digest and the token hash have no       *)
(* collisions.                                                              *)
EXTENDS ReplicaClocks, EventLog, Enrollment, SessionStore, TLC

VARIABLE focus

CONSTANTS r1, r2, r3, s1, s2, n1, n2, h1, h2

MCReplicas == {r1, r2, r3}
MCSessions == {s1, s2}
MCSnapshotNames == {n1, n2}
MCEventNames == {1, 2}
MCHomes == {h1, h2}
MCSymmetry ==
  UNION {Permutations(S) : S \in {MCReplicas, MCSessions, MCSnapshotNames}}

MCDigest(e) == <<e.body, e.sequence, e.previous>>
MCNone == <<>>
MCHash(token) == <<token>>

CoreInit ==
  /\ ReplicaInit /\ LogInit /\ EnrollmentInit /\ SessionInit
  /\ focus \in {"clocks", "log", "enrollment", "sessions"}

CoreNext ==
  \/ focus = "clocks" /\ ReplicaNext /\ UNCHANGED <<logVars, enrollmentVars, sessionVars, focus>>
  \/ focus = "log" /\ LogNext /\ UNCHANGED <<replicaVars, enrollmentVars, sessionVars, focus>>
  \/ focus = "enrollment" /\ EnrollmentNext /\ UNCHANGED <<replicaVars, logVars, sessionVars, focus>>
  \/ focus = "sessions" /\ SessionNext /\ UNCHANGED <<replicaVars, logVars, enrollmentVars, focus>>

CoreSpec ==
  CoreInit /\ [][CoreNext]_<<replicaVars, logVars, enrollmentVars, sessionVars, focus>>
=============================================================================
