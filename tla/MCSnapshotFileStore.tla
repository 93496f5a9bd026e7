------------------------- MODULE MCSnapshotFileStore -------------------------
(* Two processes that lock and one that does not, racing to create one      *)
(* snapshot with two contents.  The lockers are alike and so are the        *)
(* contents: no property of the safety run tells them apart.                *)
EXTENDS SnapshotFileStore, TLC

CONSTANTS p1, p2, p3, r1, r2

MCProcesses == {p1, p2, p3}
MCLocking == {p1, p2}
MCRecords == {r1, r2}
MCSymmetry == Permutations({p1, p2}) \cup Permutations({r1, r2})
=============================================================================
