---------------------------- MODULE VectorClock ----------------------------
(***************************************************************************)
(* Vector clocks and conflict classification                               *)
(* (crates/sovereign_core/src/sync.rs).  A clock is a map from replicas to *)
(* positive counters; a replica the map does not hold counts as zero.      *)
(***************************************************************************)
EXTENDS Integers

CONSTANTS
  Replicas,
  MaxCounter   \* the largest counter (u64::MAX in the code)

ASSUME ClockAssumption == MaxCounter \in Nat \ {0}

Clock == UNION {[S -> 1 .. MaxCounter] : S \in SUBSET Replicas}

EmptyClock == [r \in {} |-> 1]

Get(c, r) == IF r \in DOMAIN c THEN c[r] ELSE 0

(* Mutant: of several counters for one replica any one is kept.             *)
FromCountersAny(pairs) ==
  [r \in {p[1] : p \in {q \in pairs : q[2] > 0}} |->
     CHOOSE n \in {p[2] : p \in {q \in pairs : q[1] = r /\ q[2] > 0}} : TRUE]

(* from_counters: zeros are dropped, of several counters for one replica    *)
(* the highest is kept.  pairs is the set of pairs the iterator yields.     *)
FromCounters(pairs) ==
  [r \in {p[1] : p \in {q \in pairs : q[2] > 0}} |->
     CHOOSE n \in {p[2] : p \in {q \in pairs : q[1] = r}} :
       \A p \in pairs : p[1] = r => p[2] <= n]

(* increment is refused when the counter cannot grow.                       *)
CanIncrement(c, r) == Get(c, r) < MaxCounter

Increment(c, r) ==
  [x \in DOMAIN c \cup {r} |-> IF x = r THEN Get(c, r) + 1 ELSE c[x]]

(* Mutant: the other clock's counters replace this one's.                   *)
MergedOver(c, d) ==
  [r \in DOMAIN c \cup DOMAIN d |-> IF r \in DOMAIN d THEN d[r] ELSE c[r]]

(* merge and merged: the maximum counter of each replica.                   *)
Merged(c, d) ==
  [r \in DOMAIN c \cup DOMAIN d |-> IF Get(c, r) < Get(d, r) THEN Get(d, r) ELSE Get(c, r)]

(* The two flags of compare, and its result.                                *)
HasLower(c, d) ==
  \/ \E r \in DOMAIN c : c[r] < Get(d, r)
  \/ \E r \in DOMAIN d \ DOMAIN c : d[r] > 0

HasHigher(c, d) == \E r \in DOMAIN c : c[r] > Get(d, r)

(* Mutant: replicas that only the other clock holds are passed over.        *)
CompareOwn(c, d) ==
  LET lower == \E r \in DOMAIN c : c[r] < Get(d, r)
  IN CASE ~lower /\ ~HasHigher(c, d) -> "Equal"
       [] lower /\ ~HasHigher(c, d) -> "Before"
       [] ~lower /\ HasHigher(c, d) -> "After"
       [] OTHER -> "Concurrent"

Compare(c, d) ==
  CASE ~HasLower(c, d) /\ ~HasHigher(c, d) -> "Equal"
    [] HasLower(c, d) /\ ~HasHigher(c, d) -> "Before"
    [] ~HasLower(c, d) /\ HasHigher(c, d) -> "After"
    [] OTHER -> "Concurrent"

-----------------------------------------------------------------------------
ChangeKind == {"Create", "Update", "Delete", "PermissionChange", "SchemaChange"}

EditLike == {"Create", "Update", "SchemaChange"}

(* Mutant: schemas are compared only where the clocks are concurrent.       *)
ConflictKindLateSchema(a, b) ==
  CASE a.object # b.object -> "NoConflict"
    [] Compare(a.clock, b.clock) # "Concurrent" -> "NoConflict"
    [] a.schema # b.schema -> "SchemaMismatch"
    [] "PermissionChange" \in {a.kind, b.kind} -> "PermissionChange"
    [] (a.kind = "Delete") # (b.kind = "Delete") -> "DeleteUpdate"
    [] OTHER -> "ConcurrentEdit"

(* classify_conflict, with the order of its checks.                         *)
ConflictKind(a, b) ==
  IF a.object # b.object THEN "NoConflict"
  ELSE IF a.schema # b.schema THEN "SchemaMismatch"
  ELSE IF Compare(a.clock, b.clock) # "Concurrent" THEN "NoConflict"
  ELSE IF "PermissionChange" \in {a.kind, b.kind} THEN "PermissionChange"
  ELSE IF (a.kind = "Delete") # (b.kind = "Delete") THEN "DeleteUpdate"
  ELSE IF {a.kind, b.kind} \subseteq EditLike THEN "ConcurrentEdit"
  ELSE "NoConflict"
=============================================================================
