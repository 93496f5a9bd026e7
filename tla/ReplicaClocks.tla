--------------------------- MODULE ReplicaClocks ---------------------------
(***************************************************************************)
(* Replicas that stamp their changes with the vector clocks of             *)
(* crates/sovereign_core/src/sync.rs and merge the clocks of the changes   *)
(* they receive, in any order and any number of times.  The core has the   *)
(* clocks and the classifier; replicas and their messages are its use.     *)
(*                                                                         *)
(* The history of a change is the set of changes its author knew of, by    *)
(* itself or through others, when it made it.                              *)
(***************************************************************************)
EXTENDS VectorClock, FiniteSets

CONSTANTS
  Objects, Schemas,
  MaxChanges   \* bound: changes made in all

VARIABLES
  clock,    \* the clock of each replica
  known,    \* history: the ids of the changes behind each replica's clock
  changes   \* every change made, with the ids it was made in knowledge of

replicaVars == <<clock, known, changes>>

(* A replica makes a change: it increments its counter and stamps the       *)
(* change with its clock.  What the change does to which object is chosen   *)
(* where changes are compared.                                              *)
Change(r) ==
  /\ Cardinality(changes) < MaxChanges
  /\ CanIncrement(clock[r], r)
  /\ LET c  == Increment(clock[r], r)
         id == <<r, c[r]>>
     IN /\ clock' = [clock EXCEPT ![r] = c]
        /\ changes' = changes \cup {[id |-> id, clock |-> c, past |-> known[r]]}
        /\ known' = [known EXCEPT ![r] = @ \cup {id}]

(* A replica receives a change, perhaps late, perhaps again.                *)
Receive(r, m) ==
  /\ clock' = [clock EXCEPT ![r] = Merged(@, m.clock)]
  /\ known' = [known EXCEPT ![r] = @ \cup m.past \cup {m.id}]
  /\ UNCHANGED changes

(* A replica restarts from the rows of counters it has kept, an older row   *)
(* beside a newer one: from_counters rebuilds the clock.                    *)
Rows(c) == {row \in Replicas \X (0 .. MaxCounter) : row[2] <= Get(c, row[1])}

Restart(r) ==
  /\ clock' = [clock EXCEPT ![r] = FromCounters(Rows(@))]
  /\ UNCHANGED <<known, changes>>

ReplicaInit ==
  /\ clock = [r \in Replicas |-> EmptyClock]
  /\ known = [r \in Replicas |-> {}]
  /\ changes = {}

ReplicaNext ==
  \/ \E r \in Replicas : Change(r) \/ Restart(r)
  \/ \E r \in Replicas, m \in changes : Receive(r, m)

ReplicaSpec == ReplicaInit /\ [][ReplicaNext]_replicaVars

-----------------------------------------------------------------------------
Ids == Replicas \X (1 .. MaxCounter)

(* Clocks hold positive counters only, and every replica's counter counts   *)
(* exactly its own changes.                                                 *)
ReplicaTypeOK ==
  /\ clock \in [Replicas -> Clock]
  /\ known \in [Replicas -> SUBSET Ids]
  /\ \A m \in changes : m.id \in Ids /\ m.clock \in Clock /\ m.past \in SUBSET Ids

(* A clock is a set of changes: the counters of a replica's clock, and of a *)
(* change's, are exactly what it was made in knowledge of.                  *)
Covered(c) == {id \in Ids : id[2] <= Get(c, id[1])}

ClocksAreHistories ==
  /\ \A r \in Replicas : Covered(clock[r]) = known[r]
  /\ \A m \in changes : Covered(m.clock) = m.past \cup {m.id}

(* compare decides causality: a change is Before another exactly when that  *)
(* one was made in knowledge of it, and Concurrent exactly when neither was.*)
CompareIsCausality ==
  \A a, b \in changes :
    Compare(a.clock, b.clock) =
      CASE a.id = b.id -> "Equal"
        [] a.id \in b.past -> "Before"
        [] b.id \in a.past -> "After"
        [] OTHER -> "Concurrent"

(* What a change may do: classification depends on nothing else of it.      *)
Content == [object : Objects, schema : Schemas, kind : ChangeKind]
With(m, x) == [object |-> x.object, schema |-> x.schema, kind |-> x.kind, clock |-> m.clock]

(* No race is lost: two changes of one object made without knowledge of     *)
(* each other are classified as a conflict, by both replicas as the same    *)
(* one, unless both delete it; and those made in knowledge of each other    *)
(* only when they disagree on the schema.                                   *)
RacesAreConflicts ==
  \A a, b \in changes, x, y \in Content :
    LET kind == ConflictKind(With(a, x), With(b, y))
        race == a.id # b.id /\ a.id \notin b.past /\ b.id \notin a.past
    IN /\ kind = ConflictKind(With(b, y), With(a, x))
       /\ kind # "NoConflict" <=>
            /\ x.object = y.object
            /\ x.schema # y.schema \/ (race /\ {x.kind, y.kind} # {"Delete"})
=============================================================================
