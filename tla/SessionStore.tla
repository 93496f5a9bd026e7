---------------------------- MODULE SessionStore ----------------------------
(***************************************************************************)
(* The SDK's in-memory store of workspace sessions                         *)
(* (packages/sdk-js/src/localWorkspaceSessionStore.ts): a snapshot and the *)
(* events of each session, an index from snapshot ids to sessions, and     *)
(* bundles that carry a session from one store to another.                 *)
(*                                                                         *)
(* Calls either throw and change nothing or take effect whole.  A snapshot *)
(* is reduced to its id and its home (workspace and device): the count it  *)
(* carries is looked at in a bundle only.  Metadata, redaction, timestamps *)
(* and the kinds of events are left out.  The cursor of an event is its    *)
(* sequence.                                                               *)
(***************************************************************************)
EXTENDS FiniteSetsExt, Naturals

CONSTANTS
  Sessions, SnapshotNames, EventNames,
  Homes,          \* pairs of a workspace and a device
  MaxSequence     \* bound: the largest sequence

(* Of the ids of events only their order matters.                           *)
ASSUME SessionAssumption == MaxSequence \in Nat /\ EventNames \subseteq Nat

VARIABLES
  sessionEvents,  \* per session: its events
  current,        \* per session: its snapshot, a set of at most one
  sessionOf,      \* per snapshot id: the session the index names, at most one
  shared          \* history: the snapshot ids put for more than one session

sessionVars == <<sessionEvents, current, sessionOf, shared>>

Sequences == 1 .. MaxSequence
Event == [id : EventNames, sequence : Sequences, home : Homes]
Snapshot == [id : SnapshotNames, home : Homes]

(* Mutant: only the event ids are compared.                                 *)
ApartById(e, f) == e.id # f.id

Apart(e, f) == e.id # f.id /\ e.sequence # f.sequence

(* assertUniqueEvents, for the events of one session.                       *)
Distinct(events) == \A e, f \in events : e = f \/ Apart(e, f)

(* createLocalWorkspaceSessionStoreBundle accepts a snapshot and events: the *)
(* events are distinct, at the snapshot's home, and as many as it counts.   *)
BundleOK(snapshot, count, events) ==
  /\ Distinct(events)
  /\ \A e \in events : e.home = snapshot.home
  /\ Cardinality(events) = count

-----------------------------------------------------------------------------
(* Mutant: the replaced snapshot's id is dropped after the new one is set.  *)
IndexedThenCleaned(id, s) ==
  [n \in SnapshotNames |-> IF \E c \in current[s] : c.id = n THEN {}
                           ELSE IF n = id THEN {s} ELSE sessionOf[n]]

(* The entry of the snapshot that is replaced stays in the index.           *)
Indexed(id, s) == [sessionOf EXCEPT ![id] = {s}]

(* Snapshot ids given by a caller: nothing keeps them to one session.       *)
Note(id, s) ==
  shared' = IF \E t \in Sessions \ {s} : t \in sessionOf[id] \/ \E c \in current[t] : c.id = id
            THEN shared \cup {id} ELSE shared

PutSnapshot(s, snapshot) ==
  /\ current' = [current EXCEPT ![s] = {snapshot}]
  /\ sessionOf' = Indexed(snapshot.id, s)
  /\ Note(snapshot.id, s)
  /\ UNCHANGED sessionEvents

(* deleteSnapshot: the events stay; the id leaves the index even where it   *)
(* names another session by now.                                            *)
DeleteSnapshot(s) ==
  /\ current[s] # {}
  /\ sessionOf' = [id \in SnapshotNames |->
                     IF \E c \in current[s] : c.id = id THEN {} ELSE sessionOf[id]]
  /\ current' = [current EXCEPT ![s] = {}]
  /\ UNCHANGED <<sessionEvents, shared>>

(* appendEvents, and appendEvent for one: batch holds the events to add per *)
(* session.  Event ids are unique over the batch; every session's events    *)
(* are compared with those it has before any is added.                      *)
AppendEvents(batch) ==
  /\ \A s \in Sessions :
       /\ Distinct(batch[s])
       /\ \A e \in batch[s], f \in sessionEvents[s] : Apart(e, f)
       /\ \A t \in Sessions \ {s} : \A e \in batch[s], f \in batch[t] : e.id # f.id
  /\ sessionEvents' = [s \in Sessions |-> sessionEvents[s] \cup batch[s]]
  /\ UNCHANGED <<current, sessionOf, shared>>

(* exportSession, of a session that has a snapshot: a new snapshot counts   *)
(* the session's events, and the bundle of the two is checked as any other. *)
(* Where a check fails it throws.                                           *)
Exports(s, c) == BundleOK(c, Cardinality(sessionEvents[s]), sessionEvents[s])

(* listEvents sorts by sequence and then by id ...                          *)
ListedBefore(e, f) ==
  e.sequence < f.sequence \/ (e.sequence = f.sequence /\ e.id < f.id)

(* ... and answers the first limit events after a cursor.                   *)
ListEvents(s, after, limit) ==
  LET later == {e \in sessionEvents[s] : e.sequence > after}
  IN {e \in later : Cardinality({f \in later : ListedBefore(f, e)}) < limit}

(* importSession: the bundle's events replace the session's.                *)
ImportSession(s, snapshot, count, events) ==
  /\ BundleOK(snapshot, count, events)
  /\ sessionEvents' = [sessionEvents EXCEPT ![s] = events]
  /\ current' = [current EXCEPT ![s] = {snapshot}]
  /\ sessionOf' = Indexed(snapshot.id, s)
  /\ Note(snapshot.id, s)

SessionInit ==
  /\ sessionEvents = [s \in Sessions |-> {}]
  /\ current = [s \in Sessions |-> {}]
  /\ sessionOf = [id \in SnapshotNames |-> {}]
  /\ shared = {}

(* Bound: a batch holds at most two events.                                 *)
SessionNext ==
  \/ \E s \in Sessions, snapshot \in Snapshot : PutSnapshot(s, snapshot)
  \/ \E s \in Sessions : DeleteSnapshot(s)
  \/ \E s, t \in Sessions, e, f \in Event :
       AppendEvents([r \in Sessions |-> (IF r = s THEN {e} ELSE {}) \cup (IF r = t THEN {f} ELSE {})])
  \/ \E s \in Sessions, snapshot \in Snapshot, count \in 0 .. MaxSequence :
       \E events \in kSubset(count, {e \in Event : e.home = snapshot.home}) :
         ImportSession(s, snapshot, count, events)

SessionSpec == SessionInit /\ [][SessionNext]_sessionVars

-----------------------------------------------------------------------------
(* Appends, batches and imports check the ids and sequences of events each  *)
(* in their own way; listEvents and exportSession rely on all of them.  A   *)
(* page leaves out nothing between the cursor it was asked for and its last *)
(* event, so a reader that goes on from there misses no stored event; and   *)
(* exportSession throws for no session but one with an event of another     *)
(* home than its snapshot's.  Two events of one sequence would break both:  *)
(* a page may end between them, and the session could never be exported.    *)
SessionsStayUsable ==
  \A s \in Sessions :
    /\ \A after \in 0 .. MaxSequence, limit \in 1 .. MaxSequence :
         \A e \in ListEvents(s, after, limit), f \in sessionEvents[s] :
           after < f.sequence /\ f.sequence <= e.sequence => f \in ListEvents(s, after, limit)
    /\ \A c \in current[s] : Exports(s, c) <=> \A e \in sessionEvents[s] : e.home = c.home

(* getSnapshotById finds the snapshot of every session whose id was only    *)
(* ever put for that session, whatever was replaced or deleted meanwhile.   *)
FoundById ==
  \A s \in Sessions : \A c \in current[s] :
    c.id \notin shared => sessionOf[c.id] = {s}
=============================================================================
