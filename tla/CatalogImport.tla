---------------------------- MODULE CatalogImport ----------------------------
(***************************************************************************)
(* Importing an exported catalog of local events into the sync repository  *)
(* (services/sync/src/eventCatalog.ts, catalogImport.ts,                   *)
(* catalogAcceptance.ts).  Planning reads the repository and changes       *)
(* nothing; the batch of a plan may be uploaded much later, when other     *)
(* devices have uploaded in between.                                       *)
(*                                                                         *)
(* A catalog event is its id, workspace, sequence, recording time and the  *)
(* digest of the event before it.  SHA-256 is taken to be injective, so    *)
(* the digest of an event is the event.  The digest of its payload, its    *)
(* redaction metadata and its other fields are not modelled.               *)
(***************************************************************************)
EXTENDS SyncReplay, Functions

CONSTANTS
  Times,        \* the instants events are recorded at
  MaxCatalog    \* bound: events in one catalog

(* A catalog's events, numbered from 1, are uploaded with those numbers.    *)
ASSUME CatalogAssumption ==
  /\ Times \subseteq Nat
  /\ MaxCatalog \in Nat \ {0} /\ 1 .. MaxCatalog \subseteq Sequences

VARIABLE
  held   \* the plan createCatalogImportPlan gave its caller: a set of at most one

cvars == <<cursor, batches, events, eventsById, held>>

-----------------------------------------------------------------------------
(* eventCatalog.ts.  An optional digest is a set of at most one: what it    *)
(* was computed over.                                                       *)

CatalogDigest(w, base, evts) == [workspaceId |-> w, baseCursor |-> base, events |-> evts]

(* Mutant: the digest of the previous event is not compared.                *)
ValidCatalogUnchained(c) ==
  /\ c.events # <<>>
  /\ \A i \in DOMAIN c.events :
       LET e == c.events[i] IN
       /\ e.workspaceId = c.workspaceId
       /\ e.sequence = i
       /\ i > 1 => c.events[i - 1].at <= e.at
       /\ \A j \in 1 .. i - 1 : c.events[j].id # e.id
  /\ c.digest \subseteq {CatalogDigest(c.workspaceId, c.baseCursor, c.events)}

(* validateEventReplayCatalog and validateCanonicalReplayEvents             *)
ValidCatalog(c) ==
  /\ c.events # <<>>
  /\ \A i \in DOMAIN c.events :
       LET e == c.events[i] IN
       /\ e.workspaceId = c.workspaceId
       /\ e.sequence = i
       /\ e.previous = IF i = 1 THEN {} ELSE {c.events[i - 1]}
       /\ i > 1 => c.events[i - 1].at <= e.at
       /\ \A j \in 1 .. i - 1 : c.events[j].id # e.id
  /\ c.digest \subseteq {CatalogDigest(c.workspaceId, c.baseCursor, c.events)}

(* toUploadEvents: the envelopes a catalog becomes, all of one device.      *)
Envelopes(c) ==
  [i \in DOMAIN c.events |-> [id |-> c.events[i].id, workspaceId |-> c.workspaceId,
                              deviceId |-> c.deviceId, sequence |-> c.events[i].sequence]]

(* toSyncedReplayEvents: the same with the cursors they would be given if   *)
(* nothing else were accepted first.                                        *)
SyncedReplay(c) == Accepted(c.baseCursor, Envelopes(c))

(* createEventReplayCatalog throws on a catalog that is valid but too long: *)
(* for a cursor to hold its positions, or for one replay window.            *)
CatalogThrows(c) ==
  \/ ~CanAdvance(c.baseCursor, Len(c.events))
  \/ ~ReplayRequestOk(c.baseCursor, {}, Len(c.events))

CatalogReplay(c) ==
  ReplayWindow(SyncedReplay(c), c.workspaceId, c.baseCursor, {}, Len(c.events))

-----------------------------------------------------------------------------
(* catalogImport.ts *)

(* findLatestWorkspaceCursor: the greatest cursor in the snapshot.          *)
LatestCursor(w) ==
  LET seen == {INITIAL_CURSOR} \cup {batches[w][i].nextCursor : i \in DOMAIN batches[w]}
                               \cup {events[w][i].cursor : i \in DOMAIN events[w]}
  IN CHOOSE latest \in seen : \A other \in seen : ~CursorLess(latest, other)

(* Mutant: a catalog that starts ahead of the log is not noticed.           *)
ReconciliationIssuesPast(c) ==
  LET latest == LatestCursor(c.workspaceId) IN
       (IF CursorLess(c.baseCursor, latest) THEN {"stale_cursor"} ELSE {})
  \cup (IF Ids(c.events) \cap Ids(events[c.workspaceId]) # {}
        THEN {"duplicate_event"} ELSE {})

(* reconcileEventReplayCatalog, the codes of its issues.                    *)
ReconciliationIssues(c) ==
  LET latest == LatestCursor(c.workspaceId) IN
       (IF CursorLess(c.baseCursor, latest) THEN {"stale_cursor"} ELSE {})
  \cup (IF CursorLess(latest, c.baseCursor) THEN {"future_cursor"} ELSE {})
  \cup (IF Ids(c.events) \cap Ids(events[c.workspaceId]) # {}
        THEN {"duplicate_event"} ELSE {})

(* createCatalogImportPlan: what it answers, in the order of its returns.   *)
PlanOutcome(c) ==
  IF ~ValidCatalog(c) THEN "validation_failed"
  ELSE IF CatalogThrows(c) THEN "throws"
  ELSE IF ReconciliationIssues(c) # {} THEN "blocked"
  ELSE "ready"

(* createUploadBatch, and what the plan's summary foretells.                *)
PlanBatch(c) == Body(c.workspaceId, c.deviceId, c.baseCursor, Envelopes(c))
PlanFor(c) == [batch |-> PlanBatch(c), foretold |-> SyncedReplay(c)]

-----------------------------------------------------------------------------
(* catalogAcceptance.ts: createCatalogAcceptanceReport.  Fixture, plan and  *)
(* risks are worked out separately and all three must be ready.             *)
FixtureReady(c) == ValidCatalog(c) /\ CatalogReplay(c).issues = {}
RisksReady(c) == FixtureReady(c) /\ ReconciliationIssues(c) = {}

ReportStatus(c) ==
  IF ValidCatalog(c) /\ CatalogThrows(c) THEN "throws"
  ELSE IF FixtureReady(c) /\ PlanOutcome(c) = "ready" /\ RisksReady(c) THEN "ready"
  ELSE "blocked"

-----------------------------------------------------------------------------
(* Catalogs.  A local log exports its events chained by digests; what is    *)
(* offered for import may have been damaged on the way.                     *)

Exported(w, ids, at) ==
  LET chain[i \in 0 .. Len(ids)] ==
        IF i = 0 THEN {}
        ELSE {[id |-> ids[i], workspaceId |-> w, sequence |-> i, at |-> at[i],
               previous |-> chain[i - 1]]}
  IN [i \in 1 .. Len(ids) |-> CHOOSE e \in chain[i] : TRUE]

Exports(w) ==
  UNION {{Exported(w, ids, at) : ids \in Injection(1 .. n, EventIds), at \in [1 .. n -> Times]}
           : n \in 1 .. MaxCatalog}

(* Untouched, missing an event, with one event twice or two swapped, each   *)
(* as it is or with its events numbered anew.                               *)
Damaged(evts) ==
  LET n == Len(evts)
      Without(k) == [i \in 1 .. n - 1 |-> evts[IF i < k THEN i ELSE i + 1]]
      Swapped(k) == [evts EXCEPT ![k] = evts[k + 1], ![k + 1] = evts[k]]
      damaged == {evts} \cup {Without(k) : k \in 1 .. n}
                        \cup {Append(evts, evts[k]) : k \in 1 .. n}
                        \cup {Swapped(k) : k \in 1 .. n - 1}
  IN damaged \cup {[i \in DOMAIN d |-> [d[i] EXCEPT !.sequence = i]] : d \in damaged}

Catalog(w, d, base, evts, digest) ==
  [workspaceId |-> w, deviceId |-> d, baseCursor |-> base, events |-> evts, digest |-> digest]

Undamaged(w, d) ==
  {Catalog(w, d, base, evts, {CatalogDigest(w, base, evts)}) :
     base \in NamedCursors(w), evts \in Exports(w)}

-----------------------------------------------------------------------------
CatalogInit == Init /\ held = {}

(* A caller keeps the plan for a catalog.                                   *)
Plan(c) ==
  /\ PlanOutcome(c) = "ready"
  /\ held' = {PlanFor(c)}
  /\ UNCHANGED vars

(* It uploads the plan's batch; the plan stays, as a caller that saw no     *)
(* answer would try again.                                                  *)
UploadPlan ==
  /\ \E plan \in held : UploadRequest(plan.batch, plan.batch)
  /\ UNCHANGED held

(* importEventReplayCatalog: plan and upload in one call.                   *)
Import(c) ==
  /\ PlanOutcome(c) = "ready"
  /\ UploadRequest(PlanBatch(c), PlanBatch(c))
  /\ UNCHANGED held

(* A device uploads an event of its own, numbered after those it has in the *)
(* log, on the head of the log.                                             *)
UploadOwn(w, d) ==
  /\ \E id \in EventIds, sequence \in Sequences :
       LET own  == {i \in DOMAIN events[w] : events[w][i].deviceId = d}
           body == Body(w, d, cursor[w], <<[id |-> id, workspaceId |-> w, deviceId |-> d,
                                            sequence |-> sequence]>>)
       IN sequence = Cardinality(own) + 1 /\ UploadRequest(body, body)
  /\ UNCHANGED held

CatalogNext ==
  \/ UploadPlan
  \/ \E w \in Workspaces, d \in Devices :
       \/ UploadOwn(w, d)
       \/ \E c \in Undamaged(w, d) : Plan(c) \/ Import(c)

CatalogSpec == CatalogInit /\ [][CatalogNext]_cvars

-----------------------------------------------------------------------------
(* Planning and uploading decide alike, though the one scans a snapshot of  *)
(* batches and events and the other compares the cursor and the index: a    *)
(* plan that is ready uploads, and a catalog that is blocked would not.     *)
PlanForetellsUpload ==
  \A w \in Workspaces, d \in Devices : \A c \in Undamaged(w, d) :
    /\ PlanOutcome(c) = "ready" => UploadError(PlanBatch(c), PlanBatch(c)) = "none"
    /\ PlanOutcome(c) = "blocked" =>
         UploadError(PlanBatch(c), PlanBatch(c)) \in {"base_cursor_mismatch", "duplicate_event"}

(* The acceptance report, which validates, replays and reconciles a catalog *)
(* three times over, is ready exactly when importing it would be accepted.  *)
ReportAgreesWithImport ==
  \A w \in Workspaces, d \in Devices : \A c \in Undamaged(w, d) :
    ReportStatus(c) = "ready" <=> PlanOutcome(c) = "ready"

(* Whatever was uploaded in between, a held plan either lands as foretold,  *)
(* every event at the cursor the plan's summary gave it, or not at all.     *)
PlansLandAsForetold ==
  [][UploadPlan =>
       \A plan \in held :
         LET w == plan.batch.workspaceId IN
         events'[w] \in {events[w], events[w] \o plan.foretold}]_cvars

(* The digest chain: a damaged catalog is planned only if it is the start   *)
(* of what was exported, and with the catalog's digest only if it is all    *)
(* of it.                                                                   *)
DamagedCatalogsAreRefused ==
  \A w \in Workspaces, d \in Devices : \A sent \in Exports(w) : \A got \in Damaged(sent) :
    LET sealed == {CatalogDigest(w, cursor[w], sent)} IN
    \A digest \in {{}, sealed} :
      PlanOutcome(Catalog(w, d, cursor[w], got, digest)) = "ready" =>
        /\ got = SubSeq(sent, 1, Len(got))
        /\ digest = sealed => got = sent

(* A log that has lost an event, other than at its end, or holds one twice  *)
(* does not replay clean.                                                   *)
DamageShowsInReplay ==
  \A w \in Workspaces :
    \A got \in Damaged(events[w]) :
      ReplayIssues(got, INITIAL_CURSOR) = {} <=>
        \A i \in DOMAIN got :
          i <= Len(events[w]) /\ \E j \in DOMAIN got : got[j].cursor = events[w][i].cursor
=============================================================================
