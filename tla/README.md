# SovereignOps: a TLA+ verification project

SovereignOps is a local-first workspace system: devices keep event logs and
exchange them through a small sync relay, agents reach local tools through an
MCP gateway that a person reviews, and workspaces, sessions, backups and drafts
are kept in local stores.  This directory models the parts of it that keep state
and that more than one party, call or release drives, checks them with TLC on
small instances, and proves the main results with TLAPS for all of them.

Every module names the source file it follows; `PROJECT.json` maps every
definition to its lines.

## 1. Inventory

Paths are relative to the repository.  *Hard* is what makes a component
difficult to test; *correct* is what it is asked for here.

| Component | State | Operations | Hard | Correct |
|---|---|---|---|---|
| Sync repository `services/sync/src/{cursors,bundles,repository}.ts` | per workspace: cursor, batches, events, index of ids | `upload`, `listAfter`, `getCursor` | four stores written one by one; exception half way through a batch; racing base cursors | one append-only log of distinct ids; cursor is its head; pages are its segments |
| Sync handlers `services/sync/src/http.ts` | none of their own | bundle upload, bundle download, cursor status | lost receipts, repeated and overtaken messages | a device's view is a prefix of the log; everybody converges |
| Rate limiter `services/sync/src/rateLimit.ts` | windows per subject | `take`, `reset` | pruning other subjects, clock stepping back | capacity per window; honest retry time |
| Replay `services/sync/src/replay.ts` | none | `replayAcceptedEvents`, integrity codes | an order of its own beside the log's | agrees with downloads; notices damage |
| Event catalogs `services/sync/src/{eventCatalog,catalogImport,catalogAcceptance}.ts` | none (plans are values held by callers) | create, validate, plan, reconcile, import, report | three judges of one catalog; plans grow old | what is foretold happens, or nothing does |
| Enrollment `services/sync/src/{devices,invites}.ts` | devices, invites | register, report last seen, suspend, remove, invite, accept, sweep | all times are the callers' | an invite is used once; revocation sticks |
| Snapshot file store `apps/api/src/workspaceSessionStoreFileAdapter.ts` | files, temporary files, a lock file | `create`, `get`, `list` | processes, kills, I/O errors, power loss | answers are true; records immutable |
| Bundle file store `packages/sdk-js/src/localWorkspaceSessionFileStore.ts` | one file, temporary files, a lock file | `writeBundle`, `readBundle`, `deleteBundle`, with and without the lock | a lock whose contents fail to be written; renames and deletes overlapping reads | one cell holding a whole bundle or none |
| Session store `packages/sdk-js/src/localWorkspaceSessionStore.ts` | snapshot and events per session, index of snapshot ids | put, get, delete, append one or many, export, import | three ways to check uniqueness; stale index entries | paging loses no event, and only a foreign home blocks an export; a snapshot is found by its id |
| Event compaction `packages/event-compaction/src/index.ts` | none (plans and checkpoints are values) | plan ranges, dry run, verify a checkpoint | gaps, size limits, late and lost events | ranges cut the runs; a verified checkpoint vouches for its prefix |
| Workspace store `packages/workspace-store/src/index.ts` | metadata, registry of steps | plan and run migrations | releases add steps; guarded steps | migrating in stages is migrating at once |
| Workspace backup `packages/workspace-backup/src/index.ts` | manifests held by callers | evaluate the retention policy | verdicts are carried out later | what must be kept is there |
| Plugin sandbox `packages/plugin-sdk/src/sandbox.ts` | ticks, audit of a run | context calls, tick, finish | errors a plugin catches; calls after the result | a run that ends well has its whole audit |
| Review records `apps/api/src/{mcpApprovalEvidenceRecordRoutes,pluginReviewArtifactRecordRoutes}.ts` | stored records | create (awaits a preview), list by pages | creates overlap, offsets move | a reader of all pages sees every record there was |
| Lifecycle review `apps/web/src/lifecycleReview.ts` | reviews, decisions, redaction markers | add, decide, mark, resolve | order of blockers and decisions | an approval never stands with one open |
| Tasks `apps/web/src/tasks.ts` over `localStore.ts` | task records, task events | create, update, set status | whole records written back after an await | the events tell the task |
| Document drafts `apps/web/src/documents.ts` over `localStore.ts` | editor, stored drafts | edit, save, load, create | answers that meet an editor that moved on | clean means saved |
| Approval sessions `services/mcp-gateway/src/approvalSessions.ts` | map of sessions, sequence | create, list, get, approve, reject, expire | lazy expiry, several clock readings per call | a session ends once, in time; only the stale expire |
| Gateway runtime `services/mcp-gateway/src/{runtime,toolAdapter,adapter,auditEmitter}.ts` | sessions, tool audit sink, collected records, calls in flight | `callTool`, `readResource` | calls interleave at every await | handlers only where policy allows; each refusal names its session; audit agrees |
| Core clocks `crates/sovereign_core/src/sync.rs` | vector clocks | increment, merge, compare, classify | late, repeated, transitive deliveries; counter limit | compare is causality; no race is lost |
| Core event log `crates/sovereign_core/src/event_log.rs` | list of envelopes | append, tip | stale drafts, clones | a hash chain whose tip speaks for all of it |

How they interact.  The sync handlers call the repository and the limiter
(`take` before validation on a preliminary subject, then on the validated one);
replay and catalogs read what the repository stored, and catalog imports end in
`upload`.  The gateway runtime puts sessions of the approval store into the
answers of its policies and reads audit records back from its adapters.  The
two file stores are shared by processes through the file system only.  Tasks and
drafts share the web app's local store but not a record of it.  The other
components do not call each other: an application hands the value one returns
to the next.  The core crate is a library nothing in the repository drives yet,
so replicas and writers are its environment.

### Not modelled, and why

The mapped lines are a small share of the repository's ~194,000, and modelling
more of it faithfully would not raise it much: most of the rest keeps no state.
It is validators and schemas, API clients with one request and one answer,
view states that reshape one service answer, fixtures, and command lines that
replay fixtures.  Component by component (also in `PROJECT.json`):

- gateway registry, resources and policy: tables filled at start and lookups;
  a policy's ruling is an environment choice in ToolGateway, which is more than
  any of these policies does.
- gateway protocol, audit replay and evidence: shaping and checking of JSON
  documents; a replay checks one list against itself and keeps nothing.
- the rest of the HTTP API: routing and shaping.  SDK clients: one call, one
  answer.
- plugin manifests and reviews: shape checks and digests.
- storage negotiation, backup manifests and restore plans: pure dry-run
  documents beside the parts of those packages that are modelled.
- schemas, observability, audit export, path security, evidence: pure checks
  and formatting.  The command line prints plans; its imports are dry runs.
- automation rules: dry runs over one input.  Core policy, objects, search,
  crypto, manifest: value types and pure single-threaded functions.
- ingest (Python): parsers from files to documents.
- the other web panels and the desktop shell: views of one service answer.
- scripts, examples, docs: not part of the program.

A restart of the relay is not modelled either.  The store is in memory by
design, nothing in the code handles or promises a restart, and there is nothing
to ask of it.

The properties over the web app's records (`EventsTellTheTask`,
`CleanMeansSaved`) and the bundle lock (`LockIsHeldOrBlamed`) each excuse one
thing the code does as it stands, recorded in a history variable: an update that
writes back a status changed since it read it, an answer that finds the editor
moved on, a lock whose holder was killed or whose file system failed.  They do
not claim that these cannot happen; they say that nothing else leads there.

## 2. Plan

Modules in order of importance.  Done:

1. `Cursors`, `SyncLog`, `SyncRepository`: the log, and what it promises.
2. `SyncRelay`: devices and the network around it; liveness.
3. `RateLimiter`.
4. `Replay`, `SyncReplay`, `CatalogImport`.
5. `SnapshotFileStore`; `BundleRegister` and `BundleFileStore`.
6. `ApprovalSessions`, `ToolGateway`.
7. `VectorClock`, `ReplicaClocks`; `EventLog`; `Enrollment`; `SessionStore`.
8. `Compaction`, `Migrations`, `BackupRetention`, `PluginSandbox`,
   `ReviewRecords`, `LifecycleReview`, `WebTasks`, `MarkdownDrafts`.
9. Proofs of every invariant and action property the passing runs check, and of
   both refinements; `Converges`, a liveness property, is the only one left to
   TLC.

Left, in this order:

1. *AuditReplay* over the records of ToolGateway: what a reader of the audit
   concludes against what happened.  `compareAuditReplayEntries` sorts by time
   stamp and then by id as text, so records of one millisecond may change places.
2. Core policy decisions and object transitions, and automation rules, as
   functions against reference definitions.

Abstract specifications: `SyncLog` (an append-only log of distinct ids, shown
to be what the repository and the relay implement) and `BundleRegister` (a cell
whose calls take effect once, shown to be what the bundle file store
implements).  Worth having: a register per id that the snapshot file store implements.

## 3. Modules and the code

| Module | Models | State |
|---|---|---|
| `Cursors` | `cursors.ts`: positions and ids, order, advance, the bound on positions | - |
| `SyncLog` | abstract: logs of ids, batches appended whole | `log` |
| `SyncRepository` | `upload` in the order of its early returns, `selectDownloadWindow` | `cursor`, `batches`, `events`, `eventsById`: the fields of `WorkspaceState` |
| `SyncRelay` | the three handlers; `SendUpload`, `SendDownload`, `Receive`, loss and repetition are devices and network | + `requests`, `replies`, `held`, `applied` |
| `Replay`, `SyncReplay` | replay windows and integrity codes; replay beside download | - |
| `CatalogImport` | catalogs, plans, reports; a plan is held while others upload | + `held`, the plan a caller holds |
| `RateLimiter` | `take` with pruning, `reset`, the clock | `windows`, `now`; histories `spent`, `denial` |
| `Enrollment` | `devices.ts`, `invites.ts`; every call carries any time | `devices`, `invites`; history `joined` |
| `SnapshotFileStore` | one action per file-system call of `create`, `get` | `files`, `unsynced`, `temps`, `lock`, per-process `pc`, `job`; history `told` |
| `BundleRegister` | abstract: one cell, calls that take effect once | `value`, `calls`, `answers` |
| `BundleFileStore` | one action per file-system call of the three operations and the lock | `bundle`, `bundleLock`, `bundleTemps`, per-caller `at`, `call`, `said`; history `blamed` |
| `SessionStore` | every call of the in-memory store, each whole or without effect | `sessionEvents`, `current`, `sessionOf`; history `shared` |
| `Compaction` | planning and verification over a stream that changes between calls | `stream`, `checkpoints` |
| `Migrations` | plan and run against a registry that grows | `registry`, `metadata` |
| `BackupRetention` | the evaluation, and sweepers that carry it out one by one | `backups`, `day`, `policy`, `doomed` |
| `PluginSandbox` | the calls of one run, catching, and calls after the result | `audit`, `ticks`, `thrown`, `result`; history `calls` |
| `ReviewRecords` | creates around their await, a reader of pages | `stored`, `moment`, `posts`, `reading` |
| `LifecycleReview` | every transition of the review state | `reviews`, `decisions`, `markers` |
| `WebTasks` | a step from one await of a call to the next | `task`, `puts`, `taskEvents`, `taskCall`; history `reverted` |
| `MarkdownDrafts` | reducer actions; saves and loads whose answers arrive later | `editor`, `dirty`, `drafts`, `draftCall`; history `stray` |
| `ApprovalSessions` | the store; a call's clock readings may differ | `now`, `sequence`, `sessions` |
| `ToolGateway` | a step from one await to the next | + `stage`, `ruling`, `trail`, `toolAudit`, `collected` |
| `VectorClock` | `sync.rs` as operators on functions | - |
| `ReplicaClocks` | replicas that use them | `clock`, histories `known`, `changes` |
| `EventLog` | `append` and its checks; drafts, clones | `logs`, `draft` |
| `Sorting` | `Array.sort` and `Array.filter` as the modules use them | - |
| `DataLemmas` | lemmas about numbers, finite sets, sorting and recursion | - |
| `*Proofs` | theorems about the modules they extend | - |
| `MC*` | constants and symmetry for TLC | - |

Composition.  `SyncRelay` and `CatalogImport` extend `SyncRepository`;
`ToolGateway` extends `ApprovalSessions`.  `MCCoreComponents` and
`MCApplications` put components that share nothing into one run each: a
variable `focus`, chosen at the start, says which of them runs while the others
stay initial, so that their state spaces add up.  That is a saving of runs and
says nothing about the components together.

Abstractions that matter.  Event ids are ranks, because the code only compares
their text.  SHA-256 is taken to be injective, so a checksum is what it was
computed over; the 64-bit `stable_digest` of the core is *not* assumed to be:
`Digest` is a constant operator, and only `SameTipSameHistory` needs it
injective.  Invite tokens are hashed by a constant operator, without collisions
in the run.  Payloads, labels, reasons and redaction are left out.  Metadata
under migration is its version and the effects the steps have had; fingerprints
are functions of what they cover and left out.  A workspace the repository has
not met is one in its initial state.  Sorting is "the n-th is the one that n - 1
others come before" (`SortedBy`), which is what any sort answers where the order
is total; the code sorts by keys that differ.  A loop over a list is a recursive
function of the number of elements it has taken (`Ranges`, `After`).  The
library's `SetToSortSeq` and `SelectSeq` compute the same as the operators of
`Sorting`, but nothing can be proved about them here.

Names that begin a comment with *Mutant* are changed forms of the definition
below them, kept to show that each property can fail.

## 4. Runs

| Run | Question | Bounds |
|---|---|---|
| `sync_repository` | do the four stores stay in step and implement SyncLog, whatever is uploaded; do pages and replay agree with the log? | 2 workspaces, 3 ids, 2 sequence numbers, 2 positions, batches of 2 |
| `sync_relay` | is a device's view always a prefix, the stale flag exact? | 2 devices, 3 positions, pages of 1, 2 requests and 2 replies under way per device |
| `sync_converges` | does everything arrive everywhere? | as above, one message each way per device |
| `rate_limiter` | capacity and retry time | capacity 2, costs to 3, two windows of 2 ms |
| `catalog_import` | do judges agree, plans land as foretold, damage show? | catalogs to 3 events, windows of 2, 3 positions |
| `snapshot_store` | are answers true and the lock exclusive under kills, errors, power loss? | 2 locking processes, 1 not, 1 id, 2 contents |
| `snapshot_power_loss` | *violated*: torn record after a power loss | the same, power loss only |
| `tool_gateway` | sessions, rulings and audit under every interleaving | any 2 of 2 tool calls and a read, a host session, 2 ids, 2 times |
| `tool_outcome` | *violated*: a call audited as executed and failed | 3 calls |
| `core_components` | clocks, event logs, enrollment, session store | 3 replicas, 4 changes, counters to 2; 2 logs, 2 writers, 3 envelopes; 2 devices, 1 invite, 2 tokens, times 0..2; 2 sessions, 2 snapshots, 2 events, sequences to 2 |
| `applications` | the components of item 8 of the plan, and the bundle file store against its register | see below |
| `lifecycle_markers` | *violated*: a redaction marker stored twice | 1 review, 1 decision, 1 marker name, 2 markers |

`applications`: streams of 4 sequences and 4 ids with ranges of 1 to 3 and
checkpoints from 2; registries of up to 3 steps over versions 1 to 4; 4 backups,
days 0 to 2, 2 sweepers and the policies of `MCPolicies`; runs of 4 sandbox
calls against 4 audit events and 2 ticks; 3 records, 2 overlapping creates,
pages of 1 and 2; 2 reviews with 2 decisions and 2 markers; 2 overlapping task
calls and 3 writes; 2 documents with 2 overlapping draft calls; 2 callers of
the bundle file store, 2 bundles, kills and I/O errors.

Why the bounds are enough.  Workspaces never meet in the repository's code, so
two show that ids may repeat across them and one is enough elsewhere.  Two
positions make a batch of two fit, overflow half way (a batch of two after a
batch of one) and overflow at once.  Two requests under way let one overtake
the other and an accepted one be repeated; the third event lets a device be
behind by more than a page.  The limiter's cost may exceed its capacity, and
its clock may step back over a window's start.  Three catalog events are one
more than a window takes.  Three replicas are what transitive delivery needs,
and a counter of two reaches its limit within four changes.  Two writers and
two logs are what it takes for a draft to be older than the tip and for a
clone to diverge.  Four sequences hold two ranges with a gap between them, or
one range that meets gap and size limit at once.  Three migration steps are a
path of two and a rival to it.  Two calls of each asynchronous kind are one
that is overtaken by the other.  Every bound is a CONSTANT with a name and a
comment.

Deadlock is checked except where the bounds or the code's own last states stop
the system: `tool_gateway`, `tool_outcome`, `core_components`, `applications`,
`lifecycle_markers`.

Symmetry: in `core_components` the replicas, the sessions and the snapshot ids;
in `snapshot_store` the lockers and the contents; in `tool_gateway` the two tool
calls.  They are interchangeable in their modules and in the properties checked
there.  No liveness property is checked under symmetry.

Type invariants, `CursorIsHead`, `PositionsContiguous`, `LogsAreChains`,
`RecordsAreImmutable` and `TakeTouchesOneSubject` are not run: they are proved.

### Fairness

Only `sync_converges` needs it (`Fairness` in SyncRelay).  A device goes on
asking (SF on the sends: room in the network comes and goes); a message sent
again and again is at some time served before it is lost, and a reply that
moves the device on arrives at some time (SF on serving and on advancing, the
usual fair-loss channel); no message stays under way for ever (WF on the
drops).  The handlers themselves hold no lock and await nothing but the
repository, so a request they are given is answered; that clients retry is an
assumption about clients, which are outside the repository.  Nothing is assumed
of the order of messages or of which device wins a race.

### Findings

- `tool_outcome` (code): `toolAdapter.ts` emits `tool_call_executed` before it
  builds the answer in the same `try`; an output that cannot be serialised
  makes the catch branch audit `tool_call_failed` for the same call.  The audit
  then says of one call that it was executed and that it failed.
- `snapshot_power_loss` (doc against code): the guide's
  `write-temp-fsync-rename` strategy promises a flush before commit;
  `writeRecordFile` never calls `fsync`, so a record that was acknowledged can
  be a partial file after a power loss, and `list` throws on it.
- `lifecycle_markers` (code): `addLifecycleRedactionMarker` looks for the id as
  typed among stored ids (`lifecycleReview.ts:515`) and stores it trimmed, so an
  id typed with blanks around it is stored twice; `:766` asserts that this never
  happens and throws on the state.

Behaviour met while modelling, kept in the models:

- A lock file left by a killed process, or by a clean-up that failed, is never
  freed, in either file store.
  Reads of the SDK's store are not locked, where
  `docs/workspace-session-file-store.md:54` speaks of reads and writes.
- An approval can be stamped after the session's expiry, because the store
  reads the clock again (`SessionsEndOnce` asks of the first reading only).
- `createEventReplayCatalog` throws on a catalog longer than a replay window.
- Resource reads whose policy throws reject without leaving an audit record.
- The handlers' repository interface expects refusals as exceptions while the
  in-memory repository returns `ok: false`; no code joins the two.
- `updateTask` can write back a status that changed since it read the record,
  and stores no event that says so (`EventsTellTheTask` names that case).
- `draft.saved` marks the editor clean although it was edited during the save
  (`CleanMeansSaved` names that case).
- A compaction checkpoint made across a gap vouches only for the events it was
  made from.

## 5. Proofs

`tlapm` checks eight modules with proofs to the last leaf.  None assumes more
than the named assumptions on constants that TLC evaluates in the runs, and all
are for any number of devices, calls, ids, events and the like.  Each component
has the same three facts: its invariant holds initially, every step keeps it,
and it implies what is claimed.

**DataLemmas** - the provers cannot apply a theorem about an operator `P(_)`, so
induction is stated over sets: a set of numbers that holds 0 and every successor
holds them all (`NatSetInduction`, `UpToInduction`), and the same for finite sets
that lose a chosen element at a time (`PickInduction`).  Recursive functions exist
because step by step their beginnings do (`RecursionExists`, `PickRecursion`: the
step is itself a function, held as data).  On these rest what `Sorting` answers
(`SortedProperties`, `SortedUnique`, `SelectedExtended`), and quotients.

**SyncRepositoryProofs** - `CursorAssumption` (ids are below the rank of
"origin"), `RepositoryAssumption` (bounds are natural numbers); nothing about
how many workspaces, ids, positions there are.

- `LogInv` = types of the log, `CursorIsHead`, `PositionsContiguous`,
  `AcceptedOnce`.  None of the three is inductive alone: positions are given
  from the cursor, so the log is contiguous only because the cursor is its
  head; and an id stays unique only because the index holds every stored id.
- `AcceptedUploadGrows` states once what an accepted upload does to its
  workspace (`UploadGrows`).  All preservation proofs start from it.
- `RepositoryInv` adds the batches: `Tiled` says that they lie in the log where
  their cursors say.
- `PageIsSegment`: sorting what is behind a cursor gives the log's own segment,
  because positions are contiguous; so a page is a segment, for any limit.
- Theorems: `TypeAlwaysOK`, `CursorIsAlwaysHead`, `PositionsAlwaysContiguous`,
  `AlwaysAcceptedOnce`, `BatchesAlwaysTile`, `PagesAlwaysLogSegments`, and
  `RepositoryImplementsLog`: an accepted upload maps to one `AppendBatch`, all
  else to a stutter.

**SyncRelayProofs** - adds `RelayAssumption`.  `RelayInv` is `LogInv` and, for
everything under way: a download asks from a place of the log, a reply carries
the segment between its two cursors, a device has the segment up to the cursor
it holds.  The log only grows at its end (`Grows`), so what was true of it when
a reply was sent is true when it arrives (`StaysTrue`); a cursor names one place
(`AtPosition`), so a device that stands where a reply begins may take it over.
Theorems: `ViewsAlwaysLogPrefixes`, `StaleFlagAlwaysExact`,
`RelayImplementsLog`.

**CatalogImportProofs** - adds `ReplayAssumption`, `ReplayWorkspaces` (finitely
many, so that all accepted events can be sorted at all) and `CatalogAssumption`
(a catalog's events are uploaded with the sequence numbers 1, 2, ... they are
given).

- Replay sorts by an order of its own; on a contiguous log it is the order of
  positions, so the window behind an issued cursor is the page of the download:
  `ReplayIsAlwaysDownload`.
- `DamageAlwaysShows`: of a log with events lost or held twice, a base or a
  sequence stays whole exactly where nothing is lost but at the end.
- `CatalogInv` is `RepositoryInv`, that stored batches name issued cursors only,
  and that a held plan is the plan of an undamaged catalog.  A ready plan and an
  upload ask the same three questions of the same repository:
  `PlanAlwaysForetells`, `ReportAlwaysAgrees`.  A plan that has grown old is
  refused as a whole unless the cursor has not moved, and then it is the plan
  made now: `PlansAlwaysLandAsForetold`, of every step.
- `DamagedAlwaysRefused`: a damaged catalog that still validates numbers what is
  left 1, 2, ... without a hole, hence is a beginning of what was sent.

**ServiceProofs** - four independent parts.

*Rate limiter* (`RateAssumption`).  `RateInv` joins what the limiter stores with
what was spent in the window (`SpentMatches`) and keeps the last denial inside
its window.  Theorems: `CapacityAlwaysHeld`, `RetryAfterAlwaysHonest`,
`TakesTouchOneSubject`, `LimiterIsTyped`.

*Snapshot file store* (`FileStoreAssumption`).  `FileInv`: who is inside the
lock made the file that is there; an answer is true from the link that decides
it.  Theorems: `LockAlwaysExcludes`, `AnswersAlwaysTrue`, `RecordsStay`.

*Bundle file store* (`BundleAssumption`).  `BundleInv` says for every point of a
call what it holds and what it will answer.  `StoreImplementsRegister` is the
whole refinement: the rename, the unlink or the read that decides is the call's
one effect, every other file-system call a stutter.  Also
`LockAlwaysHeldOrBlamed`.

*Session store* (`SessionAssumption`).  `SessionInv`: a session has at most one
snapshot, and events that differ in id and sequence; every name of a snapshot in
one session only leads to it (`FoundById` is inductive with the types).  Hence
an export can fail at the check of homes only; and of events with sequences of
their own, those listed before an earlier one are among those listed before a
later one, so a page that holds the later holds the earlier:
`SessionsAlwaysUsable`, `AlwaysFoundById`.

**ToolGatewayProofs** - `ApprovalAssumption`, `GatewayAssumption`.
`GatewayInv`: the store's ids are drawn in order; a call not past its policy has
said nothing of running and has no session; a ruling and its session name each other from the step that makes
them.  Reviewing changes no session's subject, so these survive every
interleaving with reviewers.  Theorems: `OnlyAllowedCallsEverRun`,
`RefusalsAlwaysNameTheirSession`; and, of every step, `SessionsAlwaysEndOnce`:
calls leave the sessions there are alone, and a review changes only open ones
that its own reading of the clock lets it.  `TrailInv` adds that the records of
a call in the sink are its trail, in order, whatever lies between them, and that the runtime has collected the trails of answered calls and
nothing of others: `CollectedIsAlwaysTheSink`.

**CoreComponentsProofs** - three independent parts.  *Clocks*
(`ClockAssumption`): the changes behind a clock are closed downwards per
replica, ids are unique, a replica knows its own changes; hence
`ClocksAlwaysHistories`, `CompareAlwaysCausality`, `RacesAlwaysConflicts`.
*Event logs*: `LogsAlwaysChains` assumes nothing of the digest;
`SameTipAlwaysSameHistory` has the hypothesis that no two envelopes share one,
and compares any two logs link by link.  *Enrollment*: an invite's status says
by whom and when it was accepted, and each acceptance is of that one invite;
`InvitesAlwaysSingleUse`, `RevocationAlwaysSticks`, `EnrollmentIsTyped`.

**ApplicationsProofs** - eight independent parts, each under the one assumption
its module names.

- *Lifecycle review.*  `LifecycleInv`: every decision belongs to one review and
  the review to it, statuses are settled, markers name reviews.
  `ApprovedAlwaysClear`.
- *Tasks.*  `TasksInv`: unless a stale write took a change back, the latest event
  about the status, stored or about to be by the call that wrote, names the
  stored status.  When calls are over, all are stored: `EventsAlwaysTellTheTask`.
- *Drafts.*  `DraftsInv`: the revision of whatever is being saved is the one
  stored, and the editor's if it shows that document, unless an answer went
  astray.  `CleanAlwaysMeansSaved`.
- *Sandbox.*  `SandboxInv`: while the audit has room and the run goes on, it tells
  all calls so far; ticks in it never fall.  An audit once full never has room
  again, and its run cannot end well: `GoodRunsAlwaysTellAll`.
- *Review records.*  `RecordsInv`: of what was there when a reader began, whatever
  is listed before its offset it has seen.  Later stamps go to the end of the
  list and earlier ones push records back, never forward past the offset
  (`ListedWithOneMore`): `ReadersAlwaysMissNothing`.
- *Retention.*  `RetentionInv`, the theorem `EvaluationsStayGood`: what a sweeper
  has still to delete, an evaluation made now would name too.  A deletion of one
  such backup therefore is one the code would order now, and leaves the rest
  good: `RetentionAlwaysHolds`, of every step.
- *Compaction.*  `CompactionInv`, the theorem `CheckpointsStayOfTheirEvents`: a
  stream has no two events of one id or sequence, a checkpoint stays that of the
  events it was made from.  The pass over the sorted events is followed by `Cut`:
  after k of them the ranges hold the first k, each within one block, no two
  within the same, the last one up to the k-th event.  A block is a run's start
  and the quotient of the place in the run by the size; where a range begins is
  where one of the two changes (`CutExtended`): `PlansAlwaysCutTheRuns`.  Two
  streams without a gap that end at one sequence and have the same ids in order
  are the same: `CheckpointsAlwaysVouch`.
- *Migrations.*  `MigrationsInv`, the theorem `EffectsAlwaysCounted`: no guarded
  step has taken effect twice.  At most one path leads from one version to
  another, and a path to the target that passes a version is a path there and
  one from there, though with a nearer target fewer steps compete.  So running
  the parts is running the whole: `MigrationsAlwaysCompose`.

What remains with TLC is `Converges`: liveness under fairness is out of the
prover's reach.  What the runs of findings refute (`OneOutcomeAudited`,
`ReadsFindWholeRecords`, `MarkerIdsAreUnique`) is false and has no theorem.
