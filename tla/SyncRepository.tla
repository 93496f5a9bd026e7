--------------------------- MODULE SyncRepository ---------------------------
(***************************************************************************)
(* The sync service's in-memory bundle repository                          *)
(* (services/sync/src/repository.ts with bundles.ts): devices upload       *)
(* batches of event envelopes, each batch naming the cursor it builds on,  *)
(* and page through what the workspace has accepted.                       *)
(*                                                                         *)
(* Payload, type and time of an envelope are opaque to the repository and  *)
(* left out.  A workspace the repository has not met is one in its initial *)
(* state: #workspace creates exactly that on the first well-formed upload. *)
(***************************************************************************)
EXTENDS Cursors, FiniteSets, TLC

CONSTANTS
  Workspaces, Devices,
  Sequences,    \* the sequence numbers devices give their events
  MaxBatch,     \* bound: events in one upload
  MaxLimit      \* MAX_DOWNLOAD_LIMIT

ASSUME RepositoryAssumption ==
  /\ Sequences \subseteq Nat
  /\ MaxBatch \in Nat \ {0}
  /\ MaxLimit \in Nat \ {0}

VARIABLES
  cursor,       \* WorkspaceState.cursor
  batches,      \* WorkspaceState.batches
  events,       \* WorkspaceState.events
  eventsById    \* WorkspaceState.eventsById: the keys of the map

vars == <<cursor, batches, events, eventsById>>

Envelope == [id : EventIds, workspaceId : Workspaces, deviceId : Devices,
             sequence : Sequences]
SyncedEvent == [id : EventIds, workspaceId : Workspaces, deviceId : Devices,
                sequence : Sequences, cursor : Cursor]

-----------------------------------------------------------------------------
(* Uploads.  A request is a body and the checksum it carries; SHA-256 is    *)
(* taken to be injective, so a checksum is the body it was computed over.   *)

Body(w, d, base, evts) ==
  [workspaceId |-> w, deviceId |-> d, baseCursor |-> base, events |-> evts]

Ids(evts) == {evts[i].id : i \in DOMAIN evts}

EventOrder(left, right) ==
  \/ left.sequence < right.sequence
  \/ left.sequence = right.sequence /\ left.id < right.id

ValidateUploadRequest(body) ==
  LET evts == body.events IN
  /\ evts # <<>>
  /\ \A i \in DOMAIN evts : /\ evts[i].workspaceId = body.workspaceId
                            /\ evts[i].deviceId = body.deviceId
  /\ \A i, j \in DOMAIN evts :
        i < j => EventOrder(evts[i], evts[j]) /\ evts[i].id # evts[j].id

(* Mutant: the base cursor of an upload is not compared.                    *)
OnHeadUnchecked(body) == TRUE

(* Mutant: an upload's events are not looked up in the index.               *)
FreshUnchecked(body) == TRUE

OnHead(body) == body.baseCursor = cursor[body.workspaceId]
Fresh(body) == Ids(body.events) \cap eventsById[body.workspaceId] = {}
Fits(body) == CanAdvance(cursor[body.workspaceId], Len(body.events))

(* What upload answers, in the order of its early returns.  "overflow" is   *)
(* the exception advanceCursor throws before anything has been assigned.    *)
UploadError(body, checksum) ==
  IF ~ValidateUploadRequest(body) THEN "validation_failed"
  ELSE IF checksum # body THEN "checksum_mismatch"
  ELSE IF ~OnHead(body) THEN "base_cursor_mismatch"
  ELSE IF ~Fresh(body) THEN "duplicate_event"
  ELSE IF ~Fits(body) THEN "overflow"
  ELSE "none"

(* toSyncedEvent: every event of a batch with the cursor it is given.       *)
Accepted(base, evts) ==
  [n \in 1 .. Len(evts) |->
     [id          |-> evts[n].id,
      workspaceId |-> evts[n].workspaceId,
      deviceId    |-> evts[n].deviceId,
      sequence    |-> evts[n].sequence,
      cursor      |-> AdvanceCursor(base, [i \in 1 .. Len(evts) |-> evts[i].id], n)]]

(* Mutant: the cursor after a batch is that of its first event.             *)
HeadAfterFirst(accepted) == accepted[1].cursor

(* The cursor advanceCursor has reached when the batch is through.          *)
HeadAfter(accepted) == accepted[Len(accepted)].cursor

StoredBatch(body) ==
  [deviceId   |-> body.deviceId,
   baseCursor |-> body.baseCursor,
   nextCursor |-> HeadAfter(Accepted(body.baseCursor, body.events)),
   eventIds   |-> [i \in 1 .. Len(body.events) |-> body.events[i].id]]

(* upload, accepted: cursor, batch, events and index change together.       *)
Upload(body, checksum) ==
  LET w    == body.workspaceId
      next == Accepted(cursor[w], body.events)
  IN /\ UploadError(body, checksum) = "none"
     /\ cursor' = [cursor EXCEPT ![w] = HeadAfter(next)]
     /\ batches' = [batches EXCEPT ![w] = Append(@, StoredBatch(body))]
     /\ events' = [events EXCEPT ![w] = @ \o next]
     /\ eventsById' = [eventsById EXCEPT ![w] = @ \cup Ids(body.events)]

(* upload, refused or thrown out of.                                        *)
UploadRefused(body, checksum) ==
  /\ UploadError(body, checksum) # "none"
  /\ UNCHANGED vars

-----------------------------------------------------------------------------
(* Downloads: listAfter and selectDownloadWindow.  They change nothing.     *)

(* orderSyncedEvents, as an order on places in the log: by cursor, and an    *)
(* event's cursor names its id.                                             *)
SortsBefore(w, i, j) ==
  \/ CursorLess(events[w][i].cursor, events[w][j].cursor)
  \/ events[w][i].cursor = events[w][j].cursor /\ i < j

(* The events at some places of the log, in that order: the nth of them is  *)
(* the one that n - 1 of them sort before.                                  *)
Ordered(w, places) ==
  [n \in 1 .. Cardinality(places) |->
     events[w][CHOOSE i \in places : Cardinality({j \in places : SortsBefore(w, j, i)}) = n - 1]]

(* Mutant: the event at the cursor is sent again.                           *)
EventsFrom(w, after) ==
  Ordered(w, {i \in DOMAIN events[w] : ~CursorLess(events[w][i].cursor, after)})

EventsAfter(w, after) ==
  Ordered(w, {i \in DOMAIN events[w] : CursorLess(after, events[w][i].cursor)})

(* Mutant: the last event of every page is cut off.                         *)
DownloadWindowShort(w, after, limit) ==
  LET ordered  == EventsAfter(w, after)
      selected == SubSeq(ordered, 1, IF limit - 1 < Len(ordered) THEN limit - 1 ELSE Len(ordered))
  IN [workspaceId |-> w,
      afterCursor |-> after,
      nextCursor  |-> IF selected = <<>> THEN after
                      ELSE selected[Len(selected)].cursor,
      events      |-> selected,
      hasMore     |-> Len(ordered) > Len(selected)]

DownloadWindow(w, after, limit) ==
  LET ordered  == EventsAfter(w, after)
      selected == SubSeq(ordered, 1, IF limit < Len(ordered) THEN limit ELSE Len(ordered))
  IN [workspaceId |-> w,
      afterCursor |-> after,
      nextCursor  |-> IF selected = <<>> THEN after
                      ELSE selected[Len(selected)].cursor,
      events      |-> selected,
      hasMore     |-> Len(ordered) > Len(selected)]

-----------------------------------------------------------------------------
(* The events a device may put in one batch, in any order and any number.   *)
BatchEvents(w, d) ==
  LET own == {e \in Envelope : e.workspaceId = w /\ e.deviceId = d}
  IN UNION {[1 .. n -> own] : n \in 0 .. MaxBatch}

(* The cursors the repository hands out: in receipts and in events.         *)
IssuedCursors(w) == {INITIAL_CURSOR} \cup {events[w][i].cursor : i \in DOMAIN events[w]}

(* The cursors a device may name: issued ones, and well-formed ones that    *)
(* were not issued in this workspace.                                       *)
NamedCursors(w) ==
  IssuedCursors(w) \cup [position : 0 .. MaxPosition, eventId : {Origin}]

(* What may arrive of a batch: all of it, all but its last event, or all of *)
(* it with the last event relabelled to another workspace.                  *)
Received(evts) ==
  LET n == Len(evts) IN
  IF n = 0 THEN {evts}
  ELSE {evts, SubSeq(evts, 1, n - 1)}
         \cup {[evts EXCEPT ![n] = [@ EXCEPT !.workspaceId = w]] : w \in Workspaces}

Init ==
  /\ cursor = [w \in Workspaces |-> INITIAL_CURSOR]
  /\ batches = [w \in Workspaces |-> <<>>]
  /\ events = [w \in Workspaces |-> <<>>]
  /\ eventsById = [w \in Workspaces |-> {}]

UploadRequest(body, checksum) == Upload(body, checksum) \/ UploadRefused(body, checksum)

Next ==
  \E w \in Workspaces, d \in Devices : \E evts \in BatchEvents(w, d) :
    \/ \E base \in NamedCursors(w) :
         LET body == Body(w, d, base, evts) IN UploadRequest(body, body)
    \/ LET sent == Body(w, d, cursor[w], evts) IN
       \E got \in Received(evts) :
         LET body == Body(w, d, cursor[w], got) IN
         \E checksum \in {sent, body} : UploadRequest(body, checksum)

Spec == Init /\ [][Next]_vars

-----------------------------------------------------------------------------
(* The four pieces of a workspace's state have their types; the index and   *)
(* the cursor are typed together with the log they describe.                *)
TypeOK ==
  /\ cursor \in [Workspaces -> Cursor]
  /\ events \in [Workspaces -> Seq(SyncedEvent)]
  /\ eventsById \in [Workspaces -> SUBSET EventIds]
  /\ batches \in [Workspaces -> Seq([deviceId : Devices, baseCursor : Cursor,
                                     nextCursor : Cursor, eventIds : Seq(EventIds)])]

(* The cursor the repository compares uploads with is the cursor of the     *)
(* last event it stored: the two are written apart, from values computed    *)
(* one event at a time, and catalogImport.ts reads only the latter.         *)
CursorIsHead ==
  \A w \in Workspaces :
    cursor[w] = IF events[w] = <<>> THEN INITIAL_CURSOR
                ELSE events[w][Len(events[w])].cursor

(* Positions of a workspace's events are 1, 2, 3, ... without a hole, each  *)
(* cursor carrying the id of its own event and no event of another          *)
(* workspace among them.                                                    *)
PositionsContiguous ==
  \A w \in Workspaces : \A i \in DOMAIN events[w] :
    /\ events[w][i].cursor = [position |-> i, eventId |-> events[w][i].id]
    /\ events[w][i].workspaceId = w

(* An event id is accepted once per workspace however uploads are repeated, *)
(* because the index holds exactly the ids of the stored events.            *)
AcceptedOnce ==
  \A w \in Workspaces :
    /\ \A i, j \in DOMAIN events[w] : i # j => events[w][i].id # events[w][j].id
    /\ eventsById[w] = Ids(events[w])

(* Accepted batches tile the log: each begins at the cursor the one before  *)
(* it ended on, the last ends at the workspace's cursor, and their lengths  *)
(* add up.  A batch that advanceCursor refuses half way leaves nothing.     *)
BatchesTileTheLog ==
  \A w \in Workspaces :
    LET n == Len(batches[w]) IN
    /\ \A i \in 1 .. n :
         LET b == batches[w][i] IN
         /\ b.baseCursor = IF i = 1 THEN INITIAL_CURSOR ELSE batches[w][i - 1].nextCursor
         /\ b.nextCursor.position = b.baseCursor.position + Len(b.eventIds)
         /\ \A k \in DOMAIN b.eventIds :
              /\ b.baseCursor.position + k <= Len(events[w])
              /\ events[w][b.baseCursor.position + k].id = b.eventIds[k]
              /\ events[w][b.baseCursor.position + k].deviceId = b.deviceId
    /\ n > 0 => batches[w][n].nextCursor = cursor[w]

(* From any cursor the repository has issued, a page holds the next events  *)
(* of the log in order, none skipped and none repeated, hands back the      *)
(* cursor of its last event, and says hasMore exactly when the log goes on. *)
PagesAreLogSegments ==
  \A w \in Workspaces : \A after \in IssuedCursors(w) : \A limit \in 1 .. MaxLimit :
    LET page == DownloadWindow(w, after, limit)
        from == after.position
        to   == IF from + limit < Len(events[w]) THEN from + limit ELSE Len(events[w])
    IN /\ page.events = SubSeq(events[w], from + 1, to)
       /\ page.nextCursor.position = to
       /\ page.nextCursor \in IssuedCursors(w)
       /\ page.hasMore <=> to < Len(events[w])

(* What SyncLog sees: per workspace, the ids accepted so far.               *)
LogIds == [w \in Workspaces |-> [i \in 1 .. Len(events[w]) |-> events[w][i].id]]

Log == INSTANCE SyncLog WITH log <- LogIds

(* The repository implements an append-only log of distinct events.         *)
ImplementsLog == Log!Spec
=============================================================================
