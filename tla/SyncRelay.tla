------------------------------ MODULE SyncRelay ------------------------------
(***************************************************************************)
(* The sync repository behind the HTTP handlers of services/sync/src/http.ts*)
(* and a network that loses, delays, reorders and repeats messages.        *)
(*                                                                         *)
(* The devices are environment: the repository's clients are not in this   *)
(* code base.  A device here does what the contract of http.ts lets any    *)
(* client do: it names cursors it got from the relay, uploads a batch made *)
(* by createUploadBatch, downloads pages, and follows nextCursor of the    *)
(* replies that continue the cursor it holds.                              *)
(***************************************************************************)
EXTENDS SyncRepository

CONSTANTS
  LocalEvents,   \* the ids each device has recorded locally
  PageSize,      \* the limit devices ask for
  InFlight,      \* bound: requests under way at a time
  PerDevice,     \* bound: those of one device
  Backlog        \* bound: replies under way to one device

ASSUME RelayAssumption ==
  /\ LocalEvents \in [Devices -> SUBSET EventIds]
  /\ PageSize \in 1 .. MaxLimit
  /\ InFlight \in Nat \ {0} /\ PerDevice \in Nat \ {0} /\ Backlog \in Nat \ {0}

VARIABLES
  requests,      \* requests on their way to the relay
  replies,       \* replies on their way back
  held,          \* per workspace and device: the cursor it holds
  applied        \* per workspace and device: the events it has taken over

relayVars == <<requests, replies, held, applied>>
allVars == <<vars, relayVars>>

Members == Workspaces \X Devices

(* There is room in the network for one more request of the device.         *)
Room(w, d) ==
  /\ Cardinality(requests) < InFlight
  /\ Cardinality({r \in requests : r.workspaceId = w /\ r.deviceId = d}) < PerDevice

(* A handler answers whether or not the network can carry one more reply:   *)
(* where it cannot, an earlier one to the same device is lost.              *)
Answer(p) ==
  LET others == {q \in replies : q.workspaceId = p.workspaceId /\ q.deviceId = p.deviceId} IN
  IF Cardinality(others) < Backlog THEN replies' = replies \cup {p}
  ELSE \E lost \in others : replies' = (replies \ {lost}) \cup {p}

(* The local events a device has not seen accepted yet.                     *)
Outbox(w, d) ==
  {e \in Envelope : /\ e.workspaceId = w /\ e.deviceId = d
                    /\ e.id \in LocalEvents[d]
                    /\ e.id \notin Ids(applied[w, d])
                    /\ e.sequence = CHOOSE s \in Sequences : \A t \in Sequences : s <= t}

(* createUploadBatch: the first maxEvents of the outbox by sequence and id, *)
(* with the checksum of the body.                                           *)
FirstEvents(outbox, maxEvents) ==
  {evts \in UNION {[1 .. n -> outbox] : n \in 1 .. maxEvents} :
     /\ \A i, j \in DOMAIN evts : i < j => EventOrder(evts[i], evts[j])
     /\ \A left \in outbox \ {evts[i] : i \in DOMAIN evts} :
          Len(evts) = maxEvents /\ EventOrder(evts[maxEvents], left)}

CreateUploadBatch(w, d, evts) ==
  LET body == Body(w, d, held[w, d], evts)
  IN [type |-> "upload", workspaceId |-> w, deviceId |-> d, body |-> body, checksum |-> body]

(* What reaches a device: a receipt or a window, both a base cursor, the    *)
(* events behind it and the cursor to go on from.  An error reply carries   *)
(* nothing the device acts on and is not modelled as a message.             *)
Reply(w, d, base, next, evts) ==
  [workspaceId |-> w, deviceId |-> d, baseCursor |-> base, nextCursor |-> next,
   events |-> evts]

(* Mutant: one position behind is not stale.                                *)
StaleStatusLate(w, c) == c.position + 1 < cursor[w].position

(* handleCursorStatus with defaultCursorStatus: the stale flag of a cursor. *)
StaleStatus(w, c) == CursorLess(c, cursor[w])

-----------------------------------------------------------------------------
RelayInit ==
  /\ Init
  /\ requests = {}
  /\ replies = {}
  /\ held = [m \in Members |-> INITIAL_CURSOR]
  /\ applied = [m \in Members |-> <<>>]

SendUpload(w, d) ==
  /\ Outbox(w, d) # {}
  /\ Room(w, d)
  /\ \E max \in 1 .. MaxBatch : \E evts \in FirstEvents(Outbox(w, d), max) :
       requests' = requests \cup {CreateUploadBatch(w, d, evts)}
  /\ UNCHANGED <<vars, replies, held, applied>>

SendDownload(w, d) ==
  /\ Room(w, d)
  /\ requests' = requests \cup {[type |-> "download", workspaceId |-> w, deviceId |-> d,
                                 afterCursor |-> held[w, d], limit |-> PageSize]}
  /\ UNCHANGED <<vars, replies, held, applied>>

(* handleBundleUpload, accepted: 201 with the receipt.  The request may     *)
(* stay in the network and be delivered again.                              *)
HandleUpload(r, again) ==
  /\ r.type = "upload"
  /\ Upload(r.body, r.checksum)
  /\ LET w == r.body.workspaceId IN
     Answer(Reply(w, r.body.deviceId, r.body.baseCursor, cursor'[w],
                  Accepted(cursor[w], r.body.events)))
  /\ requests' = IF again THEN requests ELSE requests \ {r}
  /\ UNCHANGED <<held, applied>>

(* handleBundleUpload, refused: the repository reports an error, or the     *)
(* rate limiter answers 429 before the body is even validated.              *)
HandleUploadRefused(r) ==
  /\ r.type = "upload"
  /\ UploadError(r.body, r.checksum) # "none"
  /\ requests' = requests \ {r}
  /\ UNCHANGED <<vars, replies, held, applied>>

(* handleBundleDownload: 200 with the window, whatever its size.            *)
HandleDownload(r, again) ==
  /\ r.type = "download"
  /\ LET page == DownloadWindow(r.workspaceId, r.afterCursor, r.limit) IN
     Answer(Reply(r.workspaceId, r.deviceId, page.afterCursor, page.nextCursor, page.events))
  /\ requests' = IF again THEN requests ELSE requests \ {r}
  /\ UNCHANGED <<vars, held, applied>>

(* A request is lost, or refused by the limiter before it is validated      *)
(* (enforcePreValidationRateLimit): nothing of it reaches the repository.   *)
DropRequest(r) ==
  /\ requests' = requests \ {r}
  /\ UNCHANGED <<vars, replies, held, applied>>

DropReply(p) ==
  /\ replies' = replies \ {p}
  /\ UNCHANGED <<vars, requests, held, applied>>

(* A device goes on from the cursor it holds and ignores any other reply.   *)
Receive(p) ==
  LET m == <<p.workspaceId, p.deviceId>> IN
  /\ replies' = replies \ {p}
  /\ IF p.baseCursor = held[m]
     THEN /\ held' = [held EXCEPT ![m] = p.nextCursor]
          /\ applied' = [applied EXCEPT ![m] = @ \o p.events]
     ELSE UNCHANGED <<held, applied>>
  /\ UNCHANGED <<vars, requests>>

RelayNext ==
  \/ \E w \in Workspaces, d \in Devices : SendUpload(w, d) \/ SendDownload(w, d)
  \/ \E r \in requests :
       \/ \E again \in BOOLEAN : HandleUpload(r, again) \/ HandleDownload(r, again)
       \/ HandleUploadRefused(r)
       \/ DropRequest(r)
  \/ \E p \in replies : Receive(p) \/ DropReply(p)

RelaySafety == RelayInit /\ [][RelayNext]_allVars

-----------------------------------------------------------------------------
(* Fairness.  A device keeps asking; a message sent over and over gets      *)
(* through sometimes; the handlers answer every request they are given, and *)
(* no message stays under way for ever.                                     *)
ServeUpload(w, d) ==
  \E r \in requests : /\ r.workspaceId = w /\ r.deviceId = d
                      /\ HandleUpload(r, FALSE)
ServeDownload(w, d) ==
  \E r \in requests : /\ r.workspaceId = w /\ r.deviceId = d
                      /\ r.type = "download" /\ r.afterCursor = held[w, d]
                      /\ HandleDownload(r, FALSE)
Advance(w, d) ==
  \E p \in replies : /\ p.workspaceId = w /\ p.deviceId = d
                     /\ p.baseCursor = held[w, d] /\ p.nextCursor # held[w, d]
                     /\ Receive(p)

Fairness ==
  /\ \A w \in Workspaces, d \in Devices :
       /\ SF_allVars(SendUpload(w, d))
       /\ SF_allVars(SendDownload(w, d))
       /\ SF_allVars(ServeUpload(w, d))
       /\ SF_allVars(ServeDownload(w, d))
       /\ SF_allVars(Advance(w, d))
       /\ WF_allVars(\E r \in requests : r.workspaceId = w /\ r.deviceId = d /\ DropRequest(r))
       /\ WF_allVars(\E p \in replies : p.workspaceId = w /\ p.deviceId = d /\ DropReply(p))

RelaySpec == RelaySafety /\ Fairness

-----------------------------------------------------------------------------
(* A device that only follows nextCursor has, whatever was lost, repeated   *)
(* or overtaken on the way, exactly the log up to the cursor it holds: no   *)
(* event of another device is skipped by its own upload, none applied twice *)
(* by a page that raced the receipt.                                        *)
DeviceViewIsLogPrefix ==
  \A w \in Workspaces, d \in Devices :
    /\ held[w, d] \in IssuedCursors(w)
    /\ applied[w, d] = SubSeq(events[w], 1, held[w, d].position)

(* For a cursor a device holds, the stale flag says that the log has events *)
(* the device does not have.                                                *)
StaleFlagIsExact ==
  \A w \in Workspaces, d \in Devices :
    StaleStatus(w, held[w, d]) <=> Len(applied[w, d]) < Len(events[w])

(* Every local event reaches every device: an upload whose receipt is lost  *)
(* is found again by downloading, and one that lost a race is sent again on *)
(* the new cursor.                                                          *)
Converges ==
  <>[](\A w \in Workspaces, d \in Devices :
         /\ \A c \in Devices : LocalEvents[c] \subseteq Ids(applied[w, d])
         /\ applied[w, d] = events[w])
=============================================================================
