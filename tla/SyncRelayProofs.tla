--------------------------- MODULE SyncRelayProofs ---------------------------
(***************************************************************************)
(* The relay and its devices, for any number of workspaces, devices and    *)
(* events, any sizes of batches and pages, and a network that loses,       *)
(* delays, reorders and repeats as it likes.                               *)
(***************************************************************************)
EXTENDS SyncRelay, SyncRepositoryProofs

(* What is under way and what devices hold, in terms of the log: a reply    *)
(* carries the segment between its two cursors, and a device has the        *)
(* segment up to the cursor it holds.  Since the log only grows at its end, *)
(* a reply stays true however late it arrives.                              *)
RequestOK(r) ==
  /\ r.type = "upload" => BodyShape(r.body)
  /\ r.type = "download" =>
       /\ r.workspaceId \in Workspaces /\ r.deviceId \in Devices /\ r.limit = PageSize
       /\ \E n \in 0 .. Len(events[r.workspaceId]) : r.afterCursor = At(r.workspaceId, n)

(* The events of the log of w from one cursor to another.                   *)
IsSegment(w, base, next, evts) ==
  \E m, n \in 0 .. Len(events[w]) :
    /\ m <= n /\ base = At(w, m) /\ next = At(w, n)
    /\ evts = SubSeq(events[w], m + 1, n)

(* A reply holds the segment between its cursors.                           *)
ReplyOK(p) ==
  /\ p.workspaceId \in Workspaces /\ p.deviceId \in Devices
  /\ IsSegment(p.workspaceId, p.baseCursor, p.nextCursor, p.events)

(* A device holds the segment from the origin to its cursor.                *)
ViewOK(w, base, evts) ==
  \E n \in 0 .. Len(events[w]) : base = At(w, n) /\ evts = SubSeq(events[w], 1, n)

(* The inductive invariant.                                                 *)
RelayInv ==
  /\ LogInv
  /\ \A r \in requests : RequestOK(r)
  /\ \A p \in replies : ReplyOK(p)
  /\ DOMAIN held = Members /\ DOMAIN applied = Members
  /\ \A w \in Workspaces, d \in Devices : ViewOK(w, held[w, d], applied[w, d])

(* The log of w keeps what it has and grows at its end.                     *)
Grows(w) ==
  /\ Len(events[w]) <= Len(events'[w])
  /\ \A i \in 1 .. Len(events[w]) : events'[w][i] = events[w][i]

-----------------------------------------------------------------------------
(* Nothing that was said of a log that grows becomes untrue.                *)
LEMMA SegmentsStay ==
  ASSUME LogInv, LogInv', NEW w \in Workspaces, Grows(w),
         NEW m \in 0 .. Len(events[w]), NEW n \in 0 .. Len(events[w])
  PROVE  /\ n \in 0 .. Len(events'[w]) /\ At(w, n)' = At(w, n)
         /\ SubSeq(events'[w], m + 1, n) = SubSeq(events[w], m + 1, n)
<1>1. PICK old, new : old = events[w] /\ new = events'[w]
  OBVIOUS
<1>2. old \in Seq(SyncedEvent) /\ new \in Seq(SyncedEvent)
  BY <1>1 DEF LogInv, LogTypeOK
<1>3. /\ Len(old) \in Nat /\ Len(new) \in Nat /\ Len(old) <= Len(new)
      /\ m \in Nat /\ n \in Nat /\ m <= Len(old) /\ n <= Len(old)
      /\ \A i \in 1 .. Len(old) : new[i] = old[i]
  BY <1>1, <1>2 DEF Grows
<1>4. At(w, n)' = At(w, n)
  <2>1. n # 0 => n \in 1 .. Len(old)
    BY <1>3
  <2> QED
    BY <1>1, <1>3, <2>1 DEF At
<1>5. SubSeq(new, m + 1, n) = SubSeq(old, m + 1, n)
  <2>1. /\ SubSeq(new, m + 1, n) = [i \in 1 .. n - (m + 1) + 1 |-> new[(m + 1) + i - 1]]
        /\ SubSeq(old, m + 1, n) = [i \in 1 .. n - (m + 1) + 1 |-> old[(m + 1) + i - 1]]
    BY <1>2, <1>3
  <2>2. \A i \in 1 .. n - (m + 1) + 1 : (m + 1) + i - 1 \in 1 .. Len(old)
    BY <1>3
  <2> QED
    BY <1>3, <2>1, <2>2
<1> QED
  BY <1>1, <1>3, <1>4, <1>5

(* What was true of segments stays true of a log that grows.                *)
LEMMA StaysTrue ==
  ASSUME LogInv, LogInv', \A w \in Workspaces : Grows(w)
  PROVE  /\ \A r : RequestOK(r) => RequestOK(r)'
         /\ \A p : ReplyOK(p) => ReplyOK(p)'
         /\ \A w \in Workspaces : \A base, evts : ViewOK(w, base, evts) => ViewOK(w, base, evts)'
<1>1. ASSUME NEW r, RequestOK(r) PROVE RequestOK(r)'
  <2>1. CASE r.type = "download"
    <3>1. PICK n \in 0 .. Len(events[r.workspaceId]) : r.afterCursor = At(r.workspaceId, n)
      BY <1>1, <2>1 DEF RequestOK
    <3>2. r.workspaceId \in Workspaces
      BY <1>1, <2>1 DEF RequestOK
    <3>3. /\ n \in 0 .. Len(events'[r.workspaceId])
          /\ At(r.workspaceId, n)' = At(r.workspaceId, n)
      BY <3>2, SegmentsStay
    <3> QED
      BY <1>1, <2>1, <3>1, <3>3 DEF RequestOK
  <2>2. CASE r.type # "download"
    BY <1>1, <2>2 DEF RequestOK
  <2> QED
    BY <2>1, <2>2
<1>2. ASSUME NEW p, ReplyOK(p) PROVE ReplyOK(p)'
  <2>1. PICK w \in Workspaces : w = p.workspaceId
    BY <1>2 DEF ReplyOK
  <2>2. PICK m \in 0 .. Len(events[w]), n \in 0 .. Len(events[w]) :
          /\ m <= n /\ p.baseCursor = At(w, m) /\ p.nextCursor = At(w, n)
          /\ p.events = SubSeq(events[w], m + 1, n)
    BY <1>2, <2>1 DEF ReplyOK, IsSegment
  <2>3. /\ m \in 0 .. Len(events'[w]) /\ n \in 0 .. Len(events'[w])
        /\ At(w, m)' = At(w, m) /\ At(w, n)' = At(w, n)
        /\ SubSeq(events'[w], m + 1, n) = SubSeq(events[w], m + 1, n)
    BY SegmentsStay
  <2>4. IsSegment(w, p.baseCursor, p.nextCursor, p.events)'
    BY <2>2, <2>3 DEF IsSegment
  <2> QED
    BY <1>2, <2>1, <2>4 DEF ReplyOK
<1>3. ASSUME NEW w \in Workspaces, NEW base, NEW evts, ViewOK(w, base, evts)
      PROVE  ViewOK(w, base, evts)'
  <2>1. PICK n \in 0 .. Len(events[w]) : base = At(w, n) /\ evts = SubSeq(events[w], 1, n)
    BY <1>3 DEF ViewOK
  <2>2. 0 \in 0 .. Len(events[w]) /\ 0 + 1 = 1
    BY LogFacts
  <2>3. /\ n \in 0 .. Len(events'[w]) /\ At(w, n)' = At(w, n)
        /\ SubSeq(events'[w], 1, n) = SubSeq(events[w], 1, n)
    BY <2>2, SegmentsStay
  <2> QED
    BY <2>1, <2>3 DEF ViewOK
<1> QED
  BY <1>1, <1>2, <1>3

(* A log that stays grows.                                                  *)
LEMMA UnchangedGrows ==
  ASSUME LogInv, UNCHANGED vars
  PROVE  LogInv' /\ \A w \in Workspaces : Grows(w)
<1>1. LogInv' /\ events' = events
  BY NextKeepsLogInv DEF vars
<1>2. \A w \in Workspaces : Len(events[w]) \in Nat
  BY LogFacts
<1> QED
  BY <1>1, <1>2 DEF Grows
(* An accepted upload grows its workspace's log, and its receipt carries    *)
(* the segment it has added.                                                *)
LEMMA UploadReceipt ==
  ASSUME LogInv, NEW body, NEW checksum, BodyShape(body), Upload(body, checksum)
  PROVE  /\ LogInv' /\ \A w \in Workspaces : Grows(w)
         /\ body.workspaceId \in Workspaces
         /\ \E next, new : /\ next = cursor'[body.workspaceId]
                            /\ new = Accepted(cursor[body.workspaceId], body.events)
                            /\ IsSegment(body.workspaceId, body.baseCursor, next, new)'
<1>1. LogInv'
  BY UploadKeepsLogInv
<1>2. PICK w, evts, k, old, new, log : UploadGrows(body, w, evts, k, old, new, log)
  BY AcceptedUploadGrows
<1>3. /\ w = body.workspaceId /\ evts = body.events /\ old = events[w]
      /\ w \in Workspaces /\ k \in Nat \ {0} /\ new = Accepted(cursor[w], evts)
      /\ new \in Seq(SyncedEvent) /\ Len(new) = k
      /\ log \in Seq(SyncedEvent) /\ Len(old) \in Nat /\ Len(log) = Len(old) + k
      /\ \A i \in 1 .. Len(old) : log[i] = old[i]
      /\ \A n \in 1 .. k : log[Len(old) + n] = new[n]
      /\ events'[w] = log /\ cursor'[w] = new[k].cursor
      /\ \A v \in Workspaces \ {w} : events'[v] = events[v]
  BY <1>2, Zenon DEF UploadGrows
<1>4. ASSUME NEW v \in Workspaces PROVE Grows(v)
  <2>1. CASE v = w
    <3>1. Len(old) <= Len(log)
      BY <1>3
    <3> QED
      BY <1>3, <2>1, <3>1, Zenon DEF Grows
  <2>2. CASE v # w
    <3>1. events'[v] = events[v] /\ Len(events[v]) \in Nat
      BY <1>3, <2>2, LogFacts
    <3> QED
      BY <3>1 DEF Grows
  <2> QED
    BY <2>1, <2>2
<1>5. PICK m, n : m = Len(old) /\ n = Len(log)
  OBVIOUS
<1>6. m \in 0 .. n /\ n \in 0 .. n /\ m <= n /\ n = m + k
  BY <1>3, <1>5
<1>7. body.baseCursor = At(w, m)'
  <2>1. body.baseCursor = cursor[w]
    BY <1>3 DEF Upload, UploadError, OnHead
  <2>2. cursor[w] = At(w, m)
    BY <1>3, <1>5, LogFacts
  <2>3. m \in 0 .. Len(events[w])
    BY <1>3, <1>5, <1>6
  <2>4. At(w, m)' = At(w, m)
    BY <1>1, <1>3, <1>4, <2>3, SegmentsStay
  <2> QED
    BY <2>1, <2>2, <2>4
<1>8. PICK next : next = cursor'[w] /\ next = At(w, n)'
  <2>1. k \in 1 .. k /\ n # 0 /\ n \in DOMAIN log
    BY <1>3, <1>5, <1>6
  <2>2. log[n].cursor = [position |-> n, eventId |-> log[n].id]
    BY <1>1, <1>3, <2>1 DEF LogInv, PositionsContiguous
  <2>3. log[n] = new[k]
    <3>1. k \in 1 .. k /\ m + k = n
      BY <1>6, <2>1
    <3>2. log[m + k] = new[k]
      BY <1>3, <1>5, <3>1
    <3> QED
      BY <3>1, <3>2
  <2> QED
    BY <1>3, <2>1, <2>2, <2>3 DEF At
<1>9. new = SubSeq(log, m + 1, n)
  <2>1. /\ m \in Nat /\ k \in Nat /\ n = m + k /\ log \in Seq(SyncedEvent)
        /\ \A i \in 1 .. k : log[m + i] = new[i]
    BY <1>3, <1>5, <1>6, Zenon
  <2>2. SubSeq(log, m + 1, n) = [i \in 1 .. n - (m + 1) + 1 |-> log[(m + 1) + i - 1]]
    BY <2>1
  <2>3. n - (m + 1) + 1 = k /\ \A i \in 1 .. k : (m + 1) + i - 1 = m + i
    BY <2>1
  <2>4. new = [i \in 1 .. k |-> new[i]]
    <3>1. new \in [1 .. k -> SyncedEvent]
      BY <1>3
    <3> QED
      BY <3>1
  <2>5. SubSeq(log, m + 1, n) = [i \in 1 .. k |-> log[(m + 1) + i - 1]]
    BY <2>2, <2>3
  <2>6. \A i \in 1 .. k : log[(m + 1) + i - 1] = new[i]
    BY <2>1, <2>3, Zenon
  <2> QED
    BY <2>4, <2>5, <2>6
<1>10. IsSegment(w, body.baseCursor, next, new)'
  <2>1. m \in 0 .. Len(events'[w]) /\ n \in 0 .. Len(events'[w])
    BY <1>3, <1>5, <1>6
  <2>2. new = SubSeq(events'[w], m + 1, n)
    BY <1>3, <1>9
  <2> QED
    BY <1>6, <1>7, <1>8, <2>1, <2>2 DEF IsSegment
<1> QED
  BY <1>1, <1>3, <1>4, <1>8, <1>10, Zenon
-----------------------------------------------------------------------------
(* A step that leaves the devices alone keeps the invariant if whatever it  *)
(* puts under way is true.                                                  *)
LEMMA NetworkStep ==
  ASSUME RelayInv, LogInv', \A w \in Workspaces : Grows(w), held' = held, applied' = applied,
         \A r \in requests' : r \in requests \/ RequestOK(r)',
         \A p \in replies' : p \in replies \/ ReplyOK(p)'
  PROVE  RelayInv'
<1>1. LogInv
  BY DEF RelayInv
<1>2. \A r \in requests' : RequestOK(r)'
  BY <1>1, StaysTrue DEF RelayInv
<1>3. \A p \in replies' : ReplyOK(p)'
  BY <1>1, StaysTrue DEF RelayInv
<1>4. ASSUME NEW w \in Workspaces, NEW d \in Devices
      PROVE  ViewOK(w, held[w, d], applied[w, d])'
  <2>1. PICK base, evts : base = held[w, d] /\ evts = applied[w, d]
    OBVIOUS
  <2>2. ViewOK(w, base, evts)
    BY <2>1 DEF RelayInv
  <2>3. ViewOK(w, base, evts)'
    BY <1>1, <2>2, StaysTrue
  <2> QED
    BY <2>1, <2>3
<1> QED
  BY <1>2, <1>3, <1>4 DEF RelayInv

(* Answering adds the reply at most.                                        *)
LEMMA AnswerAdds ==
  ASSUME NEW p, Answer(p)
  PROVE  replies' \subseteq replies \cup {p}
BY DEF Answer

(* Sending an upload keeps the invariant.                                   *)
LEMMA SendUploadKeeps ==
  ASSUME RelayInv, NEW w \in Workspaces, NEW d \in Devices, SendUpload(w, d)
  PROVE  RelayInv'
<1>1. LogInv' /\ \A v \in Workspaces : Grows(v)
  BY UnchangedGrows DEF SendUpload, RelayInv
<1>2. PICK max, evts, r :
        /\ max \in 1 .. MaxBatch /\ evts \in FirstEvents(Outbox(w, d), max)
        /\ r = CreateUploadBatch(w, d, evts)
        /\ requests' = requests \cup {r}
  BY DEF SendUpload
<1>3. RequestOK(r)'
  <2>1. evts \in Seq(Envelope)
    <3>1. PICK n \in 1 .. max : evts \in [1 .. n -> Outbox(w, d)]
      BY <1>2 DEF FirstEvents
    <3>2. n \in Nat
      BY <1>2, <3>1, RepositoryAssumption
    <3>3. evts \in [1 .. n -> Envelope]
      <4>1. Outbox(w, d) \subseteq Envelope
        BY DEF Outbox
      <4> QED
        BY <3>1, <4>1
    <3> QED
      BY <3>2, <3>3
  <2>2. held[w, d] \in Cursor
    <3>1. PICK n \in 0 .. Len(events[w]) : held[w, d] = At(w, n)
      BY DEF RelayInv, ViewOK
    <3>2. At(w, n) \in IssuedCursors(w) /\ LogInv
      BY <3>1, IssuedAreAt DEF RelayInv
    <3>3. events[w] \in Seq(SyncedEvent) /\ \A i \in DOMAIN events[w] : events[w][i] \in SyncedEvent
      BY <3>2 DEF LogInv, LogTypeOK
    <3>4. INITIAL_CURSOR \in Cursor
      BY CursorAssumption DEF INITIAL_CURSOR, Cursor
    <3> QED
      BY <3>1, <3>2, <3>3, <3>4 DEF IssuedCursors, SyncedEvent
  <2>3. r.type = "upload" /\ BodyShape(r.body)
    BY <1>2, <2>1, <2>2 DEF CreateUploadBatch, Body, BodyShape
  <2> QED
    BY <2>3 DEF RequestOK, BodyShape
<1> QED
  BY <1>1, <1>2, <1>3, NetworkStep DEF SendUpload

(* Sending a download keeps it: it asks from where the device stands.       *)
LEMMA SendDownloadKeeps ==
  ASSUME RelayInv, NEW w \in Workspaces, NEW d \in Devices, SendDownload(w, d)
  PROVE  RelayInv'
<1>1. LogInv' /\ \A v \in Workspaces : Grows(v)
  BY UnchangedGrows DEF SendDownload, RelayInv
<1>2. PICK r : /\ r = [type |-> "download", workspaceId |-> w, deviceId |-> d,
                       afterCursor |-> held[w, d], limit |-> PageSize]
               /\ requests' = requests \cup {r}
  BY DEF SendDownload
<1>3. RequestOK(r)
  <2>1. PICK n \in 0 .. Len(events[w]) : held[w, d] = At(w, n)
    BY DEF RelayInv, ViewOK
  <2> QED
    BY <1>2, <2>1 DEF RequestOK
<1>4. RequestOK(r)'
  BY <1>1, <1>3, StaysTrue DEF RelayInv
<1> QED
  BY <1>1, <1>2, <1>4, NetworkStep DEF SendDownload

(* A receipt tells of the segment the upload has added.                     *)
LEMMA HandleUploadKeeps ==
  ASSUME RelayInv, NEW r \in requests, NEW again \in BOOLEAN, HandleUpload(r, again)
  PROVE  RelayInv'
<1>1. BodyShape(r.body) /\ Upload(r.body, r.checksum) /\ LogInv
  BY DEF RelayInv, RequestOK, HandleUpload
<1>2. PICK w, next, new :
        /\ w = r.body.workspaceId /\ w \in Workspaces
        /\ LogInv' /\ \A v \in Workspaces : Grows(v)
        /\ next = cursor'[w] /\ new = Accepted(cursor[w], r.body.events)
        /\ IsSegment(w, r.body.baseCursor, next, new)'
  BY <1>1, UploadReceipt
<1>3. PICK p : p = Reply(w, r.body.deviceId, r.body.baseCursor, next, new)
  OBVIOUS
<1>4. Answer(p)
  BY <1>2, <1>3 DEF HandleUpload
<1>5. ReplyOK(p)'
  BY <1>1, <1>2, <1>3 DEF ReplyOK, Reply, BodyShape
<1>6. replies' \subseteq replies \cup {p} /\ requests' \subseteq requests
  BY <1>4, AnswerAdds DEF HandleUpload
<1>7. held' = held /\ applied' = applied
  BY DEF HandleUpload
<1> QED
  BY <1>2, <1>5, <1>6, <1>7, NetworkStep

(* A page, by its fields.                                                   *)
LEMMA PageFields ==
  ASSUME LogInv, NEW w \in Workspaces, NEW n \in 0 .. Len(events[w]), NEW limit \in Nat \ {0}
  PROVE  \E page : /\ page = DownloadWindow(w, At(w, n), limit) /\ page.afterCursor = At(w, n)
                  /\ IsSegment(w, At(w, n), page.nextCursor, page.events)
<1>0. PICK page : page = DownloadWindow(w, At(w, n), limit)
  OBVIOUS
<1>1. PICK to : to = IF n + limit < Len(events[w]) THEN n + limit ELSE Len(events[w])
  OBVIOUS
<1>2. PICK more : more = (to < Len(events[w]))
  OBVIOUS
<1>3. /\ to \in n .. Len(events[w])
      /\ page = [workspaceId |-> w, afterCursor |-> At(w, n), nextCursor |-> At(w, to),
                 events |-> SubSeq(events[w], n + 1, to), hasMore |-> more]
  BY <1>0, <1>1, <1>2, PageIsSegment, Zenon
<1>4. n <= to /\ to \in 0 .. Len(events[w])
  BY <1>3, LogFacts
<1>5. /\ page.afterCursor = At(w, n) /\ page.nextCursor = At(w, to)
      /\ page.events = SubSeq(events[w], n + 1, to)
  BY <1>3
<1>6. IsSegment(w, At(w, n), page.nextCursor, page.events)
  BY <1>4, <1>5 DEF IsSegment
<1> QED
  BY <1>0, <1>5, <1>6, Zenon

(* A window is a segment whatever its limit cuts off.                       *)
LEMMA HandleDownloadKeeps ==
  ASSUME RelayInv, NEW r \in requests, NEW again \in BOOLEAN, HandleDownload(r, again)
  PROVE  RelayInv'
<1>1. LogInv /\ LogInv' /\ \A v \in Workspaces : Grows(v)
  BY UnchangedGrows DEF HandleDownload, RelayInv
<1>2. PICK w \in Workspaces : /\ w = r.workspaceId /\ r.deviceId \in Devices
                              /\ r.limit = PageSize
  BY DEF RelayInv, RequestOK, HandleDownload
<1>3. PICK n \in 0 .. Len(events[w]) : r.afterCursor = At(w, n)
  BY <1>2 DEF RelayInv, RequestOK, HandleDownload
<1>4. PageSize \in Nat \ {0}
  BY RelayAssumption, RepositoryAssumption
<1>5. LogInv
  BY <1>1
<1>6. PICK page : /\ page = DownloadWindow(w, At(w, n), PageSize) /\ page.afterCursor = At(w, n)
                  /\ IsSegment(w, At(w, n), page.nextCursor, page.events)
  BY <1>4, <1>5, PageFields, Zenon
<1>7. PICK p : p = Reply(w, r.deviceId, page.afterCursor, page.nextCursor, page.events)
  OBVIOUS
<1>8. Answer(p)
  BY <1>2, <1>3, <1>6, <1>7 DEF HandleDownload
<1>9. ReplyOK(p)'
  <2>1. ReplyOK(p)
    BY <1>2, <1>6, <1>7 DEF ReplyOK, Reply
  <2> QED
    BY <1>1, <2>1, StaysTrue
<1>10. replies' \subseteq replies \cup {p} /\ requests' \subseteq requests
  BY <1>8, AnswerAdds DEF HandleDownload
<1>11. held' = held /\ applied' = applied
  BY DEF HandleDownload
<1> QED
  BY <1>1, <1>9, <1>10, <1>11, NetworkStep

(* A request dropped, refused or a reply lost only takes away.              *)
LEMMA OnlyLost ==
  ASSUME RelayInv, UNCHANGED vars, held' = held, applied' = applied,
         requests' \subseteq requests, replies' \subseteq replies
  PROVE  RelayInv'
<1>1. LogInv' /\ \A v \in Workspaces : Grows(v)
  BY UnchangedGrows DEF RelayInv
<1> QED
  BY <1>1, NetworkStep

(* A reply is taken over only by a device that stands where it begins, and  *)
(* a cursor names one place of the log.                                     *)
LEMMA ReceiveKeeps ==
  ASSUME RelayInv, NEW p \in replies, Receive(p)
  PROVE  RelayInv'
<1>1. LogInv /\ LogInv' /\ \A v \in Workspaces : Grows(v)
  BY UnchangedGrows DEF Receive, RelayInv
<1>2. PICK w \in Workspaces, d \in Devices : w = p.workspaceId /\ d = p.deviceId
  BY DEF RelayInv, ReplyOK
<1>3. CASE p.baseCursor # held[<<w, d>>]
  BY <1>2, <1>3, OnlyLost DEF Receive
<1>4. CASE p.baseCursor = held[<<w, d>>]
  <2>1. /\ held' = [held EXCEPT ![<<w, d>>] = p.nextCursor]
        /\ applied' = [applied EXCEPT ![<<w, d>>] = @ \o p.events]
        /\ requests' = requests /\ replies' \subseteq replies /\ UNCHANGED vars
    BY <1>2, <1>4 DEF Receive
  <2>2. /\ DOMAIN held = Members /\ DOMAIN applied = Members
        /\ DOMAIN held' = Members /\ DOMAIN applied' = Members
        /\ \A v \in Workspaces, c \in Devices : <<v, c>> \in Members
    BY <2>1 DEF RelayInv, Members
  <2>3. ViewOK(w, p.nextCursor, applied[<<w, d>>] \o p.events)
    <3>1. PICK k \in 0 .. Len(events[w]) :
            held[<<w, d>>] = At(w, k) /\ applied[<<w, d>>] = SubSeq(events[w], 1, k)
      BY DEF RelayInv, ViewOK
    <3>2. PICK m \in 0 .. Len(events[w]), n \in 0 .. Len(events[w]) :
            /\ m <= n /\ p.baseCursor = At(w, m) /\ p.nextCursor = At(w, n)
            /\ p.events = SubSeq(events[w], m + 1, n)
      BY <1>2 DEF RelayInv, ReplyOK, IsSegment
    <3>3. m = k
      <4>1. At(w, m).position = m /\ At(w, k).position = k
        BY <1>1, AtPosition
      <4> QED
        BY <1>4, <3>1, <3>2, <4>1
    <3>4. SubSeq(events[w], 1, m) \o SubSeq(events[w], m + 1, n) = SubSeq(events[w], 1, n)
      <4>1. /\ events[w] \in Seq(SyncedEvent) /\ 1 \in 1 .. Len(events[w]) + 1
            /\ m \in 1 - 1 .. Len(events[w]) /\ n \in m .. Len(events[w])
        BY <1>1, <3>2, LogFacts
      <4> QED
        BY <4>1, ConcatAdjacentSubSeq
    <3> QED
      BY <3>1, <3>2, <3>3, <3>4 DEF ViewOK
  <2>4. ASSUME NEW v \in Workspaces, NEW c \in Devices
        PROVE  ViewOK(v, held[v, c], applied[v, c])'
    <3>1. PICK base, evts : base = held'[<<v, c>>] /\ evts = applied'[<<v, c>>]
      OBVIOUS
    <3>2. ViewOK(v, base, evts)
      <4>1. CASE v = w /\ c = d
        BY <2>1, <2>2, <2>3, <3>1, <4>1
      <4>2. CASE ~(v = w /\ c = d)
        <5>1. base = held[<<v, c>>] /\ evts = applied[<<v, c>>]
          BY <2>1, <2>2, <3>1, <4>2
        <5> QED
          BY <5>1 DEF RelayInv
      <4> QED
        BY <4>1, <4>2
    <3>3. ViewOK(v, base, evts)'
      BY <1>1, <3>2, StaysTrue
    <3> QED
      BY <3>1, <3>3
  <2>5. (\A r \in requests : RequestOK(r))' /\ (\A q \in replies : ReplyOK(q))'
    BY <1>1, <2>1, StaysTrue DEF RelayInv
  <2> QED
    BY <1>1, <2>2, <2>4, <2>5 DEF RelayInv
<1> QED
  BY <1>3, <1>4

-----------------------------------------------------------------------------
(* It holds before anything is sent.                                        *)
LEMMA InitRelayInv == RelayInit => RelayInv
<1> SUFFICES ASSUME RelayInit PROVE RelayInv
  OBVIOUS
<1>1. LogInv
  BY InitLogInv DEF RelayInit
<1>2. ASSUME NEW w \in Workspaces, NEW d \in Devices
      PROVE  ViewOK(w, held[w, d], applied[w, d])
  <2>1. held[w, d] = INITIAL_CURSOR /\ applied[w, d] = <<>> /\ events[w] = <<>>
    BY DEF RelayInit, Init, Members
  <2>2. 0 \in 0 .. Len(events[w]) /\ At(w, 0) = INITIAL_CURSOR /\ SubSeq(events[w], 1, 0) = <<>>
    <3>1. 0 \in 0 .. Len(events[w])
      BY <1>1, LogFacts
    <3>2. At(w, 0) = INITIAL_CURSOR
      BY DEF At
    <3>3. events[w] \in Seq(SyncedEvent) /\ SubSeq(events[w], 1, 0) = <<>>
      BY <1>1, LogFacts
    <3> QED
      BY <3>1, <3>2, <3>3
  <2> QED
    BY <2>1, <2>2 DEF ViewOK
<1> QED
  BY <1>1, <1>2 DEF RelayInit, RelayInv

(* Every step keeps it.                                                     *)
LEMMA StepKeepsRelayInv ==
  ASSUME RelayInv, [RelayNext]_allVars
  PROVE  RelayInv'
<1>1. CASE UNCHANGED allVars
  BY <1>1, OnlyLost DEF allVars, relayVars
<1>2. CASE \E w \in Workspaces, d \in Devices : SendUpload(w, d) \/ SendDownload(w, d)
  BY <1>2, SendUploadKeeps, SendDownloadKeeps
<1>3. ASSUME NEW r \in requests, NEW again \in BOOLEAN,
             HandleUpload(r, again) \/ HandleDownload(r, again)
      PROVE  RelayInv'
  BY <1>3, HandleUploadKeeps, HandleDownloadKeeps
<1>4. ASSUME NEW r \in requests, HandleUploadRefused(r) \/ DropRequest(r) PROVE RelayInv'
  BY <1>4, OnlyLost DEF HandleUploadRefused, DropRequest
<1>5. ASSUME NEW p \in replies, DropReply(p) PROVE RelayInv'
  BY <1>5, OnlyLost DEF DropReply
<1> QED
  BY <1>1, <1>2, <1>3, <1>4, <1>5, ReceiveKeeps DEF RelayNext

(* It holds always.                                                         *)
LEMMA RelayInvariant == RelaySafety => []RelayInv
BY InitRelayInv, StepKeepsRelayInv, PTL DEF RelaySafety

(* However messages are lost, delayed, repeated or reordered, a device that *)
(* follows nextCursor has exactly the log up to the cursor it holds.        *)
THEOREM ViewsAlwaysLogPrefixes == RelaySafety => []DeviceViewIsLogPrefix
<1>1. RelayInv => DeviceViewIsLogPrefix
  <2> SUFFICES ASSUME RelayInv, NEW w \in Workspaces, NEW d \in Devices
               PROVE  /\ held[w, d] \in IssuedCursors(w)
                      /\ applied[w, d] = SubSeq(events[w], 1, held[w, d].position)
    BY DEF DeviceViewIsLogPrefix
  <2>1. PICK n \in 0 .. Len(events[w]) :
          held[w, d] = At(w, n) /\ applied[w, d] = SubSeq(events[w], 1, n)
    BY DEF RelayInv, ViewOK
  <2>2. At(w, n).position = n /\ At(w, n) \in IssuedCursors(w)
    BY AtPosition, IssuedAreAt DEF RelayInv
  <2> QED
    BY <2>1, <2>2
<1> QED
  BY <1>1, RelayInvariant, PTL

(* A cursor a device holds is reported stale exactly when the log has       *)
(* events the device has not.                                               *)
THEOREM StaleFlagAlwaysExact == RelaySafety => []StaleFlagIsExact
<1>1. RelayInv => StaleFlagIsExact
  <2> SUFFICES ASSUME RelayInv, NEW w \in Workspaces, NEW d \in Devices
               PROVE  StaleStatus(w, held[w, d]) <=> Len(applied[w, d]) < Len(events[w])
    BY DEF StaleFlagIsExact
  <2>0. LogInv
    BY DEF RelayInv
  <2>1. PICK n \in 0 .. Len(events[w]) :
          held[w, d] = At(w, n) /\ applied[w, d] = SubSeq(events[w], 1, n)
    BY DEF RelayInv, ViewOK
  <2>2. PICK L : L = Len(events[w])
    OBVIOUS
  <2>3. /\ events[w] \in Seq(SyncedEvent) /\ L \in Nat /\ n \in Nat /\ n <= L
        /\ cursor[w] = At(w, L)
    BY <2>0, <2>2, LogFacts
  <2>4. Len(SubSeq(events[w], 1, n)) = n
    BY <2>2, <2>3
  <2>5. /\ At(w, n).position = n /\ At(w, L).position = L
        /\ At(w, L).eventId \in Nat
    <3>1. cursor[w].eventId \in Nat
      BY <2>0, CursorAssumption DEF LogInv, LogTypeOK, Cursor
    <3> QED
      BY <2>0, <2>2, <2>3, <3>1, AtPosition
  <2>6. n = L => At(w, n) = At(w, L)
    OBVIOUS
  <2>7. CursorLess(At(w, n), At(w, L)) <=> n < L
    BY <2>3, <2>5, <2>6 DEF CursorLess
  <2> QED
    BY <2>1, <2>2, <2>3, <2>4, <2>7, Zenon DEF StaleStatus
<1> QED
  BY <1>1, RelayInvariant, PTL

(* Behind the handlers and the network, the relay is the append-only log    *)
(* of distinct events its devices rely on.                                  *)
THEOREM RelayImplementsLog == RelaySafety => ImplementsLog
<1>1. RelayInv /\ RelayInv' /\ [RelayNext]_allVars => [Log!Next]_LogIds
  <2> SUFFICES ASSUME RelayInv, RelayInv', [RelayNext]_allVars PROVE [Log!Next]_LogIds
    OBVIOUS
  <2>1. CASE UNCHANGED vars
    BY <2>1 DEF vars, LogIds
  <2>2. ASSUME NEW r \in requests, NEW again \in BOOLEAN, HandleUpload(r, again)
        PROVE  [Log!Next]_LogIds
    BY <2>2, UploadImplements DEF HandleUpload, RelayInv, RequestOK
  <2> QED
    BY <2>1, <2>2 DEF RelayNext, allVars, SendUpload, SendDownload, HandleDownload,
                      HandleUploadRefused, DropRequest, DropReply, Receive
<1> QED
  BY <1>1, InitImplements, RelayInvariant, PTL DEF RelaySafety, RelayInit, ImplementsLog, Log!Spec
=============================================================================
