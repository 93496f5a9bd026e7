------------------------ MODULE SyncRepositoryProofs ------------------------
(***************************************************************************)
(* The repository's invariants for every set of workspaces, devices and    *)
(* ids, every bound on positions and batches, and every request.           *)
(***************************************************************************)
EXTENDS SyncRepository, FiniteSetTheorems, SequenceTheorems, TLAPS

(* The part of the state the log is made of; batches are a record of it.    *)
LogTypeOK ==
  /\ cursor \in [Workspaces -> Cursor]
  /\ events \in [Workspaces -> Seq(SyncedEvent)]
  /\ eventsById \in [Workspaces -> SUBSET EventIds]

(* Inductive: a batch is given positions from the cursor, so the log stays  *)
(* contiguous only because the cursor is its head; an id stays unique only  *)
(* because the index holds every stored id.                                 *)
LogInv == LogTypeOK /\ CursorIsHead /\ PositionsContiguous /\ AcceptedOnce

(* A body upload may be called with, whatever happened to it on the way.    *)
BodyShape(body) ==
  /\ body.workspaceId \in Workspaces
  /\ body.deviceId \in Devices
  /\ body.baseCursor \in Cursor
  /\ body.events \in Seq(Envelope)

-----------------------------------------------------------------------------
(* An accepted batch keeps its ids and gets the positions after its base.   *)
LEMMA AcceptedBatch ==
  ASSUME NEW base \in Cursor, NEW evts \in Seq(Envelope),
         CanAdvance(base, Len(evts))
  PROVE  /\ Accepted(base, evts) \in Seq(SyncedEvent)
         /\ Len(Accepted(base, evts)) = Len(evts)
         /\ \A n \in 1 .. Len(evts) :
              /\ Accepted(base, evts)[n].id = evts[n].id
              /\ Accepted(base, evts)[n].workspaceId = evts[n].workspaceId
              /\ Accepted(base, evts)[n].deviceId = evts[n].deviceId
              /\ Accepted(base, evts)[n].cursor =
                   [position |-> base.position + n, eventId |-> evts[n].id]
<1> DEFINE k == Len(evts)
           A == Accepted(base, evts)
<1>1. k \in Nat /\ \A n \in 1 .. k : evts[n] \in Envelope
  OBVIOUS
<1>2. A = [n \in 1 .. k |-> [id |-> evts[n].id, workspaceId |-> evts[n].workspaceId,
                             deviceId |-> evts[n].deviceId, sequence |-> evts[n].sequence,
                             cursor |-> [position |-> base.position + n,
                                         eventId |-> evts[n].id]]]
  BY <1>1 DEF Accepted, AdvanceCursor
<1>3. ASSUME NEW n \in 1 .. k
      PROVE  [position |-> base.position + n, eventId |-> evts[n].id] \in Cursor
  BY <1>1, CursorAssumption DEF Cursor, CanAdvance, Envelope
<1>4. \A n \in 1 .. k : A[n] \in SyncedEvent
  BY <1>1, <1>2, <1>3 DEF SyncedEvent, Envelope
<1>5. A \in Seq(SyncedEvent) /\ Len(A) = k
  BY <1>1, <1>2, <1>4
<1> QED
  BY <1>2, <1>5

(* What arrives of a batch of envelopes is a batch of envelopes.            *)
LEMMA ReceivedEnvelopes ==
  ASSUME NEW w \in Workspaces, NEW d \in Devices, NEW evts \in BatchEvents(w, d),
         NEW got \in Received(evts)
  PROVE  evts \in Seq(Envelope) /\ got \in Seq(Envelope)
<1> DEFINE n == Len(evts)
<1>1. evts \in Seq(Envelope)
  <2>1. PICK k \in 0 .. MaxBatch : evts \in [1 .. k -> Envelope]
    BY DEF BatchEvents
  <2> QED
    BY <2>1
<1>2. CASE n = 0 \/ got = evts
  BY <1>1, <1>2 DEF Received
<1>3. ASSUME n # 0, got = SubSeq(evts, 1, n - 1)
      PROVE  got \in Seq(Envelope)
  BY <1>1, <1>3
<1>4. ASSUME n # 0, NEW v \in Workspaces,
             got = [evts EXCEPT ![n] = [@ EXCEPT !.workspaceId = v]]
      PROVE  got \in Seq(Envelope)
  <2> DEFINE e == [evts[n] EXCEPT !.workspaceId = v]
  <2>1. evts[n] \in Envelope
    BY <1>1, <1>4
  <2>2. e \in Envelope
    BY <2>1 DEF Envelope
  <2>3. got = [evts EXCEPT ![n] = e]
    BY <1>4
  <2>4. n \in 1 .. n
    BY <1>1, <1>4
  <2> HIDE DEF e
  <2> QED
    BY <1>1, <2>2, <2>3, <2>4, ExceptSeq
<1>5. n = 0 \/ got = evts \/ got = SubSeq(evts, 1, n - 1)
        \/ \E v \in Workspaces : got = [evts EXCEPT ![n] = [@ EXCEPT !.workspaceId = v]]
  BY Zenon DEF Received
<1> QED
  BY <1>1, <1>2, <1>3, <1>4, <1>5

(* Every request of Next is a body with the shape, with some checksum.      *)
LEMMA RequestsHaveShape ==
  ASSUME LogTypeOK, Next
  PROVE  \E body, checksum : BodyShape(body) /\ UploadRequest(body, checksum)
<1>1. PICK w \in Workspaces, d \in Devices : \E evts \in BatchEvents(w, d) :
        \/ \E base \in NamedCursors(w) :
             UploadRequest(Body(w, d, base, evts), Body(w, d, base, evts))
        \/ \E got \in Received(evts) :
             \E checksum \in {Body(w, d, cursor[w], evts), Body(w, d, cursor[w], got)} :
               UploadRequest(Body(w, d, cursor[w], got), checksum)
  BY Zenon DEF Next
<1>2. NamedCursors(w) \subseteq Cursor /\ cursor[w] \in Cursor
  <2>1. IssuedCursors(w) \subseteq Cursor
    <3>1. INITIAL_CURSOR \in Cursor
      BY CursorAssumption DEF INITIAL_CURSOR, Cursor
    <3>2. events[w] \in Seq(SyncedEvent)
      BY DEF LogTypeOK
    <3>3. \A i \in DOMAIN events[w] : events[w][i] \in SyncedEvent
      BY <3>2
    <3>4. \A e \in SyncedEvent : e.cursor \in Cursor
      BY DEF SyncedEvent
    <3> QED
      BY <3>1, <3>3, <3>4 DEF IssuedCursors
  <2>2. [position : 0 .. MaxPosition, eventId : {Origin}] \subseteq Cursor
    BY DEF Cursor
  <2> QED
    BY <2>1, <2>2 DEF NamedCursors, LogTypeOK
<1>3. ASSUME NEW evts \in Seq(Envelope), NEW base \in Cursor
      PROVE  BodyShape(Body(w, d, base, evts))
  BY DEF BodyShape, Body
<1>4. PICK evts \in BatchEvents(w, d) :
        \/ \E base \in NamedCursors(w) :
             UploadRequest(Body(w, d, base, evts), Body(w, d, base, evts))
        \/ \E got \in Received(evts) :
             \E checksum \in {Body(w, d, cursor[w], evts), Body(w, d, cursor[w], got)} :
               UploadRequest(Body(w, d, cursor[w], got), checksum)
  BY <1>1, Zenon
<1>5. evts \in Seq(Envelope) /\ \A got \in Received(evts) : got \in Seq(Envelope)
  <2>1. Received(evts) # {}
    BY DEF Received
  <2> QED
    BY <2>1, ReceivedEnvelopes
<1> QED
  BY <1>2, <1>3, <1>4, <1>5, Zenon

-----------------------------------------------------------------------------
(* It holds of empty workspaces.                                            *)
LEMMA InitLogInv == Init => LogInv
<1> SUFFICES ASSUME Init PROVE LogInv
  OBVIOUS
<1>1. LogTypeOK
  BY CursorAssumption DEF Init, LogTypeOK, INITIAL_CURSOR, Cursor
<1>2. CursorIsHead /\ PositionsContiguous /\ AcceptedOnce
  BY DEF Init, CursorIsHead, PositionsContiguous, AcceptedOnce, Ids
<1> QED
  BY <1>1, <1>2 DEF LogInv

(* An accepted upload in terms of its workspace w, its k events evts, the   *)
(* log old they meet, the events new made of them and the log they leave.   *)
UploadGrows(body, w, evts, k, old, new, log) ==
  /\ w = body.workspaceId /\ evts = body.events /\ old = events[w]
  /\ k = Len(evts) /\ new = Accepted(cursor[w], evts)
  /\ w \in Workspaces /\ evts \in Seq(Envelope) /\ evts # <<>>
  /\ k \in Nat \ {0}
  /\ \A i \in 1 .. k : evts[i].workspaceId = w
  /\ \A i, j \in 1 .. k : i < j => evts[i].id # evts[j].id
  /\ Ids(evts) \cap eventsById[w] = {}
  /\ CanAdvance(cursor[w], k)
  /\ cursor[w] \in Cursor /\ old \in Seq(SyncedEvent) /\ Len(old) \in Nat
  /\ new \in Seq(SyncedEvent) /\ Len(new) = k
  /\ \A n \in 1 .. k :
       /\ new[n].id = evts[n].id
       /\ new[n].workspaceId = w
       /\ new[n].cursor = [position |-> cursor[w].position + n, eventId |-> evts[n].id]
  /\ log \in Seq(SyncedEvent)
  /\ Len(log) = Len(old) + k
  /\ DOMAIN log = 1 .. Len(old) + k
  /\ \A i \in 1 .. Len(old) : log[i] = old[i]
  /\ \A n \in 1 .. k : log[Len(old) + n] = new[n]
  /\ \A i \in 1 .. Len(old) + k :
       i \in 1 .. Len(old) \/ \E n \in 1 .. k : i = Len(old) + n
  /\ cursor' = [cursor EXCEPT ![w] = new[k].cursor]
  /\ events' = [events EXCEPT ![w] = log]
  /\ eventsById' = [eventsById EXCEPT ![w] = @ \cup Ids(evts)]
  /\ events'[w] = log
  /\ cursor'[w] = new[k].cursor
  /\ eventsById'[w] = eventsById[w] \cup Ids(evts)
  /\ \A v \in Workspaces \ {w} : /\ events'[v] = events[v]
                                 /\ cursor'[v] = cursor[v]
                                 /\ eventsById'[v] = eventsById[v]
  /\ cursor[w].position = Len(old)

(* What an accepted upload does to its workspace, stated once for all       *)
(* proofs.                                                                  *)
LEMMA AcceptedUploadGrows ==
  ASSUME LogInv, NEW body, NEW checksum, BodyShape(body), Upload(body, checksum)
  PROVE  \E w, evts, k, old, new, log : UploadGrows(body, w, evts, k, old, new, log)
<1>1. PICK w, evts, old : /\ w = body.workspaceId
                          /\ evts = body.events
                          /\ old = events[w]
  OBVIOUS
<1>2. PICK k, new : k = Len(evts) /\ new = Accepted(cursor[w], evts)
  OBVIOUS
<1>3. /\ w \in Workspaces /\ evts \in Seq(Envelope) /\ evts # <<>>
      /\ k \in Nat \ {0}
      /\ \A i \in 1 .. k : evts[i].workspaceId = w
      /\ \A i, j \in 1 .. k : i < j => evts[i].id # evts[j].id
      /\ Ids(evts) \cap eventsById[w] = {}
      /\ CanAdvance(cursor[w], k)
  <2>1. w \in Workspaces /\ evts \in Seq(Envelope)
    BY <1>1 DEF BodyShape
  <2>2. ValidateUploadRequest(body) /\ Fresh(body) /\ Fits(body)
    BY DEF Upload, UploadError
  <2>3. DOMAIN evts = 1 .. k /\ evts # <<>> /\ k \in Nat \ {0}
    BY <2>1, <2>2, <1>1, <1>2 DEF ValidateUploadRequest
  <2> QED
    BY <2>1, <2>2, <2>3, <1>1, <1>2 DEF ValidateUploadRequest, Fresh, Fits
<1>4. /\ cursor \in [Workspaces -> Cursor]
      /\ events \in [Workspaces -> Seq(SyncedEvent)]
      /\ eventsById \in [Workspaces -> SUBSET EventIds]
      /\ cursor[w] \in Cursor /\ old \in Seq(SyncedEvent)
      /\ Len(old) \in Nat
  BY <1>1, <1>3 DEF LogInv, LogTypeOK
<1>5. /\ new \in Seq(SyncedEvent)
      /\ Len(new) = k
      /\ \A n \in 1 .. k :
           /\ new[n].id = evts[n].id
           /\ new[n].workspaceId = w
           /\ new[n].cursor = [position |-> cursor[w].position + n, eventId |-> evts[n].id]
  <2>1. /\ Accepted(cursor[w], evts) \in Seq(SyncedEvent)
        /\ Len(Accepted(cursor[w], evts)) = Len(evts)
        /\ \A n \in 1 .. Len(evts) :
             /\ Accepted(cursor[w], evts)[n].id = evts[n].id
             /\ Accepted(cursor[w], evts)[n].workspaceId = evts[n].workspaceId
             /\ Accepted(cursor[w], evts)[n].deviceId = evts[n].deviceId
             /\ Accepted(cursor[w], evts)[n].cursor =
                  [position |-> cursor[w].position + n, eventId |-> evts[n].id]
    BY <1>2, <1>3, <1>4, AcceptedBatch, Zenon
  <2> QED
    BY <2>1, <1>2, <1>3, Zenon
<1>6. PICK log : /\ log = old \o new
                 /\ log \in Seq(SyncedEvent)
                 /\ Len(log) = Len(old) + k
                 /\ DOMAIN log = 1 .. Len(old) + k
                 /\ \A i \in 1 .. Len(old) : log[i] = old[i]
                 /\ \A n \in 1 .. k : log[Len(old) + n] = new[n]
                 /\ \A i \in 1 .. Len(old) + k :
                      i \in 1 .. Len(old) \/ \E n \in 1 .. k : i = Len(old) + n
  <2>1. /\ old \o new \in Seq(SyncedEvent)
        /\ Len(old \o new) = Len(old) + k
        /\ \A i \in 1 .. Len(old) + k :
             (old \o new)[i] = IF i <= Len(old) THEN old[i] ELSE new[i - Len(old)]
    BY <1>4, <1>5, ConcatProperties
  <2>2. \A i \in 1 .. Len(old) : i \in 1 .. Len(old) + k /\ i <= Len(old)
    BY <1>3, <1>4
  <2>3. \A n \in 1 .. k : /\ Len(old) + n \in 1 .. Len(old) + k
                          /\ ~(Len(old) + n <= Len(old))
                          /\ (Len(old) + n) - Len(old) = n
    BY <1>3, <1>4
  <2>4. \A i \in 1 .. Len(old) + k :
          i \in 1 .. Len(old) \/ (i - Len(old) \in 1 .. k /\ i = Len(old) + (i - Len(old)))
    BY <1>3, <1>4
  <2>5. DOMAIN (old \o new) = 1 .. Len(old) + k
    BY <2>1
  <2> QED
    BY <2>1, <2>2, <2>3, <2>4, <2>5, ZenonT(40)
<1>7. /\ cursor' = [cursor EXCEPT ![w] = new[k].cursor]
      /\ events' = [events EXCEPT ![w] = log]
      /\ eventsById' = [eventsById EXCEPT ![w] = @ \cup Ids(evts)]
  BY <1>1, <1>2, <1>5, <1>6 DEF Upload, HeadAfter
<1>8. /\ events'[w] = log
      /\ cursor'[w] = new[k].cursor
      /\ eventsById'[w] = eventsById[w] \cup Ids(evts)
      /\ \A v \in Workspaces \ {w} : /\ events'[v] = events[v]
                                     /\ cursor'[v] = cursor[v]
                                     /\ eventsById'[v] = eventsById[v]
  BY <1>3, <1>4, <1>7
<1>9. cursor[w].position = Len(old)
  <2>1. CASE old = <<>>
    BY <2>1, <1>1, <1>3 DEF LogInv, CursorIsHead, INITIAL_CURSOR
  <2>2. CASE old # <<>>
    <3>1. Len(old) \in DOMAIN old
      BY <1>4, <2>2
    <3>2. cursor[w] = old[Len(old)].cursor
      BY <2>2, <1>1, <1>3 DEF LogInv, CursorIsHead
    <3>3. old[Len(old)].cursor = [position |-> Len(old), eventId |-> old[Len(old)].id]
      BY <3>1, <1>1, <1>3 DEF LogInv, PositionsContiguous
    <3> QED
      BY <3>2, <3>3
  <2> QED
    BY <2>1, <2>2
<1>10. UploadGrows(body, w, evts, k, old, new, log)
  BY <1>1, <1>2, <1>3, <1>4, <1>5, <1>6, <1>7, <1>8, <1>9, Zenon DEF UploadGrows
<1> QED
  BY <1>10

(* An accepted upload carries the invariant over, workspace by workspace:   *)
(* the one it names grows by the batch, the others are as they were.        *)
LEMMA UploadKeepsLogInv ==
  ASSUME LogInv, NEW body, NEW checksum, BodyShape(body), Upload(body, checksum)
  PROVE  LogInv'
<1>0. PICK w, evts, k, old, new, log : UploadGrows(body, w, evts, k, old, new, log)
  BY AcceptedUploadGrows
<1>1. w = body.workspaceId /\ evts = body.events /\ old = events[w]
  BY <1>0, Zenon DEF UploadGrows
<1>2. k = Len(evts) /\ new = Accepted(cursor[w], evts)
  BY <1>0, Zenon DEF UploadGrows
<1>3. /\ w \in Workspaces /\ evts \in Seq(Envelope) /\ evts # <<>>
      /\ k \in Nat \ {0}
      /\ \A i \in 1 .. k : evts[i].workspaceId = w
      /\ \A i, j \in 1 .. k : i < j => evts[i].id # evts[j].id
      /\ Ids(evts) \cap eventsById[w] = {}
      /\ CanAdvance(cursor[w], k)
  BY <1>0, Zenon DEF UploadGrows
<1>4. /\ cursor \in [Workspaces -> Cursor]
      /\ events \in [Workspaces -> Seq(SyncedEvent)]
      /\ eventsById \in [Workspaces -> SUBSET EventIds]
      /\ cursor[w] \in Cursor /\ old \in Seq(SyncedEvent)
      /\ Len(old) \in Nat
  BY <1>0, Zenon DEF LogInv, LogTypeOK, UploadGrows
<1>5. /\ new \in Seq(SyncedEvent)
      /\ Len(new) = k
      /\ \A n \in 1 .. k :
           /\ new[n].id = evts[n].id
           /\ new[n].workspaceId = w
           /\ new[n].cursor = [position |-> cursor[w].position + n, eventId |-> evts[n].id]
  BY <1>0, Zenon DEF UploadGrows
<1>6. /\ log \in Seq(SyncedEvent)
      /\ Len(log) = Len(old) + k
      /\ DOMAIN log = 1 .. Len(old) + k
      /\ \A i \in 1 .. Len(old) : log[i] = old[i]
      /\ \A n \in 1 .. k : log[Len(old) + n] = new[n]
      /\ \A i \in 1 .. Len(old) + k :
           i \in 1 .. Len(old) \/ \E n \in 1 .. k : i = Len(old) + n
  BY <1>0, Zenon DEF UploadGrows
<1>7. /\ cursor' = [cursor EXCEPT ![w] = new[k].cursor]
      /\ events' = [events EXCEPT ![w] = log]
      /\ eventsById' = [eventsById EXCEPT ![w] = @ \cup Ids(evts)]
  BY <1>0, Zenon DEF UploadGrows
<1>8. /\ events'[w] = log
      /\ cursor'[w] = new[k].cursor
      /\ eventsById'[w] = eventsById[w] \cup Ids(evts)
      /\ \A v \in Workspaces \ {w} : /\ events'[v] = events[v]
                                     /\ cursor'[v] = cursor[v]
                                     /\ eventsById'[v] = eventsById[v]
  BY <1>0, Zenon DEF UploadGrows
<1>9. cursor[w].position = Len(old)
  BY <1>0, Zenon DEF UploadGrows
<1>10. LogTypeOK'
  <2>1. new[k] \in SyncedEvent
    BY <1>3, <1>5
  <2>2. new[k].cursor \in Cursor
    BY <2>1 DEF SyncedEvent
  <2>3. Ids(evts) \subseteq EventIds
    <3>1. \A i \in DOMAIN evts : evts[i] \in Envelope
      BY <1>3
    <3> QED
      BY <3>1 DEF Ids, Envelope
  <2> QED
    BY <2>2, <2>3, <1>3, <1>4, <1>6, <1>7 DEF LogTypeOK
<1>11. CursorIsHead'
  <2>1. \A v \in Workspaces \ {w} :
          cursor'[v] = IF events'[v] = <<>> THEN INITIAL_CURSOR
                       ELSE events'[v][Len(events'[v])].cursor
    BY <1>8 DEF LogInv, CursorIsHead
  <2>2. log # <<>> /\ log[Len(log)] = new[k]
    BY <1>3, <1>4, <1>6
  <2> QED
    BY <2>1, <2>2, <1>8 DEF CursorIsHead
<1>12. PositionsContiguous'
  <2>1. ASSUME NEW v \in Workspaces \ {w}, NEW i \in DOMAIN events'[v]
        PROVE  /\ events'[v][i].cursor = [position |-> i, eventId |-> events'[v][i].id]
               /\ events'[v][i].workspaceId = v
    BY <1>8 DEF LogInv, PositionsContiguous
  <2>2. ASSUME NEW i \in 1 .. Len(old) + k
        PROVE  /\ log[i].cursor = [position |-> i, eventId |-> log[i].id]
               /\ log[i].workspaceId = w
    <3>1. CASE i \in 1 .. Len(old)
      <4>1. i \in DOMAIN old
        BY <3>1, <1>4
      <4>2. /\ old[i].cursor = [position |-> i, eventId |-> old[i].id]
            /\ old[i].workspaceId = w
        BY <4>1, <1>1, <1>3 DEF LogInv, PositionsContiguous
      <4> QED
        BY <3>1, <4>2, <1>6
    <3>2. ASSUME NEW n \in 1 .. k, i = Len(old) + n
          PROVE  /\ log[i].cursor = [position |-> i, eventId |-> log[i].id]
                 /\ log[i].workspaceId = w
      <4>1. log[i] = new[n]
        BY <3>2, <1>6, Zenon
      <4>2. /\ new[n].id = evts[n].id /\ new[n].workspaceId = w
            /\ new[n].cursor = [position |-> cursor[w].position + n, eventId |-> evts[n].id]
        BY <1>5, Zenon
      <4> QED
        BY <3>2, <4>1, <4>2, <1>9
    <3> QED
      BY <3>1, <3>2, <1>6
  <2> QED
    <3> SUFFICES ASSUME NEW v \in Workspaces, NEW i \in DOMAIN events'[v]
                 PROVE  /\ events'[v][i].cursor = [position |-> i, eventId |-> events'[v][i].id]
                        /\ events'[v][i].workspaceId = v
      BY Zenon DEF PositionsContiguous
    <3>1. CASE v = w
      <4>1. DOMAIN events'[v] = 1 .. Len(old) + k
        BY <3>1, <1>6, <1>8, Zenon
      <4> QED
        BY <3>1, <4>1, <2>2, <1>8, Zenon
    <3>2. CASE v # w
      BY <3>2, <2>1
    <3> QED
      BY <3>1, <3>2
<1>13. AcceptedOnce'
  <2>1. \A v \in Workspaces \ {w} :
          /\ \A i, j \in DOMAIN events'[v] : i # j => events'[v][i].id # events'[v][j].id
          /\ eventsById'[v] = Ids(events'[v])
    BY <1>8 DEF LogInv, AcceptedOnce, Ids
  <2>2. /\ eventsById[w] = Ids(old)
        /\ DOMAIN old = 1 .. Len(old) /\ DOMAIN evts = 1 .. k
        /\ \A i, j \in 1 .. Len(old) : i # j => old[i].id # old[j].id
    BY <1>1, <1>2, <1>3, <1>4 DEF LogInv, AcceptedOnce
  <2>3. \A m, n \in 1 .. k : m # n => evts[m].id # evts[n].id
    <3>1. \A m, n \in 1 .. k : m # n => m < n \/ n < m
      BY <1>3
    <3> QED
      BY <3>1, <1>3
  <2>4. \A i \in 1 .. Len(old), n \in 1 .. k : old[i].id # evts[n].id
    <3> SUFFICES ASSUME NEW i \in 1 .. Len(old), NEW n \in 1 .. k
                 PROVE  old[i].id # evts[n].id
      OBVIOUS
    <3>1. old[i].id \in Ids(old) /\ evts[n].id \in Ids(evts)
      BY <2>2, Zenon DEF Ids
    <3>2. Ids(evts) \cap Ids(old) = {}
      BY <2>2, <1>3, Zenon
    <3> QED
      BY <3>1, <3>2
  <2>5. /\ \A i \in 1 .. Len(old) : log[i].id = old[i].id
        /\ \A n \in 1 .. k : log[Len(old) + n].id = evts[n].id
        /\ \A i \in 1 .. Len(old) + k :
             i \in 1 .. Len(old) \/ \E n \in 1 .. k : i = Len(old) + n
    BY <1>5, <1>6, Zenon
  <2>6. ASSUME NEW i \in 1 .. Len(old) + k, NEW j \in 1 .. Len(old) + k, i # j
        PROVE  log[i].id # log[j].id
    <3>1. CASE i \in 1 .. Len(old) /\ j \in 1 .. Len(old)
      BY <3>1, <2>2, <2>5, <2>6, Zenon
    <3>2. ASSUME i \in 1 .. Len(old), NEW n \in 1 .. k, j = Len(old) + n
          PROVE  log[i].id # log[j].id
      BY <3>2, <2>4, <2>5, ZenonT(40)
    <3>3. ASSUME j \in 1 .. Len(old), NEW n \in 1 .. k, i = Len(old) + n
          PROVE  log[i].id # log[j].id
      BY <3>3, <2>4, <2>5, Zenon
    <3>4. ASSUME NEW m \in 1 .. k, NEW n \in 1 .. k, i = Len(old) + m, j = Len(old) + n
          PROVE  log[i].id # log[j].id
      <4>1. m # n
        BY <3>4, <2>6, Zenon
      <4> QED
        BY <3>4, <4>1, <2>3, <2>5, ZenonT(40)
    <3> QED
      BY <3>1, <3>2, <3>3, <3>4, <2>5, Zenon
  <2>7. Ids(log) = Ids(old) \cup Ids(evts)
    <3>1. /\ DOMAIN log = 1 .. Len(old) + k
          /\ \A i \in 1 .. Len(old) : i \in 1 .. Len(old) + k
          /\ \A n \in 1 .. k : Len(old) + n \in 1 .. Len(old) + k
      <4>1. \A i \in 1 .. Len(old) : i \in 1 .. Len(old) + k
        BY <1>3, <1>4
      <4>2. \A n \in 1 .. k : Len(old) + n \in 1 .. Len(old) + k
        BY <1>3, <1>4
      <4> QED
        BY <4>1, <4>2, <1>6, Zenon
    <3>2. Ids(log) \subseteq Ids(old) \cup Ids(evts)
      <4> SUFFICES ASSUME NEW i \in 1 .. Len(old) + k
                   PROVE  log[i].id \in Ids(old) \cup Ids(evts)
        BY <3>1, Zenon DEF Ids
      <4>1. CASE i \in 1 .. Len(old)
        BY <4>1, <2>2, <2>5, Zenon DEF Ids
      <4>2. ASSUME NEW n \in 1 .. k, i = Len(old) + n
            PROVE  log[i].id \in Ids(evts)
        BY <4>2, <2>2, <2>5, Zenon DEF Ids
      <4> QED
        BY <4>1, <4>2, <2>5, Zenon
    <3>3. Ids(old) \subseteq Ids(log)
      <4> SUFFICES ASSUME NEW i \in 1 .. Len(old) PROVE old[i].id \in Ids(log)
        BY <2>2, Zenon DEF Ids
      <4>1. log[i].id \in Ids(log)
        BY <3>1, Zenon DEF Ids
      <4> QED
        BY <4>1, <2>5, Zenon
    <3>4. Ids(evts) \subseteq Ids(log)
      <4> SUFFICES ASSUME NEW n \in 1 .. k PROVE evts[n].id \in Ids(log)
        BY <2>2, Zenon DEF Ids
      <4>1. log[Len(old) + n].id \in Ids(log)
        BY <3>1, Zenon DEF Ids
      <4> QED
        BY <4>1, <2>5, Zenon
    <3> QED
      BY <3>2, <3>3, <3>4, Zenon
  <2>8. /\ DOMAIN events'[w] = 1 .. Len(old) + k
        /\ events'[w] = log
        /\ eventsById'[w] = Ids(events'[w])
    BY <2>2, <2>7, <1>6, <1>8, Zenon
  <2> SUFFICES ASSUME NEW v \in Workspaces
               PROVE  /\ \A i, j \in DOMAIN events'[v] :
                           i # j => events'[v][i].id # events'[v][j].id
                      /\ eventsById'[v] = Ids(events'[v])
    BY Zenon DEF AcceptedOnce, Ids
  <2>9. CASE v = w
    BY <2>6, <2>8, <2>9, ZenonT(40)
  <2>10. CASE v # w
    BY <2>1, <2>10
  <2> QED
    BY <2>9, <2>10
<1> QED
  BY <1>10, <1>11, <1>12, <1>13 DEF LogInv

(* Every upload and every other step keeps it.                              *)
LEMMA NextKeepsLogInv == LogInv /\ [Next]_vars => LogInv'
<1> SUFFICES ASSUME LogInv, [Next]_vars PROVE LogInv'
  OBVIOUS
<1>1. CASE UNCHANGED vars
  BY <1>1 DEF vars, LogInv, LogTypeOK, CursorIsHead, PositionsContiguous, AcceptedOnce
<1>2. CASE Next
  <2>1. PICK body, checksum : BodyShape(body) /\ UploadRequest(body, checksum)
    BY <1>2, RequestsHaveShape DEF LogInv
  <2>2. CASE Upload(body, checksum)
    BY <2>1, <2>2, UploadKeepsLogInv
  <2>3. CASE UploadRefused(body, checksum)
    BY <2>3, <1>1 DEF UploadRefused
  <2> QED
    BY <2>1, <2>2, <2>3 DEF UploadRequest
<1> QED
  BY <1>1, <1>2

(* In every reachable state the log's positions run 1, 2, 3, ... to the     *)
(* cursor, every id is there once and the index knows it.                   *)
THEOREM LogInvariant == Spec => []LogInv
<1>1. Init => LogInv
  BY InitLogInv
<1>2. LogInv /\ [Next]_vars => LogInv'
  BY NextKeepsLogInv
<1> QED
  BY <1>1, <1>2, PTL DEF Spec

(* The repository's cursor is always the cursor of its last event.          *)
THEOREM CursorIsAlwaysHead == Spec => []CursorIsHead
<1>1. LogInv => CursorIsHead
  BY DEF LogInv
<1> QED
  BY <1>1, LogInvariant, PTL

(* Positions never have a hole and never carry a stranger's event.          *)
THEOREM PositionsAlwaysContiguous == Spec => []PositionsContiguous
<1>1. LogInv => PositionsContiguous
  BY DEF LogInv
<1> QED
  BY <1>1, LogInvariant, PTL

(* No id is accepted twice in a workspace.                                  *)
THEOREM AlwaysAcceptedOnce == Spec => []AcceptedOnce
<1>1. LogInv => AcceptedOnce
  BY DEF LogInv
<1> QED
  BY <1>1, LogInvariant, PTL

-----------------------------------------------------------------------------
(* Batches.  Their record is written beside the log, so that they tile it   *)
(* needs the log's own invariant.                                           *)
Batch == [deviceId : Devices, baseCursor : Cursor,
          nextCursor : Cursor, eventIds : Seq(EventIds)]

(* Batch b stands in the log where its cursors say.                         *)
Placed(b, log) ==
  /\ b.nextCursor.position = b.baseCursor.position + Len(b.eventIds)
  /\ \A k \in DOMAIN b.eventIds :
       /\ b.baseCursor.position + k <= Len(log)
       /\ log[b.baseCursor.position + k].id = b.eventIds[k]
       /\ log[b.baseCursor.position + k].deviceId = b.deviceId

(* The batches of one workspace tile its log.                               *)
Tiled(bs, log, head) ==
  /\ \A i \in 1 .. Len(bs) :
       /\ bs[i].baseCursor = IF i = 1 THEN INITIAL_CURSOR ELSE bs[i - 1].nextCursor
       /\ Placed(bs[i], log)
  /\ Len(bs) > 0 => bs[Len(bs)].nextCursor = head

(* A workspace without batches still has the cursor it began with.          *)
RepositoryInv ==
  /\ LogInv
  /\ batches \in [Workspaces -> Seq(Batch)]
  /\ \A w \in Workspaces :
       /\ Tiled(batches[w], events[w], cursor[w])
       /\ batches[w] = <<>> => cursor[w] = INITIAL_CURSOR

(* The batch an accepted upload stores.                                     *)
StoresBatch(b, w, evts, k, new) ==
  /\ batches' = [batches EXCEPT ![w] = Append(@, b)]
  /\ b.baseCursor = cursor[w]
  /\ b.nextCursor = cursor'[w]
  /\ b.eventIds = [i \in 1 .. k |-> evts[i].id]
  /\ Len(b.eventIds) = k
  /\ \A n \in 1 .. k : new[n].deviceId = b.deviceId

(* An accepted upload stores its batch behind those there are.              *)
LEMMA UploadStoresBatch ==
  ASSUME LogInv, NEW body, NEW checksum, BodyShape(body), Upload(body, checksum),
         NEW w, NEW evts, NEW k, NEW old, NEW new, NEW log,
         UploadGrows(body, w, evts, k, old, new, log)
  PROVE  \E b \in Batch : StoresBatch(b, w, evts, k, new)
<1>1. PICK b : b = StoredBatch(body)
  OBVIOUS
<1>2. /\ w = body.workspaceId /\ evts = body.events /\ k = Len(evts) /\ k \in Nat \ {0}
      /\ new = Accepted(cursor[w], evts) /\ cursor[w] \in Cursor
      /\ evts \in Seq(Envelope) /\ CanAdvance(cursor[w], k)
      /\ new \in Seq(SyncedEvent) /\ Len(new) = k
      /\ cursor'[w] = new[k].cursor
  BY Zenon DEF UploadGrows
<1>3. ValidateUploadRequest(body) /\ OnHead(body)
  BY DEF Upload, UploadError
<1>4. body.baseCursor = cursor[w]
  BY <1>2, <1>3 DEF OnHead
<1>5. /\ b.deviceId = body.deviceId
      /\ b.baseCursor = cursor[w]
      /\ b.nextCursor = new[k].cursor
      /\ b.eventIds = [i \in 1 .. k |-> evts[i].id]
      /\ b = [deviceId |-> body.deviceId, baseCursor |-> cursor[w],
              nextCursor |-> new[k].cursor, eventIds |-> [i \in 1 .. k |-> evts[i].id]]
  BY <1>1, <1>2, <1>4 DEF StoredBatch, HeadAfter
<1>6. [i \in 1 .. k |-> evts[i].id] \in Seq(EventIds) /\ Len([i \in 1 .. k |-> evts[i].id]) = k
  <2>1. \A i \in 1 .. k : evts[i].id \in EventIds
    <3>1. \A i \in 1 .. k : evts[i] \in Envelope
      BY <1>2
    <3> QED
      BY <3>1 DEF Envelope
  <2> QED
    BY <1>2, <2>1
<1>7. new[k].cursor \in Cursor
  <2>1. new[k] \in SyncedEvent
    BY <1>2
  <2> QED
    BY <2>1 DEF SyncedEvent
<1>8. b \in Batch
  BY <1>2, <1>5, <1>6, <1>7 DEF Batch, BodyShape
<1>9. \A n \in 1 .. k : new[n].deviceId = b.deviceId
  <2>1. \A n \in 1 .. k : evts[n].deviceId = body.deviceId
    BY <1>2, <1>3 DEF ValidateUploadRequest
  <2>2. \A n \in 1 .. k : new[n].deviceId = evts[n].deviceId
    <3>1. CanAdvance(cursor[w], Len(evts))
      BY <1>2
    <3>2. \A n \in 1 .. Len(evts) : Accepted(cursor[w], evts)[n].deviceId = evts[n].deviceId
      BY <1>2, <3>1, AcceptedBatch
    <3> QED
      BY <1>2, <3>2
  <2> QED
    BY <1>5, <2>1, <2>2, Zenon
<1>10. batches' = [batches EXCEPT ![w] = Append(@, b)]
  BY <1>1, <1>2 DEF Upload
<1> QED
  BY <1>2, <1>5, <1>6, <1>8, <1>9, <1>10, Zenon DEF StoresBatch

(* A tiled log that grows by one batch at its head is tiled.                *)
LEMMA TiledAppend ==
  ASSUME NEW bs \in Seq(Batch), NEW b \in Batch, NEW log, NEW more, NEW head,
         Tiled(bs, log, head), bs = <<>> => head = INITIAL_CURSOR,
         b.baseCursor = head, Placed(b, more),
         Len(log) \in Nat, Len(more) \in Nat, Len(log) <= Len(more),
         \A i \in 1 .. Len(log) : more[i] = log[i]
  PROVE  Tiled(Append(bs, b), more, b.nextCursor)
<1>1. PICK cs, n : cs = Append(bs, b) /\ n = Len(bs)
  OBVIOUS
<1>2. /\ n \in Nat /\ Len(cs) = n + 1 /\ cs[n + 1] = b
      /\ \A i \in 1 .. n : cs[i] = bs[i] /\ bs[i] \in Batch
  BY <1>1
<1>3. ASSUME NEW i \in 1 .. n PROVE Placed(bs[i], more)
  <2>1. PICK c : c = bs[i]
    OBVIOUS
  <2>2. c \in Batch /\ Placed(c, log)
    BY <1>1, <1>2, <2>1 DEF Tiled
  <2>3. /\ c.baseCursor.position \in Nat
        /\ \A k \in DOMAIN c.eventIds : k \in Nat \ {0}
    BY <2>2, SMTT(30) DEF Batch, Cursor
  <2>4. ASSUME NEW k \in DOMAIN c.eventIds
        PROVE  /\ c.baseCursor.position + k <= Len(more)
               /\ more[c.baseCursor.position + k] = log[c.baseCursor.position + k]
    <3>1. c.baseCursor.position + k <= Len(log)
      BY <2>2 DEF Placed
    <3>2. c.baseCursor.position + k \in 1 .. Len(log)
      BY <2>3, <3>1
    <3> QED
      BY <3>1, <3>2
  <2> QED
    BY <2>1, <2>2, <2>4 DEF Placed
<1>4. ASSUME NEW i \in 1 .. n + 1
      PROVE  /\ cs[i].baseCursor = IF i = 1 THEN INITIAL_CURSOR ELSE cs[i - 1].nextCursor
             /\ Placed(cs[i], more)
  <2>1. CASE i \in 1 .. n
    <3>1. i # 1 => i - 1 \in 1 .. n
      BY <1>2, <2>1
    <3> QED
      BY <1>1, <1>2, <1>3, <2>1, <3>1 DEF Tiled
  <2>2. CASE i = n + 1
    <3>1. n = 0 => bs = <<>>
      BY <1>1, EmptySeq
    <3>2. n # 0 => n > 0 /\ n \in 1 .. n /\ i # 1 /\ i - 1 = n
      BY <1>2, <2>2
    <3>3. n # 0 => bs[n].nextCursor = head
      BY <1>1, <3>2 DEF Tiled
    <3> QED
      BY <1>2, <2>2, <3>1, <3>2, <3>3
  <2> QED
    BY <1>2, <2>1, <2>2
<1> QED
  BY <1>1, <1>2, <1>4 DEF Tiled

(* So the batches still tile the log.                                       *)
LEMMA UploadKeepsRepositoryInv ==
  ASSUME RepositoryInv, NEW body, NEW checksum, BodyShape(body), Upload(body, checksum)
  PROVE  RepositoryInv'
<1>1. LogInv /\ LogInv'
  BY UploadKeepsLogInv DEF RepositoryInv
<1>2. PICK w, evts, k, old, new, log : UploadGrows(body, w, evts, k, old, new, log)
  BY <1>1, AcceptedUploadGrows
<1>3. PICK b \in Batch : StoresBatch(b, w, evts, k, new)
  BY <1>1, <1>2, UploadStoresBatch
<1>4. /\ batches' = [batches EXCEPT ![w] = Append(@, b)]
      /\ b.baseCursor = cursor[w]
      /\ b.nextCursor = cursor'[w]
      /\ b.eventIds = [i \in 1 .. k |-> evts[i].id]
      /\ Len(b.eventIds) = k
      /\ \A n \in 1 .. k : new[n].deviceId = b.deviceId
  BY <1>3, Zenon DEF StoresBatch
<1>5. /\ w \in Workspaces /\ old = events[w] /\ k \in Nat \ {0}
      /\ Len(old) \in Nat /\ Len(log) = Len(old) + k
      /\ \A i \in 1 .. Len(old) : log[i] = old[i]
      /\ \A n \in 1 .. k : log[Len(old) + n] = new[n] /\ new[n].id = evts[n].id
      /\ new[k].cursor = [position |-> cursor[w].position + k, eventId |-> evts[k].id]
      /\ cursor'[w] = new[k].cursor /\ events'[w] = log
      /\ \A v \in Workspaces \ {w} : events'[v] = events[v] /\ cursor'[v] = cursor[v]
      /\ cursor[w].position = Len(old)
  <2>1. k \in Nat \ {0} /\ \A n \in 1 .. k :
          new[n].cursor = [position |-> cursor[w].position + n, eventId |-> evts[n].id]
    BY <1>2, Zenon DEF UploadGrows
  <2>2. k \in 1 .. k
    BY <2>1
  <2> QED
    BY <1>2, <2>1, <2>2, Zenon DEF UploadGrows
<1>6. PICK bs : bs = batches[w]
  OBVIOUS
<1>7. /\ batches \in [Workspaces -> Seq(Batch)] /\ bs \in Seq(Batch)
      /\ Tiled(bs, old, cursor[w]) /\ (bs = <<>> => cursor[w] = INITIAL_CURSOR)
  BY <1>5, <1>6 DEF RepositoryInv
<1>8. /\ batches' \in [Workspaces -> Seq(Batch)]
      /\ batches'[w] = Append(bs, b)
      /\ \A v \in Workspaces \ {w} : batches'[v] = batches[v]
  BY <1>4, <1>5, <1>6, <1>7
<1>9. Placed(b, log)
  <2>1. b.nextCursor.position = b.baseCursor.position + Len(b.eventIds)
    BY <1>4, <1>5
  <2>2. DOMAIN b.eventIds = 1 .. k /\ \A n \in 1 .. k : b.eventIds[n] = evts[n].id
    BY <1>4
  <2>3. ASSUME NEW n \in 1 .. k
        PROVE  /\ b.baseCursor.position + n = Len(old) + n
               /\ Len(old) + n <= Len(log)
    <3>1. b.baseCursor.position = Len(old)
      BY <1>4, <1>5, Zenon
    <3>2. Len(log) = Len(old) + k /\ Len(old) \in Nat /\ k \in Nat
      BY <1>5, Zenon
    <3> QED
      BY <3>1, <3>2
  <2> QED
    <3>1. \A n \in 1 .. k : log[Len(old) + n].id = evts[n].id /\ log[Len(old) + n].deviceId = b.deviceId
      <4> SUFFICES ASSUME NEW n \in 1 .. k
                   PROVE  log[Len(old) + n].id = evts[n].id /\ log[Len(old) + n].deviceId = b.deviceId
        OBVIOUS
      <4>1. log[Len(old) + n] = new[n] /\ new[n].id = evts[n].id
        BY <1>5, Zenon
      <4>2. new[n].deviceId = b.deviceId
        BY <1>4, Zenon
      <4> QED
        BY <4>1, <4>2, Zenon
    <3>2. \A n \in 1 .. k : log[b.baseCursor.position + n].id = b.eventIds[n]
      BY <2>2, <2>3, <3>1, Zenon
    <3>3. \A n \in 1 .. k : /\ log[b.baseCursor.position + n].deviceId = b.deviceId
                            /\ b.baseCursor.position + n <= Len(log)
      BY <2>3, <3>1, Zenon
    <3> QED
      BY <2>1, <2>2, <3>2, <3>3, Zenon DEF Placed
<1>10. Tiled(batches'[w], events'[w], cursor'[w]) /\ batches'[w] # <<>>
  <2>1. Len(old) <= Len(log) /\ Len(log) \in Nat
    BY <1>5
  <2>2. Tiled(Append(bs, b), log, b.nextCursor)
    BY <1>4, <1>5, <1>7, <1>9, <2>1, TiledAppend, Zenon
  <2>3. Append(bs, b) # <<>>
    BY <1>7
  <2> QED
    BY <1>4, <1>5, <1>8, <2>2, <2>3
<1>11. ASSUME NEW v \in Workspaces, v # w
       PROVE  /\ Tiled(batches'[v], events'[v], cursor'[v])
              /\ batches'[v] = <<>> => cursor'[v] = INITIAL_CURSOR
  BY <1>5, <1>8, <1>11 DEF RepositoryInv
<1> QED
  BY <1>1, <1>8, <1>10, <1>11 DEF RepositoryInv

(* Empty workspaces have no batches.                                        *)
LEMMA InitRepositoryInv == Init => RepositoryInv
<1> SUFFICES ASSUME Init PROVE RepositoryInv
  OBVIOUS
<1>1. <<>> \in Seq(Batch) /\ Len(<<>>) = 0
  OBVIOUS
<1>2. Tiled(<<>>, <<>>, INITIAL_CURSOR)
  BY <1>1 DEF Tiled
<1> QED
  BY <1>1, <1>2, InitLogInv DEF Init, RepositoryInv

(* Every step keeps it.                                                     *)
LEMMA NextKeepsRepositoryInv == RepositoryInv /\ [Next]_vars => RepositoryInv'
<1> SUFFICES ASSUME RepositoryInv, [Next]_vars PROVE RepositoryInv'
  OBVIOUS
<1>1. CASE UNCHANGED vars
  BY <1>1, NextKeepsLogInv DEF vars, RepositoryInv
<1>2. CASE Next
  <2>1. PICK body, checksum : BodyShape(body) /\ UploadRequest(body, checksum)
    BY <1>2, RequestsHaveShape DEF RepositoryInv, LogInv
  <2>2. CASE Upload(body, checksum)
    BY <2>1, <2>2, UploadKeepsRepositoryInv
  <2>3. CASE UploadRefused(body, checksum)
    BY <2>3, <1>1 DEF UploadRefused
  <2> QED
    BY <2>1, <2>2, <2>3 DEF UploadRequest
<1> QED
  BY <1>1, <1>2

(* Types, log and batches fit together always.                              *)
THEOREM RepositoryInvariant == Spec => []RepositoryInv
<1> QED
  BY InitRepositoryInv, NextKeepsRepositoryInv, PTL DEF Spec

(* The repository's state always has its types: no position outgrows what a *)
(* cursor may hold, in the log, in the cursors or in a stored batch.        *)
THEOREM TypeAlwaysOK == Spec => []TypeOK
<1>1. RepositoryInv => TypeOK
  BY DEF RepositoryInv, LogInv, LogTypeOK, TypeOK, Batch
<1> QED
  BY <1>1, RepositoryInvariant, PTL

(* Stored batches tile the log they recorded, in order and without a gap.   *)
THEOREM BatchesAlwaysTile == Spec => []BatchesTileTheLog
<1>1. RepositoryInv => BatchesTileTheLog
  <2>1. ASSUME RepositoryInv, NEW w \in Workspaces
        PROVE  Tiled(batches[w], events[w], cursor[w])
    BY <2>1 DEF RepositoryInv
  <2> QED
    BY <2>1 DEF BatchesTileTheLog, Tiled, Placed
<1> QED
  BY <1>1, RepositoryInvariant, PTL

-----------------------------------------------------------------------------
(* The repository implements SyncLog: an accepted upload is one batch       *)
(* appended, everything else a stutter.                                     *)
LEMMA InitImplements == Init => Log!Init
<1> SUFFICES ASSUME Init, NEW w \in Workspaces
             PROVE  [i \in 1 .. Len(events[w]) |-> events[w][i].id] = <<>>
  BY DEF Log!Init, LogIds
<1>1. events[w] = <<>>
  BY DEF Init
<1> QED
  BY <1>1

(* An upload that is accepted is one AppendBatch of the abstract log, any   *)
(* other none.                                                              *)
LEMMA UploadImplements ==
  ASSUME LogInv, LogInv', NEW body, NEW checksum, BodyShape(body), Upload(body, checksum)
  PROVE  Log!Next
<1>1. PICK w, evts, k, old, new, log : UploadGrows(body, w, evts, k, old, new, log)
  BY AcceptedUploadGrows
<1>2. /\ w \in Workspaces /\ old = events[w] /\ k \in Nat \ {0}
      /\ evts \in Seq(Envelope) /\ Len(evts) = k
      /\ old \in Seq(SyncedEvent)
      /\ Len(old) \in Nat /\ Len(log) = Len(old) + k
      /\ \A i \in 1 .. Len(old) : log[i] = old[i]
      /\ \A n \in 1 .. k : log[Len(old) + n] = new[n] /\ new[n].id = evts[n].id
      /\ \A i, j \in 1 .. k : i < j => evts[i].id # evts[j].id
      /\ Ids(evts) \cap eventsById[w] = {}
      /\ CanAdvance(cursor[w], k) /\ cursor[w].position = Len(old)
      /\ events' = [events EXCEPT ![w] = log]
      /\ events'[w] = log
      /\ \A v \in Workspaces \ {w} : events'[v] = events[v]
  BY <1>1, Zenon DEF UploadGrows
<1>3. PICK ids : ids = [i \in 1 .. k |-> evts[i].id]
  OBVIOUS
<1>4. ids \in [1 .. k -> EventIds] /\ Len(ids) = k /\ DOMAIN ids = 1 .. k
  <2>1. \A i \in 1 .. k : evts[i].id \in EventIds
    <3>1. \A i \in 1 .. k : evts[i] \in Envelope
      BY <1>2
    <3> QED
      BY <3>1 DEF Envelope
  <2> QED
    BY <1>2, <1>3, <2>1
<1>5. k \in 1 .. MaxPosition /\ Len(old) + k <= MaxPosition
  BY <1>2, CursorAssumption DEF CanAdvance
<1>6. LogIds[w] = [i \in 1 .. Len(old) |-> old[i].id] /\ Len(LogIds[w]) = Len(old)
  BY <1>2 DEF LogIds
<1>7. \A i \in DOMAIN ids : ids[i] \notin Log!InLog(w)
  <2>1. eventsById[w] = Ids(old)
    BY <1>2 DEF LogInv, AcceptedOnce
  <2>2. Log!InLog(w) = Ids(old)
    <3>1. Log!InLog(w) = {LogIds[w][i] : i \in DOMAIN LogIds[w]}
      BY DEF Log!InLog
    <3>2. DOMAIN LogIds[w] = 1 .. Len(old) /\ DOMAIN old = 1 .. Len(old)
      BY <1>2, <1>6
    <3>3. \A i \in 1 .. Len(old) : LogIds[w][i] = old[i].id
      BY <1>6
    <3> QED
      BY <3>1, <3>2, <3>3, Zenon DEF Ids
  <2>3. \A i \in DOMAIN ids : ids[i] \in Ids(evts)
    BY <1>2, <1>3, <1>4 DEF Ids
  <2> QED
    BY <1>2, <2>1, <2>2, <2>3
<1>8. \A i, j \in DOMAIN ids : i # j => ids[i] # ids[j]
  <2>1. \A i, j \in 1 .. k : i # j => i < j \/ j < i
    BY <1>2
  <2> QED
    BY <1>2, <1>3, <1>4, <2>1
<1>9. LogIds' = [LogIds EXCEPT ![w] = @ \o ids]
  <2>1. [i \in 1 .. Len(log) |-> log[i].id] = [i \in 1 .. Len(old) |-> old[i].id] \o ids
    <3>1. PICK s : s = [i \in 1 .. Len(old) |-> old[i].id]
      OBVIOUS
    <3>2. s \in Seq(EventIds) /\ ids \in Seq(EventIds) /\ Len(s) = Len(old)
      <4>1. \A i \in 1 .. Len(old) : old[i].id \in EventIds
        <5>1. \A i \in 1 .. Len(old) : old[i] \in SyncedEvent
          BY <1>2
        <5> QED
          BY <5>1 DEF SyncedEvent
      <4>2. Len(old) \in Nat /\ k \in Nat
        BY <1>2, Zenon
      <4>3. s \in Seq(EventIds) /\ Len(s) = Len(old)
        BY <3>1, <4>1, <4>2
      <4>4. ids \in Seq(EventIds)
        BY <1>4, <4>2
      <4> QED
        BY <4>3, <4>4
    <3>3. \A i \in 1 .. Len(old) + k :
            log[i].id = IF i <= Len(old) THEN s[i] ELSE ids[i - Len(old)]
      <4> SUFFICES ASSUME NEW i \in 1 .. Len(old) + k
                   PROVE  log[i].id = IF i <= Len(old) THEN s[i] ELSE ids[i - Len(old)]
        OBVIOUS
      <4>1. CASE i <= Len(old)
        <5>1. i \in 1 .. Len(old)
          BY <3>2, <4>1
        <5>2. log[i] = old[i]
          BY <1>2, <5>1, Zenon
        <5> QED
          BY <3>1, <4>1, <5>1, <5>2
      <4>2. CASE ~(i <= Len(old))
        <5>1. PICK n \in 1 .. k : i = Len(old) + n /\ i - Len(old) = n
          <6>1. k \in Nat
            BY <1>2, Zenon
          <6>2. i - Len(old) \in 1 .. k /\ i = Len(old) + (i - Len(old))
            BY <3>2, <4>2, <6>1
          <6> QED
            BY <6>2
        <5>2. log[i] = new[n] /\ new[n].id = evts[n].id
          BY <1>2, <5>1, Zenon
        <5> QED
          BY <1>3, <4>2, <5>1, <5>2
      <4> QED
        BY <4>1, <4>2
    <3>4. /\ s \o ids \in Seq(EventIds) /\ Len(s \o ids) = Len(old) + k
          /\ \A i \in 1 .. Len(old) + k :
               (s \o ids)[i] = IF i <= Len(old) THEN s[i] ELSE ids[i - Len(old)]
      <4>1. /\ s \o ids \in Seq(EventIds) /\ Len(s \o ids) = Len(s) + Len(ids)
            /\ \A i \in 1 .. Len(s) + Len(ids) :
                 (s \o ids)[i] = IF i <= Len(s) THEN s[i] ELSE ids[i - Len(s)]
        BY <3>2, ConcatProperties
      <4> QED
        BY <1>4, <3>2, <4>1
    <3>5. PICK t : t = s \o ids
      OBVIOUS
    <3>6. t \in Seq(EventIds) /\ Len(t) = Len(old) + k
          /\ \A i \in 1 .. Len(old) + k : t[i] = log[i].id
      BY <3>3, <3>4, <3>5
    <3>7. t = [i \in 1 .. Len(old) + k |-> log[i].id]
      BY <3>6
    <3> QED
      BY <1>2, <3>1, <3>5, <3>7
  <2>2. \A v \in Workspaces :
          LogIds'[v] = IF v = w THEN LogIds[w] \o ids ELSE LogIds[v]
    <3>1. ASSUME NEW v \in Workspaces, v # w PROVE LogIds'[v] = LogIds[v]
      BY <1>2, <3>1 DEF LogIds
    <3>2. LogIds'[w] = [i \in 1 .. Len(log) |-> log[i].id]
      BY <1>2 DEF LogIds
    <3> QED
      BY <1>6, <2>1, <3>1, <3>2
  <2>3. LogIds' = [v \in Workspaces |-> LogIds'[v]] /\ LogIds = [v \in Workspaces |-> LogIds[v]]
    BY DEF LogIds
  <2> QED
    BY <2>2, <2>3, Zenon
<1>10. Log!AppendBatch(w, ids)
  BY <1>4, <1>5, <1>6, <1>7, <1>8, <1>9 DEF Log!AppendBatch
<1> QED
  BY <1>2, <1>4, <1>5, <1>10 DEF Log!Next

(* upload is the append-only log its callers rely on: batches land whole,   *)
(* at the end, with ids never seen before, and nothing is ever taken back.  *)
THEOREM RepositoryImplementsLog == Spec => ImplementsLog
<1>1. LogInv /\ LogInv' /\ [Next]_vars => [Log!Next]_LogIds
  <2> SUFFICES ASSUME LogInv, LogInv', [Next]_vars PROVE [Log!Next]_LogIds
    OBVIOUS
  <2>1. CASE UNCHANGED vars
    BY <2>1 DEF vars, LogIds
  <2>2. CASE Next
    <3>1. PICK body, checksum : BodyShape(body) /\ UploadRequest(body, checksum)
      BY <2>2, RequestsHaveShape DEF LogInv
    <3>2. CASE Upload(body, checksum)
      BY <3>1, <3>2, UploadImplements
    <3>3. CASE UploadRefused(body, checksum)
      BY <2>1, <3>3 DEF UploadRefused
    <3> QED
      BY <3>1, <3>2, <3>3 DEF UploadRequest
  <2> QED
    BY <2>1, <2>2
<1> QED
  BY <1>1, InitImplements, LogInvariant, PTL DEF Spec, ImplementsLog, Log!Spec
-----------------------------------------------------------------------------
(* Downloads.  The cursor at a place of the log, 0 being before all events. *)
At(w, n) ==
  IF n = 0 THEN INITIAL_CURSOR ELSE [position |-> n, eventId |-> events[w][n].id]

(* What LogInv says of one workspace's log.                                 *)
LEMMA LogFacts ==
  ASSUME LogInv, NEW w \in Workspaces
  PROVE  /\ events[w] \in Seq(SyncedEvent) /\ Len(events[w]) \in Nat
         /\ DOMAIN events[w] = 1 .. Len(events[w])
         /\ \A i \in 1 .. Len(events[w]) :
              /\ events[w][i].cursor = At(w, i) /\ At(w, i).position = i
              /\ events[w][i].id \in Nat /\ At(w, i).eventId = events[w][i].id
         /\ cursor[w] = At(w, Len(events[w]))
<1>1. /\ events[w] \in Seq(SyncedEvent) /\ Len(events[w]) \in Nat
      /\ DOMAIN events[w] = 1 .. Len(events[w])
  BY DEF LogInv, LogTypeOK
<1>2. ASSUME NEW i \in 1 .. Len(events[w])
      PROVE  /\ events[w][i].cursor = At(w, i) /\ At(w, i).position = i
             /\ events[w][i].id \in Nat /\ At(w, i).eventId = events[w][i].id
  <2>1. events[w][i].cursor = [position |-> i, eventId |-> events[w][i].id]
    BY <1>1 DEF LogInv, PositionsContiguous
  <2>2. i # 0
    BY <1>1
  <2>3. events[w][i] \in SyncedEvent
    BY <1>1
  <2> QED
    BY <2>1, <2>2, <2>3, CursorAssumption DEF At, SyncedEvent
<1>3. CASE events[w] = <<>>
  BY <1>1, <1>2, <1>3 DEF LogInv, CursorIsHead, At
<1>4. CASE events[w] # <<>>
  <2>1. Len(events[w]) \in 1 .. Len(events[w])
    BY <1>1, <1>4
  <2> QED
    BY <1>1, <1>2, <1>4, <2>1 DEF LogInv, CursorIsHead
<1> QED
  BY <1>1, <1>2, <1>3, <1>4

(* A cursor names one place of the log.                                     *)
LEMMA AtPosition ==
  ASSUME LogInv, NEW w \in Workspaces, NEW n \in 0 .. Len(events[w])
  PROVE  At(w, n).position = n
<1>1. CASE n = 0
  BY <1>1 DEF At, INITIAL_CURSOR
<1>2. CASE n # 0
  <2>1. n \in 1 .. Len(events[w])
    BY <1>2, LogFacts
  <2> QED
    BY <2>1, LogFacts
<1> QED
  BY <1>1, <1>2

(* The repository hands out the cursors of the log's places and no other.   *)
LEMMA IssuedAreAt ==
  ASSUME LogInv, NEW w \in Workspaces
  PROVE  IssuedCursors(w) = {At(w, n) : n \in 0 .. Len(events[w])}
<1>1. IssuedCursors(w) = {INITIAL_CURSOR} \cup {At(w, i) : i \in 1 .. Len(events[w])}
  BY LogFacts DEF IssuedCursors
<1>2. At(w, 0) = INITIAL_CURSOR
  BY DEF At
<1>3. 0 .. Len(events[w]) = {0} \cup 1 .. Len(events[w])
  BY LogFacts
<1> QED
  BY <1>1, <1>2, <1>3

(* The events behind the nth cursor are those after the nth place.          *)
LEMMA PlacesAfter ==
  ASSUME LogInv, NEW w \in Workspaces, NEW n \in 0 .. Len(events[w])
  PROVE  {i \in DOMAIN events[w] : CursorLess(At(w, n), events[w][i].cursor)}
           = n + 1 .. Len(events[w])
<1>1. Len(events[w]) \in Nat /\ DOMAIN events[w] = 1 .. Len(events[w]) /\ n \in Nat
  BY LogFacts
<1>2. ASSUME NEW i \in 1 .. Len(events[w])
      PROVE  CursorLess(At(w, n), events[w][i].cursor) <=> n < i
  <2>1. /\ events[w][i].cursor = At(w, i) /\ At(w, i).position = i
        /\ At(w, n).position = n /\ At(w, i).eventId \in Nat
    BY LogFacts, AtPosition
  <2>2. n = i => ~(At(w, n).eventId < At(w, i).eventId)
    BY <2>1
  <2> QED
    BY <1>1, <2>1, <2>2 DEF CursorLess
<1>3. {i \in DOMAIN events[w] : CursorLess(At(w, n), events[w][i].cursor)}
        = {i \in 1 .. Len(events[w]) : n < i}
  BY <1>1, <1>2
<1>4. {i \in 1 .. Len(events[w]) : n < i} = n + 1 .. Len(events[w])
  BY <1>1
<1> QED
  BY <1>3, <1>4

(* Sorting them leaves them as they are in the log.                         *)
LEMMA OrderedSuffix ==
  ASSUME LogInv, NEW w \in Workspaces, NEW n \in 0 .. Len(events[w])
  PROVE  Ordered(w, n + 1 .. Len(events[w])) = SubSeq(events[w], n + 1, Len(events[w]))
<1>1. PICK L, P : L = Len(events[w]) /\ P = n + 1 .. L
  OBVIOUS
<1>2. L \in Nat /\ n \in Nat /\ n <= L /\ P \subseteq 1 .. L
  BY <1>1, LogFacts
<1>3. Cardinality(P) = L - n
  <2>1. n + 1 \in Int /\ L \in Int
    BY <1>2
  <2>2. Cardinality(n + 1 .. L) = IF n + 1 > L THEN 0 ELSE L - (n + 1) + 1
    BY <2>1, FS_Interval, Zenon
  <2> QED
    BY <1>1, <1>2, <2>2
<1>4. ASSUME NEW i \in P, NEW j \in P PROVE SortsBefore(w, j, i) <=> j < i
  <2>1. i \in 1 .. L /\ j \in 1 .. L
    BY <1>2
  <2>2. /\ events[w][i].cursor = At(w, i) /\ events[w][j].cursor = At(w, j)
        /\ At(w, i).position = i /\ At(w, j).position = j
        /\ At(w, i).eventId \in Nat /\ At(w, j).eventId \in Nat
    BY <1>1, <2>1, LogFacts
  <2>3. i = j => ~(At(w, j).eventId < At(w, i).eventId)
    BY <2>2
  <2> QED
    BY <1>2, <2>1, <2>2, <2>3 DEF SortsBefore, CursorLess
<1>5. ASSUME NEW i \in P
      PROVE  Cardinality({j \in P : SortsBefore(w, j, i)}) = i - n - 1
  <2>1. {j \in P : SortsBefore(w, j, i)} = {j \in P : j < i}
    BY <1>4
  <2>2. {j \in P : j < i} = n + 1 .. i - 1
    BY <1>1, <1>2
  <2>3. Cardinality(n + 1 .. i - 1) = i - n - 1
    BY <1>1, <1>2, FS_Interval
  <2> QED
    BY <2>1, <2>2, <2>3
<1>6. ASSUME NEW m \in 1 .. L - n
      PROVE  (CHOOSE i \in P : Cardinality({j \in P : SortsBefore(w, j, i)}) = m - 1) = n + m
  <2>1. n + m \in P
    BY <1>1, <1>2
  <2>2. \A i \in P : Cardinality({j \in P : SortsBefore(w, j, i)}) = m - 1 <=> i = n + m
    <3> SUFFICES ASSUME NEW i \in P
                 PROVE  Cardinality({j \in P : SortsBefore(w, j, i)}) = m - 1 <=> i = n + m
      OBVIOUS
    <3>1. i \in Int /\ n \in Int /\ m \in Int
      BY <1>1, <1>2
    <3>2. Cardinality({j \in P : SortsBefore(w, j, i)}) = i - n - 1
      BY <1>5
    <3> QED
      BY <3>1, <3>2
  <2> QED
    BY <2>1, <2>2
<1>7. Ordered(w, P) = [m \in 1 .. L - n |-> events[w][n + m]]
  <2>1. Ordered(w, P) = [m \in 1 .. L - n |->
           events[w][CHOOSE i \in P : Cardinality({j \in P : SortsBefore(w, j, i)}) = m - 1]]
    BY <1>3, Zenon DEF Ordered
  <2> QED
    BY <1>6, <2>1, Zenon
<1>8. SubSeq(events[w], n + 1, L) = [m \in 1 .. L - n |-> events[w][n + m]]
  <2>1. SubSeq(events[w], n + 1, L) = [m \in 1 .. L - (n + 1) + 1 |-> events[w][(n + 1) + m - 1]]
    BY <1>1, <1>2, LogFacts, SMTT(30)
  <2>2. L - (n + 1) + 1 = L - n /\ \A m \in 1 .. L - n : (n + 1) + m - 1 = n + m
    BY <1>2
  <2> QED
    BY <2>1, <2>2
<1> QED
  BY <1>1, <1>7, <1>8

(* A page from the nth cursor is the log's segment behind it.               *)
LEMMA PageIsSegment ==
  ASSUME LogInv, NEW w \in Workspaces, NEW n \in 0 .. Len(events[w]), NEW limit \in Nat \ {0},
         NEW to, to = IF n + limit < Len(events[w]) THEN n + limit ELSE Len(events[w])
  PROVE  /\ to \in n .. Len(events[w])
         /\ DownloadWindow(w, At(w, n), limit) =
              [workspaceId |-> w, afterCursor |-> At(w, n), nextCursor |-> At(w, to),
               events |-> SubSeq(events[w], n + 1, to), hasMore |-> to < Len(events[w])]
<1>1. PICK log, L : log = events[w] /\ L = Len(log)
  OBVIOUS
<1>2. log \in Seq(SyncedEvent) /\ L \in Nat /\ n \in Nat /\ n <= L /\ limit \in Nat \ {0}
  BY <1>1, LogFacts
<1>3. to \in Nat /\ n <= to /\ to <= L /\ (to = n <=> n = L)
  BY <1>1, <1>2
<1>4. PICK ordered : ordered = EventsAfter(w, At(w, n))
  OBVIOUS
<1>5. ordered = SubSeq(log, n + 1, L)
  BY <1>1, <1>4, PlacesAfter, OrderedSuffix DEF EventsAfter
<1>6. ordered \in Seq(SyncedEvent) /\ Len(ordered) = L - n /\ \A m \in 1 .. L - n : ordered[m] = log[n + m]
  <2>1. ordered = [m \in 1 .. L - n |-> log[n + m]]
    <3>1. ordered = [m \in 1 .. L - (n + 1) + 1 |-> log[(n + 1) + m - 1]]
      BY <1>2, <1>5
    <3>2. L - (n + 1) + 1 = L - n /\ \A m \in 1 .. L - n : (n + 1) + m - 1 = n + m
      BY <1>2
    <3> QED
      BY <3>1, <3>2
  <2>2. \A m \in 1 .. L - n : n + m \in 1 .. L
    BY <1>2
  <2>3. \A m \in 1 .. L - n : log[n + m] \in SyncedEvent
    BY <1>1, <1>2, <2>2
  <2> QED
    BY <1>2, <2>1, <2>3
<1>7. PICK k : k = to - n
  OBVIOUS
<1>8. k \in 0 .. L - n /\ k = IF limit < Len(ordered) THEN limit ELSE Len(ordered)
  BY <1>1, <1>2, <1>3, <1>6, <1>7
<1>9. PICK selected : selected = SubSeq(ordered, 1, k)
  OBVIOUS
<1>10. selected = [m \in 1 .. k |-> log[n + m]]
  <2>1. selected = [m \in 1 .. k |-> ordered[m]]
    BY <1>2, <1>6, <1>8, <1>9
  <2>2. \A m \in 1 .. k : m \in 1 .. L - n
    BY <1>2, <1>8
  <2> QED
    BY <1>6, <2>1, <2>2
<1>11. selected = SubSeq(log, n + 1, to) /\ Len(selected) = k /\ (selected = <<>> <=> k = 0)
  <2>1. SubSeq(log, n + 1, to) = [m \in 1 .. to - (n + 1) + 1 |-> log[(n + 1) + m - 1]]
    BY <1>2, <1>3
  <2>2. to - (n + 1) + 1 = k /\ \A m \in 1 .. k : (n + 1) + m - 1 = n + m
    BY <1>2, <1>3, <1>7
  <2>3. Len(selected) = k
    BY <1>2, <1>8, <1>10
  <2>4. k = 0 => selected = <<>>
    BY <1>10
  <2>5. SubSeq(log, n + 1, to) = [m \in 1 .. k |-> log[(n + 1) + m - 1]]
    BY <2>1, <2>2
  <2>6. selected = [m \in 1 .. k |-> log[(n + 1) + m - 1]]
    BY <1>10, <2>2
  <2>7. selected = <<>> => k = 0
    BY <2>3
  <2> QED
    BY <2>3, <2>4, <2>5, <2>6, <2>7
<1>12. (IF selected = <<>> THEN At(w, n) ELSE selected[Len(selected)].cursor) = At(w, to)
  <2>1. CASE k = 0
    <3>1. to = n
      BY <1>2, <1>3, <1>7, <2>1
    <3> QED
      BY <1>11, <2>1, <3>1, Zenon
  <2>2. CASE k # 0
    <3>1. k \in 1 .. k /\ n + k = to /\ to \in 1 .. L
      BY <1>2, <1>3, <1>7, <1>8, <2>2
    <3>2. selected[k] = log[to]
      BY <1>10, <3>1
    <3>3. log[to].cursor = At(w, to)
      BY <1>1, <3>1, LogFacts
    <3> QED
      BY <1>11, <2>2, <3>2, <3>3, Zenon
  <2> QED
    BY <2>1, <2>2
<1>13. (Len(ordered) > Len(selected)) = (to < L)
  BY <1>2, <1>3, <1>6, <1>7, <1>11, SMTT(30)
<1> QED
  <2>1. DownloadWindow(w, At(w, n), limit) =
          [workspaceId |-> w, afterCursor |-> At(w, n),
           nextCursor |-> IF selected = <<>> THEN At(w, n) ELSE selected[Len(selected)].cursor,
           events |-> selected, hasMore |-> Len(ordered) > Len(selected)]
    BY <1>4, <1>8, <1>9 DEF DownloadWindow
  <2>2. DownloadWindow(w, At(w, n), limit) =
          [workspaceId |-> w, afterCursor |-> At(w, n), nextCursor |-> At(w, to),
           events |-> SubSeq(log, n + 1, to), hasMore |-> to < L]
    BY <1>11, <1>12, <1>13, <2>1, Zenon
  <2>3. to \in n .. L
    BY <1>2, <1>3
  <2> QED
    BY <1>1, <2>2, <2>3, Zenon

(* From any cursor it has issued, the repository pages through the log      *)
(* without a gap and without a repetition, for any log and any limit.       *)
THEOREM PagesAlwaysLogSegments == Spec => []PagesAreLogSegments
<1>1. LogInv => PagesAreLogSegments
  <2> SUFFICES ASSUME LogInv, NEW w \in Workspaces, NEW after \in IssuedCursors(w),
                      NEW limit \in 1 .. MaxLimit, NEW to,
                      to = IF after.position + limit < Len(events[w])
                           THEN after.position + limit ELSE Len(events[w])
               PROVE  LET page == DownloadWindow(w, after, limit) IN
                      /\ page.events = SubSeq(events[w], after.position + 1, to)
                      /\ page.nextCursor.position = to
                      /\ page.nextCursor \in IssuedCursors(w)
                      /\ page.hasMore <=> to < Len(events[w])
    BY DEF PagesAreLogSegments
  <2>1. PICK n \in 0 .. Len(events[w]) : after = At(w, n)
    BY IssuedAreAt
  <2>2. after.position = n
    BY <2>1, AtPosition
  <2>3. limit \in Nat \ {0}
    BY RepositoryAssumption
  <2>4. /\ to \in n .. Len(events[w])
        /\ DownloadWindow(w, after, limit) =
             [workspaceId |-> w, afterCursor |-> after, nextCursor |-> At(w, to),
              events |-> SubSeq(events[w], n + 1, to), hasMore |-> to < Len(events[w])]
    BY <2>1, <2>2, <2>3, PageIsSegment, ZenonT(40)
  <2>5. to \in 0 .. Len(events[w])
    BY <2>4, LogFacts
  <2>6. At(w, to).position = to /\ At(w, to) \in IssuedCursors(w)
    BY <2>5, AtPosition, IssuedAreAt
  <2>7. PICK more, page : /\ more = (to < Len(events[w]))
                          /\ page = DownloadWindow(w, after, limit)
    OBVIOUS
  <2>8. page = [workspaceId |-> w, afterCursor |-> after, nextCursor |-> At(w, to),
                events |-> SubSeq(events[w], n + 1, to), hasMore |-> more]
    BY <2>4, <2>7, Zenon
  <2>9. /\ page.events = SubSeq(events[w], n + 1, to)
        /\ page.nextCursor = At(w, to)
        /\ page.hasMore = more
    BY <2>8
  <2> QED
    BY <2>2, <2>6, <2>7, <2>9, Zenon
<1> QED
  BY <1>1, LogInvariant, PTL
=============================================================================
