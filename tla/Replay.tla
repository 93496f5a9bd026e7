-------------------------------- MODULE Replay --------------------------------
(***************************************************************************)
(* Replaying a stream of accepted events and judging its integrity         *)
(* (services/sync/src/replay.ts).  A stream is any sequence of events that *)
(* carry a cursor, a workspace and an id: in order or not, complete or not.*)
(* Every cursor in a stream here parses; the invalid_cursor issue, which is *)
(* a failure to parse a text, is not modelled.                             *)
(***************************************************************************)
EXTENDS Cursors, Sorting

CONSTANT MaxReplayLimit   \* MAX_REPLAY_LIMIT

ASSUME ReplayAssumption == MaxReplayLimit \in Nat \ {0}

(* compareReplayEvents: by cursor, then by sequence and id.                 *)
ReplayOrder(left, right) ==
  \/ CursorLess(left.cursor, right.cursor)
  \/ left.cursor = right.cursor /\ left.sequence < right.sequence
  \/ left.cursor = right.cursor /\ left.sequence = right.sequence /\ left.id < right.id

(* normalizeReplayRequest throws unless the limit is in range and until,    *)
(* where there is one, is not before after.                                 *)
ReplayRequestOk(after, until, limit) ==
  /\ limit \in 1 .. MaxReplayLimit
  /\ \A u \in until : ~CursorLess(u, after)

(* Mutant: the baseline is not the predecessor of the first event.          *)
ReplayIssuesNoBase(stream, after) ==
  LET positions == {stream[i].cursor.position : i \in DOMAIN stream}
  IN IF \E p \in positions : p - 1 \notin positions THEN {"gap"} ELSE {}

(* Mutant: only repetitions are reported.                                   *)
ReplayIssuesNoGap(stream, after) ==
  IF \E i, j \in DOMAIN stream : i # j /\ stream[i].id = stream[j].id
  THEN {"duplicate_event"} ELSE {}

(* detectReplayIntegrityIssues, the set of codes it reports.  The stream is *)
(* sorted first, so an event's predecessor is the one a position below.     *)
(* The baseline is compared by position alone.                              *)
ReplayIssues(stream, after) ==
  LET positions == {stream[i].cursor.position : i \in DOMAIN stream}
      fresh     == {p \in positions : p > after.position}
  IN   (IF \E i, j \in DOMAIN stream : i # j /\ stream[i].id = stream[j].id
        THEN {"duplicate_event"} ELSE {})
  \cup (IF \E i, j \in DOMAIN stream :
              i # j /\ stream[i].cursor.position = stream[j].cursor.position
        THEN {"duplicate_cursor"} ELSE {})
  \cup (IF positions # fresh THEN {"stale_cursor"} ELSE {})
  \cup (IF \E p \in fresh : p - 1 \notin fresh \cup {after.position} THEN {"gap"} ELSE {})

(* isInReplayWindow: the places of the stream that hold an event of the     *)
(* workspace after one cursor and, if until holds a cursor, not after that. *)
InReplayWindow(stream, w, after, until) ==
  {i \in DOMAIN stream : /\ stream[i].workspaceId = w
                         /\ CursorLess(after, stream[i].cursor)
                         /\ \A u \in until : ~CursorLess(u, stream[i].cursor)}

(* Sorting is stable: places whose events compare alike stay as they are.   *)
ReplaysFirst(stream, i, j) ==
  \/ ReplayOrder(stream[i], stream[j])
  \/ ~ReplayOrder(stream[j], stream[i]) /\ i < j

(* orderReplayEvents, of the events at some places.                         *)
ReplayOrdered(stream, places) ==
  LET order == SortedBy(places, {p \in places \X places : ReplaysFirst(stream, p[1], p[2])})
  IN [n \in 1 .. Cardinality(places) |-> stream[order[n]]]

(* replayAcceptedEvents: the first limit of the events in the window, and   *)
(* what is wrong with all of them.                                          *)
ReplayWindow(stream, w, after, until, limit) ==
  LET ordered  == ReplayOrdered(stream, InReplayWindow(stream, w, after, until))
      selected == SubSeq(ordered, 1, IF limit < Len(ordered) THEN limit ELSE Len(ordered))
  IN [nextCursor |-> IF selected = <<>> THEN after ELSE selected[Len(selected)].cursor,
      events     |-> selected,
      hasMore    |-> Len(ordered) > Len(selected),
      issues     |-> ReplayIssues(ordered, after)]
=============================================================================
