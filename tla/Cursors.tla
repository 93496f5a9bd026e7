------------------------------- MODULE Cursors -------------------------------
(***************************************************************************)
(* Sync cursors (services/sync/src/cursors.ts).  A cursor names a position *)
(* in a workspace's log of accepted events and the id of the event there.  *)
(*                                                                         *)
(* Only the ORDER of event ids matters to the code: compareStableText      *)
(* compares UTF-16 code units, a total order, so an id is the number of    *)
(* its rank.  The text "origin" ranks above every "evt_..." id.            *)
(***************************************************************************)
EXTENDS Integers, Sequences

CONSTANTS
  EventIds,     \* ids the clients use, as their rank in text order
  Origin,       \* the rank of the text "origin"
  MaxPosition   \* the greatest position a cursor may hold (MAX_SAFE_INTEGER)

ASSUME CursorAssumption ==
  /\ EventIds \subseteq Nat
  /\ Origin \in Nat
  /\ \A e \in EventIds : e < Origin
  /\ MaxPosition \in Nat

(* Every cursor parseCursor accepts: positions beyond MaxPosition are       *)
(* refused, any id may stand at any position.                               *)
Cursor == [position : 0 .. MaxPosition, eventId : EventIds \cup {Origin}]

INITIAL_CURSOR == [position |-> 0, eventId |-> Origin]

(* compareCursors(left, right) < 0: by position, then by the text of the id *)
CursorLess(left, right) ==
  \/ left.position < right.position
  \/ left.position = right.position /\ left.eventId < right.eventId

(* assertCursorPosition in advanceCursor: the position after n more events. *)
CanAdvance(cursor, n) == cursor.position + n <= MaxPosition

(* The cursor after the first n of the given events; upload calls           *)
(* advanceCursor once per event, so this is the value of its nth call.      *)
AdvanceCursor(cursor, ids, n) ==
  [position |-> cursor.position + n,
   eventId  |-> IF n = 0 THEN cursor.eventId ELSE ids[n]]
=============================================================================
