------------------------------- MODULE SyncLog -------------------------------
(***************************************************************************)
(* What the sync repository promises: each workspace has a log of event    *)
(* ids that only grows at its end, a batch at a time, never holds an id    *)
(* twice, and never outgrows the positions a cursor can express.           *)
(***************************************************************************)
EXTENDS Integers, Sequences

CONSTANTS Workspaces, EventIds, MaxPosition

VARIABLE log

Init == log = [w \in Workspaces |-> <<>>]

InLog(w) == {log[w][i] : i \in DOMAIN log[w]}

(* One batch lands whole behind everything accepted before it.              *)
AppendBatch(w, ids) ==
  /\ \A i \in DOMAIN ids : ids[i] \notin InLog(w)
  /\ \A i, j \in DOMAIN ids : i # j => ids[i] # ids[j]
  /\ Len(log[w]) + Len(ids) <= MaxPosition
  /\ log' = [log EXCEPT ![w] = @ \o ids]

Next ==
  \E w \in Workspaces : \E n \in 1 .. MaxPosition : \E ids \in [1 .. n -> EventIds] :
    AppendBatch(w, ids)

Spec == Init /\ [][Next]_log
=============================================================================
