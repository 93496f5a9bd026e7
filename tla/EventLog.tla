------------------------------ MODULE EventLog ------------------------------
(***************************************************************************)
(* The hash-chained event log of the core                                  *)
(* (crates/sovereign_core/src/event_log.rs).                               *)
(*                                                                         *)
(* append takes an envelope only as the next of the chain: its sequence is *)
(* the next one, and it carries the digest of the envelope before.  Writers*)
(* prepare envelopes from the len and last_digest of a log and append them *)
(* later, to that log or to another; a log's clone goes on by itself.      *)
(***************************************************************************)
EXTENDS Integers, Sequences

CONSTANTS
  Logs, Writers,
  Bodies,     \* what else is in an envelope: actor, object, operation, payload
  Malformed,  \* the bodies with an empty operation or payload digest
  None,       \* the previous_digest of a first envelope
  Digest(_),  \* the digest of an envelope
  MaxLen      \* bound: the length of a log

ASSUME LogAssumption == MaxLen \in Nat /\ Malformed \subseteq Bodies

VARIABLES
  logs,     \* the events of each log
  draft     \* the envelope each writer holds, None without one

logVars == <<logs, draft>>

(* next_sequence_for_len and last_digest.                                   *)
NextSequence(log) == Len(log) + 1
LastDigest(log) == IF log = <<>> THEN None ELSE Digest(log[Len(log)])

(* Mutant: only the first envelope's link is looked at.                     *)
AppendableUnlinked(log, e) ==
  /\ e.body \notin Malformed
  /\ e.sequence = NextSequence(log)
  /\ log = <<>> => e.previous = None

Appendable(log, e) ==
  /\ e.body \notin Malformed
  /\ e.sequence = NextSequence(log)
  /\ e.previous = LastDigest(log)

(* A writer prepares an envelope for the end of a log as it is now, or it   *)
(* takes up an envelope that another log holds.                             *)
Prepare(w, l, body) ==
  /\ draft' = [draft EXCEPT ![w] = [body |-> body, sequence |-> NextSequence(logs[l]),
                                    previous |-> LastDigest(logs[l])]]
  /\ UNCHANGED logs

TakeUp(w, l, i) ==
  /\ draft' = [draft EXCEPT ![w] = logs[l][i]]
  /\ UNCHANGED logs

(* append: an error leaves the log as it is.                                *)
AppendTo(l, w) ==
  /\ draft[w] # None /\ Len(logs[l]) < MaxLen
  /\ Appendable(logs[l], draft[w])
  /\ logs' = [logs EXCEPT ![l] = Append(@, draft[w])]
  /\ UNCHANGED draft

AppendRefused(l, w) ==
  draft[w] # None /\ ~Appendable(logs[l], draft[w]) /\ UNCHANGED logVars

(* A log that holds nothing yet is replaced by a clone of another.          *)
Clone(l, m) ==
  /\ logs[m] = <<>>
  /\ logs' = [logs EXCEPT ![m] = logs[l]]
  /\ UNCHANGED draft

LogInit ==
  /\ logs = [l \in Logs |-> <<>>]
  /\ draft = [w \in Writers |-> None]

LogNext ==
  \/ \E w \in Writers, l \in Logs :
       \/ \E body \in Bodies : Prepare(w, l, body)
       \/ \E i \in DOMAIN logs[l] : TakeUp(w, l, i)
       \/ AppendTo(l, w) \/ AppendRefused(l, w)
  \/ \E l, m \in Logs : Clone(l, m)

LogSpec == LogInit /\ [][LogNext]_logVars

-----------------------------------------------------------------------------
(* Every log is one chain from its first envelope to its last, whichever    *)
(* writers raced for a place in it and however old their drafts were.       *)
LogsAreChains ==
  \A l \in Logs : \A i \in DOMAIN logs[l] :
    /\ logs[l][i].sequence = i
    /\ logs[l][i].previous = LastDigest(SubSeq(logs[l], 1, i - 1))

(* The tip speaks for the whole log: envelopes of one digest, in any two    *)
(* logs, stand at the same place behind the same history.  (Rests on a      *)
(* digest without collisions, which the 64-bit stable_digest is not.)       *)
SameTipSameHistory ==
  \A l, m \in Logs : \A i \in DOMAIN logs[l], j \in DOMAIN logs[m] :
    Digest(logs[l][i]) = Digest(logs[m][j]) =>
      i = j /\ SubSeq(logs[l], 1, i) = SubSeq(logs[m], 1, j)
=============================================================================
