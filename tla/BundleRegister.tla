--------------------------- MODULE BundleRegister ---------------------------
(***************************************************************************)
(* What a file-backed bundle store promises                                *)
(* (packages/sdk-js/src/localWorkspaceSessionFileStore.ts): one cell that  *)
(* holds a whole bundle or nothing.  A call takes effect once, between its *)
(* begin and its end, and answers "ok" exactly when it did; a caller that  *)
(* is killed gets no answer, whether or not its call had taken effect.     *)
(***************************************************************************)
CONSTANTS Callers, Bundles

VARIABLES
  value,     \* the bundle, a set of at most one
  calls,     \* per caller: its call, a set of at most one
  answers    \* per caller: the answer to its last call

registerVars == <<value, calls, answers>>

Idle(p) == calls[p] = {}

RegisterInit ==
  /\ value = {}
  /\ calls = [p \in Callers |-> {}]
  /\ answers = [p \in Callers |-> "none"]

BeginCall(p, op, content) ==
  /\ Idle(p)
  /\ calls' = [calls EXCEPT ![p] = {[op |-> op, content |-> content, done |-> FALSE]}]
  /\ answers' = [answers EXCEPT ![p] = "none"]
  /\ UNCHANGED value

(* A read finds what the cell holds; a write or a delete replaces it.       *)
TakeEffect(p) ==
  /\ \E c \in calls[p] :
       /\ ~c.done
       /\ IF c.op = "read"
          THEN /\ calls' = [calls EXCEPT ![p] = {[c EXCEPT !.content = value, !.done = TRUE]}]
               /\ UNCHANGED value
          ELSE /\ value' = c.content
               /\ calls' = [calls EXCEPT ![p] = {[c EXCEPT !.done = TRUE]}]
  /\ UNCHANGED answers

EndCall(p) ==
  /\ \E c \in calls[p] : answers' = [answers EXCEPT ![p] = IF c.done THEN "ok" ELSE "failed"]
  /\ calls' = [calls EXCEPT ![p] = {}]
  /\ UNCHANGED value

Killed(p) == calls' = [calls EXCEPT ![p] = {}] /\ UNCHANGED <<value, answers>>

RegisterNext ==
  \E p \in Callers :
    \/ \E content \in {{b} : b \in Bundles} : BeginCall(p, "write", content)
    \/ \E op \in {"delete", "read"} : BeginCall(p, op, {})
    \/ TakeEffect(p) \/ EndCall(p) \/ Killed(p)

RegisterSpec == RegisterInit /\ [][RegisterNext]_registerVars
=============================================================================
