---------------------------- MODULE PluginSandbox ----------------------------
(***************************************************************************)
(* The plugin sandbox harness (packages/plugin-sdk/src/sandbox.ts): one    *)
(* run of a plugin function over a context whose calls record audit events *)
(* and count ticks, both limited.  A call that throws reaches the plugin,  *)
(* which may catch it and go on.  The context outlives the run: a plugin   *)
(* that kept it (in a promise, say) can call it after the result was made. *)
(***************************************************************************)
EXTENDS Naturals, Sequences

CONSTANTS
  MaxAuditEvents, MaxTicks,   \* limits of the boundary
  Increments,                 \* counts a plugin passes to tick
  TickBound,                  \* bound: ticks counted
  CallBound                   \* bound: calls made

ASSUME SandboxAssumption ==
  /\ MaxAuditEvents \in Nat \ {0} /\ MaxTicks \in Nat \ {0}
  /\ Increments \subseteq Nat \ {0}
  /\ TickBound \in Nat /\ CallBound \in Nat

VARIABLES
  audit,    \* the run's audit events: type and tick
  ticks,
  thrown,   \* a call has thrown and the plugin has not yet caught it
  result,   \* what the harness answered, a set of at most one
  calls     \* history: the types of the events the plugin's calls were to record

sandboxVars == <<audit, ticks, thrown, result, calls>>

HasRoom == Len(audit) < MaxAuditEvents

(* Mutant: an event that does not fit is dropped.                           *)
RecordQuietly(type, at) ==
  audit' = IF HasRoom THEN Append(audit, [type |-> type, tick |-> at]) ELSE audit

(* recordAudit: throws when the audit is full.                              *)
Record(type, at) ==
  /\ HasRoom
  /\ audit' = Append(audit, [type |-> type, tick |-> at])

SandboxInit ==
  /\ audit = <<[type |-> "sandbox.run_started", tick |-> 0]>>
  /\ ticks = 0 /\ thrown = FALSE /\ result = {} /\ calls = <<>>

(* One call of the context: it counts, records, and then throws or not.     *)
Call(type, at, throws) ==
  /\ ~thrown /\ Len(calls) < CallBound
  /\ calls' = IF result = {} THEN Append(calls, type) ELSE calls
  /\ ticks' = at
  /\ \/ Record(type, at) /\ thrown' = throws
     \/ ~HasRoom /\ UNCHANGED audit /\ thrown' = TRUE
  /\ UNCHANGED result

HasCapability == Call("capability.checked", ticks, FALSE)

(* requireCapability; allowed: the boundary grants it.                      *)
RequireCapability(allowed) ==
  Call(IF allowed THEN "capability.allowed" ELSE "capability.denied", ticks, ~allowed)

(* requestHostApi, and any property of context.host.                        *)
RequestHostApi == Call("host_api.denied", ticks, TRUE)

PluginAudit == Call("plugin.audit", ticks, FALSE)

(* tick: the count is kept even when it goes over the limit, before the     *)
(* event is recorded.                                                       *)
Tick(n) ==
  /\ ticks + n <= TickBound
  /\ IF ticks + n > MaxTicks THEN Call("resource.exhausted", ticks + n, TRUE)
     ELSE Call("resource.tick", ticks + n, FALSE)

CatchError == thrown /\ thrown' = FALSE /\ UNCHANGED <<audit, ticks, result, calls>>

Answered(ok) == result' = {[ok |-> ok, audit |-> audit', ticks |-> ticks]}

(* The plugin's error, or the harness's own: run_failed is recorded if      *)
(* there is room for it.                                                    *)
RunFailed ==
  /\ result = {}
  /\ \/ Record("sandbox.run_failed", ticks)
     \/ ~HasRoom /\ UNCHANGED audit
  /\ Answered(FALSE)
  /\ thrown' = FALSE /\ UNCHANGED <<ticks, calls>>

(* The plugin returned a value that is no promise (one that is fails the    *)
(* run) and run_completed could be recorded (when it cannot, RunFailed).    *)
RunCompleted ==
  /\ result = {} /\ ~thrown
  /\ Record("sandbox.run_completed", ticks)
  /\ Answered(TRUE)
  /\ UNCHANGED <<ticks, thrown, calls>>

SandboxNext ==
  \/ HasCapability \/ RequestHostApi \/ PluginAudit
  \/ \E allowed \in BOOLEAN : RequireCapability(allowed)
  \/ \E n \in Increments : Tick(n)
  \/ CatchError \/ RunFailed \/ RunCompleted

SandboxSpec == SandboxInit /\ [][SandboxNext]_sandboxVars

-----------------------------------------------------------------------------
(* The audit of a run that ended well is the whole story: whatever errors   *)
(* the plugin caught, every call it made during the run is in it, once, in  *)
(* order - denied host APIs and capabilities and an exhausted budget too -  *)
(* since a call that found the audit full leaves no room for run_completed. *)
(* The result is not touched by calls made after it.                        *)
GoodRunsTellAll ==
  \A r \in result :
    /\ Len(r.audit) <= MaxAuditEvents
    /\ r.ok => /\ [i \in 1 .. Len(r.audit) |-> r.audit[i].type]
                    = <<"sandbox.run_started">> \o calls \o <<"sandbox.run_completed">>
               /\ r.ticks > MaxTicks =>
                    \E i \in DOMAIN r.audit : r.audit[i].type = "resource.exhausted"
    /\ \A i, j \in DOMAIN r.audit : i <= j => r.audit[i].tick <= r.audit[j].tick
=============================================================================
