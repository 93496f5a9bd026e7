---------------------------- MODULE ToolGateway ----------------------------
(***************************************************************************)
(* The MCP gateway runtime (services/mcp-gateway/src/runtime.ts): tool     *)
(* calls and resource reads in flight at the same time, each through       *)
(* policy, approval session, handler and audit (toolAdapter.ts,            *)
(* adapter.ts), while reviewers decide the sessions (ApprovalSessions).    *)
(*                                                                         *)
(* A call awaits its policy, its handler and the adapter itself; between   *)
(* two awaits it runs alone, and that is a step here.  Policies and        *)
(* handlers are the callers' own.  Audit listeners do not throw.           *)
(***************************************************************************)
EXTENDS ApprovalSessions, Sorting

CONSTANTS
  ToolCalls, Reads,   \* the calls of callTool and readResource there may be
  MaxCalls            \* bound: the calls that are made

Calls == ToolCalls \cup Reads

ASSUME GatewayAssumption ==
  ToolCalls \cap Reads = {} /\ Calls \subseteq Subjects /\ MaxCalls \in Nat

VARIABLES
  stage,      \* where each call is
  ruling,     \* what the policy said of it, with the approval session it names
  trail,      \* the audit records the call keeps for its own answer
  toolAudit,  \* the records of the tool audit sink, in the order of their ids
  collected   \* the records the runtime has collected, of tools and of reads

callVars == <<stage, ruling, trail, toolAudit, collected>>
gatewayVars == <<storeVars, callVars>>

NoSession == 0     \* no approvalId
OwnSession == -1   \* an approvalId of the policy's own making
Outcomes == {"denied", "approval_required", "handler_failed", "executed", "threw"}
NoRuling == [decision |-> "none", approval |-> NoSession]

(* The capture's emit: the record goes to the sink and to the call's trail. *)
(* A resource call has no sink yet: its intents are recorded at the end.    *)
Emit(c, types) ==
  /\ trail' = [trail EXCEPT ![c] = @ \o types]
  /\ toolAudit' = IF c \in Reads THEN toolAudit
                  ELSE toolAudit \o [i \in DOMAIN types |-> <<c, types[i]>>]

Goes(c, to) == stage' = [stage EXCEPT ![c] = to]

-----------------------------------------------------------------------------
(* There is room for one more call.                                         *)
Room == Cardinality({c \in Calls : stage[c] # "idle"}) < MaxCalls

(* callTool with malformed arguments, or for a tool nobody registered.      *)
RefuseTool(c) ==
  /\ c \in ToolCalls /\ stage[c] = "idle" /\ Room
  /\ Emit(c, <<"requested", "failed">>)
  /\ Goes(c, "handler_failed")
  /\ UNCHANGED <<storeVars, ruling, collected>>

Request(c) ==
  /\ stage[c] = "idle" /\ Room
  /\ IF c \in ToolCalls THEN Emit(c, <<"requested">>) ELSE UNCHANGED <<trail, toolAudit>>
  /\ Goes(c, "policy")
  /\ UNCHANGED <<storeVars, ruling, collected>>

(* The policy settles.  withToolApprovalSessions makes a session unless the *)
(* policy names one of its own; withResourceApprovalSessions always makes   *)
(* one and names it to nobody.                                              *)
NeedsSession(c, decision, approval) ==
  decision = "require_approval" /\ (c \in Reads \/ approval = NoSession)

(* Mutant: the answer names the session made before this one.               *)
NamedBefore(c) == IF c \in ToolCalls THEN sequence ELSE NoSession

(* The approvalId of the answer once a session was made.                    *)
Named(c) == IF c \in ToolCalls THEN sequence + 1 ELSE NoSession

(* An approvalId of the policy's own matters only where a tool call needs   *)
(* approval, and is left out elsewhere.                                     *)
PolicyRules(c, decision, approval) ==
  /\ stage[c] = "policy"
  /\ approval = OwnSession => c \in ToolCalls /\ decision = "require_approval"
  /\ Goes(c, "ruled")
  /\ IF NeedsSession(c, decision, approval)
     THEN \/ /\ Create(c, Never)
             /\ ruling' = [ruling EXCEPT ![c] =
                             [decision |-> decision, approval |-> Named(c)]]
          \/ /\ CreateFails    \* an actor without an id
             /\ ruling' = [ruling EXCEPT ![c] =
                             [decision |-> "throws", approval |-> NoSession]]
     ELSE /\ ruling' = [ruling EXCEPT ![c] =
                          [decision |-> decision, approval |-> approval]]
          /\ UNCHANGED storeVars
  /\ UNCHANGED <<trail, toolAudit, collected>>

(* Mutant: an approved session lets the call through.                       *)
MayRunApproved(c) ==
  \/ ruling[c].decision = "allow"
  \/ ruling[c].approval \in DOMAIN sessions /\ sessions[ruling[c].approval].status = "approved"

MayRun(c) == ruling[c].decision = "allow"

(* The adapter goes on with the ruling: it starts the handler or ends the   *)
(* call.  A read whose policy threw rejects, and its trail with it.         *)
StartHandler(c) ==
  /\ stage[c] = "ruled" /\ MayRun(c)
  /\ Emit(c, IF c \in ToolCalls THEN <<"approved">> ELSE <<"policy_decision">>)
  /\ Goes(c, "running")
  /\ UNCHANGED <<storeVars, ruling, collected>>

Refuse(c) ==
  /\ stage[c] = "ruled" /\ ~MayRun(c)
  /\ LET end == CASE ruling[c].decision = "deny" -> "denied"
                  [] ruling[c].decision = "require_approval" -> "approval_required"
                  [] OTHER -> IF c \in ToolCalls THEN "handler_failed" ELSE "threw"
     IN /\ Emit(c, CASE end = "threw" -> <<>>
                     [] c \in Reads -> <<"policy_decision">>
                     [] end = "handler_failed" -> <<"failed">>
                     [] OTHER -> <<end>>)
        /\ Goes(c, end)
  /\ UNCHANGED <<storeVars, ruling, collected>>

(* The handler settles.  Its output is turned into the answer after it was  *)
(* audited as executed; an output that cannot be makes the call fail then.  *)
HandlerReturns(c) ==
  /\ stage[c] = "running"
  /\ Emit(c, <<"executed">>) /\ Goes(c, "executed")
  /\ UNCHANGED <<storeVars, ruling, collected>>

HandlerReturnsUnusable(c) ==
  /\ stage[c] = "running"
  /\ Emit(c, <<"executed", "failed">>) /\ Goes(c, "handler_failed")
  /\ UNCHANGED <<storeVars, ruling, collected>>

HandlerThrows(c) ==
  /\ stage[c] = "running"
  /\ Emit(c, <<"failed">>) /\ Goes(c, "handler_failed")
  /\ UNCHANGED <<storeVars, ruling, collected>>

(* Mutant: the runtime takes what is last in the sink for the call's own.   *)
RecordsOfLast(c) ==
  IF c \in Reads THEN [i \in DOMAIN trail[c] |-> <<c, trail[c][i]>>]
  ELSE SubSeq(toolAudit, Len(toolAudit) - Len(trail[c]) + 1, Len(toolAudit))

RecordsOf(c) == [i \in DOMAIN trail[c] |-> <<c, trail[c][i]>>]

(* The runtime gets the adapter's result and collects its records.          *)
Collect(c) ==
  /\ stage[c] \in Outcomes \ {"threw"}
  /\ collected' = collected \o RecordsOf(c)
  /\ Goes(c, "answered")
  /\ UNCHANGED <<storeVars, ruling, trail, toolAudit>>

GatewayInit ==
  /\ StoreInit
  /\ stage = [c \in Calls |-> "idle"]
  /\ ruling = [c \in Calls |-> NoRuling]
  /\ trail = [c \in Calls |-> <<>>]
  /\ toolAudit = <<>>
  /\ collected = <<>>

Advance(c) ==
  \/ Request(c) \/ RefuseTool(c)
  \/ \E decision \in {"allow", "deny", "require_approval"}, approval \in {NoSession, OwnSession} :
       PolicyRules(c, decision, approval)
  \/ PolicyRules(c, "throws", NoSession)
  \/ StartHandler(c) \/ Refuse(c)
  \/ HandlerReturns(c) \/ HandlerReturnsUnusable(c) \/ HandlerThrows(c)
  \/ Collect(c)

(* The runtime hands its store out, and a host may ask for sessions of its  *)
(* own in it, with expiry.                                                  *)
GatewayNext ==
  \/ \E c \in Calls : Advance(c)
  \/ Clients(Subjects \ Calls) /\ UNCHANGED callVars

GatewaySpec == GatewayInit /\ [][GatewayNext]_gatewayVars

-----------------------------------------------------------------------------
RecordsIn(log, c) == Selected(log, {i \in DOMAIN log : log[i][1] = c})
Over(c) == stage[c] \in Outcomes \cup {"answered"}
Refused == {c \in Calls : Over(c) /\ ruling[c].decision = "require_approval"}

(* Review is a policy decision, never hidden execution: whatever reviewers  *)
(* do with a call's session and however calls interleave, a handler has     *)
(* started only where the policy itself said allow.                         *)
OnlyAllowedCallsRun ==
  \A c \in Calls :
    (stage[c] \in {"running", "executed"} \/ \E i \in DOMAIN trail[c] :
       trail[c][i] \in {"approved", "executed"}) => ruling[c].decision = "allow"

(* A tool call refused for want of approval is told the session that was    *)
(* made for it, not another call's, although sessions are made, decided and *)
(* expired while it waits; or else the one its policy named.  And the       *)
(* runtime makes a session for no other call, and never two for one.        *)
RefusalNamesItsSession ==
  /\ \A c \in Refused \cap ToolCalls :
       ruling[c].approval = OwnSession \/
         /\ ruling[c].approval \in DOMAIN sessions
         /\ sessions[ruling[c].approval].subject = c
  /\ \A id \in DOMAIN sessions :
       LET c == sessions[id].subject
       IN c \in Calls =>
            /\ ruling[c].decision = "require_approval" /\ ruling[c].approval # OwnSession
            /\ \A other \in DOMAIN sessions : sessions[other].subject = c => other = id

(* What the runtime has collected of an answered call is what the sink has  *)
(* of it, in its order, though the sink mixes the records of all calls.     *)
CollectedIsTheSink ==
  \A c \in ToolCalls :
    RecordsIn(collected, c) = IF stage[c] = "answered" THEN RecordsIn(toolAudit, c) ELSE <<>>

(* A tool call has one outcome in the audit trail (the test                 *)
(* "records requested and terminal audit events for each tool outcome").    *)
OneOutcomeAudited ==
  \A c \in ToolCalls : ~ \E i, j \in DOMAIN trail[c] :
    trail[c][i] = "executed" /\ trail[c][j] = "failed"
=============================================================================
