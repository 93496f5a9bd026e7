-------------------------- MODULE ApprovalSessions --------------------------
(***************************************************************************)
(* The in-memory approval sessions of the MCP gateway                      *)
(* (services/mcp-gateway/src/approvalSessions.ts).                         *)
(*                                                                         *)
(* Nothing expires a session by itself: the store looks at the clock when  *)
(* it is asked, and every transition reads the clock once more for its     *)
(* time stamp.  So one call reads the clock several times; it never steps  *)
(* back, but it may move between two readings.                             *)
(***************************************************************************)
EXTENDS Integers, FiniteSets

CONSTANTS
  Subjects,      \* what sessions are asked for
  Ttls,          \* lifetimes callers give a session
  MaxSequence,   \* bound: ids drawn
  MaxTime        \* bound: the latest time

ASSUME ApprovalAssumption ==
  /\ Ttls \subseteq Nat /\ MaxSequence \in Nat /\ MaxTime \in Nat

VARIABLES
  now,        \* what the injected clock reads
  sequence,   \* the last id drawn
  sessions    \* the Map from ids to sessions: a partial function

storeVars == <<now, sequence, sessions>>

Never == -1          \* a session without expiresAt
Time == 0 .. MaxTime
Decisions == {"approved", "rejected", "expired"}

(* A session: its subject, status ("pending" or a decision), createdAt,     *)
(* expiresAt, updatedAt, and whether it was the store itself that expired it.*)

IsStale(s, t) == s.expiresAt # Never /\ s.expiresAt <= t

StaleAt(t) ==
  {id \in DOMAIN sessions : sessions[id].status = "pending" /\ IsStale(sessions[id], t)}

(* #transition: stamps the session with a clock reading of its own, t.      *)
Decided(s, status, byStore, t) ==
  [s EXCEPT !.status = status, !.updatedAt = t, !.byStore = byStore]

-----------------------------------------------------------------------------
(* create: the id is drawn before the parts of the session that may still   *)
(* be refused, so that a refusal there (CreateFails) leaves a gap.          *)
NewSession(subject, expiresAt) ==
  [subject |-> subject, status |-> "pending", createdAt |-> now,
   expiresAt |-> expiresAt, updatedAt |-> now, byStore |-> FALSE]

Created(subject, expiresAt) ==
  [id \in DOMAIN sessions \cup {sequence + 1} |->
     IF id = sequence + 1 THEN NewSession(subject, expiresAt) ELSE sessions[id]]

Create(subject, expiresAt) ==
  /\ sequence < MaxSequence
  /\ sequence' = sequence + 1
  /\ sessions' = Created(subject, expiresAt)
  /\ UNCHANGED now

CreateFails ==
  /\ sequence < MaxSequence
  /\ sequence' = sequence + 1
  /\ UNCHANGED <<now, sessions>>

(* get (ids = {id}) and list (ids = all of them): the stale ones among them *)
(* are expired first, each at its own reading of the clock, in id order.    *)
Look(ids) ==
  \E at \in [StaleAt(now) \cap ids -> now .. MaxTime] :
    /\ \A x, y \in DOMAIN at : x < y => at[x] <= at[y]
    /\ sessions' = [id \in DOMAIN sessions |->
                      IF id \in DOMAIN at
                      THEN Decided(sessions[id], "expired", TRUE, at[id])
                      ELSE sessions[id]]
    /\ now' \in {t \in Time : t >= now /\ \A id \in DOMAIN at : t >= at[id]}
    /\ UNCHANGED sequence

MayExpire(id) == sessions[id].status = "pending"

(* Mutant: the check is whether a look has expired the session.             *)
MayDecideLate(id) == sessions[id].status = "pending"

(* The check of #requirePending, which approve and reject share: the        *)
(* session is pending and not stale at the clock reading of the check.      *)
MayDecide(id) == sessions[id].status = "pending" /\ ~IsStale(sessions[id], now)

(* The session ends at a reading t that is not before the check's.          *)
Transition(id, status, byStore) ==
  \E t \in now .. MaxTime :
    /\ sessions' = [sessions EXCEPT ![id] = Decided(@, status, byStore, t)]
    /\ now' = t
    /\ UNCHANGED sequence

(* approve and reject.  The transition's input is normalised after the check *)
(* and before the transition: a malformed one changes nothing, unless the   *)
(* check has found the session stale, which it is expired for.              *)
Decide(id, status) == MayDecide(id) /\ Transition(id, status, FALSE)

DecideTooLate(id) ==
  /\ sessions[id].status = "pending" /\ IsStale(sessions[id], now)
  /\ Transition(id, "expired", TRUE)

(* expire: by a caller, stale or not.                                       *)
Expire(id) == MayExpire(id) /\ Transition(id, "expired", FALSE)

Tick == now < MaxTime /\ now' = now + 1 /\ UNCHANGED <<sequence, sessions>>

StoreInit ==
  /\ now = 0
  /\ sequence = 0
  /\ sessions = [id \in {} |-> NewSession({}, Never)]

(* What callers of the store do with the sessions it holds.                 *)
Review ==
  \/ Look(DOMAIN sessions)
  \/ \E id \in DOMAIN sessions :
       \/ Look({id})
       \/ \E status \in {"approved", "rejected"} : Decide(id, status)
       \/ DecideTooLate(id)
       \/ Expire(id)
  \/ Tick

(* ttlMs is counted from the creation; expiresAt may be any time, even one  *)
(* that is over.                                                            *)
Clients(subjects) ==
  \/ \E subject \in subjects,
        expiresAt \in {Never} \cup {now + ttl : ttl \in Ttls} \cup Time :
       Create(subject, expiresAt)
  \/ CreateFails
  \/ Review

StoreNext == Clients(Subjects)

StoreSpec == StoreInit /\ [][StoreNext]_storeVars

-----------------------------------------------------------------------------
(* A session ends once, whoever looks, decides or expires it first: what a  *)
(* call finds decided it never changes.  None is approved or rejected that  *)
(* had outlived its time when the call looked, even if nobody had looked    *)
(* since (the stamp of the decision may be later: it is another reading of  *)
(* the clock), and what the store expires by itself had a time to outlive,  *)
(* which was over by the stamp.                                             *)
SessionsEndOnce ==
  [][\A id \in DOMAIN sessions : sessions'[id] # sessions[id] =>
       LET s == sessions[id]
           t == sessions'[id] IN
       /\ s.status = "pending"
       /\ t.status \in {"approved", "rejected"} => s.expiresAt = Never \/ now < s.expiresAt
       /\ t.byStore => /\ t.status = "expired"
                       /\ t.expiresAt # Never /\ t.expiresAt <= t.updatedAt]_storeVars

=============================================================================
