-------------------------- MODULE ToolGatewayProofs --------------------------
(***************************************************************************)
(* The gateway's calls and their approval sessions, for any calls, any     *)
(* subjects, lifetimes and bounds, and policies, handlers and reviewers    *)
(* that do as they like.                                                   *)
(***************************************************************************)
EXTENDS ToolGateway, DataLemmas, SequenceTheorems

(* A session as the store holds it.                                         *)
Session ==
  [subject : Subjects, status : {"pending"} \cup Decisions, createdAt : Int,
   expiresAt : Int, updatedAt : Int, byStore : BOOLEAN]

(* The store by itself.  Ids are drawn in order, so the next is unused.     *)
StoreInv ==
  /\ now \in Nat /\ sequence \in Nat
  /\ sessions \in [DOMAIN sessions -> Session]
  /\ DOMAIN sessions \subseteq 1 .. sequence

(* Reviewing decides sessions; it makes none and gives none to another.     *)
SameSubjects ==
  /\ DOMAIN sessions' = DOMAIN sessions
  /\ \A id \in DOMAIN sessions : sessions'[id].subject = sessions[id].subject

(* What a session may change into, as SessionsEndOnce has it.               *)
EndsWell(s, t) ==
  /\ s.status = "pending"
  /\ t.status \in {"approved", "rejected"} => s.expiresAt = Never \/ now < s.expiresAt
  /\ t.byStore => /\ t.status = "expired"
                  /\ t.expiresAt # Never /\ t.expiresAt <= t.updatedAt

OthersStay == \A id \in DOMAIN sessions : sessions'[id] # sessions[id] => EndsWell(sessions[id], sessions'[id])

(* What a record of the trail can say.                                      *)
Records ==
  {"requested", "approved", "denied", "approval_required", "executed", "failed",
   "policy_decision"}

(* Records that say nothing of a handler having started.                    *)
Tame(types) ==
  /\ types \in Seq(Records)
  /\ \A i \in DOMAIN types : types[i] \notin {"approved", "executed"}

(* A call that has not got past its policy has said nothing of running.     *)
Quiet(c) == \A i \in DOMAIN trail[c] : trail[c][i] \notin {"approved", "executed"}

(* What is known of a call at each of its stages.                           *)
CallInv ==
  /\ DOMAIN stage = Calls /\ DOMAIN ruling = Calls
  /\ trail \in [Calls -> Seq(Records)]
  /\ \A c \in Calls : stage[c] \in {"idle", "policy"} => ruling[c] = NoRuling
  /\ \A c \in Calls : stage[c] \in {"idle", "policy", "ruled"} => Quiet(c)
  /\ OnlyAllowedCallsRun

(* Sessions and rulings name each other from the step that makes them, not  *)
(* only once a call is over; a call without a ruling has no session.        *)
NamesItsSession(c) ==
  /\ c \in ToolCalls /\ ruling[c].decision = "require_approval" =>
       ruling[c].approval = OwnSession \/
         /\ ruling[c].approval \in DOMAIN sessions
         /\ sessions[ruling[c].approval].subject = c
  /\ \A id \in DOMAIN sessions : sessions[id].subject = c =>
       /\ ruling[c].decision = "require_approval" /\ ruling[c].approval # OwnSession
       /\ \A other \in DOMAIN sessions : sessions[other].subject = c => other = id

(* The inductive invariant.                                                 *)
GatewayInv == StoreInv /\ CallInv /\ \A c \in Calls : NamesItsSession(c)

-----------------------------------------------------------------------------
(* The operations of the store.                                             *)
LEMMA DecidedSession ==
  ASSUME NEW s \in Session, NEW status \in Decisions, NEW byStore \in BOOLEAN, NEW t \in Int
  PROVE  LET d == Decided(s, status, byStore, t) IN
         /\ d \in Session /\ d.subject = s.subject /\ d.expiresAt = s.expiresAt
         /\ d.status = status /\ d.updatedAt = t /\ d.byStore = byStore
BY DEF Decided, Session, Decisions

(* A transition of a session keeps the order and the subjects of the store. *)
LEMMA TransitionKeeps ==
  ASSUME StoreInv, NEW id \in DOMAIN sessions, NEW status \in Decisions, NEW byStore \in BOOLEAN,
         sessions[id].status = "pending",
         status \in {"approved", "rejected"} => ~IsStale(sessions[id], now),
         byStore => status = "expired" /\ IsStale(sessions[id], now),
         Transition(id, status, byStore)
  PROVE  StoreInv' /\ SameSubjects /\ OthersStay
<1>1. PICK t \in now .. MaxTime :
        /\ sessions' = [sessions EXCEPT ![id] = Decided(sessions[id], status, byStore, t)]
        /\ now' = t /\ sequence' = sequence
  BY DEF Transition
<1>2. t \in Nat /\ t \in Int /\ now <= t /\ now \in Nat
  BY <1>1 DEF StoreInv
<1>3. PICK d : d = Decided(sessions[id], status, byStore, t)
  OBVIOUS
<1>4. sessions[id] \in Session
  BY DEF StoreInv
<1>5. /\ d \in Session /\ d.subject = sessions[id].subject /\ d.expiresAt = sessions[id].expiresAt
      /\ d.status = status /\ d.updatedAt = t /\ d.byStore = byStore
  BY <1>2, <1>3, <1>4, DecidedSession
<1>6. /\ DOMAIN sessions' = DOMAIN sessions /\ sessions'[id] = d
      /\ \A x \in DOMAIN sessions : x # id => sessions'[x] = sessions[x]
      /\ sessions' \in [DOMAIN sessions' -> Session]
  BY <1>1, <1>3, <1>5 DEF StoreInv
<1>7. EndsWell(sessions[id], d)
  <2>1. sessions[id].expiresAt \in Int
    BY <1>4 DEF Session
  <2>2. status \in {"approved", "rejected"} =>
          sessions[id].expiresAt = Never \/ now < sessions[id].expiresAt
    BY <1>2, <2>1 DEF IsStale
  <2>3. byStore => status = "expired" /\ d.expiresAt # Never /\ d.expiresAt <= t
    BY <1>2, <1>5, <2>1 DEF IsStale
  <2> QED
    BY <1>5, <2>2, <2>3 DEF EndsWell
<1>8. OthersStay
  BY <1>6, <1>7 DEF OthersStay
<1> QED
  BY <1>1, <1>2, <1>5, <1>6, <1>8 DEF StoreInv, SameSubjects

(* Looking at a session may expire it and keeps the rest.                   *)
LEMMA LookKeeps ==
  ASSUME StoreInv, NEW ids, Look(ids)
  PROVE  StoreInv' /\ SameSubjects /\ OthersStay
<1>1. PICK at \in [StaleAt(now) \cap ids -> now .. MaxTime] :
        /\ sessions' = [id \in DOMAIN sessions |->
                          IF id \in DOMAIN at
                          THEN Decided(sessions[id], "expired", TRUE, at[id])
                          ELSE sessions[id]]
        /\ now' \in Time /\ now' >= now /\ sequence' = sequence
  BY DEF Look
<1>2. now' \in Nat /\ DOMAIN sessions' = DOMAIN sessions
  BY <1>1 DEF StoreInv, Time
<1>3. ASSUME NEW id \in DOMAIN sessions
      PROVE  /\ sessions'[id] \in Session /\ sessions'[id].subject = sessions[id].subject
             /\ sessions'[id] # sessions[id] => EndsWell(sessions[id], sessions'[id])
  <2>1. sessions[id] \in Session /\ sessions[id].expiresAt \in Int
    BY DEF StoreInv, Session
  <2>2. CASE id \in DOMAIN at
    <3>1. PICK d : d = Decided(sessions[id], "expired", TRUE, at[id])
      OBVIOUS
    <3>2. at[id] \in Int /\ now <= at[id] /\ now \in Nat
      BY <1>1, <2>2 DEF StoreInv
    <3>3. IsStale(sessions[id], now) /\ sessions[id].status = "pending"
      BY <1>1, <2>2 DEF StaleAt
    <3>4. /\ d \in Session /\ d.subject = sessions[id].subject
          /\ d.expiresAt = sessions[id].expiresAt
          /\ d.status = "expired" /\ d.updatedAt = at[id]
      <4>1. PICK expired, byStore : expired = "expired" /\ byStore = TRUE
        OBVIOUS
      <4>2. expired \in Decisions /\ byStore \in BOOLEAN
        BY <4>1 DEF Decisions
      <4>3. PICK t : t = at[id]
        OBVIOUS
      <4>4. d = Decided(sessions[id], expired, byStore, t) /\ t \in Int
        BY <3>1, <3>2, <4>1, <4>3
      <4>5. /\ d \in Session /\ d.subject = sessions[id].subject
            /\ d.expiresAt = sessions[id].expiresAt
            /\ d.status = expired /\ d.updatedAt = t
        BY <2>1, <4>2, <4>4, DecidedSession
      <4> QED
        BY <4>1, <4>3, <4>5, Zenon
    <3>5. sessions'[id] = d
      BY <1>1, <2>2, <3>1
    <3>6. d.expiresAt # Never /\ d.expiresAt <= d.updatedAt
      BY <2>1, <3>2, <3>3, <3>4 DEF IsStale
    <3>7. EndsWell(sessions[id], d)
      BY <3>3, <3>4, <3>6 DEF EndsWell
    <3> QED
      BY <3>4, <3>5, <3>7
  <2>3. CASE id \notin DOMAIN at
    <3>1. sessions'[id] = sessions[id]
      BY <1>1, <2>3
    <3> QED
      BY <2>1, <3>1
  <2> QED
    BY <2>2, <2>3
<1>4. sessions' \in [DOMAIN sessions' -> Session]
  <2>1. sessions' = [id \in DOMAIN sessions |-> sessions'[id]]
    BY <1>1
  <2> QED
    BY <1>2, <1>3, <2>1
<1> QED
  BY <1>1, <1>2, <1>3, <1>4 DEF StoreInv, SameSubjects, OthersStay

(* A reviewer ends a session that was open, and does not change its subject.*)
LEMMA ReviewKeeps ==
  ASSUME StoreInv, Review
  PROVE  StoreInv' /\ SameSubjects /\ OthersStay
<1>1. CASE Look(DOMAIN sessions) \/ \E id \in DOMAIN sessions : Look({id})
  BY <1>1, LookKeeps
<1>2. ASSUME NEW id \in DOMAIN sessions, NEW status \in {"approved", "rejected"},
             Decide(id, status)
      PROVE  StoreInv' /\ SameSubjects /\ OthersStay
  BY <1>2, TransitionKeeps DEF Decide, MayDecide, Decisions
<1>3. ASSUME NEW id \in DOMAIN sessions, DecideTooLate(id) PROVE StoreInv' /\ SameSubjects /\ OthersStay
  BY <1>3, TransitionKeeps DEF DecideTooLate, Decisions
<1>4. ASSUME NEW id \in DOMAIN sessions, Expire(id) PROVE StoreInv' /\ SameSubjects /\ OthersStay
  BY <1>4, TransitionKeeps DEF Expire, MayExpire, Decisions
<1>5. CASE Tick
  BY <1>5 DEF Tick, StoreInv, SameSubjects, OthersStay
<1> QED
  BY <1>1, <1>2, <1>3, <1>4, <1>5 DEF Review

(* A new session has the next id.                                           *)
LEMMA CreateKeeps ==
  ASSUME StoreInv, NEW subject \in Subjects, NEW expiresAt \in Int, Create(subject, expiresAt)
  PROVE  /\ StoreInv' /\ DOMAIN sessions' = DOMAIN sessions \cup {sequence + 1}
         /\ sequence + 1 \notin DOMAIN sessions /\ sequence + 1 \in Nat \ {0}
         /\ sessions'[sequence + 1].subject = subject
         /\ \A id \in DOMAIN sessions : sessions'[id] = sessions[id]
<1>1. PICK n, s : n = sequence + 1 /\ s = NewSession(subject, expiresAt)
  OBVIOUS
<1>2. n \in Nat \ {0} /\ n \notin DOMAIN sessions /\ sequence' = n /\ now' = now
  BY <1>1 DEF StoreInv, Create
<1>3. s \in Session /\ s.subject = subject /\ ~s.byStore
  BY <1>1 DEF NewSession, Session, StoreInv
<1>4. sessions' = [id \in DOMAIN sessions \cup {n} |-> IF id = n THEN s ELSE sessions[id]]
  BY <1>1 DEF Create, Created
<1>5. /\ DOMAIN sessions' = DOMAIN sessions \cup {n} /\ sessions'[n] = s
      /\ \A id \in DOMAIN sessions : sessions'[id] = sessions[id]
  BY <1>2, <1>4
<1>6. sessions' \in [DOMAIN sessions' -> Session]
  BY <1>2, <1>3, <1>4, <1>5 DEF StoreInv
<1>7. DOMAIN sessions' \subseteq 1 .. n
  BY <1>1, <1>2, <1>5 DEF StoreInv
<1>9. StoreInv'
  BY <1>2, <1>6, <1>7 DEF StoreInv
<1> QED
  BY <1>1, <1>2, <1>3, <1>5, <1>9

(* A create that is refused draws an id and makes no session.               *)
LEMMA CreateFailsKeeps ==
  ASSUME StoreInv, CreateFails
  PROVE  StoreInv' /\ sessions' = sessions
<1>1. sequence' = sequence + 1 /\ now' = now /\ sessions' = sessions
  BY DEF CreateFails
<1>2. DOMAIN sessions \subseteq 1 .. sequence + 1 /\ sequence + 1 \in Nat
  BY DEF StoreInv
<1> QED
  BY <1>1, <1>2 DEF StoreInv

-----------------------------------------------------------------------------
(* Records other than those of running are tame.                            *)
LEMMA TameRecords ==
  /\ Tame(<<>>) /\ DOMAIN <<>> = {}
  /\ \A a \in Records \ {"approved", "executed"} : Tame(<<a>>)
  /\ \A a, b \in Records : <<a>> \in Seq(Records) /\ <<a, b>> \in Seq(Records)
<1>1. <<>> \in Seq(Records) /\ DOMAIN <<>> = {}
  OBVIOUS
<1>2. \A a, b \in Records : <<a>> \in Seq(Records) /\ <<a, b>> \in Seq(Records)
  OBVIOUS
<1>3. ASSUME NEW a \in Records \ {"approved", "executed"} PROVE Tame(<<a>>)
  <2>1. \A i \in DOMAIN <<a>> : <<a>>[i] = a
    OBVIOUS
  <2> QED
    BY <1>2, <1>3, <2>1 DEF Tame
<1> QED
  BY <1>1, <1>2, <1>3 DEF Tame

(* A step that moves call c along, does not touch the store or rulings and  *)
(* says of c only what its ruling allows.                                   *)
LEMMA CallMoves ==
  ASSUME GatewayInv, NEW c \in Calls, NEW to, NEW types \in Seq(Records),
         Goes(c, to), Emit(c, types) \/ (trail' = trail /\ types = <<>>),
         UNCHANGED storeVars, ruling' = ruling,
         to \in {"idle", "policy"} => stage[c] \in {"idle", "policy"},
         to \in {"idle", "policy", "ruled"} => stage[c] \in {"idle", "policy", "ruled"},
         to \in {"running", "executed"} => MayRun(c),
         ~Tame(types) => MayRun(c) /\ to \notin {"idle", "policy", "ruled"}
  PROVE  GatewayInv'
<1>1. /\ DOMAIN stage = Calls /\ trail \in [Calls -> Seq(Records)]
      /\ trail[c] \in Seq(Records)
  BY DEF GatewayInv, CallInv
<1>2. /\ stage' = [stage EXCEPT ![c] = to] /\ DOMAIN stage' = Calls /\ stage'[c] = to
      /\ \A x \in Calls \ {c} : stage'[x] = stage[x]
  BY <1>1 DEF Goes
<1>3. /\ trail' \in [Calls -> Seq(Records)]
      /\ \A x \in Calls \ {c} : trail'[x] = trail[x]
      /\ \A i \in DOMAIN trail'[c] :
           trail'[c][i] \in {"approved", "executed"} =>
             (\E j \in DOMAIN trail[c] : trail[c][j] = trail'[c][i]) \/ ~Tame(types)
  <2>1. CASE trail' = trail
    BY <1>1, <2>1
  <2>2. CASE Emit(c, types)
    <3>1. PICK t : t = trail[c] \o types
      OBVIOUS
    <3>2. trail' = [trail EXCEPT ![c] = t]
      BY <2>2, <3>1 DEF Emit
    <3>3. /\ t \in Seq(Records) /\ Len(t) = Len(trail[c]) + Len(types)
          /\ \A i \in 1 .. Len(trail[c]) + Len(types) :
               t[i] = IF i <= Len(trail[c]) THEN trail[c][i] ELSE types[i - Len(trail[c])]
      BY <1>1, <3>1, ConcatProperties
    <3>4. ASSUME NEW i \in DOMAIN t
          PROVE  \/ \E j \in DOMAIN trail[c] : trail[c][j] = t[i]
                 \/ \E j \in DOMAIN types : types[j] = t[i]
      <4>1. i \in 1 .. Len(trail[c]) + Len(types)
        BY <3>3
      <4>2. CASE i <= Len(trail[c])
        <5>1. i \in DOMAIN trail[c] /\ t[i] = trail[c][i]
          BY <1>1, <3>3, <4>1, <4>2
        <5> QED
          BY <5>1
      <4>3. CASE ~(i <= Len(trail[c]))
        <5>1. i - Len(trail[c]) \in DOMAIN types /\ t[i] = types[i - Len(trail[c])]
          BY <1>1, <3>3, <4>1, <4>3
        <5> QED
          BY <5>1
      <4> QED
        BY <4>2, <4>3
    <3>5. trail'[c] = t /\ trail' \in [Calls -> Seq(Records)]
          /\ \A x \in Calls \ {c} : trail'[x] = trail[x]
      BY <1>1, <3>2, <3>3
    <3>6. Tame(types) => \A j \in DOMAIN types : types[j] \notin {"approved", "executed"}
      BY DEF Tame
    <3> QED
      BY <3>4, <3>5, <3>6, Zenon
  <2> QED
    BY <2>1, <2>2
<1>4. CallInv'
  <2>1. DOMAIN ruling' = Calls /\ ruling' = ruling
    BY DEF GatewayInv, CallInv
  <2>2. ASSUME NEW x \in Calls, stage'[x] \in {"idle", "policy"} PROVE ruling'[x] = NoRuling
    BY <1>2, <2>1, <2>2 DEF GatewayInv, CallInv
  <2>3. ASSUME NEW x \in Calls, stage'[x] \in {"idle", "policy", "ruled"} PROVE Quiet(x)'
    <3>1. Quiet(x)
      BY <1>2, <2>3 DEF GatewayInv, CallInv
    <3>2. CASE x # c
      BY <1>3, <3>1, <3>2 DEF Quiet
    <3>3. CASE x = c
      BY <1>2, <1>3, <2>3, <3>1, <3>3 DEF Quiet
    <3> QED
      BY <3>2, <3>3
  <2>4. OnlyAllowedCallsRun'
    <3> SUFFICES ASSUME NEW x \in Calls,
                        stage'[x] \in {"running", "executed"} \/
                          \E i \in DOMAIN trail'[x] : trail'[x][i] \in {"approved", "executed"}
                 PROVE  ruling'[x].decision = "allow"
      BY DEF OnlyAllowedCallsRun
    <3>1. CASE x # c
      BY <1>2, <1>3, <2>1, <3>1 DEF GatewayInv, CallInv, OnlyAllowedCallsRun
    <3>2. CASE x = c
      <4>1. MayRun(c) \/ \E j \in DOMAIN trail[c] : trail[c][j] \in {"approved", "executed"}
        BY <1>2, <1>3, <3>2
      <4> QED
        BY <2>1, <3>2, <4>1 DEF GatewayInv, CallInv, OnlyAllowedCallsRun, MayRun
    <3> QED
      BY <3>1, <3>2
  <2> QED
    BY <1>2, <1>3, <2>1, <2>2, <2>3, <2>4 DEF CallInv
<1>5. StoreInv' /\ \A x \in Calls : NamesItsSession(x)'
  BY DEF GatewayInv, StoreInv, storeVars, NamesItsSession
<1> QED
  BY <1>4, <1>5 DEF GatewayInv

(* A policy's ruling: the first thing known of the call, and the session    *)
(* made in the same step is the one it names.                               *)
LEMMA PolicyKeeps ==
  ASSUME GatewayInv, NEW c \in Calls, NEW decision, NEW approval,
         decision # "none", PolicyRules(c, decision, approval),
         approval \in {NoSession, OwnSession},
         decision = "throws" => approval = NoSession
  PROVE  GatewayInv'
<1>1. /\ StoreInv /\ CallInv /\ stage[c] = "policy" /\ ruling[c] = NoRuling /\ Quiet(c)
      /\ NamesItsSession(c)
  BY DEF PolicyRules, GatewayInv, CallInv
<1>2. \A id \in DOMAIN sessions : sessions[id].subject # c
  BY <1>1 DEF NamesItsSession, NoRuling
<1>3. /\ DOMAIN stage' = Calls /\ stage'[c] = "ruled"
      /\ \A x \in Calls \ {c} : stage'[x] = stage[x]
      /\ trail' = trail
  <2>1. stage' = [stage EXCEPT ![c] = "ruled"] /\ trail' = trail
    BY DEF PolicyRules, Goes
  <2> QED
    BY <1>1, <2>1 DEF CallInv
<1>4. PICK r : ruling' = [ruling EXCEPT ![c] = r]
  BY DEF PolicyRules
<1>5. /\ DOMAIN ruling' = Calls /\ ruling'[c] = r
      /\ \A x \in Calls \ {c} : ruling'[x] = ruling[x]
  BY <1>1, <1>4 DEF CallInv
<1>6. CallInv'
  <2>1. ASSUME NEW x \in Calls, stage'[x] \in {"idle", "policy"} PROVE ruling'[x] = NoRuling
    BY <1>1, <1>3, <1>5, <2>1 DEF CallInv
  <2>2. ASSUME NEW x \in Calls, stage'[x] \in {"idle", "policy", "ruled"} PROVE Quiet(x)'
    BY <1>1, <1>3, <2>2 DEF CallInv, Quiet
  <2>3. OnlyAllowedCallsRun'
    <3> SUFFICES ASSUME NEW x \in Calls,
                        stage'[x] \in {"running", "executed"} \/
                          \E i \in DOMAIN trail'[x] : trail'[x][i] \in {"approved", "executed"}
                 PROVE  ruling'[x].decision = "allow"
      BY DEF OnlyAllowedCallsRun
    <3>1. x # c
      BY <1>1, <1>3 DEF Quiet
    <3> QED
      BY <1>1, <1>3, <1>5, <3>1 DEF CallInv, OnlyAllowedCallsRun
  <2> QED
    BY <1>1, <1>3, <1>5, <2>1, <2>2, <2>3 DEF CallInv
<1>7. CASE NeedsSession(c, decision, approval) /\ Create(c, Never)
  <2>1. c \in Subjects /\ Never \in Int
    BY GatewayAssumption DEF Never
  <2>2. /\ StoreInv' /\ DOMAIN sessions' = DOMAIN sessions \cup {sequence + 1}
        /\ sequence + 1 \notin DOMAIN sessions /\ sequence + 1 \in Nat \ {0}
        /\ sessions'[sequence + 1].subject = c
        /\ \A id \in DOMAIN sessions : sessions'[id] = sessions[id]
    BY <1>1, <1>7, <2>1, CreateKeeps
  <2>3. ruling'[c] = [decision |-> "require_approval", approval |-> Named(c)]
    <3>1. ~CreateFails
      BY <1>1, <1>7, <2>2 DEF CreateFails
    <3> QED
      BY <1>1, <1>7, <3>1 DEF PolicyRules, NeedsSession, CallInv
  <2>4. Named(c) = IF c \in ToolCalls THEN sequence + 1 ELSE 0
    BY DEF Named, NoSession
  <2>5. ASSUME NEW x \in Calls PROVE NamesItsSession(x)'
    <3>1. CASE x = c
      BY <1>2, <2>2, <2>3, <2>4, <3>1 DEF NamesItsSession, OwnSession
    <3>2. CASE x # c
      <4>1. NamesItsSession(x) /\ ruling'[x] = ruling[x]
        BY <1>5, <3>2 DEF GatewayInv
      <4> QED
        BY <2>2, <3>2, <4>1 DEF NamesItsSession
    <3> QED
      BY <3>1, <3>2
  <2> QED
    BY <1>6, <2>2, <2>5 DEF GatewayInv
<1>8. CASE ~(NeedsSession(c, decision, approval) /\ Create(c, Never))
  <2>1. StoreInv' /\ sessions' = sessions
    <3>1. CASE CreateFails
      BY <1>1, <3>1, CreateFailsKeeps
    <3>2. CASE UNCHANGED storeVars
      BY <1>1, <3>2 DEF storeVars, StoreInv
    <3> QED
      BY <1>8, <3>1, <3>2 DEF PolicyRules
  <2>2. (ruling'[c].decision = "require_approval" /\ c \in ToolCalls) =>
          ruling'[c].approval = OwnSession
    BY <1>1, <1>8 DEF PolicyRules, NeedsSession, CallInv
  <2>3. ASSUME NEW x \in Calls PROVE NamesItsSession(x)'
    <3>1. CASE x = c
      BY <1>2, <2>1, <2>2, <3>1 DEF NamesItsSession
    <3>2. CASE x # c
      <4>1. NamesItsSession(x) /\ ruling'[x] = ruling[x]
        BY <1>5, <3>2 DEF GatewayInv
      <4> QED
        BY <2>1, <4>1 DEF NamesItsSession
    <3> QED
      BY <3>1, <3>2
  <2> QED
    BY <1>6, <2>1, <2>3 DEF GatewayInv
<1> QED
  BY <1>7, <1>8

(* Reviewers, and the host's own sessions.                                  *)
LEMMA ClientsKeep ==
  ASSUME GatewayInv, Clients(Subjects \ Calls), UNCHANGED callVars
  PROVE  GatewayInv'
<1>1. StoreInv
  BY DEF GatewayInv
<1>2. CallInv' /\ ruling' = ruling
  <2>1. stage' = stage /\ ruling' = ruling /\ trail' = trail
    BY DEF callVars
  <2>2. OnlyAllowedCallsRun' /\ \A c \in Calls : Quiet(c)' <=> Quiet(c)
    BY <2>1 DEF GatewayInv, CallInv, Quiet, OnlyAllowedCallsRun
  <2> QED
    BY <2>1, <2>2 DEF GatewayInv, CallInv
<1>3. CASE Review
  <2>1. StoreInv' /\ SameSubjects
    BY <1>1, <1>3, ReviewKeeps
  <2> QED
    BY <1>2, <2>1 DEF GatewayInv, NamesItsSession, SameSubjects
<1>4. CASE CreateFails
  <2>1. StoreInv' /\ sessions' = sessions
    BY <1>1, <1>4, CreateFailsKeeps
  <2> QED
    BY <1>2, <2>1 DEF GatewayInv, NamesItsSession
<1>5. ASSUME NEW subject \in Subjects \ Calls,
             NEW expiresAt \in {Never} \cup {now + ttl : ttl \in Ttls} \cup Time,
             Create(subject, expiresAt)
      PROVE  GatewayInv'
  <2>1. expiresAt \in Int
    BY <1>1, ApprovalAssumption DEF StoreInv, Never, Time
  <2>2. /\ StoreInv' /\ DOMAIN sessions' = DOMAIN sessions \cup {sequence + 1}
        /\ sessions'[sequence + 1].subject = subject
        /\ \A id \in DOMAIN sessions : sessions'[id] = sessions[id]
    BY <1>1, <1>5, <2>1, CreateKeeps
  <2>3. ASSUME NEW c \in Calls PROVE NamesItsSession(c)'
    <3>1. NamesItsSession(c) /\ subject # c
      BY DEF GatewayInv
    <3> QED
      BY <1>2, <2>2, <3>1 DEF NamesItsSession
  <2> QED
    BY <1>2, <2>2, <2>3 DEF GatewayInv
<1> QED
  BY <1>3, <1>4, <1>5 DEF Clients

-----------------------------------------------------------------------------
(* It holds before the first call.                                          *)
LEMMA InitGatewayInv == GatewayInit => GatewayInv
<1> SUFFICES ASSUME GatewayInit PROVE GatewayInv
  OBVIOUS
<1>1. now = 0 /\ sequence = 0 /\ DOMAIN sessions = {}
  BY DEF GatewayInit, StoreInit
<1>2. StoreInv
  <2>1. sessions \in [{} -> Session]
    BY DEF GatewayInit, StoreInit
  <2> QED
    BY <1>1, <2>1 DEF StoreInv
<1>3. CallInv
  <2>1. /\ stage = [c \in Calls |-> "idle"] /\ ruling = [c \in Calls |-> NoRuling]
        /\ trail = [c \in Calls |-> <<>>]
    BY DEF GatewayInit
  <2>2. <<>> \in Seq(Records) /\ DOMAIN <<>> = {}
    BY TameRecords DEF Tame
  <2> QED
    BY <2>1, <2>2 DEF CallInv, Quiet, OnlyAllowedCallsRun
<1>4. ASSUME NEW c \in Calls PROVE NamesItsSession(c)
  BY <1>1 DEF GatewayInit, NamesItsSession, NoRuling
<1> QED
  BY <1>2, <1>3, <1>4 DEF GatewayInv

(* A call that goes on from one await to the next keeps it.                 *)
LEMMA AdvanceKeeps ==
  ASSUME GatewayInv, NEW c \in Calls, Advance(c)
  PROVE  GatewayInv'
<1>0. Records \ {"approved", "executed"} =
        {"requested", "denied", "approval_required", "failed", "policy_decision"}
  BY DEF Records
<1>1. CASE Request(c)
  <2>1. \E types : Tame(types) /\ (Emit(c, types) \/ (trail' = trail /\ types = <<>>))
    BY <1>0, <1>1, TameRecords DEF Request
  <2>2. Goes(c, "policy") /\ UNCHANGED storeVars /\ ruling' = ruling /\ stage[c] = "idle"
    BY <1>1 DEF Request
  <2> QED
    BY <2>1, <2>2, CallMoves DEF Tame
<1>2. CASE RefuseTool(c)
  <2>1. /\ Emit(c, <<"requested", "failed">>) /\ Goes(c, "handler_failed")
        /\ UNCHANGED storeVars /\ ruling' = ruling
    BY <1>2 DEF RefuseTool
  <2>2. Tame(<<"requested", "failed">>)
    <3>1. "requested" \in Records /\ "failed" \in Records
      BY DEF Records
    <3>2. <<"requested", "failed">> \in Seq(Records)
      BY <3>1, TameRecords
    <3>3. \A i \in DOMAIN <<"requested", "failed">> :
            <<"requested", "failed">>[i] \notin {"approved", "executed"}
      OBVIOUS
    <3> QED
      BY <3>2, <3>3 DEF Tame
  <2> QED
    BY <2>1, <2>2, CallMoves DEF Tame
<1>3. ASSUME NEW decision \in {"allow", "deny", "require_approval"},
             NEW approval \in {NoSession, OwnSession}, PolicyRules(c, decision, approval)
      PROVE  GatewayInv'
  BY <1>3, PolicyKeeps
<1>4. CASE PolicyRules(c, "throws", NoSession)
  BY <1>4, PolicyKeeps
<1>5. CASE StartHandler(c)
  <2>1. \E types \in Seq(Records) : Emit(c, types)
    <3>1. "approved" \in Records /\ "policy_decision" \in Records
      BY DEF Records
    <3> QED
      BY <1>5, <3>1, TameRecords DEF StartHandler
  <2>2. MayRun(c) /\ Goes(c, "running") /\ UNCHANGED storeVars /\ ruling' = ruling
    BY <1>5 DEF StartHandler
  <2> QED
    BY <2>1, <2>2, CallMoves
<1>6. CASE Refuse(c)
  <2>1. /\ stage[c] = "ruled" /\ UNCHANGED storeVars /\ ruling' = ruling
        /\ \E end \in {"denied", "approval_required", "handler_failed", "threw"} :
             /\ Goes(c, end)
             /\ \E types : Tame(types) /\ Emit(c, types)
    BY <1>0, <1>6, TameRecords DEF Refuse
  <2> QED
    BY <2>1, CallMoves DEF Tame
<1>7. CASE HandlerReturns(c) \/ HandlerReturnsUnusable(c) \/ HandlerThrows(c)
  <2>1. stage[c] = "running" /\ MayRun(c)
    BY <1>7 DEF HandlerReturns, HandlerReturnsUnusable, HandlerThrows, GatewayInv, CallInv,
                OnlyAllowedCallsRun, MayRun
  <2>2. \E types \in Seq(Records), end \in {"executed", "handler_failed"} :
          Emit(c, types) /\ Goes(c, end)
    <3>1. "executed" \in Records /\ "failed" \in Records
      BY DEF Records
    <3> QED
      BY <1>7, <3>1, TameRecords DEF HandlerReturns, HandlerReturnsUnusable, HandlerThrows
  <2>3. UNCHANGED storeVars /\ ruling' = ruling
    BY <1>7 DEF HandlerReturns, HandlerReturnsUnusable, HandlerThrows
  <2> QED
    BY <2>1, <2>2, <2>3, CallMoves
<1>8. CASE Collect(c)
  <2>1. Goes(c, "answered") /\ trail' = trail /\ UNCHANGED storeVars /\ ruling' = ruling
    BY <1>8 DEF Collect
  <2>2. <<>> \in Seq(Records) /\ Tame(<<>>)
    BY TameRecords DEF Tame
  <2> QED
    BY <2>1, <2>2, CallMoves
<1> QED
  BY <1>1, <1>2, <1>3, <1>4, <1>5, <1>6, <1>7, <1>8 DEF Advance

(* Every step keeps it.                                                     *)
LEMMA GatewayStep == GatewayInv /\ [GatewayNext]_gatewayVars => GatewayInv'
<1> SUFFICES ASSUME GatewayInv, [GatewayNext]_gatewayVars PROVE GatewayInv'
  OBVIOUS
<1>1. CASE UNCHANGED gatewayVars
  <2>1. /\ now' = now /\ sequence' = sequence /\ sessions' = sessions
        /\ stage' = stage /\ ruling' = ruling /\ trail' = trail
    BY <1>1 DEF gatewayVars, storeVars, callVars
  <2>2. StoreInv'
    BY <2>1 DEF GatewayInv, StoreInv
  <2>3. CallInv'
    <3>1. OnlyAllowedCallsRun' /\ \A c \in Calls : Quiet(c)' <=> Quiet(c)
      BY <2>1 DEF GatewayInv, CallInv, Quiet, OnlyAllowedCallsRun
    <3> QED
      BY <2>1, <3>1 DEF GatewayInv, CallInv
  <2>4. \A c \in Calls : NamesItsSession(c)'
    BY <2>1 DEF GatewayInv, NamesItsSession
  <2> QED
    BY <2>2, <2>3, <2>4 DEF GatewayInv
<1> QED
  BY <1>1, AdvanceKeeps, ClientsKeep DEF GatewayNext

(* It holds always.                                                         *)
LEMMA GatewayInvariant == GatewaySpec => []GatewayInv
BY InitGatewayInv, GatewayStep, PTL DEF GatewaySpec

(* Whatever reviewers decide and however calls interleave, a handler starts *)
(* only where the policy itself has allowed the call.                       *)
THEOREM OnlyAllowedCallsEverRun == GatewaySpec => []OnlyAllowedCallsRun
<1>1. GatewayInv => OnlyAllowedCallsRun
  BY DEF GatewayInv, CallInv
<1> QED
  BY <1>1, GatewayInvariant, PTL

(* A refused tool call is told its own session, and no other call has one.  *)
THEOREM RefusalsAlwaysNameTheirSession == GatewaySpec => []RefusalNamesItsSession
<1>1. GatewayInv => RefusalNamesItsSession
  <2> SUFFICES ASSUME GatewayInv PROVE RefusalNamesItsSession
    OBVIOUS
  <2>1. \A c \in Refused \cap ToolCalls : NamesItsSession(c) /\ ruling[c].decision = "require_approval"
    BY DEF GatewayInv, Refused
  <2>2. \A c \in Calls : NamesItsSession(c)
    BY DEF GatewayInv
  <2> QED
    BY <2>1, <2>2 DEF RefusalNamesItsSession, NamesItsSession
<1> QED
  BY <1>1, GatewayInvariant, PTL

(* Calls leave the sessions there are to their reviewers.                   *)
LEMMA CallsLeaveSessions ==
  ASSUME StoreInv, NEW c \in Calls, Advance(c)
  PROVE  OthersStay
<1>1. ASSUME NEW subject, NEW expiresAt, Create(subject, expiresAt) PROVE OthersStay
  <2>1. sessions' = [id \in DOMAIN sessions \cup {sequence + 1} |->
                       IF id = sequence + 1 THEN NewSession(subject, expiresAt) ELSE sessions[id]]
    BY <1>1 DEF Create, Created
  <2>2. sequence + 1 \notin DOMAIN sessions
    BY DEF StoreInv
  <2> QED
    BY <2>1, <2>2 DEF OthersStay
<1>2. CASE sessions' = sessions
  BY <1>2 DEF OthersStay
<1>3. ASSUME NEW decision, NEW approval, PolicyRules(c, decision, approval) PROVE OthersStay
  BY <1>1, <1>2, <1>3 DEF PolicyRules, CreateFails, storeVars
<1>4. CASE Request(c) \/ RefuseTool(c) \/ StartHandler(c) \/ Refuse(c)
  BY <1>2, <1>4 DEF Request, RefuseTool, StartHandler, Refuse, storeVars
<1>5. CASE HandlerReturns(c) \/ HandlerReturnsUnusable(c) \/ HandlerThrows(c) \/ Collect(c)
  BY <1>2, <1>5 DEF HandlerReturns, HandlerReturnsUnusable, HandlerThrows, Collect, storeVars
<1> QED
  BY <1>3, <1>4, <1>5 DEF Advance

(* So do a host's own requests; its reviews end what is open and in time.   *)
LEMMA ClientsEndOnce ==
  ASSUME StoreInv, NEW subjects \in SUBSET Subjects, Clients(subjects)
  PROVE  OthersStay
<1>1. CASE Review
  BY <1>1, ReviewKeeps
<1>2. CASE CreateFails
  BY <1>2 DEF CreateFails, OthersStay
<1>3. ASSUME NEW subject \in subjects,
             NEW expiresAt \in {Never} \cup {now + ttl : ttl \in Ttls} \cup Time,
             Create(subject, expiresAt)
      PROVE  OthersStay
  <2>1. expiresAt \in Int /\ subject \in Subjects
    BY ApprovalAssumption DEF StoreInv, Never, Time
  <2> QED
    BY <1>3, <2>1, CreateKeeps DEF OthersStay
<1> QED
  BY <1>1, <1>2, <1>3 DEF Clients

(* However calls, reviewers and the clock interleave, a session ends once,  *)
(* and is neither approved nor rejected by a call that finds it out of time.*)
THEOREM SessionsAlwaysEndOnce == GatewaySpec => SessionsEndOnce
<1>1. GatewayInv /\ [GatewayNext]_gatewayVars =>
        [\A id \in DOMAIN sessions : sessions'[id] # sessions[id] =>
           LET s == sessions[id]
               t == sessions'[id] IN
           /\ s.status = "pending"
           /\ t.status \in {"approved", "rejected"} => s.expiresAt = Never \/ now < s.expiresAt
           /\ t.byStore => /\ t.status = "expired"
                           /\ t.expiresAt # Never /\ t.expiresAt <= t.updatedAt]_storeVars
  <2> SUFFICES ASSUME GatewayInv, [GatewayNext]_gatewayVars PROVE OthersStay \/ UNCHANGED storeVars
    BY DEF OthersStay, EndsWell
  <2>1. StoreInv /\ Subjects \ Calls \in SUBSET Subjects
    BY DEF GatewayInv
  <2>2. CASE UNCHANGED gatewayVars
    BY <2>2 DEF gatewayVars
  <2>3. CASE GatewayNext
    BY <2>1, <2>3, CallsLeaveSessions, ClientsEndOnce DEF GatewayNext
  <2> QED
    BY <2>2, <2>3
<1> QED
  BY <1>1, GatewayInvariant, PTL DEF GatewaySpec, SessionsEndOnce

-----------------------------------------------------------------------------
(* The records of one call in a log that mixes those of all: a log that     *)
(* grows by records of the call has them in the end, one that grows by      *)
(* another's has what it had.                                               *)
LEMMA RecordsGrow ==
  ASSUME NEW V, NEW log, NEW both, Begins(log, both, V), NEW c
  PROVE  /\ RecordsIn(log, c) \in Seq(V)
         /\ (\A i \in (Len(log) + 1) .. Len(both) : both[i][1] # c) =>
              RecordsIn(both, c) = RecordsIn(log, c)
         /\ (\A i \in (Len(log) + 1) .. Len(both) : both[i][1] = c) =>
              Grew(RecordsIn(log, c), RecordsIn(both, c), log, both, V)
<1>1. PICK places, all : /\ places = {i \in DOMAIN log : log[i][1] = c}
                         /\ all = {i \in DOMAIN both : both[i][1] = c}
  OBVIOUS
<1>2. RecordsIn(log, c) = Selected(log, places) /\ RecordsIn(both, c) = Selected(both, all)
  BY <1>1 DEF RecordsIn
<1>3. DOMAIN log = 1 .. Len(log) /\ DOMAIN both = 1 .. Len(both)
  BY DEF Begins
<1>4. /\ \A i : i \in places <=> i \in 1 .. Len(log) /\ log[i][1] = c
      /\ \A i : i \in all <=> i \in 1 .. Len(both) /\ both[i][1] = c
  BY <1>1, <1>3
<1>5. places \in SUBSET (1 .. Len(log))
  BY <1>4
<1>6. \A i : i \in 1 .. Len(both) <=> i \in 1 .. Len(log) \/ i \in (Len(log) + 1) .. Len(both)
  BY DEF Begins
<1>7. \A i \in 1 .. Len(log) : i \in all <=> i \in places
  BY <1>4, <1>6 DEF Begins
<1>8. Selected(both, places) = Selected(log, places) /\ Selected(log, places) \in Seq(V)
  BY <1>5, SelectedInBeginning
<1>9. ASSUME \A i \in (Len(log) + 1) .. Len(both) : both[i][1] # c PROVE all = places
  BY <1>4, <1>5, <1>6, <1>7, <1>9
<1>10. ASSUME \A i \in (Len(log) + 1) .. Len(both) : both[i][1] = c
       PROVE  all = places \cup (Len(log) + 1) .. Len(both)
  BY <1>4, <1>5, <1>6, <1>7, <1>10
<1>11. ASSUME all = places \cup (Len(log) + 1) .. Len(both)
       PROVE  Grew(Selected(log, places), Selected(both, all), log, both, V)
  BY <1>5, <1>11, SelectedExtended
<1> QED
  BY <1>2, <1>8, <1>9, <1>10, <1>11

(* A list of records of the call only, and one of none.                     *)
AllOf(s, c) == \A i \in 1 .. Len(s) : s[i][1] = c
NoneOf(s, c) == \A i \in 1 .. Len(s) : s[i][1] # c

(* Adding records of the call adds them, adding another's changes nothing.  *)
LEMMA RecordsOfConcat ==
  ASSUME NEW V, NEW log \in Seq(V), NEW s \in Seq(V), NEW c
  PROVE  /\ RecordsIn(log, c) \in Seq(V)
         /\ AllOf(s, c) => RecordsIn(log \o s, c) = RecordsIn(log, c) \o s
         /\ NoneOf(s, c) => RecordsIn(log \o s, c) = RecordsIn(log, c)
<1>1. PICK both : both = log \o s
  OBVIOUS
<1>2. /\ both \in Seq(V) /\ Len(log) \in Nat /\ Len(s) \in Nat
      /\ Len(both) = Len(log) + Len(s)
      /\ \A i \in 1 .. Len(log) : both[i] = log[i]
      /\ \A i \in 1 .. Len(s) : both[Len(log) + i] = s[i]
  BY <1>1, ConcatProperties
<1>3. Begins(log, both, V)
  BY <1>2 DEF Begins
<1>4. \A i \in (Len(log) + 1) .. Len(both) : i - Len(log) \in 1 .. Len(s) /\ both[i] = s[i - Len(log)]
  <2> SUFFICES ASSUME NEW i \in (Len(log) + 1) .. Len(both)
               PROVE  i - Len(log) \in 1 .. Len(s) /\ both[i] = s[i - Len(log)]
    OBVIOUS
  <2>1. i - Len(log) \in 1 .. Len(s) /\ Len(log) + (i - Len(log)) = i
    BY <1>2
  <2> QED
    BY <1>2, <2>1
<1>5. PICK old, new : old = RecordsIn(log, c) /\ new = RecordsIn(both, c)
  OBVIOUS
<1>6. old \in Seq(V)
  BY <1>3, <1>5, RecordsGrow
<1>7. (\A i \in (Len(log) + 1) .. Len(both) : both[i][1] # c) => new = old
  BY <1>3, <1>5, RecordsGrow
<1>8. ASSUME \A i \in (Len(log) + 1) .. Len(both) : both[i][1] = c
       PROVE  /\ new \in Seq(V) /\ Len(new) = Len(old) + (Len(both) - Len(log))
              /\ \A n \in 1 .. Len(old) : new[n] = old[n]
              /\ \A n \in 1 .. Len(both) - Len(log) : new[Len(old) + n] = both[Len(log) + n]
  <2>1. Grew(RecordsIn(log, c), RecordsIn(both, c), log, both, V)
    BY <1>3, <1>8, RecordsGrow
  <2>2. Grew(old, new, log, both, V)
    BY <1>5, <2>1
  <2> QED
    BY <2>2 DEF Grew
<1>9. ASSUME \A i \in 1 .. Len(s) : s[i][1] # c PROVE new = old
  BY <1>4, <1>9, <1>7
<1>10. ASSUME \A i \in 1 .. Len(s) : s[i][1] = c PROVE new = old \o s
  <2>1. \A i \in (Len(log) + 1) .. Len(both) : both[i][1] = c
    BY <1>4, <1>10
  <2>2. Len(both) - Len(log) = Len(s)
    BY <1>2
  <2>3. /\ new \in Seq(V) /\ Len(new) = Len(old) + Len(s)
        /\ \A n \in 1 .. Len(old) : new[n] = old[n]
        /\ \A n \in 1 .. Len(s) : new[Len(old) + n] = s[n]
    BY <1>2, <1>8, <2>1, <2>2
  <2>4. PICK t : t = old \o s
    OBVIOUS
  <2>5. /\ t \in Seq(V) /\ Len(t) = Len(old) + Len(s) /\ Len(old) \in Nat
        /\ \A n \in 1 .. Len(old) : t[n] = old[n]
        /\ \A n \in 1 .. Len(s) : t[Len(old) + n] = s[n]
    BY <1>6, <2>4, ConcatProperties
  <2>6. ASSUME NEW n \in 1 .. Len(old) + Len(s) PROVE t[n] = new[n]
    <3>1. CASE n \in 1 .. Len(old)
      BY <2>3, <2>5, <3>1
    <3>2. CASE n \notin 1 .. Len(old)
      <4>1. n - Len(old) \in 1 .. Len(s) /\ Len(old) + (n - Len(old)) = n
        BY <1>2, <2>5, <3>2
      <4> QED
        BY <2>3, <2>5, <4>1
    <3> QED
      BY <3>1, <3>2
  <2>7. t = new
    BY <2>3, <2>5, <2>6
  <2> QED
    BY <2>4, <2>7
<1> QED
  BY <1>1, <1>5, <1>9, <1>10, <1>6 DEF AllOf, NoneOf

(* An empty log has no records of any call.                                 *)
LEMMA NoRecords == \A c : RecordsIn(<<>>, c) = <<>>
<1> SUFFICES ASSUME NEW c PROVE RecordsIn(<<>>, c) = <<>>
  OBVIOUS
<1>1. RecordsIn(<<>>, c) = Selected(<<>>, {})
  BY DEF RecordsIn
<1> QED
  BY <1>1, FS_EmptySet DEF Selected

(* The sink has of a call what the call says of itself; the runtime nothing *)
(* until it has it all.                                                     *)
TrailInv ==
  /\ toolAudit \in Seq(Calls \X Records) /\ collected \in Seq(Calls \X Records)
  /\ \A c \in ToolCalls :
       /\ RecordsIn(toolAudit, c) = RecordsOf(c)
       /\ RecordsIn(collected, c) = IF stage[c] = "answered" THEN RecordsOf(c) ELSE <<>>

(* Records of one call.                                                     *)
Tagged(c, types) == [i \in DOMAIN types |-> <<c, types[i]>>]

(* Records of one call after others of it are records of it.                *)
LEMMA TaggedConcat ==
  ASSUME NEW c \in Calls, NEW old \in Seq(Records), NEW types \in Seq(Records)
  PROVE  /\ Tagged(c, old) \in Seq(Calls \X Records) /\ Tagged(c, types) \in Seq(Calls \X Records)
         /\ Len(Tagged(c, types)) = Len(types)
         /\ \A i \in 1 .. Len(types) : Tagged(c, types)[i][1] = c
         /\ Tagged(c, old \o types) = Tagged(c, old) \o Tagged(c, types)
<1>0. PICK W : W = Calls \X Records
  OBVIOUS
<1>1. ASSUME NEW t \in Seq(Records)
      PROVE  /\ Tagged(c, t) \in Seq(W) /\ Len(Tagged(c, t)) = Len(t) /\ DOMAIN t = 1 .. Len(t)
             /\ \A i \in 1 .. Len(t) : Tagged(c, t)[i] = <<c, t[i]>>
  <2>1. DOMAIN t = 1 .. Len(t) /\ Len(t) \in Nat /\ \A i \in 1 .. Len(t) : t[i] \in Records
    OBVIOUS
  <2>2. \A i \in 1 .. Len(t) : <<c, t[i]>> \in W
    BY <1>0, <2>1
  <2>3. PICK u : u = Tagged(c, t)
    OBVIOUS
  <2>4. u = [i \in 1 .. Len(t) |-> <<c, t[i]>>]
    BY <2>1, <2>3 DEF Tagged
  <2>5. u \in Seq(W) /\ Len(u) = Len(t) /\ \A i \in 1 .. Len(t) : u[i] = <<c, t[i]>>
    BY <2>1, <2>2, <2>4
  <2> QED
    BY <2>1, <2>3, <2>5
<1>2. PICK a, b, both : a = Tagged(c, old) /\ b = Tagged(c, types) /\ both = old \o types
  OBVIOUS
<1>3. /\ both \in Seq(Records) /\ Len(both) = Len(old) + Len(types)
      /\ \A i \in 1 .. Len(old) + Len(types) :
           both[i] = IF i <= Len(old) THEN old[i] ELSE types[i - Len(old)]
  BY <1>2, ConcatProperties
<1>4. PICK new : new = Tagged(c, both)
  OBVIOUS
<1>5. /\ a \in Seq(W) /\ Len(a) = Len(old)
      /\ b \in Seq(W) /\ Len(b) = Len(types)
      /\ new \in Seq(W) /\ Len(new) = Len(both)
      /\ \A i \in 1 .. Len(old) : a[i] = <<c, old[i]>>
      /\ \A i \in 1 .. Len(types) : b[i] = <<c, types[i]>>
      /\ \A i \in 1 .. Len(both) : new[i] = <<c, both[i]>>
  BY <1>1, <1>2, <1>3, <1>4
<1>6. PICK t : t = a \o b
  OBVIOUS
<1>7. /\ t \in Seq(W) /\ Len(t) = Len(old) + Len(types)
      /\ \A i \in 1 .. Len(old) + Len(types) : t[i] = IF i <= Len(old) THEN a[i] ELSE b[i - Len(old)]
  <2>1. a \in Seq(W) /\ b \in Seq(W) /\ Len(a) = Len(old) /\ Len(b) = Len(types)
    BY <1>5
  <2> QED
    BY <1>6, <2>1, ConcatProperties
<1>8. ASSUME NEW i \in 1 .. Len(old) + Len(types) PROVE t[i] = new[i]
  <2>1. CASE i <= Len(old)
    <3>1. i \in 1 .. Len(old)
      BY <2>1
    <3> QED
      BY <1>3, <1>5, <1>7, <2>1, <3>1
  <2>2. CASE ~(i <= Len(old))
    <3>1. i - Len(old) \in 1 .. Len(types)
      BY <2>2
    <3> QED
      BY <1>3, <1>5, <1>7, <2>2, <3>1
  <2> QED
    BY <2>1, <2>2
<1>9. t = new
  BY <1>3, <1>5, <1>7, <1>8
<1>10. \A i \in 1 .. Len(types) : b[i][1] = c
  BY <1>5
<1> QED
  BY <1>0, <1>2, <1>4, <1>5, <1>6, <1>9, <1>10

(* A step that says more of call c, which is not answered.                  *)
LEMMA SayingKeepsTrail ==
  ASSUME GatewayInv, TrailInv, NEW c \in Calls, NEW types \in Seq(Records), NEW to,
         Emit(c, types), collected' = collected, Goes(c, to),
         stage[c] # "answered", to # "answered"
  PROVE  TrailInv'
<1>1. /\ DOMAIN stage = Calls /\ trail \in [Calls -> Seq(Records)]
  BY DEF GatewayInv, CallInv
<1>2. /\ \A x \in Calls : stage'[x] = "answered" <=> stage[x] = "answered"
  BY <1>1 DEF Goes
<1>3. PICK old, said : old = trail[c] /\ said = Tagged(c, types)
  OBVIOUS
<1>4. /\ RecordsOf(c) \in Seq(Calls \X Records) /\ said \in Seq(Calls \X Records)
      /\ Len(said) = Len(types) /\ \A i \in 1 .. Len(said) : said[i][1] = c
      /\ RecordsOf(c)' = RecordsOf(c) \o said
  <2>1. trail[c] \in Seq(Records) /\ trail'[c] = old \o types
    BY <1>1, <1>3 DEF Emit
  <2> QED
    <3>1. RecordsOf(c) = Tagged(c, old) /\ RecordsOf(c)' = Tagged(c, old \o types)
      BY <1>3, <2>1 DEF RecordsOf, Tagged
    <3> QED
      <4>1. old \in Seq(Records)
        BY <1>3, <2>1
      <4>2. /\ Tagged(c, old) \in Seq(Calls \X Records) /\ said \in Seq(Calls \X Records)
            /\ Len(said) = Len(types) /\ \A i \in 1 .. Len(types) : said[i][1] = c
            /\ Tagged(c, old \o types) = Tagged(c, old) \o said
        BY <1>3, <4>1, TaggedConcat, ZenonT(40)
      <4> QED
        BY <3>1, <4>2
<1>5. \A x \in Calls \ {c} : RecordsOf(x)' = RecordsOf(x)
  BY <1>1 DEF Emit, RecordsOf
<1>6. ASSUME NEW x \in ToolCalls
      PROVE  RecordsIn(collected, x)' = IF stage'[x] = "answered" THEN RecordsOf(x)' ELSE <<>>
  <2>1. x \in Calls /\ RecordsIn(collected, x)' = RecordsIn(collected, x)
    BY DEF Calls, RecordsIn
  <2> QED
    BY <1>2, <1>5, <2>1 DEF TrailInv
<1>7. toolAudit' \in Seq(Calls \X Records) /\ \A x \in ToolCalls : RecordsIn(toolAudit, x)' = RecordsOf(x)'
  <2>1. CASE c \in Reads
    <3>1. toolAudit' = toolAudit /\ c \notin ToolCalls
      BY <2>1, GatewayAssumption DEF Emit
    <3>2. \A x \in ToolCalls : x \in Calls \ {c} /\ RecordsIn(toolAudit, x)' = RecordsIn(toolAudit, x)
      BY <3>1 DEF Calls, RecordsIn
    <3> QED
      BY <1>5, <3>1, <3>2 DEF TrailInv
  <2>2. CASE c \notin Reads
    <3>1. toolAudit' = toolAudit \o said /\ toolAudit \in Seq(Calls \X Records)
      BY <1>3, <2>2 DEF Emit, TrailInv, Tagged
    <3>2. /\ RecordsIn(toolAudit, c)' = RecordsIn(toolAudit, c) \o said
          /\ \A x \in Calls \ {c} : RecordsIn(toolAudit, x)' = RecordsIn(toolAudit, x)
      <4>1. \A x : RecordsIn(toolAudit, x)' = RecordsIn(toolAudit \o said, x)
        BY <3>1 DEF RecordsIn
      <4>2. PICK W : W = Calls \X Records
        OBVIOUS
      <4>3. toolAudit \in Seq(W) /\ said \in Seq(W)
        BY <1>4, <3>1, <4>2
      <4>4. \A x \in Calls \ {c} : NoneOf(said, x)
        BY <1>4 DEF NoneOf
      <4>5. RecordsIn(toolAudit \o said, c) = RecordsIn(toolAudit, c) \o said
        <5>1. AllOf(said, c)
          BY <1>4 DEF AllOf
        <5> QED
          BY <4>3, <5>1, RecordsOfConcat
      <4>6. \A x \in Calls \ {c} : RecordsIn(toolAudit \o said, x) = RecordsIn(toolAudit, x)
        BY <4>3, <4>4, RecordsOfConcat
      <4> QED
        BY <4>1, <4>5, <4>6
    <3>3. \A x \in ToolCalls : x \in Calls
      BY DEF Calls
    <3>4. toolAudit' \in Seq(Calls \X Records)
      BY <1>4, <3>1, ConcatProperties
    <3> QED
      BY <1>4, <1>5, <3>2, <3>3, <3>4 DEF TrailInv
  <2> QED
    BY <2>1, <2>2
<1> QED
  BY <1>6, <1>7 DEF TrailInv

(* The runtime has the call's answer.                                       *)
LEMMA CollectKeepsTrail ==
  ASSUME GatewayInv, TrailInv, NEW c \in Calls, Collect(c)
  PROVE  TrailInv'
<1>1. /\ DOMAIN stage = Calls /\ trail[c] \in Seq(Records)
      /\ stage[c] # "answered"
  BY DEF GatewayInv, CallInv, Collect, Outcomes
<1>2. /\ \A x \in Calls \ {c} : stage'[x] = stage[x]
      /\ stage'[c] = "answered" /\ trail' = trail /\ toolAudit' = toolAudit
      /\ collected' = collected \o RecordsOf(c)
  BY <1>1 DEF Collect, Goes
<1>3. \A x : RecordsOf(x)' = RecordsOf(x)
  BY <1>2 DEF RecordsOf
<1>4. \A x : RecordsIn(toolAudit, x)' = RecordsIn(toolAudit, x)
  BY <1>2 DEF RecordsIn
<1>5. PICK W, said : W = Calls \X Records /\ said = RecordsOf(c)
  OBVIOUS
<1>6. said \in Seq(W) /\ \A i \in 1 .. Len(said) : said[i][1] = c
  <2>1. said = Tagged(c, trail[c])
    BY <1>5 DEF RecordsOf, Tagged
  <2> QED
    BY <1>1, <1>5, <2>1, TaggedConcat
<1>7. collected \in Seq(W) /\ collected' = collected \o said
  BY <1>2, <1>5 DEF TrailInv
<1>8. \A x : RecordsIn(collected, x)' = RecordsIn(collected \o said, x)
  BY <1>7 DEF RecordsIn
<1>9. RecordsIn(collected \o said, c) = RecordsIn(collected, c) \o said
  <2>1. AllOf(said, c)
    BY <1>6 DEF AllOf
  <2> QED
    BY <1>6, <1>7, <2>1, RecordsOfConcat
<1>10. \A x \in Calls \ {c} : RecordsIn(collected \o said, x) = RecordsIn(collected, x)
  <2>1. \A x \in Calls \ {c} : NoneOf(said, x)
    BY <1>6 DEF NoneOf
  <2> QED
    BY <1>6, <1>7, <2>1, RecordsOfConcat
<1>11. ASSUME NEW x \in ToolCalls
       PROVE  RecordsIn(collected, x)' = IF stage'[x] = "answered" THEN RecordsOf(x)' ELSE <<>>
  <2>0. x \in Calls
    BY DEF Calls
  <2>1. CASE x = c
    <3>1. RecordsIn(collected, c) = <<>>
      BY <1>1, <2>1 DEF TrailInv
    <3>2. <<>> \o said = said
      BY <1>6
    <3> QED
      BY <1>2, <1>3, <1>5, <1>8, <1>9, <2>1, <3>1, <3>2
  <2>2. CASE x # c
    BY <1>2, <1>3, <1>8, <1>10, <2>0, <2>2 DEF TrailInv
  <2> QED
    BY <2>1, <2>2
<1>12. collected' \in Seq(W)
  BY <1>6, <1>7, ConcatProperties
<1> QED
  BY <1>2, <1>3, <1>4, <1>5, <1>11, <1>12 DEF TrailInv

(* A step that says nothing and answers nothing.                            *)
LEMMA SilenceKeepsTrail ==
  ASSUME TrailInv, trail' = trail, toolAudit' = toolAudit, collected' = collected,
         \A x \in Calls : stage'[x] = "answered" <=> stage[x] = "answered"
  PROVE  TrailInv'
<1>1. \A x : RecordsIn(toolAudit, x)' = RecordsIn(toolAudit, x) /\ RecordsOf(x)' = RecordsOf(x)
              /\ RecordsIn(collected, x)' = RecordsIn(collected, x)
  BY DEF RecordsIn, RecordsOf
<1>2. \A x \in ToolCalls : x \in Calls
  BY DEF Calls
<1> QED
  BY <1>1, <1>2 DEF TrailInv

(* Every step keeps what the sink has collected of each call the trail of   *)
(* the call.                                                                *)
LEMMA GatewayStepKeepsTrail ==
  GatewayInv /\ TrailInv /\ [GatewayNext]_gatewayVars => TrailInv'
<1> SUFFICES ASSUME GatewayInv, TrailInv, [GatewayNext]_gatewayVars PROVE TrailInv'
  OBVIOUS
<1>0. DOMAIN stage = Calls
  BY DEF GatewayInv, CallInv
<1>1. CASE UNCHANGED callVars
  BY <1>1, SilenceKeepsTrail DEF callVars
<1>2. ASSUME NEW c \in Calls, Advance(c) PROVE TrailInv'
  <2>0. \A a, b \in Records : <<a>> \in Seq(Records) /\ <<a, b>> \in Seq(Records) /\ <<>> \in Seq(Records)
    BY TameRecords DEF Tame
  <2>1. CASE Request(c)
    <3>1. stage[c] = "idle" /\ Goes(c, "policy") /\ collected' = collected
      BY <2>1 DEF Request
    <3>2. CASE c \in ToolCalls
      <4>1. Emit(c, <<"requested">>) /\ "requested" \in Records
        BY <2>1, <3>2 DEF Request, Records
      <4> QED
        BY <2>0, <3>1, <4>1, SayingKeepsTrail
    <3>3. CASE c \notin ToolCalls
      <4>1. trail' = trail /\ toolAudit' = toolAudit
        BY <2>1, <3>3 DEF Request
      <4>2. \A x \in Calls : stage'[x] = "answered" <=> stage[x] = "answered"
        BY <1>0, <3>1 DEF Goes
      <4> QED
        BY <3>1, <4>1, <4>2, SilenceKeepsTrail
    <3> QED
      BY <3>2, <3>3
  <2>2. CASE RefuseTool(c)
    <3>1. /\ stage[c] = "idle" /\ Goes(c, "handler_failed") /\ collected' = collected
          /\ Emit(c, <<"requested", "failed">>)
      BY <2>2 DEF RefuseTool
    <3>2. "requested" \in Records /\ "failed" \in Records
      BY DEF Records
    <3> QED
      BY <2>0, <3>1, <3>2, SayingKeepsTrail
  <2>3. ASSUME NEW decision, NEW approval, PolicyRules(c, decision, approval) PROVE TrailInv'
    <3>1. /\ stage[c] = "policy" /\ Goes(c, "ruled") /\ trail' = trail /\ toolAudit' = toolAudit
          /\ collected' = collected
      BY <2>3 DEF PolicyRules
    <3>2. \A x \in Calls : stage'[x] = "answered" <=> stage[x] = "answered"
      BY <1>0, <3>1 DEF Goes
    <3> QED
      BY <3>1, <3>2, SilenceKeepsTrail
  <2>4. CASE StartHandler(c)
    <3>1. "approved" \in Records /\ "policy_decision" \in Records
      BY DEF Records
    <3>2. \E types \in Seq(Records) : Emit(c, types)
      BY <2>0, <2>4, <3>1 DEF StartHandler
    <3>3. stage[c] = "ruled" /\ Goes(c, "running") /\ collected' = collected
      BY <2>4 DEF StartHandler
    <3> QED
      BY <3>2, <3>3, SayingKeepsTrail
  <2>5. CASE Refuse(c)
    <3>1. {"denied", "approval_required", "handler_failed", "failed", "policy_decision"}
            \ {"handler_failed"} \subseteq Records
      BY DEF Records
    <3>2. /\ stage[c] = "ruled" /\ collected' = collected
          /\ \E end \in {"denied", "approval_required", "handler_failed", "threw"} :
               /\ Goes(c, end)
               /\ \E types \in Seq(Records) : Emit(c, types)
      <4>1. PICK end, types :
              /\ end \in {"denied", "approval_required", "handler_failed", "threw"}
              /\ Goes(c, end) /\ Emit(c, types)
              /\ \/ types = <<>> \/ types = <<"policy_decision">> \/ types = <<"failed">>
                 \/ types = <<end>> /\ end \in {"denied", "approval_required"}
        BY <2>5 DEF Refuse
      <4>2. types \in Seq(Records)
        <5>1. "policy_decision" \in Records /\ "failed" \in Records /\ "denied" \in Records
              /\ "approval_required" \in Records
          BY DEF Records
        <5> QED
          BY <2>0, <4>1, <5>1
      <4>3. stage[c] = "ruled" /\ collected' = collected
        BY <2>5 DEF Refuse
      <4> QED
        BY <4>1, <4>2, <4>3
    <3> QED
      BY <3>2, SayingKeepsTrail
  <2>6. CASE HandlerReturns(c) \/ HandlerReturnsUnusable(c) \/ HandlerThrows(c)
    <3>1. "executed" \in Records /\ "failed" \in Records
      BY DEF Records
    <3>2. stage[c] = "running" /\ collected' = collected
      BY <2>6 DEF HandlerReturns, HandlerReturnsUnusable, HandlerThrows
    <3>3. \E types \in Seq(Records), end \in {"executed", "handler_failed"} :
            Emit(c, types) /\ Goes(c, end)
      BY <2>0, <2>6, <3>1 DEF HandlerReturns, HandlerReturnsUnusable, HandlerThrows
    <3> QED
      BY <3>2, <3>3, SayingKeepsTrail
  <2>7. CASE Collect(c)
    BY <2>7, CollectKeepsTrail
  <2> QED
    BY <1>2, <2>1, <2>2, <2>3, <2>4, <2>5, <2>6, <2>7 DEF Advance
<1>3. CASE UNCHANGED gatewayVars
  BY <1>1, <1>3 DEF gatewayVars
<1> QED
  BY <1>1, <1>2, <1>3 DEF GatewayNext

(* What the runtime has collected of an answered tool call is what the sink *)
(* has of it, in its order, whatever other calls the sink records meanwhile.*)
THEOREM CollectedIsAlwaysTheSink == GatewaySpec => []CollectedIsTheSink
<1>1. GatewayInit => TrailInv
  <2> SUFFICES ASSUME GatewayInit PROVE TrailInv
    OBVIOUS
  <2>1. /\ stage = [c \in Calls |-> "idle"] /\ trail = [c \in Calls |-> <<>>]
        /\ toolAudit = <<>> /\ collected = <<>>
    BY DEF GatewayInit
  <2>2. ASSUME NEW c \in ToolCalls PROVE RecordsOf(c) = <<>> /\ stage[c] = "idle"
    BY <2>1 DEF RecordsOf, Calls
  <2>3. <<>> \in Seq(Calls \X Records)
    OBVIOUS
  <2> QED
    BY <2>1, <2>2, <2>3, NoRecords DEF TrailInv
<1>2. TrailInv => CollectedIsTheSink
  BY DEF TrailInv, CollectedIsTheSink
<1> QED
  BY <1>1, <1>2, GatewayInvariant, GatewayStepKeepsTrail, PTL DEF GatewaySpec
=============================================================================
