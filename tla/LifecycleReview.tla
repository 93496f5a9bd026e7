--------------------------- MODULE LifecycleReview ---------------------------
(***************************************************************************)
(* Review of lifecycle operations in the web app                           *)
(* (apps/web/src/lifecycleReview.ts): backups and restores, migrations,    *)
(* sync replays and compaction plans are put up for review, decided once,  *)
(* and carry redaction markers.  Every step builds a new state of the old  *)
(* one or throws and leaves it; most recalculate the status of all reviews.*)
(***************************************************************************)
EXTENDS Naturals, Sequences

CONSTANTS
  Reviews, DecisionNames, MarkerNames,
  MaxMarkers     \* bound: redaction markers in the state

ASSUME LifecycleAssumption == MaxMarkers \in Nat

VARIABLES
  reviews,     \* by review id: a partial function
  decisions,   \* approvalDecisions
  markers      \* redactionMarkers, in the order they were added

lifecycleVars == <<reviews, decisions, markers>>

Kinds == {"backup_restore", "migration_plan", "sync_replay", "compaction_plan"}
Decided == {"approved", "rejected"}

OpenBlocking(m) == m.status = "open" /\ m.severity = "blocking"

(* hasOpenBlockingRedaction                                                 *)
HasOpenBlocking(ms, r) == \E i \in DOMAIN ms : ms[i].review = r /\ OpenBlocking(ms[i])

(* resolveReviewStatus                                                      *)
ResolvedStatus(review, r, ds, ms) ==
  CASE review.decision # {} -> (CHOOSE d \in ds : d.id \in review.decision).decision
    [] review.decision = {} /\ HasOpenBlocking(ms, r) -> "needs_redaction"
    [] review.decision = {} /\ ~HasOpenBlocking(ms, r) /\ review.blockers > 0 -> "blocked"
    [] OTHER -> "pending"

(* recalculateLifecycleReviewState                                          *)
Recalculated(rs, ds, ms) ==
  [r \in DOMAIN rs |-> [rs[r] EXCEPT !.status = ResolvedStatus(rs[r], r, ds, ms)]]

LifecycleInit ==
  /\ reviews = [r \in {} |-> {}]
  /\ decisions = {}
  /\ markers = <<>>

(* createBaseReview with the blockers of each kind: a count that is given   *)
(* wins; without one a replay that is blocked, and a compaction plan whose  *)
(* replay was not verified, has a blocker.                                  *)
Blockers(kind, clean, given) ==
  IF given # {} THEN CHOOSE n \in given : TRUE
  ELSE IF kind \in {"sync_replay", "compaction_plan"} /\ ~clean THEN 1 ELSE 0

(* add*Review.  given: the blockerCount of the input, where it has one.     *)
AddReview(r, kind, clean, given) ==
  /\ r \notin DOMAIN reviews
  /\ reviews' = Recalculated(
       [x \in DOMAIN reviews \cup {r} |->
          IF x = r THEN [kind |-> kind, blockers |-> Blockers(kind, clean, given),
                         decision |-> {}, status |-> "pending"]
          ELSE reviews[x]], decisions, markers)
  /\ UNCHANGED <<decisions, markers>>

(* Mutant: only the blockers the review came with are looked at.            *)
MayDecideBlocked(r, decision) ==
  /\ reviews[r].decision = {} /\ reviews[r].status # "approved"
  /\ decision = "approved" => reviews[r].blockers = 0

MayDecide(r, decision) ==
  /\ reviews[r].decision = {} /\ reviews[r].status # "approved"
  /\ decision = "approved" => reviews[r].blockers = 0 /\ ~HasOpenBlocking(markers, r)

(* decideLifecycleReview                                                    *)
Decide(r, id, decision) ==
  /\ r \in DOMAIN reviews /\ MayDecide(r, decision)
  /\ \A d \in decisions : d.id # id
  /\ decisions' = decisions \cup {[id |-> id, review |-> r, decision |-> decision]}
  /\ reviews' = [reviews EXCEPT ![r].status = decision, ![r].decision = {id}]
  /\ UNCHANGED markers

(* addLifecycleRedactionMarker.  The id is compared as it was typed and     *)
(* stored trimmed, so that an id typed with blanks around it is never found.*)
AddMarker(r, id, padded, severity) ==
  /\ r \in DOMAIN reviews /\ reviews[r].status \notin Decided
  /\ ~padded => \A i \in DOMAIN markers : markers[i].id # id
  /\ Len(markers) < MaxMarkers
  /\ markers' = Append(markers, [id |-> id, review |-> r, severity |-> severity, status |-> "open"])
  /\ reviews' = Recalculated(reviews, decisions, markers')
  /\ UNCHANGED decisions

(* resolveLifecycleRedactionMarker: every marker with the (trimmed) id.     *)
ResolveMarker(id) ==
  /\ \E i \in DOMAIN markers : markers[i].id = id
  /\ markers' = [i \in DOMAIN markers |->
                   IF markers[i].id = id THEN [markers[i] EXCEPT !.status = "resolved"] ELSE markers[i]]
  /\ reviews' = Recalculated(reviews, decisions, markers')
  /\ UNCHANGED decisions

(* Bound: a review has at most one blocker.                                 *)
LifecycleNext ==
  \/ \E r \in Reviews, kind \in Kinds, clean \in BOOLEAN, given \in {{}, {0}, {1}} :
       AddReview(r, kind, clean, given)
  \/ \E r \in Reviews, id \in DecisionNames, decision \in Decided : Decide(r, id, decision)
  \/ \E r \in Reviews, id \in MarkerNames, padded \in BOOLEAN, severity \in {"warning", "blocking"} :
       AddMarker(r, id, padded, severity)
  \/ \E id \in MarkerNames : ResolveMarker(id)

LifecycleSpec == LifecycleInit /\ [][LifecycleNext]_lifecycleVars

-----------------------------------------------------------------------------
LifecycleTypeOK ==
  /\ DOMAIN reviews \subseteq Reviews
  /\ \A r \in DOMAIN reviews :
       reviews[r] \in [kind : Kinds, blockers : 0 .. 1, decision : SUBSET DecisionNames,
                       status : Decided \cup {"needs_redaction", "blocked", "pending"}]
  /\ decisions \subseteq [id : DecisionNames, review : Reviews, decision : Decided]
  /\ markers \in Seq([id : MarkerNames, review : Reviews, severity : {"warning", "blocking"},
                      status : {"open", "resolved"}])

(* "Web review state blocks approval while blockers or open blocking        *)
(* redactions remain": no order of reviews, markers and decisions leaves an *)
(* approved review with a blocker or an open blocking redaction, and what a *)
(* review's status says is what its one decision said.                      *)
ApprovedIsClear ==
  \A r \in DOMAIN reviews :
    /\ reviews[r].status = "approved" =>
         reviews[r].blockers = 0 /\ ~HasOpenBlocking(markers, r)
    /\ reviews[r].status = ResolvedStatus(reviews[r], r, decisions, markers)
    /\ \A d \in decisions : d.review = r => reviews[r].decision = {d.id}

(* normalizeLifecycleReviewState asserts of a state it is given that no two *)
(* redaction markers share an id: a state that was built step by step can   *)
(* be saved and created again.                                              *)
MarkerIdsAreUnique == \A i, j \in DOMAIN markers : markers[i].id = markers[j].id => i = j
=============================================================================
