------------------------- MODULE ApplicationsProofs -------------------------
(***************************************************************************)
(* Proofs about the packages and the states of the web app that             *)
(* MCApplications runs: reviews, tasks and drafts of the web app, runs of   *)
(* the sandbox, the review records of the API, the retention of backups,    *)
(* compaction and migrations.  Each part is about one of them and uses no   *)
(* lemma of another.                                                        *)
(***************************************************************************)
EXTENDS LifecycleReview, WebTasks, MarkdownDrafts, PluginSandbox, ReviewRecords,
        BackupRetention, Compaction, Migrations, DataLemmas, SequenceTheorems

-----------------------------------------------------------------------------
(* LIFECYCLE REVIEWS (LifecycleReview), whatever the names and however many *)
(* markers.                                                                 *)

(* What resolveReviewStatus can answer.                                     *)
ReviewStatuses == Decided \cup {"needs_redaction", "blocked", "pending"}

(* A decision is of one review, which names it.                             *)
DecisionsMatch ==
  /\ \A d, e \in decisions : d.id = e.id => d = e
  /\ \A d \in decisions : d.review \in DOMAIN reviews /\ reviews[d.review].decision = {d.id}
  /\ \A r \in DOMAIN reviews :
       \/ reviews[r].decision = {}
       \/ \E d \in decisions : d.review = r /\ reviews[r].decision = {d.id}
                               /\ reviews[r].status = d.decision

(* Nothing blocks the review.                                               *)
Clear(r) == reviews[r].blockers = 0 /\ ~HasOpenBlocking(markers, r)

(* No approved review has a blocker or an open blocking marker.             *)
ApprovedAreClear ==
  \A r \in DOMAIN reviews : reviews[r].status = "approved" => Clear(r)

(* The status of a review is what a recalculation would make of it.         *)
StatusesSettled ==
  \A r \in DOMAIN reviews : reviews[r].status = ResolvedStatus(reviews[r], r, decisions, markers)

(* Every marker names a review there is.                                    *)
MarkersHaveReviews == \A i \in DOMAIN markers : markers[i].review \in DOMAIN reviews

(* The inductive invariant: decisions match their reviews, so that a        *)
(* status, which is recalculated from them, is settled.                     *)
LifecycleInv ==
  LifecycleTypeOK /\ DecisionsMatch /\ ApprovedAreClear /\ StatusesSettled /\ MarkersHaveReviews

-----------------------------------------------------------------------------
(* resolveReviewStatus answers the decision of a decided review.            *)
LEMMA DecidedStatus ==
  ASSUME NEW review, NEW r, NEW ds, NEW ms, NEW d \in ds,
         \A e \in ds : e.id = d.id => e = d,
         review.decision = {d.id}
  PROVE  ResolvedStatus(review, r, ds, ms) = d.decision
<1>1. (CHOOSE e \in ds : e.id \in review.decision) = d
  OBVIOUS
<1>2. review.decision # {}
  OBVIOUS
<1> QED
  BY <1>1, <1>2, Zenon DEF ResolvedStatus

(* Without a decision it depends on the blockers and the markers alone.     *)
LEMMA OpenStatus ==
  ASSUME NEW review, NEW r, NEW ds, NEW ms, review.decision = {}
  PROVE  /\ ResolvedStatus(review, r, ds, ms) \in {"needs_redaction", "blocked", "pending"}
         /\ \A es : ResolvedStatus(review, r, es, ms) = ResolvedStatus(review, r, ds, ms)
BY DEF ResolvedStatus

(* It looks at nothing of the review but its decision and its blockers.     *)
LEMMA StatusOfSameReview ==
  ASSUME NEW review, NEW other, NEW r, NEW ds, NEW ms,
         other.decision = review.decision, other.blockers = review.blockers
  PROVE  ResolvedStatus(other, r, ds, ms) = ResolvedStatus(review, r, ds, ms)
BY DEF ResolvedStatus

(* A review, and a marker.                                                  *)
ReviewShape ==
  [kind : Kinds, blockers : 0 .. 1, decision : SUBSET DecisionNames, status : ReviewStatuses]

MarkerShape ==
  [id : MarkerNames, review : Reviews, severity : {"warning", "blocking"},
   status : {"open", "resolved"}]

(* The status of any review is one of five, where its decision is known.    *)
LEMMA StatusInRange ==
  ASSUME NEW review, NEW r, NEW ds, NEW ms,
         review.decision = {} \/ \E d \in ds : review.decision = {d.id} /\ d.decision \in Decided
                                               /\ \A e \in ds : e.id = d.id => e = d
  PROVE  ResolvedStatus(review, r, ds, ms) \in ReviewStatuses
<1>1. CASE review.decision = {}
  BY <1>1, OpenStatus DEF ReviewStatuses
<1>2. ASSUME NEW d \in ds, review.decision = {d.id}, d.decision \in Decided,
             \A e \in ds : e.id = d.id => e = d
      PROVE  ResolvedStatus(review, r, ds, ms) \in ReviewStatuses
  <2>1. ResolvedStatus(review, r, ds, ms) = d.decision
    BY <1>2, DecidedStatus
  <2> QED
    BY <1>2, <2>1 DEF ReviewStatuses
<1> QED
  BY <1>1, <1>2

(* recalculateLifecycleReviewState keeps everything of a review but its     *)
(* status, which it settles.                                                *)
LEMMA RecalculatedReviews ==
  ASSUME NEW rs, NEW ds, NEW ms, \A r \in DOMAIN rs : rs[r] \in ReviewShape
  PROVE  LET new == Recalculated(rs, ds, ms)
         IN /\ DOMAIN new = DOMAIN rs
            /\ \A r \in DOMAIN rs :
                 /\ new[r].kind = rs[r].kind
                 /\ new[r].blockers = rs[r].blockers
                 /\ new[r].decision = rs[r].decision
                 /\ new[r].status = ResolvedStatus(rs[r], r, ds, ms)
                 /\ new[r].status = ResolvedStatus(new[r], r, ds, ms)
                 /\ new[r].status \in ReviewStatuses => new[r] \in ReviewShape
<1> DEFINE new == Recalculated(rs, ds, ms)
<1>1. new = [r \in DOMAIN rs |-> [rs[r] EXCEPT !.status = ResolvedStatus(rs[r], r, ds, ms)]]
  BY DEF Recalculated
<1>2. DOMAIN new = DOMAIN rs
  BY <1>1
<1>3. ASSUME NEW r \in DOMAIN rs
      PROVE  /\ new[r].kind = rs[r].kind
             /\ new[r].blockers = rs[r].blockers
             /\ new[r].decision = rs[r].decision
             /\ new[r].status = ResolvedStatus(rs[r], r, ds, ms)
             /\ new[r].status = ResolvedStatus(new[r], r, ds, ms)
             /\ new[r].status \in ReviewStatuses => new[r] \in ReviewShape
  <2>1. new[r] = [rs[r] EXCEPT !.status = ResolvedStatus(rs[r], r, ds, ms)]
    BY <1>1
  <2>2. rs[r] \in ReviewShape
    OBVIOUS
  <2>3. PICK status : status = ResolvedStatus(rs[r], r, ds, ms)
    OBVIOUS
  <2>4. new[r] = [rs[r] EXCEPT !.status = status]
    BY <2>1, <2>3
  <2>5. /\ new[r].kind = rs[r].kind
        /\ new[r].blockers = rs[r].blockers
        /\ new[r].decision = rs[r].decision
        /\ new[r].status = status
        /\ new[r].status \in ReviewStatuses => new[r] \in ReviewShape
    BY <2>2, <2>4 DEF ReviewShape
  <2>6. new[r].status = ResolvedStatus(new[r], r, ds, ms)
    BY <2>3, <2>5, StatusOfSameReview
  <2> QED
    BY <2>3, <2>5, <2>6
<1> QED
  BY <1>2, <1>3

(* It holds of a state without reviews.                                     *)
LEMMA LifecycleInitially == LifecycleInit => LifecycleInv
BY DEF LifecycleInit, LifecycleInv, LifecycleTypeOK, DecisionsMatch, ApprovedAreClear,
       StatusesSettled, MarkersHaveReviews

(* After a step that recalculates every review and takes no decision: rs is *)
(* the reviews before the recalculation.                                    *)
LEMMA RecalculationPreserves ==
  ASSUME LifecycleTypeOK, DecisionsMatch, StatusesSettled,
         NEW rs, DOMAIN reviews \subseteq DOMAIN rs, DOMAIN rs \subseteq Reviews,
         \A r \in DOMAIN rs : rs[r] \in ReviewShape,
         \A r \in DOMAIN reviews : rs[r] = reviews[r],
         \A r \in DOMAIN rs \ DOMAIN reviews : rs[r].decision = {},
         reviews' = Recalculated(rs, decisions', markers'),
         decisions' = decisions
  PROVE  /\ \A r \in DOMAIN reviews' : reviews'[r] \in ReviewShape
         /\ DOMAIN reviews' = DOMAIN rs
         /\ DecisionsMatch'
         /\ StatusesSettled'
         /\ \A r \in DOMAIN rs :
              /\ reviews'[r].blockers = rs[r].blockers
              /\ reviews'[r].status = "approved" =>
                   r \in DOMAIN reviews /\ reviews[r].status = "approved"
<1>1. /\ DOMAIN reviews' = DOMAIN rs
      /\ \A r \in DOMAIN rs :
           /\ reviews'[r].kind = rs[r].kind
           /\ reviews'[r].blockers = rs[r].blockers
           /\ reviews'[r].decision = rs[r].decision
           /\ reviews'[r].status = ResolvedStatus(rs[r], r, decisions', markers')
           /\ reviews'[r].status = ResolvedStatus(reviews'[r], r, decisions', markers')
           /\ reviews'[r].status \in ReviewStatuses => reviews'[r] \in ReviewShape
  BY RecalculatedReviews
<1>2. \A r \in DOMAIN rs :
        \/ rs[r].decision = {}
        \/ \E d \in decisions : /\ rs[r].decision = {d.id} /\ d.review = r
                                /\ d.decision \in Decided /\ r \in DOMAIN reviews
                                /\ reviews[r].status = d.decision
                                /\ \A e \in decisions : e.id = d.id => e = d
  BY DEF DecisionsMatch, LifecycleTypeOK
<1>3. ASSUME NEW r \in DOMAIN rs
      PROVE  /\ reviews'[r].status \in ReviewStatuses
             /\ reviews'[r].status = "approved" => r \in DOMAIN reviews /\ reviews[r].status = "approved"
             /\ \A d \in decisions : rs[r].decision = {d.id} /\ d.review = r =>
                  reviews'[r].status = d.decision
  <2>1. CASE rs[r].decision = {}
    <3>1. ResolvedStatus(rs[r], r, decisions', markers') \in {"needs_redaction", "blocked", "pending"}
      BY <2>1, OpenStatus
    <3> QED
      BY <2>1, <3>1, <1>1, Zenon DEF ReviewStatuses
  <2>2. ASSUME NEW d \in decisions, rs[r].decision = {d.id}, d.review = r,
               d.decision \in Decided, r \in DOMAIN reviews, reviews[r].status = d.decision,
               \A e \in decisions : e.id = d.id => e = d
        PROVE  /\ reviews'[r].status \in ReviewStatuses
               /\ reviews'[r].status = "approved" => r \in DOMAIN reviews /\ reviews[r].status = "approved"
               /\ \A e \in decisions : rs[r].decision = {e.id} /\ e.review = r =>
                    reviews'[r].status = e.decision
    <3>1. ResolvedStatus(rs[r], r, decisions', markers') = d.decision
      BY <2>2, DecidedStatus
    <3>2. reviews'[r].status = d.decision
      BY <3>1, <1>1
    <3> QED
      BY <2>2, <3>2 DEF ReviewStatuses
  <2> QED
    BY <2>1, <2>2, <1>2
<1>4. DecisionsMatch'
  BY <1>1, <1>2, <1>3 DEF DecisionsMatch
<1>5. StatusesSettled'
  BY <1>1 DEF StatusesSettled
<1> QED
  BY <1>1, <1>3, <1>4, <1>5

(* A new review has no decision and gets the status it has.                 *)
LEMMA AddReviewStep ==
  ASSUME LifecycleInv, NEW r \in Reviews, NEW kind \in Kinds, NEW clean \in BOOLEAN,
         NEW given \in {{}, {0}, {1}}, AddReview(r, kind, clean, given)
  PROVE  LifecycleInv'
<1>1. PICK rs : rs = [x \in DOMAIN reviews \cup {r} |->
          IF x = r THEN [kind |-> kind, blockers |-> Blockers(kind, clean, given),
                         decision |-> {}, status |-> "pending"]
          ELSE reviews[x]]
  OBVIOUS
<1>2. r \notin DOMAIN reviews /\ decisions' = decisions /\ markers' = markers
  BY DEF AddReview
<1>3. reviews' = Recalculated(rs, decisions', markers')
  BY <1>1, <1>2 DEF AddReview
<1>4. Blockers(kind, clean, given) \in 0 .. 1
  BY DEF Blockers
<1>5. /\ DOMAIN rs = DOMAIN reviews \cup {r}
      /\ \A x \in DOMAIN reviews : rs[x] = reviews[x]
      /\ rs[r] = [kind |-> kind, blockers |-> Blockers(kind, clean, given),
                  decision |-> {}, status |-> "pending"]
  BY <1>1, <1>2
<1>6. rs[r] \in ReviewShape /\ rs[r].decision = {}
  BY <1>4, <1>5 DEF ReviewShape, ReviewStatuses
<1>7. \A x \in DOMAIN reviews : reviews[x] \in ReviewShape
  BY DEF LifecycleInv, LifecycleTypeOK, ReviewShape, ReviewStatuses
<1>8. DOMAIN reviews \subseteq Reviews
  BY DEF LifecycleInv, LifecycleTypeOK
<1>9. /\ \A x \in DOMAIN rs : rs[x] \in ReviewShape
      /\ DOMAIN rs \subseteq Reviews /\ DOMAIN reviews \subseteq DOMAIN rs
      /\ \A x \in DOMAIN rs \ DOMAIN reviews : rs[x].decision = {}
  BY <1>5, <1>6, <1>7, <1>8
<1>10. LifecycleTypeOK /\ DecisionsMatch /\ StatusesSettled
  BY DEF LifecycleInv
<1>11. /\ \A x \in DOMAIN reviews' : reviews'[x] \in ReviewShape
       /\ DOMAIN reviews' = DOMAIN rs
       /\ DecisionsMatch' /\ StatusesSettled'
       /\ \A x \in DOMAIN rs :
            /\ reviews'[x].blockers = rs[x].blockers
            /\ reviews'[x].status = "approved" =>
                 x \in DOMAIN reviews /\ reviews[x].status = "approved"
  BY <1>2, <1>3, <1>5, <1>9, <1>10, RecalculationPreserves
<1>12. LifecycleTypeOK'
  BY <1>2, <1>9, <1>10, <1>11 DEF LifecycleTypeOK, ReviewShape, ReviewStatuses
<1>13. ApprovedAreClear'
  BY <1>2, <1>5, <1>11 DEF LifecycleInv, ApprovedAreClear, Clear, HasOpenBlocking
<1>14. MarkersHaveReviews'
  BY <1>2, <1>5, <1>11 DEF LifecycleInv, MarkersHaveReviews
<1> QED
  BY <1>11, <1>12, <1>13, <1>14 DEF LifecycleInv

(* What a step that changes the markers alone has to show of them.          *)
LEMMA MarkerStep ==
  ASSUME LifecycleInv, decisions' = decisions,
         reviews' = Recalculated(reviews, decisions, markers'),
         markers' \in Seq(MarkerShape),
         \A i \in DOMAIN markers' : markers'[i].review \in DOMAIN reviews,
         \A r \in DOMAIN reviews : reviews[r].status = "approved" => ~HasOpenBlocking(markers', r)
  PROVE  LifecycleInv'
<1>1. LifecycleTypeOK /\ DecisionsMatch /\ StatusesSettled /\ ApprovedAreClear
  BY DEF LifecycleInv
<1>2. /\ \A x \in DOMAIN reviews : reviews[x] \in ReviewShape
      /\ DOMAIN reviews \subseteq Reviews
  BY <1>1 DEF LifecycleTypeOK, ReviewShape, ReviewStatuses
<1>3. /\ \A x \in DOMAIN reviews' : reviews'[x] \in ReviewShape
      /\ DOMAIN reviews' = DOMAIN reviews
      /\ DecisionsMatch' /\ StatusesSettled'
      /\ \A x \in DOMAIN reviews :
           /\ reviews'[x].blockers = reviews[x].blockers
           /\ reviews'[x].status = "approved" => reviews[x].status = "approved"
  BY <1>1, <1>2, RecalculationPreserves
<1>4. LifecycleTypeOK'
  BY <1>1, <1>2, <1>3 DEF LifecycleTypeOK, ReviewShape, MarkerShape, ReviewStatuses
<1>5. ApprovedAreClear'
  BY <1>1, <1>3 DEF ApprovedAreClear, Clear
<1>6. MarkersHaveReviews'
  BY <1>3 DEF MarkersHaveReviews
<1> QED
  BY <1>3, <1>4, <1>5, <1>6 DEF LifecycleInv

(* A decided review takes no marker: the review of an approval stays clear. *)
LEMMA AddMarkerStep ==
  ASSUME LifecycleInv, NEW r \in Reviews, NEW id \in MarkerNames, NEW padded \in BOOLEAN,
         NEW severity \in {"warning", "blocking"}, AddMarker(r, id, padded, severity)
  PROVE  LifecycleInv'
<1>1. PICK m : m = [id |-> id, review |-> r, severity |-> severity, status |-> "open"]
  OBVIOUS
<1>2. /\ r \in DOMAIN reviews /\ reviews[r].status # "approved"
      /\ markers' = Append(markers, m)
      /\ decisions' = decisions /\ reviews' = Recalculated(reviews, decisions, markers')
  BY <1>1 DEF AddMarker, Decided
<1>3. m \in MarkerShape /\ m.review = r /\ markers \in Seq(MarkerShape)
  BY <1>1 DEF MarkerShape, LifecycleInv, LifecycleTypeOK
<1>4. /\ markers' \in Seq(MarkerShape)
      /\ DOMAIN markers' = DOMAIN markers \cup {Len(markers) + 1}
      /\ markers'[Len(markers) + 1] = m
      /\ \A i \in DOMAIN markers : markers'[i] = markers[i]
  BY <1>2, <1>3
<1>5. \A i \in DOMAIN markers' : markers'[i].review \in DOMAIN reviews
  BY <1>2, <1>3, <1>4 DEF LifecycleInv, MarkersHaveReviews
<1>6. \A x \in DOMAIN reviews : reviews[x].status = "approved" => ~HasOpenBlocking(markers', x)
  BY <1>2, <1>3, <1>4 DEF LifecycleInv, ApprovedAreClear, Clear, HasOpenBlocking
<1> QED
  BY <1>2, <1>4, <1>5, <1>6, MarkerStep

(* A marker that is resolved lets the status of its review be recalculated. *)
LEMMA ResolveMarkerStep ==
  ASSUME LifecycleInv, NEW id \in MarkerNames, ResolveMarker(id)
  PROVE  LifecycleInv'
<1>1. /\ markers' = [i \in DOMAIN markers |->
                   IF markers[i].id = id THEN [markers[i] EXCEPT !.status = "resolved"] ELSE markers[i]]
      /\ decisions' = decisions /\ reviews' = Recalculated(reviews, decisions, markers')
  BY DEF ResolveMarker
<1>2. markers \in Seq(MarkerShape)
  BY DEF MarkerShape, LifecycleInv, LifecycleTypeOK
<1>3. ASSUME NEW i \in DOMAIN markers
      PROVE  /\ markers'[i] \in MarkerShape
             /\ markers'[i].review = markers[i].review
             /\ OpenBlocking(markers'[i]) => OpenBlocking(markers[i])
  <2>1. PICK m \in MarkerShape : m = markers[i]
    BY <1>2
  <2>2. markers'[i] = IF m.id = id THEN [m EXCEPT !.status = "resolved"] ELSE m
    BY <1>1, <2>1
  <2>3. CASE m.id = id
    <3>1. markers'[i] = [m EXCEPT !.status = "resolved"]
      BY <2>2, <2>3
    <3>2. [m EXCEPT !.status = "resolved"] \in MarkerShape
      BY <2>1 DEF MarkerShape
    <3> QED
      BY <2>1, <3>1, <3>2 DEF MarkerShape, OpenBlocking
  <2>4. CASE m.id # id
    BY <2>1, <2>2, <2>4
  <2> QED
    BY <2>3, <2>4
<1>4. DOMAIN markers' = DOMAIN markers
  BY <1>1
<1>5. markers' \in Seq(MarkerShape)
  <2>1. DOMAIN markers = 1 .. Len(markers) /\ Len(markers) \in Nat
    BY <1>2
  <2>2. markers' \in [1 .. Len(markers) -> MarkerShape]
    BY <1>1, <1>3, <2>1
  <2> QED
    BY <2>1, <2>2
<1>6. \A i \in DOMAIN markers' : markers'[i].review \in DOMAIN reviews
  BY <1>3, <1>4 DEF LifecycleInv, MarkersHaveReviews
<1>7. \A x \in DOMAIN reviews : reviews[x].status = "approved" => ~HasOpenBlocking(markers', x)
  BY <1>3, <1>4 DEF LifecycleInv, ApprovedAreClear, Clear, HasOpenBlocking
<1> QED
  BY <1>1, <1>5, <1>6, <1>7, MarkerStep

(* decideLifecycleReview does not recalculate: what it writes is what a     *)
(* recalculation would find.                                                *)
LEMMA DecideStep ==
  ASSUME LifecycleInv, NEW r \in Reviews, NEW id \in DecisionNames, NEW decision \in Decided,
         Decide(r, id, decision)
  PROVE  LifecycleInv'
<1>1. PICK d : d = [id |-> id, review |-> r, decision |-> decision]
  OBVIOUS
<1>2. /\ r \in DOMAIN reviews /\ reviews[r].decision = {}
      /\ decision = "approved" => Clear(r)
      /\ \A e \in decisions : e.id # id
      /\ decisions' = decisions \cup {d}
      /\ reviews' = [reviews EXCEPT ![r].status = decision, ![r].decision = {id}]
      /\ markers' = markers
  BY <1>1 DEF Decide, MayDecide, Clear
<1>3. d.id = id /\ d.review = r /\ d.decision = decision
  BY <1>1
<1>4. /\ \A x \in DOMAIN reviews : reviews[x] \in ReviewShape
      /\ DOMAIN reviews \subseteq Reviews
      /\ decisions \subseteq [id : DecisionNames, review : Reviews, decision : Decided]
  BY DEF LifecycleInv, LifecycleTypeOK, ReviewShape, ReviewStatuses
<1>5. /\ DOMAIN reviews' = DOMAIN reviews
      /\ \A x \in DOMAIN reviews \ {r} : reviews'[x] = reviews[x]
      /\ reviews'[r] = [reviews[r] EXCEPT !.status = decision, !.decision = {id}]
  BY <1>2
<1>6. /\ reviews'[r] \in ReviewShape /\ reviews'[r].blockers = reviews[r].blockers
      /\ reviews'[r].decision = {id} /\ reviews'[r].status = decision
  BY <1>2, <1>4, <1>5, ZenonT(40) DEF ReviewShape, ReviewStatuses
<1>7. LifecycleTypeOK'
  <2>1. d \in [id : DecisionNames, review : Reviews, decision : Decided]
    BY <1>1
  <2> QED
    BY <2>1, <1>2, <1>4, <1>5, <1>6 DEF LifecycleInv, LifecycleTypeOK, ReviewShape, ReviewStatuses
<1>8. DecisionsMatch'
  <2>1. \A e \in decisions : e.review # r
    BY <1>2 DEF LifecycleInv, DecisionsMatch
  <2>2. \A e \in decisions : e.review \in DOMAIN reviews /\ reviews'[e.review].decision = {e.id}
    BY <1>5, <2>1 DEF LifecycleInv, DecisionsMatch
  <2>3. \A e, f \in decisions' : e.id = f.id => e = f
    BY <1>2, <1>3 DEF LifecycleInv, DecisionsMatch
  <2>4. \A e \in decisions' : e.review \in DOMAIN reviews' /\ reviews'[e.review].decision = {e.id}
    BY <1>2, <1>3, <1>5, <1>6, <2>2
  <2>5. ASSUME NEW x \in DOMAIN reviews'
        PROVE  \/ reviews'[x].decision = {}
               \/ \E e \in decisions' : e.review = x /\ reviews'[x].decision = {e.id}
                                         /\ reviews'[x].status = e.decision
    <3>1. CASE x = r
      BY <3>1, <1>2, <1>3, <1>6
    <3>2. CASE x # r
      BY <3>2, <1>2, <1>5 DEF LifecycleInv, DecisionsMatch
    <3> QED
      BY <3>1, <3>2
  <2> QED
    BY <2>3, <2>4, <2>5 DEF DecisionsMatch
<1>9. ApprovedAreClear'
  BY <1>2, <1>5, <1>6 DEF LifecycleInv, ApprovedAreClear, Clear
<1>10. StatusesSettled'
  <2>1. ASSUME NEW x \in DOMAIN reviews'
        PROVE  reviews'[x].status = ResolvedStatus(reviews'[x], x, decisions', markers')
    <3>1. CASE reviews'[x].decision = {}
      <4>1. x # r /\ x \in DOMAIN reviews /\ reviews'[x] = reviews[x]
        BY <3>1, <1>5, <1>6
      <4>2. reviews[x].status = ResolvedStatus(reviews[x], x, decisions, markers)
        BY <4>1 DEF LifecycleInv, StatusesSettled
      <4>3. \A es : ResolvedStatus(reviews[x], x, es, markers)
                    = ResolvedStatus(reviews[x], x, decisions, markers)
        BY <3>1, <4>1, OpenStatus
      <4> QED
        BY <1>2, <4>1, <4>2, <4>3
    <3>2. ASSUME NEW e \in decisions', reviews'[x].decision = {e.id}, reviews'[x].status = e.decision
          PROVE  reviews'[x].status = ResolvedStatus(reviews'[x], x, decisions', markers')
      <4>1. \A f \in decisions' : f.id = e.id => f = e
        BY <1>8 DEF DecisionsMatch
      <4> QED
        BY <3>2, <4>1, DecidedStatus
    <3> QED
      BY <1>8, <3>1, <3>2 DEF DecisionsMatch
  <2> QED
    BY <2>1 DEF StatusesSettled
<1>11. MarkersHaveReviews'
  BY <1>2, <1>5 DEF LifecycleInv, MarkersHaveReviews
<1> QED
  BY <1>7, <1>8, <1>9, <1>10, <1>11 DEF LifecycleInv

(* A step that changes nothing keeps it.                                    *)
LEMMA LifecycleStutter ==
  ASSUME LifecycleInv, UNCHANGED lifecycleVars
  PROVE  LifecycleInv'
BY DEF lifecycleVars, LifecycleInv, LifecycleTypeOK, DecisionsMatch, ApprovedAreClear, Clear,
       StatusesSettled, MarkersHaveReviews

-----------------------------------------------------------------------------
(* The invariant of the reviews holds in every state: each decision belongs *)
(* to one review and the review to it, and every status is settled.         *)
THEOREM LifecycleInvariant == LifecycleSpec => []LifecycleInv
<1>1. ASSUME LifecycleInv, [LifecycleNext]_lifecycleVars PROVE LifecycleInv'
  <2>1. CASE LifecycleNext
    BY <1>1, <2>1, AddReviewStep, DecideStep, AddMarkerStep, ResolveMarkerStep DEF LifecycleNext
  <2>2. CASE UNCHANGED lifecycleVars
    BY <1>1, <2>2, LifecycleStutter
  <2> QED
    BY <1>1, <2>1, <2>2
<1> QED
  BY <1>1, LifecycleInitially, PTL DEF LifecycleSpec

(* No order of reviews, markers and decisions leaves an approved review     *)
(* with a blocker or an open blocking redaction, and a status always says   *)
(* what the one decision of its review said.                                *)
THEOREM ApprovedAlwaysClear == LifecycleSpec => []ApprovedIsClear
<1>1. LifecycleInv => ApprovedIsClear
  BY DEF LifecycleInv, ApprovedIsClear, ApprovedAreClear, Clear, StatusesSettled, DecisionsMatch
<1> QED
  BY <1>1, LifecycleInvariant, PTL

-----------------------------------------------------------------------------
(* TASKS (WebTasks), whatever calls interleave and fail.                    *)

(* A record whose stamps are those of its status.                           *)
Task ==
  {t \in [text : Texts, status : Statuses, completed : BOOLEAN, archived : BOOLEAN] :
     t.completed = (t.status = "done") /\ t.archived = (t.status = "archived")}

(* An event as it is announced, numbered by the write it is about.          *)
TaskEvent ==
  [type : {"task.created", "task.updated", "task.status_changed"}, at : Nat, status : Statuses]

(* A call that has read and is about to write, with what it wants to write. *)
PutCall ==
  [step : {"put"}, type : {"task.updated"}, want : Texts, read : SUBSET Task]
    \cup [step : {"put"}, type : {"task.status_changed"}, want : Statuses, read : SUBSET Task]

(* A call that has written and is about to announce.                        *)
EmitCall ==
  [step : {"emit"}, type : {"task.created", "task.updated", "task.status_changed"},
   at : Nat, status : Statuses]

(* What the variables hold; there is one record at most, and a call of a    *)
(* process at most.                                                         *)
TasksTypeOK ==
  /\ task \in SUBSET Task /\ puts \in Nat /\ taskEvents \in SUBSET TaskEvent
  /\ taskCall \in [TaskCalls -> SUBSET (PutCall \cup EmitCall)]
  /\ reverted \in BOOLEAN
  /\ \A x, y \in task : x = y
  /\ \A p \in TaskCalls : \A c, d \in taskCall[p] : c = d

(* The events there are and those under way.                                *)
Announced(e) ==
  \/ e \in taskEvents
  \/ \E p \in TaskCalls : \E c \in taskCall[p] :
       c.step = "emit" /\ e = [type |-> c.type, at |-> c.at, status |-> c.status]

(* The last announcement about the status says this one.                    *)
Latest(e, status) ==
  /\ Announced(e) /\ SaysStatus(e) /\ e.status = status
  /\ \A other \in TaskEvent : Announced(other) /\ SaysStatus(other) => other.at <= e.at

(* Every event announced is of the past, a call that read has read          *)
(* something, and the latest announcement about the status is true unless a *)
(* change was reverted.                                                     *)
TasksInv ==
  /\ TasksTypeOK
  /\ \A e \in TaskEvent : Announced(e) => e.at <= puts
  /\ \A p \in TaskCalls : \A c \in taskCall[p] : c.step = "put" => task # {}
  /\ reverted \/ \A t \in task : \E e \in TaskEvent : Latest(e, t.status)

(* What a write does to what is announced: it adds its own event, later     *)
(* than all others.                                                         *)
LEMMA PutAnnounces ==
  ASSUME TasksInv, NEW p \in TaskCalls, NEW t \in Task,
         NEW type \in {"task.created", "task.updated", "task.status_changed"},
         \A c \in taskCall[p] : c.step = "put",
         Put(p, t, type)
  PROVE  /\ task' = {t} /\ puts' = puts + 1 /\ puts' \in Nat
         /\ taskEvents' = taskEvents
         /\ taskCall' \in [TaskCalls -> SUBSET (PutCall \cup EmitCall)]
         /\ \A q \in TaskCalls : \A c, d \in taskCall'[q] : c = d
         /\ \A e \in TaskEvent :
              Announced(e)' <=> Announced(e) \/ e = [type |-> type, at |-> puts + 1, status |-> t.status]
         /\ \A q \in TaskCalls : \A c \in taskCall'[q] : c.step = "put" => c \in taskCall[q]
<1> DEFINE new == [step |-> "emit", type |-> type, at |-> puts + 1, status |-> t.status]
<1>1. puts + 1 \in Nat /\ new \in EmitCall /\ new.step = "emit"
  BY DEF TasksInv, TasksTypeOK, EmitCall, Task
<1>2. /\ task' = {t} /\ puts' = puts + 1 /\ taskEvents' = taskEvents
      /\ taskCall' = [taskCall EXCEPT ![p] = {new}]
  BY DEF Put
<1>3. \A q \in TaskCalls : taskCall'[q] = IF q = p THEN {new} ELSE taskCall[q]
  BY <1>2 DEF TasksInv, TasksTypeOK
<1>4. taskCall' \in [TaskCalls -> SUBSET (PutCall \cup EmitCall)]
  BY <1>1, <1>2 DEF TasksInv, TasksTypeOK
<1>5. \A q \in TaskCalls : \A c, d \in taskCall'[q] : c = d
  BY <1>3 DEF TasksInv, TasksTypeOK
<1>6. ASSUME NEW e \in TaskEvent
      PROVE  Announced(e)' <=> Announced(e) \/ e = [type |-> type, at |-> puts + 1, status |-> t.status]
  <2>1. ASSUME Announced(e)'
        PROVE  Announced(e) \/ e = [type |-> type, at |-> puts + 1, status |-> t.status]
    <3> HIDE DEF new
    <3>1. new.type = type /\ new.at = puts + 1 /\ new.status = t.status
      BY DEF new
    <3> QED
      BY <1>2, <1>3, <2>1, <3>1 DEF Announced
  <2>2. ASSUME Announced(e) PROVE Announced(e)'
    <3>1. \A c \in taskCall[p] : c.step # "emit"
      OBVIOUS
    <3> QED
      BY <1>2, <1>3, <2>2, <3>1 DEF Announced
  <2>3. ASSUME e = [type |-> type, at |-> puts + 1, status |-> t.status] PROVE Announced(e)'
    BY <1>1, <1>3, <2>3 DEF Announced
  <2> QED
    BY <2>1, <2>2, <2>3
<1>7. \A q \in TaskCalls : \A c \in taskCall'[q] : c.step = "put" => c \in taskCall[q]
  BY <1>1, <1>3
<1> QED BY <1>1, <1>2, <1>4, <1>5, <1>6, <1>7

(* A write that names its status makes the latest announcement.             *)
LEMMA StatusPutKeeps ==
  ASSUME TasksInv, NEW p \in TaskCalls, NEW t \in Task,
         NEW type \in {"task.created", "task.status_changed"},
         \A c \in taskCall[p] : c.step = "put",
         Put(p, t, type), reverted' = FALSE
  PROVE  TasksInv'
<1>0. PICK new : new = [type |-> type, at |-> puts + 1, status |-> t.status]
  OBVIOUS
<1>1. /\ task' = {t} /\ puts' = puts + 1 /\ puts' \in Nat
      /\ taskEvents' = taskEvents
      /\ taskCall' \in [TaskCalls -> SUBSET (PutCall \cup EmitCall)]
      /\ \A q \in TaskCalls : \A c, d \in taskCall'[q] : c = d
      /\ \A e \in TaskEvent : Announced(e)' <=> Announced(e) \/ e = new
      /\ \A q \in TaskCalls : \A c \in taskCall'[q] : c.step = "put" => c \in taskCall[q]
  BY <1>0, PutAnnounces
<1>2. new \in TaskEvent /\ SaysStatus(new) /\ new.at = puts + 1 /\ new.status = t.status
  BY <1>0 DEF TaskEvent, SaysStatus, TasksInv, TasksTypeOK, Task
<1>3. puts \in Nat /\ \A e \in TaskEvent : e.at \in Nat /\ (Announced(e) => e.at <= puts)
  BY DEF TasksInv, TasksTypeOK, TaskEvent
<1>4. \A e \in TaskEvent : Announced(e)' => e.at <= puts'
  BY <1>1, <1>2, <1>3
<1>5. Latest(new, t.status)'
  BY <1>1, <1>2, <1>3 DEF Latest, SaysStatus
<1>6. TasksTypeOK'
  BY <1>1 DEF TasksInv, TasksTypeOK
<1>7. \A x \in task' : \E e \in TaskEvent : Latest(e, x.status)'
  BY <1>1, <1>2, <1>5
<1> QED BY <1>1, <1>4, <1>6, <1>7 DEF TasksInv

(* A write of an update leaves the latest announcement about the status.    *)
LEMMA UpdatePutKeeps ==
  ASSUME TasksInv, NEW p \in TaskCalls, NEW t \in Task, NEW old,
         \A c \in taskCall[p] : c.step = "put", task # {},
         t.status = old.status,
         Put(p, t, "task.updated"),
         reverted' = (reverted \/ \E now \in task : now.status # old.status)
  PROVE  TasksInv'
<1> DEFINE new == [type |-> "task.updated", at |-> puts + 1, status |-> t.status]
<1>1. /\ task' = {t} /\ puts' = puts + 1 /\ puts' \in Nat
      /\ taskEvents' = taskEvents
      /\ taskCall' \in [TaskCalls -> SUBSET (PutCall \cup EmitCall)]
      /\ \A q \in TaskCalls : \A c, d \in taskCall'[q] : c = d
      /\ \A e \in TaskEvent : Announced(e)' <=> Announced(e) \/ e = new
      /\ \A q \in TaskCalls : \A c \in taskCall'[q] : c.step = "put" => c \in taskCall[q]
  BY PutAnnounces
<1>2. new \in TaskEvent /\ ~SaysStatus(new) /\ new.at = puts + 1
  BY DEF TaskEvent, SaysStatus, TasksInv, TasksTypeOK, Task
<1> HIDE DEF new
<1>3. puts \in Nat /\ \A e \in TaskEvent : e.at \in Nat /\ (Announced(e) => e.at <= puts)
  BY DEF TasksInv, TasksTypeOK, TaskEvent
<1>4. \A e \in TaskEvent : Announced(e)' => e.at <= puts'
  BY <1>1, <1>2, <1>3
<1>5. reverted' \in BOOLEAN
  OBVIOUS
<1>6. TasksTypeOK'
  BY <1>1, <1>5 DEF TasksInv, TasksTypeOK
<1>7. reverted' \/ \A x \in task' : \E e \in TaskEvent : Latest(e, x.status)'
  <2> SUFFICES ASSUME ~reverted' PROVE \E e \in TaskEvent : Latest(e, t.status)'
    BY <1>1
  <2>1. ~reverted /\ \A now \in task : now.status = t.status
    OBVIOUS
  <2>2. PICK e \in TaskEvent : Latest(e, t.status)
    BY <2>1 DEF TasksInv
  <2>3. Latest(e, t.status)'
    BY <1>1, <1>2, <2>2 DEF Latest, SaysStatus
  <2> QED
    BY <2>3
<1> QED BY <1>1, <1>4, <1>6, <1>7 DEF TasksInv

(* Every step of a call keeps the invariant.                                *)
LEMMA TasksNextKeepsInv ==
  ASSUME TasksInv, TasksNext
  PROVE  TasksInv'
<1>1. ASSUME NEW p \in TaskCalls, NEW text \in Texts, NEW status \in Statuses,
             CreateTask(p, text, status)
      PROVE  TasksInv'
  <2> DEFINE t == WithStatus([text |-> text, status |-> status, completed |-> FALSE,
                              archived |-> FALSE], status)
  <2>1. t \in Task
    BY DEF WithStatus, Task
  <2> HIDE DEF t
  <2>2. taskCall[p] = {} /\ Put(p, t, "task.created") /\ reverted' = FALSE
    BY <1>1 DEF CreateTask, t
  <2> QED
    BY <2>1, <2>2, StatusPutKeeps
<1>2. ASSUME NEW p \in TaskCalls, NEW type, NEW want, Read(p, type, want),
             \/ type = "task.updated" /\ want \in Texts
             \/ type = "task.status_changed" /\ want \in Statuses
      PROVE  TasksInv'
  <2> DEFINE new == [step |-> "put", type |-> type, want |-> want, read |-> task]
  <2>1. new \in PutCall /\ new.step = "put"
    BY <1>2 DEF PutCall, TasksInv, TasksTypeOK
  <2> HIDE DEF new
  <2>2. /\ taskCall[p] = {} /\ task # {}
        /\ taskCall' = [taskCall EXCEPT ![p] = {new}]
        /\ UNCHANGED <<task, puts, taskEvents, reverted>>
    BY <1>2 DEF Read, new
  <2>3. \A q \in TaskCalls : taskCall'[q] = IF q = p THEN {new} ELSE taskCall[q]
    BY <2>2 DEF TasksInv, TasksTypeOK
  <2>4. TasksTypeOK'
    BY <2>1, <2>2, <2>3 DEF TasksInv, TasksTypeOK
  <2>5. \A e : Announced(e)' <=> Announced(e)
    BY <2>1, <2>2, <2>3 DEF Announced
  <2>6. \A e \in TaskEvent : \A s : Latest(e, s)' <=> Latest(e, s)
    BY <2>5 DEF Latest, SaysStatus
  <2> QED
    BY <2>2, <2>4, <2>5, <2>6 DEF TasksInv
<1>3. ASSUME NEW p \in TaskCalls, UpdateTask(p)
      PROVE  TasksInv'
  <2>1. PICK c \in taskCall[p] : \E t \in (IF c.step = "put" THEN c.read ELSE {}) :
          /\ c.type = "task.updated"
          /\ Put(p, [t EXCEPT !.text = c.want], c.type)
          /\ reverted' = (reverted \/ \E now \in task : now.status # t.status)
    BY <1>3 DEF UpdateTask
  <2>2. c.step = "put" /\ c \in PutCall /\ task # {} /\ \A d \in taskCall[p] : d.step = "put"
    BY <2>1 DEF TasksInv, TasksTypeOK, PutCall, EmitCall
  <2>3. PICK t \in c.read :
          /\ c.type = "task.updated"
          /\ Put(p, [t EXCEPT !.text = c.want], "task.updated")
          /\ reverted' = (reverted \/ \E now \in task : now.status # t.status)
    BY <2>1, <2>2
  <2>4. c.want \in Texts /\ t \in Task
    BY <2>2, <2>3 DEF PutCall
  <2>5. [t EXCEPT !.text = c.want] \in Task /\ [t EXCEPT !.text = c.want].status = t.status
    BY <2>4 DEF Task
  <2> QED
    BY <2>2, <2>3, <2>5, UpdatePutKeeps
<1>4. ASSUME NEW p \in TaskCalls, SetTaskStatus(p)
      PROVE  TasksInv'
  <2>1. PICK c \in taskCall[p] : \E t \in (IF c.step = "put" THEN c.read ELSE {}) :
          /\ c.type = "task.status_changed"
          /\ \/ /\ t.status = c.want
                /\ taskCall' = [taskCall EXCEPT ![p] = {}]
                /\ UNCHANGED <<task, puts, taskEvents, reverted>>
             \/ /\ t.status # c.want
                /\ Put(p, WithStatus(t, c.want), c.type)
                /\ reverted' = FALSE
    BY <1>4 DEF SetTaskStatus
  <2>2. c.step = "put" /\ c \in PutCall /\ \A d \in taskCall[p] : d.step = "put"
    BY <2>1 DEF TasksInv, TasksTypeOK, PutCall, EmitCall
  <2>3. PICK t \in c.read :
          /\ c.type = "task.status_changed"
          /\ \/ /\ taskCall' = [taskCall EXCEPT ![p] = {}]
                /\ UNCHANGED <<task, puts, taskEvents, reverted>>
             \/ /\ Put(p, WithStatus(t, c.want), "task.status_changed")
                /\ reverted' = FALSE
    BY <2>1, <2>2
  <2>4. c.want \in Statuses /\ t \in Task
    BY <2>2, <2>3 DEF PutCall
  <2>5. WithStatus(t, c.want) \in Task
    BY <2>4 DEF Task, WithStatus
  <2>6. CASE Put(p, WithStatus(t, c.want), "task.status_changed") /\ reverted' = FALSE
    BY <2>2, <2>5, <2>6, StatusPutKeeps
  <2>7. CASE taskCall' = [taskCall EXCEPT ![p] = {}] /\ UNCHANGED <<task, puts, taskEvents, reverted>>
    <3>1. \A q \in TaskCalls : taskCall'[q] = IF q = p THEN {} ELSE taskCall[q]
      BY <2>7 DEF TasksInv, TasksTypeOK
    <3>2. TasksTypeOK'
      BY <2>7, <3>1 DEF TasksInv, TasksTypeOK
    <3>3. \A e : Announced(e)' <=> Announced(e)
      BY <2>2, <2>7, <3>1 DEF Announced
    <3>4. \A e \in TaskEvent : \A s : Latest(e, s)' <=> Latest(e, s)
      BY <3>3 DEF Latest, SaysStatus
    <3> QED
      BY <2>7, <3>1, <3>2, <3>3, <3>4 DEF TasksInv
  <2> QED
    BY <2>3, <2>6, <2>7
<1>5. ASSUME NEW p \in TaskCalls, EmitTaskEvent(p)
      PROVE  TasksInv'
  <2>1. PICK c \in taskCall[p] :
          /\ c.step = "emit"
          /\ taskEvents' = taskEvents \cup {[type |-> c.type, at |-> c.at, status |-> c.status]}
          /\ taskCall' = [taskCall EXCEPT ![p] = {}]
          /\ UNCHANGED <<task, puts, reverted>>
    BY <1>5 DEF EmitTaskEvent
  <2>2. c \in EmitCall /\ \A d \in taskCall[p] : d = c
    BY <2>1 DEF TasksInv, TasksTypeOK, PutCall, EmitCall
  <2>3. \A q \in TaskCalls : taskCall'[q] = IF q = p THEN {} ELSE taskCall[q]
    BY <2>1 DEF TasksInv, TasksTypeOK
  <2>4. [type |-> c.type, at |-> c.at, status |-> c.status] \in TaskEvent
    BY <2>2 DEF EmitCall, TaskEvent
  <2>5. TasksTypeOK'
    BY <2>1, <2>3, <2>4 DEF TasksInv, TasksTypeOK
  <2>6. \A e : Announced(e)' <=> Announced(e)
    BY <2>1, <2>2, <2>3 DEF Announced
  <2>7. \A e \in TaskEvent : \A s : Latest(e, s)' <=> Latest(e, s)
    BY <2>6 DEF Latest, SaysStatus
  <2> QED
    BY <2>1, <2>3, <2>5, <2>6, <2>7 DEF TasksInv
<1> QED BY <1>1, <1>2, <1>3, <1>4, <1>5 DEF TasksNext

(* The invariant holds always.                                              *)
LEMMA TasksInvariant == TasksSpec => []TasksInv
<1>1. TasksInit => TasksInv
  <2> SUFFICES ASSUME TasksInit PROVE TasksInv
    OBVIOUS
  <2>1. TasksTypeOK
    BY DEF TasksInit, TasksTypeOK
  <2>2. \A e : ~Announced(e)
    BY DEF TasksInit, Announced
  <2> QED
    BY <2>1, <2>2 DEF TasksInit, TasksInv
<1>2. TasksInv /\ [TasksNext]_tasksVars => TasksInv'
  <2>1. CASE TasksNext
    BY <2>1, TasksNextKeepsInv
  <2>2. CASE UNCHANGED tasksVars
    BY <2>2 DEF tasksVars, TasksInv, TasksTypeOK, Announced, Latest, SaysStatus
  <2> QED
    BY <2>1, <2>2
<1> QED BY <1>1, <1>2, PTL DEF TasksSpec

(* Once every call is over what is announced is stored, and so the latest   *)
(* event about the status names the status stored.                          *)
THEOREM EventsAlwaysTellTheTask == TasksSpec => []EventsTellTheTask
<1>1. TasksInv => EventsTellTheTask
  <2> SUFFICES ASSUME TasksInv, NEW t \in task
               PROVE  /\ t.completed = (t.status = "done") /\ t.archived = (t.status = "archived")
                      /\ (\A p \in TaskCalls : taskCall[p] = {}) =>
                           \/ reverted
                           \/ \E e \in taskEvents :
                                /\ SaysStatus(e) /\ e.status = t.status
                                /\ \A other \in taskEvents : SaysStatus(other) => other.at <= e.at
    BY DEF EventsTellTheTask
  <2>1. t \in Task
    BY DEF TasksInv, TasksTypeOK
  <2>2. t.completed = (t.status = "done") /\ t.archived = (t.status = "archived")
    BY <2>1 DEF Task
  <2>3. ASSUME \A p \in TaskCalls : taskCall[p] = {}, ~reverted
        PROVE  \E e \in taskEvents :
                 /\ SaysStatus(e) /\ e.status = t.status
                 /\ \A other \in taskEvents : SaysStatus(other) => other.at <= e.at
    <3>1. PICK e \in TaskEvent : Latest(e, t.status)
      BY <2>3 DEF TasksInv
    <3>2. \A x : Announced(x) <=> x \in taskEvents
      BY <2>3 DEF Announced
    <3> QED
      BY <3>1, <3>2 DEF Latest, TasksInv, TasksTypeOK
  <2> QED
    BY <2>2, <2>3
<1> QED BY <1>1, TasksInvariant, PTL

-----------------------------------------------------------------------------
(* MARKDOWN DRAFTS (MarkdownDrafts), whatever answers arrive late.          *)

(* A draft as the editor and the store hold it.                             *)
Draft == [document : Documents, body : Bodies, revision : Nat]

(* A call under way, with the draft it took along.                          *)
DraftCall == [how : {"dispatch", "replace", "load"}, draft : Draft]

(* What the variables hold; the editor has one draft at most, the store one *)
(* of each document.                                                        *)
DraftsTypeOK ==
  /\ editor \in SUBSET Draft /\ \A x, y \in editor : x = y
  /\ dirty \in BOOLEAN /\ stray \in BOOLEAN
  /\ drafts \in [Documents -> SUBSET Draft]
  /\ \A d \in Documents : \A x, y \in drafts[d] : x.document = d /\ x = y
  /\ draftCall \in [DraftCalls -> SUBSET DraftCall]
  /\ \A p \in DraftCalls : \A c, d \in draftCall[p] : c = d

(* y is x or a later revision of it.                                        *)
From(x, y) == y = x \/ x.revision < y.revision

(* A call that saves took x.                                                *)
Saving(x) == \E p \in DraftCalls : \E c \in draftCall[p] : c.how # "load" /\ c.draft = x

(* As long as no answer went astray, revisions tell what came later: the    *)
(* editor's draft is the stored one or a later one of it, and what is       *)
(* stored and what is in the editor of a document that is being saved is    *)
(* what the save took or later.                                             *)
DraftsInv ==
  /\ DraftsTypeOK
  /\ CleanMeansSaved
  /\ ~stray =>
       /\ \A e \in editor : \A x \in drafts[e.document] : From(x, e)
       /\ \A x \in Draft : Saving(x) =>
            /\ \A y \in drafts[x.document] : From(x, y)
            /\ \A e \in editor : e.document = x.document => From(x, e)

(* Every step of the editor and of the calls keeps the invariant.           *)
LEMMA DraftsNextKeepsInv ==
  ASSUME DraftsInv, DraftsNext
  PROVE  DraftsInv'
<1>0. /\ DraftsTypeOK
      /\ \A d \in Documents : drafts[d] \in SUBSET Draft
      /\ \A x \in Draft : x.revision \in Nat /\ x.document \in Documents
  BY DEF DraftsInv, DraftsTypeOK, Draft
<1>1. ASSUME NEW d \in Documents, NEW body \in Bodies, CreateDraft(d, body)
      PROVE  DraftsInv'
  <2>1. PICK e \in Draft : e = [document |-> d, body |-> body, revision |-> 1]
    BY DEF Draft
  <2>2. /\ drafts[d] = {} /\ editor' = {e} /\ dirty' = TRUE
        /\ stray' = (stray /\ \E p \in DraftCalls : ~Free(p))
        /\ UNCHANGED <<drafts, draftCall>>
    BY <1>1, <2>1 DEF CreateDraft, Forget
  <2>3. DraftsTypeOK' /\ CleanMeansSaved'
    BY <1>0, <2>1, <2>2 DEF DraftsTypeOK, CleanMeansSaved
  <2>4. ASSUME ~stray' PROVE \A x \in Draft : ~Saving(x) \/ ~stray
    BY <2>2, <2>4 DEF Saving, Free
  <2>5. \A x \in Draft : Saving(x)' <=> Saving(x)
    BY <2>2 DEF Saving
  <2>6. \A x \in Draft : Saving(x) => x.document # d
    BY <1>1, <1>0 DEF CreateDraft, Saving, DraftsTypeOK
  <2>7. e.document = d
    BY <2>1
  <2> QED
    BY <1>0, <2>2, <2>3, <2>4, <2>5, <2>6, <2>7 DEF DraftsInv
<1>2. ASSUME NEW body \in Bodies, Edit(body)
      PROVE  DraftsInv'
  <2>1. PICK e \in editor :
          /\ e.body # body /\ e.revision < MaxRevision
          /\ editor' = {[e EXCEPT !.body = body, !.revision = @ + 1]}
    BY <1>2 DEF Edit
  <2>a. e \in Draft
    BY <1>0, <2>1 DEF DraftsTypeOK
  <2>b. [e EXCEPT !.body = body, !.revision = @ + 1] \in Draft
    <3>1. e.revision + 1 \in Nat
      BY <2>a DEF Draft
    <3> QED
      BY <2>a, <3>1 DEF Draft
  <2>2. PICK f \in Draft : f = [e EXCEPT !.body = body, !.revision = @ + 1]
    BY <2>b
  <2>3. editor' = {f} /\ f.document = e.document /\ f.revision = e.revision + 1 /\ e \in Draft
    BY <1>0, <2>1, <2>2 DEF DraftsTypeOK, Draft
  <2>4. dirty' = TRUE /\ UNCHANGED <<drafts, draftCall, stray>>
    BY <1>2 DEF Edit
  <2>5. DraftsTypeOK' /\ CleanMeansSaved'
    BY <1>0, <2>3, <2>4 DEF DraftsTypeOK, CleanMeansSaved
  <2>6. \A x \in Draft : Saving(x)' <=> Saving(x)
    BY <2>4 DEF Saving
  <2>7. \A x \in Draft : From(x, e) => From(x, f)
    BY <1>0, <2>3 DEF From
  <2> QED
    BY <1>0, <2>1, <2>3, <2>4, <2>5, <2>6, <2>7 DEF DraftsInv, From
<1>3. ASSUME Reset
      PROVE  DraftsInv'
  <2>1. /\ editor' = {} /\ dirty' = FALSE /\ UNCHANGED <<drafts, draftCall>>
        /\ stray' = (stray /\ \E p \in DraftCalls : ~Free(p))
    BY <1>3 DEF Reset, Forget
  <2>2. DraftsTypeOK' /\ CleanMeansSaved'
    BY <1>0, <2>1 DEF DraftsTypeOK, CleanMeansSaved
  <2>3. ASSUME ~stray' PROVE \A x \in Draft : ~Saving(x) \/ ~stray
    BY <2>1, <2>3 DEF Saving, Free
  <2>4. \A x \in Draft : Saving(x)' <=> Saving(x)
    BY <2>1 DEF Saving
  <2> QED
    BY <1>0, <2>1, <2>2, <2>3, <2>4 DEF DraftsInv
<1>4. ASSUME NEW d \in Documents, DeleteDraft(d)
      PROVE  DraftsInv'
  <2>1. /\ \A b \in Documents : drafts'[b] = IF b = d THEN {} ELSE drafts[b]
        /\ drafts' \in [Documents -> SUBSET Draft]
        /\ UNCHANGED <<editor, dirty, draftCall, stray>>
    BY <1>0, <1>4 DEF DeleteDraft, DraftsTypeOK
  <2>2. DraftsTypeOK'
    BY <1>0, <2>1 DEF DraftsTypeOK
  <2>3. CleanMeansSaved'
    BY <1>0, <2>1 DEF CleanMeansSaved, DraftsInv, DraftsTypeOK
  <2>4. \A x \in Draft : Saving(x)' <=> Saving(x)
    BY <2>1 DEF Saving
  <2> QED
    BY <1>0, <2>1, <2>2, <2>3, <2>4 DEF DraftsInv, DraftsTypeOK
<1>5. ASSUME NEW p \in DraftCalls, NEW how \in {"dispatch", "replace"}, Save(p, how)
      PROVE  DraftsInv'
  <2>1. PICK e \in editor : /\ drafts' = [drafts EXCEPT ![e.document] = {e}]
                            /\ draftCall' = [draftCall EXCEPT ![p] = {[how |-> how, draft |-> e]}]
    BY <1>5 DEF Save
  <2>2. e \in Draft /\ e.document \in Documents
    BY <1>0, <2>1 DEF DraftsTypeOK
  <2>3. PICK new \in DraftCall : new = [how |-> how, draft |-> e]
    BY <2>2 DEF DraftCall
  <2>a. draftCall' = [draftCall EXCEPT ![p] = {new}] /\ UNCHANGED <<editor, dirty, stray>>
    BY <1>5, <2>1, <2>3 DEF Save
  <2>b. /\ \A q \in DraftCalls : draftCall'[q] = IF q = p THEN {new} ELSE draftCall[q]
        /\ draftCall' \in [DraftCalls -> SUBSET DraftCall]
    BY <1>0, <2>3, <2>a DEF DraftsTypeOK
  <2>4. /\ \A b \in Documents : drafts'[b] = IF b = e.document THEN {e} ELSE drafts[b]
        /\ drafts' \in [Documents -> SUBSET Draft]
    BY <1>0, <2>1, <2>2 DEF DraftsTypeOK
  <2>5. DraftsTypeOK'
    BY <1>0, <2>2, <2>4, <2>a, <2>b DEF DraftsTypeOK
  <2>6. CleanMeansSaved'
    BY <1>0, <2>1, <2>2, <2>4, <2>a DEF CleanMeansSaved, DraftsInv, DraftsTypeOK
  <2>7. \A x \in Draft : Saving(x)' => Saving(x) \/ x = e
    BY <2>3, <2>b DEF Saving
  <2> QED
    BY <1>0, <2>1, <2>2, <2>4, <2>5, <2>6, <2>7, <2>a DEF DraftsInv, DraftsTypeOK, From
<1>6. ASSUME NEW p \in DraftCalls, NEW c \in draftCall[p],
             draftCall' = [draftCall EXCEPT ![p] = {}]
      PROVE  /\ c \in DraftCall /\ c.draft \in Draft
             /\ draftCall' \in [DraftCalls -> SUBSET DraftCall]
             /\ \A q \in DraftCalls : \A x, y \in draftCall'[q] : x = y
             /\ \A x \in Draft : Saving(x)' => Saving(x)
  BY <1>0, <1>6 DEF DraftsTypeOK, DraftCall, Saving
<1>7. ASSUME NEW p \in DraftCalls, DispatchSaved(p)
      PROVE  DraftsInv'
  <2>1. PICK c \in draftCall[p] :
          /\ c.how = "dispatch"
          /\ dirty' = (dirty /\ editor = {})
          /\ stray' = (stray \/ (editor # {} /\ editor # {c.draft}))
          /\ draftCall' = [draftCall EXCEPT ![p] = {}]
          /\ UNCHANGED <<editor, drafts>>
    BY <1>7 DEF DispatchSaved
  <2>2. /\ c.draft \in Draft /\ draftCall' \in [DraftCalls -> SUBSET DraftCall]
        /\ \A q \in DraftCalls : \A x, y \in draftCall'[q] : x = y
        /\ \A x \in Draft : Saving(x)' => Saving(x)
    BY <1>6, <2>1
  <2>3. DraftsTypeOK'
    BY <1>0, <2>1, <2>2 DEF DraftsTypeOK
  <2>4. Saving(c.draft)
    BY <2>1 DEF Saving
  <2>5. CleanMeansSaved'
    <3> SUFFICES ASSUME NEW e \in editor, ~stray'
                 PROVE  drafts[e.document] \in {{}, {e}}
      BY <2>1 DEF CleanMeansSaved
    <3>1. ~stray /\ e = c.draft
      BY <2>1
    <3>2. \A x \in drafts[e.document] : From(x, e) /\ From(e, x)
      BY <2>2, <2>4, <3>1 DEF DraftsInv
    <3>3. \A x \in drafts[e.document] : x = e
      BY <1>0, <2>2, <3>1, <3>2 DEF From
    <3> QED
      BY <3>3
  <2> QED
    BY <1>0, <2>1, <2>2, <2>3, <2>5 DEF DraftsInv
<1>8. ASSUME NEW p \in DraftCalls, TakeSavedState(p)
      PROVE  DraftsInv'
  <2>1. PICK c \in draftCall[p] :
          /\ c.how = "replace"
          /\ editor' = {c.draft} /\ dirty' = FALSE
          /\ stray' = (stray \/ editor # {c.draft})
          /\ draftCall' = [draftCall EXCEPT ![p] = {}]
          /\ UNCHANGED drafts
    BY <1>8 DEF TakeSavedState
  <2>2. /\ c.draft \in Draft /\ draftCall' \in [DraftCalls -> SUBSET DraftCall]
        /\ \A q \in DraftCalls : \A x, y \in draftCall'[q] : x = y
        /\ \A x \in Draft : Saving(x)' => Saving(x)
    BY <1>6, <2>1
  <2>3. DraftsTypeOK'
    BY <1>0, <2>1, <2>2 DEF DraftsTypeOK
  <2>4. Saving(c.draft)
    BY <2>1 DEF Saving
  <2>5. CleanMeansSaved'
    <3> SUFFICES ASSUME ~stray'
                 PROVE  drafts[c.draft.document] \in {{}, {c.draft}}
      BY <2>1 DEF CleanMeansSaved
    <3>1. ~stray /\ c.draft \in editor
      BY <2>1
    <3>2. \A x \in drafts[c.draft.document] : From(x, c.draft) /\ From(c.draft, x)
      BY <2>2, <2>4, <3>1 DEF DraftsInv
    <3>3. \A x \in drafts[c.draft.document] : x = c.draft
      BY <1>0, <2>2, <3>1, <3>2 DEF From
    <3> QED
      BY <3>3
  <2> QED
    BY <1>0, <2>1, <2>2, <2>3, <2>5 DEF DraftsInv
<1>9. ASSUME NEW p \in DraftCalls, DispatchLoaded(p)
      PROVE  DraftsInv'
  <2>1. PICK c \in draftCall[p] :
          /\ c.how = "load"
          /\ editor' = {c.draft} /\ dirty' = FALSE
          /\ stray' = (stray \/ drafts[c.draft.document] # {c.draft})
          /\ draftCall' = [draftCall EXCEPT ![p] = {}]
          /\ UNCHANGED drafts
    BY <1>9 DEF DispatchLoaded
  <2>2. /\ c.draft \in Draft /\ draftCall' \in [DraftCalls -> SUBSET DraftCall]
        /\ \A q \in DraftCalls : \A x, y \in draftCall'[q] : x = y
        /\ \A x \in Draft : Saving(x)' => Saving(x)
    BY <1>6, <2>1
  <2>3. DraftsTypeOK'
    BY <1>0, <2>1, <2>2 DEF DraftsTypeOK
  <2>4. CleanMeansSaved'
    BY <2>1 DEF CleanMeansSaved
  <2> QED
    BY <1>0, <2>1, <2>2, <2>3, <2>4, ZenonT(40) DEF DraftsInv, From
<1>10. ASSUME NEW p \in DraftCalls, NEW d \in Documents, Load(p, d)
       PROVE  DraftsInv'
  <2>1. /\ draftCall' = [draftCall EXCEPT ![p] = {[how |-> "load", draft |-> x] : x \in drafts[d]}]
        /\ UNCHANGED <<editor, dirty, drafts, stray>>
    BY <1>10 DEF Load
  <2>2. {[how |-> "load", draft |-> x] : x \in drafts[d]} \in SUBSET DraftCall
    BY <1>0 DEF DraftCall
  <2>3. \A q \in DraftCalls : draftCall'[q] =
          IF q = p THEN {[how |-> "load", draft |-> x] : x \in drafts[d]} ELSE draftCall[q]
    BY <1>0, <2>1 DEF DraftsTypeOK
  <2>4. DraftsTypeOK' /\ CleanMeansSaved'
    BY <1>0, <2>1, <2>2, <2>3 DEF DraftsTypeOK, CleanMeansSaved, DraftsInv
  <2>5. \A c \in {[how |-> "load", draft |-> x] : x \in drafts[d]} : c.how = "load"
    OBVIOUS
  <2>6. \A x \in Draft : Saving(x)' => Saving(x)
    BY <2>3, <2>5 DEF Saving
  <2> QED
    BY <1>0, <2>1, <2>4, <2>6 DEF DraftsInv
<1> QED BY <1>1, <1>2, <1>3, <1>4, <1>5, <1>7, <1>8, <1>9, <1>10 DEF DraftsNext

(* The invariant holds always.                                              *)
LEMMA DraftsInvariant == DraftsSpec => []DraftsInv
<1>1. DraftsInit => DraftsInv
  BY DEF DraftsInit, DraftsInv, DraftsTypeOK, CleanMeansSaved, Saving
<1>2. DraftsInv /\ [DraftsNext]_draftsVars => DraftsInv'
  <2>1. CASE DraftsNext
    BY <2>1, DraftsNextKeepsInv
  <2>2. CASE UNCHANGED draftsVars
    BY <2>2 DEF draftsVars, DraftsInv, DraftsTypeOK, CleanMeansSaved, Saving
  <2> QED
    BY <2>1, <2>2
<1> QED BY <1>1, <1>2, PTL DEF DraftsSpec

(* An editor that shows no unsaved changes shows what is stored, unless an  *)
(* answer went astray (saveMarkdownEditorDraft and the reducer), for any    *)
(* documents, bodies and calls under way.                                   *)
THEOREM CleanAlwaysMeansSaved == DraftsSpec => []CleanMeansSaved
<1>1. DraftsInv => CleanMeansSaved
  BY DEF DraftsInv
<1> QED BY <1>1, DraftsInvariant, PTL

-----------------------------------------------------------------------------
(* RUNS OF A PLUGIN (PluginSandbox), for any limits.                        *)

(* The types of event a run can leave in its audit.                         *)
EventTypes ==
  {"sandbox.run_started", "sandbox.run_failed", "sandbox.run_completed",
   "capability.checked", "capability.allowed", "capability.denied", "host_api.denied",
   "plugin.audit", "resource.tick", "resource.exhausted"}

(* An event of the audit.                                                   *)
AuditEvent == [type : EventTypes, tick : Nat]

(* The ticks of the audit never fall, and none is of the future.            *)
TicksRise(log, now) ==
  /\ \A i \in 1 .. Len(log) : log[i].tick <= now
  /\ \A i, j \in 1 .. Len(log) : i <= j => log[i].tick <= log[j].tick

(* Nothing but what was called is in the audit, and all of it.              *)
Faithful(log) ==
  /\ Len(log) = Len(calls) + 1
  /\ log[1].type = "sandbox.run_started"
  /\ \A i \in 1 .. Len(calls) : log[i + 1].type = calls[i]

(* Of a run that has used its ticks up the audit says so.                   *)
ExhaustionShows(log, count) ==
  count > MaxTicks => \E i \in 1 .. Len(log) : log[i].type = "resource.exhausted"

(* While the audit has room it tells every call: only a full one loses      *)
(* events, and it stays full.                                               *)
SandboxInv ==
  /\ audit \in Seq(AuditEvent) /\ ticks \in Nat /\ calls \in Seq(EventTypes)
  /\ Len(audit) <= MaxAuditEvents
  /\ TicksRise(audit, ticks)
  /\ result = {} /\ HasRoom => Faithful(audit) /\ ExhaustionShows(audit, ticks)
  /\ \A r \in result : r.audit \in Seq(AuditEvent)
  /\ GoodRunsTellAll

(* An audit is a finite sequence of events whose ticks are numbers.         *)
LEMMA AuditFacts ==
  ASSUME NEW log \in Seq(AuditEvent)
  PROVE  /\ Len(log) \in Nat /\ DOMAIN log = 1 .. Len(log)
         /\ \A i \in 1 .. Len(log) : log[i].tick \in Nat
<1>1. Len(log) \in Nat /\ DOMAIN log = 1 .. Len(log) /\ log \in [1 .. Len(log) -> AuditEvent]
  BY LenProperties
<1> QED BY <1>1 DEF AuditEvent

(* One event at the end of an audit.                                        *)
LEMMA RecordGrows ==
  ASSUME SandboxInv, NEW type \in EventTypes, NEW at \in Nat, ticks <= at, Record(type, at)
  PROVE  /\ audit' \in Seq(AuditEvent)
         /\ Len(audit') = Len(audit) + 1 /\ Len(audit') <= MaxAuditEvents
         /\ \A i \in 1 .. Len(audit) : audit'[i] = audit[i]
         /\ audit'[Len(audit) + 1] = [type |-> type, tick |-> at]
         /\ TicksRise(audit', at)
<1>0. [type |-> type, tick |-> at] \in AuditEvent
  BY DEF AuditEvent
<1>1. /\ audit' \in Seq(AuditEvent) /\ Len(audit') = Len(audit) + 1
      /\ \A i \in 1 .. Len(audit) : audit'[i] = audit[i]
      /\ audit'[Len(audit) + 1] = [type |-> type, tick |-> at]
  BY <1>0, AppendProperties DEF Record, SandboxInv
<1>2. Len(audit) \in Nat /\ Len(audit') <= MaxAuditEvents
  BY <1>1, SandboxAssumption, LenProperties DEF Record, HasRoom, SandboxInv
<1>3. /\ \A i \in 1 .. Len(audit) : audit[i].tick \in Nat /\ audit[i].tick <= ticks
      /\ \A i, j \in 1 .. Len(audit) : i <= j => audit[i].tick <= audit[j].tick
      /\ ticks \in Nat
  BY AuditFacts DEF SandboxInv, TicksRise
<1>4. \A i \in 1 .. Len(audit) : audit'[i].tick <= at /\ audit'[i].tick = audit[i].tick
  BY <1>1, <1>3
<1>5. audit'[Len(audit) + 1].tick = at
  BY <1>1
<1>6. \A i \in 1 .. Len(audit') : i \in 1 .. Len(audit) \/ i = Len(audit) + 1
  BY <1>1, <1>2
<1>7. \A i, j \in 1 .. Len(audit') : i <= j => audit'[i].tick <= audit'[j].tick
  BY <1>2, <1>3, <1>4, <1>5, <1>6
<1>8. TicksRise(audit', at)
  BY <1>4, <1>5, <1>6, <1>7 DEF TicksRise
<1> QED BY <1>1, <1>2, <1>8

(* A call of the host API keeps the invariant, whatever it records and      *)
(* whether it throws.                                                       *)
LEMMA CallKeepsInv ==
  ASSUME SandboxInv, NEW type \in EventTypes, NEW at \in Nat, NEW throws \in BOOLEAN,
         Call(type, at, throws),
         \/ at = ticks
         \/ at > ticks /\ (at > MaxTicks => type = "resource.exhausted")
  PROVE  SandboxInv'
<1>1. /\ ticks' = at /\ ticks <= at /\ result' = result /\ ticks \in Nat
      /\ calls' = IF result = {} THEN Append(calls, type) ELSE calls
      /\ Record(type, at) \/ (~HasRoom /\ audit' = audit)
  BY DEF Call, SandboxInv
<1>2. GoodRunsTellAll' /\ \A r \in result' : r.audit \in Seq(AuditEvent)
  BY <1>1 DEF SandboxInv, GoodRunsTellAll
<1>3. calls' \in Seq(EventTypes)
  BY <1>1, AppendProperties DEF SandboxInv
<1>4. CASE ~HasRoom /\ audit' = audit
  <2>1. \A i \in 1 .. Len(audit) : audit[i].tick \in Nat
    BY AuditFacts DEF SandboxInv
  <2>2. TicksRise(audit', at)
    BY <1>1, <1>4, <2>1 DEF TicksRise, SandboxInv
  <2> QED
    BY <1>1, <1>2, <1>3, <1>4, <2>2 DEF SandboxInv, HasRoom
<1>5. CASE Record(type, at)
  <2>1. /\ audit' \in Seq(AuditEvent)
        /\ Len(audit') = Len(audit) + 1 /\ Len(audit') <= MaxAuditEvents
        /\ \A i \in 1 .. Len(audit) : audit'[i] = audit[i]
        /\ audit'[Len(audit) + 1] = [type |-> type, tick |-> at]
        /\ TicksRise(audit', at)
    BY <1>1, <1>5, RecordGrows
  <2>2. ASSUME result = {} PROVE Faithful(audit)' /\ ExhaustionShows(audit, ticks)'
    <3>1. Faithful(audit) /\ ExhaustionShows(audit, ticks)
      BY <1>5, <2>2 DEF SandboxInv, Record
    <3>2. /\ calls' = Append(calls, type) /\ Len(calls') = Len(calls) + 1
          /\ \A i \in 1 .. Len(calls) : calls'[i] = calls[i]
          /\ calls'[Len(calls) + 1] = type /\ Len(calls) \in Nat /\ Len(audit) \in Nat
      BY <1>1, <2>2, AppendProperties, LenProperties DEF SandboxInv
    <3>3. Faithful(audit)'
      <4>1. Len(audit') = Len(calls') + 1 /\ audit'[1].type = "sandbox.run_started"
        BY <2>1, <3>1, <3>2 DEF Faithful
      <4>2. ASSUME NEW i \in 1 .. Len(calls) PROVE audit'[i + 1].type = calls'[i]
        <5>1. i + 1 \in 1 .. Len(audit)
          BY <3>1, <3>2 DEF Faithful
        <5> QED
          BY <2>1, <3>1, <3>2, <5>1 DEF Faithful
      <4>3. audit'[Len(calls) + 2].type = type
        BY <2>1, <3>1, <3>2 DEF Faithful
      <4>4. \A i \in 1 .. Len(calls') : i \in 1 .. Len(calls) \/ (i = Len(calls) + 1 /\ i + 1 = Len(calls) + 2)
        BY <3>2
      <4> QED
        BY <3>2, <4>1, <4>2, <4>3, <4>4 DEF Faithful
    <3>4. ExhaustionShows(audit, ticks)'
      BY <1>1, <2>1, <3>1, <3>2 DEF ExhaustionShows
    <3> QED
      BY <3>3, <3>4
  <2> QED
    BY <1>1, <1>2, <1>3, <2>1, <2>2 DEF SandboxInv
<1> QED BY <1>1, <1>4, <1>5

(* Every step of a run keeps the invariant.                                 *)
LEMMA SandboxNextKeepsInv ==
  ASSUME SandboxInv, SandboxNext
  PROVE  SandboxInv'
<1>0. ticks \in Nat /\ result \in {{}} \cup {result}
  BY DEF SandboxInv
<1>1. ASSUME HasCapability \/ RequestHostApi \/ PluginAudit \/ \E allowed \in BOOLEAN : RequireCapability(allowed)
      PROVE  SandboxInv'
  <2>1. PICK type \in EventTypes, throws \in BOOLEAN : Call(type, ticks, throws)
    BY <1>1 DEF HasCapability, RequestHostApi, PluginAudit, RequireCapability, EventTypes
  <2> QED
    BY <1>0, <2>1, CallKeepsInv
<1>2. ASSUME NEW n \in Increments, Tick(n)
      PROVE  SandboxInv'
  <2>1. n \in Nat \ {0} /\ ticks + n \in Nat /\ ticks + n > ticks
    BY <1>0, SandboxAssumption
  <2>2. CASE ticks + n > MaxTicks
    BY <1>2, <2>1, <2>2, CallKeepsInv DEF Tick, EventTypes
  <2>3. CASE ~(ticks + n > MaxTicks)
    BY <1>2, <2>1, <2>3, CallKeepsInv DEF Tick, EventTypes
  <2> QED
    BY <2>2, <2>3
<1>3. ASSUME CatchError
      PROVE  SandboxInv'
  BY <1>3 DEF CatchError, SandboxInv, HasRoom, GoodRunsTellAll, Faithful
<1>4. ASSUME RunFailed
      PROVE  SandboxInv'
  <2>1. /\ result' = {[ok |-> FALSE, audit |-> audit', ticks |-> ticks]}
        /\ UNCHANGED <<ticks, calls>>
        /\ Record("sandbox.run_failed", ticks) \/ audit' = audit
    BY <1>4 DEF RunFailed, Answered
  <2>2. /\ audit' \in Seq(AuditEvent) /\ Len(audit') <= MaxAuditEvents /\ TicksRise(audit', ticks)
    <3>1. CASE audit' = audit
      BY <3>1 DEF SandboxInv
    <3>2. CASE Record("sandbox.run_failed", ticks)
      <4>1. "sandbox.run_failed" \in EventTypes /\ ticks <= ticks
        BY <1>0 DEF EventTypes
      <4> QED
        BY <1>0, <3>2, <4>1, RecordGrows
    <3> QED
      BY <2>1, <3>1, <3>2
  <2>3. DOMAIN audit' = 1 .. Len(audit')
    BY <2>2, LenProperties
  <2>4. \A r \in result' : ~r.ok /\ r.audit = audit'
    BY <2>1
  <2>5. GoodRunsTellAll'
    BY <2>2, <2>3, <2>4 DEF GoodRunsTellAll, TicksRise
  <2>6. result' # {} /\ ticks' = ticks /\ calls' = calls
    BY <2>1
  <2> QED
    BY <2>2, <2>4, <2>5, <2>6 DEF SandboxInv
<1>5. ASSUME RunCompleted
      PROVE  SandboxInv'
  <2>1. /\ result = {} /\ result' = {[ok |-> TRUE, audit |-> audit', ticks |-> ticks]}
        /\ UNCHANGED <<ticks, calls>> /\ HasRoom
        /\ Record("sandbox.run_completed", ticks)
    BY <1>5 DEF RunCompleted, Answered, Record
  <2>2. /\ audit' \in Seq(AuditEvent)
        /\ Len(audit') = Len(audit) + 1 /\ Len(audit') <= MaxAuditEvents
        /\ \A i \in 1 .. Len(audit) : audit'[i] = audit[i]
        /\ audit'[Len(audit) + 1] = [type |-> "sandbox.run_completed", tick |-> ticks]
        /\ TicksRise(audit', ticks)
    BY <1>0, <2>1, RecordGrows DEF EventTypes
  <2>3. Faithful(audit) /\ ExhaustionShows(audit, ticks)
    BY <2>1 DEF SandboxInv
  <2>4. DOMAIN audit' = 1 .. Len(audit') /\ Len(audit) \in Nat /\ Len(calls) \in Nat
    BY <2>2, LenProperties DEF SandboxInv
  <2>5. [i \in 1 .. Len(audit') |-> audit'[i].type]
          = <<"sandbox.run_started">> \o calls \o <<"sandbox.run_completed">>
    <3> DEFINE types == [i \in 1 .. Len(audit') |-> audit'[i].type]
               told == <<"sandbox.run_started">> \o calls
    <3>1. told \in Seq(EventTypes) /\ Len(told) = Len(calls) + 1
          /\ told[1] = "sandbox.run_started" /\ \A i \in 1 .. Len(calls) : told[i + 1] = calls[i]
      BY <2>4, ConcatProperties DEF SandboxInv, EventTypes
    <3> HIDE DEF told
    <3>2. told \o <<"sandbox.run_completed">> = Append(told, "sandbox.run_completed")
      BY <3>1, AppendIsConcat DEF EventTypes
    <3>3. \A i \in 1 .. Len(audit) : audit[i].type = told[i]
      <4> SUFFICES ASSUME NEW i \in 1 .. Len(audit) PROVE audit[i].type = told[i]
        OBVIOUS
      <4>1. CASE i = 1
        BY <2>3, <3>1, <4>1 DEF Faithful
      <4>2. CASE i # 1
        <5>1. i - 1 \in 1 .. Len(calls) /\ (i - 1) + 1 = i
          BY <2>3, <2>4, <4>2 DEF Faithful
        <5> QED
          BY <2>3, <3>1, <5>1 DEF Faithful
      <4> QED
        BY <4>1, <4>2
    <3>4. \A i \in 1 .. Len(audit') : types[i] = Append(told, "sandbox.run_completed")[i]
      BY <2>2, <2>3, <2>4, <3>1, <3>3, AppendProperties DEF EventTypes, Faithful
    <3>5. Append(told, "sandbox.run_completed") \in Seq(EventTypes)
          /\ Len(Append(told, "sandbox.run_completed")) = Len(audit')
      BY <2>2, <2>3, <3>1, AppendProperties DEF EventTypes, Faithful
    <3>6. types = Append(told, "sandbox.run_completed")
      BY <3>4, <3>5, LenProperties
    <3> QED
      BY <3>2, <3>6 DEF told
  <2>6. ticks > MaxTicks => \E i \in DOMAIN audit' : audit'[i].type = "resource.exhausted"
    BY <2>2, <2>3, <2>4 DEF ExhaustionShows
  <2>7. /\ \A r \in result' : r.audit = audit' /\ r.ticks = ticks
        /\ result' # {} /\ ticks' = ticks /\ calls' = calls
    BY <2>1
  <2>8. GoodRunsTellAll'
    BY <2>2, <2>4, <2>5, <2>6, <2>7 DEF GoodRunsTellAll, TicksRise
  <2> QED
    BY <2>2, <2>7, <2>8 DEF SandboxInv
<1> QED BY <1>1, <1>2, <1>3, <1>4, <1>5 DEF SandboxNext

(* The invariant holds always.                                              *)
LEMMA SandboxInvariant == SandboxSpec => []SandboxInv
<1>1. SandboxInit => SandboxInv
  <2> SUFFICES ASSUME SandboxInit PROVE SandboxInv
    OBVIOUS
  <2>1. [type |-> "sandbox.run_started", tick |-> 0] \in AuditEvent
    BY DEF AuditEvent, EventTypes
  <2>2. /\ audit \in Seq(AuditEvent) /\ Len(audit) = 1
        /\ audit[1] = [type |-> "sandbox.run_started", tick |-> 0]
    BY <2>1 DEF SandboxInit
  <2>3. calls \in Seq(EventTypes) /\ Len(calls) = 0 /\ ticks = 0 /\ result = {}
    BY DEF SandboxInit
  <2>4. TicksRise(audit, ticks) /\ Faithful(audit) /\ ExhaustionShows(audit, ticks)
    BY <2>2, <2>3, SandboxAssumption DEF TicksRise, Faithful, ExhaustionShows
  <2> QED
    BY <2>2, <2>3, <2>4, SandboxAssumption DEF SandboxInv, GoodRunsTellAll
<1>2. SandboxInv /\ [SandboxNext]_sandboxVars => SandboxInv'
  <2>1. CASE SandboxNext
    BY <2>1, SandboxNextKeepsInv
  <2>2. CASE UNCHANGED sandboxVars
    BY <2>2 DEF sandboxVars, SandboxInv, HasRoom, GoodRunsTellAll, Faithful
  <2> QED
    BY <2>1, <2>2
<1> QED BY <1>1, <1>2, PTL DEF SandboxSpec

(* GoodRunsTellAll: the audit of a run that ended well tells every call the *)
(* plugin made, in order, and that its ticks ran out when they did          *)
(* (PluginSandbox.run), for any number of events and ticks; once the audit  *)
(* has been full no run ends well.                                          *)
THEOREM GoodRunsAlwaysTellAll == SandboxSpec => []GoodRunsTellAll
<1>1. SandboxInv => GoodRunsTellAll
  BY DEF SandboxInv
<1> QED BY <1>1, SandboxInvariant, PTL

-----------------------------------------------------------------------------
(* REVIEW RECORDS (ReviewRecords), for any pages and any writers.           *)

(* How many records are listed before one.                                  *)
ListedBefore(x, records) == Cardinality({y \in records : Earlier(y, x)})

(* A record as the store holds it.                                          *)
Stamped == [id : RecordIds, at : Nat]

(* Finitely many records that differ in id.                                 *)
RecordsSetOK(records) ==
  /\ IsFiniteSet(records) /\ records \subseteq Stamped
  /\ \A x, y \in records : x.id = y.id => x = y

(* Records that differ in id are ordered by time and id.                    *)
LEMMA EarlierOrders ==
  ASSUME NEW records, RecordsSetOK(records)
  PROVE  Orders({p \in records \X records : Earlier(p[1], p[2])}, records)
<1>1. ASSUME NEW x \in records PROVE x.at \in Int /\ x.id \in Int
  <2>1. x \in [id : RecordIds, at : Nat]
    BY DEF RecordsSetOK, Stamped
  <2>2. x.at \in Nat /\ x.id \in RecordIds
    BY <2>1
  <2>3. \A i \in RecordIds : i \in Int
    BY RecordsAssumption
  <2> QED
    BY <2>2, <2>3
<1>2. \A x, y \in records : x.id = y.id => x = y
  BY DEF RecordsSetOK
<1>3. \A x \in records : ~Earlier(x, x)
  BY <1>1 DEF Earlier
<1>4. \A x, y \in records : x = y \/ Earlier(x, y) \/ Earlier(y, x)
  BY <1>1, <1>2 DEF Earlier
<1>5. \A x, y, z \in records : Earlier(x, y) /\ Earlier(y, z) => Earlier(x, z)
  BY <1>1 DEF Earlier
<1> QED
  BY <1>3, <1>4, <1>5 DEF Orders

(* A record is at the place of the list that as many records are before.    *)
LEMMA ListedFacts ==
  ASSUME NEW records, RecordsSetOK(records)
  PROVE  /\ Cardinality(records) \in Nat
         /\ Listed(records) \in [1 .. Cardinality(records) -> records]
         /\ \A n \in 1 .. Cardinality(records) : ListedBefore(Listed(records)[n], records) = n - 1
         /\ \A x \in records : \E n \in 1 .. Cardinality(records) : Listed(records)[n] = x
<1>1. PICK R : R = {p \in records \X records : Earlier(p[1], p[2])}
  OBVIOUS
<1>2. Orders(R, records) /\ IsFiniteSet(records)
  BY <1>1, EarlierOrders DEF RecordsSetOK
<1>3. PICK s : s = SortedBy(records, R)
  OBVIOUS
<1>4. /\ Cardinality(records) \in Nat
      /\ s \in [1 .. Cardinality(records) -> records]
      /\ \A n \in 1 .. Cardinality(records) : Cardinality(Before(s[n], records, R)) = n - 1
      /\ \A x \in records : \E n \in 1 .. Cardinality(records) : s[n] = x
  <2>1. IsSorting(s, Cardinality(records), records, R)
    BY <1>2, <1>3, SortedProperties
  <2> QED
    BY <2>1 DEF IsSorting
<1>5. \A x \in records : Before(x, records, R) = {y \in records : Earlier(y, x)}
  BY <1>1 DEF Before
<1>6. \A n \in 1 .. Cardinality(records) : ListedBefore(s[n], records) = n - 1
  BY <1>4, <1>5 DEF ListedBefore
<1>7. Listed(records) = s
  BY <1>1, <1>3 DEF Listed
<1> QED
  BY <1>4, <1>6, <1>7

(* A record more moves no other towards the front, and moves none at all if *)
(* it is later than all.                                                    *)
LEMMA ListedWithOneMore ==
  ASSUME NEW records, RecordsSetOK(records), NEW z \in Stamped, RecordsSetOK(records \cup {z}),
         NEW x \in records
  PROVE  /\ ListedBefore(x, records) \in Nat /\ ListedBefore(x, records \cup {z}) \in Nat
         /\ ListedBefore(x, records) <= ListedBefore(x, records \cup {z})
         /\ x.at < z.at => ListedBefore(x, records \cup {z}) = ListedBefore(x, records)
<1>1. PICK A, B : A = {y \in records : Earlier(y, x)} /\ B = {y \in records \cup {z} : Earlier(y, x)}
  OBVIOUS
<1>2. A \in SUBSET B /\ A \in SUBSET records /\ B \in SUBSET (records \cup {z})
  BY <1>1
<1>3. IsFiniteSet(A) /\ IsFiniteSet(B)
  BY <1>2, FS_Subset DEF RecordsSetOK
<1>4. Cardinality(A) \in Nat /\ Cardinality(B) \in Nat /\ Cardinality(A) <= Cardinality(B)
  BY <1>2, <1>3, FS_Subset, FS_CardinalityType
<1>5. ASSUME x.at < z.at PROVE A = B
  <2>1. x.at \in Int /\ z.at \in Int
    BY DEF RecordsSetOK, Stamped
  <2>2. ~Earlier(z, x)
    BY <1>5, <2>1 DEF Earlier
  <2> QED
    BY <1>1, <2>2
<1> QED
  BY <1>1, <1>4, <1>5 DEF ListedBefore

(* No two records of the store were stamped in the same moment.             *)
AllAtDifferentTimes == \A x, y \in stored : x.at = y.at => x = y

(* What is listed before the reader's offset of what was there when it      *)
(* began, the reader has seen; and while no two records have the same time, *)
(* it has seen exactly the first of the list.                               *)
ReaderOK(r) ==
  /\ r.from \subseteq stored /\ r.seen \in Seq(stored) /\ r.more \in BOOLEAN
  /\ Len(r.seen) <= Cardinality(stored)
  /\ \A x \in r.from : ListedBefore(x, stored) < Len(r.seen) => \E i \in 1 .. Len(r.seen) : r.seen[i] = x
  /\ ~r.more => \A x \in r.from : \E i \in 1 .. Len(r.seen) : r.seen[i] = x
  /\ AllAtDifferentTimes => \A i \in 1 .. Len(r.seen) : ListedBefore(r.seen[i], stored) = i - 1

(* What the variables hold, and what every reader has seen.                 *)
RecordsInv ==
  /\ moment \in Nat
  /\ RecordsSetOK(stored)
  /\ \A x \in stored : x.at <= moment
  /\ posts \in [Posts -> SUBSET [id : RecordIds, parsed : Nat]]
  /\ \A r \in reading : DOMAIN r = {"seen", "from", "more"} /\ ReaderOK(r)

(* A record that is stamped now disturbs no reader.                         *)
LEMMA StoreKeepsReaders ==
  ASSUME RecordsInv, NEW z \in Stamped, z.at = moment, \A x \in stored : x.id # z.id,
         stored' = stored \cup {z}, moment' = moment
  PROVE  RecordsSetOK(stored') /\ (\A x \in stored' : x.at <= moment) /\ \A r : ReaderOK(r) => ReaderOK(r)'
<1>1. RecordsSetOK(stored)
  BY DEF RecordsInv
<1>2. IsFiniteSet(stored \cup {z}) /\ Cardinality(stored \cup {z}) = Cardinality(stored) + 1
  <2>1. z \notin stored /\ IsFiniteSet(stored)
    BY <1>1 DEF RecordsSetOK
  <2> QED
    BY <2>1, FS_AddElement
<1>3. RecordsSetOK(stored')
  BY <1>1, <1>2 DEF RecordsSetOK
<1>4. \A x \in stored' : x.at <= moment
  BY DEF RecordsInv, Stamped
<1>5. ASSUME NEW r, ReaderOK(r) PROVE ReaderOK(r)'
  <2>1. PICK n \in Nat : n = Len(r.seen)
    BY <1>5 DEF ReaderOK
  <2>2. \A i \in 1 .. n : r.seen[i] \in stored
    BY <1>5, <2>1 DEF ReaderOK
  <2>3. r.seen \in Seq(stored')
    BY <1>5, <2>1, <2>2 DEF ReaderOK
  <2>4. n <= Cardinality(stored')
    <3>1. Cardinality(stored) \in Nat
      BY <1>1, ListedFacts
    <3> QED
      BY <1>2, <1>5, <2>1, <3>1 DEF ReaderOK
  <2>5. ASSUME NEW x \in r.from, ListedBefore(x, stored') < n
        PROVE  \E i \in 1 .. n : r.seen[i] = x
    <3>1. x \in stored
      BY <1>5 DEF ReaderOK
    <3>2. /\ ListedBefore(x, stored) \in Nat /\ ListedBefore(x, stored') \in Nat
          /\ ListedBefore(x, stored) <= ListedBefore(x, stored')
      BY <1>1, <1>3, <3>1, ListedWithOneMore
    <3>3. ListedBefore(x, stored) < n
      BY <2>1, <2>5, <3>2
    <3> QED
      BY <1>5, <2>1, <3>3 DEF ReaderOK
  <2>6. ASSUME AllAtDifferentTimes', NEW i \in 1 .. n
        PROVE  ListedBefore(r.seen[i], stored') = i - 1
    <3>1. AllAtDifferentTimes
      BY <2>6 DEF AllAtDifferentTimes
    <3>2. PICK x \in stored : x = r.seen[i]
      BY <2>2
    <3>3. x.at < z.at
      <4>1. x.at \in Nat /\ moment \in Nat /\ x.at <= moment
        BY DEF RecordsInv, RecordsSetOK, Stamped
      <4>2. x.at # z.at
        BY <2>6 DEF AllAtDifferentTimes
      <4> QED
        BY <4>1, <4>2
    <3>4. ListedBefore(x, stored') = ListedBefore(x, stored)
      BY <1>1, <1>3, <3>3, ListedWithOneMore
    <3>5. ListedBefore(x, stored) = i - 1
      BY <1>5, <2>1, <3>1, <3>2 DEF ReaderOK
    <3> QED
      BY <3>2, <3>4, <3>5
  <2>7. r.from \subseteq stored' /\ r.more \in BOOLEAN
        /\ (~r.more => \A x \in r.from : \E i \in 1 .. Len(r.seen) : r.seen[i] = x)
    BY <1>5 DEF ReaderOK
  <2> QED
    BY <2>1, <2>3, <2>4, <2>5, <2>6, <2>7 DEF ReaderOK
<1> QED
  BY <1>3, <1>4, <1>5

(* The records of a page are the next of the list.                          *)
LEMMA PageFacts ==
  ASSUME RecordsInv, NEW k \in Nat, k <= Cardinality(stored), NEW limit \in PageSizes
  PROVE  LET page == PageOf(stored, k, limit) IN
         /\ page.records \in Seq(stored) /\ k + Len(page.records) <= Cardinality(stored)
         /\ page.hasMore = (k + Len(page.records) < Cardinality(stored))
         /\ \A i \in 1 .. Len(page.records) : page.records[i] = Listed(stored)[k + i]
<1>1. PICK s, N : s = Listed(stored) /\ N = Cardinality(stored)
  OBVIOUS
<1>2. N \in Nat /\ s \in [1 .. N -> stored]
  BY <1>1, ListedFacts DEF RecordsInv
<1>3. s \in Seq(stored) /\ Len(s) = N
  BY <1>2
<1>4. limit \in Nat \ {0}
  BY RecordsAssumption
<1>5. PICK e : e = Min({k + limit, N})
  OBVIOUS
<1>6. e \in {k + limit, N} /\ e <= N
  <2>1. \E x \in {k + limit, N} : \A y \in {k + limit, N} : x <= y
    BY <1>2, <1>4
  <2>2. e \in {k + limit, N} /\ \A y \in {k + limit, N} : e <= y
    BY <1>5, <2>1 DEF Min
  <2> QED
    BY <2>2
<1>7. e \in Nat /\ k <= e
  BY <1>1, <1>2, <1>4, <1>6
<1>8. PICK page : page = SubSeq(s, k + 1, e)
  OBVIOUS
<1>9. page \in Seq(stored) /\ Len(page) = e - k /\ \A i \in 1 .. e - k : page[i] = s[k + i]
  <2>1. k + 1 \in Int /\ e \in Int /\ \A i \in k + 1 .. e : s[i] \in stored
    <3>1. \A i \in k + 1 .. e : i \in 1 .. N
      BY <1>2, <1>6, <1>7
    <3> QED
      BY <1>2, <1>7, <3>1
  <2>2. /\ page \in Seq(stored)
        /\ Len(page) = (IF k + 1 <= e THEN e - (k + 1) + 1 ELSE 0)
        /\ \A i \in 1 .. e - (k + 1) + 1 : page[i] = s[(k + 1) + i - 1]
    BY <1>8, <2>1, SubSeqProperties
  <2>3. e - (k + 1) + 1 = e - k /\ \A i \in 1 .. e - k : (k + 1) + i - 1 = k + i
    BY <1>7
  <2>4. Len(page) = e - k
    BY <1>7, <2>2
  <2> QED
    BY <2>2, <2>3, <2>4
<1>10. PICK whole : whole = PageOf(stored, k, limit)
  OBVIOUS
<1>11. whole.records = page /\ whole.hasMore = (k + Len(page) < N)
  BY <1>1, <1>5, <1>8, <1>10 DEF PageOf
<1> QED
  BY <1>1, <1>6, <1>7, <1>9, <1>10, <1>11

(* A page takes its reader on to the next offset and adds what is listed    *)
(* there.                                                                   *)
LEMMA ReadKeepsReader ==
  ASSUME RecordsInv, NEW r, DOMAIN r = {"seen", "from", "more"}, ReaderOK(r), NEW limit \in PageSizes,
         NEW next, next = [r EXCEPT !.seen = @ \o PageOf(stored, Len(r.seen), limit).records,
                                    !.more = PageOf(stored, Len(r.seen), limit).hasMore]
  PROVE  DOMAIN next = {"seen", "from", "more"} /\ ReaderOK(next)
<1>1. PICK k, page, more, N, s :
        /\ k = Len(r.seen) /\ page = PageOf(stored, Len(r.seen), limit).records
        /\ more = PageOf(stored, Len(r.seen), limit).hasMore
        /\ N = Cardinality(stored) /\ s = Listed(stored)
  OBVIOUS
<1>2. k \in Nat /\ k <= N /\ r.seen \in Seq(stored) /\ r.from \subseteq stored
  BY <1>1 DEF ReaderOK
<1>3. /\ page \in Seq(stored) /\ k + Len(page) <= N /\ more = (k + Len(page) < N)
      /\ \A i \in 1 .. Len(page) : page[i] = s[k + i]
  BY <1>1, <1>2, PageFacts
<1>4. /\ N \in Nat /\ s \in [1 .. N -> stored]
      /\ \A n \in 1 .. N : ListedBefore(s[n], stored) = n - 1
      /\ \A x \in stored : \E n \in 1 .. N : s[n] = x
  BY <1>1, ListedFacts DEF RecordsInv
<1>5. PICK seen : seen = r.seen \o page
  OBVIOUS
<1>6. next.seen = seen /\ next.more = more /\ next.from = r.from /\ DOMAIN next = {"seen", "from", "more"}
  BY <1>1, <1>5
<1>7. /\ seen \in Seq(stored) /\ Len(seen) = k + Len(page)
      /\ \A i \in 1 .. k : seen[i] = r.seen[i]
      /\ \A i \in 1 .. Len(page) : seen[k + i] = s[k + i]
  <2>1. /\ seen \in Seq(stored) /\ Len(seen) = k + Len(page)
        /\ \A i \in 1 .. k + Len(page) : seen[i] = IF i <= k THEN r.seen[i] ELSE page[i - k]
    BY <1>1, <1>2, <1>3, <1>5, ConcatProperties
  <2>2. \A i \in 1 .. k : i \in 1 .. k + Len(page) /\ i <= k
    BY <1>2, <1>3
  <2>3. \A i \in 1 .. Len(page) : k + i \in 1 .. k + Len(page) /\ ~(k + i <= k) /\ (k + i) - k = i
    BY <1>2, <1>3
  <2> QED
    BY <1>3, <2>1, <2>2, <2>3
<1>8. ASSUME NEW x \in stored, x \in r.from, ListedBefore(x, stored) < Len(seen)
      PROVE  \E i \in 1 .. Len(seen) : seen[i] = x
  <2>1. PICK n \in 1 .. N : s[n] = x
    BY <1>4
  <2>2. ListedBefore(x, stored) = n - 1
    BY <1>4, <2>1
  <2>3. n \in 1 .. Len(seen)
    BY <1>2, <1>3, <1>7, <1>8, <2>2
  <2>4. CASE n <= k
    <3>1. ListedBefore(x, stored) < Len(r.seen)
      BY <1>1, <1>2, <2>2, <2>4
    <3>2. PICK i \in 1 .. k : r.seen[i] = x
      BY <1>1, <1>8, <3>1 DEF ReaderOK
    <3>3. i \in 1 .. Len(seen)
      BY <1>2, <1>3, <1>7
    <3> QED
      BY <1>7, <3>2, <3>3
  <2>5. CASE ~(n <= k)
    <3>1. n - k \in 1 .. Len(page) /\ k + (n - k) = n
      BY <1>2, <1>3, <1>7, <2>3, <2>5
    <3>2. seen[n] = s[n]
      BY <1>7, <3>1
    <3> QED
      BY <2>1, <2>3, <3>2
  <2> QED
    BY <2>4, <2>5
<1>9. ASSUME ~more, NEW x \in r.from PROVE \E i \in 1 .. Len(seen) : seen[i] = x
  <2>1. PICK n \in 1 .. N : s[n] = x
    BY <1>2, <1>4
  <2>2. ListedBefore(x, stored) = n - 1
    BY <1>4, <2>1
  <2>3. Len(page) \in Nat /\ ~(k + Len(page) < N)
    <3>1. more = (k + Len(page) < N)
      BY <1>3
    <3>2. ~(k + Len(page) < N)
      BY <1>9, <3>1
    <3>3. Len(page) \in Nat
      BY <1>3
    <3> QED
      BY <3>2, <3>3
  <2>4. Len(seen) = N
    BY <1>2, <1>3, <1>4, <1>7, <2>3
  <2>5. ListedBefore(x, stored) < Len(seen) /\ x \in stored
    BY <1>2, <1>4, <2>2, <2>4
  <2> QED
    BY <1>8, <1>9, <2>5
<1>10. ASSUME AllAtDifferentTimes, NEW i \in 1 .. Len(seen)
       PROVE  ListedBefore(seen[i], stored) = i - 1
  <2>1. CASE i <= k
    <3>1. i \in 1 .. k
      BY <1>2, <2>1
    <3> QED
      BY <1>1, <1>7, <1>10, <3>1 DEF ReaderOK
  <2>2. CASE ~(i <= k)
    <3>0. Len(page) \in Nat
      BY <1>3
    <3>1. i - k \in 1 .. Len(page) /\ k + (i - k) = i
      BY <1>2, <1>7, <2>2, <3>0
    <3>2. seen[i] = s[i]
      BY <1>7, <3>1
    <3>3. i \in 1 .. N
      BY <1>2, <1>3, <1>4, <1>7, <3>0
    <3> QED
      BY <1>4, <3>2, <3>3
  <2> QED
    BY <2>1, <2>2
<1>11. more \in BOOLEAN
  BY <1>3
<1>12. Len(seen) <= Cardinality(stored)
  BY <1>1, <1>3, <1>7
<1>13. \A x \in r.from : ListedBefore(x, stored) < Len(seen) => \E i \in 1 .. Len(seen) : seen[i] = x
  BY <1>2, <1>8
<1>14. ~more => \A x \in r.from : \E i \in 1 .. Len(seen) : seen[i] = x
  BY <1>9
<1>15. AllAtDifferentTimes => \A i \in 1 .. Len(seen) : ListedBefore(seen[i], stored) = i - 1
  BY <1>10
<1>16. ReaderOK(next)
  BY <1>2, <1>6, <1>7, <1>11, <1>12, <1>13, <1>14, <1>15, ZenonT(40) DEF ReaderOK
<1> QED
  BY <1>6, <1>16

(* The reader's first page begins at an empty reader of what is stored,     *)
(* which is as good as any.                                                 *)
LEMMA FirstReader ==
  ASSUME RecordsInv
  PROVE  ReaderOK([seen |-> <<>>, from |-> stored, more |-> TRUE])
<1>1. PICK r : r = [seen |-> <<>>, from |-> stored, more |-> TRUE]
  OBVIOUS
<1>2. r.seen = <<>> /\ r.from = stored /\ r.more = TRUE /\ Len(r.seen) = 0
  BY <1>1
<1>3. Cardinality(stored) \in Nat
  BY ListedFacts DEF RecordsInv
<1>4. \A x \in stored : ListedBefore(x, stored) \in Nat
  <2> SUFFICES ASSUME NEW x \in stored PROVE ListedBefore(x, stored) \in Nat
    OBVIOUS
  <2>1. IsFiniteSet({y \in stored : Earlier(y, x)})
    BY FS_Subset DEF RecordsInv, RecordsSetOK
  <2> QED
    BY <2>1, FS_CardinalityType DEF ListedBefore
<1>5. r.seen \in Seq(stored) /\ Len(r.seen) <= Cardinality(stored)
  BY <1>2, <1>3
<1>6. \A x \in stored : ~(ListedBefore(x, stored) < 0)
  BY <1>4
<1>7. \A i : ~(i \in 1 .. Len(r.seen))
  BY <1>2
<1>8. \A x \in r.from : ~(ListedBefore(x, stored) < Len(r.seen))
  BY <1>2, <1>6
<1>9. ReaderOK(r)
  BY <1>2, <1>5, <1>7, <1>8 DEF ReaderOK
<1> QED
  BY <1>1, <1>9

(* Every step of the writers and of the reader keeps the invariant.         *)
LEMMA RecordsNextKeepsInv ==
  ASSUME RecordsInv, [RecordsNext]_recordsVars
  PROVE  RecordsInv'
<1>1. ASSUME NEW p \in Posts, NEW id \in RecordIds, ParsePost(p, id) PROVE RecordsInv'
  <2>1. [id |-> id, parsed |-> moment] \in [id : RecordIds, parsed : Nat]
    BY DEF RecordsInv
  <2>2. posts' \in [Posts -> SUBSET [id : RecordIds, parsed : Nat]]
    BY <1>1, <2>1 DEF ParsePost, RecordsInv
  <2>3. UNCHANGED <<stored, moment, reading>>
    BY <1>1 DEF ParsePost
  <2> QED
    BY <2>2, <2>3 DEF RecordsInv, ReaderOK, AllAtDifferentTimes
<1>2. ASSUME NEW p \in Posts, StoreRecord(p) PROVE RecordsInv'
  <2>1. posts' \in [Posts -> SUBSET [id : RecordIds, parsed : Nat]]
    BY <1>2 DEF StoreRecord, RecordsInv
  <2>2. UNCHANGED <<moment, reading>>
    BY <1>2 DEF StoreRecord
  <2>3. PICK post \in posts[p] :
          stored' = IF \E x \in stored : x.id = post.id THEN stored
                    ELSE stored \cup {[id |-> post.id, at |-> Stamp(post)]}
    BY <1>2 DEF StoreRecord
  <2>4. CASE \E x \in stored : x.id = post.id
    <3>1. stored' = stored
      BY <2>3, <2>4
    <3> QED
      BY <2>1, <2>2, <3>1 DEF RecordsInv, ReaderOK, AllAtDifferentTimes
  <2>5. CASE ~ \E x \in stored : x.id = post.id
    <3>1. post \in [id : RecordIds, parsed : Nat] /\ moment \in Nat
      BY DEF RecordsInv
    <3>2. PICK z : z = [id |-> post.id, at |-> moment]
      OBVIOUS
    <3>3. z \in Stamped /\ z.at = moment /\ z.id = post.id
      BY <3>1, <3>2 DEF Stamped
    <3>4. stored' = stored \cup {z}
      BY <2>3, <2>5, <3>2 DEF Stamp
    <3>5. \A x \in stored : x.id # z.id
      BY <2>5, <3>3
    <3>6. /\ RecordsSetOK(stored') /\ (\A x \in stored' : x.at <= moment)
          /\ \A r : ReaderOK(r) => ReaderOK(r)'
      BY <2>2, <3>3, <3>4, <3>5, StoreKeepsReaders
    <3>7. \A r \in reading' : DOMAIN r = {"seen", "from", "more"} /\ ReaderOK(r)'
      BY <2>2, <3>6 DEF RecordsInv
    <3>8. moment' \in Nat /\ \A x \in stored' : x.at <= moment'
      BY <2>2, <3>1, <3>6
    <3>9. RecordsSetOK(stored)'
      BY <3>6 DEF RecordsSetOK
    <3> QED
      BY <2>1, <3>7, <3>8, <3>9 DEF RecordsInv
  <2> QED
    BY <2>4, <2>5
<1>3. ASSUME NEW limit \in PageSizes, ReadPage(limit) PROVE RecordsInv'
  <2>1. UNCHANGED <<stored, moment, posts>>
    BY <1>3 DEF ReadPage
  <2>2. PICK r \in IF reading = {} THEN {[seen |-> <<>>, from |-> stored, more |-> TRUE]} ELSE reading :
          reading' = {[r EXCEPT !.seen = @ \o PageOf(stored, Len(r.seen), limit).records,
                                !.more = PageOf(stored, Len(r.seen), limit).hasMore]}
    BY <1>3 DEF ReadPage
  <2>3. DOMAIN r = {"seen", "from", "more"} /\ ReaderOK(r)
    <3>1. CASE reading = {}
      <4>1. r = [seen |-> <<>>, from |-> stored, more |-> TRUE]
        BY <2>2, <3>1
      <4> QED
        BY <4>1, FirstReader
    <3>2. CASE reading # {}
      BY <3>2 DEF RecordsInv
    <3> QED
      BY <3>1, <3>2
  <2>4. PICK next : next = [r EXCEPT !.seen = @ \o PageOf(stored, Len(r.seen), limit).records,
                                     !.more = PageOf(stored, Len(r.seen), limit).hasMore]
    OBVIOUS
  <2>5. DOMAIN next = {"seen", "from", "more"} /\ ReaderOK(next)
    BY <2>3, <2>4, ReadKeepsReader
  <2>6. reading' = {next}
    BY <2>2, <2>4
  <2>7. ReaderOK(next)'
    BY <2>1, <2>5 DEF ReaderOK, AllAtDifferentTimes
  <2>8. \A x \in reading' : DOMAIN x = {"seen", "from", "more"} /\ ReaderOK(x)'
    BY <2>5, <2>6, <2>7
  <2> QED
    BY <2>1, <2>8 DEF RecordsInv
<1>4. ASSUME StopReading PROVE RecordsInv'
  BY <1>4 DEF StopReading, RecordsInv
<1>5. ASSUME MomentPasses PROVE RecordsInv'
  <2>1. moment' = moment + 1 /\ UNCHANGED <<stored, posts, reading>>
    BY <1>5 DEF MomentPasses
  <2>2. moment' \in Nat /\ \A x \in stored' : x.at <= moment'
    <3>1. moment \in Nat /\ \A x \in stored : x.at \in Nat /\ x.at <= moment
      BY DEF RecordsInv, RecordsSetOK, Stamped
    <3> QED
      BY <2>1, <3>1
  <2> QED
    BY <2>1, <2>2 DEF RecordsInv, ReaderOK, AllAtDifferentTimes
<1>6. CASE UNCHANGED recordsVars
  BY <1>6 DEF recordsVars, RecordsInv, ReaderOK, AllAtDifferentTimes
<1> QED
  BY <1>1, <1>2, <1>3, <1>4, <1>5, <1>6 DEF RecordsNext

(* The invariant holds always.                                              *)
LEMMA RecordsInvariant == RecordsSpec => []RecordsInv
<1>1. RecordsInit => RecordsInv
  <2> SUFFICES ASSUME RecordsInit PROVE RecordsInv
    OBVIOUS
  <2>1. posts \in [Posts -> SUBSET [id : RecordIds, parsed : Nat]]
    BY DEF RecordsInit
  <2>2. RecordsSetOK(stored)
    BY FS_EmptySet DEF RecordsInit, RecordsSetOK
  <2> QED
    BY <2>1, <2>2 DEF RecordsInit, RecordsInv
<1>2. RecordsInv /\ [RecordsNext]_recordsVars => RecordsInv'
  BY RecordsNextKeepsInv
<1> QED
  BY <1>1, <1>2, PTL DEF RecordsSpec

(* However creates wait for their previews while a reader pages, the reader *)
(* that reaches the end has been shown every record that was there at its   *)
(* first page, and none twice while no two records have the same time.      *)
THEOREM ReadersAlwaysMissNothing == RecordsSpec => []PagesShowEveryRecord
<1>1. RecordsInv => PagesShowEveryRecord
  <2> SUFFICES ASSUME RecordsInv, NEW r \in reading
               PROVE  /\ ~r.more => r.from \subseteq ToSet(r.seen)
                      /\ (\A x, y \in stored : x.at = y.at => x = y) => IsInjective(r.seen)
    BY DEF PagesShowEveryRecord
  <2>1. ReaderOK(r)
    BY DEF RecordsInv
  <2>2. r.seen \in Seq(stored) /\ DOMAIN r.seen = 1 .. Len(r.seen) /\ Len(r.seen) \in Nat
    BY <2>1 DEF ReaderOK
  <2>3. ASSUME ~r.more PROVE r.from \subseteq ToSet(r.seen)
    <3>1. \A x \in r.from : \E i \in 1 .. Len(r.seen) : r.seen[i] = x
      BY <2>1, <2>3 DEF ReaderOK
    <3> QED
      BY <2>2, <3>1 DEF ToSet
  <2>4. ASSUME AllAtDifferentTimes PROVE IsInjective(r.seen)
    <3>1. \A i \in 1 .. Len(r.seen) : ListedBefore(r.seen[i], stored) = i - 1
      BY <2>1, <2>4 DEF ReaderOK
    <3>2. ASSUME NEW i \in 1 .. Len(r.seen), NEW j \in 1 .. Len(r.seen), r.seen[i] = r.seen[j]
          PROVE  i = j
      <4>1. i - 1 = j - 1
        BY <3>1, <3>2
      <4> QED
        BY <4>1
    <3> QED
      BY <2>2, <3>2 DEF IsInjective
  <2> QED
    BY <2>3, <2>4 DEF AllAtDifferentTimes
<1> QED
  BY <1>1, RecordsInvariant, PTL

-----------------------------------------------------------------------------
(* RETENTION OF BACKUPS (BackupRetention), for any policies and any         *)
(* sweepers.                                                                *)

(* A backup as the evaluation sees it.                                      *)
Manifest == [id : Nat, day : Nat]

(* A policy of numbers.                                                     *)
PolicyOK(p) == p.latest \in Nat /\ p.minimum \in Nat /\ p.days \subseteq Nat

(* Inductive: whatever a sweeper still has to delete, evaluating now would  *)
(* name as well.                                                            *)
RetentionInv ==
  /\ IsFiniteSet(backups) /\ backups \subseteq Manifest
  /\ day \in Nat /\ PolicyOK(policy)
  /\ doomed \in [Sweepers -> SUBSET Manifest]
  /\ \A w \in Sweepers : doomed[w] \cap backups \subseteq Doomed(backups, policy, day)

(* The backups newer than one.                                              *)
Above(x, S) == {c \in S : Newer(c, x)}

(* The backups older than one.                                              *)
Below(x, S) == {c \in S : Newer(x, c)}

(* compareManifestByCreatedAtDescending orders all manifests.               *)
LEMMA NewerOrders ==
  /\ \A x, y \in Manifest : x = y \/ Newer(x, y) \/ Newer(y, x)
  /\ \A x \in Manifest : ~Newer(x, x)
  /\ \A x, y, z \in Manifest : Newer(x, y) /\ Newer(y, z) => Newer(x, z)
<1>1. \A x, y \in Manifest : x.id = y.id /\ x.day = y.day => x = y
  BY DEF Manifest
<1>2. \A x \in Manifest : x.id \in Nat /\ x.day \in Nat
  BY DEF Manifest
<1>3. \A x, y \in Manifest : x = y \/ Newer(x, y) \/ Newer(y, x)
  BY <1>1, <1>2 DEF Newer
<1>4. \A x \in Manifest : ~Newer(x, x)
  BY <1>2 DEF Newer
<1>5. \A x, y, z \in Manifest : Newer(x, y) /\ Newer(y, z) => Newer(x, z)
  BY <1>2 DEF Newer
<1> QED
  BY <1>3, <1>4, <1>5

(* Subsets counted.                                                         *)
LEMMA Counted ==
  ASSUME NEW S, IsFiniteSet(S), NEW T, T \subseteq S
  PROVE  IsFiniteSet(T) /\ Cardinality(T) \in Nat /\ Cardinality(T) <= Cardinality(S)
BY FS_Subset, FS_CardinalityType

(* One element more counts for at most one.                                 *)
LEMMA OneMoreCounted ==
  ASSUME NEW S, IsFiniteSet(S), NEW x
  PROVE  /\ IsFiniteSet(S \cup {x}) /\ Cardinality(S \cup {x}) \in Nat
         /\ Cardinality(S \cup {x}) <= Cardinality(S) + 1
<1>1. IsFiniteSet(S \cup {x}) /\ Cardinality(S) \in Nat
  BY FS_AddElement, FS_CardinalityType
<1>2. Cardinality(S \cup {x}) = IF x \in S THEN Cardinality(S) ELSE Cardinality(S) + 1
  BY FS_AddElement
<1>3. Cardinality(S \cup {x}) <= Cardinality(S) + 1
  BY <1>1, <1>2
<1> QED
  BY <1>1, <1>3, FS_CardinalityType

(* What is kept of finitely many backups when one more comes in.            *)
LEMMA KeptWithOneMore ==
  ASSUME NEW S, IsFiniteSet(S), S \subseteq Manifest, NEW x \in Manifest, x \notin S,
         NEW p, PolicyOK(p)
  PROVE  /\ Kept(S \cup {x}, p) \subseteq Kept(S, p) \cup {x}
         /\ x \notin Kept(S \cup {x}, p) => Kept(S \cup {x}, p) = Kept(S, p)
<1>1. PICK T, n : T = S \cup {x} /\ n = p.latest
  OBVIOUS
<1>2. IsFiniteSet(T) /\ T \subseteq Manifest /\ n \in Nat
  BY <1>1, FS_AddElement DEF PolicyOK
<1>3. ASSUME NEW y \in S
      PROVE  /\ Above(y, S) \subseteq Above(y, T)
             /\ IsFiniteSet(Above(y, S)) /\ IsFiniteSet(Above(y, T))
             /\ Cardinality(Above(y, S)) \in Nat /\ Cardinality(Above(y, T)) \in Nat
             /\ Cardinality(Above(y, S)) <= Cardinality(Above(y, T))
             /\ ~Newer(x, y) => Above(y, S) = Above(y, T)
             /\ Newer(x, y) => Cardinality(Above(y, T)) = Cardinality(Above(y, S)) + 1
                               /\ Above(x, T) \subseteq Above(y, S)
  <2>1. Above(y, S) \subseteq Above(y, T) /\ Above(y, S) \subseteq S /\ Above(y, T) \subseteq T
    BY <1>1 DEF Above
  <2>2. /\ IsFiniteSet(Above(y, S)) /\ IsFiniteSet(Above(y, T))
        /\ Cardinality(Above(y, S)) \in Nat /\ Cardinality(Above(y, T)) \in Nat
    BY <1>2, <2>1, Counted
  <2>3. Cardinality(Above(y, S)) <= Cardinality(Above(y, T))
    BY <2>1, <2>2, Counted
  <2>4. ~Newer(x, y) => Above(y, S) = Above(y, T)
    BY <1>1 DEF Above
  <2>5. ASSUME Newer(x, y)
        PROVE  Cardinality(Above(y, T)) = Cardinality(Above(y, S)) + 1 /\ Above(x, T) \subseteq Above(y, S)
    <3>1. Above(y, T) = Above(y, S) \cup {x} /\ x \notin Above(y, S)
      BY <1>1, <2>5 DEF Above
    <3>2. Cardinality(Above(y, T)) = Cardinality(Above(y, S)) + 1
      BY <2>2, <3>1, FS_AddElement
    <3>3. Above(x, T) \subseteq Above(y, S)
      BY <1>1, <1>2, <2>5, NewerOrders DEF Above
    <3> QED
      BY <3>2, <3>3
  <2> QED
    BY <2>1, <2>2, <2>3, <2>4, <2>5
<1>4. ASSUME NEW y \in S, y \in Newest(n, T) PROVE y \in Newest(n, S)
  <2>1. Cardinality(Above(y, T)) < n
    BY <1>4 DEF Newest, Above
  <2>2. Cardinality(Above(y, S)) < n
    BY <1>2, <1>3, <2>1
  <2> QED
    BY <2>2 DEF Newest, Above
<1>5. Newest(n, T) \subseteq T
  BY DEF Newest
<1>6. Kept(T, p) \subseteq Kept(S, p) \cup {x}
  BY <1>1, <1>4, <1>5 DEF Kept
<1>7. ASSUME x \notin Kept(T, p) PROVE Kept(T, p) = Kept(S, p)
  <2>1. x \notin Newest(n, T)
    BY <1>1, <1>7 DEF Kept
  <2>2. ~(Cardinality(Above(x, T)) < n)
    BY <1>1, <2>1 DEF Newest, Above
  <2>3. Cardinality(Above(x, T)) \in Nat
    <3>1. Above(x, T) \subseteq T
      BY DEF Above
    <3> QED
      BY <1>2, <3>1, Counted
  <2>4. ASSUME NEW y \in S, y \in Newest(n, S) PROVE y \in Newest(n, T)
    <3>1. Cardinality(Above(y, S)) < n
      BY <2>4 DEF Newest, Above
    <3>2. ~Newer(x, y)
      <4>1. ASSUME Newer(x, y) PROVE FALSE
        <5>1. Cardinality(Above(x, T)) <= Cardinality(Above(y, S))
          BY <1>3, <4>1, Counted
        <5> QED
          BY <1>2, <1>3, <2>2, <2>3, <3>1, <5>1
      <4> QED
        BY <4>1
    <3>3. Above(y, S) = Above(y, T)
      BY <1>3, <3>2
    <3>4. y \in T
      BY <1>1
    <3> QED
      BY <3>1, <3>3, <3>4 DEF Newest, Above
  <2>5. Newest(n, S) \subseteq S
    BY DEF Newest
  <2>6. {b \in T : b.id \in p.protected} = {b \in S : b.id \in p.protected}
    <3>1. x.id \notin p.protected
      BY <1>1, <1>7 DEF Kept
    <3> QED
      BY <1>1, <3>1
  <2>7. Newest(n, T) = Newest(n, S)
    BY <1>1, <1>4, <1>5, <2>1, <2>4, <2>5
  <2> QED
    BY <1>1, <2>6, <2>7 DEF Kept
<1> QED
  BY <1>1, <1>6, <1>7

(* The number of backups a deletion must leave.                             *)
Least(S, p) == IF p.minimum > Cardinality(Kept(S, p)) THEN p.minimum ELSE Cardinality(Kept(S, p))

(* The budget is what there is beyond the least there must be.              *)
LEMMA BudgetFacts ==
  ASSUME NEW S, IsFiniteSet(S), NEW p, PolicyOK(p)
  PROVE  /\ Kept(S, p) \subseteq S
         /\ Cardinality(Kept(S, p)) \in Nat /\ Cardinality(S) \in Nat /\ Least(S, p) \in Nat
         /\ Least(S, p) >= p.minimum
         /\ Budget(S, p) = IF Cardinality(S) > Least(S, p) THEN Cardinality(S) - Least(S, p) ELSE 0
<1>1. Kept(S, p) \subseteq S
  BY DEF Kept, Newest
<1>2. Cardinality(Kept(S, p)) \in Nat /\ Cardinality(S) \in Nat
  BY <1>1, Counted
<1>3. PICK m, k : m = p.minimum /\ k = Cardinality(Kept(S, p))
  OBVIOUS
<1>4. m \in Nat /\ k \in Nat
  BY <1>2, <1>3 DEF PolicyOK
<1>5. Max({m, k}) = Least(S, p)
  <2>1. PICK x \in {m, k} : x = (IF m > k THEN m ELSE k)
    BY <1>4
  <2>2. x \in {m, k} /\ \A y \in {m, k} : x >= y
    BY <1>4, <2>1
  <2>3. \A z \in {m, k} : (\A y \in {m, k} : z >= y) => z = x
    BY <1>4, <2>2
  <2>4. Max({m, k}) = x
    BY <2>2, <2>3 DEF Max
  <2> QED
    BY <1>3, <2>1, <2>4 DEF Least
<1>6. Budget(S, p) = IF Cardinality(S) > Least(S, p) THEN Cardinality(S) - Least(S, p) ELSE 0
  BY <1>3, <1>5 DEF Budget
<1> QED
  BY <1>1, <1>2, <1>3, <1>4, <1>6 DEF Least

(* Doomed by its definition, with the candidates older than one.            *)
LEMMA DoomedBy ==
  ASSUME NEW S, IsFiniteSet(S), NEW p, NEW t
  PROVE  /\ Expendable(S, p, t) \subseteq S /\ IsFiniteSet(Expendable(S, p, t))
         /\ \A x : x \in Doomed(S, p, t) <=>
              /\ x \in Expendable(S, p, t)
              /\ Cardinality(Below(x, Expendable(S, p, t))) < Budget(S, p)
         /\ \A x : Cardinality(Below(x, Expendable(S, p, t))) \in Nat
<1>1. Expendable(S, p, t) \subseteq S
  BY DEF Expendable
<1>2. IsFiniteSet(Expendable(S, p, t))
  BY <1>1, Counted
<1>3. \A x : Below(x, Expendable(S, p, t)) \subseteq Expendable(S, p, t)
  BY DEF Below
<1>4. \A x : Cardinality(Below(x, Expendable(S, p, t))) \in Nat
  BY <1>2, <1>3, Counted
<1>5. \A x : x \in Doomed(S, p, t) <=>
              /\ x \in Expendable(S, p, t)
              /\ Cardinality(Below(x, Expendable(S, p, t))) < Budget(S, p)
  BY DEF Doomed, Below
<1> QED
  BY <1>1, <1>2, <1>4, <1>5

(* Nothing is taken off the list by a day that passes.                      *)
LEMMA DoomedTheNextDay ==
  ASSUME NEW S, IsFiniteSet(S), S \subseteq Manifest, NEW p, PolicyOK(p), NEW t \in Nat
  PROVE  Doomed(S, p, t) \subseteq Doomed(S, p, t + 1)
<1>1. PICK E, F : E = Expendable(S, p, t) /\ F = Expendable(S, p, t + 1)
  OBVIOUS
<1>2. p.days \subseteq Nat /\ \A x \in S : x.day \in Nat
  BY DEF PolicyOK, Manifest
<1>3. \A x \in S : x \in E <=> x \notin Kept(S, p) /\ \E days \in p.days : t > x.day + days
  BY <1>1 DEF Expendable
<1>4. \A x \in S : x \in F <=> x \notin Kept(S, p) /\ \E days \in p.days : t + 1 > x.day + days
  BY <1>1 DEF Expendable
<1>5. E \subseteq S /\ F \subseteq S
  BY <1>1, DoomedBy
<1>6. E \subseteq F
  BY <1>2, <1>3, <1>4, <1>5
<1>7. ASSUME NEW x \in E, NEW y \in F, Newer(x, y) PROVE y \in E
  <2>1. PICK days \in p.days : t > x.day + days
    BY <1>3, <1>5
  <2>2. y.day <= x.day
    BY <1>2, <1>5, <1>7 DEF Newer
  <2>3. t > y.day + days
    BY <1>2, <1>5, <2>1, <2>2
  <2> QED
    BY <1>3, <1>4, <1>5, <2>3
<1>8. \A x \in E : Below(x, F) = Below(x, E)
  BY <1>6, <1>7 DEF Below
<1> QED
  BY <1>1, <1>6, <1>8, DoomedBy

(* Nothing is taken off the list by a backup that comes in, however old.    *)
LEMMA DoomedWithOneMore ==
  ASSUME NEW S, IsFiniteSet(S), S \subseteq Manifest, NEW c \in Manifest, c \notin S,
         NEW p, PolicyOK(p), NEW t \in Nat
  PROVE  Doomed(S, p, t) \subseteq Doomed(S \cup {c}, p, t)
<1>1. PICK T, E, F : T = S \cup {c} /\ E = Expendable(S, p, t) /\ F = Expendable(T, p, t)
  OBVIOUS
<1>2. IsFiniteSet(T) /\ T \subseteq Manifest /\ Cardinality(T) = Cardinality(S) + 1
  BY <1>1, FS_AddElement
<1>3. Kept(T, p) \subseteq Kept(S, p) \cup {c} /\ (c \notin Kept(T, p) => Kept(T, p) = Kept(S, p))
  BY <1>1, KeptWithOneMore
<1>4. /\ \A x \in S : x \in E <=> x \notin Kept(S, p) /\ \E days \in p.days : t > x.day + days
      /\ \A x \in T : x \in F <=> x \notin Kept(T, p) /\ \E days \in p.days : t > x.day + days
      /\ E \subseteq S /\ F \subseteq T
  BY <1>1 DEF Expendable
<1>5. E \subseteq F
  <2>1. ASSUME NEW x \in E PROVE x \in F
    <3>1. x \in S /\ x \in T /\ x # c
      BY <1>1, <1>4
    <3>2. x \notin Kept(T, p)
      BY <1>3, <1>4, <3>1
    <3> QED
      BY <1>4, <3>1, <3>2
  <2> QED
    BY <2>1
<1>6. ASSUME NEW x \in E, NEW y \in F, Newer(x, y), y # c PROVE y \in E
  <2>1. y \in S /\ x \in S
    BY <1>1, <1>4, <1>6
  <2>2. y \notin Kept(S, p)
    <3>1. y.id \notin p.protected
      BY <1>1, <1>4, <1>6, <2>1 DEF Kept
    <3>2. ASSUME y \in Newest(p.latest, S) PROVE FALSE
      <4>1. Cardinality(Above(y, S)) < p.latest
        BY <3>2 DEF Newest, Above
      <4>2. Above(x, S) \subseteq Above(y, S) /\ Above(y, S) \subseteq S
        BY <1>6, <2>1, NewerOrders DEF Above
      <4>3. /\ Cardinality(Above(x, S)) <= Cardinality(Above(y, S))
            /\ Cardinality(Above(x, S)) \in Nat /\ Cardinality(Above(y, S)) \in Nat
        <5>1. IsFiniteSet(Above(y, S)) /\ Cardinality(Above(y, S)) \in Nat
          BY <4>2, Counted
        <5> QED
          BY <4>2, <5>1, Counted
      <4>4. p.latest \in Nat
        BY DEF PolicyOK
      <4>5. Cardinality(Above(x, S)) < p.latest
        BY <4>1, <4>3, <4>4
      <4>6. x \in Kept(S, p)
        BY <2>1, <4>5 DEF Kept, Newest, Above
      <4> QED
        BY <1>4, <2>1, <4>6
    <3> QED
      BY <2>1, <3>1, <3>2 DEF Kept
  <2> QED
    BY <1>1, <1>4, <2>1, <2>2
<1>7. /\ Cardinality(Kept(S, p)) \in Nat /\ Cardinality(Kept(T, p)) \in Nat
      /\ Cardinality(S) \in Nat /\ p.minimum \in Nat
      /\ Budget(S, p) = IF Cardinality(S) > Least(S, p) THEN Cardinality(S) - Least(S, p) ELSE 0
      /\ Budget(T, p) = IF Cardinality(T) > Least(T, p) THEN Cardinality(T) - Least(T, p) ELSE 0
      /\ Least(S, p) \in Nat /\ Least(T, p) \in Nat
  BY <1>2, BudgetFacts DEF PolicyOK
<1>8. Cardinality(Kept(T, p)) <= Cardinality(Kept(S, p)) + 1
  <2>1. IsFiniteSet(Kept(S, p))
    BY BudgetFacts, Counted
  <2>2. /\ IsFiniteSet(Kept(S, p) \cup {c})
        /\ Cardinality(Kept(S, p) \cup {c}) <= Cardinality(Kept(S, p)) + 1
    BY <2>1, OneMoreCounted
  <2>3. Cardinality(Kept(T, p)) <= Cardinality(Kept(S, p) \cup {c})
    BY <1>3, <2>2, Counted
  <2>4. Cardinality(Kept(S, p) \cup {c}) \in Nat
    BY <2>2, FS_CardinalityType
  <2> QED
    BY <1>7, <2>2, <2>3, <2>4
<1>9. Least(T, p) <= Least(S, p) + 1
  BY <1>7, <1>8 DEF Least
<1>10. Budget(T, p) >= Budget(S, p) /\ Budget(S, p) \in Nat /\ Budget(T, p) \in Nat
  BY <1>2, <1>7, <1>9
<1>11. ASSUME c \in F, Budget(S, p) > 0 PROVE Budget(T, p) = Budget(S, p) + 1
  <2>1. c \notin Kept(T, p)
    BY <1>4, <1>11
  <2>2. Least(T, p) = Least(S, p)
    BY <1>3, <2>1 DEF Least
  <2> QED
    BY <1>2, <1>7, <1>11, <2>2
<1>12. ASSUME NEW x \in E, Cardinality(Below(x, E)) < Budget(S, p)
       PROVE  Cardinality(Below(x, F)) < Budget(T, p)
  <2>1. IsFiniteSet(E) /\ Cardinality(Below(x, E)) \in Nat /\ Cardinality(Below(x, F)) \in Nat
    BY <1>1, <1>2, DoomedBy
  <2>2. IsFiniteSet(Below(x, E))
    <3>1. Below(x, E) \subseteq E
      BY DEF Below
    <3> QED
      BY <2>1, <3>1, Counted
  <2>3. CASE c \in Below(x, F)
    <3>1. Below(x, F) \subseteq Below(x, E) \cup {c}
      BY <1>6 DEF Below
    <3>2. /\ IsFiniteSet(Below(x, E) \cup {c})
          /\ Cardinality(Below(x, E) \cup {c}) <= Cardinality(Below(x, E)) + 1
          /\ Cardinality(Below(x, E) \cup {c}) \in Nat
      BY <2>2, OneMoreCounted
    <3>3. Cardinality(Below(x, F)) <= Cardinality(Below(x, E) \cup {c})
      BY <3>1, <3>2, Counted
    <3>4. c \in F /\ Budget(S, p) > 0
      BY <1>10, <1>12, <2>1, <2>3 DEF Below
    <3>5. Budget(T, p) = Budget(S, p) + 1
      BY <1>11, <3>4
    <3> QED
      BY <1>10, <1>12, <2>1, <3>2, <3>3, <3>5
  <2>4. CASE c \notin Below(x, F)
    <3>1. Below(x, F) \subseteq Below(x, E)
      BY <1>6, <2>4 DEF Below
    <3>2. Cardinality(Below(x, F)) <= Cardinality(Below(x, E))
      BY <2>2, <3>1, Counted
    <3> QED
      BY <1>10, <1>12, <2>1, <3>2
  <2> QED
    BY <2>3, <2>4
<1> QED
  BY <1>1, <1>2, <1>5, <1>12, DoomedBy

(* What is deleted is off the list, and nothing else.                       *)
LEMMA DoomedWithOneLess ==
  ASSUME NEW S, IsFiniteSet(S), S \subseteq Manifest, NEW p, PolicyOK(p), NEW t \in Nat,
         NEW b \in Doomed(S, p, t)
  PROVE  Doomed(S \ {b}, p, t) = Doomed(S, p, t) \ {b}
<1>1. PICK T, E, F : T = S \ {b} /\ E = Expendable(S, p, t) /\ F = Expendable(T, p, t)
  OBVIOUS
<1>2. b \in E /\ E \subseteq S /\ IsFiniteSet(E) /\ Cardinality(Below(b, E)) < Budget(S, p)
  BY <1>1, DoomedBy
<1>3. /\ IsFiniteSet(T) /\ T \subseteq Manifest /\ b \in Manifest /\ b \notin T /\ S = T \cup {b}
      /\ Cardinality(T) = Cardinality(S) - 1
  BY <1>1, <1>2, FS_RemoveElement
<1>4. b \notin Kept(S, p)
  BY <1>1, <1>2 DEF Expendable
<1>5. Kept(T, p) = Kept(S, p)
  BY <1>3, <1>4, KeptWithOneMore
<1>6. F = E \ {b}
  BY <1>1, <1>5 DEF Expendable
<1>7. /\ Cardinality(S) \in Nat /\ Least(S, p) \in Nat
      /\ Budget(S, p) = IF Cardinality(S) > Least(S, p) THEN Cardinality(S) - Least(S, p) ELSE 0
      /\ Budget(T, p) = IF Cardinality(T) > Least(T, p) THEN Cardinality(T) - Least(T, p) ELSE 0
      /\ Cardinality(Below(b, E)) \in Nat
  BY <1>1, <1>3, BudgetFacts, DoomedBy
<1>8. Least(T, p) = Least(S, p)
  BY <1>5 DEF Least
<1>9. Budget(T, p) = Budget(S, p) - 1 /\ Budget(S, p) \in Nat
  BY <1>2, <1>3, <1>7, <1>8
<1>10. ASSUME NEW x \in E, x # b
       PROVE  Cardinality(Below(x, F)) < Budget(T, p) <=> Cardinality(Below(x, E)) < Budget(S, p)
  <2>1. Below(x, E) \subseteq E /\ Below(b, E) \subseteq E
    BY DEF Below
  <2>2. IsFiniteSet(Below(x, E)) /\ Cardinality(Below(x, E)) \in Nat /\ IsFiniteSet(Below(b, E))
    BY <1>2, <2>1, Counted
  <2>3. CASE Newer(x, b)
    <3>1. b \in Below(x, E) /\ Below(x, F) = Below(x, E) \ {b}
      BY <1>2, <1>6, <2>3 DEF Below
    <3>2. Cardinality(Below(x, F)) = Cardinality(Below(x, E)) - 1
      BY <2>2, <3>1, FS_RemoveElement
    <3> QED
      BY <1>9, <2>2, <3>2
  <2>4. CASE ~Newer(x, b)
    <3>1. Newer(b, x) /\ x \in Manifest
      BY <1>2, <1>3, <1>10, <2>4, NewerOrders
    <3>2. Below(x, F) = Below(x, E)
      BY <1>6, <2>4 DEF Below
    <3>3. Below(x, E) \cup {x} \subseteq Below(b, E) /\ x \notin Below(x, E)
      BY <1>2, <1>3, <3>1, NewerOrders DEF Below
    <3>4. Cardinality(Below(x, E) \cup {x}) = Cardinality(Below(x, E)) + 1
      BY <2>2, <3>3, FS_AddElement
    <3>5. Cardinality(Below(x, E) \cup {x}) <= Cardinality(Below(b, E))
      BY <2>2, <3>3, Counted
    <3> QED
      BY <1>2, <1>7, <1>9, <2>2, <3>2, <3>4, <3>5
  <2> QED
    BY <2>3, <2>4
<1>11. \A x : x \in Doomed(T, p, t) <=> x \in F /\ Cardinality(Below(x, F)) < Budget(T, p)
  BY <1>1, <1>3, DoomedBy
<1>12. \A x : x \in Doomed(S, p, t) <=> x \in E /\ Cardinality(Below(x, E)) < Budget(S, p)
  BY <1>1, DoomedBy
<1> QED
  BY <1>1, <1>6, <1>10, <1>11, <1>12

(* Nothing is kept, and nothing is to be deleted, at first.                 *)
LEMMA RetentionInitInv == RetentionInit => RetentionInv
<1> SUFFICES ASSUME RetentionInit PROVE RetentionInv
  OBVIOUS
<1>1. IsFiniteSet({}) /\ backups = {} /\ day = 0 /\ doomed = [w \in Sweepers |-> {}]
  BY FS_EmptySet DEF RetentionInit
<1>2. PolicyOK(policy)
  BY RetentionAssumption DEF RetentionInit, PolicyOK
<1>3. doomed \in [Sweepers -> SUBSET Manifest] /\ \A w \in Sweepers : doomed[w] = {}
  BY <1>1
<1> QED
  BY <1>1, <1>2, <1>3 DEF RetentionInv

(* One step of the store, the clock or a sweeper.                           *)
LEMMA RetentionNextInv == RetentionInv /\ [RetentionNext]_retentionVars => RetentionInv'
<1> SUFFICES ASSUME RetentionInv, [RetentionNext]_retentionVars PROVE RetentionInv'
  OBVIOUS
<1> USE DEF RetentionInv
<1>1. ASSUME NEW id \in BackupIds, NEW made \in 0 .. LastDay, Keep(id, made)
      PROVE  RetentionInv'
  <2>1. PICK c : c = [id |-> id, day |-> made]
    OBVIOUS
  <2>2. c \in Manifest /\ c.id = id
    BY <2>1, RetentionAssumption DEF Manifest
  <2>3. /\ backups' = backups \cup {c} /\ UNCHANGED <<day, policy, doomed>>
        /\ c \notin backups /\ \A w \in Sweepers : c \notin doomed[w]
    BY <1>1, <2>1, <2>2 DEF Keep
  <2>4. IsFiniteSet(backups') /\ backups' \subseteq Manifest
    BY <2>2, <2>3, FS_AddElement
  <2>5. Doomed(backups, policy, day) \subseteq Doomed(backups', policy, day)
    BY <2>2, <2>3, DoomedWithOneMore
  <2>6. ASSUME NEW w \in Sweepers PROVE doomed'[w] \cap backups' \subseteq Doomed(backups', policy', day')
    BY <2>3, <2>5
  <2> QED
    BY <2>3, <2>4, <2>6
<1>2. CASE DayPasses
  <2>1. day' = day + 1 /\ day' \in Nat /\ UNCHANGED <<backups, policy, doomed>>
    BY <1>2 DEF DayPasses
  <2>2. Doomed(backups, policy, day) \subseteq Doomed(backups, policy, day')
    BY <2>1, DoomedTheNextDay
  <2> QED
    BY <2>1, <2>2
<1>3. ASSUME NEW v \in Sweepers, Evaluate(v) PROVE RetentionInv'
  <2>1. doomed' = [doomed EXCEPT ![v] = Doomed(backups, policy, day)] /\ UNCHANGED <<backups, day, policy>>
    BY <1>3 DEF Evaluate
  <2>2. Doomed(backups, policy, day) \subseteq Manifest
    BY DoomedBy
  <2>3. doomed' \in [Sweepers -> SUBSET Manifest]
    BY <2>1, <2>2
  <2>4. ASSUME NEW w \in Sweepers PROVE doomed'[w] \cap backups' \subseteq Doomed(backups', policy', day')
    BY <2>1
  <2> QED
    BY <2>1, <2>3, <2>4
<1>4. ASSUME NEW v \in Sweepers, DeleteOne(v) PROVE RetentionInv'
  <2>1. PICK b \in doomed[v] : backups' = backups \ {b} /\ doomed' = [doomed EXCEPT ![v] = @ \ {b}]
    BY <1>4 DEF DeleteOne
  <2>2. UNCHANGED <<day, policy>>
    BY <1>4 DEF DeleteOne
  <2>3. IsFiniteSet(backups') /\ backups' \subseteq Manifest
    BY <2>1, FS_RemoveElement
  <2>4. doomed' \in [Sweepers -> SUBSET Manifest] /\ \A w \in Sweepers : doomed'[w] \subseteq doomed[w]
    BY <2>1
  <2>5. Doomed(backups, policy, day) \ {b} \subseteq Doomed(backups', policy, day)
    <3>1. CASE b \in backups
      <4>1. b \in Doomed(backups, policy, day)
        BY <2>1, <3>1
      <4> QED
        BY <2>1, <4>1, DoomedWithOneLess
    <3>2. CASE b \notin backups
      <4>1. backups' = backups
        BY <2>1, <3>2
      <4> QED
        BY <4>1
    <3> QED
      BY <3>1, <3>2
  <2>6. ASSUME NEW w \in Sweepers PROVE doomed'[w] \cap backups' \subseteq Doomed(backups', policy', day')
    <3>1. doomed'[w] \cap backups' \subseteq doomed[w] \cap backups
      BY <2>1, <2>4
    <3>2. b \notin backups'
      BY <2>1
    <3> QED
      BY <2>2, <2>5, <3>1, <3>2
  <2> QED
    BY <2>2, <2>3, <2>4, <2>6
<1>5. CASE UNCHANGED retentionVars
  BY <1>5 DEF retentionVars
<1> QED
  BY <1>1, <1>2, <1>3, <1>4, <1>5 DEF RetentionNext

(* Whatever a sweeper still has to delete, evaluating now would name too    *)
(* (evaluateRetentionPolicy): backups made or brought in, days that pass and*)
(* what others delete take nothing off the list but what is gone.           *)
THEOREM EvaluationsStayGood == RetentionSpec => []RetentionInv
<1> QED
  BY RetentionInitInv, RetentionNextInv, PTL DEF RetentionSpec

(* One deletion, whoever carries it out.                                    *)
LEMMA DeletionHolds ==
  ASSUME RetentionInv, [RetentionNext]_retentionVars, NEW b \in backups \ backups'
  PROVE  /\ Cardinality(backups') >= policy.minimum
         /\ b \notin Kept(backups, policy)
         /\ ((\A w \in Sweepers : doomed'[w] = {}) /\ \E w \in Sweepers : doomed[w] = Doomed(backups, policy, day)) =>
              Doomed(backups', policy, day) = {}
<1> USE DEF RetentionInv
<1>1. PICK v \in Sweepers : DeleteOne(v)
  BY DEF RetentionNext, Keep, DayPasses, Evaluate, retentionVars
<1>2. PICK c \in doomed[v] : backups' = backups \ {c} /\ doomed' = [doomed EXCEPT ![v] = @ \ {c}]
  BY <1>1 DEF DeleteOne
<1>3. c = b
  BY <1>2
<1>4. b \in doomed[v] /\ backups' = backups \ {b} /\ doomed' = [doomed EXCEPT ![v] = @ \ {b}]
  BY <1>2, <1>3
<1>5. b \in Doomed(backups, policy, day)
  BY <1>4
<1>6. /\ b \in Expendable(backups, policy, day)
      /\ Cardinality(Below(b, Expendable(backups, policy, day))) < Budget(backups, policy)
      /\ Cardinality(Below(b, Expendable(backups, policy, day))) \in Nat
  BY <1>5, DoomedBy
<1>7. b \notin Kept(backups, policy)
  BY <1>6 DEF Expendable
<1>8. Cardinality(backups') >= policy.minimum
  <2>1. /\ Cardinality(backups) \in Nat /\ Least(backups, policy) \in Nat
        /\ Least(backups, policy) >= policy.minimum
        /\ Budget(backups, policy) =
             IF Cardinality(backups) > Least(backups, policy) THEN Cardinality(backups) - Least(backups, policy) ELSE 0
    BY BudgetFacts
  <2>2. policy.minimum \in Nat
    BY DEF PolicyOK
  <2>3. Cardinality(backups) > Least(backups, policy)
    BY <1>6, <2>1
  <2>4. Cardinality(backups') = Cardinality(backups) - 1
    BY <1>4, FS_RemoveElement
  <2> QED
    BY <2>1, <2>2, <2>3, <2>4
<1>9. ASSUME \A w \in Sweepers : doomed'[w] = {}, NEW w \in Sweepers, doomed[w] = Doomed(backups, policy, day)
      PROVE  Doomed(backups', policy, day) = {}
  <2>1. w = v
    BY <1>4, <1>5, <1>9
  <2>2. doomed'[v] = doomed[v] \ {b}
    BY <1>4
  <2>3. Doomed(backups, policy, day) \ {b} = {}
    BY <1>9, <2>1, <2>2
  <2> QED
    BY <1>4, <1>5, <2>3, DoomedWithOneLess
<1> QED
  BY <1>7, <1>8, <1>9

(* RetentionHolds: a deletion leaves the minimum, the latest and the        *)
(* protected backups, however late it is and whoever else deletes; and when *)
(* all evaluations are carried out nothing is left to delete.               *)
THEOREM RetentionAlwaysHolds == RetentionSpec => RetentionHolds
<1>1. RetentionInv /\ [RetentionNext]_retentionVars =>
        [\A b \in backups \ backups' :
           /\ Cardinality(backups') >= policy.minimum
           /\ b \notin Kept(backups, policy)
           /\ ((\A w \in Sweepers : doomed'[w] = {}) /\ \E w \in Sweepers : doomed[w] = Doomed(backups, policy, day)) =>
                Doomed(backups', policy, day) = {}]_retentionVars
  BY DeletionHolds
<1> QED
  BY <1>1, EvaluationsStayGood, PTL DEF RetentionSpec, RetentionHolds

-----------------------------------------------------------------------------
(* COMPACTION (Compaction), whatever the ids and the sizes of ranges.       *)

(* A listing of events: each once, by rising sequence.                      *)
Sorts(s, S) ==
  /\ s \in Seq(S)
  /\ \A e \in S : \E i \in 1 .. Len(s) : s[i] = e
  /\ \A i, j \in 1 .. Len(s) : i < j => s[i].sequence < s[j].sequence

(* It is a finite sequence.                                                 *)
LEMMA SortsLength ==
  ASSUME NEW s, NEW S, Sorts(s, S)
  PROVE  s \in Seq(S) /\ Len(s) \in Nat
<1>1. s \in Seq(S)
  BY DEF Sorts
<1> QED
  BY <1>1

(* The order of the pass.                                                   *)
BySequence(S) == {p \in S \X S : p[1].sequence < p[2].sequence}

(* It orders the events that can be planned.                                *)
LEMMA SequencesOrder ==
  ASSUME NEW S \in SUBSET Stored, Plannable(S)
  PROVE  Orders(BySequence(S), S)
<1>1. \A e \in S : e.sequence \in Int
  BY DEF Stored
<1>2. \A e, f \in S : <<e, f>> \in BySequence(S) <=> e.sequence < f.sequence
  BY DEF BySequence
<1>3. \A e \in S : <<e, e>> \notin BySequence(S)
  BY <1>1, <1>2
<1>4. \A e, f \in S : e = f \/ <<e, f>> \in BySequence(S) \/ <<f, e>> \in BySequence(S)
  <2> SUFFICES ASSUME NEW e \in S, NEW f \in S, e # f
               PROVE  <<e, f>> \in BySequence(S) \/ <<f, e>> \in BySequence(S)
    OBVIOUS
  <2>1. e.sequence # f.sequence
    BY DEF Plannable
  <2> QED
    BY <1>1, <1>2, <2>1
<1>5. \A e, f, g \in S : <<e, f>> \in BySequence(S) /\ <<f, g>> \in BySequence(S)
                          => <<e, g>> \in BySequence(S)
  BY <1>1, <1>2
<1> QED
  BY <1>3, <1>4, <1>5 DEF Orders

(* The pass goes over a listing of the events.                              *)
LEMMA InOrderSorts ==
  ASSUME NEW S \in SUBSET Stored, IsFiniteSet(S), Plannable(S)
  PROVE  Sorts(InOrder(S), S) /\ Len(InOrder(S)) = Cardinality(S) /\ Cardinality(S) \in Nat
<1>1. PICK R : R = BySequence(S)
  OBVIOUS
<1>2. Orders(R, S)
  BY <1>1, SequencesOrder
<1>3. PICK s, n : s = SortedBy(S, R) /\ n = Cardinality(S)
  OBVIOUS
<1>4. /\ n \in Nat /\ s \in [1 .. n -> S]
      /\ \A e \in S : \E i \in 1 .. n : s[i] = e
      /\ \A i, j \in 1 .. n : i < j <=> <<s[i], s[j]>> \in R
  <2>1. IsSorting(s, n, S, R)
    BY <1>2, <1>3, SortedProperties
  <2> QED
    BY <2>1 DEF IsSorting
<1>5. s \in Seq(S) /\ Len(s) = n
  BY <1>4
<1>6. \A i, j \in 1 .. n : i < j => s[i].sequence < s[j].sequence
  BY <1>1, <1>4 DEF BySequence
<1>7. InOrder(S) = s
  BY <1>1, <1>3 DEF InOrder, BySequence
<1> QED
  BY <1>3, <1>4, <1>5, <1>6, <1>7 DEF Sorts

(* There is one such listing.                                               *)
LEMMA SortsUnique ==
  ASSUME NEW S \in SUBSET Stored, Plannable(S), NEW s, Sorts(s, S)
  PROVE  IsFiniteSet(S) /\ InOrder(S) = s
<1>1. PICK R : R = BySequence(S)
  OBVIOUS
<1>2. Orders(R, S)
  BY <1>1, SequencesOrder
<1>3. PICK n \in Nat : n = Len(s)
  BY SortsLength
<1>4. s \in [1 .. n -> S]
  BY <1>3 DEF Sorts
<1>5. \A i, j \in 1 .. n : i < j => <<s[i], s[j]>> \in R
  BY <1>1, <1>3, <1>4 DEF Sorts, BySequence
<1>6. \A e \in S : \E i \in 1 .. n : s[i] = e
  BY <1>3 DEF Sorts
<1>7. IsFiniteSet(S) /\ SortedBy(S, R) = s
  <2>1. ListsBy(s, n, S, R)
    BY <1>4, <1>5, <1>6 DEF ListsBy
  <2> QED
    BY <1>2, <2>1, SortedUnique
<1> QED
  BY <1>1, <1>7 DEF InOrder, BySequence

-----------------------------------------------------------------------------
(* Where the run of an event begins.                                        *)
BeginsRun(r, e, S) ==
  /\ r \in 1 .. e.sequence
  /\ \A m \in r .. e.sequence : \E f \in S : f.sequence = m
  /\ \A n \in 1 .. e.sequence :
       (\A m \in n .. e.sequence : \E f \in S : f.sequence = m) => r <= n

(* That is what the definition finds.                                       *)
LEMMA RunStartBegins ==
  ASSUME NEW S \in SUBSET Stored, NEW e \in S
  PROVE  BeginsRun(RunStart(e, S), e, S)
<1>1. PICK q \in Nat \ {0} : q = e.sequence
  BY CompactionAssumption DEF Stored
<1>2. PICK H : H = {n \in 1 .. e.sequence : \A m \in n .. e.sequence : \E f \in S : f.sequence = m}
  OBVIOUS
<1>3. q \in H
  BY <1>1, <1>2
<1>4. H \in SUBSET Nat
  BY <1>1, <1>2
<1>5. PICK r \in H : \A n \in H : r <= n
  BY <1>3, <1>4, LeastNumber
<1>6. RunStart(e, S) = Min(H)
  BY <1>2 DEF RunStart
<1>7. RunStart(e, S) \in H /\ \A n \in H : RunStart(e, S) <= n
  BY <1>5, <1>6 DEF Min
<1> QED
  BY <1>2, <1>7 DEF BeginsRun

(* The event after a run's is of the run; after a gap a run begins.         *)
LEMMA NextRunStart ==
  ASSUME NEW S \in SUBSET Stored, NEW e \in S
  PROVE  /\ \A f \in S : f.sequence = e.sequence + 1 => RunStart(f, S) = RunStart(e, S)
         /\ (\A g \in S : g.sequence # e.sequence - 1) => RunStart(e, S) = e.sequence
<1>1. PICK q \in Nat \ {0} : q = e.sequence
  BY CompactionAssumption DEF Stored
<1>2. PICK r : r = RunStart(e, S)
  OBVIOUS
<1>3. BeginsRun(r, e, S)
  BY <1>2, RunStartBegins
<1>4. ASSUME NEW f \in S, f.sequence = e.sequence + 1 PROVE RunStart(f, S) = r
  <2>1. PICK t : t = RunStart(f, S)
    OBVIOUS
  <2>2. BeginsRun(t, f, S)
    BY <2>1, RunStartBegins
  <2>3. r \in Int /\ t \in Int /\ r \in 1 .. q /\ t \in 1 .. q + 1
    BY <1>1, <1>3, <1>4, <2>2 DEF BeginsRun
  <2>4. \A m \in r .. q + 1 : \E g \in S : g.sequence = m
    <3> SUFFICES ASSUME NEW m \in r .. q + 1 PROVE \E g \in S : g.sequence = m
      OBVIOUS
    <3>1. CASE m \in r .. q
      BY <1>1, <1>3, <3>1 DEF BeginsRun
    <3>2. CASE m = q + 1
      BY <1>1, <1>4, <3>2
    <3> QED
      BY <2>3, <3>1, <3>2
  <2>5. t <= r
    BY <1>1, <1>4, <2>2, <2>3, <2>4 DEF BeginsRun
  <2>6. CASE t \in 1 .. q
    <3>1. \A m \in t .. q : \E g \in S : g.sequence = m
      <4>1. \A m \in t .. q : m \in t .. q + 1
        BY <1>1, <2>3
      <4> QED
        BY <1>1, <1>4, <2>2, <4>1 DEF BeginsRun
    <3>2. r <= t
      BY <1>1, <1>3, <2>6, <3>1 DEF BeginsRun
    <3> QED
      BY <2>1, <2>3, <2>5, <3>2
  <2> QED
    BY <1>1, <2>3, <2>5, <2>6
<1>5. ASSUME \A g \in S : g.sequence # q - 1 PROVE r = q
  <2>1. r \in 1 .. q
    BY <1>1, <1>3 DEF BeginsRun
  <2>2. r < q => q - 1 \in r .. q
    BY <1>1, <2>1
  <2>3. ~(r < q)
    BY <1>1, <1>3, <1>5, <2>2 DEF BeginsRun
  <2> QED
    BY <1>1, <2>1, <2>3
<1> QED
  BY <1>1, <1>2, <1>4, <1>5

-----------------------------------------------------------------------------
(* How many events a range holds when it ends with this one.                *)
Place(e, S, size) ==
  (e.sequence - RunStart(e, S)) - Block(e, S, size)[2] * size + 1

(* The next event of its block, and the first of a block.                   *)
Continues(e, before, S, size) ==
  /\ Block(e, S, size) = Block(before, S, size)
  /\ Place(e, S, size) = Place(before, S, size) + 1

(* It is of another block than those before it.                             *)
FirstOfBlock(s, k, S, size) ==
  /\ \A i \in 1 .. k - 1 : Block(s[i], S, size) # Block(s[k], S, size)
  /\ Place(s[k], S, size) = 1

(* A run starts at its event or before.                                     *)
LEMMA RunStartTyped ==
  ASSUME NEW S \in SUBSET Stored, NEW e \in S
  PROVE  e.sequence \in Nat /\ RunStart(e, S) \in Nat /\ RunStart(e, S) <= e.sequence
<1>1. e.sequence \in Nat
  BY CompactionAssumption DEF Stored
<1>2. RunStart(e, S) \in 1 .. e.sequence
  BY RunStartBegins DEF BeginsRun
<1> QED
  BY <1>1, <1>2

(* An event that none directly precedes is the first of its block.          *)
LEMMA GapStartsBlock ==
  ASSUME NEW S \in SUBSET Stored, NEW s, Sorts(s, S), NEW size \in Nat \ {0},
         NEW k \in 1 .. Len(s),
         k = 1 \/ s[k].sequence # s[k - 1].sequence + 1
  PROVE  FirstOfBlock(s, k, S, size)
<1>1. PICK n \in Nat : n = Len(s) /\ k \in 1 .. n
  <2>1. Len(s) \in Nat
    BY DEF Sorts
  <2> QED
    BY <2>1
<1>2. \A i \in 1 .. n : s[i] \in S /\ s[i].sequence \in Nat
  <2>1. \A i \in 1 .. n : s[i] \in S
    BY <1>1 DEF Sorts
  <2>2. \A e \in S : e.sequence \in Nat
    BY RunStartTyped
  <2> QED
    BY <2>1, <2>2
<1>3. \A i, j \in 1 .. n : i < j => s[i].sequence < s[j].sequence
  BY <1>1 DEF Sorts
<1>4. \A g \in S : g.sequence # s[k].sequence - 1
  <2> SUFFICES ASSUME NEW g \in S, g.sequence = s[k].sequence - 1 PROVE FALSE
    OBVIOUS
  <2>1. PICK i \in 1 .. n : s[i] = g
    BY <1>1 DEF Sorts
  <2>2. s[i].sequence = s[k].sequence - 1
    BY <2>1
  <2>3. ~(k < i) /\ i # k
    BY <1>1, <1>2, <1>3, <2>2
  <2>4. k # 1 /\ k - 1 \in 1 .. n
    BY <1>1, <2>3
  <2>5. s[k - 1].sequence < s[k].sequence /\ s[k].sequence # s[k - 1].sequence + 1
    BY <1>1, <1>3, <2>4
  <2>6. i < k - 1 => s[i].sequence < s[k - 1].sequence
    BY <1>3, <2>4
  <2>7. i = k - 1 \/ i < k - 1
    BY <1>1, <2>3
  <2> QED
    BY <1>1, <1>2, <2>2, <2>4, <2>5, <2>6, <2>7
<1>5. RunStart(s[k], S) = s[k].sequence
  BY <1>1, <1>2, <1>4, NextRunStart
<1>6. PICK q \in Nat : q = s[k].sequence
  BY <1>1, <1>2
<1>7. 0 \div size = 0
  <2>1. 0 * size = 0 /\ 0 + size = size
    OBVIOUS
  <2> QED
    BY <2>1, QuotientUnique
<1>8. Place(s[k], S, size) = 1
  <2>1. s[k].sequence - RunStart(s[k], S) = 0
    BY <1>5, <1>6
  <2>2. Block(s[k], S, size)[2] = 0
    BY <1>7, <2>1 DEF Block
  <2>3. 0 - 0 * size + 1 = 1
    OBVIOUS
  <2> QED
    BY <2>1, <2>2, <2>3 DEF Place
<1>9. ASSUME NEW i \in 1 .. k - 1 PROVE Block(s[i], S, size) # Block(s[k], S, size)
  <2>1. i \in 1 .. n /\ i < k
    BY <1>1
  <2>2. s[i] \in S /\ s[i].sequence < s[k].sequence
    BY <1>1, <1>2, <1>3, <2>1
  <2>3. RunStart(s[i], S) # RunStart(s[k], S)
    BY <1>2, <1>5, <1>6, <2>1, <2>2, RunStartTyped
  <2> QED
    BY <2>3 DEF Block
<1> QED
  BY <1>8, <1>9 DEF FirstOfBlock

(* The event that follows another directly is next in its block, or the     *)
(* first of the next one where the block is full.                           *)
LEMMA NextInBlock ==
  ASSUME NEW S \in SUBSET Stored, NEW s, Sorts(s, S), NEW size \in Nat \ {0},
         NEW k \in 1 .. Len(s), NEW j, j = k - 1, k # 1,
         s[k].sequence = s[j].sequence + 1
  PROVE  /\ Place(s[j], S, size) \in Nat
         /\ Place(s[j], S, size) >= size => FirstOfBlock(s, k, S, size)
         /\ Place(s[j], S, size) < size => Continues(s[k], s[j], S, size)
<1>1. PICK n \in Nat : n = Len(s) /\ k \in 1 .. n /\ j \in 1 .. n /\ j < k
  <2>1. PICK n \in Nat : n = Len(s)
    BY SortsLength
  <2>2. k \in 1 .. n /\ k - 1 \in 1 .. n /\ k - 1 < k
    BY <2>1
  <2> QED
    BY <2>1, <2>2
<1>2. \A i \in 1 .. n : s[i] \in S /\ s[i].sequence \in Nat
  <2>1. \A i \in 1 .. n : s[i] \in S
    BY <1>1 DEF Sorts
  <2>2. \A e \in S : e.sequence \in Nat
    BY RunStartTyped
  <2> QED
    BY <2>1, <2>2
<1>3. \A a, b \in 1 .. n : a < b => s[a].sequence < s[b].sequence
  BY <1>1 DEF Sorts
<1>4. PICK r, q : r = RunStart(s[j], S) /\ q = s[j].sequence
  OBVIOUS
<1>5. r \in Nat /\ q \in Nat /\ r <= q
  BY <1>1, <1>2, <1>4, RunStartTyped
<1>6. RunStart(s[k], S) = r /\ s[k].sequence = q + 1
  BY <1>1, <1>2, <1>4, NextRunStart
<1>7. PICK d \in Nat : d = q - r
  BY <1>5
<1>8. PICK b \in Nat : b = d \div size /\ b * size <= d /\ d < b * size + size
  BY Quotient
<1>9. b * size \in Nat
  BY <1>8
<1>10. Block(s[j], S, size) = <<r, b>> /\ Place(s[j], S, size) = d - b * size + 1
  BY <1>4, <1>7, <1>8 DEF Block, Place
<1>11. (q + 1) - r = d + 1
  BY <1>5, <1>7
<1>12. Block(s[k], S, size) = <<r, (d + 1) \div size>>
  BY <1>6, <1>11 DEF Block
<1>13. Place(s[k], S, size) = (d + 1) - ((d + 1) \div size) * size + 1
  BY <1>6, <1>11, <1>12 DEF Place
<1>14. Place(s[j], S, size) \in Nat
  <2>1. \A c \in Nat : c <= d => d - c + 1 \in Nat
    BY <1>7
  <2> QED
    BY <1>8, <1>9, <1>10, <2>1
<1>15. ASSUME Place(s[j], S, size) < size
       PROVE  Continues(s[k], s[j], S, size)
  <2>1. d + 1 < b * size + size
    BY <1>9, <1>10, <1>15
  <2>2. (d + 1) \div size = b
    BY <1>8, <2>1, NextQuotient
  <2>3. Place(s[k], S, size) = (d + 1) - b * size + 1
    BY <1>13, <2>2
  <2> QED
    BY <1>9, <1>10, <1>12, <2>2, <2>3 DEF Continues
<1>16. ASSUME Place(s[j], S, size) >= size PROVE FirstOfBlock(s, k, S, size)
  <2>1. d + 1 >= b * size + size
    BY <1>9, <1>10, <1>16
  <2>2. (d + 1) \div size = b + 1 /\ ((d + 1) \div size) * size = d + 1
    BY <1>8, <2>1, NextQuotient
  <2>3. Place(s[k], S, size) = 1
    BY <1>13, <2>2
  <2>4. ASSUME NEW i \in 1 .. k - 1, Block(s[i], S, size) = Block(s[k], S, size) PROVE FALSE
    <3>1. i \in 1 .. n /\ (i = j \/ i < j)
      BY <1>1
    <3>2. s[i] \in S /\ s[i].sequence <= q
      BY <1>1, <1>2, <1>3, <1>4, <3>1
    <3>3. RunStart(s[i], S) = r /\ (s[i].sequence - RunStart(s[i], S)) \div size = b + 1
      BY <1>12, <2>2, <2>4 DEF Block
    <3>4. PICK p \in Nat : p = s[i].sequence - r /\ p <= d
      <4>1. s[i].sequence \in Nat /\ r <= s[i].sequence
        BY <3>2, <3>3, RunStartTyped
      <4> QED
        BY <1>5, <1>7, <3>2, <4>1
    <3>5. p \div size <= d \div size
      BY <3>4, QuotientRises
    <3> QED
      BY <1>8, <3>3, <3>4, <3>5
  <2> QED
    BY <2>3, <2>4 DEF FirstOfBlock
<1> QED
  BY <1>14, <1>15, <1>16

-----------------------------------------------------------------------------
(* A range of the pass, among the first k events: consecutive events of one *)
(* block.                                                                   *)
Piece(range, k, s, S, size) ==
  /\ range \in Seq(S) /\ Len(range) >= 1
  /\ \A p \in 1 .. Len(range) : /\ \E i \in 1 .. k : range[p] = s[i]
                                /\ Block(range[p], S, size) = Block(range[1], S, size)
  /\ \A p \in 1 .. Len(range) - 1 : range[p + 1].sequence = range[p].sequence + 1

(* Every event so far is in a range, and the ranges are of different        *)
(* blocks.                                                                  *)
Covered(rs, k, s) ==
  \A i \in 1 .. k : \E m \in 1 .. Len(rs) : \E p \in 1 .. Len(rs[m]) : rs[m][p] = s[i]

(* No two ranges are of one block.                                          *)
BlocksDiffer(rs, S, size) ==
  \A m, l \in 1 .. Len(rs) : m # l => Block(rs[m][1], S, size) # Block(rs[l][1], S, size)

(* What the pass has made of the first k events.                            *)
Cut(rs, k, s, S, size) ==
  /\ rs \in Seq(Seq(S))
  /\ \A m \in 1 .. Len(rs) : Piece(rs[m], k, s, S, size)
  /\ Covered(rs, k, s)
  /\ BlocksDiffer(rs, S, size)
  /\ Len(rs) = 0 <=> k = 0
  /\ k > 0 => /\ Last(Last(rs)) = s[k]
              /\ Len(Last(rs)) = Place(s[k], S, size)

(* A range of an event that begins its block.                               *)
LEMMA PieceBegins ==
  ASSUME NEW S, NEW s \in Seq(S), NEW k \in 1 .. Len(s), NEW size
  PROVE  Piece(<<s[k]>>, k, s, S, size)
<1>1. s[k] \in S
  OBVIOUS
<1>2. PICK range : range = <<s[k]>>
  OBVIOUS
<1>3. range \in Seq(S) /\ Len(range) = 1 /\ range[1] = s[k]
  BY <1>1, <1>2
<1>4. k \in 1 .. k
  OBVIOUS
<1>5. Piece(range, k, s, S, size)
  BY <1>3, <1>4 DEF Piece
<1> QED
  BY <1>2, <1>5

(* What is a range among the first events stays one.                        *)
LEMMA PieceStays ==
  ASSUME NEW S, NEW s, NEW k \in Nat, NEW size, NEW range, Piece(range, k - 1, s, S, size)
  PROVE  Piece(range, k, s, S, size)
<1>1. \A i \in 1 .. k - 1 : i \in 1 .. k
  OBVIOUS
<1>2. ASSUME NEW p \in 1 .. Len(range)
      PROVE  /\ \E i \in 1 .. k : range[p] = s[i]
             /\ Block(range[p], S, size) = Block(range[1], S, size)
  <2>1. PICK i \in 1 .. k - 1 : range[p] = s[i]
    BY DEF Piece
  <2> QED
    BY <1>1, <2>1 DEF Piece
<1> QED
  BY <1>2 DEF Piece

(* The next event of the block in the range.                                *)
LEMMA PieceGrows ==
  ASSUME NEW S, NEW s \in Seq(S), NEW k \in 1 .. Len(s), NEW size,
         NEW range, Piece(range, k - 1, s, S, size), NEW l, l = Last(range),
         s[k].sequence = l.sequence + 1, Block(s[k], S, size) = Block(l, S, size)
  PROVE  /\ Piece(Append(range, s[k]), k, s, S, size)
         /\ Append(range, s[k])[1] = range[1]
         /\ Last(Append(range, s[k])) = s[k] /\ Len(Append(range, s[k])) = Len(range) + 1
<1>1. s[k] \in S /\ range \in Seq(S)
  BY DEF Piece
<1>2. PICK n \in Nat \ {0} : n = Len(range)
  BY DEF Piece
<1>3. PICK new : new = Append(range, s[k])
  OBVIOUS
<1>4. /\ new \in Seq(S) /\ Len(new) = n + 1 /\ new[n + 1] = s[k]
      /\ \A p \in 1 .. n : new[p] = range[p]
  BY <1>1, <1>2, <1>3, AppendProperties
<1>5. l = range[n] /\ new[1] = range[1] /\ Last(new) = s[k]
  BY <1>2, <1>4 DEF Last
<1>6. Block(l, S, size) = Block(range[1], S, size)
  BY <1>2, <1>5 DEF Piece
<1>7. ASSUME NEW p \in 1 .. n + 1
      PROVE  /\ \E i \in 1 .. k : new[p] = s[i]
             /\ Block(new[p], S, size) = Block(new[1], S, size)
  <2>1. CASE p \in 1 .. n
    <3>1. PICK i \in 1 .. k - 1 : range[p] = s[i]
      BY <1>2, <2>1 DEF Piece
    <3>2. i \in 1 .. k
      OBVIOUS
    <3>3. Block(range[p], S, size) = Block(range[1], S, size)
      BY <1>2, <2>1 DEF Piece
    <3> QED
      BY <1>4, <1>5, <2>1, <3>1, <3>2, <3>3
  <2>2. CASE p = n + 1
    <3>1. k \in 1 .. k /\ new[p] = s[k]
      BY <1>4, <2>2
    <3> QED
      BY <1>5, <1>6, <3>1
  <2> QED
    BY <2>1, <2>2
<1>8. ASSUME NEW p \in 1 .. n PROVE new[p + 1].sequence = new[p].sequence + 1
  <2>1. CASE p = n
    BY <1>4, <1>5, <2>1
  <2>2. CASE p \in 1 .. n - 1
    <3>1. p + 1 \in 1 .. n /\ range[p + 1].sequence = range[p].sequence + 1
      BY <1>2, <2>2 DEF Piece
    <3> QED
      BY <1>4, <3>1
  <2> QED
    BY <2>1, <2>2
<1>9. Piece(new, k, s, S, size)
  BY <1>4, <1>7, <1>8 DEF Piece
<1> QED
  BY <1>2, <1>3, <1>4, <1>5, <1>9

(* A range that begins with an event that is the first of its block.        *)
LEMMA CutAnew ==
  ASSUME NEW S, NEW s \in Seq(S), NEW size, NEW k \in 1 .. Len(s), NEW rs,
         Cut(rs, k - 1, s, S, size), FirstOfBlock(s, k, S, size)
  PROVE  Cut(Append(rs, <<s[k]>>), k, s, S, size)
<1>1. s[k] \in S /\ k \in Nat
  OBVIOUS
<1>2. PICK n \in Nat : n = Len(rs)
  BY DEF Cut
<1>3. PICK one, new : one = <<s[k]>> /\ new = Append(rs, one)
  OBVIOUS
<1>4. one \in Seq(S) /\ Len(one) = 1 /\ one[1] = s[k] /\ Last(one) = s[k]
  BY <1>1, <1>3 DEF Last
<1>5. rs \in Seq(Seq(S))
  BY DEF Cut
<1>6. /\ new \in Seq(Seq(S)) /\ Len(new) = n + 1 /\ new[n + 1] = one
      /\ \A m \in 1 .. n : new[m] = rs[m]
  BY <1>2, <1>3, <1>4, <1>5, AppendProperties
<1>7. \A m \in 1 .. n + 1 : m \in 1 .. n \/ m = n + 1
  OBVIOUS
<1>8. \A m \in 1 .. n : Piece(rs[m], k - 1, s, S, size)
  BY <1>2 DEF Cut
<1>9. \A m \in 1 .. n + 1 : Piece(new[m], k, s, S, size)
  <2>1. Piece(one, k, s, S, size)
    BY <1>3, PieceBegins
  <2>2. \A m \in 1 .. n : Piece(rs[m], k, s, S, size)
    BY <1>1, <1>8, PieceStays
  <2> QED
    BY <1>6, <1>7, <2>1, <2>2
<1>10. Covered(new, k, s)
  <2> SUFFICES ASSUME NEW i \in 1 .. k
               PROVE  \E m \in 1 .. n + 1 : \E p \in 1 .. Len(new[m]) : new[m][p] = s[i]
    BY <1>6 DEF Covered
  <2>1. CASE i = k
    <3>1. n + 1 \in 1 .. n + 1 /\ new[n + 1] = one
      BY <1>6
    <3>2. 1 \in 1 .. Len(one) /\ one[1] = s[i]
      BY <1>4, <2>1
    <3> QED
      BY <3>1, <3>2
  <2>2. CASE i \in 1 .. k - 1
    <3>1. PICK m \in 1 .. n : \E p \in 1 .. Len(rs[m]) : rs[m][p] = s[i]
      BY <1>2, <2>2 DEF Cut, Covered
    <3>2. m \in 1 .. n + 1 /\ new[m] = rs[m]
      BY <1>6
    <3> QED
      BY <3>1, <3>2
  <2> QED
    BY <2>1, <2>2
<1>11. BlocksDiffer(new, S, size)
  <2>1. ASSUME NEW m \in 1 .. n PROVE Block(rs[m][1], S, size) # Block(s[k], S, size)
    <3>1. PICK i \in 1 .. k - 1 : rs[m][1] = s[i]
      <4>1. Piece(rs[m], k - 1, s, S, size)
        BY <1>8
      <4>2. 1 \in 1 .. Len(rs[m])
        BY <4>1 DEF Piece
      <4> QED
        BY <4>1, <4>2 DEF Piece
    <3> QED
      BY <3>1 DEF FirstOfBlock
  <2>2. \A m, l \in 1 .. n : m # l => Block(rs[m][1], S, size) # Block(rs[l][1], S, size)
    BY <1>2 DEF Cut, BlocksDiffer
  <2> SUFFICES ASSUME NEW m \in 1 .. n + 1, NEW l \in 1 .. n + 1, m # l
               PROVE  Block(new[m][1], S, size) # Block(new[l][1], S, size)
    BY <1>6 DEF BlocksDiffer
  <2>3. CASE m \in 1 .. n /\ l \in 1 .. n
    BY <1>6, <2>2, <2>3
  <2>4. CASE m \in 1 .. n /\ l = n + 1
    BY <1>4, <1>6, <2>1, <2>4
  <2>5. CASE m = n + 1 /\ l \in 1 .. n
    BY <1>4, <1>6, <2>1, <2>5
  <2> QED
    BY <1>7, <2>3, <2>4, <2>5
<1>12. Last(new) = one /\ Last(Last(new)) = s[k] /\ Len(Last(new)) = Place(s[k], S, size)
  BY <1>4, <1>6 DEF Last, FirstOfBlock
<1>13. Cut(new, k, s, S, size)
  BY <1>1, <1>6, <1>9, <1>10, <1>11, <1>12 DEF Cut
<1> QED
  BY <1>3, <1>13

(* The last range takes the next event of its block.                        *)
LEMMA CutOn ==
  ASSUME NEW S, NEW s \in Seq(S), NEW size, NEW k \in 1 .. Len(s), NEW j, j = k - 1, k # 1,
         NEW rs, Cut(rs, j, s, S, size), s[k].sequence = s[j].sequence + 1,
         Block(s[k], S, size) = Block(s[j], S, size),
         Place(s[k], S, size) = Place(s[j], S, size) + 1
  PROVE  Cut([rs EXCEPT ![Len(rs)] = Append(@, s[k])], k, s, S, size)
<1>1. s[k] \in S /\ k \in Nat /\ j \in Nat /\ j > 0
  OBVIOUS
<1>2. PICK n \in Nat \ {0} : n = Len(rs)
  BY <1>1 DEF Cut
<1>3. PICK range, longer, new : /\ range = rs[n] /\ longer = Append(range, s[k])
                                /\ new = [rs EXCEPT ![n] = longer]
  OBVIOUS
<1>4. \A m \in 1 .. n : Piece(rs[m], j, s, S, size)
  BY <1>2 DEF Cut
<1>5. range = Last(rs) /\ Last(range) = s[j] /\ Len(range) = Place(s[j], S, size)
  BY <1>1, <1>2, <1>3 DEF Cut, Last
<1>6. Piece(range, j, s, S, size)
  BY <1>3, <1>4
<1>7. /\ Piece(longer, k, s, S, size) /\ longer[1] = range[1]
      /\ Last(longer) = s[k] /\ Len(longer) = Len(range) + 1
  BY <1>3, <1>5, <1>6, PieceGrows
<1>8. longer \in Seq(S) /\ rs \in Seq(Seq(S))
  BY <1>7 DEF Cut, Piece
<1>9. /\ new \in Seq(Seq(S)) /\ Len(new) = n /\ new[n] = longer
      /\ \A m \in 1 .. n : m # n => new[m] = rs[m]
  BY <1>2, <1>3, <1>8
<1>10. \A m \in 1 .. n : Piece(new[m], k, s, S, size)
  <2>1. \A m \in 1 .. n : Piece(rs[m], k, s, S, size)
    BY <1>1, <1>4, PieceStays
  <2> QED
    BY <1>7, <1>9, <2>1
<1>11. \A m \in 1 .. n : new[m][1] = rs[m][1]
  BY <1>3, <1>7, <1>9
<1>12. Covered(new, k, s)
  <2>1. PICK len \in Nat \ {0} : len = Len(range)
    BY <1>6 DEF Piece
  <2>2. range \in Seq(S)
    BY <1>6 DEF Piece
  <2>3. Len(longer) = len + 1 /\ longer[len + 1] = s[k] /\ \A p \in 1 .. len : longer[p] = range[p]
    BY <1>1, <1>3, <2>1, <2>2, AppendProperties
  <2> SUFFICES ASSUME NEW i \in 1 .. k
               PROVE  \E m \in 1 .. n : \E p \in 1 .. Len(new[m]) : new[m][p] = s[i]
    BY <1>9 DEF Covered
  <2>4. CASE i = k
    <3>1. n \in 1 .. n /\ len + 1 \in 1 .. Len(new[n]) /\ new[n][len + 1] = s[i]
      BY <1>9, <2>3, <2>4
    <3> QED
      BY <3>1
  <2>5. CASE i \in 1 .. j
    <3>1. PICK m \in 1 .. n : \E p \in 1 .. Len(rs[m]) : rs[m][p] = s[i]
      BY <1>2, <2>5 DEF Cut, Covered
    <3>2. CASE m # n
      BY <1>9, <3>1, <3>2
    <3>3. CASE m = n
      <4>1. PICK p \in 1 .. len : range[p] = s[i]
        BY <1>3, <2>1, <3>1, <3>3
      <4>2. p \in 1 .. Len(new[m]) /\ new[m][p] = s[i]
        BY <1>9, <2>3, <3>3, <4>1
      <4> QED
        BY <4>2
    <3> QED
      BY <3>2, <3>3
  <2> QED
    BY <2>4, <2>5
<1>13. BlocksDiffer(new, S, size)
  BY <1>2, <1>9, <1>11 DEF BlocksDiffer, Cut
<1>14. Last(new) = longer /\ Len(longer) = Place(s[k], S, size)
  BY <1>5, <1>7, <1>9 DEF Last
<1>15. Cut(new, k, s, S, size)
  BY <1>1, <1>7, <1>9, <1>10, <1>12, <1>13, <1>14 DEF Cut
<1> QED
  BY <1>2, <1>3, <1>8, <1>15

(* Where an event begins a range is what its block says.                    *)
LEMMA CutExtended ==
  ASSUME NEW S \in SUBSET Stored, NEW s, Sorts(s, S), NEW size \in Nat \ {0},
         NEW k \in 1 .. Len(s), NEW rs, Cut(rs, k - 1, s, S, size)
  PROVE  Cut(Extended(rs, s[k], size), k, s, S, size)
<1>1. s \in Seq(S) /\ k \in Nat \ {0}
  BY DEF Sorts
<1>2. PICK j \in Nat : j = k - 1
  BY <1>1
<1>3. rs = <<>> <=> k = 1
  <2>1. rs \in Seq(Seq(S)) /\ (Len(rs) = 0 <=> j = 0)
    BY <1>2 DEF Cut
  <2> QED
    BY <1>1, <1>2, <2>1
<1>4. ASSUME FirstOfBlock(s, k, S, size) PROVE Cut(Append(rs, <<s[k]>>), k, s, S, size)
  BY <1>1, <1>4, CutAnew
<1>5. CASE k = 1
  <2>1. FirstOfBlock(s, k, S, size)
    BY <1>5, GapStartsBlock
  <2> QED
    BY <1>3, <1>4, <1>5, <2>1 DEF Extended
<1>6. CASE k # 1
  <2>1. Last(Last(rs)) = s[j] /\ Len(Last(rs)) = Place(s[j], S, size)
    BY <1>1, <1>2, <1>6 DEF Cut
  <2>2. StartsNewRange(Last(rs), s[k], size) <=>
          s[k].sequence # s[j].sequence + 1 \/ Place(s[j], S, size) >= size
    BY <2>1 DEF StartsNewRange
  <2>3. CASE s[k].sequence # s[j].sequence + 1
    <3>1. FirstOfBlock(s, k, S, size)
      BY <1>2, <2>3, GapStartsBlock
    <3> QED
      BY <1>4, <2>2, <2>3, <3>1 DEF Extended
  <2>4. CASE s[k].sequence = s[j].sequence + 1
    <3>1. Place(s[j], S, size) \in Nat
      BY <1>2, <1>6, <2>4, NextInBlock
    <3>2. CASE Place(s[j], S, size) >= size
      <4>1. FirstOfBlock(s, k, S, size)
        BY <1>2, <1>6, <2>4, <3>2, NextInBlock
      <4> QED
        BY <1>4, <2>2, <3>2, <4>1 DEF Extended
    <3>3. CASE Place(s[j], S, size) < size
      <4>1. Continues(s[k], s[j], S, size)
        BY <1>2, <1>6, <2>4, <3>3, NextInBlock
      <4>2. Cut(rs, j, s, S, size)
        BY <1>2
      <4>3. Cut([rs EXCEPT ![Len(rs)] = Append(@, s[k])], k, s, S, size)
        BY <1>1, <1>2, <1>6, <2>4, <4>1, <4>2, CutOn DEF Continues
      <4>4. ~(Place(s[j], S, size) >= size)
        BY <3>1, <3>3
      <4> QED
        BY <1>3, <1>6, <2>2, <2>4, <4>3, <4>4 DEF Extended
    <3> QED
      BY <3>1, <3>2, <3>3
  <2> QED
    BY <2>3, <2>4
<1> QED
  BY <1>5, <1>6

(* One step of the pass makes sequences of sequences of them.               *)
LEMMA ExtendedTyped ==
  ASSUME NEW S, NEW rs \in Seq(Seq(S)), NEW e \in S, NEW size
  PROVE  Extended(rs, e, size) \in Seq(Seq(S))
<1>1. <<e>> \in Seq(S)
  OBVIOUS
<1>2. Append(rs, <<e>>) \in Seq(Seq(S))
  BY <1>1, AppendProperties
<1>3. ASSUME rs # <<>> PROVE [rs EXCEPT ![Len(rs)] = Append(@, e)] \in Seq(Seq(S))
  <2>1. Len(rs) \in 1 .. Len(rs)
    BY <1>3
  <2>2. rs[Len(rs)] \in Seq(S)
    BY <2>1
  <2>3. PICK longer : longer = Append(rs[Len(rs)], e)
    OBVIOUS
  <2>4. longer \in Seq(S)
    BY <2>2, <2>3, AppendProperties
  <2>5. [rs EXCEPT ![Len(rs)] = longer] \in Seq(Seq(S))
    BY <2>1, <2>4
  <2> QED
    BY <2>3, <2>5
<1> QED
  BY <1>2, <1>3 DEF Extended

(* The pass ends with all the events cut by their blocks.                   *)
LEMMA RangesCut ==
  ASSUME NEW S \in SUBSET Stored, IsFiniteSet(S), Plannable(S), NEW size \in Nat \ {0}
  PROVE  Cut(Ranges(S, size), Cardinality(S), InOrder(S), S, size)
<1>1. PICK s, N : s = InOrder(S) /\ N = Cardinality(S)
  OBVIOUS
<1>2. Sorts(s, S) /\ Len(s) = N /\ N \in Nat /\ s \in Seq(S)
  BY <1>1, InOrderSorts DEF Sorts
<1>3. PICK V : V = Seq(Seq(S))
  OBVIOUS
<1>4. PICK D : D = (1 .. N) \X V
  OBVIOUS
<1>5. PICK step : step = [p \in D |-> Extended(p[2], s[p[1]], size)]
  OBVIOUS
<1>6. step \in [D -> V]
  <2> SUFFICES ASSUME NEW p \in D PROVE Extended(p[2], s[p[1]], size) \in V
    BY <1>5
  <2>1. p[1] \in 1 .. Len(s) /\ p[2] \in Seq(Seq(S))
    BY <1>2, <1>3, <1>4
  <2>2. s[p[1]] \in S
    BY <1>2, <2>1
  <2> QED
    BY <1>3, <2>1, <2>2, ExtendedTyped
<1>7. <<>> \in V
  BY <1>3
<1>8. PICK f \in [0 .. N -> V] : f[0] = <<>> /\ \A n \in 1 .. N : f[n] = step[<<n, f[n - 1]>>]
  <2>1. PICK base \in V : base = <<>>
    BY <1>7
  <2>2. \E f \in [0 .. N -> V] : Iterates(f, N, base, step)
    BY <1>2, <1>4, <1>6, RecursionExists
  <2> QED
    BY <2>1, <2>2 DEF Iterates
<1>9. ASSUME NEW n \in 1 .. N PROVE f[n] = Extended(f[n - 1], s[n], size)
  <2>1. n - 1 \in 0 .. N
    BY <1>2
  <2>2. <<n, f[n - 1]>> \in D
    BY <1>4, <1>8, <2>1
  <2> QED
    BY <1>5, <1>8, <2>2
<1>10. f = [n \in 0 .. N |-> IF n = 0 THEN <<>> ELSE Extended(f[n - 1], s[n], size)]
  <2>1. \A n \in 0 .. N : n = 0 \/ n \in 1 .. N
    BY <1>2
  <2> QED
    BY <1>8, <1>9, <2>1
<1>11. PICK pass : /\ pass = [n \in 0 .. N |-> IF n = 0 THEN <<>>
                                              ELSE Extended(pass[n - 1], s[n], size)]
                   /\ Ranges(S, size) = pass[N]
  <2>1. \E g : g = [n \in 0 .. Cardinality(S) |->
                      IF n = 0 THEN <<>> ELSE Extended(g[n - 1], InOrder(S)[n], size)]
    BY <1>1, <1>10
  <2>2. PICK g : /\ g = [n \in 0 .. Cardinality(S) |->
                      IF n = 0 THEN <<>> ELSE Extended(g[n - 1], InOrder(S)[n], size)]
                 /\ Ranges(S, size) = g[Cardinality(S)]
    BY <2>1 DEF Ranges
  <2> QED
    BY <1>1, <2>2
<1>12. \A n \in 1 .. N : pass[n] = Extended(pass[n - 1], s[n], size)
  BY <1>2, <1>11
<1>13. PICK T : T = {n \in 0 .. N : Cut(pass[n], n, s, S, size)}
  OBVIOUS
<1>14. 0 \in T
  <2>1. pass[0] = <<>>
    BY <1>2, <1>11
  <2>2. <<>> \in Seq(Seq(S)) /\ Len(<<>>) = 0
    OBVIOUS
  <2>3. Cut(<<>>, 0, s, S, size)
    BY <2>2 DEF Cut, Covered, BlocksDiffer
  <2> QED
    BY <1>2, <1>13, <2>1, <2>3
<1>15. ASSUME NEW n \in 1 .. N, n - 1 \in T PROVE n \in T
  <2>1. Cut(pass[n - 1], n - 1, s, S, size)
    BY <1>13, <1>15
  <2>2. PICK k \in 1 .. Len(s) : k = n
    BY <1>2
  <2>3. Cut(Extended(pass[n - 1], s[k], size), k, s, S, size)
    BY <1>2, <2>1, <2>2, CutExtended
  <2>4. Cut(pass[n], n, s, S, size)
    BY <1>12, <2>2, <2>3
  <2> QED
    BY <1>2, <1>13, <2>4
<1>16. N \in T
  BY <1>2, <1>14, <1>15, UpToInduction, SMTT(30)
<1> QED
  BY <1>1, <1>11, <1>13, <1>16

-----------------------------------------------------------------------------
(* A range of consecutive events of S that is all of a block.               *)
BlockRange(range, S, size) ==
  /\ range \in Seq(S) /\ Len(range) >= 1
  /\ \A p \in 1 .. Len(range) - 1 : range[p + 1].sequence = range[p].sequence + 1
  /\ ToSet(range) = {f \in S : Block(f, S, size) = Block(range[1], S, size)}

(* The ranges of a plan are the blocks, each of them.                       *)
LEMMA RangesAreBlocks ==
  ASSUME NEW S \in SUBSET Stored, IsFiniteSet(S), Plannable(S), NEW size \in Nat \ {0},
         NEW all, all = ToSet(Ranges(S, size))
  PROVE  /\ \A range \in all : BlockRange(range, S, size)
         /\ \A e \in S : \E range \in all : Block(e, S, size) = Block(range[1], S, size)
<1>1. PICK rs, s, N : rs = Ranges(S, size) /\ s = InOrder(S) /\ N = Cardinality(S)
  OBVIOUS
<1>2. Cut(rs, N, s, S, size)
  BY <1>1, RangesCut
<1>3. Sorts(s, S) /\ Len(s) = N /\ N \in Nat
  BY <1>1, InOrderSorts
<1>4. PICK n \in Nat : n = Len(rs) /\ rs \in Seq(Seq(S))
  BY <1>2 DEF Cut
<1>5. all = {rs[m] : m \in 1 .. n}
  BY <1>1, <1>4 DEF ToSet
<1>6. \A m \in 1 .. n : Piece(rs[m], N, s, S, size)
  BY <1>2, <1>4 DEF Cut
<1>7. \A e \in S : \E m \in 1 .. n : \E p \in 1 .. Len(rs[m]) : rs[m][p] = e
  <2> SUFFICES ASSUME NEW e \in S
               PROVE  \E m \in 1 .. n : \E p \in 1 .. Len(rs[m]) : rs[m][p] = e
    OBVIOUS
  <2>1. PICK i \in 1 .. N : s[i] = e
    BY <1>3 DEF Sorts
  <2> QED
    BY <1>2, <1>4, <2>1 DEF Cut, Covered
<1>8. \A m \in 1 .. n : \A p \in 1 .. Len(rs[m]) :
        rs[m][p] \in S /\ Block(rs[m][p], S, size) = Block(rs[m][1], S, size)
  <2> SUFFICES ASSUME NEW m \in 1 .. n, NEW p \in 1 .. Len(rs[m])
               PROVE  rs[m][p] \in S /\ Block(rs[m][p], S, size) = Block(rs[m][1], S, size)
    OBVIOUS
  <2>1. Piece(rs[m], N, s, S, size)
    BY <1>6
  <2> QED
    BY <2>1 DEF Piece
<1>9. ASSUME NEW m \in 1 .. n PROVE BlockRange(rs[m], S, size)
  <2>1. PICK range : range = rs[m]
    OBVIOUS
  <2>2. Piece(range, N, s, S, size)
    BY <1>6, <2>1
  <2>3. ToSet(range) = {range[p] : p \in 1 .. Len(range)}
    BY <2>2 DEF ToSet, Piece
  <2>4. \A f \in ToSet(range) : f \in S /\ Block(f, S, size) = Block(range[1], S, size)
    BY <1>8, <2>1, <2>3
  <2>5. ASSUME NEW f \in S, Block(f, S, size) = Block(range[1], S, size) PROVE f \in ToSet(range)
    <3>1. PICK l \in 1 .. n : \E p \in 1 .. Len(rs[l]) : rs[l][p] = f
      BY <1>7
    <3>2. PICK p \in 1 .. Len(rs[l]) : rs[l][p] = f
      BY <3>1
    <3>3. Block(rs[l][1], S, size) = Block(rs[m][1], S, size)
      BY <1>8, <2>1, <2>5, <3>2
    <3>4. l = m
      BY <1>2, <1>4, <3>3 DEF Cut, BlocksDiffer
    <3> QED
      BY <2>1, <2>3, <3>2, <3>4
  <2>6. ToSet(range) = {f \in S : Block(f, S, size) = Block(range[1], S, size)}
    BY <2>4, <2>5
  <2>7. BlockRange(range, S, size)
    BY <2>2, <2>6 DEF Piece, BlockRange
  <2> QED
    BY <2>1, <2>7
<1>10. \A range \in all : BlockRange(range, S, size)
  BY <1>5, <1>9
<1>11. ASSUME NEW e \in S PROVE \E range \in all : Block(e, S, size) = Block(range[1], S, size)
  <2>1. PICK m \in 1 .. n : \E p \in 1 .. Len(rs[m]) : rs[m][p] = e
    BY <1>7
  <2>2. Block(e, S, size) = Block(rs[m][1], S, size) /\ rs[m] \in all
    BY <1>5, <1>8, <2>1
  <2> QED
    BY <2>2
<1> QED
  BY <1>10, <1>11

(* A range is a listing of its events.                                      *)
LEMMA BlockRangeSorts ==
  ASSUME NEW S \in SUBSET Stored, NEW size, NEW range, BlockRange(range, S, size)
  PROVE  Sorts(range, ToSet(range)) /\ ToSet(range) \in SUBSET S /\ ToSet(range) # {}
<1>1. PICK n \in Nat \ {0} : n = Len(range)
  BY DEF BlockRange
<1>2. range \in Seq(S)
  BY DEF BlockRange
<1>3. PICK all : all = ToSet(range)
  OBVIOUS
<1>4. all = {range[p] : p \in 1 .. n}
  BY <1>1, <1>2, <1>3 DEF ToSet
<1>5. range \in Seq(all)
  BY <1>1, <1>2, <1>4
<1>6. \A p \in 1 .. n : range[p] \in S /\ range[p].sequence \in Int
  <2>1. \A p \in 1 .. n : range[p] \in S
    BY <1>1, <1>2
  <2>2. \A e \in S : e.sequence \in Int
    BY DEF Stored
  <2> QED
    BY <2>1, <2>2
<1>7. \A p \in 1 .. n - 1 : range[p + 1].sequence = range[p].sequence + 1
  BY <1>1 DEF BlockRange
<1>8. ASSUME NEW i \in 1 .. n PROVE \A j \in 1 .. n : i < j => range[i].sequence < range[j].sequence
  <2>1. PICK T : T = {d \in 0 .. n : \A j \in 1 .. n : j = i + d /\ d > 0 => range[i].sequence < range[j].sequence}
    OBVIOUS
  <2>2. 0 \in T
    BY <1>1, <2>1
  <2>3. ASSUME NEW d \in 1 .. n, d - 1 \in T PROVE d \in T
    <3> SUFFICES ASSUME NEW j \in 1 .. n, j = i + d PROVE range[i].sequence < range[j].sequence
      BY <1>1, <2>1
    <3>1. j - 1 \in 1 .. n - 1 /\ j - 1 \in 1 .. n /\ j - 1 = i + (d - 1) /\ (j - 1) + 1 = j
      BY <1>1
    <3>2. range[j].sequence = range[j - 1].sequence + 1
      BY <1>7, <3>1
    <3>3. CASE d = 1
      <4>1. j - 1 = i
        BY <3>1, <3>3
      <4> QED
        BY <1>6, <3>2, <4>1
    <3>4. CASE d - 1 > 0
      <4>1. range[i].sequence < range[j - 1].sequence
        BY <2>1, <2>3, <3>1, <3>4
      <4> QED
        BY <1>6, <3>1, <3>2, <4>1
    <3> QED
      BY <1>1, <3>3, <3>4
  <2>4. \A d \in 0 .. n : d \in T
    BY <1>1, <2>2, <2>3, UpToInduction
  <2> SUFFICES ASSUME NEW j \in 1 .. n, i < j PROVE range[i].sequence < range[j].sequence
    OBVIOUS
  <2>5. j - i \in 0 .. n /\ j - i > 0 /\ j = i + (j - i)
    BY <1>1
  <2> QED
    BY <2>1, <2>4, <2>5
<1>9. Sorts(range, all)
  BY <1>1, <1>4, <1>5, <1>8 DEF Sorts
<1>10. 1 \in 1 .. n /\ \A e \in all : e \in S
  BY <1>1, <1>4, <1>6
<1> QED
  BY <1>3, <1>4, <1>9, <1>10

-----------------------------------------------------------------------------
(* The stream can be planned, and is finite; a checkpoint that was kept is  *)
(* that of the events it was made from.                                     *)
StreamInv == stream \in SUBSET Stored /\ IsFiniteSet(stream) /\ Plannable(stream)

(* A checkpoint that was kept.                                              *)
KeptAsMade(c) ==
  /\ c.from \in SUBSET Stored /\ c.from # {} /\ IsFiniteSet(c.from) /\ Plannable(c.from)
  /\ c.made = Checkpoint(InOrder(c.from))

(* The inductive invariant.                                                 *)
CompactionInv == StreamInv /\ \A c \in checkpoints : KeptAsMade(c)

(* It holds of an empty stream.                                             *)
LEMMA CompactionInvInit == CompactionInit => CompactionInv
<1> SUFFICES ASSUME CompactionInit PROVE CompactionInv
  OBVIOUS
<1>1. IsFiniteSet({})
  BY FS_EmptySet
<1> QED
  BY <1>1 DEF CompactionInit, CompactionInv, StreamInv, Plannable

(* Some of the events that can be planned can be planned.                   *)
LEMMA PlannableSubset ==
  ASSUME NEW S, Plannable(S), IsFiniteSet(S), NEW T \in SUBSET S
  PROVE  Plannable(T) /\ IsFiniteSet(T)
BY FS_Subset DEF Plannable

(* Late arrivals, losses and new checkpoints keep it.                       *)
LEMMA CompactionInvStep == CompactionInv /\ [CompactionNext]_compactionVars => CompactionInv'
<1> SUFFICES ASSUME CompactionInv, [CompactionNext]_compactionVars PROVE CompactionInv'
  OBVIOUS
<1>1. StreamInv /\ \A c \in checkpoints : KeptAsMade(c)
  BY DEF CompactionInv
<1>2. ASSUME UNCHANGED checkpoints, StreamInv' PROVE CompactionInv'
  BY <1>1, <1>2 DEF CompactionInv, KeptAsMade
<1>3. ASSUME UNCHANGED stream, NEW c, checkpoints' = {c}, KeptAsMade(c) PROVE CompactionInv'
  <2>1. StreamInv'
    BY <1>1, <1>3 DEF StreamInv
  <2>2. (\A d \in checkpoints : KeptAsMade(d))'
    BY <1>3
  <2> QED
    BY <2>1, <2>2 DEF CompactionInv
<1>4. ASSUME NEW e \in Stored, Arrive(e) PROVE CompactionInv'
  <2>1. IsFiniteSet(stream \cup {e})
    BY <1>1, FS_AddElement DEF StreamInv
  <2> QED
    BY <1>1, <1>2, <1>4, <2>1 DEF Arrive, StreamInv
<1>5. ASSUME NEW e \in Stored, Vanish(e) PROVE CompactionInv'
  <2>1. Plannable(stream \ {e}) /\ IsFiniteSet(stream \ {e})
    BY <1>1, PlannableSubset DEF StreamInv
  <2> QED
    BY <1>1, <1>2, <1>5, <2>1 DEF Vanish, StreamInv
<1>6. ASSUME NEW size \in RangeSizes, NEW through, KeepFromPlan(size, through)
      PROVE  CompactionInv'
  <2>1. PICK range \in Candidates(stream, size, through) :
          checkpoints' = {[made |-> Checkpoint(range), from |-> ToSet(range)]}
    BY <1>6 DEF KeepFromPlan
  <2>2. size \in Nat \ {0}
    BY CompactionAssumption
  <2>3. BlockRange(range, stream, size)
    BY <1>1, <2>1, <2>2, RangesAreBlocks DEF Candidates, StreamInv
  <2>4. PICK all : all = ToSet(range)
    OBVIOUS
  <2>5. Sorts(range, all) /\ all \in SUBSET stream /\ all # {}
    BY <1>1, <2>3, <2>4, BlockRangeSorts DEF StreamInv
  <2>6. all \in SUBSET Stored /\ Plannable(all) /\ IsFiniteSet(all)
    BY <1>1, <2>5, PlannableSubset DEF StreamInv
  <2>7. InOrder(all) = range
    BY <2>5, <2>6, SortsUnique
  <2>8. KeptAsMade([made |-> Checkpoint(range), from |-> all])
    BY <2>5, <2>6, <2>7 DEF KeptAsMade
  <2>9. UNCHANGED stream
    BY <1>6 DEF KeepFromPlan
  <2> QED
    BY <1>3, <2>1, <2>4, <2>8, <2>9
<1>7. ASSUME NEW e \in Stored, KeepOfPrefix(e) PROVE CompactionInv'
  <2>1. PICK prefix : prefix = Through(stream, e.sequence)
    OBVIOUS
  <2>2. /\ e \in stream /\ UNCHANGED stream
        /\ checkpoints' = {[made |-> Checkpoint(InOrder(prefix)), from |-> prefix]}
    BY <1>7, <2>1 DEF KeepOfPrefix
  <2>3. e.sequence \in Int
    BY DEF Stored
  <2>4. prefix \in SUBSET stream /\ e \in prefix
    BY <2>1, <2>2, <2>3 DEF Through
  <2>5. Plannable(prefix) /\ IsFiniteSet(prefix) /\ prefix \in SUBSET Stored
    BY <1>1, <2>4, PlannableSubset DEF StreamInv
  <2>6. KeptAsMade([made |-> Checkpoint(InOrder(prefix)), from |-> prefix])
    BY <2>4, <2>5 DEF KeptAsMade
  <2> QED
    BY <1>3, <2>2, <2>6
<1>8. CASE UNCHANGED compactionVars
  BY <1>1, <1>2, <1>8 DEF compactionVars, StreamInv
<1> QED
  BY <1>4, <1>5, <1>6, <1>7, <1>8 DEF CompactionNext

(* Whatever arrives or is lost, a checkpoint stays that of the events it    *)
(* was made from, and the stream can be planned.                            *)
THEOREM CheckpointsStayOfTheirEvents == CompactionSpec => []CompactionInv
<1> QED
  BY CompactionInvInit, CompactionInvStep, PTL DEF CompactionSpec

-----------------------------------------------------------------------------
(* What a plan compacts are the ids of its checkpoints.                     *)
LEMMA CompactedIds ==
  ASSUME NEW S \in SUBSET Stored, IsFiniteSet(S), Plannable(S), NEW size \in Nat \ {0}, NEW through
  PROVE  {e.id : e \in S \ Plan(S, size, through).retained}
           = UNION {ToSet(c.ids) : c \in Plan(S, size, through).checkpoints}
<1>1. PICK chosen : chosen = Candidates(S, size, through)
  OBVIOUS
<1>2. PICK all : all = ToSet(Ranges(S, size))
  OBVIOUS
<1>3. chosen \subseteq all
  BY <1>1, <1>2 DEF Candidates
<1>4. ASSUME NEW range \in chosen
      PROVE  ToSet(range) \in SUBSET S /\ ToSet(Checkpoint(range).ids) = {e.id : e \in ToSet(range)}
  <2>1. BlockRange(range, S, size)
    BY <1>2, <1>3, <1>4, RangesAreBlocks
  <2>2. ToSet(range) \in SUBSET S
    BY <2>1, BlockRangeSorts
  <2>3. ToSet(IdsOf(range)) = {range[i].id : i \in DOMAIN range}
    BY DEF ToSet, IdsOf
  <2> QED
    BY <2>2, <2>3 DEF ToSet, Checkpoint
<1>5. /\ Plan(S, size, through).retained = {e \in S : \A range \in chosen : e \notin ToSet(range)}
      /\ Plan(S, size, through).checkpoints = {Checkpoint(range) : range \in chosen}
  BY <1>1 DEF Plan
<1>6. PICK left, right : /\ left = {e.id : e \in S \ Plan(S, size, through).retained}
                         /\ right = UNION {ToSet(c.ids) : c \in Plan(S, size, through).checkpoints}
  OBVIOUS
<1>7. \A id : id \in left <=> \E e \in S : e.id = id /\ \E range \in chosen : e \in ToSet(range)
  BY <1>5, <1>6
<1>8. \A id : id \in right <=> \E range \in chosen : id \in ToSet(Checkpoint(range).ids)
  BY <1>5, <1>6
<1>9. \A id : id \in right <=> \E range \in chosen : \E e \in ToSet(range) : e.id = id
  <2>1. \A range \in chosen : \A id :
          id \in ToSet(Checkpoint(range).ids) <=> \E e \in ToSet(range) : e.id = id
    BY <1>4
  <2> QED
    BY <1>8, <2>1
<1>10. \A id : id \in left <=> id \in right
  BY <1>4, <1>7, <1>9
<1> QED
  BY <1>6, <1>10

(* The ranges are the blocks; what they compact is what the checkpoints     *)
(* name.                                                                    *)
LEMMA PlanCuts ==
  ASSUME StreamInv
  PROVE  PlansCutTheRuns
<1> SUFFICES ASSUME NEW size \in RangeSizes
             PROVE  /\ {ToSet(range) : range \in ToSet(Ranges(stream, size))}
                         = {{f \in stream : Block(f, stream, size) = Block(e, stream, size)} : e \in stream}
                    /\ {e.id : e \in stream \ Plan(stream, size, MaxEvent).retained}
                         = UNION {ToSet(c.ids) : c \in Plan(stream, size, MaxEvent).checkpoints}
  BY DEF PlansCutTheRuns
<1>1. size \in Nat \ {0}
  BY CompactionAssumption
<1>2. PICK all : all = ToSet(Ranges(stream, size))
  OBVIOUS
<1>3. /\ \A range \in all : BlockRange(range, stream, size)
      /\ \A e \in stream : \E range \in all : Block(e, stream, size) = Block(range[1], stream, size)
  BY <1>1, <1>2, RangesAreBlocks DEF StreamInv
<1>4. ASSUME NEW range \in all
      PROVE  range[1] \in stream /\ ToSet(range)
               = {f \in stream : Block(f, stream, size) = Block(range[1], stream, size)}
  BY <1>3 DEF BlockRange
<1>5. {ToSet(range) : range \in all}
        = {{f \in stream : Block(f, stream, size) = Block(e, stream, size)} : e \in stream}
  <2>1. PICK blocks : blocks
          = {{f \in stream : Block(f, stream, size) = Block(e, stream, size)} : e \in stream}
    OBVIOUS
  <2>2. \A range \in all : ToSet(range) \in blocks
    BY <1>4, <2>1
  <2>3. ASSUME NEW e \in stream
        PROVE  \E range \in all : ToSet(range)
                 = {f \in stream : Block(f, stream, size) = Block(e, stream, size)}
    <3>1. PICK range \in all : Block(e, stream, size) = Block(range[1], stream, size)
      BY <1>3
    <3> QED
      BY <1>4, <3>1
  <2> QED
    BY <2>1, <2>2, <2>3
<1> QED
  BY <1>1, <1>2, <1>5, CompactedIds DEF StreamInv

(* In every stream that late arrivals and losses leave, a plan cuts the     *)
(* runs of consecutive events every size events, and says of each event     *)
(* whether it is compacted: createStreamSequencePlan with                   *)
(* createDryRunCompactionPlan.                                              *)
THEOREM PlansAlwaysCutTheRuns == CompactionSpec => []PlansCutTheRuns
<1>1. CompactionInv => PlansCutTheRuns
  BY PlanCuts DEF CompactionInv
<1> QED
  BY <1>1, CheckpointsStayOfTheirEvents, PTL

-----------------------------------------------------------------------------
(* Without a gap the sequences count down from the last.                    *)
LEMMA NoGapCounts ==
  ASSUME NEW S \in SUBSET Stored, NEW s, Sorts(s, S), ~HasGap(S)
  PROVE  \A i \in 1 .. Len(s) : s[i].sequence = s[Len(s)].sequence - (Len(s) - i)
<1>1. PICK n \in Nat : n = Len(s)
  BY SortsLength
<1>2. \A i \in 1 .. n : s[i] \in S /\ s[i].sequence \in Int
  <2>1. \A i \in 1 .. n : s[i] \in S
    BY <1>1 DEF Sorts
  <2>2. \A e \in S : e.sequence \in Int
    BY DEF Stored
  <2> QED
    BY <2>1, <2>2
<1>3. \A i, j \in 1 .. n : i < j => s[i].sequence < s[j].sequence
  BY <1>1 DEF Sorts
<1>4. ASSUME NEW i \in 1 .. n - 1 PROVE s[i + 1].sequence = s[i].sequence + 1
  <2>1. i \in 1 .. n /\ i + 1 \in 1 .. n /\ i < i + 1
    BY <1>1
  <2>2. s[i].sequence < s[i + 1].sequence
    BY <1>3, <2>1
  <2>3. ASSUME s[i].sequence + 1 < s[i + 1].sequence PROVE FALSE
    <3>1. PICK g \in S : g.sequence \in (s[i].sequence + 1) .. (s[i + 1].sequence - 1)
      BY <1>2, <2>1, <2>3 DEF HasGap
    <3>2. PICK j \in 1 .. n : s[j] = g
      BY <1>1 DEF Sorts
    <3>3. s[i].sequence < s[j].sequence /\ s[j].sequence < s[i + 1].sequence
      BY <1>2, <2>1, <3>1, <3>2
    <3>4. ~(j < i) /\ j # i /\ j # i + 1 /\ ~(i + 1 < j)
      BY <1>2, <1>3, <2>1, <3>3
    <3> QED
      BY <2>1, <3>4
  <2> QED
    BY <1>2, <2>1, <2>2, <2>3
<1>5. PICK T : T = {d \in 0 .. n : d < n => s[n - d].sequence = s[n].sequence - d}
  OBVIOUS
<1>6. 0 \in T
  <2>1. 0 < n => n \in 1 .. n /\ n - 0 = n
    BY <1>1
  <2>2. 0 < n => s[n].sequence = s[n].sequence - 0
    BY <1>2, <2>1
  <2> QED
    BY <1>1, <1>5, <2>1, <2>2
<1>7. ASSUME NEW d \in 1 .. n, d - 1 \in T PROVE d \in T
  <2> SUFFICES ASSUME d < n PROVE s[n - d].sequence = s[n].sequence - d
    BY <1>1, <1>5
  <2>1. /\ n - d \in 1 .. n - 1 /\ n - d \in 1 .. n /\ n \in 1 .. n
        /\ (n - d) + 1 = n - (d - 1) /\ d - 1 < n
    BY <1>1
  <2>2. s[n - (d - 1)].sequence = s[n].sequence - (d - 1)
    BY <1>5, <1>7, <2>1
  <2>3. s[n - (d - 1)].sequence = s[n - d].sequence + 1
    BY <1>4, <2>1
  <2> QED
    BY <1>2, <2>1, <2>2, <2>3
<1>8. \A d \in 0 .. n : d \in T
  BY <1>1, <1>6, <1>7, UpToInduction
<1>9. ASSUME NEW i \in 1 .. n PROVE s[i].sequence = s[n].sequence - (n - i)
  <2>1. n - i \in 0 .. n /\ n - i < n /\ n - (n - i) = i
    BY <1>1
  <2> QED
    BY <1>5, <1>8, <2>1
<1> QED
  BY <1>1, <1>9

(* Events without a gap are told by the last sequence and the ids.          *)
LEMMA SameCheckpointSameEvents ==
  ASSUME NEW A \in SUBSET Stored, IsFiniteSet(A), Plannable(A), A # {}, ~HasGap(A),
         NEW B \in SUBSET Stored, IsFiniteSet(B), Plannable(B), ~HasGap(B),
         Last(InOrder(A)).sequence = Last(InOrder(B)).sequence,
         IdsOf(InOrder(A)) = IdsOf(InOrder(B))
  PROVE  A = B
<1>1. PICK a, b : a = InOrder(A) /\ b = InOrder(B)
  OBVIOUS
<1>2. Sorts(a, A) /\ Sorts(b, B)
  BY <1>1, InOrderSorts
<1>3. PICK n \in Nat : n = Len(a) /\ DOMAIN a = 1 .. n
  BY <1>2 DEF Sorts
<1>4. DOMAIN IdsOf(a) = DOMAIN a /\ DOMAIN IdsOf(b) = DOMAIN b
  BY DEF IdsOf
<1>5. Len(b) = n /\ DOMAIN b = 1 .. n
  <2>1. PICK m \in Nat : m = Len(b) /\ DOMAIN b = 1 .. m
    BY <1>2 DEF Sorts
  <2>2. 1 .. m = 1 .. n
    BY <1>1, <1>3, <1>4, <2>1
  <2>3. ~(m < n) /\ ~(n < m)
    <3>1. m < n => n \in 1 .. n /\ n \notin 1 .. m
      OBVIOUS
    <3>2. n < m => m \in 1 .. m /\ m \notin 1 .. n
      OBVIOUS
    <3> QED
      BY <2>2, <3>1, <3>2
  <2> QED
    BY <2>1, <2>3
<1>6. ASSUME NEW i \in 1 .. n PROVE a[i] = b[i]
  <2>1. a[i] \in Stored /\ b[i] \in Stored
    BY <1>2, <1>3, <1>5 DEF Sorts
  <2>2. a[i].id = b[i].id
    <3>1. IdsOf(a)[i] = a[i].id /\ IdsOf(b)[i] = b[i].id
      BY <1>3, <1>5 DEF IdsOf
    <3> QED
      BY <1>1, <3>1
  <2>3. a[n].sequence = b[n].sequence
    BY <1>1, <1>3, <1>5 DEF Last
  <2>4. a[i].sequence = a[n].sequence - (n - i)
    BY <1>2, <1>3, NoGapCounts
  <2>5. b[i].sequence = b[n].sequence - (n - i)
    BY <1>2, <1>5, NoGapCounts
  <2> QED
    BY <2>1, <2>2, <2>3, <2>4, <2>5 DEF Stored
<1>7. A = {a[i] : i \in 1 .. n} /\ B = {b[i] : i \in 1 .. n}
  BY <1>2, <1>3, <1>5 DEF Sorts
<1> QED
  BY <1>6, <1>7

(* Up to an event of a stream without a gap there is none.                  *)
LEMMA NoGapThrough ==
  ASSUME NEW S \in SUBSET Stored, ~HasGap(S), NEW top \in Int
  PROVE  ~HasGap(Through(S, top))
<1> SUFFICES ASSUME NEW e \in Through(S, top), NEW f \in Through(S, top),
                    e.sequence + 1 < f.sequence,
                    \A g \in Through(S, top) :
                      g.sequence \notin (e.sequence + 1) .. (f.sequence - 1)
             PROVE  FALSE
  BY DEF HasGap
<1>1. e \in S /\ f \in S /\ f.sequence <= top
  BY DEF Through
<1>2. \A g \in S : g.sequence \in Int
  BY DEF Stored
<1>3. PICK g \in S : g.sequence \in (e.sequence + 1) .. (f.sequence - 1)
  BY <1>1 DEF HasGap
<1>4. g \in Through(S, top)
  BY <1>1, <1>2, <1>3 DEF Through
<1> QED
  BY <1>3, <1>4

(* A checkpoint made without a gap verifies exactly while the stream has    *)
(* none and its events up to it are the same: verifyCheckpointReplay.       *)
THEOREM CheckpointsAlwaysVouch == CompactionSpec => []CheckpointsVouchForTheirPrefix
<1>1. ASSUME CompactionInv PROVE CheckpointsVouchForTheirPrefix
  <2> SUFFICES ASSUME NEW c \in checkpoints, ~HasGap(c.from)
               PROVE  Verifies(c.made, stream) =
                        (~HasGap(stream) /\ Through(stream, c.made.sequence) = c.from)
    BY DEF CheckpointsVouchForTheirPrefix
  <2>1. KeptAsMade(c) /\ StreamInv
    BY <1>1 DEF CompactionInv
  <2>2. PICK F, top, ids : /\ F = c.from /\ top = Last(InOrder(F)).sequence
                           /\ ids = IdsOf(InOrder(F))
    OBVIOUS
  <2>3. F \in SUBSET Stored /\ F # {} /\ IsFiniteSet(F) /\ Plannable(F) /\ ~HasGap(F)
    BY <2>1, <2>2 DEF KeptAsMade
  <2>4. c.made.sequence = top /\ c.made.ids = ids
    BY <2>1, <2>2 DEF KeptAsMade, Checkpoint
  <2>5. top \in Int
    <3>1. PICK s : s = InOrder(F)
      OBVIOUS
    <3>2. Sorts(s, F)
      BY <2>3, <3>1, InOrderSorts
    <3>3. Last(s) \in F
      BY <2>3, <3>2 DEF Sorts, Last
    <3> QED
      BY <2>2, <2>3, <3>1, <3>3 DEF Stored
  <2>6. PICK B : B = Through(stream, top)
    OBVIOUS
  <2>7. B \in SUBSET Stored /\ IsFiniteSet(B) /\ Plannable(B)
    <3>1. B \in SUBSET stream
      BY <2>6 DEF Through
    <3> QED
      BY <2>1, <3>1, PlannableSubset DEF StreamInv
  <2>8. Verifies(c.made, stream) <=> /\ ~HasGap(stream) /\ B # {}
                                     /\ Last(InOrder(B)).sequence = top
                                     /\ IdsOf(InOrder(B)) = ids
    BY <2>4, <2>6 DEF Verifies
  <2>9. ASSUME Verifies(c.made, stream) PROVE B = F
    <3>1. ~HasGap(B)
      BY <2>1, <2>5, <2>6, <2>8, <2>9, NoGapThrough DEF StreamInv
    <3> QED
      BY <2>2, <2>3, <2>7, <2>8, <2>9, <3>1, SameCheckpointSameEvents
  <2>10. ASSUME ~HasGap(stream), B = F PROVE Verifies(c.made, stream)
    BY <2>2, <2>3, <2>8, <2>10
  <2>11. Verifies(c.made, stream) <=> ~HasGap(stream) /\ B = F
    BY <2>8, <2>9, <2>10
  <2>12. Verifies(c.made, stream) \in BOOLEAN
    BY DEF Verifies
  <2> QED
    BY <2>2, <2>4, <2>6, <2>11, <2>12
<1> QED
  BY <1>1, CheckpointsStayOfTheirEvents, PTL

-----------------------------------------------------------------------------
(* MIGRATIONS (Migrations), whatever the registry grows to.                 *)

(* The metadata of a workspace.                                             *)
Metadata == [version : Versions, effects : [StepIds -> Nat]]

(* The registry is one of the code, with each step's id once.               *)
RegistryOK ==
  /\ registry \in SUBSET Steps
  /\ \A s, t \in registry : s.id = t.id => s = t

(* A guarded step has taken effect once at most, a step that no release     *)
(* brought not at all.                                                      *)
EffectsOK(m) ==
  /\ \A s \in registry : s.guarded => m.effects[s.id] <= 1
  /\ \A id \in StepIds : (\A s \in registry : s.id # id) => m.effects[id] = 0

(* The inductive invariant.                                                 *)
MigrationsInv == RegistryOK /\ metadata \in Metadata /\ EffectsOK(metadata)

(* What a step of the registry is.                                          *)
LEMMA StepTyped ==
  ASSUME NEW s \in Steps
  PROVE  /\ s.id \in StepIds /\ s.from \in Versions /\ s.to \in Versions /\ s.from < s.to
         /\ s.from \in Nat \ {0} /\ s.to \in Nat \ {0} /\ s.to <= LastVersion
         /\ LastVersion \in Nat
<1>1. s.id \in StepIds /\ s.from \in Versions /\ s.to \in Versions /\ s.from < s.to
  BY DEF Steps
<1> QED
  BY <1>1, MigrationsAssumption DEF Versions

(* One step of a run, on the metadata.                                      *)
LEMMA TakenEffects ==
  ASSUME RegistryOK, NEW s \in registry, NEW m \in Metadata, EffectsOK(m)
  PROVE  /\ Taken(s, m) \in Metadata /\ EffectsOK(Taken(s, m)) /\ Taken(s, m).version = s.to
         /\ Taken(s, m).effects[s.id] > 0
         /\ \A id \in StepIds : m.effects[id] > 0 => Taken(s, m).effects[id] > 0
<1>1. s \in Steps
  BY DEF RegistryOK
<1>2. s.id \in StepIds /\ s.to \in Versions
  BY <1>1, StepTyped
<1>3. PICK e : e = m.effects
  OBVIOUS
<1>4. e \in [StepIds -> Nat] /\ m.version \in Versions
  BY <1>3 DEF Metadata
<1>5. CASE AlreadyApplied(s, m)
  <2>1. Taken(s, m) = [m EXCEPT !.version = s.to]
    BY <1>5 DEF Taken
  <2>2. Taken(s, m) \in Metadata /\ Taken(s, m).version = s.to /\ Taken(s, m).effects = e
    BY <1>2, <1>3, <2>1 DEF Metadata
  <2>3. e[s.id] > 0
    BY <1>3, <1>5 DEF AlreadyApplied
  <2> QED
    BY <1>3, <2>2, <2>3 DEF EffectsOK
<1>6. CASE ~AlreadyApplied(s, m)
  <2>1. PICK f : f = [e EXCEPT ![s.id] = @ + 1]
    OBVIOUS
  <2>2. Taken(s, m) = [version |-> s.to, effects |-> f]
    BY <1>3, <1>6, <2>1 DEF Taken
  <2>3. f \in [StepIds -> Nat] /\ f[s.id] = e[s.id] + 1 /\ \A id \in StepIds : id # s.id => f[id] = e[id]
    BY <1>2, <1>4, <2>1
  <2>4. Taken(s, m) \in Metadata /\ Taken(s, m).version = s.to /\ Taken(s, m).effects = f
    BY <1>2, <2>2, <2>3 DEF Metadata
  <2>5. e[s.id] \in Nat
    BY <1>2, <1>4
  <2>6. \A id \in StepIds : e[id] > 0 => f[id] > 0
    BY <2>3, <2>5
  <2>7. s.guarded => e[s.id] = 0
    BY <1>3, <1>6, <2>5 DEF AlreadyApplied
  <2>8. ASSUME NEW t \in registry, t.guarded PROVE f[t.id] <= 1
    <3>1. t.id \in StepIds
      BY StepTyped DEF RegistryOK
    <3>2. CASE t.id = s.id
      <4>1. t = s
        BY <3>2 DEF RegistryOK
      <4> QED
        BY <2>3, <2>5, <2>7, <2>8, <4>1
    <3>3. CASE t.id # s.id
      BY <1>3, <2>3, <2>8, <3>1, <3>3 DEF EffectsOK
    <3> QED
      BY <3>2, <3>3
  <2>9. \A id \in StepIds : (\A t \in registry : t.id # id) => f[id] = 0
    BY <1>3, <2>3 DEF EffectsOK
  <2>10. EffectsOK(Taken(s, m))
    BY <2>4, <2>8, <2>9 DEF EffectsOK
  <2>11. f[s.id] > 0
    BY <2>3, <2>5
  <2> QED
    BY <1>3, <2>4, <2>6, <2>10, <2>11
<1> QED
  BY <1>5, <1>6

-----------------------------------------------------------------------------
(* The states of a run over a path, from the first metadata to the last.    *)
RunOf(r, m, path) ==
  r[0] = m /\ \A n \in 1 .. Len(path) : r[n] = Taken(path[n], r[n - 1])

(* They are metadata, with the effect of every step that was taken.         *)
RunSound(r, m, path) ==
  /\ \A n \in 0 .. Len(path) : /\ r[n] \in Metadata /\ EffectsOK(r[n])
                               /\ r[n].version = VersionAfter(m.version, path, n)
  /\ \A n \in 0 .. Len(path) : \A i \in 1 .. n : r[n].effects[path[i].id] > 0

(* Each step of a run brings its version and its effect and takes none      *)
(* away.                                                                    *)
LEMMA RunIsSound ==
  ASSUME RegistryOK, NEW path \in Seq(registry), NEW m \in Metadata, EffectsOK(m),
         NEW r, RunOf(r, m, path)
  PROVE  RunSound(r, m, path)
<1>1. PICK N \in Nat : N = Len(path)
  OBVIOUS
<1>2. \A n \in 1 .. N : path[n] \in registry /\ r[n] = Taken(path[n], r[n - 1])
  BY <1>1 DEF RunOf
<1>3. \A n \in 1 .. N : path[n].id \in StepIds
  BY <1>2, StepTyped DEF RegistryOK
<1>4. PICK T : T = {n \in 0 .. N : /\ r[n] \in Metadata /\ EffectsOK(r[n])
                                   /\ r[n].version = VersionAfter(m.version, path, n)
                                   /\ \A i \in 1 .. n : r[n].effects[path[i].id] > 0}
  OBVIOUS
<1>5. 0 \in T
  BY <1>1, <1>4 DEF RunOf, VersionAfter
<1>6. ASSUME NEW n \in 1 .. N, n - 1 \in T PROVE n \in T
  <2>1. PICK before, s : before = r[n - 1] /\ s = path[n]
    OBVIOUS
  <2>2. before \in Metadata /\ EffectsOK(before) /\ s \in registry /\ r[n] = Taken(s, before)
    BY <1>2, <1>4, <1>6, <2>1
  <2>3. /\ r[n] \in Metadata /\ EffectsOK(r[n]) /\ r[n].version = s.to
        /\ r[n].effects[s.id] > 0
        /\ \A id \in StepIds : before.effects[id] > 0 => r[n].effects[id] > 0
    BY <2>2, TakenEffects
  <2>4. r[n].version = VersionAfter(m.version, path, n)
    BY <1>1, <2>1, <2>3 DEF VersionAfter
  <2>5. ASSUME NEW i \in 1 .. n PROVE r[n].effects[path[i].id] > 0
    <3>1. CASE i = n
      BY <2>1, <2>3, <3>1
    <3>2. CASE i \in 1 .. n - 1
      <4>1. before.effects[path[i].id] > 0
        BY <1>4, <1>6, <2>1, <3>2
      <4>2. path[i].id \in StepIds
        BY <1>1, <1>3
      <4> QED
        BY <2>3, <4>1, <4>2
    <3> QED
      BY <3>1, <3>2
  <2> QED
    BY <1>1, <1>4, <2>3, <2>4, <2>5
<1>7. \A n \in 0 .. N : n \in T
  BY <1>1, <1>5, <1>6, UpToInduction
<1> QED
  BY <1>1, <1>4, <1>7 DEF RunSound

(* What a run answers is the last of such states.                           *)
LEMMA AfterIsRun ==
  ASSUME RegistryOK, NEW path \in Seq(registry), NEW m \in Metadata
  PROVE  \E r : RunOf(r, m, path) /\ After(m, path) = r[Len(path)]
<1>1. PICK N \in Nat : N = Len(path)
  OBVIOUS
<1>2. PICK D, step : D = (1 .. N) \X Metadata /\ step = [p \in D |-> Taken(path[p[1]], p[2])]
  OBVIOUS
<1>3. step \in [D -> Metadata]
  <2> SUFFICES ASSUME NEW p \in D PROVE Taken(path[p[1]], p[2]) \in Metadata
    BY <1>2
  <2>1. p[1] \in 1 .. N /\ p[2] \in Metadata
    BY <1>2
  <2>2. PICK s, b : s = path[p[1]] /\ b = p[2]
    OBVIOUS
  <2>3. s \in Steps /\ b \in Metadata
    BY <1>1, <2>1, <2>2 DEF RegistryOK
  <2>4. s.id \in StepIds /\ s.to \in Versions
    BY <2>3, StepTyped
  <2>5. Taken(s, b) \in Metadata
    BY <2>3, <2>4 DEF Taken, Metadata
  <2> QED
    BY <2>2, <2>5
<1>4. PICK f \in [0 .. N -> Metadata] : Iterates(f, N, m, step)
  BY <1>2, <1>3, RecursionExists
<1>5. ASSUME NEW n \in 1 .. N PROVE f[n] = Taken(path[n], f[n - 1])
  <2>1. n - 1 \in 0 .. N
    BY <1>1
  <2>2. <<n, f[n - 1]>> \in D
    BY <1>2, <1>4, <2>1
  <2> QED
    BY <1>2, <1>4, <2>2 DEF Iterates
<1>6. f = [n \in 0 .. N |-> IF n = 0 THEN m ELSE Taken(path[n], f[n - 1])]
  <2>1. \A n \in 0 .. N : n = 0 \/ n \in 1 .. N
    BY <1>1
  <2> QED
    BY <1>4, <1>5, <2>1 DEF Iterates
<1>7. PICK run : /\ run = [n \in 0 .. Len(path) |-> IF n = 0 THEN m ELSE Taken(path[n], run[n - 1])]
                 /\ After(m, path) = run[Len(path)]
  <2>1. \E g : g = [n \in 0 .. Len(path) |-> IF n = 0 THEN m ELSE Taken(path[n], g[n - 1])]
    BY <1>1, <1>6
  <2> QED
    BY <2>1 DEF After
<1>8. RunOf(run, m, path)
  BY <1>1, <1>7 DEF RunOf
<1> QED
  BY <1>7, <1>8

(* One run goes over a path.                                                *)
LEMMA RunUnique ==
  ASSUME NEW path, Len(path) \in Nat, NEW m, NEW r, NEW q, RunOf(r, m, path), RunOf(q, m, path)
  PROVE  r[Len(path)] = q[Len(path)]
<1>1. PICK N \in Nat : N = Len(path)
  OBVIOUS
<1>2. PICK T : T = {n \in 0 .. N : r[n] = q[n]}
  OBVIOUS
<1>3. 0 \in T
  BY <1>1, <1>2 DEF RunOf
<1>4. ASSUME NEW n \in 1 .. N, n - 1 \in T PROVE n \in T
  <2>1. r[n] = Taken(path[n], r[n - 1]) /\ q[n] = Taken(path[n], q[n - 1])
    BY <1>1 DEF RunOf
  <2> QED
    BY <1>1, <1>2, <1>4, <2>1
<1>5. \A n \in 0 .. N : n \in T
  BY <1>1, <1>3, <1>4, UpToInduction
<1> QED
  BY <1>1, <1>2, <1>5

-----------------------------------------------------------------------------
(* What the planner demands of a path.                                      *)
LeadsTo(path, source, target) ==
  /\ path \in Seq(registry) /\ Len(path) <= LastVersion - 1
  /\ VersionAfter(source, path, Len(path)) = target
  /\ \A n \in 1 .. Len(path) :
       NextSteps(VersionAfter(source, path, n - 1), target) = {path[n]}

(* The paths of the planner are those.                                      *)
LEMMA PathLeads ==
  ASSUME NEW source, NEW target, NEW path
  PROVE  path \in Path(source, target) <=> LeadsTo(path, source, target)
<1>1. PICK M \in Int : M = LastVersion - 1 /\ M \in Nat
  BY MigrationsAssumption
<1>2. path \in SeqOf(registry, M) <=> path \in Seq(registry) /\ Len(path) <= M
  <2>1. path \in SeqOf(registry, M) <=> \E m \in 0 .. M : path \in [1 .. m -> registry]
    BY DEF SeqOf
  <2>2. ASSUME NEW m \in 0 .. M, path \in [1 .. m -> registry]
        PROVE  path \in Seq(registry) /\ Len(path) <= M
    <3>1. m \in Nat /\ m <= M
      BY <1>1
    <3>2. path \in Seq(registry) /\ Len(path) = m
      BY <2>2, <3>1
    <3> QED
      BY <3>1, <3>2
  <2>3. ASSUME path \in Seq(registry), Len(path) <= M
        PROVE  \E m \in 0 .. M : path \in [1 .. m -> registry]
    <3>1. Len(path) \in 0 .. M /\ path \in [1 .. Len(path) -> registry]
      BY <1>1, <2>3
    <3> QED
      BY <3>1
  <2> QED
    BY <2>1, <2>2, <2>3
<1>3. path \in Seq(registry) => DOMAIN path = 1 .. Len(path)
  OBVIOUS
<1> QED
  BY <1>1, <1>2, <1>3 DEF Path, LeadsTo

(* A step of a path starts where the path stands.                           *)
LEMMA StepOfPath ==
  ASSUME RegistryOK, NEW source, NEW target \in Int, NEW path, LeadsTo(path, source, target),
         NEW n \in 1 .. Len(path)
  PROVE  /\ path[n] \in registry /\ path[n] \in Steps
         /\ path[n].from = VersionAfter(source, path, n - 1)
         /\ path[n].to \in Nat /\ path[n].from \in Nat
         /\ path[n].from < path[n].to /\ path[n].to <= target
<1>1. path[n] \in NextSteps(VersionAfter(source, path, n - 1), target)
  BY DEF LeadsTo
<1>2. path[n] \in registry /\ path[n].from = VersionAfter(source, path, n - 1) /\ path[n].to <= target
  BY <1>1 DEF NextSteps
<1>3. path[n] \in Steps
  BY <1>2 DEF RegistryOK
<1> QED
  BY <1>2, <1>3, StepTyped

(* There is one path.                                                       *)
LEMMA PathUnique ==
  ASSUME RegistryOK, NEW source, NEW target \in Int,
         NEW p, NEW q, LeadsTo(p, source, target), LeadsTo(q, source, target)
  PROVE  p = q
<1>1. ASSUME NEW a, NEW b, LeadsTo(a, source, target), LeadsTo(b, source, target),
             NEW N \in Nat, N <= Len(a), N <= Len(b)
      PROVE  \A n \in 1 .. N : a[n] = b[n]
  <2>1. PICK T : T = {n \in 0 .. N : /\ n > 0 => a[n] = b[n]
                                     /\ VersionAfter(source, a, n) = VersionAfter(source, b, n)}
    OBVIOUS
  <2>2. 0 \in T
    BY <2>1 DEF VersionAfter
  <2>3. ASSUME NEW n \in 1 .. N, n - 1 \in T PROVE n \in T
    <3>1. n \in 1 .. Len(a) /\ n \in 1 .. Len(b)
      BY <1>1 DEF LeadsTo
    <3>2. VersionAfter(source, a, n - 1) = VersionAfter(source, b, n - 1)
      BY <2>1, <2>3
    <3>3. {a[n]} = {b[n]}
      BY <1>1, <3>1, <3>2 DEF LeadsTo
    <3>4. a[n] = b[n]
      BY <3>3
    <3> QED
      BY <2>1, <3>4 DEF VersionAfter
  <2>4. \A n \in 0 .. N : n \in T
    BY <2>2, <2>3, UpToInduction
  <2> QED
    BY <2>1, <2>4
<1>2. ASSUME NEW a, NEW b, LeadsTo(a, source, target), LeadsTo(b, source, target)
      PROVE  ~(Len(a) < Len(b))
  <2> SUFFICES ASSUME Len(a) < Len(b) PROVE FALSE
    OBVIOUS
  <2>1. PICK N \in Nat : N = Len(a)
    BY <1>2 DEF LeadsTo
  <2>2. PICK L \in Nat : L = Len(b) /\ N < L
    BY <1>2, <2>1 DEF LeadsTo
  <2>3. VersionAfter(source, b, N) = VersionAfter(source, a, N)
    <3>1. \A n \in 1 .. N : a[n] = b[n]
      BY <1>1, <1>2, <2>1, <2>2
    <3> QED
      BY <2>1, <3>1 DEF VersionAfter
  <2>4. VersionAfter(source, a, N) = target
    BY <1>2, <2>1 DEF LeadsTo
  <2>5. N + 1 \in 1 .. Len(b) /\ (N + 1) - 1 = N
    BY <2>1, <2>2
  <2>6. b[N + 1].from = target /\ b[N + 1].from < b[N + 1].to /\ b[N + 1].to <= target
        /\ b[N + 1].to \in Nat
    BY <1>2, <2>3, <2>4, <2>5, StepOfPath
  <2> QED
    BY <2>6
<1>3. PICK N, L : N = Len(p) /\ L = Len(q)
  OBVIOUS
<1>4. N \in Nat /\ L \in Nat /\ p \in [1 .. N -> registry] /\ q \in [1 .. L -> registry]
  BY <1>3 DEF LeadsTo
<1>5. N = L
  <2>1. ~(N < L) /\ ~(L < N)
    BY <1>2, <1>3
  <2> QED
    BY <1>4, <2>1
<1>6. \A n \in 1 .. N : p[n] = q[n]
  BY <1>1, <1>3, <1>4, <1>5
<1> QED
  BY <1>4, <1>5, <1>6

(* The versions rise along a path.                                          *)
LEMMA VersionsRise ==
  ASSUME RegistryOK, NEW source, NEW target \in Int, NEW path, LeadsTo(path, source, target),
         NEW i \in 1 .. Len(path)
  PROVE  \A n \in 1 .. i : path[n].to <= path[i].to
<1>1. PICK L \in Nat : L = Len(path) /\ i \in 1 .. L
  BY DEF LeadsTo
<1>2. \A n \in 1 .. L : path[n].to \in Nat /\ path[n].from < path[n].to /\ path[n].from \in Nat
                        /\ path[n].from = VersionAfter(source, path, n - 1)
  BY <1>1, StepOfPath
<1>3. PICK T : T = {d \in 0 .. i : d < i => path[i - d].to <= path[i].to}
  OBVIOUS
<1>4. 0 \in T
  BY <1>1, <1>2, <1>3
<1>5. ASSUME NEW d \in 1 .. i, d - 1 \in T PROVE d \in T
  <2> SUFFICES ASSUME d < i PROVE path[i - d].to <= path[i].to
    BY <1>1, <1>3
  <2>1. /\ i - d \in 1 .. L /\ i - (d - 1) \in 1 .. L /\ (i - (d - 1)) - 1 = i - d
        /\ i - d # 0 /\ d - 1 < i /\ i \in 1 .. L
    BY <1>1
  <2>2. path[i - (d - 1)].to <= path[i].to
    BY <1>3, <1>5, <2>1
  <2>3. path[i - (d - 1)].from = path[i - d].to
    <3>1. VersionAfter(source, path, i - d) = path[i - d].to
      BY <2>1 DEF VersionAfter
    <3> QED
      BY <1>2, <2>1, <3>1
  <2>4. path[i - (d - 1)].from < path[i - (d - 1)].to
    BY <1>2, <2>1
  <2>5. path[i - d].to \in Nat /\ path[i].to \in Nat /\ path[i - (d - 1)].to \in Nat
    BY <1>2, <2>1
  <2> QED
    BY <2>2, <2>3, <2>4, <2>5
<1>6. \A d \in 0 .. i : d \in T
  <2>1. i \in Nat
    BY <1>1
  <2>2. 0 .. i \subseteq T
    BY <1>4, <1>5, <2>1, UpToInduction
  <2> QED
    BY <2>2
<1> SUFFICES ASSUME NEW n \in 1 .. i PROVE path[n].to <= path[i].to
  OBVIOUS
<1>7. i - n \in 0 .. i /\ i - n < i /\ i - (i - n) = n
  BY <1>1
<1> QED
  BY <1>3, <1>6, <1>7

(* A path up to its i-th step, and from there.                              *)
StepsTo(path, i) == [n \in 1 .. i |-> path[n]]
StepsFrom(path, i) == [n \in 1 .. Len(path) - i |-> path[i + n]]

(* A path up to a step leads to its version, the rest of it from there.     *)
LEMMA PathInStages ==
  ASSUME RegistryOK, NEW source, NEW target \in Int, NEW path, LeadsTo(path, source, target),
         NEW i \in 1 .. Len(path),
         NEW head, head = StepsTo(path, i), NEW tail, tail = StepsFrom(path, i)
  PROVE  LeadsTo(head, source, path[i].to) /\ LeadsTo(tail, path[i].to, target)
<1>1. PICK L \in Nat : L = Len(path) /\ i \in 1 .. L /\ L <= LastVersion - 1
  BY DEF LeadsTo
<1>2. PICK k \in Nat : k = L - i /\ k <= L
  <2>1. i \in Nat /\ i <= L
    BY <1>1
  <2>2. L - i \in Nat /\ L - i <= L
    BY <2>1
  <2> QED
    BY <2>2
<1>3. LastVersion \in Nat /\ path \in Seq(registry)
  BY MigrationsAssumption DEF LeadsTo
<1>4. head \in Seq(registry) /\ Len(head) = i /\ \A n \in 1 .. i : head[n] = path[n]
  BY <1>1, <1>3 DEF StepsTo
<1>5. tail \in Seq(registry) /\ Len(tail) = k /\ \A n \in 1 .. k : tail[n] = path[i + n]
  BY <1>1, <1>2, <1>3 DEF StepsFrom
<1>6. \A n \in 1 .. L : NextSteps(VersionAfter(source, path, n - 1), target) = {path[n]}
  BY <1>1 DEF LeadsTo
<1>7. path[i].to <= target /\ path[i].to \in Nat
  BY StepOfPath
<1>8. LeadsTo(head, source, path[i].to)
  <2>1. VersionAfter(source, head, Len(head)) = path[i].to
    BY <1>1, <1>4 DEF VersionAfter
  <2>2. ASSUME NEW n \in 1 .. i
        PROVE  NextSteps(VersionAfter(source, head, n - 1), path[i].to) = {head[n]}
    <3>1. VersionAfter(source, head, n - 1) = VersionAfter(source, path, n - 1)
      <4>1. n - 1 = 0 \/ n - 1 \in 1 .. i
        BY <1>1
      <4> QED
        BY <1>4, <4>1 DEF VersionAfter
    <3>2. PICK v : v = VersionAfter(source, path, n - 1)
      OBVIOUS
    <3>3. NextSteps(v, target) = {path[n]}
      BY <1>1, <1>6, <3>2
    <3>4. path[n].to <= path[i].to
      BY VersionsRise
    <3>5. \A s \in registry : s.to \in Nat
      BY StepTyped DEF RegistryOK
    <3>6. NextSteps(v, path[i].to) = {path[n]}
      <4>1. NextSteps(v, path[i].to) \subseteq NextSteps(v, target)
        BY <1>7, <3>5 DEF NextSteps
      <4>2. path[n] \in NextSteps(v, path[i].to)
        BY <3>3, <3>4 DEF NextSteps
      <4> QED
        BY <3>3, <4>1, <4>2
    <3> QED
      BY <1>4, <3>1, <3>2, <3>6
  <2>3. Len(head) <= LastVersion - 1
    BY <1>1, <1>3, <1>4
  <2> QED
    BY <1>4, <2>1, <2>2, <2>3 DEF LeadsTo
<1>9. LeadsTo(tail, path[i].to, target)
  <2>1. ASSUME NEW n \in 0 .. k
        PROVE  VersionAfter(path[i].to, tail, n) = VersionAfter(source, path, i + n)
    <3>1. i + n # 0 /\ i + 0 = i
      BY <1>1
    <3>2. CASE n = 0
      BY <3>1, <3>2 DEF VersionAfter
    <3>3. CASE n \in 1 .. k
      BY <1>5, <3>1, <3>3 DEF VersionAfter
    <3> QED
      BY <3>2, <3>3
  <2>2. VersionAfter(path[i].to, tail, k) = target
    <3>1. i + k = L /\ k \in 0 .. k
      BY <1>1, <1>2
    <3>2. VersionAfter(source, path, L) = target
      BY <1>1 DEF LeadsTo
    <3> QED
      BY <2>1, <3>1, <3>2
  <2>3. ASSUME NEW n \in 1 .. k
        PROVE  NextSteps(VersionAfter(path[i].to, tail, n - 1), target) = {tail[n]}
    <3>1. n - 1 \in 0 .. k /\ i + n \in 1 .. L /\ (i + n) - 1 = i + (n - 1)
      BY <1>1, <1>2
    <3> QED
      BY <1>5, <1>6, <2>1, <3>1
  <2>4. Len(tail) <= LastVersion - 1
    BY <1>1, <1>2, <1>3, <1>5
  <2> QED
    BY <1>5, <2>2, <2>3, <2>4 DEF LeadsTo
<1> QED
  BY <1>8, <1>9

-----------------------------------------------------------------------------
(* A run answers the last state of a run over a path that nothing breaks.   *)
LEMMA RunAnswers ==
  ASSUME RegistryOK, NEW m \in Metadata, EffectsOK(m), NEW target, NEW broken,
         NEW after \in Run(m, target, broken)
  PROVE  \E path : /\ LeadsTo(path, m.version, target)
                   /\ after = After(m, path)
                   /\ after \in Metadata /\ EffectsOK(after) /\ after.version = target
<1>1. PICK path \in Path(m.version, target) : after = After(m, path)
  BY DEF Run
<1>2. LeadsTo(path, m.version, target)
  BY <1>1, PathLeads
<1>3. path \in Seq(registry) /\ Len(path) \in 0 .. Len(path)
  BY <1>2 DEF LeadsTo
<1>4. PICK r : RunOf(r, m, path) /\ After(m, path) = r[Len(path)]
  BY <1>3, AfterIsRun
<1>5. RunSound(r, m, path)
  BY <1>3, <1>4, RunIsSound
<1>6. /\ after \in Metadata /\ EffectsOK(after)
      /\ after.version = VersionAfter(m.version, path, Len(path))
  BY <1>1, <1>3, <1>4, <1>5 DEF RunSound
<1> QED
  BY <1>1, <1>2, <1>6 DEF LeadsTo

(* Where there is a path, the run over it is what a run answers.            *)
LEMMA RunOverPath ==
  ASSUME RegistryOK, NEW m \in Metadata, NEW target \in Int,
         NEW path, LeadsTo(path, m.version, target)
  PROVE  Run(m, target, {}) = {After(m, path)}
<1>1. path \in Path(m.version, target)
  BY PathLeads
<1>2. \A p \in Path(m.version, target) : p = path
  BY PathLeads, PathUnique
<1> QED
  BY <1>1, <1>2 DEF Run

(* It holds of the first metadata.                                          *)
LEMMA MigrationsInvInit == MigrationsInit => MigrationsInv
<1> SUFFICES ASSUME MigrationsInit PROVE MigrationsInv
  OBVIOUS
<1>1. 1 \in Versions
  BY MigrationsAssumption DEF Versions
<1>2. metadata \in Metadata /\ \A id \in StepIds : metadata.effects[id] = 0
  BY <1>1 DEF MigrationsInit, Metadata
<1> QED
  BY <1>2 DEF MigrationsInit, MigrationsInv, RegistryOK, EffectsOK

(* Releases, runs and edits of the metadata keep it.                        *)
LEMMA MigrationsInvStep == MigrationsInv /\ [MigrationsNext]_migrationsVars => MigrationsInv'
<1> SUFFICES ASSUME MigrationsInv, [MigrationsNext]_migrationsVars PROVE MigrationsInv'
  OBVIOUS
<1>1. RegistryOK /\ metadata \in Metadata /\ EffectsOK(metadata)
  BY DEF MigrationsInv
<1>2. ASSUME NEW s \in Steps, Release(s) PROVE MigrationsInv'
  <2>1. registry' = registry \cup {s} /\ UNCHANGED metadata /\ \A t \in registry : t.id # s.id
    BY <1>2 DEF Release
  <2>2. RegistryOK'
    BY <1>1, <2>1 DEF RegistryOK
  <2>3. s.id \in StepIds
    BY StepTyped
  <2>4. metadata.effects[s.id] = 0
    BY <1>1, <2>1, <2>3 DEF EffectsOK
  <2>5. \A t \in registry' : t.guarded => metadata.effects[t.id] <= 1
    BY <1>1, <2>1, <2>4 DEF EffectsOK
  <2>6. \A id \in StepIds : (\A t \in registry' : t.id # id) => metadata.effects[id] = 0
    BY <1>1, <2>1 DEF EffectsOK
  <2>7. EffectsOK(metadata)'
    BY <2>1, <2>5, <2>6 DEF EffectsOK
  <2> QED
    BY <1>1, <2>1, <2>2, <2>7 DEF MigrationsInv
<1>3. ASSUME NEW s \in Steps, EffectByHand(s) PROVE MigrationsInv'
  <2>1. s \in registry /\ metadata' = [metadata EXCEPT !.effects[s.id] = 1] /\ UNCHANGED registry
    BY <1>3 DEF EffectByHand
  <2>2. s.id \in StepIds
    BY StepTyped
  <2>3. PICK e : e = metadata.effects
    OBVIOUS
  <2>4. e \in [StepIds -> Nat]
    BY <1>1, <2>3 DEF Metadata
  <2>5. PICK f : f = [e EXCEPT ![s.id] = 1]
    OBVIOUS
  <2>6. f \in [StepIds -> Nat] /\ f[s.id] = 1 /\ \A id \in StepIds : id # s.id => f[id] = e[id]
    BY <2>2, <2>4, <2>5
  <2>7. metadata' \in Metadata /\ metadata'.effects = f
    BY <1>1, <2>1, <2>3, <2>5, <2>6 DEF Metadata
  <2>8. \A t \in registry : t.id \in StepIds
    BY <1>1, StepTyped DEF RegistryOK
  <2>9. EffectsOK(metadata')
    BY <1>1, <2>1, <2>3, <2>6, <2>7, <2>8 DEF EffectsOK
  <2>10. EffectsOK(metadata)'
    BY <2>1, <2>9 DEF EffectsOK
  <2> QED
    BY <1>1, <2>1, <2>7, <2>10 DEF MigrationsInv, RegistryOK
<1>4. ASSUME NEW target, NEW broken, Migrate(target, broken) PROVE MigrationsInv'
  <2>1. PICK m \in Run(metadata, target, broken) : metadata' = m
    BY <1>4 DEF Migrate
  <2>2. m \in Metadata /\ EffectsOK(m)
    BY <1>1, <2>1, RunAnswers
  <2>3. UNCHANGED registry
    BY <1>4 DEF Migrate
  <2>4. EffectsOK(metadata)'
    BY <2>1, <2>2, <2>3 DEF EffectsOK
  <2> QED
    BY <1>1, <2>1, <2>2, <2>3, <2>4 DEF MigrationsInv, RegistryOK
<1>5. CASE UNCHANGED migrationsVars
  BY <1>1, <1>5 DEF migrationsVars, MigrationsInv, RegistryOK, EffectsOK
<1> QED
  BY <1>2, <1>3, <1>4, <1>5 DEF MigrationsNext

(* No guarded step ever takes effect twice, whatever runs, releases and     *)
(* edits came before.                                                       *)
THEOREM EffectsAlwaysCounted == MigrationsSpec => []MigrationsInv
<1> QED
  BY MigrationsInvInit, MigrationsInvStep, PTL DEF MigrationsSpec

-----------------------------------------------------------------------------
(* A run over a path is one over its head and then one over its tail.       *)
LEMMA RunInStages ==
  ASSUME RegistryOK, NEW m \in Metadata, EffectsOK(m),
         NEW path \in Seq(registry), NEW r, RunOf(r, m, path), NEW i \in 1 .. Len(path),
         NEW head, head = StepsTo(path, i), NEW tail, tail = StepsFrom(path, i)
  PROVE  After(m, head) = r[i] /\ After(r[i], tail) = r[Len(path)]
<1>1. PICK L \in Nat : L = Len(path) /\ i \in 1 .. L
  OBVIOUS
<1>2. PICK k \in Nat : k = L - i
  <2>1. i \in Nat /\ i <= L
    BY <1>1
  <2>2. L - i \in Nat
    BY <2>1
  <2> QED
    BY <2>2
<1>3. head \in Seq(registry) /\ Len(head) = i /\ \A n \in 1 .. i : head[n] = path[n]
  BY <1>1 DEF StepsTo
<1>4. tail \in Seq(registry) /\ Len(tail) = k /\ \A n \in 1 .. k : tail[n] = path[i + n]
  BY <1>1, <1>2 DEF StepsFrom
<1>5. \A n \in 1 .. L : r[n] = Taken(path[n], r[n - 1])
  BY <1>1 DEF RunOf
<1>6. RunOf(r, m, head)
  BY <1>1, <1>3, <1>5 DEF RunOf
<1>7. After(m, head) = r[i]
  <2>1. PICK q : RunOf(q, m, head) /\ After(m, head) = q[Len(head)]
    BY <1>3, AfterIsRun
  <2> QED
    BY <1>1, <1>3, <1>6, <2>1, RunUnique
<1>8. r[i] \in Metadata
  BY <1>1, RunIsSound DEF RunSound
<1>9. PICK t : t = [n \in 0 .. k |-> r[i + n]]
  OBVIOUS
<1>10. RunOf(t, r[i], tail)
  <2>1. t[0] = r[i]
    BY <1>1, <1>2, <1>9
  <2>2. ASSUME NEW n \in 1 .. k PROVE t[n] = Taken(tail[n], t[n - 1])
    <3>1. /\ n \in 0 .. k /\ n - 1 \in 0 .. k /\ i + n \in 1 .. L
          /\ (i + n) - 1 = i + (n - 1)
      BY <1>1, <1>2
    <3>2. t[n] = r[i + n] /\ t[n - 1] = r[i + (n - 1)]
      BY <1>9, <3>1
    <3> QED
      BY <1>4, <1>5, <3>1, <3>2
  <2> QED
    BY <1>4, <2>1, <2>2 DEF RunOf
<1>11. After(r[i], tail) = r[L]
  <2>1. PICK q : RunOf(q, r[i], tail) /\ After(r[i], tail) = q[Len(tail)]
    BY <1>4, <1>8, AfterIsRun
  <2>2. q[k] = t[k]
    BY <1>4, <1>10, <2>1, RunUnique
  <2>3. k \in 0 .. k /\ i + k = L
    BY <1>1, <1>2
  <2> QED
    BY <1>4, <1>9, <2>1, <2>2, <2>3
<1> QED
  BY <1>1, <1>7, <1>11

(* Migrating in stages is always migrating at once, and every step of the   *)
(* path has taken effect: runWorkspaceMetadataMigrations over               *)
(* selectMigrationSteps.                                                    *)
THEOREM MigrationsAlwaysCompose == MigrationsSpec => []MigrationsCompose
<1>1. ASSUME MigrationsInv PROVE MigrationsCompose
  <2>1. RegistryOK /\ metadata \in Metadata /\ EffectsOK(metadata)
    BY <1>1 DEF MigrationsInv
  <2> SUFFICES ASSUME NEW target \in Versions, NEW path \in Path(metadata.version, target),
                      NEW m \in Run(metadata, target, {})
               PROVE  /\ m.version = target
                      /\ \A i \in DOMAIN path :
                           /\ m.effects[path[i].id] > 0
                           /\ Run(metadata, path[i].to, {}) # {}
                           /\ \A half \in Run(metadata, path[i].to, {}) : Run(half, target, {}) = {m}
                           /\ path[i].guarded => m.effects[path[i].id] = 1
    BY DEF MigrationsCompose
  <2>2. target \in Int
    BY MigrationsAssumption DEF Versions
  <2>3. LeadsTo(path, metadata.version, target)
    BY PathLeads
  <2>4. path \in Seq(registry)
    BY <2>3 DEF LeadsTo
  <2>5. PICK L \in Nat : L = Len(path) /\ DOMAIN path = 1 .. L
    BY <2>4
  <2>6. PICK r : RunOf(r, metadata, path) /\ After(metadata, path) = r[L]
    BY <2>1, <2>4, <2>5, AfterIsRun
  <2>7. m = r[L]
    BY <2>1, <2>2, <2>3, <2>6, RunOverPath
  <2>8. RunSound(r, metadata, path)
    BY <2>1, <2>4, <2>6, RunIsSound
  <2>9. m.version = target /\ m \in Metadata /\ EffectsOK(m)
    BY <2>3, <2>5, <2>7, <2>8 DEF RunSound, LeadsTo
  <2>10. ASSUME NEW i \in 1 .. L
         PROVE  /\ m.effects[path[i].id] > 0
                /\ Run(metadata, path[i].to, {}) # {}
                /\ \A half \in Run(metadata, path[i].to, {}) : Run(half, target, {}) = {m}
                /\ path[i].guarded => m.effects[path[i].id] = 1
    <3>1. m.effects[path[i].id] > 0
      BY <2>5, <2>7, <2>8 DEF RunSound
    <3>2. path[i] \in registry /\ path[i] \in Steps /\ path[i].to \in Int
      BY <2>1, <2>2, <2>3, <2>5, StepOfPath
    <3>3. path[i].guarded => m.effects[path[i].id] = 1
      <4>1. m.effects[path[i].id] \in Nat
        BY <2>9, <3>2, StepTyped DEF Metadata
      <4>2. path[i].guarded => m.effects[path[i].id] <= 1
        BY <2>9, <3>2 DEF EffectsOK
      <4> QED
        BY <3>1, <4>1, <4>2
    <3>4. PICK head, tail : head = StepsTo(path, i) /\ tail = StepsFrom(path, i)
      OBVIOUS
    <3>5. LeadsTo(head, metadata.version, path[i].to) /\ LeadsTo(tail, path[i].to, target)
      BY <2>1, <2>2, <2>3, <2>5, <3>4, PathInStages
    <3>6. After(metadata, head) = r[i] /\ After(r[i], tail) = m
      <4>1. i \in 1 .. Len(path)
        BY <2>5
      <4>2. After(metadata, head) = r[i]
        BY <2>1, <2>4, <2>6, <3>4, <4>1, RunInStages
      <4>3. After(r[i], tail) = r[Len(path)]
        BY <2>1, <2>4, <2>6, <3>4, <4>1, RunInStages
      <4> QED
        BY <2>5, <2>7, <4>2, <4>3
    <3>7. Run(metadata, path[i].to, {}) = {r[i]}
      BY <2>1, <3>2, <3>5, <3>6, RunOverPath
    <3>8. r[i] \in Metadata /\ r[i].version = path[i].to
      <4>1. i \in 0 .. Len(path) /\ i # 0
        BY <2>5
      <4>2. r[i] \in Metadata /\ r[i].version = VersionAfter(metadata.version, path, i)
        BY <2>8, <4>1 DEF RunSound
      <4> QED
        BY <4>1, <4>2 DEF VersionAfter
    <3>9. Run(r[i], target, {}) = {m}
      BY <2>1, <2>2, <3>5, <3>6, <3>8, RunOverPath
    <3> QED
      BY <3>1, <3>3, <3>7, <3>9
  <2> QED
    BY <2>5, <2>9, <2>10
<1> QED
  BY <1>1, EffectsAlwaysCounted, PTL
=============================================================================
