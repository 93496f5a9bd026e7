--------------------------- MODULE BackupRetention ---------------------------
(***************************************************************************)
(* Retention of workspace backups                                          *)
(* (packages/workspace-backup/src/index.ts, evaluateRetentionPolicy).  The *)
(* evaluation only reads the manifests it is given and names the backups to*)
(* delete; whoever asked deletes them afterwards, one by one, while backups*)
(* are made, brought in with an older date or swept by someone else.       *)
(***************************************************************************)
EXTENDS FiniteSetsExt, Naturals

CONSTANTS
  BackupIds,    \* naturals: the ids in their order
  LastDay,      \* bound: the clock stops there
  Sweepers,     \* those who evaluate the policy and delete
  Policies      \* [latest, minimum: numbers, days: at most one number, protected: ids]

ASSUME RetentionAssumption ==
  /\ BackupIds \subseteq Nat /\ LastDay \in Nat
  /\ \A policy \in Policies :
       /\ policy.latest \in Nat /\ policy.minimum \in Nat
       /\ policy.days \subseteq Nat /\ policy.protected \subseteq BackupIds

VARIABLES
  backups,   \* manifests: id and day
  day,       \* the clock
  policy,    \* keepLatest, minimumBackups, deleteAfterDays, protectBackupIds
  doomed     \* per sweeper: what is left to delete of its evaluation

retentionVars == <<backups, day, policy, doomed>>

(* compareManifestByCreatedAtDescending                                     *)
Newer(b, c) == b.day > c.day \/ (b.day = c.day /\ b.id > c.id)

Newest(n, S) == {b \in S : Cardinality({c \in S : Newer(c, b)}) < n}

Kept(S, p) == Newest(p.latest, S) \cup {b \in S : b.id \in p.protected}

(* deleteCandidates: they are older than the days given, where any are.     *)
Expendable(S, p, now) ==
  {b \in S \ Kept(S, p) : \E days \in p.days : now > b.day + days}

(* deleteBudget                                                             *)
Budget(S, p) ==
  LET least == Max({p.minimum, Cardinality(Kept(S, p))})
  IN IF Cardinality(S) > least THEN Cardinality(S) - least ELSE 0

(* Mutant: the newest of the candidates go.                                 *)
DoomedNewestFirst(S, p, now) == Newest(Budget(S, p), Expendable(S, p, now))

(* deleteIds: the oldest of the candidates, as many as the budget allows.   *)
Doomed(S, p, now) ==
  LET candidates == Expendable(S, p, now)
  IN {b \in candidates : Cardinality({c \in candidates : Newer(b, c)}) < Budget(S, p)}

-----------------------------------------------------------------------------
RetentionInit ==
  /\ backups = {} /\ day = 0
  /\ policy \in Policies
  /\ doomed = [w \in Sweepers |-> {}]

(* A backup is made today, or one of an earlier day is brought in.          *)
Keep(id, made) ==
  /\ made <= day
  /\ \A b \in backups \cup UNION {doomed[w] : w \in Sweepers} : b.id # id
  /\ backups' = backups \cup {[id |-> id, day |-> made]}
  /\ UNCHANGED <<day, policy, doomed>>

DayPasses == day < LastDay /\ day' = day + 1 /\ UNCHANGED <<backups, policy, doomed>>

(* evaluateRetentionPolicy; an evaluation that is under way is given up.    *)
Evaluate(w) ==
  /\ doomed' = [doomed EXCEPT ![w] = Doomed(backups, policy, day)]
  /\ UNCHANGED <<backups, day, policy>>

DeleteOne(w) ==
  /\ \E b \in doomed[w] : /\ backups' = backups \ {b}
                          /\ doomed' = [doomed EXCEPT ![w] = @ \ {b}]
  /\ UNCHANGED <<day, policy>>

RetentionNext ==
  \/ \E id \in BackupIds, made \in 0 .. LastDay : Keep(id, made)
  \/ DayPasses
  \/ \E w \in Sweepers : Evaluate(w) \/ DeleteOne(w)

RetentionSpec == RetentionInit /\ [][RetentionNext]_retentionVars

-----------------------------------------------------------------------------
(* However late an evaluation is carried out, whoever else sweeps and       *)
(* whatever is made or brought in meanwhile: a deletion leaves minimum      *)
(* backups, the latest and the protected ones; and when every evaluation is *)
(* carried out, evaluating again deletes nothing before the next day or the *)
(* next backup.                                                             *)
RetentionHolds ==
  [][\A b \in backups \ backups' :
       /\ Cardinality(backups') >= policy.minimum
       /\ b \notin Kept(backups, policy)
       /\ ((\A w \in Sweepers : doomed'[w] = {}) /\ \E w \in Sweepers : doomed[w] = Doomed(backups, policy, day)) =>
            Doomed(backups', policy, day) = {}]_retentionVars
=============================================================================
