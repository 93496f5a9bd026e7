---------------------------- MODULE ReviewRecords ----------------------------
(***************************************************************************)
(* The HTTP API's routes that store review records and list them by pages  *)
(* (apps/api/src/mcpApprovalEvidenceRecordRoutes.ts, and the like of it for*)
(* plugin review artifacts).  A create waits for the preview of its payload*)
(* between parsing the request and storing the record, and other requests  *)
(* are served meanwhile.  A page is an offset into the sorted records, so  *)
(* what is stored between two pages may move what is behind the offset.    *)
(*                                                                         *)
(* A record is its id and its time; a request that is not valid changes    *)
(* nothing and is left out.                                                *)
(***************************************************************************)
EXTENDS FiniteSetsExt, SequencesExt, Sorting

CONSTANTS
  RecordIds,    \* naturals: the ids in their order
  Posts,        \* creates that may overlap
  PageSizes,    \* limits a reader asks for
  LastMoment    \* bound: the clock stops there

ASSUME RecordsAssumption ==
  RecordIds \subseteq Nat /\ PageSizes \subseteq Nat \ {0} /\ LastMoment \in Nat

VARIABLES
  stored,    \* the store's records
  moment,    \* now
  posts,     \* per create: what waits for its preview, a set of at most one
  reading    \* a reader going from page to page, a set of at most one

recordsVars == <<stored, moment, posts, reading>>

(* Mutant: the time is taken before the preview is waited for.              *)
StampOfRequest(post) == post.parsed

(* readTimestamp, after the wait.                                           *)
Stamp(post) == moment

(* The order of list: by time, then by id.                                  *)
Earlier(x, y) == x.at < y.at \/ (x.at = y.at /\ x.id < y.id)
Listed(records) == SortedBy(records, {p \in records \X records : Earlier(p[1], p[2])})

(* listRecords without filters: one page.                                   *)
PageOf(records, offset, limit) ==
  LET page == SubSeq(Listed(records), offset + 1, Min({offset + limit, Cardinality(records)}))
  IN [records |-> page, hasMore |-> offset + Len(page) < Cardinality(records)]

-----------------------------------------------------------------------------
RecordsInit ==
  /\ stored = {} /\ moment = 0
  /\ posts = [p \in Posts |-> {}]
  /\ reading = {}

(* POST of a record, until the wait.                                        *)
ParsePost(p, id) ==
  /\ posts[p] = {}
  /\ posts' = [posts EXCEPT ![p] = {[id |-> id, parsed |-> moment]}]
  /\ UNCHANGED <<stored, moment, reading>>

(* Its rest: the store refuses an id it has (409).                          *)
StoreRecord(p) ==
  /\ \E post \in posts[p] :
       stored' = IF \E x \in stored : x.id = post.id THEN stored
                 ELSE stored \cup {[id |-> post.id, at |-> Stamp(post)]}
  /\ posts' = [posts EXCEPT ![p] = {}]
  /\ UNCHANGED <<moment, reading>>

(* The first page, and the next while there is more: the reader goes on at  *)
(* the offset its pages have reached.                                       *)
ReadPage(limit) ==
  /\ \E r \in IF reading = {} THEN {[seen |-> <<>>, from |-> stored, more |-> TRUE]} ELSE reading :
       /\ r.more
       /\ LET page == PageOf(stored, Len(r.seen), limit)
          IN reading' = {[r EXCEPT !.seen = @ \o page.records, !.more = page.hasMore]}
  /\ UNCHANGED <<stored, moment, posts>>

StopReading == reading # {} /\ reading' = {} /\ UNCHANGED <<stored, moment, posts>>

MomentPasses == moment < LastMoment /\ moment' = moment + 1 /\ UNCHANGED <<stored, posts, reading>>

RecordsNext ==
  \/ \E p \in Posts : StoreRecord(p) \/ \E id \in RecordIds : ParsePost(p, id)
  \/ \E limit \in PageSizes : ReadPage(limit)
  \/ StopReading \/ MomentPasses

RecordsSpec == RecordsInit /\ [][RecordsNext]_recordsVars

-----------------------------------------------------------------------------
(* A reader that pages to the end has been shown every record that was there *)
(* at its first page, whatever is stored in between; and it is shown none    *)
(* twice unless a record was stored at the very time of another (the later   *)
(* one may then sort before the offset).                                     *)
PagesShowEveryRecord ==
  \A r \in reading :
    /\ ~r.more => r.from \subseteq ToSet(r.seen)
    /\ (\A x, y \in stored : x.at = y.at => x = y) => IsInjective(r.seen)
=============================================================================
