------------------------ MODULE CoreComponentsProofs ------------------------
(***************************************************************************)
(* Proofs about the components of the core and of the device service that  *)
(* work alone: vector clocks, event logs, and devices with their invites.  *)
(* Each part is about one of them and uses no lemma of another.            *)
(***************************************************************************)
EXTENDS ReplicaClocks, EventLog, Enrollment, TLAPS

-----------------------------------------------------------------------------
(* VECTOR CLOCKS (ReplicaClocks), for any replicas, any largest counter and *)
(* any number of changes: clocks are histories, compare is causality, and   *)
(* classification loses no race.                                            *)

(* What the operations of a clock do to its counters.                       *)

(* A clock is a function from some of the replicas to positive counters.    *)
LEMMA ClockFunction ==
  ASSUME NEW c
  PROVE c \in Clock <=> DOMAIN c \subseteq Replicas /\ c \in [DOMAIN c -> 1 .. MaxCounter]
BY DEF Clock

(* A counter that is read is zero or a counter the clock holds.             *)
LEMMA GetType ==
  ASSUME NEW c \in Clock, NEW r
  PROVE Get(c, r) \in 0 .. MaxCounter
BY ClockFunction, ClockAssumption DEF Get

(* increment adds one to the replica's own counter and leaves the others.   *)
LEMMA IncrementGet ==
  ASSUME NEW c \in Clock, NEW r \in Replicas, CanIncrement(c, r)
  PROVE /\ Increment(c, r) \in Clock
        /\ Increment(c, r)[r] = Get(c, r) + 1
        /\ \A x : Get(Increment(c, r), x) = IF x = r THEN Get(c, r) + 1 ELSE Get(c, x)
<1>1. Get(c, r) \in 0 .. MaxCounter /\ Get(c, r) < MaxCounter
  BY GetType DEF CanIncrement
<1>2. Get(c, r) + 1 \in 1 .. MaxCounter
  BY <1>1, ClockAssumption
<1>3. DOMAIN Increment(c, r) = DOMAIN c \cup {r}
  BY DEF Increment
<1>4. \A x \in DOMAIN Increment(c, r) :
        Increment(c, r)[x] = IF x = r THEN Get(c, r) + 1 ELSE c[x]
  BY DEF Increment
<1>5. Increment(c, r) \in [DOMAIN Increment(c, r) -> 1 .. MaxCounter]
  BY <1>2, ClockFunction DEF Increment
<1>6. Increment(c, r) \in Clock
  BY <1>3, <1>5, ClockFunction
<1> QED BY <1>3, <1>4, <1>6 DEF Get

(* merge takes the greater counter of each replica.                         *)
LEMMA MergedGet ==
  ASSUME NEW c \in Clock, NEW d \in Clock
  PROVE /\ Merged(c, d) \in Clock
        /\ \A x : Get(Merged(c, d), x) = IF Get(c, x) < Get(d, x) THEN Get(d, x) ELSE Get(c, x)
<1>1. \A x : Get(c, x) \in 0 .. MaxCounter /\ Get(d, x) \in 0 .. MaxCounter
  BY GetType
<1>2. DOMAIN Merged(c, d) = DOMAIN c \cup DOMAIN d
  BY DEF Merged
<1>3. \A x \in DOMAIN Merged(c, d) :
        Merged(c, d)[x] = IF Get(c, x) < Get(d, x) THEN Get(d, x) ELSE Get(c, x)
  BY DEF Merged
<1>4. \A x : /\ x \in DOMAIN c => Get(c, x) \in 1 .. MaxCounter
             /\ x \in DOMAIN d => Get(d, x) \in 1 .. MaxCounter
             /\ x \notin DOMAIN c => Get(c, x) = 0
             /\ x \notin DOMAIN d => Get(d, x) = 0
  BY ClockFunction DEF Get
<1>5. \A x \in DOMAIN Merged(c, d) : Merged(c, d)[x] \in 1 .. MaxCounter
  BY <1>1, <1>2, <1>3, <1>4, ClockAssumption
<1>6. Merged(c, d) \in [DOMAIN Merged(c, d) -> 1 .. MaxCounter]
  BY <1>5, <1>2 DEF Merged
<1>7. Merged(c, d) \in Clock
  BY <1>2, <1>6, ClockFunction
<1>8. ASSUME NEW x
      PROVE Get(Merged(c, d), x) = IF Get(c, x) < Get(d, x) THEN Get(d, x) ELSE Get(c, x)
  <2>1. CASE x \in DOMAIN c \cup DOMAIN d
    BY <2>1, <1>2, <1>3 DEF Get
  <2>2. CASE x \notin DOMAIN c \cup DOMAIN d
    BY <2>2, <1>2, <1>4 DEF Get
  <2> QED BY <2>1, <2>2
<1> QED BY <1>7, <1>8

(* from_counters rebuilds a clock from all the rows ever kept of it.        *)
LEMMA RestoredClock ==
  ASSUME NEW c \in Clock
  PROVE FromCounters(Rows(c)) = c
<1> DEFINE rows == {row \in Replicas \X (0 .. MaxCounter) : row[2] <= Get(c, row[1])}
           of(r) == {p[2] : p \in {q \in rows : q[1] = r}}
<1>1. \A r : Get(c, r) \in 0 .. MaxCounter
  BY GetType
<1>2. DOMAIN c \subseteq Replicas /\ c \in [DOMAIN c -> 1 .. MaxCounter]
  BY ClockFunction
<1>3. \A r : r \in DOMAIN c <=> r \in Replicas /\ Get(c, r) > 0
  BY <1>2, ClockAssumption DEF Get
<1>4. {p[1] : p \in {q \in rows : q[2] > 0}} = DOMAIN c
  <2>1. ASSUME NEW r \in DOMAIN c PROVE r \in {p[1] : p \in {q \in rows : q[2] > 0}}
    <3>1. <<r, Get(c, r)>> \in rows /\ <<r, Get(c, r)>>[2] > 0
      BY <1>1, <1>3
    <3> QED BY <3>1
  <2>2. ASSUME NEW p \in rows, p[2] > 0 PROVE p[1] \in DOMAIN c
    BY <2>2, <1>1, <1>3
  <2> QED BY <2>1, <2>2
<1>5. ASSUME NEW r \in DOMAIN c
      PROVE c[r] = CHOOSE n \in of(r) : \A p \in rows : p[1] = r => p[2] <= n
  <2>1. c[r] = Get(c, r) /\ r \in Replicas
    BY <1>2 DEF Get
  <2>2. <<r, c[r]>> \in rows
    BY <2>1, <1>1
  <2>3. c[r] \in of(r)
    BY <2>2
  <2>4. \A p \in rows : p[1] = r => p[2] <= c[r]
    BY <2>1
  <2>5. \A n \in of(r) : (\A p \in rows : p[1] = r => p[2] <= n) => n = c[r]
    <3> SUFFICES ASSUME NEW n \in of(r), \A p \in rows : p[1] = r => p[2] <= n
                 PROVE n = c[r]
      OBVIOUS
    <3>1. c[r] <= n
      BY <2>2
    <3>2. n <= c[r] /\ n \in Nat
      BY <2>4
    <3> QED BY <3>1, <3>2, <2>1, <1>1
  <2> QED BY <2>3, <2>4, <2>5
<1>6. FromCounters(Rows(c)) = [r \in DOMAIN c |-> c[r]]
  BY <1>4, <1>5, ZenonT(40) DEF FromCounters, Rows
<1> QED BY <1>6, <1>2

-----------------------------------------------------------------------------
(* Clocks as sets of changes.                                               *)

(* Comparing counters compares the sets of changes they cover.              *)
LEMMA CoveredOrder ==
  ASSUME NEW c \in Clock, NEW d \in Clock
  PROVE Covered(c) \subseteq Covered(d) <=> \A r \in Replicas : Get(c, r) <= Get(d, r)
<1>1. \A r : Get(c, r) \in 0 .. MaxCounter /\ Get(d, r) \in 0 .. MaxCounter
  BY GetType
<1>2. ASSUME \A r \in Replicas : Get(c, r) <= Get(d, r)
      PROVE Covered(c) \subseteq Covered(d)
  BY <1>1, <1>2 DEF Covered, Ids
<1>3. ASSUME Covered(c) \subseteq Covered(d), NEW r \in Replicas
      PROVE Get(c, r) <= Get(d, r)
  <2>1. CASE Get(c, r) = 0
    BY <2>1, <1>1
  <2>2. CASE Get(c, r) > 0
    <3>1. <<r, Get(c, r)>> \in Covered(c)
      BY <2>2, <1>1 DEF Covered, Ids
    <3> QED BY <3>1, <1>3, <1>1 DEF Covered
  <2> QED BY <2>1, <2>2, <1>1
<1> QED BY <1>2, <1>3

(* An increment covers one change more, the next one of the replica.        *)
LEMMA IncrementCovers ==
  ASSUME NEW c \in Clock, NEW r \in Replicas, CanIncrement(c, r)
  PROVE /\ <<r, Get(c, r) + 1>> \in Ids \ Covered(c)
        /\ Covered(Increment(c, r)) = Covered(c) \cup {<<r, Get(c, r) + 1>>}
<1>1. \A x : Get(c, x) \in 0 .. MaxCounter
  BY GetType
<1>2. Get(c, r) + 1 \in 1 .. MaxCounter
  BY <1>1, ClockAssumption DEF CanIncrement
<1>3. \A x : Get(Increment(c, r), x) = IF x = r THEN Get(c, r) + 1 ELSE Get(c, x)
  BY IncrementGet
<1>4. <<r, Get(c, r) + 1>> \in Ids \ Covered(c)
  BY <1>1, <1>2 DEF Ids, Covered
<1>5. ASSUME NEW id \in Ids
      PROVE id[2] <= Get(Increment(c, r), id[1]) <=>
              id[2] <= Get(c, id[1]) \/ id = <<r, Get(c, r) + 1>>
  <2>1. PICK x \in Replicas, n \in 1 .. MaxCounter : id = <<x, n>>
    BY DEF Ids
  <2> QED BY <2>1, <1>1, <1>3
<1> QED BY <1>4, <1>5 DEF Covered

(* A merge covers what either clock covers.                                 *)
LEMMA MergedCovers ==
  ASSUME NEW c \in Clock, NEW d \in Clock
  PROVE Covered(Merged(c, d)) = Covered(c) \cup Covered(d)
<1>1. \A x : Get(c, x) \in 0 .. MaxCounter /\ Get(d, x) \in 0 .. MaxCounter
  BY GetType
<1>2. \A x : Get(Merged(c, d), x) = IF Get(c, x) < Get(d, x) THEN Get(d, x) ELSE Get(c, x)
  BY MergedGet
<1>3. ASSUME NEW id \in Ids
      PROVE id[2] <= Get(Merged(c, d), id[1]) <=> id[2] <= Get(c, id[1]) \/ id[2] <= Get(d, id[1])
  <2>1. PICK x \in Replicas, n \in 1 .. MaxCounter : id = <<x, n>>
    BY DEF Ids
  <2> QED BY <2>1, <1>1, <1>2
<1> QED BY <1>3 DEF Covered

(* compare orders clocks as the sets of changes they cover.                 *)
LEMMA CompareCovered ==
  ASSUME NEW c \in Clock, NEW d \in Clock
  PROVE /\ HasLower(c, d) <=> ~(Covered(d) \subseteq Covered(c))
        /\ HasHigher(c, d) <=> ~(Covered(c) \subseteq Covered(d))
<1>1. \A r : Get(c, r) \in 0 .. MaxCounter /\ Get(d, r) \in 0 .. MaxCounter
  BY GetType
<1>2. DOMAIN c \subseteq Replicas /\ DOMAIN d \subseteq Replicas
  BY ClockFunction
<1>3. \A r : /\ r \in DOMAIN c => c[r] = Get(c, r)
             /\ r \notin DOMAIN c => Get(c, r) = 0
             /\ r \in DOMAIN d => d[r] = Get(d, r)
             /\ r \notin DOMAIN d => Get(d, r) = 0
  BY DEF Get
<1>4. HasLower(c, d) <=> \E r \in Replicas : Get(c, r) < Get(d, r)
  BY <1>1, <1>2, <1>3 DEF HasLower
<1>5. HasHigher(c, d) <=> \E r \in Replicas : Get(d, r) < Get(c, r)
  BY <1>1, <1>2, <1>3 DEF HasHigher
<1> QED BY <1>1, <1>4, <1>5, CoveredOrder

-----------------------------------------------------------------------------
(* Clocks are histories.                                                    *)

(* The clocks have their types and are the histories behind them.           *)
ClockInv == ReplicaTypeOK /\ ClocksAreHistories

(* What a change adds, and that its id was not known to its author.         *)
LEMMA ChangeStep ==
  ASSUME ClockInv, NEW r \in Replicas, Change(r)
  PROVE \E id \in Ids \ known[r], c \in Clock :
          /\ id[1] = r
          /\ Covered(c) = known[r] \cup {id}
          /\ clock' = [clock EXCEPT ![r] = c]
          /\ known' = [known EXCEPT ![r] = known[r] \cup {id}]
          /\ changes' = changes \cup {[id |-> id, clock |-> c, past |-> known[r]]}
<1> DEFINE c == Increment(clock[r], r)
           id == <<r, c[r]>>
<1>1. clock[r] \in Clock /\ CanIncrement(clock[r], r) /\ Covered(clock[r]) = known[r]
  BY DEF ClockInv, ReplicaTypeOK, ClocksAreHistories, Change
<1>2. c \in Clock /\ id = <<r, Get(clock[r], r) + 1>>
  BY <1>1, IncrementGet
<1>3. id \in Ids \ known[r] /\ Covered(c) = known[r] \cup {id}
  BY <1>1, <1>2, IncrementCovers
<1>4. /\ clock' = [clock EXCEPT ![r] = c]
      /\ known' = [known EXCEPT ![r] = known[r] \cup {id}]
      /\ changes' = changes \cup {[id |-> id, clock |-> c, past |-> known[r]]}
  BY DEF Change
<1> HIDE DEF c
<1>5. id[1] = r
  OBVIOUS
<1> QED BY <1>2, <1>3, <1>4, <1>5

(* Making a change keeps clocks and histories alike.                        *)
LEMMA ChangeKeeps ==
  ASSUME ClockInv, NEW r \in Replicas, Change(r)
  PROVE ClockInv'
<1>1. PICK id \in Ids \ known[r], c \in Clock :
        /\ id[1] = r
        /\ Covered(c) = known[r] \cup {id}
        /\ clock' = [clock EXCEPT ![r] = c]
        /\ known' = [known EXCEPT ![r] = known[r] \cup {id}]
        /\ changes' = changes \cup {[id |-> id, clock |-> c, past |-> known[r]]}
  BY ChangeStep
<1>2. ReplicaTypeOK'
  BY <1>1 DEF ClockInv, ReplicaTypeOK
<1>3. \A x \in Replicas : Covered(clock'[x]) = known'[x]
  BY <1>1 DEF ClockInv, ReplicaTypeOK, ClocksAreHistories
<1>4. \A m \in changes' : Covered(m.clock) = m.past \cup {m.id}
  BY <1>1 DEF ClockInv, ClocksAreHistories
<1>5. ClocksAreHistories'
  BY <1>3, <1>4 DEF ClocksAreHistories, Covered
<1> QED BY <1>2, <1>5 DEF ClockInv

(* Receiving one keeps them alike, however late or often it arrives.        *)
LEMMA ReceiveKeeps ==
  ASSUME ClockInv, NEW r \in Replicas, NEW m \in changes, Receive(r, m)
  PROVE ClockInv'
<1>1. /\ clock[r] \in Clock /\ m.clock \in Clock
      /\ Covered(clock[r]) = known[r] /\ Covered(m.clock) = m.past \cup {m.id}
  BY DEF ClockInv, ReplicaTypeOK, ClocksAreHistories
<1>2. /\ clock' = [clock EXCEPT ![r] = Merged(clock[r], m.clock)]
      /\ known' = [known EXCEPT ![r] = known[r] \cup m.past \cup {m.id}]
      /\ changes' = changes
  BY DEF Receive
<1>3. Merged(clock[r], m.clock) \in Clock
  BY <1>1, MergedGet
<1>4. Covered(Merged(clock[r], m.clock)) = known[r] \cup m.past \cup {m.id}
  BY <1>1, MergedCovers
<1>5. ReplicaTypeOK'
  BY <1>2, <1>3 DEF ClockInv, ReplicaTypeOK
<1>6. \A x \in Replicas : Covered(clock'[x]) = known'[x]
  BY <1>2, <1>4 DEF ClockInv, ReplicaTypeOK, ClocksAreHistories
<1>7. ClocksAreHistories'
  BY <1>2, <1>6 DEF ClockInv, ClocksAreHistories, Covered
<1> QED BY <1>5, <1>7 DEF ClockInv

(* Restarting gives the clock back as it was.                               *)
LEMMA RestartKeeps ==
  ASSUME ClockInv, NEW r \in Replicas, Restart(r)
  PROVE UNCHANGED replicaVars
<1>1. clock[r] \in Clock /\ clock \in [Replicas -> Clock]
  BY DEF ClockInv, ReplicaTypeOK
<1>2. clock' = [clock EXCEPT ![r] = clock[r]]
  BY <1>1, RestoredClock DEF Restart
<1> QED BY <1>1, <1>2 DEF Restart, replicaVars

(* Replicas that know nothing have empty clocks.                            *)
LEMMA ReplicaInitClocks == ReplicaInit => ClockInv
<1> SUFFICES ASSUME ReplicaInit PROVE ClockInv
  OBVIOUS
<1>1. EmptyClock \in Clock /\ DOMAIN EmptyClock = {}
  BY ClockFunction DEF EmptyClock
<1>2. Covered(EmptyClock) = {}
  BY <1>1, ClockAssumption DEF Covered, Get, Ids
<1> QED BY <1>1, <1>2 DEF ReplicaInit, ClockInv, ReplicaTypeOK, ClocksAreHistories

(* A step of the replicas keeps clocks and histories alike.                 *)
LEMMA ReplicaNextClocks == ClockInv /\ [ReplicaNext]_replicaVars => ClockInv'
<1> SUFFICES ASSUME ClockInv, [ReplicaNext]_replicaVars PROVE ClockInv'
  OBVIOUS
<1>1. CASE UNCHANGED replicaVars
  BY <1>1 DEF ClockInv, ReplicaTypeOK, ClocksAreHistories, Covered, replicaVars
<1>2. ASSUME NEW r \in Replicas, Change(r) PROVE ClockInv'
  BY <1>2, ChangeKeeps
<1>3. ASSUME NEW r \in Replicas, Restart(r) PROVE ClockInv'
  BY <1>1, <1>3, RestartKeeps
<1>4. ASSUME NEW r \in Replicas, NEW m \in changes, Receive(r, m) PROVE ClockInv'
  BY <1>4, ReceiveKeeps
<1> QED BY <1>1, <1>2, <1>3, <1>4 DEF ReplicaNext

(* The clock of a replica, and the clock of a change, cover exactly what it *)
(* was made in knowledge of: from_counters, increment and merge of sync.rs, *)
(* whatever order and however often changes are received.                   *)
THEOREM ClocksAlwaysHistories == ReplicaSpec => [](ReplicaTypeOK /\ ClocksAreHistories)
<1>1. ClockInv => ReplicaTypeOK /\ ClocksAreHistories
  BY DEF ClockInv
<1> QED BY <1>1, ReplicaInitClocks, ReplicaNextClocks, PTL DEF ReplicaSpec

-----------------------------------------------------------------------------
(* Compare is causality.  That the counters agree with the histories is not *)
(* enough: histories must also be closed, and ids unique, for a comparison  *)
(* of sets to tell who knew of whom.                                        *)

(* Whoever knows of a change knows all it was made in knowledge of, and     *)
(* every change anybody knows of is known to its author.                    *)
Closed(S) == \A a \in changes : a.id \in S => a.past \subseteq S

(* Every change of S is known to the replica that made it.                  *)
Known(S) == \A id \in S : id[1] \in Replicas /\ id \in known[id[1]]

(* What is known is closed downwards, and the ids of changes are unique.    *)
CausalInv ==
  /\ \A a \in changes : a.id \notin a.past /\ Known(a.past \cup {a.id}) /\ Closed(a.past)
  /\ \A a, b \in changes : a.id = b.id => a = b
  /\ \A r \in Replicas : Known(known[r]) /\ Closed(known[r])

(* A new change is new to everybody and known in full to its author.        *)
LEMMA ChangeKeepsCausal ==
  ASSUME ClockInv, CausalInv, NEW r \in Replicas, Change(r)
  PROVE CausalInv'
<1>1. PICK id \in Ids \ known[r], c \in Clock :
        /\ id[1] = r
        /\ Covered(c) = known[r] \cup {id}
        /\ clock' = [clock EXCEPT ![r] = c]
        /\ known' = [known EXCEPT ![r] = known[r] \cup {id}]
        /\ changes' = changes \cup {[id |-> id, clock |-> c, past |-> known[r]]}
  BY ChangeStep
<1>. PICK new : new = [id |-> id, clock |-> c, past |-> known[r]]
  OBVIOUS
<1>2. new.id = id /\ new.past = known[r] /\ changes' = changes \cup {new}
  BY <1>1
<1>3. \A x \in Replicas : id \notin known[x]
  BY <1>1 DEF CausalInv, Known
<1>4. \A a \in changes : id \notin a.past /\ id # a.id
  BY <1>1, <1>3 DEF CausalInv, Known
<1>5. known \in [Replicas -> SUBSET Ids]
  BY DEF ClockInv, ReplicaTypeOK
<1>6. \A x \in Replicas : known'[x] = IF x = r THEN known[r] \cup {id} ELSE known[x]
  BY <1>1, <1>5
<1>7. \A S : Known(S) => Known(S)' /\ Known(S \cup {id})'
  BY <1>1, <1>6 DEF Known
<1>8. \A S : Closed(S) /\ id \notin S => Closed(S)'
  BY <1>2 DEF Closed
<1>9. \A a \in changes' :
        a.id \notin a.past /\ Known(a.past \cup {a.id})' /\ Closed(a.past)'
  <2>1. ASSUME NEW a \in changes
        PROVE a.id \notin a.past /\ Known(a.past \cup {a.id})' /\ Closed(a.past)'
    BY <1>4, <1>7, <1>8 DEF CausalInv
  <2>2. new.id \notin new.past /\ Known(new.past \cup {new.id})' /\ Closed(new.past)'
    BY <1>2, <1>3, <1>7, <1>8 DEF CausalInv
  <2> QED BY <1>2, <2>1, <2>2
<1>10. \A a, b \in changes' : a.id = b.id => a = b
  BY <1>2, <1>4 DEF CausalInv
<1>11. \A x \in Replicas : Known(known[x])' /\ Closed(known[x])'
  <2>1. ASSUME NEW x \in Replicas, x # r PROVE Known(known[x])' /\ Closed(known[x])'
    <3>1. known'[x] = known[x] /\ id \notin known[x] /\ Known(known[x]) /\ Closed(known[x])
      BY <2>1, <1>3, <1>6 DEF CausalInv
    <3> QED BY <3>1, <1>2, <1>6 DEF Known, Closed
  <2>2. Known(known[r])'
    BY <1>1, <1>6 DEF Known, CausalInv
  <2>3. Closed(known[r])'
    BY <1>2, <1>4, <1>6 DEF Closed, CausalInv
  <2> QED BY <2>1, <2>2, <2>3
<1> QED BY <1>9, <1>10, <1>11 DEF CausalInv

(* What a replica receives it receives with all that is behind it.          *)
LEMMA ReceiveKeepsCausal ==
  ASSUME ClockInv, CausalInv, NEW r \in Replicas, NEW m \in changes, Receive(r, m)
  PROVE CausalInv'
<1>1. known \in [Replicas -> SUBSET Ids]
  BY DEF ClockInv, ReplicaTypeOK
<1>2. /\ changes' = changes
      /\ \A x \in Replicas :
           known'[x] = IF x = r THEN known[r] \cup m.past \cup {m.id} ELSE known[x]
  BY <1>1 DEF Receive
<1>3. \A S : Known(S) => \A id \in S : id[1] \in Replicas /\ id \in known'[id[1]]
  BY <1>2 DEF Known
<1>4. ASSUME NEW a \in changes
      PROVE a.id \notin a.past /\ Known(a.past \cup {a.id})' /\ Closed(a.past)'
  BY <1>2, <1>3 DEF CausalInv, Closed, Known
<1>5. ASSUME NEW x \in Replicas PROVE Known(known[x])'
  BY <1>2, <1>3 DEF CausalInv, Known
<1>6. ASSUME NEW x \in Replicas PROVE Closed(known[x])'
  <2>1. CASE x = r
    <3>1. ASSUME NEW a \in changes, a.id \in known[r] \cup m.past \cup {m.id}
          PROVE a.past \subseteq known[r] \cup m.past \cup {m.id}
      BY <3>1 DEF CausalInv, Closed
    <3> QED BY <2>1, <3>1, <1>2 DEF Closed
  <2>2. CASE x # r
    BY <2>2, <1>2 DEF Closed, CausalInv
  <2> QED BY <2>1, <2>2
<1> QED BY <1>2, <1>4, <1>5, <1>6 DEF CausalInv

(* Local changes and deliveries keep it.                                    *)
LEMMA ReplicaNextCausal ==
  ClockInv /\ CausalInv /\ [ReplicaNext]_replicaVars => CausalInv'
<1> SUFFICES ASSUME ClockInv, CausalInv, [ReplicaNext]_replicaVars PROVE CausalInv'
  OBVIOUS
<1>1. CASE UNCHANGED replicaVars
  BY <1>1 DEF CausalInv, Known, Closed, replicaVars
<1>2. ASSUME NEW r \in Replicas, Change(r) PROVE CausalInv'
  BY <1>2, ChangeKeepsCausal
<1>3. ASSUME NEW r \in Replicas, Restart(r) PROVE CausalInv'
  BY <1>1, <1>3, RestartKeeps
<1>4. ASSUME NEW r \in Replicas, NEW m \in changes, Receive(r, m) PROVE CausalInv'
  BY <1>4, ReceiveKeepsCausal
<1> QED BY <1>1, <1>2, <1>3, <1>4 DEF ReplicaNext

(* A change's clock covers another's exactly when it is that change or was  *)
(* made in knowledge of it.                                                 *)
LEMMA CoversIsKnows ==
  ASSUME ClockInv, CausalInv, NEW a \in changes, NEW b \in changes
  PROVE Covered(a.clock) \subseteq Covered(b.clock) <=> a.id = b.id \/ a.id \in b.past
<1>1. Covered(a.clock) = a.past \cup {a.id} /\ Covered(b.clock) = b.past \cup {b.id}
  BY DEF ClockInv, ClocksAreHistories
<1>2. a.id = b.id => a = b
  BY DEF CausalInv
<1>3. a.id \in b.past => a.past \subseteq b.past
  BY DEF CausalInv, Closed
<1> QED BY <1>1, <1>2, <1>3

(* Clocks that are histories are compared as the histories are.             *)
LEMMA CompareCausal == ClockInv /\ CausalInv => CompareIsCausality
<1> SUFFICES ASSUME ClockInv, CausalInv, NEW a \in changes, NEW b \in changes
             PROVE Compare(a.clock, b.clock) =
                     CASE a.id = b.id -> "Equal"
                       [] a.id \in b.past -> "Before"
                       [] b.id \in a.past -> "After"
                       [] OTHER -> "Concurrent"
  BY DEF CompareIsCausality
<1>1. a.clock \in Clock /\ b.clock \in Clock
  BY DEF ClockInv, ReplicaTypeOK
<1>2. /\ HasLower(a.clock, b.clock) <=> ~(b.id = a.id \/ b.id \in a.past)
      /\ HasHigher(a.clock, b.clock) <=> ~(a.id = b.id \/ a.id \in b.past)
  BY <1>1, CompareCovered, CoversIsKnows
<1>3. ~(a.id \in b.past /\ b.id \in a.past)
  BY DEF CausalInv, Closed
<1>4. a.id = b.id => a.id \notin b.past /\ b.id \notin a.past
  BY DEF CausalInv
<1>5. CASE a.id = b.id
  BY <1>2, <1>4, <1>5 DEF Compare
<1>6. CASE a.id \in b.past
  BY <1>2, <1>3, <1>4, <1>6 DEF Compare
<1>7. CASE b.id \in a.past
  BY <1>2, <1>3, <1>4, <1>7 DEF Compare
<1>8. CASE a.id # b.id /\ a.id \notin b.past /\ b.id \notin a.past
  BY <1>2, <1>8 DEF Compare
<1> QED BY <1>5, <1>6, <1>7, <1>8

(* Classifying two changes depends on their clocks only in whether they are *)
(* concurrent.                                                              *)
LEMMA ConflictCases ==
  ASSUME NEW a, NEW b, NEW x \in Content, NEW y \in Content
  PROVE LET concurrent == Compare(a.clock, b.clock) = "Concurrent" IN
        ConflictKind(With(a, x), With(b, y)) =
          CASE x.object # y.object -> "NoConflict"
            [] x.object = y.object /\ x.schema # y.schema -> "SchemaMismatch"
            [] x.object = y.object /\ x.schema = y.schema /\ ~concurrent -> "NoConflict"
            [] x.object = y.object /\ x.schema = y.schema /\ concurrent ->
                 IF "PermissionChange" \in {x.kind, y.kind} THEN "PermissionChange"
                 ELSE IF (x.kind = "Delete") # (y.kind = "Delete") THEN "DeleteUpdate"
                 ELSE IF {x.kind, y.kind} \subseteq EditLike THEN "ConcurrentEdit"
                 ELSE "NoConflict"
BY DEF ConflictKind, With

(* So changes that race are conflicts.                                      *)
LEMMA RacesCausal == CompareIsCausality => RacesAreConflicts
<1> SUFFICES ASSUME CompareIsCausality, NEW a \in changes, NEW b \in changes,
                    NEW x \in Content, NEW y \in Content
             PROVE LET kind == ConflictKind(With(a, x), With(b, y))
                       race == a.id # b.id /\ a.id \notin b.past /\ b.id \notin a.past
                   IN /\ kind = ConflictKind(With(b, y), With(a, x))
                      /\ kind # "NoConflict" <=>
                           /\ x.object = y.object
                           /\ x.schema # y.schema \/ (race /\ {x.kind, y.kind} # {"Delete"})
  BY DEF RacesAreConflicts
<1> DEFINE race == a.id # b.id /\ a.id \notin b.past /\ b.id \notin a.past
<1>1. Compare(a.clock, b.clock) = "Concurrent" <=> race
  BY DEF CompareIsCausality
<1>2. Compare(b.clock, a.clock) = "Concurrent" <=> race
  BY DEF CompareIsCausality
<1>3. x.kind \in ChangeKind /\ y.kind \in ChangeKind
  BY DEF Content
<1>4. \A k \in ChangeKind : k \in EditLike \cup {"Delete", "PermissionChange"}
  BY DEF ChangeKind, EditLike
<1>5. "Delete" \notin EditLike /\ "PermissionChange" \notin EditLike
  BY DEF EditLike
<1> HIDE DEF race
<1>6. ConflictKind(With(a, x), With(b, y)) = ConflictKind(With(b, y), With(a, x))
  BY <1>1, <1>2, ConflictCases
<1>7. ConflictKind(With(a, x), With(b, y)) # "NoConflict" <=>
        /\ x.object = y.object
        /\ x.schema # y.schema \/ (race /\ {x.kind, y.kind} # {"Delete"})
  BY <1>1, <1>3, <1>4, <1>5, ConflictCases, SMTT(30)
<1> QED BY <1>6, <1>7 DEF race

(* Replicas that know nothing satisfy it.                                   *)
LEMMA ReplicaInitCausal == ReplicaInit => CausalInv
BY DEF ReplicaInit, CausalInv, Known, Closed

(* compare of sync.rs decides causality: of two changes, whoever made them  *)
(* and however they travelled, Before, After and Concurrent say which was   *)
(* made in knowledge of which.                                              *)
THEOREM CompareAlwaysCausality == ReplicaSpec => []CompareIsCausality
BY ReplicaInitClocks, ReplicaNextClocks, ReplicaInitCausal, ReplicaNextCausal, CompareCausal,
   PTL DEF ReplicaSpec

(* classify_conflict loses no race, and both replicas classify it alike.    *)
THEOREM RacesAlwaysConflicts == ReplicaSpec => []RacesAreConflicts
BY CompareAlwaysCausality, RacesCausal, PTL

-----------------------------------------------------------------------------
(* EVENT LOGS (EventLog), for any logs, writers, bodies and bound: logs are *)
(* chains for any digest, and under a digest without collisions the tip of  *)
(* a log speaks for all of it.                                              *)

(* What digests are worth nothing is assumed of: any value may be one.      *)
IsLog(s) == \E S : s \in Seq(S)

(* A chain, link by link.                                                   *)
Linked(s) ==
  \A i \in 1 .. Len(s) :
    /\ s[i].sequence = i
    /\ s[i].previous = IF i = 1 THEN None ELSE Digest(s[i - 1])

(* The types, and chains.                                                   *)
ChainInv ==
  /\ logs = [l \in Logs |-> logs[l]]
  /\ \A l \in Logs : IsLog(logs[l]) /\ Linked(logs[l])

-----------------------------------------------------------------------------
(* A log and one envelope more.                                             *)
LEMMA AppendLog ==
  ASSUME NEW s, IsLog(s), NEW e
  PROVE /\ IsLog(Append(s, e))
        /\ Len(s) \in Nat
        /\ Len(Append(s, e)) = Len(s) + 1
        /\ DOMAIN s = 1 .. Len(s)
        /\ \A i \in 1 .. Len(s) : Append(s, e)[i] = s[i]
        /\ Append(s, e)[Len(s) + 1] = e
<1>1. PICK S : s \in Seq(S)
  BY DEF IsLog
<1>2. s \in Seq(S \cup {e}) /\ e \in S \cup {e}
  BY <1>1
<1>3. Append(s, e) \in Seq(S \cup {e})
  BY <1>2
<1>4. IsLog(Append(s, e))
  BY <1>3 DEF IsLog
<1> QED BY <1>2, <1>4

(* The beginning of a log.                                                  *)
LEMMA LogPrefix ==
  ASSUME NEW s, IsLog(s), NEW n \in 0 .. Len(s)
  PROVE /\ SubSeq(s, 1, n) = [i \in 1 .. n |-> s[i]]
        /\ Len(SubSeq(s, 1, n)) = n
<1>1. PICK S : s \in Seq(S)
  BY DEF IsLog
<1> QED BY <1>1

(* A chain is one by its links.                                             *)
LEMMA ChainIsLinked == ChainInv => LogsAreChains
<1> SUFFICES ASSUME ChainInv, NEW l \in Logs, NEW i \in DOMAIN logs[l]
             PROVE /\ logs[l][i].sequence = i
                   /\ logs[l][i].previous = LastDigest(SubSeq(logs[l], 1, i - 1))
  BY DEF LogsAreChains
<1>1. PICK s : s = logs[l]
  OBVIOUS
<1>2. IsLog(s) /\ Linked(s) /\ i \in 1 .. Len(s) /\ Len(s) \in Nat
  BY <1>1, AppendLog DEF ChainInv
<1>3. i - 1 \in 0 .. Len(s)
  BY <1>2
<1>4. SubSeq(s, 1, i - 1) = [k \in 1 .. i - 1 |-> s[k]] /\ Len(SubSeq(s, 1, i - 1)) = i - 1
  BY <1>2, <1>3, LogPrefix
<1>5. LastDigest(SubSeq(s, 1, i - 1)) = IF i = 1 THEN None ELSE Digest(s[i - 1])
  <2>1. CASE i = 1
    <3>1. SubSeq(s, 1, i - 1) = <<>>
      BY <1>4, <2>1
    <3> QED BY <2>1, <3>1 DEF LastDigest
  <2>2. CASE i # 1
    <3>1. SubSeq(s, 1, i - 1) # <<>> /\ SubSeq(s, 1, i - 1)[i - 1] = s[i - 1]
      BY <1>2, <1>4, <2>2
    <3> QED BY <1>4, <2>2, <3>1 DEF LastDigest
  <2> QED BY <2>1, <2>2
<1> QED BY <1>1, <1>2, <1>5 DEF Linked

-----------------------------------------------------------------------------
(* What append and clone do to a log.                                       *)
LEMMA AppendToLog ==
  ASSUME ChainInv, NEW l \in Logs, NEW w \in Writers, AppendTo(l, w)
  PROVE \E s, e :
          /\ s = logs[l] /\ IsLog(s) /\ Linked(s)
          /\ logs' = [logs EXCEPT ![l] = Append(s, e)]
          /\ e.sequence = Len(s) + 1
          /\ e.previous = IF Len(s) = 0 THEN None ELSE Digest(s[Len(s)])
<1>1. PICK s, e : s = logs[l] /\ e = draft[w]
  OBVIOUS
<1>2. IsLog(s) /\ Linked(s)
  BY <1>1 DEF ChainInv
<1>3. logs' = [logs EXCEPT ![l] = Append(s, e)] /\ Appendable(s, e)
  BY <1>1 DEF AppendTo
<1>4. s = <<>> <=> Len(s) = 0
  BY <1>2 DEF IsLog
<1>5. /\ e.sequence = Len(s) + 1
      /\ e.previous = IF Len(s) = 0 THEN None ELSE Digest(s[Len(s)])
  BY <1>3, <1>4 DEF Appendable, NextSequence, LastDigest
<1> QED BY <1>1, <1>2, <1>3, <1>5

(* An append links to the tip it checked, so it keeps the chains.           *)
LEMMA LogNextChains == ChainInv /\ [LogNext]_logVars => ChainInv'
<1> SUFFICES ASSUME ChainInv, [LogNext]_logVars PROVE ChainInv'
  OBVIOUS
<1>1. CASE UNCHANGED logs
  BY <1>1 DEF ChainInv
<1>2. ASSUME NEW l \in Logs, NEW w \in Writers, AppendTo(l, w) PROVE ChainInv'
  <2>1. PICK s, e :
          /\ s = logs[l] /\ IsLog(s) /\ Linked(s)
          /\ logs' = [logs EXCEPT ![l] = Append(s, e)]
          /\ e.sequence = Len(s) + 1
          /\ e.previous = IF Len(s) = 0 THEN None ELSE Digest(s[Len(s)])
    BY <1>2, AppendToLog
  <2>2. PICK t : t = Append(s, e)
    OBVIOUS
  <2>3. /\ IsLog(t) /\ Len(s) \in Nat /\ Len(t) = Len(s) + 1
        /\ \A i \in 1 .. Len(s) : t[i] = s[i]
        /\ t[Len(s) + 1] = e
    BY <2>1, <2>2, AppendLog
  <2>4. Linked(t)
    <3> SUFFICES ASSUME NEW i \in 1 .. Len(t)
                 PROVE /\ t[i].sequence = i
                       /\ t[i].previous = IF i = 1 THEN None ELSE Digest(t[i - 1])
      BY DEF Linked
    <3>1. CASE i = Len(s) + 1
      <4>1. Len(s) # 0 => i # 1 /\ i - 1 = Len(s) /\ t[i - 1] = s[Len(s)]
        BY <2>3, <3>1
      <4> QED BY <2>1, <2>3, <3>1, <4>1
    <3>2. CASE i # Len(s) + 1
      <4>1. i \in 1 .. Len(s) /\ t[i] = s[i] /\ (i # 1 => t[i - 1] = s[i - 1])
        BY <2>3, <3>2
      <4> QED BY <2>1, <4>1 DEF Linked
    <3> QED BY <3>1, <3>2
  <2>5. logs' = [logs EXCEPT ![l] = t]
    BY <2>1, <2>2
  <2> QED BY <2>3, <2>4, <2>5 DEF ChainInv
<1>3. ASSUME NEW l \in Logs, NEW m \in Logs, Clone(l, m) PROVE ChainInv'
  BY <1>3 DEF ChainInv, Clone
<1>4. CASE LogNext
  BY <1>1, <1>2, <1>3, <1>4 DEF LogNext, Prepare, TakeUp, AppendRefused, logVars
<1> QED BY <1>1, <1>4 DEF logVars

(* Empty logs are chains.                                                   *)
LEMMA LogInitChains == LogInit => ChainInv
<1>1. <<>> \in Seq({}) /\ Len(<<>>) = 0
  OBVIOUS
<1>2. IsLog(<<>>) /\ Linked(<<>>)
  BY <1>1 DEF IsLog, Linked
<1> QED BY <1>2 DEF LogInit, ChainInv

(* append of event_log.rs keeps every log a chain, whichever writers raced  *)
(* for its end with drafts of whatever age, and whatever the digest is.     *)
THEOREM LogsAlwaysChains == LogSpec => []LogsAreChains
BY LogInitChains, LogNextChains, ChainIsLinked, PTL DEF LogSpec

-----------------------------------------------------------------------------
(* The tip speaks for the log, if no two envelopes have one digest.         *)

(* Logs that agree: where two places hold the same digest the logs up to    *)
(* them are the same.                                                       *)
Agree(s, t) ==
  \A i \in 1 .. Len(s), j \in 1 .. Len(t) :
    Digest(s[i]) = Digest(t[j]) => i = j /\ \A k \in 1 .. i : s[k] = t[k]

(* All logs agree.                                                          *)
TipInv == \A l, m \in Logs : Agree(logs[l], logs[m])

(* A log that grows by an envelope of its own chain still agrees with any   *)
(* chain it agreed with.                                                    *)
LEMMA AgreeAppend ==
  ASSUME \A x, y : Digest(x) = Digest(y) => x = y,
         NEW s, NEW u, NEW e, IsLog(s), IsLog(u), Linked(u), Agree(s, u),
         e.sequence = Len(s) + 1,
         e.previous = IF Len(s) = 0 THEN None ELSE Digest(s[Len(s)])
  PROVE Agree(Append(s, e), u) /\ Agree(u, Append(s, e))
<1>1. PICK t : t = Append(s, e)
  OBVIOUS
<1>2. /\ Len(s) \in Nat /\ Len(u) \in Nat /\ Len(t) = Len(s) + 1
      /\ \A i \in 1 .. Len(s) : t[i] = s[i]
      /\ t[Len(s) + 1] = e
  BY <1>1, AppendLog
<1>3. ASSUME NEW i \in 1 .. Len(t), NEW j \in 1 .. Len(u), Digest(t[i]) = Digest(u[j])
      PROVE i = j /\ \A k \in 1 .. i : t[k] = u[k]
  <2>1. CASE i # Len(s) + 1
    <3>1. i \in 1 .. Len(s) /\ t[i] = s[i]
      BY <1>2, <2>1
    <3>2. i = j /\ \A k \in 1 .. i : s[k] = u[k]
      BY <1>3, <3>1 DEF Agree
    <3> QED BY <1>2, <3>1, <3>2
  <2>2. CASE i = Len(s) + 1
    <3>1. t[i] = u[j]
      BY <1>3
    <3>2. j = i /\ u[i].previous = e.previous
      BY <1>2, <2>2, <3>1 DEF Linked
    <3>3. ASSUME NEW k \in 1 .. Len(s) PROVE s[k] = u[k]
      <4>1. Len(s) # 0 /\ Len(s) \in 1 .. Len(s) /\ Len(s) \in 1 .. Len(u) /\ i # 1 /\ i - 1 = Len(s)
        BY <1>2, <2>2, <3>2
      <4>2. Digest(s[Len(s)]) = Digest(u[Len(s)])
        BY <3>2, <4>1 DEF Linked
      <4>3. \A n \in 1 .. Len(s) : s[n] = u[n]
        BY <4>1, <4>2 DEF Agree
      <4> QED BY <4>3
    <3> QED BY <1>2, <2>2, <3>1, <3>2, <3>3
  <2> QED BY <2>1, <2>2
<1>4. Agree(t, u)
  BY <1>3 DEF Agree
<1>5. Agree(u, t)
  <2> SUFFICES ASSUME NEW j \in 1 .. Len(u), NEW i \in 1 .. Len(t), Digest(u[j]) = Digest(t[i])
               PROVE j = i /\ \A k \in 1 .. j : u[k] = t[k]
    BY DEF Agree
  <2> QED BY <1>3
<1> QED BY <1>1, <1>4, <1>5

(* A chain agrees with itself.                                              *)
LEMMA AgreeSelf ==
  ASSUME \A x, y : Digest(x) = Digest(y) => x = y, NEW s, Linked(s)
  PROVE Agree(s, s)
<1> SUFFICES ASSUME NEW i \in 1 .. Len(s), NEW j \in 1 .. Len(s), Digest(s[i]) = Digest(s[j])
             PROVE i = j
  BY DEF Agree
<1>1. s[i] = s[j]
  OBVIOUS
<1> QED BY <1>1 DEF Linked

(* An append keeps the agreement, where no two envelopes share a digest.    *)
LEMMA LogNextTips ==
  ASSUME \A x, y : Digest(x) = Digest(y) => x = y
  PROVE ChainInv /\ ChainInv' /\ TipInv /\ [LogNext]_logVars => TipInv'
<1> SUFFICES ASSUME ChainInv, ChainInv', TipInv, [LogNext]_logVars PROVE TipInv'
  OBVIOUS
<1>1. CASE UNCHANGED logs
  BY <1>1 DEF TipInv
<1>2. ASSUME NEW l \in Logs, NEW w \in Writers, AppendTo(l, w) PROVE TipInv'
  <2>1. PICK s, e :
          /\ s = logs[l] /\ IsLog(s) /\ Linked(s)
          /\ logs' = [logs EXCEPT ![l] = Append(s, e)]
          /\ e.sequence = Len(s) + 1
          /\ e.previous = IF Len(s) = 0 THEN None ELSE Digest(s[Len(s)])
    BY <1>2, AppendToLog
  <2>2. PICK t : t = Append(s, e)
    OBVIOUS
  <2>3. \A m \in Logs : logs'[m] = IF m = l THEN t ELSE logs[m]
    BY <2>1, <2>2 DEF ChainInv
  <2>4. ASSUME NEW m \in Logs, m # l PROVE Agree(t, logs[m]) /\ Agree(logs[m], t)
    <3>1. PICK u : u = logs[m]
      OBVIOUS
    <3>2. IsLog(u) /\ Linked(u) /\ Agree(s, u)
      BY <2>1, <3>1 DEF ChainInv, TipInv
    <3> QED BY <2>1, <2>2, <3>1, <3>2, AgreeAppend
  <2>5. Linked(t)
    BY <2>3 DEF ChainInv
  <2>6. Agree(t, t)
    BY <2>5, AgreeSelf
  <2> QED BY <2>3, <2>4, <2>6 DEF TipInv
<1>3. ASSUME NEW l \in Logs, NEW m \in Logs, Clone(l, m) PROVE TipInv'
  <2>1. \A k \in Logs : logs'[k] = IF k = m THEN logs[l] ELSE logs[k]
    BY <1>3 DEF ChainInv, Clone
  <2> QED BY <2>1 DEF TipInv
<1>4. CASE LogNext
  BY <1>1, <1>2, <1>3, <1>4 DEF LogNext, Prepare, TakeUp, AppendRefused, logVars
<1> QED BY <1>1, <1>4 DEF logVars

(* Empty logs agree.                                                        *)
LEMMA LogInitTips == LogInit => TipInv
<1>1. Len(<<>>) = 0
  OBVIOUS
<1> QED BY <1>1 DEF LogInit, TipInv, Agree

(* Logs that agree and have one tip are the same.                           *)
LEMMA TipsAgree == ChainInv /\ TipInv => SameTipSameHistory
<1> SUFFICES ASSUME ChainInv, TipInv, NEW l \in Logs, NEW m \in Logs,
                    NEW i \in DOMAIN logs[l], NEW j \in DOMAIN logs[m],
                    Digest(logs[l][i]) = Digest(logs[m][j])
             PROVE i = j /\ SubSeq(logs[l], 1, i) = SubSeq(logs[m], 1, j)
  BY DEF SameTipSameHistory
<1>1. PICK s, t : s = logs[l] /\ t = logs[m]
  OBVIOUS
<1>2. IsLog(s) /\ IsLog(t) /\ Agree(s, t)
  BY <1>1 DEF ChainInv, TipInv
<1>3. Len(s) \in Nat /\ Len(t) \in Nat /\ i \in 1 .. Len(s) /\ j \in 1 .. Len(t)
  BY <1>1, <1>2, AppendLog
<1>4. i = j /\ \A k \in 1 .. i : s[k] = t[k]
  BY <1>1, <1>2, <1>3 DEF Agree
<1>5. i \in 0 .. Len(s) /\ j \in 0 .. Len(t)
  BY <1>3
<1>6. SubSeq(s, 1, i) = [k \in 1 .. i |-> s[k]] /\ SubSeq(t, 1, j) = [k \in 1 .. j |-> t[k]]
  BY <1>2, <1>5, LogPrefix
<1> QED BY <1>1, <1>4, <1>6

(* With a digest without collisions, envelopes of one digest stand at one   *)
(* place behind one history, in a log and in every clone of it that went on *)
(* by itself.                                                               *)
THEOREM SameTipAlwaysSameHistory ==
  ASSUME \A x, y : Digest(x) = Digest(y) => x = y
  PROVE LogSpec => []SameTipSameHistory
BY LogInitChains, LogInitTips, LogNextChains, LogNextTips, TipsAgree, PTL DEF LogSpec

-----------------------------------------------------------------------------
(* DEVICES AND INVITES (Enrollment), for any ids, tokens, hash and times.    *)

(* The conjuncts of the type of an invite.                                  *)
InviteOK(i) ==
  /\ i = [tokenHash |-> i.tokenHash, createdAt |-> i.createdAt, expiresAt |-> i.expiresAt,
          status |-> i.status, acceptedAt |-> i.acceptedAt, acceptedBy |-> i.acceptedBy]
  /\ i.createdAt \in Time /\ i.expiresAt \in Time
  /\ i.createdAt < i.expiresAt
  /\ i.status \in {"pending", "accepted", "expired"}
  /\ (i.status = "accepted") = (i.acceptedBy \in Devices)
  /\ (i.status = "accepted") = (i.acceptedAt \in Time)

(* Every invite is one, and the acceptances match.                          *)
InvitesInv ==
  /\ DOMAIN invites \subseteq Workspaces \X Invites
  /\ \A k \in DOMAIN invites : InviteOK(invites[k])
  /\ \A j \in joined : j = <<j[1], j[2]>> /\ j[1] \in DOMAIN invites
  /\ InvitesAreSingleUse

(* Devices are there once and their times are in order.                     *)
DevicesInv ==
  /\ DOMAIN devices \subseteq Workspaces \X Devices
  /\ \A k \in DOMAIN devices : devices[k] \in Device /\ devices[k].registeredAt <= devices[k].lastSeenAt

-----------------------------------------------------------------------------
(* Without devices and invites both hold.                                   *)
LEMMA EnrollmentInitially == EnrollmentInit => DevicesInv /\ InvitesInv
BY DEF EnrollmentInit, DevicesInv, InvitesInv, InvitesAreSingleUse

(* Times are numbers.                                                       *)
LEMMA Times == \A t \in Time : t \in Int /\ t >= 0
BY EnrollmentAssumption DEF Time

(* What a step may do to the devices is what RevocationSticks says, and it  *)
(* keeps their type.                                                        *)
DevicesStep ==
  \A k \in DOMAIN devices :
    /\ k \in DOMAIN devices'
    /\ Rank(devices[k].status) <= Rank(devices'[k].status)
    /\ devices[k].lastSeenAt <= devices'[k].lastSeenAt
    /\ devices[k].status # "active" => devices'[k].lastSeenAt = devices[k].lastSeenAt

(* A status ranks with itself.                                              *)
LEMMA RankOfSame == \A s \in {"active", "suspended", "removed"} : Rank(s) \in Int /\ Rank(s) <= Rank(s)
BY DEF Rank

(* A call that leaves the devices alone keeps what is said of them.         *)
LEMMA SameDevices ==
  ASSUME DevicesInv, devices' = devices
  PROVE  DevicesInv' /\ DevicesStep
<1>1. \A k \in DOMAIN devices :
        /\ Rank(devices[k].status) <= Rank(devices[k].status)
        /\ devices[k].lastSeenAt <= devices[k].lastSeenAt
  BY Times, RankOfSame DEF DevicesInv, Device
<1> QED
  BY <1>1 DEF DevicesInv, DevicesStep

(* So does registering a device, which is new.                              *)
LEMMA RegisterDevices ==
  ASSUME DevicesInv, NEW k \in Workspaces \X Devices, NEW at \in Time, NEW seen \in Time,
         Register(k, at, seen)
  PROVE  DevicesInv' /\ DevicesStep
<1>1. PICK d : d = [status |-> "active", registeredAt |-> at, lastSeenAt |-> seen]
  OBVIOUS
<1>2. /\ k \notin DOMAIN devices /\ at <= seen
      /\ DOMAIN devices' = DOMAIN devices \cup {k}
      /\ devices'[k] = d
      /\ \A x \in DOMAIN devices : devices'[x] = devices[x]
  BY <1>1 DEF Register
<1>3. d \in Device /\ d.registeredAt <= d.lastSeenAt
  BY <1>1, <1>2 DEF Device
<1>4. DevicesInv'
  BY <1>2, <1>3 DEF DevicesInv
<1>5. \A x \in DOMAIN devices :
        /\ Rank(devices[x].status) <= Rank(devices[x].status)
        /\ devices[x].lastSeenAt <= devices[x].lastSeenAt
  BY Times, RankOfSame DEF DevicesInv, Device
<1> QED
  BY <1>2, <1>4, <1>5 DEF DevicesStep

(* So does a sign of life, which is not before the last one.                *)
LEMMA SeenDevices ==
  ASSUME DevicesInv, NEW k \in Workspaces \X Devices, NEW at \in Time, UpdateLastSeen(k, at)
  PROVE  DevicesInv' /\ DevicesStep
<1>1. PICK d \in Device : d = devices[k] /\ k \in DOMAIN devices
  BY DEF UpdateLastSeen, DevicesInv
<1>2. PICK e : e = [d EXCEPT !.lastSeenAt = at]
  OBVIOUS
<1>3. /\ d.status = "active" /\ at >= d.registeredAt /\ at >= d.lastSeenAt
      /\ DOMAIN devices' = DOMAIN devices
      /\ devices'[k] = e
      /\ \A x \in DOMAIN devices \ {k} : devices'[x] = devices[x]
  BY <1>1, <1>2 DEF UpdateLastSeen, MaySee
<1>4. /\ e \in Device /\ e.registeredAt = d.registeredAt /\ e.lastSeenAt = at
      /\ e.status = d.status
  BY <1>1, <1>2 DEF Device
<1>5. e.registeredAt <= e.lastSeenAt /\ d.lastSeenAt <= e.lastSeenAt
  BY <1>1, <1>3, <1>4, Times DEF Device
<1>6. DevicesInv'
  BY <1>1, <1>3, <1>4, <1>5 DEF DevicesInv
<1>7. \A x \in DOMAIN devices :
        /\ Rank(devices[x].status) <= Rank(devices[x].status)
        /\ devices[x].lastSeenAt <= devices[x].lastSeenAt
  BY Times, RankOfSame DEF DevicesInv, Device
<1>8. ASSUME NEW x \in DOMAIN devices
      PROVE  /\ x \in DOMAIN devices'
             /\ Rank(devices[x].status) <= Rank(devices'[x].status)
             /\ devices[x].lastSeenAt <= devices'[x].lastSeenAt
             /\ devices[x].status # "active" => devices'[x].lastSeenAt = devices[x].lastSeenAt
  <2>1. CASE x = k
    BY <2>1, <1>1, <1>3, <1>4, <1>5, <1>7
  <2>2. CASE x # k
    BY <2>2, <1>3, <1>7
  <2> QED
    BY <2>1, <2>2
<1> QED
  BY <1>6, <1>8 DEF DevicesStep

(* So does a change of status, which never goes back.                       *)
LEMMA StatusDevices ==
  ASSUME DevicesInv, NEW k \in Workspaces \X Devices, NEW status \in {"suspended", "removed"},
         SetStatus(k, status)
  PROVE  DevicesInv' /\ DevicesStep
<1>1. PICK d \in Device : d = devices[k] /\ k \in DOMAIN devices
  BY DEF SetStatus, DevicesInv
<1>2. PICK e : e = [d EXCEPT !.status = status]
  OBVIOUS
<1>3. /\ ~(status = "suspended" /\ d.status = "removed")
      /\ DOMAIN devices' = DOMAIN devices
      /\ devices'[k] = e
      /\ \A x \in DOMAIN devices \ {k} : devices'[x] = devices[x]
  BY <1>1, <1>2 DEF SetStatus, MaySet
<1>4. /\ e \in Device /\ e.registeredAt = d.registeredAt /\ e.lastSeenAt = d.lastSeenAt
      /\ e.status = status
  BY <1>1, <1>2 DEF Device
<1>5. Rank(d.status) <= Rank(e.status)
  BY <1>1, <1>3, <1>4 DEF Rank, Device
<1>6. DevicesInv'
  BY <1>1, <1>3, <1>4 DEF DevicesInv
<1>7. \A x \in DOMAIN devices :
        /\ Rank(devices[x].status) <= Rank(devices[x].status)
        /\ devices[x].lastSeenAt <= devices[x].lastSeenAt
  BY Times, RankOfSame DEF DevicesInv, Device
<1>8. ASSUME NEW x \in DOMAIN devices
      PROVE  /\ x \in DOMAIN devices'
             /\ Rank(devices[x].status) <= Rank(devices'[x].status)
             /\ devices[x].lastSeenAt <= devices'[x].lastSeenAt
             /\ devices[x].status # "active" => devices'[x].lastSeenAt = devices[x].lastSeenAt
  <2>1. CASE x = k
    BY <2>1, <1>1, <1>3, <1>4, <1>5, <1>7
  <2>2. CASE x # k
    BY <2>2, <1>3, <1>7
  <2> QED
    BY <2>1, <2>2
<1> QED
  BY <1>6, <1>8 DEF DevicesStep

-----------------------------------------------------------------------------
(* A call that leaves the invites alone keeps what is said of them.         *)
LEMMA SameInvites ==
  ASSUME InvitesInv, invites' = invites, joined' = joined
  PROVE  InvitesInv'
BY DEF InvitesInv, InvitesAreSingleUse

(* A new invite is nobody's yet.                                            *)
LEMMA CreateInvites ==
  ASSUME InvitesInv, NEW k \in Workspaces \X Invites, NEW token \in Tokens,
         NEW at \in Time, NEW expiresAt \in Time, CreateInvite(k, token, at, expiresAt)
  PROVE  InvitesInv'
<1>1. PICK i : i = [tokenHash |-> Hash(token), createdAt |-> at, expiresAt |-> expiresAt,
                    status |-> "pending", acceptedAt |-> -1, acceptedBy |-> Nobody]
  OBVIOUS
<1>2. /\ k \notin DOMAIN invites /\ at < expiresAt /\ joined' = joined
      /\ DOMAIN invites' = DOMAIN invites \cup {k}
      /\ invites'[k] = i
      /\ \A x \in DOMAIN invites : invites'[x] = invites[x]
  BY <1>1 DEF CreateInvite
<1>3. -1 \notin Time /\ Nobody \notin Devices
  BY Times, EnrollmentAssumption DEF Nobody
<1>4. InviteOK(i)
  <2>1. /\ i.createdAt = at /\ i.expiresAt = expiresAt /\ i.status = "pending"
        /\ i.acceptedAt = -1 /\ i.acceptedBy = Nobody
        /\ i = [tokenHash |-> i.tokenHash, createdAt |-> i.createdAt, expiresAt |-> i.expiresAt,
                status |-> i.status, acceptedAt |-> i.acceptedAt, acceptedBy |-> i.acceptedBy]
    BY <1>1
  <2> QED
    BY <2>1, <1>2, <1>3 DEF InviteOK
<1> QED
  BY <1>2, <1>4 DEF InvitesInv, InvitesAreSingleUse

(* An invite can be accepted only while nobody has accepted it.             *)
LEMMA AcceptInvites ==
  ASSUME InvitesInv, NEW k \in Workspaces \X Invites, NEW token \in Tokens,
         NEW at \in Time, NEW device \in Devices, AcceptInvite(k, token, at, device)
  PROVE  InvitesInv'
<1>1. PICK i : i = invites[k] /\ k \in DOMAIN invites /\ InviteOK(i)
  BY DEF AcceptInvite, InvitesInv
<1>2. PICK n : n = [i EXCEPT !.status = "accepted", !.acceptedAt = at, !.acceptedBy = device]
  OBVIOUS
<1>3. /\ i.status # "accepted" /\ ~(i.expiresAt <= at)
      /\ joined' = joined \cup {<<k, device>>}
      /\ DOMAIN invites' = DOMAIN invites
      /\ invites'[k] = n
      /\ \A x \in DOMAIN invites \ {k} : invites'[x] = invites[x]
  BY <1>1, <1>2 DEF AcceptInvite, MayAccept, InviteExpired
<1>4. /\ n.createdAt = i.createdAt /\ n.expiresAt = i.expiresAt /\ n.status = "accepted"
      /\ n.acceptedAt = at /\ n.acceptedBy = device
      /\ n = [tokenHash |-> n.tokenHash, createdAt |-> n.createdAt, expiresAt |-> n.expiresAt,
              status |-> n.status, acceptedAt |-> n.acceptedAt, acceptedBy |-> n.acceptedBy]
  BY <1>1, <1>2 DEF InviteOK
<1>5. InviteOK(n)
  BY <1>1, <1>4 DEF InviteOK
<1>6. \A j \in joined : j[1] # k /\ j[1] \in DOMAIN invites /\ j = <<j[1], j[2]>>
  BY <1>1, <1>3 DEF InvitesInv, InvitesAreSingleUse
<1>7. \A j \in joined' : j = <<j[1], j[2]>> /\ j[1] \in DOMAIN invites'
  BY <1>1, <1>3, <1>6
<1>8. InvitesAreSingleUse'
  <2>1. ASSUME NEW j \in joined
        PROVE  /\ \A other \in joined' : other[1] = j[1] => other = j
               /\ invites'[j[1]].status = "accepted" /\ invites'[j[1]].acceptedBy = j[2]
               /\ ~InviteExpired(invites'[j[1]], invites'[j[1]].acceptedAt)
    <3>1. \A other \in joined : other[1] = j[1] => other = j
      BY DEF InvitesInv, InvitesAreSingleUse
    <3> QED
      BY <3>1, <1>3, <1>6 DEF InvitesInv, InvitesAreSingleUse
  <2>2. /\ \A other \in joined' : other[1] = k => other = <<k, device>>
        /\ invites'[k].status = "accepted" /\ invites'[k].acceptedBy = device
        /\ ~InviteExpired(invites'[k], invites'[k].acceptedAt)
    BY <1>3, <1>4, <1>6 DEF InviteExpired
  <2> QED
    BY <1>3, <2>1, <2>2 DEF InvitesAreSingleUse
<1> QED
  BY <1>1, <1>3, <1>5, <1>7, <1>8 DEF InvitesInv

(* A sweep touches no invite that was accepted.                             *)
LEMMA ExpireSteps ==
  ASSUME InvitesInv, NEW now \in Time, ExpireInvites(now)
  PROVE  InvitesInv'
<1>1. DOMAIN invites' = DOMAIN invites /\ joined' = joined
  BY DEF ExpireInvites
<1>2. ASSUME NEW k \in DOMAIN invites
      PROVE  /\ InviteOK(invites'[k])
             /\ invites[k].status = "accepted" => invites'[k] = invites[k]
  <2>1. PICK i : i = invites[k] /\ InviteOK(i)
    BY DEF InvitesInv
  <2>2. invites'[k] = IF Swept(i, now) THEN [i EXCEPT !.status = "expired"] ELSE i
    BY <2>1 DEF ExpireInvites
  <2>3. CASE Swept(i, now)
    <3>1. i.status = "pending" /\ invites'[k] = [i EXCEPT !.status = "expired"]
      BY <2>2, <2>3 DEF Swept
    <3>2. PICK n : n = [i EXCEPT !.status = "expired"]
      OBVIOUS
    <3>3. /\ n.createdAt = i.createdAt /\ n.expiresAt = i.expiresAt /\ n.status = "expired"
          /\ n.acceptedAt = i.acceptedAt /\ n.acceptedBy = i.acceptedBy
          /\ n = [tokenHash |-> n.tokenHash, createdAt |-> n.createdAt, expiresAt |-> n.expiresAt,
                  status |-> n.status, acceptedAt |-> n.acceptedAt, acceptedBy |-> n.acceptedBy]
      BY <2>1, <3>2 DEF InviteOK
    <3>4. InviteOK(n)
      BY <2>1, <3>1, <3>3 DEF InviteOK
    <3> QED
      BY <2>1, <3>1, <3>2, <3>4
  <2>4. CASE ~Swept(i, now)
    BY <2>1, <2>2, <2>4
  <2> QED
    BY <2>3, <2>4
<1>3. InvitesAreSingleUse'
  BY <1>1, <1>2 DEF InvitesInv, InvitesAreSingleUse
<1> QED
  BY <1>1, <1>2, <1>3 DEF InvitesInv

-----------------------------------------------------------------------------
(* The step of either half leaves the other alone.                          *)
LEMMA EnrollmentStep ==
  ASSUME DevicesInv, InvitesInv, [EnrollmentNext]_enrollmentVars
  PROVE  DevicesInv' /\ InvitesInv' /\ DevicesStep
<1>1. ASSUME NEW k \in Workspaces \X Devices, NEW at \in Time, NEW seen \in Time, Register(k, at, seen)
      PROVE  DevicesInv' /\ InvitesInv' /\ DevicesStep
  BY <1>1, RegisterDevices, SameInvites DEF Register
<1>2. ASSUME NEW k \in Workspaces \X Devices, NEW at \in Time, UpdateLastSeen(k, at)
      PROVE  DevicesInv' /\ InvitesInv' /\ DevicesStep
  BY <1>2, SeenDevices, SameInvites DEF UpdateLastSeen
<1>3. ASSUME NEW k \in Workspaces \X Devices, NEW status \in {"suspended", "removed"}, SetStatus(k, status)
      PROVE  DevicesInv' /\ InvitesInv' /\ DevicesStep
  BY <1>3, StatusDevices, SameInvites DEF SetStatus
<1>4. ASSUME NEW k \in Workspaces \X Invites, NEW token \in Tokens, NEW at \in Time,
             NEW expiresAt \in Time, CreateInvite(k, token, at, expiresAt)
      PROVE  DevicesInv' /\ InvitesInv' /\ DevicesStep
  BY <1>4, CreateInvites, SameDevices DEF CreateInvite
<1>5. ASSUME NEW k \in Workspaces \X Invites, NEW token \in Tokens, NEW at \in Time,
             NEW device \in Devices, AcceptInvite(k, token, at, device)
      PROVE  DevicesInv' /\ InvitesInv' /\ DevicesStep
  BY <1>5, AcceptInvites, SameDevices DEF AcceptInvite
<1>6. ASSUME NEW now \in Time, ExpireInvites(now)
      PROVE  DevicesInv' /\ InvitesInv' /\ DevicesStep
  BY <1>6, ExpireSteps, SameDevices DEF ExpireInvites
<1>7. CASE UNCHANGED enrollmentVars
  BY <1>7, SameDevices, SameInvites DEF enrollmentVars
<1> QED
  BY <1>1, <1>2, <1>3, <1>4, <1>5, <1>6, <1>7 DEF EnrollmentNext

(* Both hold always.                                                        *)
LEMMA EnrollmentInvariant == EnrollmentSpec => [](DevicesInv /\ InvitesInv)
BY EnrollmentInitially, EnrollmentStep, PTL DEF EnrollmentSpec

(* Devices and invites keep their shape, and an invite says that it was     *)
(* accepted exactly when it names by whom and when.                         *)
THEOREM EnrollmentIsTyped == EnrollmentSpec => []EnrollmentTypeOK
<1>1. DevicesInv /\ InvitesInv => EnrollmentTypeOK
  BY DEF DevicesInv, InvitesInv, InviteOK, EnrollmentTypeOK
<1> QED
  BY <1>1, EnrollmentInvariant, PTL

(* An invite is single-use, however many devices race for it with whatever  *)
(* times, and whatever sweeps come between.                                 *)
THEOREM InvitesAlwaysSingleUse == EnrollmentSpec => []InvitesAreSingleUse
<1>1. DevicesInv /\ InvitesInv => InvitesAreSingleUse
  BY DEF InvitesInv
<1> QED
  BY <1>1, EnrollmentInvariant, PTL

(* A device that was suspended or removed never comes back, and no report   *)
(* moves the time it was last seen.                                         *)
THEOREM RevocationAlwaysSticks == EnrollmentSpec => RevocationSticks
<1>1. ASSUME DevicesInv, InvitesInv, [EnrollmentNext]_enrollmentVars
      PROVE  [\A k \in DOMAIN devices :
                /\ k \in DOMAIN devices'
                /\ Rank(devices[k].status) <= Rank(devices'[k].status)
                /\ devices[k].lastSeenAt <= devices'[k].lastSeenAt
                /\ devices[k].status # "active" => devices'[k].lastSeenAt = devices[k].lastSeenAt]_enrollmentVars
  BY <1>1, EnrollmentStep DEF DevicesStep
<1> QED
  BY <1>1, EnrollmentInvariant, PTL DEF EnrollmentSpec, RevocationSticks
=============================================================================
