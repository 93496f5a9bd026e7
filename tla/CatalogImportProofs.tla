------------------------- MODULE CatalogImportProofs -------------------------
(***************************************************************************)
(* Replay of the repository's log, and import of catalogs into it, for     *)
(* every log, every catalog and every limit.                               *)
(***************************************************************************)
EXTENDS CatalogImport, SyncRepositoryProofs, DataLemmas

(* An event whose fields the orders compare are numbers.                    *)
Comparable(e) ==
  e.cursor.position \in Int /\ e.cursor.eventId \in Int /\ e.sequence \in Int /\ e.id \in Int

(* The k events behind the first off of a stream have rising positions.     *)
Rising(s, off, k) ==
  /\ \A m \in 1 .. k : Comparable(s[off + m])
  /\ \A m, n \in 1 .. k : m < n => s[off + m].cursor.position < s[off + n].cursor.position

(* Replaying them leaves them as they are.                                  *)
StaysInOrder(s, off, k) ==
  ReplayOrdered(s, off + 1 .. off + k) = [m \in 1 .. k |-> s[off + m]]

(* Events at consecutive places whose positions rise are replayed in the    *)
(* order they are in.                                                       *)
LEMMA RisingStaysInOrder ==
  ASSUME NEW s, NEW off \in Nat, NEW k \in Nat, Rising(s, off, k)
  PROVE  StaysInOrder(s, off, k)
<1> USE DEF Rising, StaysInOrder
<1>1. PICK P : P = off + 1 .. off + k
  OBVIOUS
<1>2. PICK R : R = {p \in P \X P : ReplaysFirst(s, p[1], p[2])}
  OBVIOUS
<1>3. PICK g : g = [m \in 1 .. k |-> off + m]
  OBVIOUS
<1>4. \A i \in P : i - off \in 1 .. k /\ off + (i - off) = i /\ i \in Int
  BY <1>1
<1>5. ASSUME NEW i \in P, NEW j \in P PROVE <<i, j>> \in R <=> i < j
  <2>1. PICK m \in 1 .. k : i = off + m
    BY <1>4
  <2>2. PICK n \in 1 .. k : j = off + n
    BY <1>4
  <2>3. CASE m < n
    <3>1. s[i].cursor.position < s[j].cursor.position
      BY <2>1, <2>2, <2>3
    <3>2. ReplaysFirst(s, i, j)
      BY <3>1 DEF ReplaysFirst, ReplayOrder, CursorLess
    <3> QED
      BY <1>2, <2>1, <2>2, <2>3, <3>2
  <2>4. CASE n < m
    <3>1. s[j].cursor.position < s[i].cursor.position
      BY <2>1, <2>2, <2>4
    <3>2. s[i].cursor.position \in Int /\ s[j].cursor.position \in Int
      BY <2>1, <2>2 DEF Comparable
    <3>3. ReplayOrder(s[j], s[i]) /\ ~ReplayOrder(s[i], s[j])
      BY <3>1, <3>2 DEF ReplayOrder, CursorLess
    <3>4. ~ReplaysFirst(s, i, j)
      BY <3>3 DEF ReplaysFirst
    <3> QED
      BY <1>2, <2>1, <2>2, <2>4, <3>4
  <2>5. CASE m = n
    <3>1. i = j /\ ~(i < j)
      BY <1>4, <2>1, <2>2, <2>5
    <3>2. Comparable(s[i])
      BY <2>1
    <3>3. ~ReplayOrder(s[i], s[i])
      BY <3>2 DEF Comparable, ReplayOrder, CursorLess
    <3>4. ~ReplaysFirst(s, i, j)
      BY <3>1, <3>3 DEF ReplaysFirst
    <3> QED
      BY <1>2, <3>1, <3>4
  <2> QED
    BY <2>1, <2>2, <2>3, <2>4, <2>5
<1>6. Orders(R, P)
  BY <1>4, <1>5 DEF Orders
<1>7. g \in [1 .. k -> P] /\ \A m \in 1 .. k : g[m] = off + m
  BY <1>1, <1>3
<1>8. \A x \in P : \E n \in 1 .. k : g[n] = x
  BY <1>4, <1>7
<1>9. \A i, j \in 1 .. k : i < j => <<g[i], g[j]>> \in R
  BY <1>5, <1>7
<1>10. Cardinality(P) = k /\ SortedBy(P, R) = g
  <2>1. ListsBy(g, k, P, R)
    BY <1>7, <1>8, <1>9 DEF ListsBy
  <2> QED
    BY <1>6, <2>1, SortedUnique
<1>11. ReplayOrdered(s, P) = [n \in 1 .. k |-> s[g[n]]]
  BY <1>2, <1>10 DEF ReplayOrdered
<1> QED
  BY <1>1, <1>7, <1>11

(* So is a stream that rises from its first event.                          *)
LEMMA RisingStream ==
  ASSUME NEW s, NEW k \in Nat, s = [m \in 1 .. k |-> s[m]], Rising(s, 0, k)
  PROVE  ReplayOrdered(s, 1 .. k) = s
<1>1. StaysInOrder(s, 0, k)
  BY RisingStaysInOrder
<1>2. ReplayOrdered(s, 1 .. k) = [m \in 1 .. k |-> s[m]]
  <2>1. 0 + 1 = 1 /\ 0 + k = k /\ [m \in 1 .. k |-> s[0 + m]] = [m \in 1 .. k |-> s[m]]
    OBVIOUS
  <2> QED
    BY <1>1, <2>1 DEF StaysInOrder
<1> QED
  BY <1>2

(* Nothing is wrong with events whose positions go on from the baseline     *)
(* without a hole and whose ids differ.                                     *)
LEMMA ContiguousHasNoIssues ==
  ASSUME NEW s, NEW k \in Nat, DOMAIN s = 1 .. k, NEW after, after.position \in Nat,
         \A m \in 1 .. k : s[m].cursor.position = after.position + m,
         \A m, n \in 1 .. k : m # n => s[m].id # s[n].id
  PROVE  ReplayIssues(s, after) = {}
<1>1. PICK base \in Nat : base = after.position
  OBVIOUS
<1>2. PICK P, fresh : /\ P = {s[i].cursor.position : i \in DOMAIN s}
                      /\ fresh = {p \in P : p > after.position}
  OBVIOUS
<1>3. P = base + 1 .. base + k
  <2>1. \A p \in base + 1 .. base + k : p - base \in 1 .. k /\ base + (p - base) = p
    BY <1>1
  <2>2. ASSUME NEW p \in base + 1 .. base + k PROVE p \in P
    <3>1. s[p - base].cursor.position = p /\ p - base \in DOMAIN s
      BY <1>1, <2>1
    <3> QED
      BY <1>2, <3>1
  <2>3. \A p \in P : p \in base + 1 .. base + k
    BY <1>1, <1>2, SMTT(30)
  <2> QED
    BY <2>2, <2>3
<1>4. fresh = P
  BY <1>1, <1>2, <1>3
<1>5. \A p \in fresh : p - 1 \in fresh \cup {after.position}
  BY <1>1, <1>3, <1>4
<1>6. \A m, n \in 1 .. k : m # n => s[m].cursor.position # s[n].cursor.position
  BY <1>1
<1>7. ~ \E i, j \in DOMAIN s : i # j /\ s[i].id = s[j].id
  OBVIOUS
<1>8. ~ \E i, j \in DOMAIN s : i # j /\ s[i].cursor.position = s[j].cursor.position
  BY <1>6
<1> QED
  BY <1>2, <1>4, <1>5, <1>7, <1>8 DEF ReplayIssues

-----------------------------------------------------------------------------
(* The log of a workspace is in a stream: its events are there in a row,    *)
(* and no other event of the workspace.                                     *)
HoldsLog(s, v) ==
  \E off \in Nat :
    /\ off + Len(events[v]) <= Len(s)
    /\ \A i \in 1 .. Len(events[v]) : s[off + i] = events[v][i]
    /\ \A i \in 1 .. Len(s) : s[i].workspaceId = v => i \in off + 1 .. off + Len(events[v])

(* A stream made of the whole logs of the workspaces T.                     *)
HoldsLogs(s, T) ==
  /\ s \in Seq(SyncedEvent)
  /\ \A i \in 1 .. Len(s) : s[i].workspaceId \in T
  /\ \A v \in T : HoldsLog(s, v)

(* One log more behind a stream of logs.                                    *)
LEMMA OneLogMore ==
  ASSUME LogInv, NEW w \in Workspaces, NEW T \in SUBSET Workspaces, w \notin T,
         NEW s, HoldsLogs(s, T)
  PROVE  HoldsLogs(s \o events[w], T \cup {w})
<1>1. PICK log, L, K, t : /\ log = events[w] /\ L = Len(log) /\ K = Len(s) /\ t = s \o log
  OBVIOUS
<1>2. log \in Seq(SyncedEvent) /\ L \in Nat /\ s \in Seq(SyncedEvent) /\ K \in Nat
  BY <1>1, LogFacts DEF HoldsLogs
<1>3. /\ t \in Seq(SyncedEvent) /\ Len(t) = K + L
      /\ \A i \in 1 .. K + L : t[i] = IF i <= K THEN s[i] ELSE log[i - K]
  BY <1>1, <1>2, ConcatProperties
<1>4. \A i \in 1 .. K : t[i] = s[i]
  <2>1. \A i \in 1 .. K : i \in 1 .. K + L /\ i <= K
    BY <1>2
  <2> QED
    BY <1>3, <2>1
<1>5. \A i \in 1 .. L : t[K + i] = log[i]
  <2>1. \A i \in 1 .. L : K + i \in 1 .. K + L /\ ~(K + i <= K) /\ (K + i) - K = i
    BY <1>2
  <2> QED
    BY <1>3, <2>1
<1>6. \A i \in 1 .. K + L : i \in 1 .. K \/ (i - K \in 1 .. L /\ i = K + (i - K))
  BY <1>2
<1>7. \A i \in 1 .. L : log[i].workspaceId = w
  <2>1. DOMAIN log = 1 .. L
    BY <1>1, <1>2
  <2>2. \A i \in DOMAIN log : log[i].workspaceId = w
    BY <1>1 DEF LogInv, PositionsContiguous
  <2> QED
    BY <2>1, <2>2
<1>8. \A i \in 1 .. K : s[i].workspaceId \in T
  BY <1>1 DEF HoldsLogs
<1>9. ASSUME NEW i \in 1 .. K + L
      PROVE  /\ t[i].workspaceId \in T \cup {w}
             /\ t[i].workspaceId = w => i \in K + 1 .. K + L
             /\ t[i].workspaceId # w => i \in 1 .. K /\ t[i] = s[i]
  <2>1. CASE i \in 1 .. K
    <3>1. t[i] = s[i] /\ s[i].workspaceId \in T
      BY <1>4, <1>8, <2>1
    <3> QED
      BY <2>1, <3>1
  <2>2. CASE i - K \in 1 .. L /\ i = K + (i - K)
    <3>1. t[i].workspaceId = w
      BY <1>5, <1>7, <2>2
    <3>2. i \in K + 1 .. K + L
      BY <1>2, <2>2
    <3> QED
      BY <3>1, <3>2
  <2> QED
    BY <1>6, <2>1, <2>2
<1>10. HoldsLog(t, w)
  <2>1. \A i \in 1 .. Len(t) : t[i].workspaceId = w => i \in K + 1 .. K + L
    BY <1>3, <1>9
  <2>2. K \in Nat /\ L = Len(events[w]) /\ K + L <= Len(t)
    BY <1>1, <1>2, <1>3
  <2>3. \A i \in 1 .. L : t[K + i] = events[w][i]
    BY <1>1, <1>5
  <2> QED
    BY <2>1, <2>2, <2>3 DEF HoldsLog
<1>11. ASSUME NEW v \in T PROVE HoldsLog(t, v)
  <2>1. v \in Workspaces /\ v # w
    OBVIOUS
  <2>2. PICK M \in Nat : M = Len(events[v])
    BY <2>1, LogFacts
  <2>3. PICK off \in Nat :
          /\ off + M <= K
          /\ \A i \in 1 .. M : s[off + i] = events[v][i]
          /\ \A i \in 1 .. K : s[i].workspaceId = v => i \in off + 1 .. off + M
    BY <1>1, <2>2 DEF HoldsLogs, HoldsLog
  <2>4. \A i \in 1 .. M : off + i \in 1 .. K
    BY <1>2, <2>2, <2>3
  <2>5. \A i \in 1 .. M : t[off + i] = events[v][i]
    BY <1>4, <2>3, <2>4
  <2>6. \A i \in 1 .. K + L : t[i].workspaceId = v => i \in off + 1 .. off + M
    BY <1>9, <2>1, <2>3
  <2>7. off + M <= K + L
    BY <1>2, <2>2, <2>3
  <2> QED
    BY <1>3, <2>2, <2>5, <2>6, <2>7 DEF HoldsLog
<1> QED
  BY <1>1, <1>3, <1>9, <1>10, <1>11 DEF HoldsLogs

(* The stream of all workspaces holds their logs.                           *)
LEMMA StreamHoldsLogs ==
  ASSUME LogInv
  PROVE  HoldsLogs(Stream[Workspaces], Workspaces)
<1>1. PICK pick : pick = [s \in SUBSET Workspaces |-> CHOOSE w \in s : TRUE]
  OBVIOUS
<1>2. Picks(pick, Workspaces)
  BY <1>1 DEF Picks
<1>3. PICK V : V = Seq(SyncedEvent)
  OBVIOUS
<1>4. <<>> \in V /\ \A w \in Workspaces : \A s \in V : s \o events[w] \in V
  <2>1. \A w \in Workspaces : events[w] \in Seq(SyncedEvent)
    BY DEF LogInv, LogTypeOK
  <2> QED
    BY <1>3, <2>1
<1>5. PICK D, step : D = Workspaces \X V /\ step = [p \in D |-> p[2] \o events[p[1]]]
  OBVIOUS
<1>6. step \in [D -> V]
  BY <1>4, <1>5
<1>7. PICK f \in [SUBSET Workspaces -> V] :
        /\ f[{}] = <<>>
        /\ \A s \in SUBSET Workspaces : s # {} => f[s] = step[<<pick[s], f[s \ {pick[s]}]>>]
  <2>1. PICK base \in V : base = <<>>
    BY <1>4
  <2>2. PICK f \in [SUBSET Workspaces -> V] : Recurs(f, Workspaces, pick, base, step)
    BY <1>2, <1>5, <1>6, <2>1, ReplayWorkspaces, PickRecursion
  <2> QED
    BY <2>1, <2>2 DEF Recurs
<1>8. f = [s \in SUBSET Workspaces |->
             IF s = {} THEN <<>>
             ELSE LET w == CHOOSE w \in s : TRUE IN f[s \ {w}] \o events[w]]
  <2>1. ASSUME NEW s \in SUBSET Workspaces, s # {}
        PROVE  step[<<pick[s], f[s \ {pick[s]}]>>] = f[s \ {pick[s]}] \o events[pick[s]]
    <3>1. pick[s] \in Workspaces /\ f[s \ {pick[s]}] \in V
      BY <1>2, <1>7, <2>1 DEF Picks
    <3> QED
      BY <1>5, <3>1
  <2>2. \A s \in SUBSET Workspaces : pick[s] = CHOOSE w \in s : TRUE
    BY <1>1
  <2>3. \A s \in SUBSET Workspaces :
          f[s] = IF s = {} THEN <<>>
                 ELSE LET w == CHOOSE w \in s : TRUE IN f[s \ {w}] \o events[w]
    BY <1>7, <2>1, <2>2
  <2> QED
    BY <1>7, <2>3
<1>9. Stream = [s \in SUBSET Workspaces |->
                  IF s = {} THEN <<>>
                  ELSE LET w == CHOOSE w \in s : TRUE IN Stream[s \ {w}] \o events[w]]
  BY <1>8 DEF Stream
<1>10. PICK F : F = {T \in SUBSET Workspaces : HoldsLogs(Stream[T], T)}
  OBVIOUS
<1>11. {} \in F
  <2>1. Stream[{}] = <<>>
    BY <1>9
  <2>2. HoldsLogs(<<>>, {})
    BY DEF HoldsLogs
  <2> QED
    BY <1>10, <2>1, <2>2
<1>12. ASSUME NEW T \in SUBSET Workspaces, T # {}, T \ {pick[T]} \in F PROVE T \in F
  <2>1. pick[T] \in T /\ pick[T] = CHOOSE w \in T : TRUE
    BY <1>1, <1>2, <1>12 DEF Picks
  <2>2. Stream[T] = Stream[T \ {pick[T]}] \o events[pick[T]]
    BY <1>9, <1>12, <2>1
  <2>3. PICK w, rest : w = pick[T] /\ rest = T \ {w}
    OBVIOUS
  <2>4. w \in Workspaces /\ rest \in SUBSET Workspaces /\ w \notin rest /\ rest \cup {w} = T
    BY <2>1, <2>3
  <2>5. HoldsLogs(Stream[rest], rest)
    BY <1>10, <1>12, <2>3
  <2>6. HoldsLogs(Stream[rest] \o events[w], rest \cup {w})
    BY <2>4, <2>5, OneLogMore
  <2> QED
    BY <1>10, <2>2, <2>3, <2>4, <2>6
<1>13. SUBSET Workspaces \subseteq F
  BY <1>2, <1>11, <1>12, ReplayWorkspaces, PickInduction
<1> QED
  BY <1>10, <1>13

(* A replay of a stream that holds the log selects what is behind the       *)
(* cursor, and in the order of the log.                                     *)
LEMMA ReplayIsSuffix ==
  ASSUME LogInv, NEW w \in Workspaces, NEW s, HoldsLogs(s, Workspaces),
         NEW n \in 0 .. Len(events[w])
  PROVE  ReplayOrdered(s, InReplayWindow(s, w, At(w, n), {}))
           = SubSeq(events[w], n + 1, Len(events[w]))
<1>1. PICK log, L, K : log = events[w] /\ L = Len(log) /\ K = Len(s)
  OBVIOUS
<1>2. /\ log \in Seq(SyncedEvent) /\ L \in Nat /\ n \in Nat /\ n <= L /\ DOMAIN log = 1 .. L
      /\ s \in Seq(SyncedEvent) /\ K \in Nat /\ DOMAIN s = 1 .. K
  BY <1>1, LogFacts DEF HoldsLogs
<1>3. PICK off \in Nat :
        /\ off + L <= K
        /\ \A i \in 1 .. L : s[off + i] = log[i]
        /\ \A i \in 1 .. K : s[i].workspaceId = w => i \in off + 1 .. off + L
  BY <1>1 DEF HoldsLogs, HoldsLog
<1>4. \A i \in 1 .. L : log[i].workspaceId = w
  BY <1>1, LogFacts DEF LogInv, PositionsContiguous
<1>5. \A i \in 1 .. L : CursorLess(At(w, n), log[i].cursor) <=> n < i
  <2>1. {i \in 1 .. L : CursorLess(At(w, n), log[i].cursor)} = n + 1 .. L
    BY <1>1, <1>2, PlacesAfter
  <2>2. \A i \in 1 .. L : i \in n + 1 .. L <=> n < i
    BY <1>2
  <2> QED
    BY <2>1, <2>2
<1>6. PICK P, first, k : P = InReplayWindow(s, w, At(w, n), {}) /\ first = off + n /\ k = L - n
  OBVIOUS
<1>7. first \in Nat /\ k \in Nat /\ \A m \in 1 .. k : first + m = off + (n + m) /\ n + m \in 1 .. L
  BY <1>2, <1>6
<1>8. P = first + 1 .. first + k
  <2>1. \A i \in off + 1 .. off + L : i - off \in 1 .. L /\ off + (i - off) = i /\ i \in 1 .. K
    BY <1>2, <1>3
  <2>2. ASSUME NEW i \in P PROVE i \in first + 1 .. first + k
    <3>1. i \in 1 .. K /\ s[i].workspaceId = w /\ CursorLess(At(w, n), s[i].cursor)
      BY <1>2, <1>6 DEF InReplayWindow
    <3>2. i \in off + 1 .. off + L
      BY <1>3, <3>1
    <3>3. s[i] = log[i - off] /\ i - off \in 1 .. L
      BY <1>3, <2>1, <3>2
    <3>4. n < i - off
      BY <1>5, <3>1, <3>3
    <3> QED
      BY <1>2, <1>6, <3>2, <3>4
  <2>3. ASSUME NEW i \in first + 1 .. first + k PROVE i \in P
    <3>1. i \in off + 1 .. off + L /\ n < i - off
      BY <1>2, <1>6
    <3>2. i - off \in 1 .. L /\ i \in 1 .. K /\ s[i] = log[i - off]
      BY <1>3, <2>1, <3>1
    <3> QED
      BY <1>2, <1>4, <1>5, <1>6, <3>1, <3>2 DEF InReplayWindow
  <2> QED
    BY <2>2, <2>3
<1>9. ASSUME NEW m \in 1 .. k
      PROVE  /\ s[first + m] = log[n + m] /\ s[first + m].cursor.position = n + m
             /\ Comparable(s[first + m])
  <2>1. s[first + m] = log[n + m] /\ n + m \in 1 .. L
    BY <1>3, <1>7
  <2>2. log[n + m].cursor = At(w, n + m) /\ At(w, n + m).position = n + m
    BY <1>1, <2>1, LogFacts
  <2>3. Comparable(log[n + m])
    <3>1. log[n + m] \in SyncedEvent
      BY <1>2, <2>1
    <3>2. \A x \in EventIds : x \in Int
      BY CursorAssumption
    <3>3. \A x \in EventIds \cup {Origin} : x \in Int
      BY CursorAssumption
    <3>4. \A x \in Sequences : x \in Int
      BY RepositoryAssumption
    <3>5. /\ log[n + m].id \in EventIds /\ log[n + m].sequence \in Sequences
          /\ log[n + m].cursor \in Cursor
      BY <3>1 DEF SyncedEvent
    <3> QED
      BY <3>2, <3>3, <3>4, <3>5 DEF Comparable, Cursor
  <2> QED
    BY <2>1, <2>2, <2>3
<1>10. \A m, i \in 1 .. k : m < i => s[first + m].cursor.position < s[first + i].cursor.position
  BY <1>7, <1>9
<1>11. ReplayOrdered(s, first + 1 .. first + k) = [m \in 1 .. k |-> s[first + m]]
  <2>1. Rising(s, first, k)
    BY <1>9, <1>10 DEF Rising
  <2> QED
    BY <1>7, <2>1, RisingStaysInOrder DEF StaysInOrder
<1>12. SubSeq(log, n + 1, L) = [m \in 1 .. k |-> log[n + m]]
  <2>1. SubSeq(log, n + 1, L) = [m \in 1 .. L - (n + 1) + 1 |-> log[(n + 1) + m - 1]]
    BY <1>2
  <2>2. L - (n + 1) + 1 = k /\ \A m \in 1 .. k : (n + 1) + m - 1 = n + m
    BY <1>2, <1>6
  <2> QED
    BY <2>1, <2>2
<1>13. [m \in 1 .. k |-> s[first + m]] = [m \in 1 .. k |-> log[n + m]]
  BY <1>9
<1> QED
  BY <1>1, <1>6, <1>8, <1>11, <1>12, <1>13

(* What is behind a cursor replays clean from there.                        *)
LEMMA SuffixHasNoIssues ==
  ASSUME LogInv, NEW w \in Workspaces, NEW n \in 0 .. Len(events[w])
  PROVE  ReplayIssues(SubSeq(events[w], n + 1, Len(events[w])), At(w, n)) = {}
<1>1. PICK log, L, k, s : /\ log = events[w] /\ L = Len(log) /\ k = L - n
                          /\ s = SubSeq(log, n + 1, L)
  OBVIOUS
<1>2. log \in Seq(SyncedEvent) /\ L \in Nat /\ n \in Nat /\ n <= L /\ k \in Nat
  BY <1>1, LogFacts
<1>3. s = [m \in 1 .. k |-> log[n + m]]
  <2>1. s = [m \in 1 .. L - (n + 1) + 1 |-> log[(n + 1) + m - 1]]
    BY <1>1, <1>2
  <2>2. L - (n + 1) + 1 = k /\ \A m \in 1 .. k : (n + 1) + m - 1 = n + m
    BY <1>1, <1>2
  <2> QED
    BY <2>1, <2>2
<1>4. \A m \in 1 .. k : n + m \in 1 .. L
  BY <1>1, <1>2
<1>5. PICK after : after = At(w, n)
  OBVIOUS
<1>6. after.position = n
  BY <1>5, AtPosition
<1>7. \A m \in 1 .. k : s[m].cursor.position = after.position + m
  <2> SUFFICES ASSUME NEW m \in 1 .. k PROVE s[m].cursor.position = n + m
    BY <1>6
  <2>1. s[m] = log[n + m] /\ n + m \in 1 .. L
    BY <1>3, <1>4
  <2> QED
    BY <1>1, <2>1, LogFacts
<1>8. ASSUME NEW i \in 1 .. k, NEW j \in 1 .. k, i # j PROVE s[i].id # s[j].id
  <2>1. s[i] = log[n + i] /\ n + i \in 1 .. L
    BY <1>3, <1>4
  <2>2. s[j] = log[n + j] /\ n + j \in 1 .. L
    BY <1>3, <1>4
  <2>3. n + i # n + j
    BY <1>2, <1>8
  <2> QED
    BY <1>1, <1>2, <2>1, <2>2, <2>3, LogFacts, SMTT(30) DEF LogInv, AcceptedOnce
<1>9. DOMAIN s = 1 .. k /\ after.position \in Nat
  BY <1>2, <1>3, <1>6
<1>10. ReplayIssues(s, after) = {}
  BY <1>2, <1>7, <1>8, <1>9, ContiguousHasNoIssues
<1> QED
  BY <1>1, <1>5, <1>10

(* Replay and download sort by different orders and select from different   *)
(* collections, and give the same page from every cursor and for every      *)
(* limit, for any number of workspaces in the stream.                       *)
THEOREM ReplayIsAlwaysDownload == Spec => []ReplayIsDownload
<1>1. LogInv => ReplayIsDownload
  <2> SUFFICES ASSUME LogInv, NEW w \in Workspaces, NEW after \in IssuedCursors(w),
                      NEW limit \in 1 .. MaxReplayLimit
               PROVE  LET page   == DownloadWindow(w, after, limit)
                          replay == ReplayWindow(Stream[Workspaces], w, after, {}, limit)
                      IN /\ replay.events = page.events
                         /\ replay.nextCursor = page.nextCursor
                         /\ replay.hasMore = page.hasMore
                         /\ replay.issues = {}
    BY DEF ReplayIsDownload
  <2>1. PICK n \in 0 .. Len(events[w]) : after = At(w, n)
    BY IssuedAreAt
  <2>2. PICK s, ordered : s = Stream[Workspaces] /\ ordered = SubSeq(events[w], n + 1, Len(events[w]))
    OBVIOUS
  <2>3. HoldsLogs(s, Workspaces)
    BY <2>2, StreamHoldsLogs
  <2>4. ReplayOrdered(s, InReplayWindow(s, w, after, {})) = ordered
    BY <2>1, <2>2, <2>3, ReplayIsSuffix
  <2>5. EventsAfter(w, after) = ordered
    BY <2>1, <2>2, PlacesAfter, OrderedSuffix DEF EventsAfter
  <2>6. ReplayIssues(ordered, after) = {}
    BY <2>1, <2>2, SuffixHasNoIssues
  <2>7. PICK page, replay : /\ page = DownloadWindow(w, after, limit)
                            /\ replay = ReplayWindow(s, w, after, {}, limit)
    OBVIOUS
  <2>8. PICK selected : selected = SubSeq(ordered, 1, IF limit < Len(ordered) THEN limit ELSE Len(ordered))
    OBVIOUS
  <2>9. PICK next, more : /\ next = IF selected = <<>> THEN after ELSE selected[Len(selected)].cursor
                          /\ more = (Len(ordered) > Len(selected))
    OBVIOUS
  <2>10. page = [workspaceId |-> w, afterCursor |-> after, nextCursor |-> next,
                 events |-> selected, hasMore |-> more]
    BY <2>5, <2>7, <2>8, <2>9 DEF DownloadWindow
  <2>11. replay = [nextCursor |-> next, events |-> selected, hasMore |-> more, issues |-> {}]
    BY <2>4, <2>6, <2>7, <2>8, <2>9 DEF ReplayWindow
  <2> QED
    BY <2>2, <2>7, <2>10, <2>11
<1> QED
  BY <1>1, LogInvariant, PTL

-----------------------------------------------------------------------------
(* Catalogs.  What planning, importing and reporting ask of a catalog, from *)
(* wherever it comes.                                                       *)
CatalogShape(c, w, d) ==
  /\ c.workspaceId = w /\ c.deviceId = d /\ c.baseCursor \in Cursor
  /\ \E E : c.events \in Seq(E) /\ \A e \in E : e.id \in EventIds

(* The envelopes of a valid catalog are a batch upload validates.           *)
LEMMA ValidCatalogUploads ==
  ASSUME NEW w \in Workspaces, NEW d \in Devices, NEW c, CatalogShape(c, w, d), ValidCatalog(c)
  PROVE  /\ ValidateUploadRequest(PlanBatch(c))
         /\ PlanBatch(c).workspaceId = w /\ PlanBatch(c).baseCursor = c.baseCursor
         /\ Ids(PlanBatch(c).events) = Ids(c.events) /\ Len(PlanBatch(c).events) = Len(c.events)
<1>1. PICK k \in Nat : k = Len(c.events) /\ DOMAIN c.events = 1 .. k /\ (k = 0 => c.events = <<>>)
  BY DEF CatalogShape
<1>2. PICK evts : evts = Envelopes(c)
  OBVIOUS
<1>3. evts = [i \in 1 .. k |-> [id |-> c.events[i].id, workspaceId |-> w,
                                deviceId |-> d, sequence |-> c.events[i].sequence]]
  BY <1>1, <1>2 DEF Envelopes, CatalogShape
<1>4. DOMAIN evts = 1 .. k /\ Len(evts) = k
  BY <1>3
<1>5. \A i \in 1 .. k : /\ evts[i].id = c.events[i].id /\ evts[i].workspaceId = w
                        /\ evts[i].deviceId = d /\ evts[i].sequence = c.events[i].sequence
  BY <1>3
<1>6. k # 0
  BY <1>1 DEF ValidCatalog
<1>7. evts # <<>>
  BY <1>4, <1>6
<1>8. PICK body : body = PlanBatch(c)
  OBVIOUS
<1>9. body = [workspaceId |-> w, deviceId |-> d, baseCursor |-> c.baseCursor, events |-> evts]
  BY <1>2, <1>8 DEF PlanBatch, Body, CatalogShape
<1>10. body.workspaceId = w /\ body.deviceId = d /\ body.baseCursor = c.baseCursor /\ body.events = evts
  BY <1>9
<1>11. \A i \in 1 .. k : c.events[i].sequence = i /\ \A j \in 1 .. i - 1 : c.events[j].id # c.events[i].id
  BY <1>1 DEF ValidCatalog
<1>12. ASSUME NEW i \in 1 .. k, NEW j \in 1 .. k, i < j
       PROVE  EventOrder(evts[i], evts[j]) /\ evts[i].id # evts[j].id
  <2>1. i \in 1 .. j - 1
    BY <1>12
  <2>2. evts[i].sequence = i /\ evts[j].sequence = j
    BY <1>5, <1>11
  <2>3. EventOrder(evts[i], evts[j])
    BY <1>12, <2>2 DEF EventOrder
  <2>4. c.events[i].id # c.events[j].id
    BY <1>11, <2>1
  <2> QED
    BY <1>5, <2>3, <2>4
<1>13. ValidateUploadRequest(body)
  BY <1>4, <1>5, <1>7, <1>10, <1>12 DEF ValidateUploadRequest
<1>14. Ids(evts) = Ids(c.events)
  BY <1>1, <1>4, <1>5 DEF Ids
<1> QED
  BY <1>1, <1>4, <1>8, <1>10, <1>13, <1>14

(* Cursors of which neither is before the other are the same.               *)
LEMMA SameCursor ==
  ASSUME NEW left \in Cursor, NEW right \in Cursor,
         ~CursorLess(left, right), ~CursorLess(right, left)
  PROVE  left = right
<1>1. \A x \in EventIds \cup {Origin} : x \in Int
  BY CursorAssumption
<1>2. PICK p, e : p \in 0 .. MaxPosition /\ e \in EventIds \cup {Origin}
                  /\ left = [position |-> p, eventId |-> e]
  BY DEF Cursor
<1>3. PICK q, f : q \in 0 .. MaxPosition /\ f \in EventIds \cup {Origin}
                  /\ right = [position |-> q, eventId |-> f]
  BY DEF Cursor
<1>4. p \in Int /\ q \in Int /\ e \in Int /\ f \in Int
  BY <1>1, <1>2, <1>3, CursorAssumption
<1>5. ~(p < q) /\ ~(q < p)
  BY <1>2, <1>3 DEF CursorLess
<1>6. p = q
  BY <1>4, <1>5
<1>7. ~(e < f) /\ ~(f < e)
  BY <1>2, <1>3, <1>6 DEF CursorLess
<1> QED
  BY <1>2, <1>3, <1>4, <1>6, <1>7

(* No cursor comes before itself.                                           *)
LEMMA NotBeforeItself ==
  ASSUME NEW c \in Cursor
  PROVE  ~CursorLess(c, c)
<1>1. c.position \in Int /\ c.eventId \in Int
  <2>1. \A x \in EventIds \cup {Origin} : x \in Int
    BY CursorAssumption
  <2>2. \A x \in 0 .. MaxPosition : x \in Int
    OBVIOUS
  <2>3. c.position \in 0 .. MaxPosition /\ c.eventId \in EventIds \cup {Origin}
    BY DEF Cursor
  <2> QED
    BY <2>1, <2>2, <2>3
<1> QED
  BY <1>1 DEF CursorLess

(* The snapshot planning reads names no cursor but those of the log.        *)
BatchCursorsIssued ==
  \A w \in Workspaces : \A i \in 1 .. Len(batches[w]) : batches[w][i].nextCursor \in IssuedCursors(w)

(* The greatest cursor in it is the cursor of the workspace.                *)
LEMMA LatestIsCursor ==
  ASSUME RepositoryInv, BatchCursorsIssued, NEW w \in Workspaces
  PROVE  LatestCursor(w) = cursor[w] /\ cursor[w] \in Cursor
<1>1. LogInv /\ cursor[w] \in Cursor
  BY DEF RepositoryInv, LogInv, LogTypeOK
<1>2. PICK L \in Nat : L = Len(events[w])
  BY <1>1, LogFacts
<1>3. PICK seen : seen = {INITIAL_CURSOR} \cup {batches[w][i].nextCursor : i \in DOMAIN batches[w]}
                                          \cup {events[w][i].cursor : i \in DOMAIN events[w]}
  OBVIOUS
<1>4. IssuedCursors(w) = {At(w, n) : n \in 0 .. L}
  BY <1>1, <1>2, IssuedAreAt
<1>5. seen \subseteq IssuedCursors(w)
  <2>1. batches[w] \in Seq(Batch)
    BY DEF RepositoryInv
  <2>2. DOMAIN batches[w] = 1 .. Len(batches[w])
    BY <2>1
  <2>3. \A i \in DOMAIN batches[w] : batches[w][i].nextCursor \in IssuedCursors(w)
    BY <2>2 DEF BatchCursorsIssued
  <2> QED
    BY <1>3, <2>3 DEF IssuedCursors
<1>6. IssuedCursors(w) \subseteq seen
  BY <1>3 DEF IssuedCursors
<1>7. cursor[w] = At(w, L) /\ cursor[w] \in seen
  <2>1. cursor[w] = At(w, L)
    BY <1>1, <1>2, LogFacts
  <2> QED
    BY <1>2, <1>4, <1>6, <2>1
<1>8. \A c \in Cursor : c.position \in Int /\ c.eventId \in Int
  <2>1. \A x \in EventIds \cup {Origin} : x \in Int
    BY CursorAssumption
  <2>2. \A c \in Cursor : c.position \in 0 .. MaxPosition /\ c.eventId \in EventIds \cup {Origin}
    BY DEF Cursor
  <2>3. \A x \in 0 .. MaxPosition : x \in Int
    OBVIOUS
  <2> QED
    BY <2>1, <2>2, <2>3
<1>9. seen \subseteq Cursor
  <2>1. INITIAL_CURSOR \in Cursor
    BY CursorAssumption DEF INITIAL_CURSOR, Cursor
  <2>2. \A i \in DOMAIN events[w] : events[w][i].cursor \in Cursor
    <3>1. \A i \in DOMAIN events[w] : events[w][i] \in SyncedEvent
      BY <1>1, LogFacts
    <3> QED
      BY <3>1 DEF SyncedEvent
  <2> QED
    BY <1>5, <2>1, <2>2 DEF IssuedCursors
<1>10. ASSUME NEW other \in seen PROVE ~CursorLess(cursor[w], other)
  <2>1. PICK n \in 0 .. L : other = At(w, n)
    BY <1>4, <1>5
  <2>2. other.position = n /\ cursor[w].position = L
    BY <1>1, <1>2, <1>7, <2>1, AtPosition
  <2>3. n = L => other = cursor[w]
    BY <1>7, <2>1
  <2>4. cursor[w].eventId \in Int
    BY <1>1, <1>8
  <2> QED
    BY <1>2, <2>2, <2>3, <2>4 DEF CursorLess
<1>11. PICK latest : latest = CHOOSE x \in seen : \A other \in seen : ~CursorLess(x, other)
  OBVIOUS
<1>12. latest \in seen /\ \A other \in seen : ~CursorLess(latest, other)
  BY <1>7, <1>10, <1>11
<1>13. latest = cursor[w]
  <2>1. ~CursorLess(latest, cursor[w]) /\ ~CursorLess(cursor[w], latest)
    BY <1>7, <1>10, <1>12
  <2>2. latest \in Cursor
    BY <1>9, <1>12
  <2> QED
    BY <1>1, <2>1, <2>2, SameCursor
<1> QED
  BY <1>1, <1>3, <1>11, <1>13 DEF LatestCursor

(* An upload issues the cursor its batch records, and no cursor issued is   *)
(* forgotten.                                                               *)
LEMMA UploadIssuesCursor ==
  ASSUME RepositoryInv, BatchCursorsIssued, NEW body, NEW checksum, BodyShape(body),
         Upload(body, checksum)
  PROVE  BatchCursorsIssued'
<1>1. LogInv
  BY DEF RepositoryInv
<1>2. PICK w, evts, k, old, new, log : UploadGrows(body, w, evts, k, old, new, log)
  BY <1>1, AcceptedUploadGrows
<1>3. PICK b \in Batch : StoresBatch(b, w, evts, k, new)
  BY <1>1, <1>2, UploadStoresBatch
<1>4. batches' = [batches EXCEPT ![w] = Append(@, b)] /\ b.nextCursor = cursor'[w]
  BY <1>3, Zenon DEF StoresBatch
<1>5. /\ w \in Workspaces /\ old = events[w] /\ events'[w] = log /\ k \in Nat \ {0}
      /\ cursor'[w] = new[k].cursor
      /\ Len(old) \in Nat /\ DOMAIN log = 1 .. Len(old) + k
      /\ \A i \in 1 .. Len(old) : log[i] = old[i]
      /\ \A n \in 1 .. k : log[Len(old) + n] = new[n]
      /\ \A v \in Workspaces \ {w} : events'[v] = events[v]
  BY <1>2, Zenon DEF UploadGrows
<1>6. \A v \in Workspaces : batches[v] \in Seq(Batch)
  BY DEF RepositoryInv
<1>7. /\ batches'[w] = Append(batches[w], b)
      /\ \A v \in Workspaces \ {w} : batches'[v] = batches[v]
  BY <1>4, <1>5 DEF RepositoryInv
<1>8. cursor'[w] \in IssuedCursors(w)'
  <2>1. Len(old) + k \in DOMAIN log /\ k \in 1 .. k
    BY <1>5
  <2>2. log[Len(old) + k].cursor = cursor'[w]
    BY <1>5, <2>1
  <2> QED
    BY <1>5, <2>1, <2>2 DEF IssuedCursors
<1>9. IssuedCursors(w) \subseteq IssuedCursors(w)'
  <2>1. DOMAIN old = 1 .. Len(old)
    BY <1>1, <1>5, LogFacts
  <2>2. \A i \in 1 .. Len(old) : i \in DOMAIN log /\ log[i].cursor = old[i].cursor
    BY <1>5
  <2> QED
    BY <1>5, <2>1, <2>2 DEF IssuedCursors
<1>10. \A v \in Workspaces \ {w} : IssuedCursors(v)' = IssuedCursors(v)
  BY <1>5 DEF IssuedCursors
<1>11. ASSUME NEW v \in Workspaces, NEW i \in 1 .. Len(batches'[v])
       PROVE  batches'[v][i].nextCursor \in IssuedCursors(v)'
  <2>1. CASE v # w
    BY <1>7, <1>10, <1>11, <2>1 DEF BatchCursorsIssued
  <2>2. CASE v = w
    <3>1. PICK bs, n : bs = batches[w] /\ n = Len(bs)
      OBVIOUS
    <3>2. bs \in Seq(Batch) /\ n \in Nat
      BY <1>5, <1>6, <3>1
    <3>3. /\ Len(Append(bs, b)) = n + 1 /\ Append(bs, b)[n + 1] = b
          /\ \A j \in 1 .. n : Append(bs, b)[j] = bs[j]
      BY <3>1, <3>2
    <3>4. i \in 1 .. n + 1
      BY <1>7, <1>11, <2>2, <3>1, <3>3
    <3>5. CASE i = n + 1
      BY <1>4, <1>7, <1>8, <2>2, <3>1, <3>3, <3>5
    <3>6. CASE i \in 1 .. n
      <4>1. batches'[v][i] = bs[i]
        BY <1>7, <2>2, <3>1, <3>3, <3>6
      <4>2. bs[i].nextCursor \in IssuedCursors(w)
        BY <1>5, <3>1, <3>6 DEF BatchCursorsIssued
      <4> QED
        BY <1>9, <2>2, <4>1, <4>2
    <3> QED
      BY <3>2, <3>4, <3>5, <3>6
  <2> QED
    BY <2>1, <2>2
<1> QED
  BY <1>11 DEF BatchCursorsIssued

-----------------------------------------------------------------------------
(* Exports.  An exported log is the events in a row, each with its place    *)
(* for sequence and, from the second, the event before it.                  *)
Chained(x, n, w, ids, at) ==
  /\ x = [i \in 1 .. n |-> x[i]] /\ Len(x) = n
  /\ \A i \in 1 .. n :
       x[i] = [id |-> ids[i], workspaceId |-> w, sequence |-> i, at |-> at[i],
               previous |-> IF i = 1 THEN {} ELSE {x[i - 1]}]

(* Exporting n drafts makes a chain of n events, the first behind nothing.  *)
LEMMA ExportedFacts ==
  ASSUME NEW w, NEW n \in Nat, NEW ids \in [1 .. n -> EventIds], NEW at \in [1 .. n -> Times],
         NEW x, x = Exported(w, ids, at)
  PROVE  Chained(x, n, w, ids, at)
<1>1. Len(ids) = n
  OBVIOUS
<1> DEFINE Event(i, previous) == [id |-> ids[i], workspaceId |-> w, sequence |-> i, at |-> at[i],
                                  previous |-> previous]
           Links(m, f) == f[0] = {} /\ \A i \in 1 .. m : f[i] = {Event(i, f[i - 1])}
           S == {m \in 0 .. n : \E f : Links(m, f)}
<1> HIDE DEF Event
<1>2. 0 \in S
  <2>1. PICK f : f[0] = {}
    <3>1. [i \in 0 .. 0 |-> {}][0] = {}
      OBVIOUS
    <3> QED
      BY <3>1
  <2>2. Links(0, f)
    BY <2>1
  <2>3. 0 \in 0 .. n
    OBVIOUS
  <2> QED
    BY <2>2, <2>3
<1>3. ASSUME NEW m \in 1 .. n, m - 1 \in S PROVE m \in S
  <2>1. PICK f : Links(m - 1, f)
    BY <1>3
  <2>2. PICK g : /\ g[m] = {Event(m, f[m - 1])}
                 /\ \A i \in 0 .. m - 1 : g[i] = f[i]
    <3> DEFINE h == [i \in 0 .. m |-> IF i = m THEN {Event(m, f[m - 1])} ELSE f[i]]
    <3>1. h[m] = {Event(m, f[m - 1])} /\ \A i \in 0 .. m - 1 : h[i] = f[i]
      OBVIOUS
    <3> QED
      BY <3>1
  <2>3. g[0] = {}
    <3>1. 0 \in 0 .. m - 1
      OBVIOUS
    <3> QED
      BY <2>1, <2>2, <3>1
  <2>4. ASSUME NEW i \in 1 .. m PROVE g[i] = {Event(i, g[i - 1])}
    <3>1. i - 1 \in 0 .. m - 1
      OBVIOUS
    <3>2. g[i - 1] = f[i - 1]
      BY <2>2, <3>1
    <3>3. CASE i = m
      BY <2>2, <3>2, <3>3
    <3>4. CASE i # m
      <4>1. i \in 0 .. m - 1 /\ i \in 1 .. m - 1
        BY <3>4
      <4>2. g[i] = f[i] /\ f[i] = {Event(i, f[i - 1])}
        BY <2>1, <2>2, <4>1
      <4> QED
        BY <3>2, <4>2
    <3> QED
      BY <3>3, <3>4
  <2>5. Links(m, g)
    BY <2>3, <2>4
  <2>6. m \in 0 .. n
    OBVIOUS
  <2> QED
    BY <2>5, <2>6
<1> HIDE DEF S
<1>4. n \in S
  <2>1. 0 .. n \subseteq S
    BY <1>2, <1>3, UpToInduction
  <2> QED
    BY <2>1
<1>5. PICK f : Links(n, f)
  BY <1>4 DEF S
<1> DEFINE chain[i \in 0 .. Len(ids)] ==
             IF i = 0 THEN {}
             ELSE {[id |-> ids[i], workspaceId |-> w, sequence |-> i, at |-> at[i],
                    previous |-> chain[i - 1]]}
<1>6. chain = [i \in 0 .. Len(ids) |-> IF i = 0 THEN {} ELSE {Event(i, chain[i - 1])}]
  <2>1. PICK h : h = [i \in 0 .. n |-> f[i]]
    OBVIOUS
  <2>2. ASSUME NEW i \in 0 .. n PROVE h[i] = IF i = 0 THEN {} ELSE {Event(i, h[i - 1])}
    <3>1. CASE i = 0
      BY <1>5, <2>1, <3>1
    <3>2. CASE i # 0
      <4>1. i \in 1 .. n /\ i - 1 \in 0 .. n
        BY <3>2
      <4>2. f[i] = {Event(i, f[i - 1])}
        BY <1>5, <4>1
      <4> QED
        BY <2>1, <3>2, <4>1, <4>2
    <3> QED
      BY <3>1, <3>2
  <2>3. h = [i \in 0 .. Len(ids) |-> IF i = 0 THEN {} ELSE {Event(i, h[i - 1])}]
    BY <1>1, <2>1, <2>2
  <2>4. chain = CHOOSE g : g = [i \in 0 .. Len(ids) |-> IF i = 0 THEN {} ELSE {Event(i, g[i - 1])}]
    BY DEF Event
  <2> HIDE DEF chain
  <2> QED
    BY <2>3, <2>4
<1>7. x = [i \in 1 .. Len(ids) |-> CHOOSE e \in chain[i] : TRUE]
  BY DEF Exported
<1> HIDE DEF chain
<1>8. ASSUME NEW i \in 1 .. n
      PROVE  chain[i] = {Event(i, chain[i - 1])} /\ x[i] = Event(i, chain[i - 1])
  <2>1. i \in 0 .. Len(ids) /\ i # 0 /\ i \in 1 .. Len(ids)
    BY <1>1
  <2>2. chain[i] = {Event(i, chain[i - 1])}
    BY <1>6, <2>1
  <2>3. x[i] = CHOOSE e \in chain[i] : TRUE
    BY <1>7, <2>1
  <2> QED
    BY <2>2, <2>3
<1>9. ASSUME NEW i \in 1 .. n PROVE chain[i - 1] = IF i = 1 THEN {} ELSE {x[i - 1]}
  <2>1. CASE i = 1
    <3>1. 0 \in 0 .. Len(ids) /\ i - 1 = 0
      BY <1>1, <2>1
    <3> QED
      BY <1>6, <2>1, <3>1
  <2>2. CASE i # 1
    <3>1. i - 1 \in 1 .. n
      BY <2>2
    <3> QED
      BY <1>8, <2>2, <3>1
  <2> QED
    BY <2>1, <2>2
<1>10. x = [i \in 1 .. n |-> x[i]] /\ Len(x) = n
  BY <1>1, <1>7
<1> QED
  BY <1>8, <1>9, <1>10, ZenonT(40) DEF Event, Chained

(* A request can name no cursor that is not one.                            *)
LEMMA NamedAreCursors ==
  ASSUME LogInv, NEW w \in Workspaces
  PROVE  NamedCursors(w) \subseteq Cursor
<1>1. INITIAL_CURSOR \in Cursor
  BY CursorAssumption DEF INITIAL_CURSOR, Cursor
<1>2. \A i \in DOMAIN events[w] : events[w][i].cursor \in Cursor
  <2>1. \A i \in DOMAIN events[w] : events[w][i] \in SyncedEvent
    BY LogFacts
  <2> QED
    BY <2>1 DEF SyncedEvent
<1>3. [position : 0 .. MaxPosition, eventId : {Origin}] \subseteq Cursor
  BY DEF Cursor
<1> QED
  BY <1>1, <1>2, <1>3 DEF NamedCursors, IssuedCursors

(* What a workspace exports is events, with their places for sequences.     *)
LEMMA ExportsAreExported ==
  ASSUME NEW w, NEW evts \in Exports(w)
  PROVE  \E n \in 1 .. MaxCatalog : \E ids \in Injection(1 .. n, EventIds), at \in [1 .. n -> Times] :
           Chained(evts, n, w, ids, at)
<1>1. PICK n \in 1 .. MaxCatalog :
        evts \in {Exported(w, ids, at) : ids \in Injection(1 .. n, EventIds), at \in [1 .. n -> Times]}
  BY DEF Exports
<1>2. PICK ids \in Injection(1 .. n, EventIds), at \in [1 .. n -> Times] : evts = Exported(w, ids, at)
  BY <1>1
<1>3. ids \in [1 .. n -> EventIds] /\ n \in Nat
  BY DEF Injection
<1>4. Chained(evts, n, w, ids, at)
  BY <1>2, <1>3, ExportedFacts
<1> QED
  BY <1>4

(* A catalog of what a workspace exports can be planned and uploaded.       *)
LEMMA UndamagedShape ==
  ASSUME LogInv, NEW w \in Workspaces, NEW d \in Devices, NEW c \in Undamaged(w, d)
  PROVE  CatalogShape(c, w, d) /\ BodyShape(PlanBatch(c))
<1>1. PICK base \in NamedCursors(w), evts \in Exports(w) :
        c = Catalog(w, d, base, evts, {CatalogDigest(w, base, evts)})
  BY DEF Undamaged
<1>2. c.workspaceId = w /\ c.deviceId = d /\ c.baseCursor = base /\ c.events = evts
  BY <1>1 DEF Catalog
<1>3. base \in Cursor
  BY NamedAreCursors
<1>4. PICK n \in 1 .. MaxCatalog : \E ids \in Injection(1 .. n, EventIds), at \in [1 .. n -> Times] :
                                     Chained(evts, n, w, ids, at)
  BY ExportsAreExported
<1>5. PICK ids \in Injection(1 .. n, EventIds), at \in [1 .. n -> Times] : Chained(evts, n, w, ids, at)
  BY <1>4
<1>6. n \in Nat /\ ids \in [1 .. n -> EventIds]
  BY DEF Injection
<1>7. /\ evts = [i \in 1 .. n |-> evts[i]] /\ DOMAIN evts = 1 .. n /\ Len(evts) = n
      /\ \A i \in 1 .. n : evts[i].id = ids[i] /\ evts[i].sequence = i
  <2>1. evts = [i \in 1 .. n |-> evts[i]] /\ Len(evts) = n
    BY <1>5 DEF Chained
  <2>2. DOMAIN evts = 1 .. n
    BY <2>1
  <2>3. \A i \in 1 .. n : evts[i].id = ids[i] /\ evts[i].sequence = i
    BY <1>5 DEF Chained
  <2> QED
    BY <2>1, <2>2, <2>3
<1>8. PICK E : E = {evts[i] : i \in 1 .. n}
  OBVIOUS
<1>9. evts \in Seq(E) /\ \A e \in E : e.id \in EventIds
  BY <1>6, <1>7, <1>8, SMTT(30)
<1>10. CatalogShape(c, w, d)
  BY <1>2, <1>3, <1>9 DEF CatalogShape
<1>11. Envelopes(c) \in Seq(Envelope)
  <2>1. Envelopes(c) = [i \in 1 .. n |-> [id |-> evts[i].id, workspaceId |-> w,
                                          deviceId |-> d, sequence |-> evts[i].sequence]]
    BY <1>2, <1>7 DEF Envelopes
  <2>2. ASSUME NEW i \in 1 .. n
        PROVE  [id |-> evts[i].id, workspaceId |-> w, deviceId |-> d,
                sequence |-> evts[i].sequence] \in Envelope
    <3>1. i \in 1 .. MaxCatalog
      BY CatalogAssumption
    <3>2. i \in Sequences
      BY <3>1, CatalogAssumption
    <3> QED
      BY <1>6, <1>7, <3>2 DEF Envelope
  <2> QED
    BY <1>6, <2>1, <2>2
<1>12. BodyShape(PlanBatch(c))
  BY <1>2, <1>3, <1>11 DEF BodyShape, PlanBatch, Body
<1> QED
  BY <1>10, <1>12

-----------------------------------------------------------------------------
(* What planning finds about a valid catalog, and what upload will.         *)
LEMMA PlanningSeesUpload ==
  ASSUME RepositoryInv, BatchCursorsIssued, NEW w \in Workspaces, NEW d \in Devices,
         NEW c, CatalogShape(c, w, d), ValidCatalog(c)
  PROVE  ReconciliationIssues(c) = {} <=> OnHead(PlanBatch(c)) /\ Fresh(PlanBatch(c))
<1>1. PICK body : body = PlanBatch(c)
  OBVIOUS
<1>2. body.workspaceId = w /\ body.baseCursor = c.baseCursor /\ Ids(body.events) = Ids(c.events)
  BY <1>1, ValidCatalogUploads
<1>3. LatestCursor(w) = cursor[w] /\ cursor[w] \in Cursor
  BY LatestIsCursor
<1>4. c.baseCursor \in Cursor /\ c.workspaceId = w
  BY DEF CatalogShape
<1>5. OnHead(body) <=> c.baseCursor = cursor[w]
  BY <1>2 DEF OnHead
<1>6. c.baseCursor = cursor[w] <=> ~CursorLess(c.baseCursor, cursor[w]) /\ ~CursorLess(cursor[w], c.baseCursor)
  <2>1. ~CursorLess(cursor[w], cursor[w])
    BY <1>3, NotBeforeItself
  <2> QED
    BY <1>3, <1>4, <2>1, SameCursor
<1>7. Fresh(body) <=> Ids(c.events) \cap Ids(events[w]) = {}
  <2>1. eventsById[w] = Ids(events[w])
    BY DEF RepositoryInv, LogInv, AcceptedOnce
  <2> QED
    BY <1>2, <2>1 DEF Fresh
<1>8. ReconciliationIssues(c) = {} <=>
        /\ ~CursorLess(c.baseCursor, cursor[w]) /\ ~CursorLess(cursor[w], c.baseCursor)
        /\ Ids(c.events) \cap Ids(events[w]) = {}
  BY <1>3, <1>4 DEF ReconciliationIssues
<1> QED
  BY <1>1, <1>5, <1>6, <1>7, <1>8

(* A ready plan uploads as things stand.                                    *)
LEMMA ReadyUploads ==
  ASSUME RepositoryInv, BatchCursorsIssued, NEW w \in Workspaces, NEW d \in Devices,
         NEW c, CatalogShape(c, w, d)
  PROVE  /\ PlanOutcome(c) = "ready" => UploadError(PlanBatch(c), PlanBatch(c)) = "none"
         /\ PlanOutcome(c) = "blocked" =>
              UploadError(PlanBatch(c), PlanBatch(c)) \in {"base_cursor_mismatch", "duplicate_event"}
<1>1. CASE ~ValidCatalog(c)
  BY <1>1 DEF PlanOutcome
<1>2. CASE ValidCatalog(c)
  <2>1. PICK body : body = PlanBatch(c)
    OBVIOUS
  <2>2. /\ ValidateUploadRequest(body)
        /\ body.workspaceId = w /\ body.baseCursor = c.baseCursor
        /\ Len(body.events) = Len(c.events)
    BY <1>2, <2>1, ValidCatalogUploads
  <2>3. ReconciliationIssues(c) = {} <=> OnHead(body) /\ Fresh(body)
    BY <1>2, <2>1, PlanningSeesUpload
  <2>4. ASSUME PlanOutcome(c) = "ready" PROVE UploadError(body, body) = "none"
    <3>1. ReconciliationIssues(c) = {} /\ ~CatalogThrows(c)
      BY <1>2, <2>4 DEF PlanOutcome
    <3>2. OnHead(body) /\ Fresh(body)
      BY <2>3, <3>1
    <3>3. CanAdvance(c.baseCursor, Len(c.events))
      BY <3>1 DEF CatalogThrows
    <3>4. Fits(body)
      BY <2>2, <3>2, <3>3 DEF Fits, OnHead
    <3> QED
      BY <2>2, <3>2, <3>4 DEF UploadError
  <2>5. ASSUME PlanOutcome(c) = "blocked"
        PROVE  UploadError(body, body) \in {"base_cursor_mismatch", "duplicate_event"}
    <3>1. ReconciliationIssues(c) # {}
      BY <1>2, <2>5 DEF PlanOutcome
    <3>2. ~OnHead(body) \/ ~Fresh(body)
      BY <2>3, <3>1
    <3> QED
      BY <2>2, <3>2 DEF UploadError
  <2> QED
    BY <2>1, <2>4, <2>5
<1> QED
  BY <1>1, <1>2

(* Planning and uploading decide alike on what a workspace exports.         *)
LEMMA ForetoldWhereverInv ==
  ASSUME RepositoryInv, BatchCursorsIssued
  PROVE  PlanForetellsUpload
<1>1. ASSUME NEW w \in Workspaces, NEW d \in Devices, NEW c \in Undamaged(w, d)
      PROVE  CatalogShape(c, w, d)
  BY UndamagedShape DEF RepositoryInv
<1> QED
  BY <1>1, ReadyUploads DEF PlanForetellsUpload

-----------------------------------------------------------------------------
(* A plan a caller may hold: of some catalog, however long ago.             *)
PlanOfCatalog(plan) ==
  \E w \in Workspaces, d \in Devices : \E c :
    CatalogShape(c, w, d) /\ BodyShape(PlanBatch(c)) /\ plan = PlanFor(c)

(* Inductive: what an import uploads are bodies the repository may be sent, *)
(* so its own invariant is kept, and the cursors its batches record stay    *)
(* cursors of the log.                                                      *)
CatalogInv ==
  /\ RepositoryInv
  /\ BatchCursorsIssued
  /\ \A plan \in held : PlanOfCatalog(plan)
  /\ \A p, q \in held : p = q

(* Sending a body keeps the part of it that is about the repository.        *)
LEMMA UploadRequestKeeps ==
  ASSUME RepositoryInv, BatchCursorsIssued, NEW body, BodyShape(body), UploadRequest(body, body)
  PROVE  RepositoryInv' /\ BatchCursorsIssued'
<1>1. CASE Upload(body, body)
  BY <1>1, UploadKeepsRepositoryInv, UploadIssuesCursor
<1>2. CASE UNCHANGED vars
  <2>1. LogInv'
    BY <1>2 DEF vars, RepositoryInv, LogInv, LogTypeOK, CursorIsHead, PositionsContiguous, AcceptedOnce
  <2>2. RepositoryInv'
    BY <1>2, <2>1 DEF vars, RepositoryInv
  <2>3. BatchCursorsIssued'
    BY <1>2 DEF vars, BatchCursorsIssued, IssuedCursors
  <2> QED
    BY <2>2, <2>3
<1> QED
  BY <1>1, <1>2 DEF UploadRequest, UploadRefused

(* The invariant of the import holds at first.                              *)
LEMMA CatalogInitInv == CatalogInit => CatalogInv
<1> SUFFICES ASSUME CatalogInit PROVE CatalogInv
  OBVIOUS
<1>1. RepositoryInv
  BY InitRepositoryInv DEF CatalogInit
<1>2. \A w \in Workspaces : Len(batches[w]) = 0
  BY DEF CatalogInit, Init
<1>3. BatchCursorsIssued
  BY <1>2 DEF BatchCursorsIssued
<1> QED
  BY <1>1, <1>3 DEF CatalogInit, CatalogInv

(* Every upload, import and new catalog keeps the invariant.                *)
LEMMA CatalogNextInv == CatalogInv /\ [CatalogNext]_cvars => CatalogInv'
<1> SUFFICES ASSUME CatalogInv, [CatalogNext]_cvars PROVE CatalogInv'
  OBVIOUS
<1>1. RepositoryInv /\ LogInv /\ BatchCursorsIssued
  BY DEF CatalogInv, RepositoryInv
<1>2. ASSUME NEW body, BodyShape(body), UploadRequest(body, body), UNCHANGED held
      PROVE  CatalogInv'
  BY <1>1, <1>2, UploadRequestKeeps DEF CatalogInv
<1>3. CASE UploadPlan
  <2>1. PICK plan \in held : UploadRequest(plan.batch, plan.batch)
    BY <1>3 DEF UploadPlan
  <2>2. PlanOfCatalog(plan)
    BY DEF CatalogInv
  <2>3. BodyShape(plan.batch)
    BY <2>2 DEF PlanOfCatalog, PlanFor
  <2> QED
    BY <1>2, <1>3, <2>1, <2>3 DEF UploadPlan
<1>4. ASSUME NEW w \in Workspaces, NEW d \in Devices, UploadOwn(w, d) PROVE CatalogInv'
  <2>1. PICK id \in EventIds, sequence \in Sequences :
          \E body : /\ body = Body(w, d, cursor[w], <<[id |-> id, workspaceId |-> w, deviceId |-> d,
                                                      sequence |-> sequence]>>)
                    /\ UploadRequest(body, body)
    BY <1>4 DEF UploadOwn
  <2>2. PICK body : /\ body = Body(w, d, cursor[w], <<[id |-> id, workspaceId |-> w, deviceId |-> d,
                                                      sequence |-> sequence]>>)
                    /\ UploadRequest(body, body)
    BY <2>1
  <2>3. cursor[w] \in Cursor
    BY <1>1 DEF LogInv, LogTypeOK
  <2>4. BodyShape(body)
    BY <2>2, <2>3 DEF BodyShape, Body, Envelope
  <2> QED
    BY <1>2, <1>4, <2>2, <2>4 DEF UploadOwn
<1>5. ASSUME NEW w \in Workspaces, NEW d \in Devices, NEW c \in Undamaged(w, d), Plan(c)
      PROVE  CatalogInv'
  <2>1. CatalogShape(c, w, d) /\ BodyShape(PlanBatch(c))
    BY <1>1, UndamagedShape
  <2>2. RepositoryInv' /\ BatchCursorsIssued'
    <3>1. UNCHANGED vars
      BY <1>5 DEF Plan
    <3>2. LogInv'
      BY <1>1, <3>1 DEF vars, LogInv, LogTypeOK, CursorIsHead, PositionsContiguous, AcceptedOnce
    <3>3. RepositoryInv'
      BY <1>1, <3>1, <3>2 DEF vars, RepositoryInv
    <3>4. BatchCursorsIssued'
      BY <1>1, <3>1 DEF vars, BatchCursorsIssued, IssuedCursors
    <3> QED
      BY <3>3, <3>4
  <2>3. PlanOfCatalog(PlanFor(c))
    BY <2>1 DEF PlanOfCatalog
  <2>4. held' = {PlanFor(c)}
    BY <1>5 DEF Plan
  <2> QED
    BY <2>2, <2>3, <2>4 DEF CatalogInv, PlanOfCatalog
<1>6. ASSUME NEW w \in Workspaces, NEW d \in Devices, NEW c \in Undamaged(w, d), Import(c)
      PROVE  CatalogInv'
  <2>1. BodyShape(PlanBatch(c))
    BY <1>1, UndamagedShape
  <2> QED
    BY <1>2, <1>6, <2>1 DEF Import
<1>7. CASE UNCHANGED cvars
  <2>1. UNCHANGED vars /\ UNCHANGED held
    BY <1>7 DEF cvars, vars
  <2>2. LogInv'
    BY <1>1, <2>1 DEF vars, LogInv, LogTypeOK, CursorIsHead, PositionsContiguous, AcceptedOnce
  <2>3. RepositoryInv'
    BY <1>1, <2>1, <2>2 DEF vars, RepositoryInv
  <2>4. BatchCursorsIssued'
    BY <1>1, <2>1 DEF vars, BatchCursorsIssued, IssuedCursors
  <2> QED
    BY <2>1, <2>3, <2>4 DEF CatalogInv
<1> QED
  BY <1>3, <1>4, <1>5, <1>6, <1>7 DEF CatalogNext

(* The invariant of importing.                                              *)
THEOREM CatalogInvariant == CatalogSpec => []CatalogInv
<1> QED
  BY CatalogInitInv, CatalogNextInv, PTL DEF CatalogSpec

(* Planning, which scans a snapshot, and uploading, which compares the      *)
(* cursor and the index, decide alike about every exported catalog.         *)
THEOREM PlanAlwaysForetells == CatalogSpec => []PlanForetellsUpload
<1>1. CatalogInv => PlanForetellsUpload
  BY ForetoldWhereverInv DEF CatalogInv
<1> QED
  BY <1>1, CatalogInvariant, PTL

(* A held plan lands as foretold or not at all, whatever was uploaded since *)
(* it was made.                                                             *)
THEOREM PlansAlwaysLandAsForetold == CatalogSpec => PlansLandAsForetold
<1> DEFINE A == UploadPlan =>
             \A plan \in held :
               LET w == plan.batch.workspaceId IN
               events'[w] \in {events[w], events[w] \o plan.foretold}
<1>1. CatalogInv /\ [CatalogNext]_cvars => [A]_cvars
  <2> SUFFICES ASSUME CatalogInv, UploadPlan, NEW plan \in held
               PROVE  LET w == plan.batch.workspaceId IN
                      events'[w] \in {events[w], events[w] \o plan.foretold}
    OBVIOUS
  <2>1. UploadRequest(plan.batch, plan.batch)
    BY DEF CatalogInv, UploadPlan
  <2>2. PICK w \in Workspaces, d \in Devices : \E c :
          CatalogShape(c, w, d) /\ BodyShape(PlanBatch(c)) /\ plan = PlanFor(c)
    BY DEF CatalogInv, PlanOfCatalog
  <2>8. PICK c : CatalogShape(c, w, d) /\ BodyShape(PlanBatch(c)) /\ plan = PlanFor(c)
    BY <2>2
  <2>3. PICK body : body = PlanBatch(c)
    OBVIOUS
  <2>4. plan.batch = body /\ plan.foretold = Accepted(c.baseCursor, Envelopes(c))
    BY <2>8, <2>3 DEF PlanFor, SyncedReplay
  <2>5. body.workspaceId = w /\ body.baseCursor = c.baseCursor /\ body.events = Envelopes(c)
    BY <2>8, <2>3 DEF PlanBatch, Body, CatalogShape
  <2>6. CASE Upload(body, body)
    <3>1. OnHead(body)
      BY <2>6 DEF Upload, UploadError
    <3>2. c.baseCursor = cursor[w]
      BY <2>5, <3>1 DEF OnHead
    <3>3. events' = [events EXCEPT ![w] = @ \o Accepted(cursor[w], body.events)]
      BY <2>5, <2>6 DEF Upload
    <3>4. events \in [Workspaces -> Seq(SyncedEvent)]
      BY DEF CatalogInv, RepositoryInv, LogInv, LogTypeOK
    <3>5. events'[w] = events[w] \o Accepted(cursor[w], body.events)
      BY <2>2, <3>3, <3>4
    <3> QED
      BY <2>4, <2>5, <3>2, <3>5
  <2>7. CASE UploadRefused(body, body)
    <3>1. events' = events
      BY <2>7 DEF UploadRefused, vars
    <3> QED
      BY <2>4, <2>5, <3>1
  <2> QED
    BY <2>1, <2>4, <2>6, <2>7 DEF UploadRequest
<1>2. CatalogSpec => [][A]_cvars
  BY <1>1, CatalogInvariant, PTL DEF CatalogSpec
<1> QED
  BY <1>2 DEF PlansLandAsForetold

-----------------------------------------------------------------------------
(* A valid catalog that is not too long replays clean.                      *)
LEMMA ValidReplaysClean ==
  ASSUME NEW w \in Workspaces, NEW d \in Devices, NEW c, CatalogShape(c, w, d),
         BodyShape(PlanBatch(c)), ValidCatalog(c), ~CatalogThrows(c)
  PROVE  CatalogReplay(c).issues = {}
<1>1. PICK k \in Nat : k = Len(c.events) /\ DOMAIN c.events = 1 .. k
  BY DEF CatalogShape
<1>2. PICK evts, base, s : evts = Envelopes(c) /\ base = c.baseCursor /\ s = SyncedReplay(c)
  OBVIOUS
<1>3. evts \in Seq(Envelope) /\ base \in Cursor /\ c.workspaceId = w
  BY <1>2 DEF BodyShape, PlanBatch, Body, CatalogShape
<1>4. Len(evts) = k /\ \A i \in 1 .. k : evts[i].id = c.events[i].id /\ evts[i].workspaceId = w
  BY <1>1, <1>2 DEF Envelopes, CatalogShape
<1>5. CanAdvance(base, Len(evts))
  BY <1>1, <1>2, <1>4 DEF CatalogThrows
<1>6. s = Accepted(base, evts)
  BY <1>2 DEF SyncedReplay
<1>7. s \in Seq(SyncedEvent) /\ Len(s) = k /\ DOMAIN s = 1 .. k /\ s = [m \in 1 .. k |-> s[m]]
  BY <1>3, <1>4, <1>5, <1>6, AcceptedBatch
<1>8. ASSUME NEW n \in 1 .. k
      PROVE  /\ s[n].id = c.events[n].id /\ s[n].workspaceId = w
             /\ s[n].cursor = [position |-> base.position + n, eventId |-> evts[n].id]
             /\ s[n].cursor.position = base.position + n
             /\ Comparable(s[n])
  <2>1. /\ s[n].id = evts[n].id /\ s[n].workspaceId = evts[n].workspaceId
        /\ s[n].cursor = [position |-> base.position + n, eventId |-> evts[n].id]
    BY <1>3, <1>4, <1>5, <1>6, AcceptedBatch
  <2>2. s[n] \in SyncedEvent
    BY <1>7
  <2>3. Comparable(s[n])
    <3>1. \A x \in EventIds \cup {Origin} : x \in Int
      BY CursorAssumption
    <3>2. \A x \in Sequences : x \in Int
      BY RepositoryAssumption
    <3>3. \A x \in 0 .. MaxPosition : x \in Int
      OBVIOUS
    <3>4. s[n].id \in EventIds /\ s[n].sequence \in Sequences /\ s[n].cursor \in Cursor
      BY <2>2 DEF SyncedEvent
    <3>5. s[n].cursor.position \in 0 .. MaxPosition /\ s[n].cursor.eventId \in EventIds \cup {Origin}
      BY <3>4 DEF Cursor
    <3> QED
      BY <3>1, <3>2, <3>3, <3>4, <3>5 DEF Comparable
  <2> QED
    BY <1>4, <2>1, <2>3
<1>9. PICK p \in Nat : p = base.position
  BY <1>3, CursorAssumption DEF Cursor
<1>10. \A n \in 1 .. k : s[n].cursor.position = p + n
  BY <1>8, <1>9
<1>11. InReplayWindow(s, w, base, {}) = 1 .. k
  <2>1. ASSUME NEW n \in 1 .. k PROVE s[n].workspaceId = w /\ CursorLess(base, s[n].cursor)
    <3>1. base.position < s[n].cursor.position
      BY <1>9, <1>10
    <3> QED
      BY <1>8, <3>1 DEF CursorLess
  <2> QED
    BY <1>7, <2>1 DEF InReplayWindow
<1>12. \A m, n \in 1 .. k : m < n => s[m].cursor.position < s[n].cursor.position
  BY <1>9, <1>10
<1>13. ReplayOrdered(s, 1 .. k) = s
  <2>1. Rising(s, 0, k)
    <3>1. \A m \in 1 .. k : 0 + m = m
      OBVIOUS
    <3> QED
      BY <1>8, <1>12, <3>1 DEF Rising
  <2> QED
    BY <1>7, <2>1, RisingStream
<1>14. \A m, n \in 1 .. k : m # n => s[m].id # s[n].id
  <2>1. \A i \in 1 .. k : \A j \in 1 .. i - 1 : c.events[j].id # c.events[i].id
    BY <1>1 DEF ValidCatalog
  <2>2. ASSUME NEW m \in 1 .. k, NEW n \in 1 .. k, m # n PROVE c.events[m].id # c.events[n].id
    <3>1. m \in 1 .. n - 1 \/ n \in 1 .. m - 1
      BY <2>2
    <3> QED
      BY <2>1, <3>1
  <2> QED
    BY <1>8, <2>2, ZenonT(40)
<1>15. ReplayIssues(s, base) = {}
  <2>1. \A m \in 1 .. k : s[m].cursor.position = base.position + m
    BY <1>9, <1>10
  <2> QED
    BY <1>7, <1>9, <1>14, <2>1, ContiguousHasNoIssues
<1>16. CatalogReplay(c) = ReplayWindow(s, w, base, {}, k)
  BY <1>1, <1>2, <1>3 DEF CatalogReplay
<1> QED
  BY <1>11, <1>13, <1>15, <1>16 DEF ReplayWindow

(* The acceptance report and the import itself accept the same catalogs.    *)
THEOREM ReportAlwaysAgrees == CatalogSpec => []ReportAgreesWithImport
<1>1. CatalogInv => ReportAgreesWithImport
  <2> SUFFICES ASSUME CatalogInv, NEW w \in Workspaces, NEW d \in Devices, NEW c \in Undamaged(w, d)
               PROVE  ReportStatus(c) = "ready" <=> PlanOutcome(c) = "ready"
    BY DEF ReportAgreesWithImport
  <2>1. CatalogShape(c, w, d) /\ BodyShape(PlanBatch(c))
    BY UndamagedShape DEF CatalogInv, RepositoryInv
  <2>2. ASSUME ReportStatus(c) = "ready" PROVE PlanOutcome(c) = "ready"
    BY <2>2 DEF ReportStatus
  <2>3. ASSUME PlanOutcome(c) = "ready" PROVE ReportStatus(c) = "ready"
    <3>1. ValidCatalog(c) /\ ~CatalogThrows(c) /\ ReconciliationIssues(c) = {}
      BY <2>3 DEF PlanOutcome
    <3>2. CatalogReplay(c).issues = {}
      BY <2>1, <3>1, ValidReplaysClean
    <3> QED
      BY <2>3, <3>1, <3>2 DEF ReportStatus, FixtureReady, RisksReady
  <2> QED
    BY <2>2, <2>3
<1> QED
  BY <1>1, CatalogInvariant, PTL

-----------------------------------------------------------------------------
(* What damage leaves of a sequence: elements of it, as they were or        *)
(* numbered anew.                                                           *)
Remains(got, raw, m, evts) ==
  /\ m \in Nat /\ raw = [i \in 1 .. m |-> raw[i]]
  /\ \A i \in 1 .. m : \E k \in 1 .. Len(evts) : raw[i] = evts[k]
  /\ \/ got = raw
     \/ got = [i \in 1 .. m |-> [raw[i] EXCEPT !.sequence = i]]

(* That is all that dropping, repeating, swapping or renumbering does.      *)
LEMMA DamagedRemains ==
  ASSUME NEW E, NEW evts \in Seq(E), NEW got \in Damaged(evts)
  PROVE  \E raw, m : Remains(got, raw, m, evts)
<1>1. PICK n \in Nat : n = Len(evts) /\ evts \in [1 .. n -> E] /\ DOMAIN evts = 1 .. n
  OBVIOUS
<1> DEFINE Without(k) == [i \in 1 .. n - 1 |-> evts[IF i < k THEN i ELSE i + 1]]
           Swapped(k) == [evts EXCEPT ![k] = evts[k + 1], ![k + 1] = evts[k]]
           damaged == {evts} \cup {Without(k) : k \in 1 .. n}
                             \cup {Append(evts, evts[k]) : k \in 1 .. n}
                             \cup {Swapped(k) : k \in 1 .. n - 1}
           Part(raw, m) == /\ m \in Nat /\ raw = [i \in 1 .. m |-> raw[i]]
                           /\ \A i \in 1 .. m : \E k \in 1 .. n : raw[i] = evts[k]
<1>2. got \in damaged \cup {[i \in DOMAIN d |-> [d[i] EXCEPT !.sequence = i]] : d \in damaged}
  BY <1>1 DEF Damaged
<1>3. ASSUME NEW raw \in damaged PROVE \E m : Part(raw, m)
  <2>1. CASE raw = evts
    BY <1>1, <2>1
  <2>2. ASSUME NEW k \in 1 .. n, raw = Without(k) PROVE Part(raw, n - 1)
    <3>1. n - 1 \in Nat /\ raw = [i \in 1 .. n - 1 |-> raw[i]]
      <4>1. n - 1 \in Nat
        BY <1>1
      <4>2. PICK at : at = [i \in 1 .. n - 1 |-> IF i < k THEN i ELSE i + 1]
        OBVIOUS
      <4>3. raw = [i \in 1 .. n - 1 |-> evts[at[i]]]
        BY <2>2, <4>2
      <4> QED
        BY <4>1, <4>3
    <3>2. ASSUME NEW i \in 1 .. n - 1 PROVE \E j \in 1 .. n : raw[i] = evts[j]
      <4>1. (IF i < k THEN i ELSE i + 1) \in 1 .. n
        BY <1>1
      <4> QED
        BY <2>2, <4>1
    <3> QED
      BY <3>1, <3>2
  <2>3. ASSUME NEW k \in 1 .. n, raw = Append(evts, evts[k]) PROVE Part(raw, n + 1)
    <3>1. PICK e \in E : e = evts[k] /\ raw = Append(evts, e)
      BY <1>1, <2>3
    <3>2. /\ Append(evts, e) \in Seq(E) /\ Len(Append(evts, e)) = Len(evts) + 1
          /\ Append(evts, e)[Len(evts) + 1] = e
          /\ \A i \in 1 .. Len(evts) : Append(evts, e)[i] = evts[i]
      BY AppendProperties
    <3>7. raw \in Seq(E) /\ Len(raw) = n + 1 /\ raw[n + 1] = e
      BY <1>1, <3>1, <3>2
    <3>3. \A i \in 1 .. n : raw[i] = evts[i]
      BY <1>1, <3>1, <3>2
    <3>4. \A i \in 1 .. n + 1 : i \in 1 .. n \/ i = n + 1
      BY <1>1
    <3>5. raw = [i \in 1 .. n + 1 |-> raw[i]] /\ n + 1 \in Nat
      <4>1. n + 1 \in Nat
        OBVIOUS
      <4>2. raw \in [1 .. n + 1 -> E]
        BY <3>7
      <4> QED
        BY <4>1, <4>2
    <3>6. \A i \in 1 .. n + 1 : \E j \in 1 .. n : raw[i] = evts[j]
      BY <3>1, <3>7, <3>3, <3>4
    <3> QED
      BY <3>5, <3>6
  <2>4. ASSUME NEW k \in 1 .. n - 1, raw = Swapped(k) PROVE Part(raw, n)
    <3>1. k \in 1 .. n /\ k + 1 \in 1 .. n
      BY <1>1
    <3>2. raw = [i \in 1 .. n |-> raw[i]]
      BY <1>1, <2>4
    <3>3. ASSUME NEW i \in 1 .. n
          PROVE  raw[i] = evts[k] \/ raw[i] = evts[k + 1] \/ raw[i] = evts[i]
      BY <1>1, <2>4, <3>1
    <3> QED
      BY <1>1, <3>1, <3>2, <3>3
  <2> HIDE DEF Part
  <2> QED
    BY <2>1, <2>2, <2>3, <2>4
<1> HIDE DEF damaged
<1>4. CASE got \in damaged
  <2>1. PICK m : Part(got, m)
    BY <1>3, <1>4
  <2>2. Remains(got, got, m, evts)
    BY <1>1, <2>1 DEF Remains
  <2> QED
    BY <2>2
<1>5. ASSUME NEW raw \in damaged, got = [i \in DOMAIN raw |-> [raw[i] EXCEPT !.sequence = i]]
      PROVE  \E m : Remains(got, raw, m, evts)
  <2>1. PICK m : Part(raw, m)
    BY <1>3
  <2>2. DOMAIN raw = 1 .. m
    BY <2>1
  <2>3. Remains(got, raw, m, evts)
    BY <1>1, <1>5, <2>1, <2>2 DEF Remains
  <2> QED
    BY <2>3
<1> QED
  BY <1>2, <1>4, <1>5

(* The first m of what was sent.                                            *)
Opens(got, m, sent) == got = [i \in 1 .. m |-> sent[i]]

(* Every event names the one before it.                                     *)
Linked(got, m) == \A i \in 1 .. m : got[i].previous = IF i = 1 THEN {} ELSE {got[i - 1]}

(* Of a chain of digests that is whole again, damage has left a beginning.  *)
LEMMA ChainRemains ==
  ASSUME NEW w, NEW n \in Nat, NEW ids, NEW at, NEW sent, Chained(sent, n, w, ids, at),
         NEW got, NEW raw, NEW m, Remains(got, raw, m, sent), Linked(got, m)
  PROVE  Opens(got, m, sent) /\ m <= n
<1>1. Len(sent) = n /\ m \in Nat
  BY DEF Chained, Remains
<1>2. ASSUME NEW k \in 1 .. n
      PROVE  \E id, t, prev :
               /\ sent[k] = [id |-> id, workspaceId |-> w, sequence |-> k, at |-> t, previous |-> prev]
               /\ prev = IF k = 1 THEN {} ELSE {sent[k - 1]}
  BY DEF Chained
<1>3. ASSUME NEW k \in 1 .. n
      PROVE  sent[k].sequence = k /\ sent[k].previous = IF k = 1 THEN {} ELSE {sent[k - 1]}
  <2>1. PICK id, t, prev :
          /\ sent[k] = [id |-> id, workspaceId |-> w, sequence |-> k, at |-> t, previous |-> prev]
          /\ prev = IF k = 1 THEN {} ELSE {sent[k - 1]}
    BY <1>2
  <2>2. sent[k].sequence = k /\ sent[k].previous = prev
    BY <2>1
  <2> QED
    BY <2>1, <2>2
<1>4. ASSUME NEW i \in 1 .. m
      PROVE  \E k \in 1 .. n : got[i].previous = sent[k].previous /\ (k = i => got[i] = sent[i])
  <2>1. PICK k \in 1 .. n : raw[i] = sent[k]
    BY <1>1 DEF Remains
  <2>2. CASE got = raw
    BY <2>1, <2>2
  <2>3. CASE got = [j \in 1 .. m |-> [raw[j] EXCEPT !.sequence = j]]
    <3>1. PICK id, t, prev :
            sent[k] = [id |-> id, workspaceId |-> w, sequence |-> k, at |-> t, previous |-> prev]
      BY <1>2, ZenonT(40)
    <3>2. got[i] = [sent[k] EXCEPT !.sequence = i]
      BY <2>1, <2>3
    <3>3. got[i] = [id |-> id, workspaceId |-> w, sequence |-> i, at |-> t, previous |-> prev]
      BY <3>1, <3>2
    <3> QED
      BY <3>1, <3>3
  <2> QED
    BY <2>2, <2>3 DEF Remains
<1> DEFINE S == {i \in 0 .. m : i = 0 \/ (i <= n /\ got[i] = sent[i])}
<1>5. 0 \in S
  BY <1>1
<1>6. ASSUME NEW i \in 1 .. m, i - 1 \in S PROVE i \in S
  <2>1. PICK k \in 1 .. n : got[i].previous = sent[k].previous /\ (k = i => got[i] = sent[i])
    BY <1>4
  <2>2. CASE i = 1
    <3>1. sent[k].previous = {}
      BY <2>1, <2>2 DEF Linked
    <3>2. k = 1
      BY <1>3, <3>1
    <3> QED
      BY <2>1, <2>2, <3>2
  <2>3. CASE i # 1
    <3>1. i - 1 \in 1 .. n /\ got[i - 1] = sent[i - 1]
      BY <1>6, <2>3
    <3>2. sent[k].previous = {sent[i - 1]}
      BY <2>1, <2>3, <3>1 DEF Linked
    <3>3. k # 1 /\ sent[k - 1] = sent[i - 1]
      <4>1. sent[k].previous = IF k = 1 THEN {} ELSE {sent[k - 1]}
        BY <1>3
      <4> QED
        BY <3>2, <4>1
    <3>4. k - 1 \in 1 .. n
      BY <3>3
    <3>5. k - 1 = i - 1
      <4>1. sent[k - 1].sequence = k - 1
        BY <1>3, <3>4
      <4>2. sent[i - 1].sequence = i - 1
        BY <1>3, <3>1
      <4> QED
        BY <3>3, <4>1, <4>2
    <3>6. k = i
      BY <3>5
    <3> QED
      BY <2>1, <3>6
  <2> QED
    BY <2>2, <2>3
<1> HIDE DEF S
<1>7. 0 .. m \subseteq S
  BY <1>1, <1>5, <1>6, UpToInduction
<1>8. \A i \in 1 .. m : i <= n /\ got[i] = sent[i]
  BY <1>1, <1>7 DEF S
<1>9. got = [i \in 1 .. m |-> got[i]]
  BY DEF Remains
<1>10. Opens(got, m, sent)
  BY <1>8, <1>9 DEF Opens
<1>11. m <= n
  BY <1>1, <1>8
<1> QED
  BY <1>10, <1>11

(* However a catalog was damaged, one that is planned is the beginning of   *)
(* what was exported, and all of it if the digest came with it.             *)
THEOREM DamagedAlwaysRefused == CatalogSpec => []DamagedCatalogsAreRefused
<1>1. DamagedCatalogsAreRefused
  <2> SUFFICES ASSUME NEW w \in Workspaces, NEW d \in Devices, NEW sent \in Exports(w),
                      NEW got \in Damaged(sent),
                      NEW digest \in {{}, {CatalogDigest(w, cursor[w], sent)}},
                      PlanOutcome(Catalog(w, d, cursor[w], got, digest)) = "ready"
               PROVE  /\ got = SubSeq(sent, 1, Len(got))
                      /\ digest = {CatalogDigest(w, cursor[w], sent)} => got = sent
    BY Zenon DEF DamagedCatalogsAreRefused
  <2>1. PICK c : c = Catalog(w, d, cursor[w], got, digest)
    OBVIOUS
  <2>2. c.workspaceId = w /\ c.baseCursor = cursor[w] /\ c.events = got /\ c.digest = digest
    BY <2>1 DEF Catalog
  <2>3. ValidCatalog(c)
    BY <2>1 DEF PlanOutcome
  <2>4. PICK n \in 1 .. MaxCatalog : \E ids \in Injection(1 .. n, EventIds), at \in [1 .. n -> Times] :
                                       Chained(sent, n, w, ids, at)
    BY ExportsAreExported
  <2>5. PICK ids, at : Chained(sent, n, w, ids, at)
    BY <2>4
  <2>6. PICK E : E = {sent[i] : i \in 1 .. n}
    OBVIOUS
  <2>7. n \in Nat /\ sent = [i \in 1 .. n |-> sent[i]] /\ Len(sent) = n
    BY <2>5 DEF Chained
  <2>8. sent \in Seq(E)
    BY <2>6, <2>7
  <2>9. PICK raw, m : Remains(got, raw, m, sent)
    BY <2>8, DamagedRemains
  <2>10. m \in Nat /\ DOMAIN got = 1 .. m
    BY <2>9 DEF Remains
  <2>11. Linked(got, m)
    BY <2>2, <2>3, <2>10 DEF ValidCatalog, Linked
  <2>16. Opens(got, m, sent) /\ m <= n
    BY <2>5, <2>7, <2>9, <2>11, ChainRemains
  <2>12. got = [i \in 1 .. m |-> sent[i]] /\ m <= n
    BY <2>16 DEF Opens
  <2>13. Len(got) = m
    BY <2>10, <2>12
  <2>14. SubSeq(sent, 1, m) = [i \in 1 .. m |-> sent[i]]
    <3>1. SubSeq(sent, 1, m) = [i \in 1 .. m - 1 + 1 |-> sent[1 + i - 1]]
      BY <2>8, <2>10
    <3>2. m - 1 + 1 = m /\ \A i \in 1 .. m : 1 + i - 1 = i
      BY <2>10
    <3> QED
      BY <3>1, <3>2
  <2>15. ASSUME digest = {CatalogDigest(w, cursor[w], sent)} PROVE got = sent
    <3>1. {CatalogDigest(w, cursor[w], sent)} \subseteq {CatalogDigest(w, cursor[w], got)}
      BY <2>2, <2>3, <2>15 DEF ValidCatalog
    <3>2. CatalogDigest(w, cursor[w], sent) = CatalogDigest(w, cursor[w], got)
      BY <3>1
    <3> QED
      BY <3>2 DEF CatalogDigest
  <2> QED
    BY <2>12, <2>13, <2>14, <2>15
<1>2. CatalogInv => DamagedCatalogsAreRefused
  BY <1>1
<1> QED
  BY <1>2, CatalogInvariant, PTL

(* A log of which something is lost or doubled: the places in the log of    *)
(* the events that remain.                                                  *)
LEMMA RemainingPlaces ==
  ASSUME LogInv, NEW w \in Workspaces, NEW got \in Damaged(events[w])
  PROVE  \E m \in Nat : \E at \in [1 .. m -> 1 .. Len(events[w])] :
           /\ DOMAIN got = 1 .. m
           /\ \A i \in 1 .. m : /\ got[i].cursor = events[w][at[i]].cursor
                                /\ got[i].cursor.position = at[i]
                                /\ got[i].id = events[w][at[i]].id
<1>1. PICK log, n : log = events[w] /\ n = Len(log)
  OBVIOUS
<1>2. log \in Seq(SyncedEvent) /\ n \in Nat /\ \A i \in 1 .. n : log[i] \in SyncedEvent
  BY <1>1, LogFacts
<1>3. PICK raw, m : Remains(got, raw, m, log)
  BY <1>1, <1>2, DamagedRemains
<1>4. m \in Nat /\ DOMAIN got = 1 .. m
  BY <1>3 DEF Remains
<1>5. PICK at : at = [i \in 1 .. m |-> CHOOSE k \in 1 .. n : raw[i] = log[k]]
  OBVIOUS
<1>6. at \in [1 .. m -> 1 .. n] /\ \A i \in 1 .. m : raw[i] = log[at[i]]
  BY <1>1, <1>3, <1>5 DEF Remains
<1>7. ASSUME NEW i \in 1 .. m
      PROVE  got[i].cursor = log[at[i]].cursor /\ got[i].id = log[at[i]].id
  <2>1. PICK e \in SyncedEvent : e = log[at[i]] /\ raw[i] = e
    BY <1>2, <1>6
  <2>2. got[i] = e \/ got[i] = [e EXCEPT !.sequence = i]
    BY <1>3, <2>1, ZenonT(40) DEF Remains
  <2>3. [e EXCEPT !.sequence = i].cursor = e.cursor /\ [e EXCEPT !.sequence = i].id = e.id
    BY DEF SyncedEvent
  <2> QED
    BY <2>1, <2>2, <2>3
<1>8. \A i \in 1 .. m : log[at[i]].cursor.position = at[i]
  BY <1>1, <1>6, LogFacts
<1> QED
  BY <1>1, <1>4, <1>6, <1>7, <1>8, SMTT(30)

(* A damaged log replays clean if and only if it lacks nothing but an end   *)
(* and has nothing twice.                                                   *)
THEOREM DamageAlwaysShows == CatalogSpec => []DamageShowsInReplay
<1>1. ASSUME LogInv, NEW w \in Workspaces, NEW got \in Damaged(events[w])
      PROVE  ReplayIssues(got, INITIAL_CURSOR) = {} <=>
               \A i \in DOMAIN got :
                 i <= Len(events[w]) /\ \E j \in DOMAIN got : got[j].cursor = events[w][i].cursor
  <2>1. PICK log, n : log = events[w] /\ n = Len(log)
    OBVIOUS
  <2>2. PICK m \in Nat : \E at \in [1 .. m -> 1 .. n] :
           /\ DOMAIN got = 1 .. m
           /\ \A i \in 1 .. m : /\ got[i].cursor = log[at[i]].cursor
                                /\ got[i].cursor.position = at[i]
                                /\ got[i].id = log[at[i]].id
    BY <1>1, <2>1, RemainingPlaces
  <2>3. PICK at \in [1 .. m -> 1 .. n] :
           /\ DOMAIN got = 1 .. m
           /\ \A i \in 1 .. m : /\ got[i].cursor = log[at[i]].cursor
                                /\ got[i].cursor.position = at[i]
                                /\ got[i].id = log[at[i]].id
    BY <2>2
  <2>4. n \in Nat /\ \A i \in 1 .. n : log[i].cursor.position = i
    BY <1>1, <2>1, LogFacts
  <2>5. \A i, j \in 1 .. n : i # j => log[i].id # log[j].id
    BY <1>1, <2>1, LogFacts DEF LogInv, AcceptedOnce
  <2>6. PICK P, fresh : /\ P = {got[i].cursor.position : i \in DOMAIN got}
                        /\ fresh = {p \in P : p > INITIAL_CURSOR.position}
    OBVIOUS
  <2>7. P = {at[i] : i \in 1 .. m} /\ P \subseteq 1 .. n
    BY <2>3, <2>6
  <2>8. INITIAL_CURSOR.position = 0 /\ fresh = P
    <3>1. INITIAL_CURSOR.position = 0
      BY DEF INITIAL_CURSOR
    <3>2. \A p \in P : p > 0
      BY <2>4, <2>7
    <3> QED
      BY <2>6, <3>1, <3>2
  <2>9. ReplayIssues(got, INITIAL_CURSOR) = {} <=>
          /\ \A i, j \in 1 .. m : i # j => at[i] # at[j]
          /\ \A p \in P : p - 1 \in P \cup {0}
    <3> DEFINE Twice == \E i, j \in DOMAIN got : i # j /\ got[i].id = got[j].id
               Same == \E i, j \in DOMAIN got :
                         i # j /\ got[i].cursor.position = got[j].cursor.position
               Gap == \E p \in fresh : p - 1 \notin fresh \cup {INITIAL_CURSOR.position}
    <3>1. Same <=> ~ \A i, j \in 1 .. m : i # j => at[i] # at[j]
      <4>1. DOMAIN got = 1 .. m
        BY <2>3
      <4>2. ASSUME NEW i \in 1 .. m, NEW j \in 1 .. m
            PROVE  got[i].cursor.position = got[j].cursor.position <=> at[i] = at[j]
        BY <2>3
      <4> QED
        BY <4>1, <4>2, SMTT(30)
    <3>2. Twice => Same
      <4>1. ASSUME NEW i \in 1 .. m, NEW j \in 1 .. m, i # j, got[i].id = got[j].id
            PROVE  at[i] = at[j]
        BY <2>3, <2>5, <4>1
      <4> QED
        BY <2>3, <3>1, <4>1
    <3>3. Gap <=> ~ \A p \in P : p - 1 \in P \cup {0}
      BY <2>8
    <3>4. ReplayIssues(got, INITIAL_CURSOR) =
            (IF Twice THEN {"duplicate_event"} ELSE {}) \cup (IF Same THEN {"duplicate_cursor"} ELSE {})
              \cup (IF P # fresh THEN {"stale_cursor"} ELSE {}) \cup (IF Gap THEN {"gap"} ELSE {})
      BY <2>6, Zenon DEF ReplayIssues
    <3> HIDE DEF Twice, Same, Gap
    <3>5. ReplayIssues(got, INITIAL_CURSOR) = {} <=> ~Twice /\ ~Same /\ ~Gap
      BY <2>8, <3>4
    <3> QED
      BY <3>1, <3>2, <3>3, <3>5
  <2>10. (\A i \in DOMAIN got : i <= n /\ \E j \in DOMAIN got : got[j].cursor = log[i].cursor)
           <=> \A i \in 1 .. m : \E j \in 1 .. m : at[j] = i
    <3>1. ASSUME NEW i \in 1 .. m, i <= n, NEW j \in 1 .. m, got[j].cursor = log[i].cursor
          PROVE  at[j] = i
      <4>1. i \in 1 .. n
        BY <2>4, <3>1
      <4> QED
        BY <2>3, <2>4, <3>1, <4>1
    <3>2. ASSUME NEW i \in 1 .. m, NEW j \in 1 .. m, at[j] = i
          PROVE  i <= n /\ got[j].cursor = log[i].cursor
      BY <2>3, <2>4, <3>2
    <3>3. ASSUME \A i \in DOMAIN got : i <= n /\ \E j \in DOMAIN got : got[j].cursor = log[i].cursor,
                 NEW i \in 1 .. m
          PROVE  \E j \in 1 .. m : at[j] = i
      <4>1. i \in DOMAIN got
        BY <2>3
      <4>2. PICK j \in DOMAIN got : i <= n /\ got[j].cursor = log[i].cursor
        BY <3>3, <4>1
      <4>3. j \in 1 .. m
        BY <2>3
      <4> QED
        BY <3>1, <4>2, <4>3
    <3>4. ASSUME \A i \in 1 .. m : \E j \in 1 .. m : at[j] = i, NEW i \in DOMAIN got
          PROVE  i <= n /\ \E j \in DOMAIN got : got[j].cursor = log[i].cursor
      <4>1. i \in 1 .. m
        BY <2>3
      <4>2. PICK j \in 1 .. m : at[j] = i
        BY <3>4, <4>1
      <4> QED
        BY <2>3, <3>2, <4>1, <4>2
    <3> QED
      BY <3>3, <3>4
  <2>11. ASSUME \A i, j \in 1 .. m : i # j => at[i] # at[j], \A p \in P : p - 1 \in P \cup {0}
         PROVE  \A i \in 1 .. m : \E j \in 1 .. m : at[j] = i
    <3>1. P \in SUBSET (Nat \ {0})
      BY <2>4, <2>7
    <3>2. IsFiniteSet(P) /\ Cardinality(P) = m
      <4>1. Elements(P, at, m)
        BY <2>7, <2>11 DEF Elements
      <4> QED
        BY <4>1, ElementsCounted
    <3>3. P = 1 .. m
      BY <2>11, <3>1, <3>2, ClosedNumbers
    <3> QED
      BY <2>7, <3>3
  <2>12. ASSUME \A i \in 1 .. m : \E j \in 1 .. m : at[j] = i
         PROVE  (\A i, j \in 1 .. m : i # j => at[i] # at[j]) /\ \A p \in P : p - 1 \in P \cup {0}
    <3>1. /\ \A j \in 1 .. m : at[j] \in 1 .. m
          /\ \A i, j \in 1 .. m : i # j => at[i] # at[j]
      BY <2>12, OntoNumbers
    <3>2. P = 1 .. m
      BY <2>7, <2>12, <3>1
    <3>3. \A p \in P : p - 1 \in P \cup {0}
      BY <3>2
    <3> QED
      BY <3>1, <3>3
  <2> QED
    BY <2>1, <2>9, <2>10, <2>11, <2>12
<1>2. CatalogInv => DamageShowsInReplay
  BY <1>1 DEF CatalogInv, RepositoryInv, DamageShowsInReplay
<1> QED
  BY <1>2, CatalogInvariant, PTL
=============================================================================
