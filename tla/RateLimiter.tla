----------------------------- MODULE RateLimiter -----------------------------
(***************************************************************************)
(* The token-window rate limiter of the sync service                       *)
(* (services/sync/src/rateLimit.ts) and the subject the handlers of http.ts *)
(* charge a request to before they validate it.                            *)
(*                                                                         *)
(* Windows are aligned to multiples of windowMs and shared by nothing but  *)
(* the clock.  The caller supplies the clock; it may stand still or step   *)
(* back.                                                                   *)
(***************************************************************************)
EXTENDS Integers, FiniteSets

CONSTANTS
  Workspaces, Devices,
  Anonymous,        \* wsp_anonymous and dev_anonymous
  Capacity, WindowMs,
  MaxCost,          \* bound: the cost of one take
  MaxTime           \* bound: the latest time

ASSUME RateAssumption ==
  /\ Capacity \in Nat \ {0} /\ WindowMs \in Nat \ {0}
  /\ MaxCost \in Nat \ {0} /\ MaxTime \in Nat
  /\ Anonymous \notin Workspaces \cup Devices

VARIABLES
  now,       \* what the injected clock reads
  windows,   \* the Map from a subject to its window: a partial function
  spent,     \* history: cost allowed per subject in this aligned window, since
             \* the subject was reset or the clock stepped back
  denial     \* history: the last denial, <<>> when there is none to look at

rateVars == <<now, windows, spent, denial>>

Subject == (Workspaces \cup {Anonymous}) \X (Devices \cup {Anonymous})
Window == [resetAtMs : Int, tokens : Int]

(* readPreliminaryRateLimitSubject: an id the request does not carry in a   *)
(* well-formed way is replaced by the anonymous one, part by part.          *)
PreliminarySubject(w, wellFormedW, d, wellFormedD) ==
  <<IF wellFormedW THEN w ELSE Anonymous, IF wellFormedD THEN d ELSE Anonymous>>

WindowStart(t) == (t \div WindowMs) * WindowMs

(* Mutant: a window still stands at the very time it resets.                *)
PrunedLate == {s \in DOMAIN windows : now <= windows[s].resetAtMs}

(* pruneExpiredWindows drops the windows of EVERY subject that have ended.  *)
Pruned == {s \in DOMAIN windows : now < windows[s].resetAtMs}

(* Mutant: a new window starts now instead of on a multiple of its length.  *)
CurrentWindowUnaligned(s) ==
  IF s \in Pruned THEN windows[s]
  ELSE [resetAtMs |-> now + WindowMs, tokens |-> Capacity]

(* currentWindow, after pruning: the subject's window, or a full new one.   *)
CurrentWindow(s) ==
  IF s \in Pruned THEN windows[s]
  ELSE [resetAtMs |-> WindowStart(now) + WindowMs, tokens |-> Capacity]

Allowed(s, cost) == CurrentWindow(s).tokens >= cost

(* The map once the subject's window w is stored in what pruning left.      *)
Charged(s, w) == [x \in Pruned \cup {s} |-> IF x = s THEN w ELSE windows[x]]

(* take: prune, look the window up, charge it when it suffices, store it.   *)
Take(s, cost) ==
  LET w    == CurrentWindow(s)
      left == IF Allowed(s, cost) THEN w.tokens - cost ELSE w.tokens
  IN /\ windows' = Charged(s, [w EXCEPT !.tokens = left])
     /\ IF Allowed(s, cost)
        THEN /\ spent' = [spent EXCEPT ![s] = @ + cost]
             /\ denial' = IF denial # <<>> /\ denial[1] = s THEN <<>> ELSE denial
        ELSE /\ spent' = spent
             /\ denial' = <<s, cost, w.resetAtMs>>
     /\ UNCHANGED now

(* reset(subject), and reset() for all of them.                             *)
Reset(subjects) ==
  /\ windows' = [x \in DOMAIN windows \ subjects |-> windows[x]]
  /\ spent' = [x \in DOMAIN spent |-> IF x \in subjects THEN 0 ELSE spent[x]]
  /\ UNCHANGED <<now, denial>>

Starts == {WindowStart(t) : t \in 0 .. MaxTime}

Nothing == [s \in Subject |-> 0]

(* The clock moves, perhaps back.                                           *)
Tick ==
  /\ now' \in 0 .. MaxTime
  /\ spent' = IF now' < now \/ WindowStart(now') # WindowStart(now) THEN Nothing ELSE spent
  /\ UNCHANGED <<windows, denial>>

RateInit ==
  /\ now = 0
  /\ windows = [s \in {} |-> [resetAtMs |-> 0, tokens |-> 0]]
  /\ spent = Nothing
  /\ denial = <<>>

(* A request of http.ts costs 1 and is charged by its preliminary subject;  *)
(* other callers of the limiter may charge more at once.                    *)
RateNext ==
  \/ \E w \in Workspaces, d \in Devices, wellFormedW, wellFormedD \in BOOLEAN :
       Take(PreliminarySubject(w, wellFormedW, d, wellFormedD), 1)
  \/ \E s \in Workspaces \X Devices, cost \in 2 .. MaxCost : Take(s, cost)
  \/ \E s \in Subject : Reset({s})
  \/ Reset(Subject)
  \/ Tick

RateSpec == RateInit /\ [][RateNext]_rateVars

-----------------------------------------------------------------------------
(* Stored windows end on a multiple of the window length and never hold     *)
(* more than the capacity or less than nothing.                             *)
RateTypeOK ==
  /\ now \in 0 .. MaxTime
  /\ DOMAIN windows \subseteq Subject
  /\ \A s \in DOMAIN windows : /\ windows[s].tokens \in 0 .. Capacity
                               /\ windows[s].resetAtMs - WindowMs \in Starts
  /\ spent \in [Subject -> Nat]
  /\ denial = <<>> \/ denial \in Subject \X (1 .. MaxCost) \X Nat

(* Since the clock last stepped back and the subject was reset, what take   *)
(* has allowed a subject within an aligned window is within the capacity,   *)
(* however takes of other subjects pruned the map in between, and with the  *)
(* windows that a clock ahead of time has left in it.                       *)
CapacityHeld == \A s \in Subject : spent[s] <= Capacity

Remaining(s) == CurrentWindow(s).tokens

(* A take changes what is left for no subject but its own, though it prunes *)
(* the windows of all of them: only windows that would be full are dropped. *)
TakeTouchesOneSubject ==
  [][\A s \in Subject, cost \in 1 .. MaxCost :
       Take(s, cost) => \A x \in Subject \ {s} : Remaining(x)' = Remaining(x)]_rateVars

(* The retryAfterMs of a denial is honest: once the time it names has come, *)
(* and the subject has taken nothing since, the same cost is allowed, unless*)
(* it is more than a full window holds and never will be.                   *)
RetryAfterIsHonest ==
  denial # <<>> /\ now >= denial[3] =>
    (Allowed(denial[1], denial[2]) <=> denial[2] <= Capacity)
=============================================================================
