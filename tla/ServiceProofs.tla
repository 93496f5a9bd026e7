--------------------------- MODULE ServiceProofs ----------------------------
(***************************************************************************)
(* Proofs about parts that keep a state of their own behind a small         *)
(* interface: the rate limiter of the sync service, the snapshot store of   *)
(* the API, the bundle file and the session store of the SDK. Each part is  *)
(* about one of them and uses no lemma of another.                          *)
(***************************************************************************)
EXTENDS RateLimiter, SnapshotFileStore, BundleFileStore, SessionStore,
        FiniteSetTheorems, TLAPS

-----------------------------------------------------------------------------
(* THE RATE LIMITER (RateLimiter), for any capacity, window length, costs,  *)
(* subjects and clock.                                                      *)

(* Windows start at multiples of their length.                              *)
Aligned(t) == \E q \in Nat : t = q * WindowMs

(* A window that is stored, unless it has ended, has room for what was not  *)
(* spent; a subject without such a window has spent nothing.                *)
LiveWindow(s) == s \in DOMAIN windows /\ now < windows[s].resetAtMs

(* No more was spent in a live window than it has lost tokens, and nothing  *)
(* outside of one.                                                          *)
SpentMatches ==
  \A s \in Subject :
    /\ LiveWindow(s) => spent[s] + windows[s].tokens <= Capacity
    /\ ~LiveWindow(s) => spent[s] = 0

(* A window as the limiter stores it: it starts and ends at multiples of    *)
(* its length.                                                              *)
WindowOK(w) ==
  /\ w \in Window /\ w.tokens \in 0 .. Capacity
  /\ w.resetAtMs - WindowMs \in Starts
  /\ Aligned(w.resetAtMs)

(* The windows there are, by subject.                                       *)
WindowsTyped ==
  /\ now \in 0 .. MaxTime
  /\ DOMAIN windows \subseteq Subject
  /\ \A s \in DOMAIN windows : WindowOK(windows[s])
  /\ spent \in [Subject -> Nat]

(* The window of a denied subject is the one it was denied in, or is gone.  *)
DenialInWindow ==
  \/ denial = <<>>
  \/ /\ denial \in Subject \X (1 .. MaxCost) \X Nat
     /\ denial[1] \in DOMAIN windows => windows[denial[1]].resetAtMs = denial[3]

(* The inductive invariant.                                                 *)
RateInv == WindowsTyped /\ SpentMatches /\ DenialInWindow

-----------------------------------------------------------------------------
(* What rounding down to a multiple does.                                   *)
LEMMA Division ==
  ASSUME NEW t \in Nat, NEW W \in Nat \ {0}
  PROVE  /\ t \div W \in Nat
         /\ (t \div W) * W <= t
         /\ t < (t \div W) * W + W
OBVIOUS

(* Below a multiple, the whole window is below it.                          *)
LEMMA MultipleBeyond ==
  ASSUME NEW q \in Nat, NEW p \in Nat, NEW W \in Nat \ {0}, p * W < q * W
  PROVE  p * W + W <= q * W
<1>1. p < q
  <2>1. ASSUME q <= p PROVE FALSE
    <3>1. PICK n \in Nat : p = q + n
      <4>1. p - q \in Nat /\ p = q + (p - q)
        BY <2>1
      <4> QED
        BY <4>1
    <3>2. p * W = q * W + n * W /\ n * W >= 0
      BY <3>1
    <3>3. q * W \in Int /\ p * W \in Int /\ n * W \in Int
      BY <3>1
    <3> QED
      BY <3>2, <3>3
  <2> QED
    BY <2>1
<1>2. PICK n \in Nat : q = p + 1 + n
  <2>1. q - p - 1 \in Nat /\ q = p + 1 + (q - p - 1)
    BY <1>1
  <2> QED
    BY <2>1
<1>3. q * W = p * W + W + n * W /\ n * W >= 0
  BY <1>2
<1>4. q * W \in Int /\ p * W \in Int /\ n * W \in Int
  BY <1>2
<1> QED
  BY <1>3, <1>4

(* Where the window of a time starts.                                       *)
LEMMA Starting ==
  ASSUME NEW t \in Nat
  PROVE  /\ WindowStart(t) \in Nat /\ WindowStart(t) <= t /\ t < WindowStart(t) + WindowMs
         /\ Aligned(WindowStart(t)) /\ Aligned(WindowStart(t) + WindowMs)
<1>1. PICK q \in Nat : q = t \div WindowMs
  BY Division, RateAssumption
<1>2. WindowStart(t) = q * WindowMs
  BY <1>1 DEF WindowStart
<1>3. q * WindowMs <= t /\ t < q * WindowMs + WindowMs
  BY <1>1, Division, RateAssumption
<1>4. q * WindowMs \in Nat
  BY RateAssumption
<1>5. q * WindowMs + WindowMs = (q + 1) * WindowMs /\ q + 1 \in Nat
  BY RateAssumption
<1> QED
  BY <1>2, <1>3, <1>4, <1>5, RateAssumption DEF Aligned

(* Two times of one aligned window end it at the same time.                 *)
LEMMA WindowOutlasts ==
  ASSUME NEW t \in Nat, NEW u \in Nat, WindowStart(t) = WindowStart(u),
         NEW r, Aligned(r), t < r
  PROVE  u < r
<1>1. PICK q \in Nat : r = q * WindowMs
  BY DEF Aligned
<1>2. PICK p \in Nat : WindowStart(t) = p * WindowMs
  BY Starting DEF Aligned
<1>3. /\ p * WindowMs <= t /\ u < p * WindowMs + WindowMs
  BY <1>2, Starting
<1>4. p * WindowMs \in Nat /\ q * WindowMs \in Nat
  BY RateAssumption
<1>5. p * WindowMs < q * WindowMs
  BY <1>1, <1>3, <1>4
<1>6. p * WindowMs + WindowMs <= q * WindowMs
  BY <1>5, MultipleBeyond, RateAssumption
<1> QED
  BY <1>1, <1>3, <1>4, <1>6, RateAssumption

-----------------------------------------------------------------------------
(* It holds of a limiter without windows.                                   *)
LEMMA RateInitially == RateInit => RateInv
BY RateAssumption
DEF RateInit, RateInv, WindowsTyped, SpentMatches, LiveWindow, DenialInWindow, Nothing, Subject

(* currentWindow returns a window that is still open, with what is left.    *)
LEMMA CurrentWindowFacts ==
  ASSUME RateInv, NEW s \in Subject
  PROVE  /\ WindowOK(CurrentWindow(s))
         /\ now < CurrentWindow(s).resetAtMs
         /\ spent[s] + CurrentWindow(s).tokens <= Capacity
         /\ CurrentWindow(s).resetAtMs \in Nat
<1>1. now \in Nat /\ now \in 0 .. MaxTime /\ Capacity \in Nat /\ WindowMs \in Nat
  BY RateAssumption DEF RateInv, WindowsTyped
<1>2. CASE s \in Pruned
  <2>1. CurrentWindow(s) = windows[s] /\ LiveWindow(s)
    BY <1>2 DEF CurrentWindow, Pruned, LiveWindow
  <2>2. WindowOK(windows[s]) /\ spent[s] + windows[s].tokens <= Capacity
    BY <2>1 DEF RateInv, WindowsTyped, SpentMatches, LiveWindow
  <2>3. windows[s].resetAtMs \in Nat
    BY <1>1, <2>1, <2>2 DEF WindowOK, Window, LiveWindow
  <2> QED
    BY <2>1, <2>2, <2>3 DEF LiveWindow
<1>3. CASE s \notin Pruned
  <2>1. PICK w : w = [resetAtMs |-> WindowStart(now) + WindowMs, tokens |-> Capacity]
    OBVIOUS
  <2>2. CurrentWindow(s) = w
    BY <1>3, <2>1 DEF CurrentWindow
  <2>3. ~LiveWindow(s) /\ spent[s] = 0
    BY <1>3 DEF RateInv, SpentMatches, LiveWindow, Pruned
  <2>4. w.resetAtMs = WindowStart(now) + WindowMs /\ w.tokens = Capacity /\ w \in Window
    <3>1. WindowStart(now) \in Nat
      BY <1>1, Starting
    <3> QED
      BY <1>1, <2>1, <3>1 DEF Window
  <2>5. w.resetAtMs - WindowMs = WindowStart(now) /\ WindowStart(now) \in Starts
    <3>1. WindowStart(now) \in Nat
      BY <1>1, Starting
    <3> QED
      BY <1>1, <2>4, <3>1 DEF Starts
  <2>6. WindowOK(w) /\ now < w.resetAtMs /\ w.resetAtMs \in Nat
    BY <1>1, <2>4, <2>5, Starting DEF WindowOK
  <2> QED
    BY <1>1, <2>2, <2>3, <2>4, <2>6
<1> QED
  BY <1>2, <1>3

(* The map after a take: the subject's window is charged, those of others   *)
(* are what they were or have ended.                                        *)
LEMMA ChargedFacts ==
  ASSUME RateInv, NEW s \in Subject, NEW w, windows' = Charged(s, w), now' = now
  PROVE  /\ DOMAIN windows' = Pruned \cup {s} /\ windows'[s] = w
         /\ \A x \in Pruned \ {s} : windows'[x] = windows[x]
         /\ \A x \in Subject \ {s} : LiveWindow(x)' <=> LiveWindow(x)
<1>1. /\ DOMAIN windows' = Pruned \cup {s} /\ windows'[s] = w
      /\ \A x \in Pruned \ {s} : windows'[x] = windows[x]
  BY DEF Charged
<1> QED
  BY <1>1 DEF LiveWindow, Pruned

(* Taking prunes, and then spends in the window of the time or denies.      *)
LEMMA TakeStep ==
  ASSUME RateInv, NEW s \in Subject, NEW cost \in 1 .. MaxCost, Take(s, cost)
  PROVE  RateInv'
<1>1. PICK w : w = CurrentWindow(s)
  OBVIOUS
<1>2. /\ WindowOK(w) /\ now < w.resetAtMs /\ spent[s] + w.tokens <= Capacity
      /\ w.resetAtMs \in Nat
  BY <1>1, CurrentWindowFacts
<1>3. PICK left : left = IF Allowed(s, cost) THEN w.tokens - cost ELSE w.tokens
  OBVIOUS
<1>4. PICK v : v = [w EXCEPT !.tokens = left]
  OBVIOUS
<1>5. /\ windows' = Charged(s, v) /\ now' = now
      /\ IF Allowed(s, cost)
         THEN /\ spent' = [spent EXCEPT ![s] = @ + cost]
              /\ denial' = IF denial # <<>> /\ denial[1] = s THEN <<>> ELSE denial
         ELSE /\ spent' = spent
              /\ denial' = <<s, cost, w.resetAtMs>>
  BY <1>1, <1>3, <1>4 DEF Take
<1>6. /\ cost \in Nat /\ w.tokens \in Nat /\ w.tokens <= Capacity /\ spent[s] \in Nat
      /\ Capacity \in Nat /\ (Allowed(s, cost) <=> w.tokens >= cost)
  BY <1>1, <1>2, RateAssumption DEF WindowOK, Allowed, RateInv, WindowsTyped
<1>7. left \in 0 .. Capacity
  BY <1>3, <1>6
<1>8. v.resetAtMs = w.resetAtMs /\ v.tokens = left /\ v \in Window
  BY <1>2, <1>4, <1>7 DEF WindowOK, Window
<1>9. WindowOK(v)
  BY <1>2, <1>7, <1>8 DEF WindowOK
<1>10. /\ DOMAIN windows' = Pruned \cup {s} /\ windows'[s] = v
       /\ \A x \in Pruned \ {s} : windows'[x] = windows[x]
       /\ \A x \in Subject \ {s} : LiveWindow(x)' <=> LiveWindow(x)
  BY <1>5, ChargedFacts
<1>11. Pruned \subseteq DOMAIN windows /\ \A x \in Subject : LiveWindow(x) => x \in Pruned
  BY DEF Pruned, LiveWindow
<1>12. spent' \in [Subject -> Nat] /\ \A x \in Subject \ {s} : spent'[x] = spent[x]
  BY <1>5, <1>6 DEF RateInv, WindowsTyped
<1>13. WindowsTyped'
  BY <1>5, <1>9, <1>10, <1>11, <1>12 DEF RateInv, WindowsTyped
<1>14. spent'[s] + left <= Capacity
  <2>1. CASE Allowed(s, cost)
    <3>1. spent'[s] = spent[s] + cost /\ left = w.tokens - cost
      BY <2>1, <1>3, <1>5 DEF RateInv, WindowsTyped
    <3> QED
      BY <3>1, <1>2, <1>6
  <2>2. CASE ~Allowed(s, cost)
    BY <2>2, <1>2, <1>3, <1>5
  <2> QED
    BY <2>1, <2>2
<1>15. SpentMatches'
  <2>1. ASSUME NEW x \in Subject
        PROVE  /\ LiveWindow(x)' => spent'[x] + windows'[x].tokens <= Capacity
               /\ ~LiveWindow(x)' => spent'[x] = 0
    <3>1. CASE x = s
      <4>1. LiveWindow(s)'
        BY <1>2, <1>5, <1>8, <1>10 DEF LiveWindow
      <4> QED
        BY <3>1, <4>1, <1>8, <1>10, <1>14
    <3>2. CASE x # s
      BY <3>2, <1>10, <1>11, <1>12 DEF RateInv, SpentMatches
    <3> QED
      BY <3>1, <3>2
  <2> QED
    BY <2>1 DEF SpentMatches
<1>16. DenialInWindow'
  <2>1. CASE ~Allowed(s, cost)
    <3>1. denial' = <<s, cost, w.resetAtMs>> /\ windows'[s].resetAtMs = w.resetAtMs
      BY <2>1, <1>5, <1>8, <1>10
    <3> QED
      BY <3>1, <1>2 DEF DenialInWindow
  <2>2. CASE Allowed(s, cost)
    <3>1. denial' = IF denial # <<>> /\ denial[1] = s THEN <<>> ELSE denial
      BY <2>2, <1>5
    <3>2. ASSUME denial' # <<>>
          PROVE  /\ denial' = denial /\ denial[1] # s
                 /\ denial[1] \in DOMAIN windows' =>
                      denial[1] \in DOMAIN windows /\ windows'[denial[1]] = windows[denial[1]]
      BY <3>1, <3>2, <1>10, <1>11
    <3> QED
      BY <3>2 DEF RateInv, DenialInWindow
  <2> QED
    BY <2>1, <2>2
<1> QED
  BY <1>13, <1>15, <1>16 DEF RateInv

(* A reset drops the window and what was spent in it.                       *)
LEMMA ResetStep ==
  ASSUME RateInv, NEW subjects \in SUBSET Subject, Reset(subjects)
  PROVE  RateInv'
<1>1. /\ DOMAIN windows' = DOMAIN windows \ subjects
      /\ \A x \in DOMAIN windows' : windows'[x] = windows[x]
      /\ now' = now /\ denial' = denial
      /\ spent' = [x \in DOMAIN spent |-> IF x \in subjects THEN 0 ELSE spent[x]]
  BY DEF Reset
<1>2. spent' \in [Subject -> Nat]
      /\ \A x \in Subject : spent'[x] = IF x \in subjects THEN 0 ELSE spent[x]
  BY <1>1 DEF RateInv, WindowsTyped
<1>3. WindowsTyped'
  BY <1>1, <1>2 DEF RateInv, WindowsTyped
<1>4. SpentMatches'
  <2>1. \A x \in Subject : LiveWindow(x)' <=> LiveWindow(x) /\ x \notin subjects
    BY <1>1 DEF LiveWindow
  <2>2. \A x \in Subject : LiveWindow(x)' => windows'[x] = windows[x]
    BY <1>1 DEF LiveWindow
  <2> QED
    BY <1>2, <2>1, <2>2 DEF RateInv, SpentMatches
<1>5. DenialInWindow'
  BY <1>1 DEF RateInv, DenialInWindow
<1> QED
  BY <1>3, <1>4, <1>5 DEF RateInv

(* While the clock stays in an aligned window, what is spent in it counts   *)
(* against a window that is still there.                                    *)
LEMMA TickStep ==
  ASSUME RateInv, Tick
  PROVE  RateInv'
<1>1. /\ windows' = windows /\ denial' = denial
      /\ now \in Nat /\ now' \in Nat /\ now' \in 0 .. MaxTime
      /\ spent' = IF now' < now \/ WindowStart(now') # WindowStart(now) THEN Nothing ELSE spent
  BY RateAssumption DEF Tick, RateInv, WindowsTyped
<1>2. Nothing \in [Subject -> Nat] /\ \A s \in Subject : Nothing[s] = 0
  BY DEF Nothing
<1>3. spent \in [Subject -> Nat]
  BY DEF RateInv, WindowsTyped
<1>4. WindowsTyped'
  <2>1. spent' \in [Subject -> Nat]
    BY <1>1, <1>2, <1>3
  <2> QED
    BY <2>1, <1>1 DEF RateInv, WindowsTyped, WindowOK, Aligned
<1>5. DenialInWindow'
  BY <1>1 DEF RateInv, DenialInWindow
<1>6. SpentMatches'
  <2>1. CASE now' < now \/ WindowStart(now') # WindowStart(now)
    <3>1. \A s \in Subject : spent'[s] = 0
      BY <2>1, <1>1, <1>2
    <3>2. \A s \in DOMAIN windows : windows[s].tokens \in 0 .. Capacity
      BY DEF RateInv, WindowsTyped, WindowOK
    <3>3. \A s \in Subject : LiveWindow(s)' => 0 + windows'[s].tokens <= Capacity
      BY <3>2, <1>1, RateAssumption DEF LiveWindow
    <3> QED
      BY <3>1, <3>3 DEF SpentMatches
  <2>2. CASE ~(now' < now \/ WindowStart(now') # WindowStart(now))
    <3>1. spent' = spent /\ now <= now' /\ WindowStart(now') = WindowStart(now)
      BY <2>2, <1>1
    <3>2. ASSUME NEW s \in Subject
          PROVE  LiveWindow(s)' <=> LiveWindow(s)
      <4>1. CASE s \notin DOMAIN windows
        BY <4>1, <1>1 DEF LiveWindow
      <4>2. CASE s \in DOMAIN windows
        <5>1. PICK r : r = windows[s].resetAtMs /\ Aligned(r)
          BY <4>2 DEF RateInv, WindowsTyped, WindowOK
        <5>2. now < r => now' < r
          BY <5>1, <3>1, <1>1, WindowOutlasts
        <5>3. now' < r => now < r
          BY <5>1, <3>1, <1>1, WindowOutlasts
        <5> QED
          BY <4>2, <5>1, <5>2, <5>3, <1>1 DEF LiveWindow
      <4> QED
        BY <4>1, <4>2
    <3> QED
      BY <3>1, <3>2, <1>1 DEF RateInv, SpentMatches
  <2> QED
    BY <2>1, <2>2
<1> QED
  BY <1>4, <1>5, <1>6 DEF RateInv

(* A step that changes nothing keeps it.                                    *)
LEMMA RateStutter ==
  ASSUME RateInv, UNCHANGED rateVars
  PROVE  RateInv'
BY DEF rateVars, RateInv, WindowsTyped, WindowOK, Aligned, SpentMatches, LiveWindow, DenialInWindow

-----------------------------------------------------------------------------
(* The invariant of the limiter holds in every state.                       *)
THEOREM RateInvariant == RateSpec => []RateInv
<1>1. ASSUME RateInv, [RateNext]_rateVars PROVE RateInv'
  <2>1. ASSUME NEW w \in Workspaces, NEW d \in Devices, NEW wellFormedW \in BOOLEAN,
               NEW wellFormedD \in BOOLEAN,
               Take(PreliminarySubject(w, wellFormedW, d, wellFormedD), 1)
        PROVE  RateInv'
    <3>1. PreliminarySubject(w, wellFormedW, d, wellFormedD) \in Subject /\ 1 \in 1 .. MaxCost
      BY RateAssumption DEF PreliminarySubject, Subject
    <3> QED
      BY <1>1, <2>1, <3>1, TakeStep
  <2>2. ASSUME NEW s \in Workspaces \X Devices, NEW cost \in 2 .. MaxCost, Take(s, cost)
        PROVE  RateInv'
    <3>1. s \in Subject /\ cost \in 1 .. MaxCost
      BY RateAssumption DEF Subject
    <3> QED
      BY <1>1, <2>2, <3>1, TakeStep
  <2>3. ASSUME NEW s \in Subject, Reset({s}) PROVE RateInv'
    BY <1>1, <2>3, ResetStep
  <2>4. CASE Reset(Subject)
    BY <1>1, <2>4, ResetStep
  <2>5. CASE Tick
    BY <1>1, <2>5, TickStep
  <2>6. CASE UNCHANGED rateVars
    BY <1>1, <2>6, RateStutter
  <2> QED
    BY <1>1, <2>1, <2>2, <2>3, <2>4, <2>5, <2>6 DEF RateNext
<1> QED
  BY <1>1, RateInitially, PTL DEF RateSpec

(* Stored windows are aligned and hold no more than the capacity.           *)
THEOREM LimiterIsTyped == RateSpec => []RateTypeOK
<1>1. RateInv => RateTypeOK
  BY DEF RateInv, WindowsTyped, WindowOK, DenialInWindow, RateTypeOK
<1> QED
  BY <1>1, RateInvariant, PTL

(* No subject is allowed more than the capacity within an aligned window,   *)
(* whoever takes in between and wherever the clock has been.                *)
THEOREM CapacityAlwaysHeld == RateSpec => []CapacityHeld
<1>1. RateInv => CapacityHeld
  <2> SUFFICES ASSUME RateInv, NEW s \in Subject PROVE spent[s] <= Capacity
    BY DEF CapacityHeld
  <2>1. spent[s] \in Nat /\ Capacity \in Nat
    BY RateAssumption DEF RateInv, WindowsTyped
  <2>2. LiveWindow(s) => windows[s].tokens \in Nat
    BY RateAssumption DEF RateInv, WindowsTyped, WindowOK, LiveWindow
  <2> QED
    BY <2>1, <2>2 DEF RateInv, SpentMatches
<1> QED
  BY <1>1, RateInvariant, PTL

(* Once the time a denial names has come, the same cost is allowed, unless  *)
(* no window ever holds that much.                                          *)
THEOREM RetryAfterAlwaysHonest == RateSpec => []RetryAfterIsHonest
<1>1. RateInv => RetryAfterIsHonest
  <2> SUFFICES ASSUME RateInv, denial # <<>>, now >= denial[3]
               PROVE  Allowed(denial[1], denial[2]) <=> denial[2] <= Capacity
    BY DEF RetryAfterIsHonest
  <2>1. PICK s \in Subject, cost \in 1 .. MaxCost, until \in Nat : denial = <<s, cost, until>>
    BY DEF RateInv, DenialInWindow
  <2>2. s \notin Pruned
    <3>1. s \in DOMAIN windows => windows[s].resetAtMs = until
      BY <2>1 DEF RateInv, DenialInWindow
    <3> QED
      BY <2>1, <3>1 DEF Pruned, RateInv, WindowsTyped
  <2>3. CurrentWindow(s).tokens = Capacity
    BY <2>2 DEF CurrentWindow
  <2> QED
    BY <2>1, <2>3, RateAssumption DEF Allowed
<1> QED
  BY <1>1, RateInvariant, PTL

(* A take leaves what every other subject may still take, for all that it   *)
(* prunes the windows of all of them.                                       *)
THEOREM TakesTouchOneSubject == RateSpec => TakeTouchesOneSubject
<1>1. ASSUME RateInv, NEW s \in Subject, NEW cost \in 1 .. MaxCost, Take(s, cost),
             NEW x \in Subject \ {s}
      PROVE  Remaining(x)' = Remaining(x)
  <2>1. PICK w : windows' = Charged(s, w) /\ now' = now
    BY <1>1 DEF Take
  <2>2. /\ \A y \in Pruned \ {s} : windows'[y] = windows[y]
        /\ LiveWindow(x)' <=> LiveWindow(x)
    BY <1>1, <2>1, ChargedFacts
  <2>3. (x \in Pruned)' <=> x \in Pruned
    BY <2>2 DEF Pruned, LiveWindow
  <2>4. CASE x \in Pruned
    <3>1. CurrentWindow(x) = windows[x] /\ CurrentWindow(x)' = windows'[x]
      BY <2>3, <2>4 DEF CurrentWindow
    <3> QED
      BY <2>2, <2>4, <3>1 DEF Remaining
  <2>5. CASE x \notin Pruned
    <3>1. CurrentWindow(x).tokens = Capacity
      BY <2>5 DEF CurrentWindow
    <3>2. (CurrentWindow(x).tokens)' = Capacity
      BY <2>3, <2>5 DEF CurrentWindow
    <3> QED
      BY <3>1, <3>2 DEF Remaining
  <2> QED
    BY <2>4, <2>5
<1>2. RateInv => [\A s \in Subject, cost \in 1 .. MaxCost :
                    Take(s, cost) => \A x \in Subject \ {s} : Remaining(x)' = Remaining(x)]_rateVars
  BY <1>1
<1> QED
  BY <1>2, RateInvariant, PTL DEF TakeTouchesOneSubject

-----------------------------------------------------------------------------
(* THE SNAPSHOT STORE (SnapshotFileStore), for any processes, any number of *)
(* them with and without the lock, any ids, contents and faults.            *)

(* The points of a create between taking the lock and giving it back.       *)
Inside == {"write", "link", "clean", "unlock"}

(* The lock is who is inside's, among those that use it.                    *)
LockInv ==
  /\ \A p \in Processes : pc[p] = "lock" => p \in Locking
  /\ \A p \in Locking : pc[p] \in Inside => lock = {p}

(* An answer is what the file says.                                         *)
AnswerHolds(t) ==
  /\ t.answer = "created" => files[t.id] = {t.record}
  /\ t.answer = "duplicate" => files[t.id] # {}

(* An answer is true from the moment the link decides it until it is given. *)
AnswersInv ==
  /\ \A t \in told : AnswerHolds(t)
  /\ \A p \in Processes : \A j \in job[p] :
       /\ AnswerHolds(j)
       /\ pc[p] \in {"lock", "write", "link"} => j.answer = "error"

(* The inductive invariant.                                                 *)
FileInv == TypeOK /\ LockInv /\ AnswersInv

(* A file that is there stays, unless the power fails.                      *)
FilesStay == \A id \in SnapshotIds : files[id] # {} => files'[id] = files[id]

-----------------------------------------------------------------------------
(* It holds of an empty directory.                                          *)
LEMMA StoreInitially == Init => FileInv
BY FileStoreAssumption
DEF Init, FileInv, TypeOK, LockInv, AnswersInv, AnswerHolds, Inside

(* The call ends, at whatever step: nothing is left of its job.             *)
LEMMA Leaving ==
  ASSUME TypeOK, NEW p \in Processes, Leave(p)
  PROVE  /\ pc' \in [Processes -> {"idle", "lock", "write", "link", "clean", "unlock", "read"}]
         /\ job' \in [Processes -> SUBSET Job]
         /\ pc'[p] = "idle" /\ job'[p] = {}
         /\ \A q \in Processes \ {p} : pc'[q] = pc[q] /\ job'[q] = job[q]
         /\ \A q \in Processes : /\ (job'[q] = {}) = (pc'[q] \in {"idle", "read"})
                                 /\ \A i, j \in job'[q] : i = j
BY DEF Leave, Go, TypeOK

(* The call goes on to a step where its job is still what it was.           *)
LEMMA Going ==
  ASSUME TypeOK, NEW p \in Processes, NEW step \in {"lock", "write", "link", "clean", "unlock"},
         Go(p, step), job' = job, pc[p] \notin {"idle", "read"}
  PROVE  /\ pc' \in [Processes -> {"idle", "lock", "write", "link", "clean", "unlock", "read"}]
         /\ job' \in [Processes -> SUBSET Job]
         /\ pc'[p] = step
         /\ \A q \in Processes \ {p} : pc'[q] = pc[q]
         /\ \A q \in Processes : /\ (job'[q] = {}) = (pc'[q] \in {"idle", "read"})
                                 /\ \A i, j \in job'[q] : i = j
BY DEF Go, TypeOK

(* The job gets its answer on the way to the next step.                     *)
LEMMA Answering ==
  ASSUME TypeOK, NEW p \in Processes, NEW step \in {"clean", "unlock"},
         NEW answer \in {"created", "duplicate", "error"},
         Go(p, step), Answer(p, answer), pc[p] \notin {"idle", "read"}
  PROVE  /\ pc' \in [Processes -> {"idle", "lock", "write", "link", "clean", "unlock", "read"}]
         /\ job' \in [Processes -> SUBSET Job]
         /\ pc'[p] = step
         /\ \A q \in Processes \ {p} : pc'[q] = pc[q] /\ job'[q] = job[q]
         /\ \A q \in Processes : /\ (job'[q] = {}) = (pc'[q] \in {"idle", "read"})
                                 /\ \A i, j \in job'[q] : i = j
         /\ \A t \in job'[p] : \E j \in job[p] :
              t.id = j.id /\ t.record = j.record /\ t.answer = answer
<1>1. PICK j \in Job : job[p] = {j}
  <2>1. job[p] # {} /\ job[p] \subseteq Job /\ \A i, k \in job[p] : i = k
    BY DEF TypeOK
  <2> QED
    BY <2>1
<1>2. PICK t : t = [j EXCEPT !.answer = answer]
  OBVIOUS
<1>3. t \in Job /\ t.id = j.id /\ t.record = j.record /\ t.answer = answer
  BY <1>1, <1>2 DEF Job
<1>4. {[i EXCEPT !.answer = answer] : i \in job[p]} = {t}
  BY <1>1, <1>2
<1>5. job' = [job EXCEPT ![p] = {t}]
  <2>1. job' = [job EXCEPT ![p] = {[i EXCEPT !.answer = answer] : i \in job[p]}]
    BY DEF Answer
  <2> QED
    BY <2>1, <1>4
<1>6. /\ job' \in [Processes -> SUBSET Job] /\ job'[p] = {t}
      /\ \A q \in Processes \ {p} : job'[q] = job[q]
  BY <1>3, <1>5 DEF TypeOK
<1>7. /\ pc' \in [Processes -> {"idle", "lock", "write", "link", "clean", "unlock", "read"}]
      /\ pc'[p] = step
      /\ \A q \in Processes \ {p} : pc'[q] = pc[q]
  BY DEF Go, TypeOK
<1> QED
  BY <1>1, <1>3, <1>6, <1>7 DEF TypeOK

-----------------------------------------------------------------------------
(* A step that leaves the files, what was told and the jobs of others alone *)
(* and gives p no answer but one that holds.                                *)
LEMMA QuietAnswers ==
  ASSUME FileInv, NEW p \in Processes, files' = files, told' = told,
         \A q \in Processes \ {p} : pc'[q] = pc[q] /\ job'[q] = job[q],
         \A j \in job'[p] : /\ AnswerHolds(j)
                            /\ pc'[p] \in {"lock", "write", "link"} => j.answer = "error"
  PROVE  AnswersInv' /\ FilesStay
BY DEF FileInv, AnswersInv, AnswerHolds, FilesStay

(* Beginning a create changes no file.                                      *)
LEMMA CreateStep ==
  ASSUME FileInv, NEW p \in Processes, NEW id \in SnapshotIds, NEW record \in Records,
         Create(p, id, record)
  PROVE  FileInv' /\ FilesStay
<1>1. PICK j : j = [id |-> id, record |-> record, answer |-> "error"]
  OBVIOUS
<1>2. j \in Job /\ j.answer = "error"
  BY <1>1 DEF Job
<1>3. PICK step \in {"lock", "write"} :
        step = (IF p \in Locking THEN "lock" ELSE "write") /\ Go(p, step)
  BY DEF Create
<1>4. /\ pc' \in [Processes -> {"idle", "lock", "write", "link", "clean", "unlock", "read"}]
      /\ pc'[p] = step
      /\ \A q \in Processes \ {p} : pc'[q] = pc[q]
  BY <1>3 DEF Go, FileInv, TypeOK
<1>5. /\ job' \in [Processes -> SUBSET Job] /\ job'[p] = {j}
      /\ \A q \in Processes \ {p} : job'[q] = job[q]
      /\ UNCHANGED <<files, unsynced, temps, lock, told>>
  BY <1>1, <1>2 DEF Create, FileInv, TypeOK
<1>6. TypeOK'
  BY <1>4, <1>5 DEF FileInv, TypeOK
<1>7. LockInv'
  <2>1. step = "lock" <=> p \in Locking
    BY <1>3
  <2>2. lock' = lock
    BY <1>5
  <2> QED
    BY <2>1, <2>2, <1>4, FileStoreAssumption DEF FileInv, LockInv, Inside
<1>8. AnswersInv' /\ FilesStay
  BY <1>2, <1>4, <1>5, QuietAnswers DEF AnswerHolds
<1> QED
  BY <1>6, <1>7, <1>8 DEF FileInv

(* Who creates the lock file is inside, alone.                              *)
LEMMA TakeLockStep ==
  ASSUME FileInv, NEW p \in Processes, TakeLock(p)
  PROVE  FileInv' /\ FilesStay
<1>1. /\ pc[p] = "lock" /\ lock = {} /\ lock' = {p}
      /\ UNCHANGED <<files, unsynced, temps, told>>
      /\ (Go(p, "write") /\ job' = job) \/ Leave(p)
  BY DEF TakeLock
<1>2. TypeOK /\ pc[p] \notin {"idle", "read"}
  BY <1>1 DEF FileInv
<1>3. /\ TypeOK' /\ pc'[p] \in {"write", "idle"}
      /\ \A q \in Processes \ {p} : pc'[q] = pc[q] /\ job'[q] = job[q]
      /\ \A j \in job'[p] : j \in job[p]
  <2>1. CASE Go(p, "write") /\ job' = job
    BY <1>1, <1>2, <2>1, Going DEF TypeOK
  <2>2. CASE Leave(p)
    BY <1>1, <1>2, <2>2, Leaving DEF TypeOK
  <2> QED
    BY <1>1, <2>1, <2>2
<1>4. LockInv'
  <2>1. \A q \in Locking : pc[q] \notin Inside
    BY <1>1 DEF FileInv, LockInv
  <2> QED
    BY <1>1, <1>3, <2>1, FileStoreAssumption DEF FileInv, LockInv, Inside
<1>5. AnswersInv' /\ FilesStay
  <2>1. \A j \in job'[p] : AnswerHolds(j) /\ j.answer = "error"
    BY <1>1, <1>3 DEF FileInv, AnswersInv
  <2> QED
    BY <1>1, <1>3, <2>1, QuietAnswers
<1> QED
  BY <1>3, <1>4, <1>5 DEF FileInv

(* The steps that end a call without touching the lock: it was locked out,  *)
(* has read, or is killed.                                                  *)
LEMMA LeaveStep ==
  ASSUME FileInv, NEW p \in Processes, Leave(p), UNCHANGED <<files, unsynced, temps, lock, told>>
  PROVE  FileInv' /\ FilesStay
<1>1. TypeOK
  BY DEF FileInv
<1>2. /\ pc'[p] = "idle" /\ job'[p] = {}
      /\ \A q \in Processes \ {p} : pc'[q] = pc[q] /\ job'[q] = job[q]
  BY <1>1, Leaving
<1>3. TypeOK'
  BY <1>1, Leaving DEF TypeOK
<1>4. LockInv'
  BY <1>2, FileStoreAssumption DEF FileInv, LockInv, Inside
<1>5. AnswersInv' /\ FilesStay
  BY <1>2, QuietAnswers
<1> QED
  BY <1>3, <1>4, <1>5 DEF FileInv

(* The temporary file is the writer's own.                                  *)
LEMMA WriteTempStep ==
  ASSUME FileInv, NEW p \in Processes, WriteTemp(p)
  PROVE  FileInv' /\ FilesStay
<1>1. /\ pc[p] = "write" /\ TypeOK
      /\ temps' = temps \cup {<<p, j.id>> : j \in job[p]}
      /\ UNCHANGED <<files, unsynced, lock, job, told>>
  BY DEF WriteTemp, FileInv
<1>2. PICK step \in {"link", "unlock"} : Go(p, step)
  BY DEF WriteTemp
<1>3. /\ pc'[p] = step
      /\ \A q \in Processes \ {p} : pc'[q] = pc[q]
  BY <1>1, <1>2, Going
<1>4. TypeOK'
  <2>1. \A j \in job[p] : j.id \in SnapshotIds
    BY <1>1 DEF TypeOK, Job
  <2>2. temps' \subseteq Processes \X SnapshotIds
    BY <1>1, <2>1 DEF TypeOK
  <2> QED
    BY <1>1, <1>2, <2>2, Going DEF TypeOK
<1>5. LockInv'
  BY <1>1, <1>3, FileStoreAssumption DEF FileInv, LockInv, Inside
<1>6. AnswersInv' /\ FilesStay
  <2>1. \A j \in job'[p] : AnswerHolds(j) /\ j.answer = "error"
    BY <1>1 DEF FileInv, AnswersInv
  <2> QED
    BY <1>1, <1>3, <2>1, QuietAnswers
<1> QED
  BY <1>4, <1>5, <1>6 DEF FileInv

(* The link decides: only a file that is not there is made.                 *)
LEMMA LinkStep ==
  ASSUME FileInv, NEW p \in Processes, Link(p)
  PROVE  FileInv' /\ FilesStay
<1>1. /\ pc[p] = "link" /\ TypeOK /\ Go(p, "clean")
      /\ UNCHANGED <<temps, lock, told>>
  BY DEF Link, FileInv
<1>2. PICK j \in job[p] :
        \/ /\ files[j.id] = {}
           /\ files' = [files EXCEPT ![j.id] = {j.record}]
           /\ unsynced' = unsynced \cup {j.id}
           /\ Answer(p, "created")
        \/ /\ files[j.id] # {}
           /\ Answer(p, "duplicate")
           /\ UNCHANGED <<files, unsynced>>
  BY DEF Link
<1>3. j.id \in SnapshotIds /\ j.record \in Records /\ \A i \in job[p] : i = j
  BY <1>1 DEF TypeOK, Job
<1>4. PICK answer \in {"created", "duplicate"} : /\ Answer(p, answer)
                                                 /\ answer = "created" => /\ files[j.id] = {}
                                                    /\ files' = [files EXCEPT ![j.id] = {j.record}]
                                                    /\ unsynced' = unsynced \cup {j.id}
                                                 /\ answer = "duplicate" => /\ files[j.id] # {}
                                                    /\ UNCHANGED <<files, unsynced>>
  BY <1>2
<1>5. /\ pc'[p] = "clean"
      /\ \A q \in Processes \ {p} : pc'[q] = pc[q] /\ job'[q] = job[q]
      /\ \A t \in job'[p] : t.id = j.id /\ t.record = j.record /\ t.answer = answer
  BY <1>1, <1>3, <1>4, Answering
<1>6. /\ files' \in [SnapshotIds -> SUBSET (Records \cup {"torn"})]
      /\ unsynced' \subseteq SnapshotIds
      /\ FilesStay
      /\ answer = "created" => files'[j.id] = {j.record}
      /\ answer = "duplicate" => files'[j.id] # {}
  <2>1. CASE answer = "created"
    BY <2>1, <1>1, <1>3, <1>4 DEF TypeOK, FilesStay
  <2>2. CASE answer = "duplicate"
    BY <2>2, <1>1, <1>4 DEF TypeOK, FilesStay
  <2> QED
    BY <2>1, <2>2
<1>7. TypeOK'
  BY <1>1, <1>4, <1>6, Answering DEF TypeOK
<1>8. LockInv'
  BY <1>1, <1>5, FileStoreAssumption DEF FileInv, LockInv, Inside
<1>9. \A t : t \in Job /\ AnswerHolds(t) => AnswerHolds(t)'
  BY <1>6 DEF AnswerHolds, FilesStay, Job
<1>10. told \subseteq Job /\ \A q \in Processes : job[q] \subseteq Job
  BY <1>1 DEF TypeOK
<1>11. AnswersInv'
  <2>1. \A t \in told' : AnswerHolds(t)'
    BY <1>1, <1>9, <1>10 DEF FileInv, AnswersInv
  <2>2. ASSUME NEW q \in Processes, NEW t \in job'[q]
        PROVE  AnswerHolds(t)' /\ (pc'[q] \in {"lock", "write", "link"} => t.answer = "error")
    <3>1. CASE q = p
      BY <3>1, <2>2, <1>5, <1>6 DEF AnswerHolds
    <3>2. CASE q # p
      <4>1. pc'[q] = pc[q] /\ t \in job[q]
        BY <3>2, <2>2, <1>5
      <4> QED
        BY <4>1, <1>9, <1>10 DEF FileInv, AnswersInv
    <3> QED
      BY <3>1, <3>2
  <2> QED
    BY <2>1, <2>2 DEF AnswersInv
<1> QED
  BY <1>6, <1>7, <1>8, <1>11 DEF FileInv

(* A link that fails changes no file.                                       *)
LEMMA LinkFailsStep ==
  ASSUME FileInv, NEW p \in Processes, LinkFails(p)
  PROVE  FileInv' /\ FilesStay
<1>1. /\ pc[p] = "link" /\ TypeOK /\ Go(p, "clean")
      /\ UNCHANGED <<files, unsynced, temps, lock, job, told>>
  BY DEF LinkFails, FileInv
<1>2. /\ pc'[p] = "clean"
      /\ \A q \in Processes \ {p} : pc'[q] = pc[q]
  BY <1>1, Going
<1>3. TypeOK'
  BY <1>1, Going DEF TypeOK
<1>4. LockInv'
  BY <1>1, <1>2, FileStoreAssumption DEF FileInv, LockInv, Inside
<1>5. AnswersInv' /\ FilesStay
  <2>1. \A j \in job'[p] : AnswerHolds(j)
    BY <1>1 DEF FileInv, AnswersInv
  <2> QED
    BY <1>1, <1>2, <2>1, QuietAnswers
<1> QED
  BY <1>3, <1>4, <1>5 DEF FileInv

(* Removing the temporary file leaves the record.                           *)
LEMMA RemoveTempStep ==
  ASSUME FileInv, NEW p \in Processes, RemoveTemp(p)
  PROVE  FileInv' /\ FilesStay
<1>1. /\ pc[p] = "clean" /\ TypeOK /\ Go(p, "unlock")
      /\ UNCHANGED <<files, unsynced, lock, told>>
      /\ \/ temps' = temps \ {<<p, j.id>> : j \in job[p]} /\ job' = job
         \/ Answer(p, "error") /\ temps' = temps
  BY DEF RemoveTemp, FileInv
<1>2. /\ TypeOK' /\ pc'[p] = "unlock"
      /\ \A q \in Processes \ {p} : pc'[q] = pc[q] /\ job'[q] = job[q]
      /\ \A t \in job'[p] : t \in job[p] \/ t.answer = "error"
  <2>1. CASE temps' = temps \ {<<p, j.id>> : j \in job[p]} /\ job' = job
    BY <1>1, <2>1, Going DEF TypeOK
  <2>2. CASE Answer(p, "error") /\ temps' = temps
    <3>1. \A t \in job'[p] : t.answer = "error"
      BY <1>1, <2>2, Answering
    <3> QED
      BY <1>1, <2>2, <3>1, Answering DEF TypeOK
  <2> QED
    BY <1>1, <2>1, <2>2
<1>3. LockInv'
  BY <1>1, <1>2, FileStoreAssumption DEF FileInv, LockInv, Inside
<1>4. AnswersInv' /\ FilesStay
  <2>1. \A t \in job'[p] : AnswerHolds(t)
    BY <1>2 DEF FileInv, AnswersInv, AnswerHolds
  <2> QED
    BY <1>1, <1>2, <2>1, QuietAnswers
<1> QED
  BY <1>2, <1>3, <1>4 DEF FileInv

(* Only who uses the lock and is inside it removes its file.                *)
LEMMA ReleaseStep ==
  ASSUME FileInv, NEW p \in Processes, Release(p)
  PROVE  FileInv' /\ FilesStay
<1> DEFINE Failed == {[j EXCEPT !.answer = "error"] : j \in job[p]}
<1>1. /\ pc[p] = "unlock" /\ TypeOK /\ Leave(p)
      /\ lock' = (IF p \in Locking THEN {} ELSE lock) \/ (p \in Locking /\ lock' = lock)
      /\ told' = told \cup job[p] \/ told' = told \cup Failed
      /\ UNCHANGED <<files, unsynced, temps>>
  BY DEF Release, FileInv
<1>2. /\ pc'[p] = "idle" /\ job'[p] = {}
      /\ \A q \in Processes \ {p} : pc'[q] = pc[q] /\ job'[q] = job[q]
  BY <1>1, Leaving
<1>6. \A t \in Failed : t \in Job /\ t.answer = "error"
  BY <1>1 DEF TypeOK, Job
<1> HIDE DEF Failed
<1>3. TypeOK'
  <2>1. told' \subseteq Job /\ lock' \subseteq Processes
    BY <1>1, <1>6 DEF TypeOK
  <2> QED
    BY <1>1, <2>1, Leaving DEF TypeOK
<1>4. LockInv'
  <2>1. ASSUME NEW q \in Locking, pc'[q] \in Inside
        PROVE  lock' = {q}
    <3>1. q # p /\ pc[q] \in Inside /\ lock = {q}
      BY <1>2, <2>1, FileStoreAssumption DEF FileInv, LockInv, Inside
    <3>2. p \notin Locking
      BY <1>1, <3>1 DEF FileInv, LockInv, Inside
    <3> QED
      BY <1>1, <3>1, <3>2
  <2> QED
    BY <1>2, <2>1 DEF FileInv, LockInv
<1>5. AnswersInv' /\ FilesStay
  <2>1. FilesStay
    BY <1>1 DEF FilesStay
  <2>2. \A t \in told' : AnswerHolds(t)
    BY <1>1, <1>6 DEF FileInv, AnswersInv, AnswerHolds
  <2> QED
    BY <1>1, <1>2, <2>1, <2>2 DEF FileInv, AnswersInv, AnswerHolds
<1> QED
  BY <1>3, <1>4, <1>5 DEF FileInv

(* Beginning a read changes no file.                                        *)
LEMMA GetStep ==
  ASSUME FileInv, NEW p \in Processes, NEW id \in SnapshotIds, Get(p, id)
  PROVE  FileInv' /\ FilesStay
<1>1. /\ pc[p] = "idle" /\ TypeOK /\ Go(p, "read")
      /\ UNCHANGED <<files, unsynced, temps, lock, job, told>>
  BY DEF Get, FileInv
<1>2. /\ pc' \in [Processes -> {"idle", "lock", "write", "link", "clean", "unlock", "read"}]
      /\ pc'[p] = "read" /\ job'[p] = {}
      /\ \A q \in Processes \ {p} : pc'[q] = pc[q] /\ job'[q] = job[q]
  BY <1>1 DEF Go, TypeOK
<1>3. TypeOK'
  BY <1>1, <1>2 DEF TypeOK
<1>4. LockInv'
  BY <1>1, <1>2, FileStoreAssumption DEF FileInv, LockInv, Inside
<1>5. AnswersInv' /\ FilesStay
  BY <1>1, <1>2, QuietAnswers
<1> QED
  BY <1>3, <1>4, <1>5 DEF FileInv

(* What reaches the disk on its own changes no file that is read.           *)
LEMMA WritebackStep ==
  ASSUME FileInv, NEW id \in SnapshotIds, Writeback(id)
  PROVE  FileInv' /\ FilesStay
<1>1. unsynced' = unsynced \ {id} /\ UNCHANGED <<files, temps, lock, pc, job, told>>
  BY DEF Writeback
<1> QED
  BY <1>1 DEF FileInv, TypeOK, LockInv, AnswersInv, AnswerHolds, FilesStay, Inside

(* Nothing that was said before the power failed counts after.              *)
LEMMA PowerLossStep ==
  ASSUME FileInv, PowerLoss
  PROVE  /\ FileInv'
         /\ \A id \in SnapshotIds \ unsynced : files'[id] = files[id]
<1>1. PICK torn \in SUBSET unsynced, gone \in SUBSET unsynced :
        files' = [id \in SnapshotIds |->
                   IF id \in gone THEN {} ELSE IF id \in torn THEN {"torn"} ELSE files[id]]
  BY DEF PowerLoss
<1>2. /\ pc' = [p \in Processes |-> "idle"] /\ job' = [p \in Processes |-> {}]
      /\ unsynced' = {} /\ told' = {} /\ UNCHANGED <<temps, lock>>
  BY DEF PowerLoss
<1>3. /\ files' \in [SnapshotIds -> SUBSET (Records \cup {"torn"})]
      /\ \A id \in SnapshotIds \ unsynced : files'[id] = files[id]
  BY <1>1 DEF FileInv, TypeOK
<1>4. TypeOK'
  BY <1>2, <1>3 DEF FileInv, TypeOK
<1>5. LockInv' /\ AnswersInv'
  BY <1>2, FileStoreAssumption DEF LockInv, AnswersInv, Inside
<1> QED
  BY <1>3, <1>4, <1>5 DEF FileInv

-----------------------------------------------------------------------------
(* Every step keeps the invariant and, the power failing apart, the files.  *)
LEMMA StoreStep ==
  ASSUME FileInv, [Next]_vars
  PROVE  /\ FileInv'
         /\ FilesStay \/ (PowerLoss /\ \A id \in SnapshotIds \ unsynced : files'[id] = files[id])
<1>1. ASSUME NEW p \in Processes, Step(p) \/ Crash(p)
      PROVE  FileInv' /\ FilesStay
  BY <1>1, TakeLockStep, LeaveStep, WriteTempStep, LinkStep, LinkFailsStep, RemoveTempStep, ReleaseStep
  DEF Step, LockedOut, ReadRecord, Crash
<1>2. CASE UNCHANGED vars
  BY <1>2 DEF vars, FileInv, TypeOK, LockInv, AnswersInv, AnswerHolds, FilesStay, Inside
<1> QED
  BY <1>1, <1>2, CreateStep, GetStep, WritebackStep, PowerLossStep DEF Next

(* The invariant of the store holds in every state.                         *)
THEOREM StoreInvariant == Spec => []FileInv
BY StoreInitially, StoreStep, PTL DEF Spec

(* Processes that use the lock are never two inside it, and nobody inside   *)
(* finds its file gone, for any mix of processes with and without it.       *)
THEOREM LockAlwaysExcludes == Spec => []LockExcludes
<1>1. FileInv => LockExcludes
  <2> SUFFICES ASSUME FileInv, NEW p \in Locking, NEW q \in Locking, pc[p] \in Inside
               PROVE  lock = {p} /\ (pc[q] \in Inside => p = q)
    BY DEF LockExcludes, Inside
  <2>1. lock = {p} /\ (pc[q] \in Inside => lock = {q})
    BY DEF FileInv, LockInv
  <2> QED
    BY <2>1
<1> QED
  BY <1>1, StoreInvariant, PTL

(* However many processes race for one id, with the lock or without, killed *)
(* or failing, what create answered is true of the files.                   *)
THEOREM AnswersAlwaysTrue == Spec => []AnswersAreTrue
<1>1. FileInv => AnswersAreTrue
  BY DEF FileInv, AnswersInv, AnswerHolds, AnswersAreTrue
<1> QED
  BY <1>1, StoreInvariant, PTL

(* A stored record is never replaced nor removed, unless the power fails    *)
(* before it has reached the disk.                                          *)
THEOREM RecordsStay == Spec => RecordsAreImmutable
<1>1. ASSUME FileInv, [Next]_vars
      PROVE  [\A id \in SnapshotIds :
                files[id] # {} => files'[id] = files[id] \/ (PowerLoss /\ id \in unsynced)]_vars
  BY <1>1, StoreStep DEF FilesStay
<1> QED
  BY <1>1, StoreInvariant, PTL DEF Spec, RecordsAreImmutable

-----------------------------------------------------------------------------
(* THE BUNDLE FILE (BundleFileStore), for any callers, contents and faults: *)
(* the lock is held by whom it names, and the store is one cell.            *)

(* A call, and the points it can be at.                                     *)
CallShape ==
  [op : {"write", "delete", "read"}, content : SUBSET Bundles, locked : BOOLEAN, done : BOOLEAN]

(* The points a call can be at.                                             *)
CallSteps == {"idle", "lock", "lock contents", "write", "rename", "sweep", "delete", "read",
          "written", "unlock"}

(* A call at a step of its own kind, which has taken effect or not.         *)
CallOK(c, step, answer) ==
  /\ c \in CallShape
  /\ step \in {"write", "rename", "sweep"} => c.op = "write"
  /\ step = "delete" => c.op = "delete"
  /\ step = "read" => c.op = "read"
  /\ step \in {"lock", "lock contents", "unlock"} => c.locked
  /\ c.op = "read" => ~c.locked
  /\ c.op = "delete" => c.content = {}
  /\ step = "written" => c.done
  /\ step \notin {"idle", "written", "unlock"} => ~c.done
  /\ step = "unlock" => answer = (IF c.done THEN "ok" ELSE "failed")

(* What a caller holds at each point, and what it will answer.              *)
CallerOK(step, calls, answer) ==
  /\ step \in CallSteps /\ answer \in {"none", "ok", "failed"}
  /\ step = "idle" => calls = {}
  /\ step # "idle" => \E c : calls = {c} /\ CallOK(c, step, answer)
  /\ step \notin {"idle", "unlock"} => answer = "none"

(* The part of LockIsHeldOrBlamed that is about one caller.                 *)
LockClause(p) ==
  /\ Holds(p) => bundleLock = {p}
  /\ p \in bundleLock => Holds(p) \/ p \in blamed
  /\ <<p, "live">> \in bundleTemps => at[p] \in {"rename", "sweep"}
  /\ <<p, "left">> \in bundleTemps => p \in blamed

(* The variables are functions of the callers.                              *)
Functions ==
  at = [p \in Callers |-> at[p]] /\ call = [p \in Callers |-> call[p]] /\ said = [p \in Callers |-> said[p]]

(* The inductive invariant.                                                 *)
BundleInv ==
  /\ Functions
  /\ \A p \in Callers : CallerOK(at[p], call[p], said[p])
  /\ bundle \subseteq Bundles
  /\ \A p \in Callers : LockClause(p)

(* A step of p changes nothing of the other callers.                        *)
Others(p) ==
  /\ Functions'
  /\ \A q \in Callers \ {p} : at'[q] = at[q] /\ call'[q] = call[q] /\ said'[q] = said[q]

-----------------------------------------------------------------------------
(* It holds of an empty directory.                                          *)
LEMMA BundleInitially == BundleInit => BundleInv
BY DEF BundleInit, BundleInv, Functions, CallerOK, CallSteps, LockClause, Holds

(* The invariant after a step that leaves the lock file alone.              *)
LEMMA LockStays ==
  ASSUME BundleInv, NEW p \in Callers, Others(p),
         CallerOK(at'[p], call'[p], said'[p]),
         bundle' \subseteq Bundles,
         bundleLock' = bundleLock, blamed \subseteq blamed',
         \A t : t[1] # p => (t \in bundleTemps' <=> t \in bundleTemps),
         Holds(p)' => Holds(p), Holds(p) => Holds(p)' \/ p \in blamed',
         <<p, "live">> \in bundleTemps' => at'[p] \in {"rename", "sweep"},
         <<p, "left">> \in bundleTemps' => p \in blamed'
  PROVE  BundleInv'
<1>1. \A q \in Callers : CallerOK(at[q], call[q], said[q])'
  BY DEF BundleInv, Others
<1>2. ASSUME NEW q \in Callers PROVE LockClause(q)'
  <2>1. LockClause(q)
    BY DEF BundleInv
  <2>2. CASE q = p
    BY <2>1, <2>2 DEF LockClause
  <2>3. CASE q # p
    <3>1. Holds(q)' <=> Holds(q)
      BY <2>3 DEF Holds, Others
    <3>2. /\ <<q, "live">> \in bundleTemps' <=> <<q, "live">> \in bundleTemps
          /\ <<q, "left">> \in bundleTemps' <=> <<q, "left">> \in bundleTemps
      BY <2>3
    <3>3. at'[q] = at[q]
      BY <2>3 DEF Others
    <3> QED
      BY <2>1, <3>1, <3>2, <3>3 DEF LockClause
  <2> QED
    BY <2>2, <2>3
<1> QED
  BY <1>1, <1>2 DEF BundleInv, Others

(* The call of a caller that is in one.                                     *)
LEMMA OneCall ==
  ASSUME BundleInv, NEW p \in Callers, at[p] # "idle"
  PROVE  \E c : call[p] = {c} /\ CallOK(c, at[p], said[p])
BY DEF BundleInv, CallerOK

(* The end of a call.                                                       *)
LEMMA Returning ==
  ASSUME BundleInv, NEW p \in Callers, NEW answer, Return(p, answer)
  PROVE  Others(p) /\ at'[p] = "idle" /\ call'[p] = {} /\ said'[p] = answer /\ ~Holds(p)'
<1>1. Others(p) /\ at'[p] = "idle" /\ call'[p] = {} /\ said'[p] = answer
  BY DEF Return, To, BundleInv, Functions, Others
<1> QED
  BY <1>1 DEF Holds

(* A step inside a call that keeps it.                                      *)
LEMMA Stepping ==
  ASSUME BundleInv, NEW p \in Callers, NEW step, To(p, step), call' = call, said' = said
  PROVE  Others(p) /\ at'[p] = step /\ call'[p] = call[p] /\ said'[p] = said[p]
BY DEF To, BundleInv, Functions, Others

-----------------------------------------------------------------------------
(* What the register sees of a step.                                        *)
LEMMA CellFacts ==
  /\ CellCalls = [p \in Callers |-> {CellCall(c) : c \in call[p]}]
  /\ CellAnswers = [p \in Callers |-> IF at[p] = "unlock" THEN "none" ELSE said[p]]
BY DEF CellCalls, CellAnswers

(* The calls and answers of the register after a step.                      *)
LEMMA CellFactsNext ==
  /\ CellCalls' = [p \in Callers |-> {CellCall(c) : c \in call'[p]}]
  /\ CellAnswers' = [p \in Callers |-> IF at'[p] = "unlock" THEN "none" ELSE said'[p]]
BY DEF CellCalls, CellAnswers, CellCall

(* Only the call and the answer of p change in the register.                *)
LEMMA CellOthers ==
  ASSUME NEW p \in Callers, Others(p)
  PROVE  /\ CellCalls' = [CellCalls EXCEPT ![p] = {CellCall(c) : c \in call'[p]}]
         /\ CellAnswers' = [CellAnswers EXCEPT ![p] = IF at'[p] = "unlock" THEN "none" ELSE said'[p]]
<1>1. \A q \in Callers \ {p} : at'[q] = at[q] /\ call'[q] = call[q] /\ said'[q] = said[q]
  BY DEF Others
<1>2. CellCalls' = [CellCalls EXCEPT ![p] = {CellCall(c) : c \in call'[p]}]
  BY <1>1, CellFacts, CellFactsNext
<1>3. CellAnswers' = [CellAnswers EXCEPT ![p] = IF at'[p] = "unlock" THEN "none" ELSE said'[p]]
  BY <1>1, CellFacts, CellFactsNext
<1> QED
  BY <1>2, <1>3

(* A step that moves one caller on and leaves the cell alone is a stutter   *)
(* of the register.                                                         *)
LEMMA QuietStep ==
  ASSUME NEW p \in Callers, Others(p), call'[p] = call[p], bundle' = bundle,
         (IF at'[p] = "unlock" THEN "none" ELSE said'[p])
           = (IF at[p] = "unlock" THEN "none" ELSE said[p])
  PROVE  UNCHANGED <<bundle, CellCalls, CellAnswers>>
<1>1. \A q \in Callers : call'[q] = call[q]
  BY DEF Others
<1>2. CellCalls' = CellCalls
  BY <1>1, CellFacts, CellFactsNext
<1>3. \A q \in Callers : (IF at'[q] = "unlock" THEN "none" ELSE said'[q])
                           = (IF at[q] = "unlock" THEN "none" ELSE said[q])
  BY DEF Others
<1>4. CellAnswers' = CellAnswers
  BY <1>3, CellFacts, CellFactsNext
<1> QED
  BY <1>2, <1>4

(* Beginning a call begins it at the register.                              *)
LEMMA BeginMaps ==
  ASSUME NEW p \in Callers, Others(p), call[p] = {}, NEW d, call'[p] = {d}, d.done = FALSE,
         said'[p] = "none", bundle' = bundle
  PROVE  Cell!BeginCall(p, d.op, d.content)
<1>1. {CellCall(c) : c \in call[p]} = {}
  OBVIOUS
<1>2. CellCalls[p] = {}
  BY <1>1, CellFacts
<1>3. {CellCall(c) : c \in call'[p]} = {[op |-> d.op, content |-> d.content, done |-> FALSE]}
  BY DEF CellCall
<1>4. (IF at'[p] = "unlock" THEN "none" ELSE said'[p]) = "none"
  OBVIOUS
<1> QED
  BY <1>2, <1>3, <1>4, CellOthers DEF Cell!BeginCall, Cell!Idle

(* Ending a call ends it at the register.                                   *)
LEMMA EndMaps ==
  ASSUME NEW p \in Callers, Others(p), NEW c, call[p] = {c}, call'[p] = {}, at'[p] = "idle",
         said'[p] = (IF c.done THEN "ok" ELSE "failed"), bundle' = bundle
  PROVE  Cell!EndCall(p)
<1>1. CellCalls[p] = {CellCall(c)} /\ CellCall(c).done = c.done
  BY CellFacts DEF CellCall
<1>2. {CellCall(d) : d \in call'[p]} = {}
  OBVIOUS
<1>3. CellCalls' = [CellCalls EXCEPT ![p] = {}]
  BY <1>2, CellOthers
<1>4. CellAnswers' = [CellAnswers EXCEPT ![p] = IF c.done THEN "ok" ELSE "failed"]
  BY CellOthers
<1> QED
  BY <1>1, <1>3, <1>4 DEF Cell!EndCall

(* The register's call, once it has taken effect.                           *)
LEMMA DoneCall ==
  ASSUME NEW c \in CallShape, NEW z
  PROVE  /\ [CellCall(c) EXCEPT !.content = z, !.done = TRUE] = [op |-> c.op, content |-> z, done |-> TRUE]
         /\ [CellCall(c) EXCEPT !.done = TRUE] = [op |-> c.op, content |-> c.content, done |-> TRUE]
<1>1. PICK b, o, x : b = CellCall(c) /\ o = c.op /\ x = c.content
  OBVIOUS
<1>2. b \in [op : {o}, content : {x, z}, done : BOOLEAN] /\ b.op = o /\ b.content = x
  BY <1>1 DEF CellCall, CallShape
<1>3. PICK e, f : /\ e = [b EXCEPT !.content = z, !.done = TRUE] /\ f = [b EXCEPT !.done = TRUE]
  OBVIOUS
<1>4. /\ e \in [op : {o}, content : {x, z}, done : BOOLEAN] /\ e.op = o /\ e.content = z /\ e.done = TRUE
      /\ f \in [op : {o}, content : {x, z}, done : BOOLEAN] /\ f.op = o /\ f.content = x /\ f.done = TRUE
  BY <1>2, <1>3
<1>5. PICK g, h : /\ g = [op |-> o, content |-> z, done |-> TRUE] /\ h = [op |-> o, content |-> x, done |-> TRUE]
  OBVIOUS
<1>6. /\ g \in [op : {o}, content : {x, z}, done : BOOLEAN] /\ g.op = o /\ g.content = z /\ g.done = TRUE
      /\ h \in [op : {o}, content : {x, z}, done : BOOLEAN] /\ h.op = o /\ h.content = x /\ h.done = TRUE
  BY <1>5
<1>7. e = g /\ f = h
  BY <1>4, <1>6
<1> QED
  BY <1>1, <1>3, <1>5, <1>7, Zenon

(* A step that does what its call is for.                                   *)
LEMMA EffectMaps ==
  ASSUME NEW p \in Callers, Others(p), NEW c \in CallShape, call[p] = {c}, NEW d, call'[p] = {d},
         ~c.done, d.op = c.op, d.done = TRUE, said'[p] = said[p],
         at[p] # "unlock", at'[p] # "unlock",
         \/ c.op = "read" /\ d.content = bundle /\ bundle' = bundle
         \/ c.op # "read" /\ d.content = c.content /\ bundle' = c.content
  PROVE  Cell!TakeEffect(p)
<1>1. PICK b : b = CellCall(c)
  OBVIOUS
<1>2. CellCalls[p] = {b} /\ b = [op |-> c.op, content |-> c.content, done |-> c.done]
  BY <1>1, CellFacts DEF CellCall
<1>3. CellCalls' = [CellCalls EXCEPT ![p] = {[op |-> c.op, content |-> d.content, done |-> TRUE]}]
  <2>1. {CellCall(e) : e \in call'[p]} = {[op |-> c.op, content |-> d.content, done |-> TRUE]}
    BY DEF CellCall
  <2> QED
    BY <2>1, CellOthers
<1>4. CellAnswers' = CellAnswers
  <2>1. \A q \in Callers : (IF at'[q] = "unlock" THEN "none" ELSE said'[q])
                             = (IF at[q] = "unlock" THEN "none" ELSE said[q])
    BY DEF Others
  <2> QED
    BY <2>1, CellFacts, CellFactsNext
<1>5. CASE c.op = "read" /\ d.content = bundle /\ bundle' = bundle
  <2>1. [b EXCEPT !.content = bundle, !.done = TRUE] = [op |-> c.op, content |-> bundle, done |-> TRUE]
    BY <1>1, DoneCall, Zenon
  <2>2. CellCalls' = [CellCalls EXCEPT ![p] = {[b EXCEPT !.content = bundle, !.done = TRUE]}]
    BY <1>3, <1>5, <2>1
  <2>3. b.op = "read" /\ ~b.done
    BY <1>2, <1>5
  <2> QED
    BY <1>2, <1>4, <1>5, <2>2, <2>3 DEF Cell!TakeEffect
<1>6. CASE c.op # "read" /\ d.content = c.content /\ bundle' = c.content
  <2>1. [b EXCEPT !.done = TRUE] = [op |-> c.op, content |-> c.content, done |-> TRUE]
    BY <1>1, DoneCall, Zenon
  <2>2. CellCalls' = [CellCalls EXCEPT ![p] = {[b EXCEPT !.done = TRUE]}]
    BY <1>3, <1>6, <2>1
  <2>3. b.op # "read" /\ ~b.done /\ b.content = c.content
    BY <1>2, <1>6
  <2> QED
    BY <1>2, <1>4, <1>6, <2>2, <2>3 DEF Cell!TakeEffect
<1> QED
  BY <1>5, <1>6

(* A call that is killed ends without an answer.                            *)
LEMMA KilledMaps ==
  ASSUME BundleInv, NEW p \in Callers, Others(p), at[p] # "idle", call'[p] = {}, at'[p] = "idle",
         said'[p] = "none", bundle' = bundle
  PROVE  Cell!Killed(p)
<1>1. {CellCall(c) : c \in call'[p]} = {}
  OBVIOUS
<1>2. CellCalls' = [CellCalls EXCEPT ![p] = {}]
  BY <1>1, CellOthers
<1>3. (IF at[p] = "unlock" THEN "none" ELSE said[p]) = "none"
  BY DEF BundleInv, CallerOK
<1>4. \A q \in Callers : (IF at'[q] = "unlock" THEN "none" ELSE said'[q])
                           = (IF at[q] = "unlock" THEN "none" ELSE said[q])
  BY <1>3 DEF Others
<1>5. CellAnswers' = CellAnswers
  BY <1>4, CellFacts, CellFactsNext
<1> QED
  BY <1>2, <1>5 DEF Cell!Killed

(* What a step of the register is.                                          *)
CellStep == Cell!RegisterNext \/ UNCHANGED <<bundle, CellCalls, CellAnswers>>

(* The steps of the register.                                               *)
LEMMA CellSteps ==
  /\ \A p \in Callers : Cell!TakeEffect(p) \/ Cell!EndCall(p) \/ Cell!Killed(p) => CellStep
  /\ \A p \in Callers, b \in Bundles : Cell!BeginCall(p, "write", {b}) => CellStep
  /\ \A p \in Callers, op \in {"delete", "read"} : Cell!BeginCall(p, op, {}) => CellStep
BY DEF CellStep, Cell!RegisterNext

-----------------------------------------------------------------------------
(* Beginning a call keeps the invariant.                                    *)
LEMMA BeginStep ==
  ASSUME BundleInv, NEW p \in Callers, NEW op \in {"write", "delete", "read"}, NEW content,
         NEW locked \in BOOLEAN, Begin(p, op, content, locked),
         content \subseteq Bundles, op = "read" => ~locked, op = "delete" => content = {}
  PROVE  BundleInv' /\ Cell!BeginCall(p, op, content)
<1>1. PICK d : d = [op |-> op, content |-> content, locked |-> locked, done |-> FALSE]
  OBVIOUS
<1>2. d \in CallShape /\ d.op = op /\ d.content = content /\ d.locked = locked /\ d.done = FALSE
  BY <1>1 DEF CallShape
<1>3. PICK step \in {"lock", "write", "delete", "read"} :
        step = (IF locked THEN "lock" ELSE op) /\ To(p, step)
  BY DEF Begin
<1>4. /\ Others(p) /\ at'[p] = step /\ call'[p] = {d} /\ said'[p] = "none"
      /\ at[p] = "idle" /\ UNCHANGED <<bundle, bundleLock, bundleTemps, blamed>>
  BY <1>1, <1>3 DEF Begin, To, BundleInv, Functions, Others
<1>5. CallOK(d, step, "none")
  BY <1>2, <1>3 DEF CallOK
<1>6. CallerOK(at'[p], call'[p], said'[p])
  BY <1>3, <1>4, <1>5 DEF CallerOK, CallSteps
<1>7. call[p] = {}
  BY <1>4 DEF BundleInv, CallerOK
<1>8. ~Holds(p) /\ ~Holds(p)'
  BY <1>2, <1>3, <1>4, <1>7 DEF Holds
<1>9. LockClause(p) /\ bundle \subseteq Bundles
  BY DEF BundleInv
<1>10. BundleInv'
  BY <1>4, <1>6, <1>8, <1>9, LockStays DEF LockClause
<1>11. Cell!BeginCall(p, d.op, d.content)
  BY <1>2, <1>4, <1>7, BeginMaps
<1> QED
  BY <1>2, <1>10, <1>11

(* Creating the lock file keeps the invariant and is a stutter.             *)
LEMMA OpenLockStep ==
  ASSUME BundleInv, NEW p \in Callers, OpenLock(p)
  PROVE  BundleInv' /\ CellStep
<1>1. /\ at[p] = "lock" /\ bundleLock = {} /\ bundleLock' = {p} /\ To(p, "lock contents")
      /\ UNCHANGED <<bundle, bundleTemps, call, said, blamed>>
  BY DEF OpenLock
<1>2. Others(p) /\ at'[p] = "lock contents" /\ call'[p] = call[p] /\ said'[p] = said[p]
  BY <1>1, Stepping
<1>3. PICK c : call[p] = {c} /\ CallOK(c, at[p], said[p])
  BY <1>1, OneCall
<1>4. c.locked /\ CallOK(c, at'[p], said'[p])
  BY <1>1, <1>2, <1>3 DEF CallOK
<1>5. CallerOK(at'[p], call'[p], said'[p])
  BY <1>1, <1>2, <1>3, <1>4 DEF CallerOK, CallSteps, BundleInv
<1>6. \A q \in Callers : ~Holds(q) /\ LockClause(q)
  BY <1>1 DEF BundleInv, LockClause
<1>7. ASSUME NEW q \in Callers PROVE LockClause(q)'
  <2>1. CASE q = p
    <3>1. Holds(p)'
      BY <1>2, <1>3, <1>4 DEF Holds
    <3> QED
      BY <2>1, <3>1, <1>1, <1>2, <1>6 DEF LockClause
  <2>2. CASE q # p
    <3>1. ~Holds(q)' /\ at'[q] = at[q] /\ q \notin bundleLock'
      BY <2>2, <1>1, <1>2, <1>6 DEF Holds, Others
    <3> QED
      BY <3>1, <1>1, <1>6 DEF LockClause
  <2> QED
    BY <2>1, <2>2
<1>8. BundleInv'
  BY <1>1, <1>2, <1>5, <1>7 DEF BundleInv, Others
<1>9. CellStep
  BY <1>1, <1>2, QuietStep DEF CellStep
<1> QED
  BY <1>8, <1>9

(* A call that ends where it is, having done nothing, with the lock as it   *)
(* was: it was not its own, or its caller is blamed.                        *)
LEMMA FailStep ==
  ASSUME BundleInv, NEW p \in Callers, at[p] \notin {"idle", "written", "unlock", "rename", "sweep"},
         Return(p, "failed"), bundle' = bundle, bundleLock' = bundleLock, bundleTemps' = bundleTemps,
         blamed \subseteq blamed', Holds(p) => p \in blamed'
  PROVE  BundleInv' /\ CellStep
<1>1. Others(p) /\ at'[p] = "idle" /\ call'[p] = {} /\ said'[p] = "failed" /\ ~Holds(p)'
  BY Returning
<1>2. PICK c : call[p] = {c} /\ CallOK(c, at[p], said[p])
  BY OneCall
<1>3. CallerOK(at'[p], call'[p], said'[p])
  BY <1>1 DEF CallerOK, CallSteps
<1>4. LockClause(p) /\ bundle \subseteq Bundles
  BY DEF BundleInv
<1>5. BundleInv'
  BY <1>1, <1>3, <1>4, LockStays DEF LockClause
<1>6. ~c.done
  <2>1. at[p] \in CallSteps
    BY DEF BundleInv, CallerOK
  <2> QED
    BY <1>2, <2>1 DEF CallOK, CallSteps
<1>7. Cell!EndCall(p)
  BY <1>1, <1>2, <1>6, EndMaps
<1> QED
  BY <1>5, <1>7, CellSteps

(* So does a lock that is there.                                            *)
LEMMA LockRefusedStep ==
  ASSUME BundleInv, NEW p \in Callers, LockRefused(p)
  PROVE  BundleInv' /\ CellStep
<1>1. /\ at[p] = "lock" /\ Return(p, "failed") /\ ~Holds(p)
      /\ UNCHANGED <<bundle, bundleLock, bundleTemps, blamed>>
  BY DEF LockRefused, Holds
<1> QED
  BY <1>1, FailStep

(* So does a read that fails.                                               *)
LEMMA ReadFailsStep ==
  ASSUME BundleInv, NEW p \in Callers, ReadFails(p)
  PROVE  BundleInv' /\ CellStep
<1>1. /\ at[p] = "read" /\ Return(p, "failed")
      /\ UNCHANGED <<bundle, bundleLock, bundleTemps, blamed>>
  BY DEF ReadFails
<1>2. ~Holds(p)
  <2>1. PICK c : call[p] = {c} /\ CallOK(c, at[p], said[p])
    BY <1>1, OneCall
  <2> QED
    BY <1>1, <2>1 DEF CallOK, Holds
<1> QED
  BY <1>1, <1>2, FailStep

(* So does writing the lock's contents.                                     *)
LEMMA WriteLockStep ==
  ASSUME BundleInv, NEW p \in Callers, WriteLock(p)
  PROVE  BundleInv' /\ CellStep
<1>1. /\ at[p] = "lock contents"
      /\ UNCHANGED <<bundle, bundleLock, bundleTemps>>
  BY DEF WriteLock
<1>2. PICK c : call[p] = {c} /\ CallOK(c, at[p], said[p])
  BY <1>1, OneCall
<1>3. CASE To(p, c.op) /\ UNCHANGED <<call, said, blamed>>
  <2>1. Others(p) /\ at'[p] = c.op /\ call'[p] = call[p] /\ said'[p] = said[p]
    BY <1>3, Stepping
  <2>2. /\ CallOK(c, c.op, said[p]) /\ c.op \in {"write", "delete"}
        /\ CallerOK(at[p], call[p], said[p]) /\ LockClause(p) /\ bundle \subseteq Bundles
    BY <1>1, <1>2 DEF CallOK, CallShape, BundleInv
  <2>3. CallerOK(at'[p], call'[p], said'[p])
    BY <1>1, <1>2, <2>1, <2>2 DEF CallerOK, CallSteps
  <2>4. Holds(p) /\ Holds(p)'
    BY <1>1, <1>2, <2>1, <2>2 DEF Holds, CallOK
  <2>5. BundleInv'
    BY <1>1, <1>3, <2>1, <2>2, <2>3, <2>4, LockStays DEF LockClause
  <2>6. CellStep
    BY <1>1, <2>1, <2>2, QuietStep DEF CellStep
  <2> QED
    BY <2>5, <2>6
<1>4. CASE Return(p, "failed") /\ blamed' = blamed \cup {p}
  BY <1>1, <1>4, FailStep
<1>5. \/ To(p, c.op) /\ UNCHANGED <<call, said, blamed>>
      \/ Return(p, "failed") /\ blamed' = blamed \cup {p}
  BY <1>2 DEF WriteLock
<1> QED
  BY <1>3, <1>4, <1>5

(* The lock is removed by who holds it, or its caller is blamed.            *)
LEMMA UnlockStep ==
  ASSUME BundleInv, NEW p \in Callers, Unlock(p)
  PROVE  BundleInv' /\ CellStep
<1>1. /\ at[p] = "unlock" /\ Return(p, said[p]) /\ UNCHANGED <<bundle, bundleTemps>>
      /\ \/ bundleLock' = {} /\ blamed' = blamed
         \/ blamed' = blamed \cup {p} /\ bundleLock' = bundleLock
  BY DEF Unlock
<1>2. PICK c : call[p] = {c} /\ CallOK(c, at[p], said[p])
  BY <1>1, OneCall
<1>3. Others(p) /\ at'[p] = "idle" /\ call'[p] = {} /\ said'[p] = said[p] /\ ~Holds(p)'
  BY <1>1, Returning
<1>4. Cell!EndCall(p)
  BY <1>1, <1>2, <1>3, EndMaps DEF CallOK
<1>5. CallerOK(at'[p], call'[p], said'[p])
  BY <1>3 DEF BundleInv, CallerOK, CallSteps
<1>6. Holds(p) /\ bundleLock = {p}
  BY <1>1, <1>2 DEF BundleInv, LockClause, CallOK, Holds
<1>7. ASSUME NEW q \in Callers PROVE LockClause(q)'
  <2>1. LockClause(q)
    BY DEF BundleInv
  <2>2. CASE q = p
    BY <2>1, <2>2, <1>1, <1>3, <1>6 DEF LockClause
  <2>3. CASE q # p
    <3>1. ~Holds(q) /\ ~Holds(q)' /\ at'[q] = at[q] /\ q \notin bundleLock'
      BY <2>1, <2>3, <1>1, <1>3, <1>6 DEF Holds, Others, LockClause
    <3> QED
      BY <3>1, <1>1, <2>1 DEF LockClause
  <2> QED
    BY <2>2, <2>3
<1>8. BundleInv'
  BY <1>1, <1>3, <1>5, <1>7 DEF BundleInv, Others
<1> QED
  BY <1>4, <1>8, CellSteps

-----------------------------------------------------------------------------
(* The end of a call that is past its lock: it answers, or leaves the lock  *)
(* first and answers then.                                                  *)
LEMMA FinishStep ==
  ASSUME BundleInv, NEW p \in Callers, NEW c, call[p] = {c}, CallOK(c, at[p], said[p]),
         at[p] \in {"written", "sweep", "delete"},
         NEW answer, answer = (IF c.done THEN "ok" ELSE "failed"), Finish(p, answer),
         bundle' = bundle, bundleLock' = bundleLock, blamed \subseteq blamed',
         \A t : t[1] # p => (t \in bundleTemps' <=> t \in bundleTemps),
         <<p, "live">> \notin bundleTemps',
         <<p, "left">> \in bundleTemps' => p \in blamed'
  PROVE  BundleInv' /\ CellStep
<1>1. bundle \subseteq Bundles /\ LockClause(p) /\ CallerOK(at[p], call[p], said[p])
  BY DEF BundleInv
<1>2. CASE ~c.locked /\ Return(p, answer)
  <2>1. Others(p) /\ at'[p] = "idle" /\ call'[p] = {} /\ said'[p] = answer /\ ~Holds(p)'
    BY <1>2, Returning
  <2>2. ~Holds(p)
    BY <1>2 DEF Holds
  <2>3. CallerOK(at'[p], call'[p], said'[p])
    BY <2>1 DEF CallerOK, CallSteps
  <2>4. BundleInv'
    BY <1>1, <2>1, <2>2, <2>3, LockStays
  <2>5. Cell!EndCall(p)
    BY <2>1, EndMaps
  <2> QED
    BY <2>4, <2>5, CellSteps
<1>3. CASE c.locked /\ To(p, "unlock") /\ said' = [said EXCEPT ![p] = answer] /\ call' = call
  <2>1. Others(p) /\ at'[p] = "unlock" /\ call'[p] = {c} /\ said'[p] = answer
    BY <1>3 DEF To, BundleInv, Functions, Others
  <2>2. Holds(p) /\ Holds(p)'
    BY <1>3, <2>1 DEF Holds
  <2>3. CallOK(c, "unlock", answer)
    BY <1>3 DEF CallOK
  <2>4. CallerOK(at'[p], call'[p], said'[p])
    BY <2>1, <2>3 DEF CallerOK, CallSteps
  <2>5. BundleInv'
    BY <1>1, <2>1, <2>2, <2>4, LockStays
  <2>6. said[p] = "none"
    BY <1>1 DEF CallerOK
  <2>7. CellStep
    BY <2>1, <2>6, QuietStep DEF CellStep
  <2> QED
    BY <2>5, <2>7
<1> QED
  BY <1>2, <1>3 DEF Finish

(* A step between two file-system calls, which keeps the call as it is.     *)
LEMMA MidStep ==
  ASSUME BundleInv, NEW p \in Callers, at[p] \in {"write", "rename"},
         NEW step \in {"rename", "sweep"}, To(p, step), UNCHANGED <<call, said, bundle, bundleLock, blamed>>,
         \A t : t # <<p, "live">> => (t \in bundleTemps' <=> t \in bundleTemps)
  PROVE  BundleInv' /\ CellStep
<1>1. Others(p) /\ at'[p] = step /\ call'[p] = call[p] /\ said'[p] = said[p]
  BY Stepping
<1>2. PICK c : call[p] = {c} /\ CallOK(c, at[p], said[p])
  BY OneCall
<1>3. bundle \subseteq Bundles /\ LockClause(p) /\ CallerOK(at[p], call[p], said[p])
  BY DEF BundleInv
<1>4. CallOK(c, at'[p], said'[p])
  BY <1>1, <1>2 DEF CallOK
<1>5. CallerOK(at'[p], call'[p], said'[p])
  BY <1>1, <1>2, <1>3, <1>4 DEF CallerOK, CallSteps
<1>6. Holds(p)' <=> Holds(p)
  BY <1>1 DEF Holds
<1>7. /\ \A t : t[1] # p => (t \in bundleTemps' <=> t \in bundleTemps)
      /\ <<p, "left">> \in bundleTemps' => p \in blamed'
  <2>1. \A t : t[1] # p => t # <<p, "live">>
    OBVIOUS
  <2>2. <<p, "left">> # <<p, "live">>
    OBVIOUS
  <2> QED
    BY <1>3, <2>1, <2>2 DEF LockClause
<1>8. BundleInv'
  BY <1>1, <1>3, <1>5, <1>6, <1>7, LockStays
<1>9. CellStep
  BY <1>1, QuietStep DEF CellStep
<1> QED
  BY <1>8, <1>9

(* So does writing the temporary file.                                      *)
LEMMA WriteBundleTempStep ==
  ASSUME BundleInv, NEW p \in Callers, WriteBundleTemp(p)
  PROVE  BundleInv' /\ CellStep
<1>1. /\ at[p] = "write" /\ UNCHANGED <<call, said, bundle, bundleLock, blamed>>
      /\ bundleTemps' \in {bundleTemps, bundleTemps \cup {<<p, "live">>}}
  BY DEF WriteBundleTemp
<1>2. PICK step \in {"rename", "sweep"} : To(p, step)
  BY DEF WriteBundleTemp
<1> QED
  BY <1>1, <1>2, MidStep

(* So does a rename that fails.                                             *)
LEMMA RenameFailsStep ==
  ASSUME BundleInv, NEW p \in Callers, RenameFails(p)
  PROVE  BundleInv' /\ CellStep
<1>1. /\ at[p] = "rename" /\ To(p, "sweep")
      /\ UNCHANGED <<call, said, bundle, bundleLock, blamed, bundleTemps>>
  BY DEF RenameFails
<1> QED
  BY <1>1, MidStep

(* A step that does what the call is for.                                   *)
LEMMA EffectStep ==
  ASSUME BundleInv, NEW p \in Callers, at[p] \in {"rename", "delete", "read"},
         NEW c, call[p] = {c}, CallOK(c, at[p], said[p]),
         NEW d, d = [c EXCEPT !.content = d.content, !.done = TRUE],
         call' = [call EXCEPT ![p] = {d}], To(p, "written"),
         \/ c.op = "read" /\ d.content = bundle /\ bundle' = bundle
         \/ c.op # "read" /\ d.content = c.content /\ bundle' = c.content,
         UNCHANGED <<said, bundleLock, blamed>>,
         \A t : t # <<p, "live">> => (t \in bundleTemps' <=> t \in bundleTemps),
         <<p, "live">> \notin bundleTemps'
  PROVE  BundleInv' /\ CellStep
<1>1. Others(p) /\ at'[p] = "written" /\ call'[p] = {d} /\ said'[p] = said[p]
  BY DEF To, BundleInv, Functions, Others
<1>2. bundle \subseteq Bundles /\ LockClause(p) /\ CallerOK(at[p], call[p], said[p])
  BY DEF BundleInv
<1>3. c \in CallShape
  BY DEF CallOK
<1>4. PICK x \in SUBSET Bundles : x = d.content
  BY <1>2, <1>3 DEF CallShape
<1>5. d = [c EXCEPT !.content = x, !.done = TRUE]
  BY <1>4
<1>6. d \in CallShape /\ d.op = c.op /\ d.locked = c.locked /\ d.done = TRUE
  BY <1>3, <1>5 DEF CallShape
<1>7. c.op = "delete" => d.content = {}
  BY <1>6 DEF CallOK
<1>8. CallOK(d, "written", said[p])
  BY <1>6, <1>7 DEF CallOK
<1>9. CallerOK(at'[p], call'[p], said'[p])
  BY <1>1, <1>2, <1>8 DEF CallerOK, CallSteps
<1>10. Holds(p)' <=> Holds(p)
  BY <1>1, <1>6 DEF Holds
<1>11. /\ \A t : t[1] # p => (t \in bundleTemps' <=> t \in bundleTemps)
       /\ <<p, "left">> \in bundleTemps' => p \in blamed'
  <2>1. \A t : t[1] # p => t # <<p, "live">>
    OBVIOUS
  <2>2. <<p, "left">> # <<p, "live">>
    OBVIOUS
  <2> QED
    BY <1>2, <2>1, <2>2 DEF LockClause
<1>12. bundle' \subseteq Bundles
  BY <1>2, <1>3 DEF CallShape
<1>13. BundleInv'
  BY <1>1, <1>9, <1>10, <1>11, <1>12, LockStays
<1>14. ~c.done
  BY DEF CallOK
<1>15. Cell!TakeEffect(p)
  BY <1>1, <1>3, <1>6, <1>14, EffectMaps
<1> QED
  BY <1>13, <1>15, CellSteps

(* The rename is the effect of a write.                                     *)
LEMMA RenameStep ==
  ASSUME BundleInv, NEW p \in Callers, Rename(p)
  PROVE  BundleInv' /\ CellStep
<1>1. /\ at[p] = "rename" /\ To(p, "written") /\ Took(p)
      /\ \E e \in call[p] : bundle' = e.content
      /\ bundleTemps' = bundleTemps \ {<<p, "live">>}
      /\ UNCHANGED <<said, bundleLock, blamed>>
  BY DEF Rename
<1>2. PICK c : call[p] = {c} /\ CallOK(c, at[p], said[p])
  BY <1>1, OneCall
<1>3. PICK d : d = [c EXCEPT !.done = TRUE]
  OBVIOUS
<1>4. call' = [call EXCEPT ![p] = {d}]
  BY <1>1, <1>2, <1>3 DEF Took
<1>5. c.op = "write" /\ c \in CallShape /\ bundle' = c.content
  BY <1>1, <1>2 DEF CallOK
<1>6. d.content = c.content /\ d = [c EXCEPT !.content = d.content, !.done = TRUE]
  BY <1>3, <1>5 DEF CallShape
<1> QED
  BY <1>1, <1>2, <1>4, <1>5, <1>6, EffectStep

(* The unlink is the effect of a removal.                                   *)
LEMMA RemoveBundleStep ==
  ASSUME BundleInv, NEW p \in Callers, RemoveBundle(p)
  PROVE  BundleInv' /\ CellStep
<1>1. /\ at[p] = "delete" /\ To(p, "written") /\ Took(p) /\ bundle' = {}
      /\ UNCHANGED <<said, bundleLock, bundleTemps, blamed>>
  BY DEF RemoveBundle
<1>2. PICK c : call[p] = {c} /\ CallOK(c, at[p], said[p])
  BY <1>1, OneCall
<1>3. PICK d : d = [c EXCEPT !.done = TRUE]
  OBVIOUS
<1>4. call' = [call EXCEPT ![p] = {d}]
  BY <1>1, <1>2, <1>3 DEF Took
<1>5. c.op = "delete" /\ c \in CallShape /\ bundle' = c.content
  BY <1>1, <1>2 DEF CallOK
<1>6. d.content = c.content /\ d = [c EXCEPT !.content = d.content, !.done = TRUE]
  BY <1>3, <1>5 DEF CallShape
<1>7. <<p, "live">> \notin bundleTemps
  BY <1>1 DEF BundleInv, LockClause
<1> QED
  BY <1>1, <1>2, <1>4, <1>5, <1>6, <1>7, EffectStep

(* The read is the effect of a read.                                        *)
LEMMA OpenBundleStep ==
  ASSUME BundleInv, NEW p \in Callers, OpenBundle(p)
  PROVE  BundleInv' /\ CellStep
<1>1. /\ at[p] = "read" /\ To(p, "written")
      /\ call' = [call EXCEPT ![p] = {[e EXCEPT !.content = bundle, !.done = TRUE] : e \in @}]
      /\ UNCHANGED <<said, bundle, bundleLock, bundleTemps, blamed>>
  BY DEF OpenBundle
<1>2. PICK c : call[p] = {c} /\ CallOK(c, at[p], said[p])
  BY <1>1, OneCall
<1>3. PICK d : d = [c EXCEPT !.content = bundle, !.done = TRUE]
  OBVIOUS
<1>4. call' = [call EXCEPT ![p] = {d}]
  BY <1>1, <1>2, <1>3
<1>5. c.op = "read" /\ c \in CallShape
  BY <1>1, <1>2 DEF CallOK
<1>6. d.content = bundle
  BY <1>3, <1>5 DEF CallShape, BundleInv
<1>7. <<p, "live">> \notin bundleTemps
  BY <1>1 DEF BundleInv, LockClause
<1> QED
  BY <1>1, <1>2, <1>3, <1>4, <1>5, <1>6, <1>7, EffectStep

(* A call that has written answers and ends.                                *)
LEMMA WrittenStep ==
  ASSUME BundleInv, NEW p \in Callers, Written(p)
  PROVE  BundleInv' /\ CellStep
<1>1. /\ at[p] = "written" /\ Finish(p, "ok")
      /\ UNCHANGED <<bundle, bundleLock, bundleTemps, blamed>>
  BY DEF Written
<1>2. PICK c : call[p] = {c} /\ CallOK(c, at[p], said[p])
  BY <1>1, OneCall
<1>3. c.done
  BY <1>1, <1>2 DEF CallOK
<1>4. LockClause(p)
  BY DEF BundleInv
<1> QED
  BY <1>1, <1>2, <1>3, <1>4, FinishStep DEF LockClause

(* An unlink that fails changes nothing.                                    *)
LEMMA RemoveFailsStep ==
  ASSUME BundleInv, NEW p \in Callers, RemoveFails(p)
  PROVE  BundleInv' /\ CellStep
<1>1. /\ at[p] = "delete" /\ Finish(p, "failed")
      /\ UNCHANGED <<bundle, bundleLock, bundleTemps, blamed>>
  BY DEF RemoveFails
<1>2. PICK c : call[p] = {c} /\ CallOK(c, at[p], said[p])
  BY <1>1, OneCall
<1>3. ~c.done
  BY <1>1, <1>2 DEF CallOK
<1>4. LockClause(p)
  BY DEF BundleInv
<1> QED
  BY <1>1, <1>2, <1>3, <1>4, FinishStep DEF LockClause

(* A temporary file that cannot be removed stays, and its caller is blamed. *)
LEMMA SweepTempStep ==
  ASSUME BundleInv, NEW p \in Callers, SweepTemp(p)
  PROVE  BundleInv' /\ CellStep
<1>1. /\ at[p] = "sweep" /\ Finish(p, "failed") /\ UNCHANGED <<bundle, bundleLock>>
      /\ \/ bundleTemps' = bundleTemps \ {<<p, "live">>} /\ UNCHANGED blamed
         \/ /\ bundleTemps' = (bundleTemps \ {<<p, "live">>}) \cup {<<p, "left">>}
            /\ blamed' = blamed \cup {p}
  BY DEF SweepTemp
<1>2. PICK c : call[p] = {c} /\ CallOK(c, at[p], said[p])
  BY <1>1, OneCall
<1>3. ~c.done
  BY <1>1, <1>2 DEF CallOK
<1>4. LockClause(p)
  BY DEF BundleInv
<1>5. PICK live, left : live = <<p, "live">> /\ left = <<p, "left">>
  OBVIOUS
<1>6. live # left /\ \A t : t[1] # p => t # live /\ t # left
  BY <1>5
<1>7. /\ \A t : t[1] # p => (t \in bundleTemps' <=> t \in bundleTemps)
      /\ live \notin bundleTemps'
      /\ left \in bundleTemps' => p \in blamed'
      /\ blamed \subseteq blamed'
  BY <1>1, <1>4, <1>5, <1>6 DEF LockClause
<1> QED
  BY <1>1, <1>2, <1>3, <1>5, <1>7, FinishStep

(* A kill at any point keeps the invariant.                                 *)
LEMMA KillCallerStep ==
  ASSUME BundleInv, NEW p \in Callers, KillCaller(p)
  PROVE  BundleInv' /\ CellStep
<1>1. /\ at[p] # "idle" /\ Return(p, "none") /\ blamed' = blamed \cup {p}
      /\ bundleTemps' = {IF t = <<p, "live">> THEN <<p, "left">> ELSE t : t \in bundleTemps}
      /\ UNCHANGED <<bundle, bundleLock>>
  BY DEF KillCaller
<1>2. Others(p) /\ at'[p] = "idle" /\ call'[p] = {} /\ said'[p] = "none" /\ ~Holds(p)'
  BY <1>1, Returning
<1>3. CallerOK(at'[p], call'[p], said'[p])
  BY <1>2 DEF CallerOK, CallSteps
<1>4. PICK live, left : live = <<p, "live">> /\ left = <<p, "left">>
  OBVIOUS
<1>5. live # left /\ \A t : t[1] # p => t # live /\ t # left
  BY <1>4
<1>6. /\ \A t : t[1] # p => (t \in bundleTemps' <=> t \in bundleTemps)
      /\ live \notin bundleTemps'
  BY <1>1, <1>4, <1>5
<1>7. bundle \subseteq Bundles
  BY DEF BundleInv
<1>8. BundleInv'
  BY <1>1, <1>2, <1>3, <1>4, <1>6, <1>7, LockStays
<1>9. Cell!Killed(p)
  BY <1>1, <1>2, KilledMaps
<1> QED
  BY <1>8, <1>9, CellSteps

-----------------------------------------------------------------------------
(* Every step keeps the invariant and is one of the register or none of it. *)
LEMMA BundleStep ==
  ASSUME BundleInv, [BundleNext]_bundleVars
  PROVE  BundleInv' /\ CellStep
<1>1. ASSUME NEW p \in Callers, NEW b \in Bundles, NEW locked \in BOOLEAN,
             Begin(p, "write", {b}, locked)
      PROVE  BundleInv' /\ CellStep
  BY <1>1, BeginStep, CellSteps
<1>2. ASSUME NEW p \in Callers, NEW locked \in BOOLEAN, Begin(p, "delete", {}, locked)
      PROVE  BundleInv' /\ CellStep
  BY <1>2, BeginStep, CellSteps
<1>3. ASSUME NEW p \in Callers, Begin(p, "read", {}, FALSE)
      PROVE  BundleInv' /\ CellStep
  <2>1. {} \subseteq Bundles /\ FALSE \in BOOLEAN /\ "read" \in {"write", "delete", "read"}
        /\ "read" # "delete"
    OBVIOUS
  <2>2. BundleInv' /\ Cell!BeginCall(p, "read", {})
    BY <1>3, <2>1, BeginStep
  <2> QED
    BY <2>2, CellSteps
<1>4. CASE UNCHANGED bundleVars
  <2>1. UNCHANGED <<bundle, bundleLock, bundleTemps, at, call, said, blamed>>
    BY <1>4 DEF bundleVars
  <2>2. BundleInv'
    BY <2>1 DEF BundleInv, Functions, LockClause, Holds
  <2>3. UNCHANGED <<CellCalls, CellAnswers>>
    BY <2>1, CellFacts, CellFactsNext
  <2> QED
    BY <2>1, <2>2, <2>3 DEF CellStep
<1>5. ASSUME NEW p \in Callers,
             \/ OpenLock(p) \/ LockRefused(p) \/ WriteLock(p) \/ Unlock(p)
             \/ WriteBundleTemp(p) \/ Rename(p) \/ RenameFails(p) \/ Written(p) \/ SweepTemp(p)
             \/ RemoveBundle(p) \/ RemoveFails(p) \/ OpenBundle(p) \/ ReadFails(p)
             \/ KillCaller(p)
      PROVE  BundleInv' /\ CellStep
  BY <1>5, OpenLockStep, LockRefusedStep, WriteLockStep, UnlockStep, WriteBundleTempStep, RenameStep,
     RenameFailsStep, WrittenStep, SweepTempStep, RemoveBundleStep, RemoveFailsStep, OpenBundleStep,
     ReadFailsStep, KillCallerStep
<1> QED
  BY <1>1, <1>2, <1>3, <1>4, <1>5 DEF BundleNext

(* The invariant of the store holds in every state.                         *)
THEOREM BundleInvariant == BundleSpec => []BundleInv
BY BundleInitially, BundleStep, PTL DEF BundleSpec

(* Whatever mix of calls, faults and kills: inside the lock a call has the  *)
(* file to itself, and a lock or temporary file that nobody holds was left  *)
(* by a caller that was killed or whose file system failed.                 *)
THEOREM LockAlwaysHeldOrBlamed == BundleSpec => []LockIsHeldOrBlamed
<1>1. BundleInv => LockIsHeldOrBlamed
  BY DEF BundleInv, LockClause, LockIsHeldOrBlamed
<1> QED
  BY <1>1, BundleInvariant, PTL

(* For any callers, contents and faults the store is one cell that holds a  *)
(* whole bundle or nothing, and answers say what was done to it.            *)
THEOREM StoreImplementsRegister == BundleSpec => ImplementsBundleRegister
<1>1. BundleInit => Cell!RegisterInit
  <2> SUFFICES ASSUME BundleInit PROVE Cell!RegisterInit
    OBVIOUS
  <2>1. \A p \in Callers : /\ {CellCall(c) : c \in call[p]} = {}
                           /\ (IF at[p] = "unlock" THEN "none" ELSE said[p]) = "none"
    BY DEF BundleInit
  <2>2. CellCalls = [p \in Callers |-> {}] /\ CellAnswers = [p \in Callers |-> "none"]
    BY <2>1, CellFacts
  <2> QED
    BY <2>2 DEF BundleInit, Cell!RegisterInit
<1>2. ASSUME BundleInv, [BundleNext]_bundleVars
      PROVE  [Cell!RegisterNext]_Cell!registerVars
  BY <1>2, BundleStep DEF CellStep, Cell!registerVars
<1> QED
  BY <1>1, <1>2, BundleInvariant, PTL
  DEF BundleSpec, ImplementsBundleRegister, Cell!RegisterSpec

-----------------------------------------------------------------------------
(* THE SESSION STORE (SessionStore), for any sessions, names and events.    *)

(* What the maps of the store hold; a session has one snapshot at most and  *)
(* events that differ in id and sequence.                                   *)
SessionInv ==
  /\ sessionEvents \in [Sessions -> SUBSET Event]
  /\ current \in [Sessions -> SUBSET Snapshot]
  /\ sessionOf \in [SnapshotNames -> SUBSET Sessions]
  /\ \A s \in Sessions : \A c, d \in current[s] : c = d
  /\ \A s \in Sessions : Distinct(sessionEvents[s])
  /\ FoundById

(* The names of the snapshots put only for s after a step that puts c for s *)
(* are still found, whatever else the step does to events.                  *)
LEMMA PutKeepsFound ==
  ASSUME SessionInv, NEW s \in Sessions, NEW c \in Snapshot,
         current' = [current EXCEPT ![s] = {c}],
         sessionOf' = Indexed(c.id, s), Note(c.id, s)
  PROVE  /\ current' \in [Sessions -> SUBSET Snapshot]
         /\ sessionOf' \in [SnapshotNames -> SUBSET Sessions]
         /\ \A t \in Sessions : \A x, y \in current'[t] : x = y
         /\ FoundById'
<1>1. c.id \in SnapshotNames
  BY DEF Snapshot
<1>2. /\ \A t \in Sessions : current'[t] = IF t = s THEN {c} ELSE current[t]
      /\ \A n \in SnapshotNames : sessionOf'[n] = IF n = c.id THEN {s} ELSE sessionOf[n]
  BY <1>1 DEF SessionInv, Indexed
<1>3. ASSUME NEW t \in Sessions, NEW x \in current'[t], x.id \notin shared'
      PROVE  sessionOf'[x.id] = {t}
  <2>1. CASE t = s
    BY <1>1, <1>2, <1>3, <2>1
  <2>2. CASE t # s
    <3>1. x \in current[t] /\ x.id \in SnapshotNames
      BY <1>2, <1>3, <2>2 DEF SessionInv, Snapshot
    <3>2. x.id # c.id
      BY <1>3, <2>2, <3>1 DEF Note
    <3>3. x.id \notin shared
      BY <1>3 DEF Note
    <3> QED
      BY <1>2, <3>1, <3>2, <3>3 DEF SessionInv, FoundById
  <2> QED
    BY <2>1, <2>2
<1>4. FoundById'
  BY <1>3 DEF FoundById
<1>5. current' \in [Sessions -> SUBSET Snapshot] /\ sessionOf' \in [SnapshotNames -> SUBSET Sessions]
  BY <1>1 DEF SessionInv, Indexed
<1> QED BY <1>2, <1>4, <1>5 DEF SessionInv

(* Every operation of the store keeps the invariant.                        *)
LEMMA SessionNextKeepsInv ==
  ASSUME SessionInv, SessionNext
  PROVE  SessionInv'
<1>1. ASSUME NEW s \in Sessions, NEW snapshot \in Snapshot, PutSnapshot(s, snapshot)
      PROVE  SessionInv'
  <2>1. sessionEvents' = sessionEvents
    BY <1>1 DEF PutSnapshot
  <2>2. current' \in [Sessions -> SUBSET Snapshot] /\ sessionOf' \in [SnapshotNames -> SUBSET Sessions]
        /\ (\A t \in Sessions : \A x, y \in current'[t] : x = y) /\ FoundById'
    BY <1>1, PutKeepsFound DEF PutSnapshot
  <2> QED
    BY <2>1, <2>2 DEF SessionInv
<1>2. ASSUME NEW s \in Sessions, DeleteSnapshot(s)
      PROVE  SessionInv'
  <2>1. /\ \A t \in Sessions : current'[t] = IF t = s THEN {} ELSE current[t]
        /\ \A n \in SnapshotNames :
             sessionOf'[n] = IF \E c \in current[s] : c.id = n THEN {} ELSE sessionOf[n]
        /\ UNCHANGED <<sessionEvents, shared>>
    BY <1>2 DEF DeleteSnapshot, SessionInv
  <2>2. current' \in [Sessions -> SUBSET Snapshot] /\ sessionOf' \in [SnapshotNames -> SUBSET Sessions]
    BY <1>2 DEF DeleteSnapshot, SessionInv
  <2>3. ASSUME NEW t \in Sessions, NEW x \in current'[t], x.id \notin shared'
        PROVE  sessionOf'[x.id] = {t}
    <3>1. t # s /\ x \in current[t] /\ x.id \in SnapshotNames /\ x.id \notin shared
      BY <2>1, <2>3 DEF SessionInv, Snapshot
    <3>2. sessionOf[x.id] = {t}
      BY <3>1 DEF SessionInv, FoundById
    <3>3. \A c \in current[s] : c.id # x.id
      BY <3>1, <3>2 DEF SessionInv, FoundById
    <3> QED
      BY <2>1, <3>1, <3>2, <3>3
  <2> QED
    BY <2>1, <2>2, <2>3 DEF SessionInv, FoundById
<1>3. ASSUME NEW batch \in [Sessions -> SUBSET Event], AppendEvents(batch)
      PROVE  SessionInv'
  <2>1. ASSUME NEW s \in Sessions PROVE Distinct(sessionEvents'[s])
    <3>1. sessionEvents'[s] = sessionEvents[s] \cup batch[s]
      BY <1>3 DEF AppendEvents
    <3>2. Distinct(sessionEvents[s]) /\ Distinct(batch[s])
      BY <1>3 DEF AppendEvents, SessionInv
    <3>3. \A e \in batch[s], f \in sessionEvents[s] : Apart(e, f) /\ Apart(f, e)
      BY <1>3 DEF AppendEvents, Apart
    <3> QED
      BY <3>1, <3>2, <3>3 DEF Distinct
  <2>2. sessionEvents' \in [Sessions -> SUBSET Event] /\ UNCHANGED <<current, sessionOf, shared>>
    BY <1>3 DEF AppendEvents, SessionInv
  <2> QED
    BY <2>1, <2>2 DEF SessionInv, FoundById
<1>4. ASSUME NEW s \in Sessions, NEW snapshot \in Snapshot, NEW count,
             NEW events \in SUBSET Event, ImportSession(s, snapshot, count, events)
      PROVE  SessionInv'
  <2>1. current' \in [Sessions -> SUBSET Snapshot] /\ sessionOf' \in [SnapshotNames -> SUBSET Sessions]
        /\ (\A t \in Sessions : \A x, y \in current'[t] : x = y) /\ FoundById'
    BY <1>4, PutKeepsFound DEF ImportSession
  <2>2. /\ sessionEvents' \in [Sessions -> SUBSET Event]
        /\ \A t \in Sessions : sessionEvents'[t] = IF t = s THEN events ELSE sessionEvents[t]
    BY <1>4 DEF ImportSession, SessionInv
  <2>3. Distinct(events)
    BY <1>4 DEF ImportSession, BundleOK
  <2> QED
    BY <2>1, <2>2, <2>3 DEF SessionInv
<1>5. ASSUME NEW s \in Sessions, NEW t \in Sessions, NEW e \in Event, NEW f \in Event
      PROVE  [r \in Sessions |-> (IF r = s THEN {e} ELSE {}) \cup (IF r = t THEN {f} ELSE {})]
               \in [Sessions -> SUBSET Event]
  OBVIOUS
<1>6. ASSUME NEW snapshot, NEW count, NEW events \in kSubset(count, {e \in Event : e.home = snapshot.home})
      PROVE  events \in SUBSET Event
  BY DEF kSubset
<1> QED BY <1>1, <1>2, <1>3, <1>4, <1>5, <1>6 DEF SessionNext

(* From any session store that starts empty, for any sessions, snapshots,   *)
(* events and homes.                                                        *)
LEMMA SessionInvariant == SessionSpec => []SessionInv
<1>1. SessionInit => SessionInv
  BY DEF SessionInit, SessionInv, Distinct, FoundById
<1>2. SessionInv /\ [SessionNext]_sessionVars => SessionInv'
  <2>1. CASE SessionNext
    BY <2>1, SessionNextKeepsInv
  <2>2. CASE UNCHANGED sessionVars
    BY <2>2 DEF sessionVars, SessionInv, FoundById
  <2> QED
    BY <2>1, <2>2
<1> QED BY <1>1, <1>2, PTL DEF SessionSpec

(* getSnapshotById finds every snapshot whose id was put for one session.   *)
THEOREM AlwaysFoundById == SessionSpec => []FoundById
<1>1. SessionInv => FoundById
  BY DEF SessionInv
<1> QED BY <1>1, SessionInvariant, PTL

(* Events that differ in their sequence are finitely many, at any limit on  *)
(* sequences.                                                               *)
LEMMA DistinctFinite ==
  ASSUME NEW E \in SUBSET Event, Distinct(E)
  PROVE  IsFiniteSet(E)
<1> DEFINE T == {e.sequence : e \in E}
           f == [e \in E |-> e.sequence]
<1>1. T \in SUBSET (1 .. MaxSequence)
  BY DEF Event, Sequences
<1>2. IsFiniteSet(T)
  <2>1. 1 \in Int /\ MaxSequence \in Int
    BY SessionAssumption
  <2>2. IsFiniteSet(1 .. MaxSequence)
    BY <2>1, FS_Interval
  <2> HIDE DEF T
  <2> QED
    BY <1>1, <2>2, FS_Subset
<1>3. f \in Injection(E, T)
  BY DEF Distinct, Apart, Injection, IsInjective
<1> HIDE DEF T, f
<1> QED
  BY <1>2, <1>3, FS_Injection

(* Of events with sequences of their own, a page has all up to its last.    *)
LEMMA PagesHaveNoGap ==
  ASSUME SessionInv, NEW s \in Sessions, NEW after \in Nat, NEW limit \in Nat,
         NEW e \in ListEvents(s, after, limit), NEW f \in sessionEvents[s],
         after < f.sequence, f.sequence <= e.sequence
  PROVE  f \in ListEvents(s, after, limit)
<1> DEFINE later == {x \in sessionEvents[s] : x.sequence > after}
           Before(x) == {y \in later : ListedBefore(y, x)}
<1>1. /\ sessionEvents[s] \in SUBSET Event /\ Distinct(sessionEvents[s])
      /\ \A x \in sessionEvents[s] : x.sequence \in Int /\ x.id \in Int
  <2>1. sessionEvents[s] \in SUBSET Event /\ Distinct(sessionEvents[s])
    BY DEF SessionInv
  <2>2. \A x \in Event : x.sequence \in 1 .. MaxSequence /\ x.id \in EventNames
    BY DEF Event, Sequences
  <2>3. 1 .. MaxSequence \subseteq Int /\ EventNames \subseteq Int
    BY SessionAssumption
  <2> QED
    BY <2>1, <2>2, <2>3
<1>2. e \in later /\ Cardinality(Before(e)) < limit
  BY DEF ListEvents
<1>3. f \in later
  BY <1>1
<1>4. Before(f) \subseteq Before(e)
  <2>1. CASE f = e
    BY <2>1
  <2>2. CASE f # e
    <3>1. f.sequence < e.sequence
      BY <1>1, <1>2, <2>2 DEF Distinct, Apart
    <3> QED
      BY <1>1, <1>2, <3>1 DEF ListedBefore
  <2> QED
    BY <2>1, <2>2
<1>5. IsFiniteSet(Before(e))
  <2>1. IsFiniteSet(sessionEvents[s])
    BY <1>1, DistinctFinite
  <2>2. Before(e) \subseteq sessionEvents[s]
    OBVIOUS
  <2> QED
    BY <2>1, <2>2, FS_Subset
<1>6. Cardinality(Before(f)) < limit
  <2>1. Cardinality(Before(f)) <= Cardinality(Before(e))
    BY <1>4, <1>5, FS_Subset
  <2>2. Cardinality(Before(f)) \in Nat /\ Cardinality(Before(e)) \in Nat
    BY <1>4, <1>5, FS_Subset, FS_CardinalityType
  <2> HIDE DEF Before, later
  <2> QED
    BY <1>2, <2>1, <2>2
<1> QED
  BY <1>3, <1>6 DEF ListEvents

(* Whatever calls made it, a session can be paged through without loss, and *)
(* exported unless an event has another home.                               *)
THEOREM SessionsAlwaysUsable == SessionSpec => []SessionsStayUsable
<1>1. SessionInv => SessionsStayUsable
  <2> SUFFICES ASSUME SessionInv PROVE SessionsStayUsable
    OBVIOUS
  <2>1. ASSUME NEW s \in Sessions, NEW after \in 0 .. MaxSequence, NEW limit \in 1 .. MaxSequence,
               NEW e \in ListEvents(s, after, limit), NEW f \in sessionEvents[s],
               after < f.sequence, f.sequence <= e.sequence
        PROVE  f \in ListEvents(s, after, limit)
    <3>1. after \in Nat /\ limit \in Nat
      BY SessionAssumption
    <3> QED
      BY <2>1, <3>1, PagesHaveNoGap
  <2>2. ASSUME NEW s \in Sessions, NEW c \in current[s]
        PROVE  Exports(s, c) <=> \A e \in sessionEvents[s] : e.home = c.home
    BY DEF Exports, BundleOK, SessionInv
  <2> QED
    BY <2>1, <2>2 DEF SessionsStayUsable
<1> QED BY <1>1, SessionInvariant, PTL
=============================================================================
