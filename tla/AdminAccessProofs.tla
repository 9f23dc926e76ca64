------------------------- MODULE AdminAccessProofs -------------------------
(***************************************************************************)
(* Theorems about AdminAccess, for any peers, limits, windows, thresholds  *)
(* and kinds of traffic, and any number of concurrent requests.            *)
(***************************************************************************)
EXTENDS AdminAccess, FiniteSetTheorems, TLAPS

(***************************************************************************)
(* How often a sequence of times hits a set of them.                       *)
(***************************************************************************)
Hits(s, A) == {i \in DOMAIN s : s[i] \in A}
Count(s, A) == Cardinality(Hits(s, A))

-----------------------------------------------------------------------------
(***************************************************************************)
(* The times of a sequence that fall in a set are finitely many.           *)
(***************************************************************************)
LEMMA HitsFinite ==
  ASSUME NEW s \in Seq(Nat), NEW A
  PROVE  IsFiniteSet(Hits(s, A)) /\ Count(s, A) \in Nat
<1>1. DOMAIN s = 1..Len(s) /\ Len(s) \in Nat OBVIOUS
<1>2. IsFiniteSet(1..Len(s)) BY <1>1, FS_Interval
<1>3. Hits(s, A) \subseteq 1..Len(s) BY <1>1 DEF Hits
<1>4. IsFiniteSet(Hits(s, A)) BY <1>2, <1>3, FS_Subset
<1> QED BY <1>4, FS_CardinalityType DEF Count

(***************************************************************************)
(* A set that no time falls in is hit no times.                            *)
(***************************************************************************)
LEMMA CountNone ==
  ASSUME NEW s \in Seq(Nat), NEW A, \A i \in DOMAIN s : s[i] \notin A
  PROVE  Count(s, A) = 0
<1>1. Hits(s, A) = {} BY DEF Hits
<1> QED BY <1>1, FS_EmptySet DEF Count

(***************************************************************************)
(* A time appended to the sequence is one more hit of a set it falls in.   *)
(***************************************************************************)
LEMMA CountAppend ==
  ASSUME NEW s \in Seq(Nat), NEW x \in Nat, NEW A
  PROVE  Count(Append(s, x), A) = IF x \in A THEN Count(s, A) + 1 ELSE Count(s, A)
<1> DEFINE t == Append(s, x)
           n == Len(s) + 1
<1>1. /\ DOMAIN s = 1..Len(s) /\ DOMAIN t = 1..n /\ Len(s) \in Nat
      /\ t[n] = x /\ \A i \in 1..Len(s) : t[i] = s[i]
  OBVIOUS
<1>2. n \notin Hits(s, A) BY <1>1 DEF Hits
<1>3. CASE x \in A
  <2>1. Hits(t, A) = Hits(s, A) \cup {n} BY <1>1, <1>3 DEF Hits
  <2> QED BY <1>2, <1>3, <2>1, HitsFinite, FS_AddElement DEF Count
<1>4. CASE x \notin A
  <2>1. Hits(t, A) = Hits(s, A) BY <1>1, <1>4 DEF Hits
  <2> QED BY <1>4, <2>1 DEF Count
<1> QED BY <1>3, <1>4

(***************************************************************************)
(* A set that catches what another catches is hit as often at least.       *)
(***************************************************************************)
LEMMA CountMore ==
  ASSUME NEW s \in Seq(Nat), NEW A, NEW B,
         \A i \in DOMAIN s : s[i] \in A => s[i] \in B
  PROVE  Count(s, A) <= Count(s, B)
<1>1. Hits(s, A) \subseteq Hits(s, B) BY DEF Hits
<1> QED BY <1>1, HitsFinite, FS_Subset DEF Count

(***************************************************************************)
(* What one set catches, two that cover it catch together.                 *)
(***************************************************************************)
LEMMA CountSplit ==
  ASSUME NEW s \in Seq(Nat), NEW A, NEW B, NEW C,
         \A i \in DOMAIN s : s[i] \in A => s[i] \in B \/ s[i] \in C
  PROVE  Count(s, A) <= Count(s, B) + Count(s, C)
<1>1. Hits(s, A) \subseteq Hits(s, B) \cup Hits(s, C) BY DEF Hits
<1>2. /\ IsFiniteSet(Hits(s, B)) /\ IsFiniteSet(Hits(s, C))
      /\ Count(s, A) \in Nat /\ Count(s, B) \in Nat /\ Count(s, C) \in Nat
  BY HitsFinite
<1>3. /\ IsFiniteSet(Hits(s, B) \cup Hits(s, C))
      /\ Cardinality(Hits(s, B) \cup Hits(s, C)) =
           Count(s, B) + Count(s, C) - Cardinality(Hits(s, B) \cap Hits(s, C))
  BY <1>2, FS_Union DEF Count
<1>4. Cardinality(Hits(s, B) \cap Hits(s, C)) \in Nat
  <2>1. IsFiniteSet(Hits(s, B) \cap Hits(s, C)) BY <1>2, FS_Subset
  <2> QED BY <2>1, FS_CardinalityType
<1>5. Count(s, A) <= Cardinality(Hits(s, B) \cup Hits(s, C))
  BY <1>1, <1>3, FS_Subset DEF Count
<1>6. Cardinality(Hits(s, B) \cup Hits(s, C)) \in Nat
  BY <1>3, FS_CardinalityType
<1> QED BY <1>2, <1>3, <1>4, <1>5, <1>6

-----------------------------------------------------------------------------
(***************************************************************************)
(* The window of a rate key against the times it had requests let through. *)
(***************************************************************************)
Since(t) == {x \in Nat : x >= t}
Before(t) == {x \in Nat : t < x + Window /\ x < t}
Last(t, span) == {x \in Nat : t - x < span}

RateOk(win, s, limit, t) ==
  /\ \A i \in DOMAIN s : s[i] <= t
  /\ win.on =>
       /\ win.started <= t /\ win.seen <= t /\ win.count <= limit
       /\ \A i \in DOMAIN s : s[i] <= win.seen /\ s[i] < win.started + Window
       /\ Count(s, Since(win.started)) <= win.count
       /\ Count(s, Before(win.started)) <= limit
  /\ ~win.on => \A i \in DOMAIN s : s[i] + Window <= t

-----------------------------------------------------------------------------
(***************************************************************************)
(* Cleanup drops a window of the rate limiter not used for                 *)
(* RATE_LIMIT_STALE_SECONDS; the requests it let through are then older    *)
(* than a second.                                                          *)
(***************************************************************************)
LEMMA RateDropped ==
  ASSUME NEW win \in RateWindow, NEW s \in Seq(Nat), NEW limit \in Nat,
         NEW t \in Nat, RateOk(win, s, limit, t), t - win.seen >= Stale
  PROVE  RateOk(NoRate, s, limit, t)
<1>1. \A i \in DOMAIN s : s[i] \in Nat /\ s[i] + Window <= t
  <2>1. Stale \in Nat /\ Window \in Nat /\ Stale >= Window
    BY AccessAssumption
  <2>2. \A i \in DOMAIN s : s[i] \in Nat OBVIOUS
  <2> QED BY <2>1, <2>2 DEF RateOk, RateWindow
<1>2. \A i \in DOMAIN s : s[i] <= t
  <2>1. Window \in Nat BY AccessAssumption
  <2> QED BY <1>1, <2>1
<1>3. ~NoRate.on BY DEF NoRate
<1> QED BY <1>1, <1>2, <1>3 DEF RateOk

(***************************************************************************)
(* Time passing keeps what is known of a rate window.                      *)
(***************************************************************************)
LEMMA RateTick ==
  ASSUME NEW win \in RateWindow, NEW s \in Seq(Nat), NEW limit \in Nat,
         NEW t \in Nat, RateOk(win, s, limit, t)
  PROVE  RateOk(win, s, limit, t + 1)
<1>1. \A i \in DOMAIN s : s[i] \in Nat OBVIOUS
<1>2. Window \in Nat BY AccessAssumption
<1>3. win.started \in Nat /\ win.seen \in Nat BY DEF RateWindow
<1> QED BY <1>1, <1>2, <1>3 DEF RateOk

(***************************************************************************)
(* is_allowed opens the window anew when it is a second old: what the old  *)
(* one let through stays within the limit.                                 *)
(***************************************************************************)
LEMMA RateOpened ==
  ASSUME NEW win \in RateWindow, NEW s \in Seq(Nat), NEW limit \in Nat,
         NEW t \in Nat, RateOk(win, s, limit, t),
         ~win.on \/ t - win.started >= Window
  PROVE  RateOk([on |-> TRUE, started |-> t, seen |-> t, count |-> 0],
                s, limit, t)
<1> DEFINE new == [on |-> TRUE, started |-> t, seen |-> t, count |-> 0]
<1>1. \A i \in DOMAIN s : s[i] \in Nat OBVIOUS
<1>2. Window \in Nat /\ Window > 0 BY AccessAssumption
<1>3. win.started \in Nat /\ win.count \in Nat /\ win.on \in BOOLEAN
  BY DEF RateWindow
<1>4. \A i \in DOMAIN s : s[i] < t BY <1>1, <1>2, <1>3 DEF RateOk
<1>5. Count(s, Since(t)) = 0 BY <1>1, <1>4, CountNone DEF Since
<1>6. Count(s, Before(t)) <= limit
  <2>1. CASE ~win.on
    <3>1. \A i \in DOMAIN s : s[i] \notin Before(t)
      BY <1>1, <1>2, <2>1 DEF RateOk, Before
    <3> QED BY <3>1, CountNone
  <2>2. CASE win.on /\ t - win.started >= Window
    <3>1. \A i \in DOMAIN s : s[i] \in Before(t) => s[i] \in Since(win.started)
      BY <1>1, <1>2, <1>3, <2>2 DEF Before, Since
    <3>2. Count(s, Before(t)) <= Count(s, Since(win.started))
      BY <3>1, CountMore
    <3>3. Count(s, Since(win.started)) <= win.count /\ win.count <= limit
      BY <2>2 DEF RateOk
    <3> QED BY <1>3, <3>2, <3>3, HitsFinite
  <2> QED BY <1>3, <2>1, <2>2
<1>7. new.on /\ new.started = t /\ new.seen = t /\ new.count = 0 OBVIOUS
<1>8. \A i \in DOMAIN s : s[i] <= t /\ s[i] < t + Window
  BY <1>1, <1>2, <1>4
<1> HIDE DEF new
<1>9. RateOk(new, s, limit, t) BY <1>5, <1>6, <1>7, <1>8 DEF RateOk
<1> QED BY <1>9 DEF new

(***************************************************************************)
(* A request noted in a window changes nothing of what it let through.     *)
(***************************************************************************)
LEMMA RateSeen ==
  ASSUME NEW win \in RateWindow, NEW s \in Seq(Nat), NEW limit \in Nat,
         NEW t \in Nat, RateOk(win, s, limit, t), win.on
  PROVE  RateOk([win EXCEPT !.seen = t], s, limit, t)
<1> DEFINE new == [win EXCEPT !.seen = t]
<1>1. new.on = win.on /\ new.started = win.started /\ new.count = win.count
      /\ new.seen = t
  BY DEF RateWindow
<1> HIDE DEF new
<1>2. RateOk(new, s, limit, t) BY <1>1 DEF RateOk
<1> QED BY <1>2 DEF new

(***************************************************************************)
(* A request below the limit is let through and counted.                   *)
(***************************************************************************)
LEMMA RatePassed ==
  ASSUME NEW win \in RateWindow, NEW s \in Seq(Nat), NEW limit \in Nat,
         NEW t \in Nat, RateOk(win, s, limit, t),
         win.on, win.seen = t, t - win.started < Window, win.count < limit
  PROVE  RateOk([win EXCEPT !.count = @ + 1], Append(s, t), limit, t)
<1> DEFINE new == [win EXCEPT !.count = @ + 1]
           r == Append(s, t)
<1>1. new.on /\ new.started = win.started /\ new.count = win.count + 1
      /\ new.seen = t /\ win.started \in Nat /\ win.count \in Nat
  BY DEF RateWindow
<1>2. \A i \in DOMAIN r : r[i] = t \/ (i \in DOMAIN s /\ r[i] = s[i])
  OBVIOUS
<1>3. /\ win.started <= t /\ win.count <= limit
      /\ \A i \in DOMAIN s : s[i] <= t /\ s[i] < win.started + Window
      /\ Count(s, Since(win.started)) <= win.count
      /\ Count(s, Before(win.started)) <= limit
  BY DEF RateOk
<1>4. Window \in Nat BY AccessAssumption
<1>5. \A i \in DOMAIN r : r[i] <= t /\ r[i] < win.started + Window
  BY <1>1, <1>2, <1>3, <1>4
<1>6. Count(r, Since(win.started)) = Count(s, Since(win.started)) + 1
  <2>1. t \in Since(win.started) BY <1>3 DEF Since
  <2> QED BY <2>1, CountAppend
<1>7. Count(r, Before(win.started)) = Count(s, Before(win.started))
  <2>1. t \notin Before(win.started) BY <1>1, <1>3 DEF Before
  <2> QED BY <2>1, CountAppend
<1>8. Count(s, Since(win.started)) \in Nat BY HitsFinite
<1> HIDE DEF new, r
<1>9. RateOk(new, r, limit, t)
  BY <1>1, <1>3, <1>5, <1>6, <1>7, <1>8 DEF RateOk
<1> QED BY <1>9 DEF new, r

(***************************************************************************)
(* Two windows cover every stretch of a second, so at most twice the limit *)
(* got through in it.                                                      *)
(***************************************************************************)
LEMMA RateBound ==
  ASSUME NEW win \in RateWindow, NEW s \in Seq(Nat), NEW limit \in Nat,
         NEW t \in Nat, RateOk(win, s, limit, t)
  PROVE  Count(s, Last(t, Window)) <= 2 * limit
<1>1. \A i \in DOMAIN s : s[i] \in Nat OBVIOUS
<1>2. Window \in Nat BY AccessAssumption
<1>3. win.started \in Nat /\ win.count \in Nat /\ win.on \in BOOLEAN
  BY DEF RateWindow
<1>4. CASE ~win.on
  <2>1. \A i \in DOMAIN s : s[i] \notin Last(t, Window)
    BY <1>1, <1>2, <1>4 DEF RateOk, Last
  <2> QED BY <2>1, CountNone
<1>5. CASE win.on
  <2>1. win.started <= t /\ win.count <= limit BY <1>5 DEF RateOk
  <2>2. \A i \in DOMAIN s : s[i] \in Last(t, Window) =>
          s[i] \in Since(win.started) \/ s[i] \in Before(win.started)
    BY <1>1, <1>2, <1>3, <2>1 DEF Last, Since, Before
  <2>3. Count(s, Last(t, Window)) <=
          Count(s, Since(win.started)) + Count(s, Before(win.started))
    BY <2>2, CountSplit
  <2>4. /\ Count(s, Since(win.started)) <= win.count
        /\ Count(s, Before(win.started)) <= limit
    BY <1>5 DEF RateOk
  <2>5. /\ Count(s, Since(win.started)) \in Nat
        /\ Count(s, Before(win.started)) \in Nat
        /\ Count(s, Last(t, Window)) \in Nat
    BY HitsFinite
  <2> QED BY <1>3, <2>1, <2>3, <2>4, <2>5
<1> QED BY <1>3, <1>4, <1>5

-----------------------------------------------------------------------------
(***************************************************************************)
(* The window of a peer against the times of its wrong tokens. n is how    *)
(* many of its requests are past the cooldown check and not yet answered.  *)
(***************************************************************************)
Others == Cardinality(Worker) - 1
PastEnd(win) == {x \in Nat : x + Cooldown > win.until}

GuessOk(win, s, n, t) ==
  /\ \A i \in DOMAIN s : s[i] <= t /\ (win.on => s[i] <= win.seen)
  /\ win.seen <= t
  /\ ~win.on => win.until = 0 /\ win.failed = 0
  /\ win.failed < AUTH_FAILURE_THRESHOLD /\ win.failed <= Len(s)
  /\ win.until = 0 => Count(s, Last(t, Cooldown)) <= win.failed + Others
  /\ win.until # 0 =>
       /\ win.failed = 0
       /\ Count(s, PastEnd(win)) + n <= Others
       /\ Count(s, Last(t, Cooldown)) + n <= AUTH_FAILURE_THRESHOLD + 2 * Others
       /\ Len(s) >= AUTH_FAILURE_THRESHOLD
       /\ \E i \in DOMAIN s : s[i] + Cooldown = win.until

-----------------------------------------------------------------------------
(***************************************************************************)
(* The assumptions on the constants, in the form the proofs use.           *)
(***************************************************************************)
LEMMA Constants ==
  /\ Window \in Nat /\ Window > 0 /\ Cooldown \in Nat /\ Cooldown > 0
  /\ AUTH_FAILURE_THRESHOLD \in Nat /\ AUTH_FAILURE_THRESHOLD > 0
  /\ Stale \in Nat /\ Stale >= Window /\ Stale >= Cooldown
  /\ Others \in Nat /\ Cardinality(Worker) = Others + 1
<1>1. Cardinality(Worker) \in Nat /\ Cardinality(Worker) # 0
  BY AccessAssumption, FS_CardinalityType, FS_EmptySet
<1> QED BY <1>1, AccessAssumption DEF Others

(***************************************************************************)
(* reset, reset_all and an eviction forget the window and the failures     *)
(* with it.                                                                *)
(***************************************************************************)
LEMMA GuessForgotten ==
  ASSUME NEW n \in Nat, NEW t \in Nat
  PROVE  GuessOk(NoFailure, <<>>, n, t)
<1>1. /\ <<>> \in Seq(Nat) /\ DOMAIN <<>> = {} /\ Len(<<>>) = 0
  OBVIOUS
<1>2. Count(<<>>, Last(t, Cooldown)) = 0 BY <1>1, CountNone
<1>3. /\ NoFailure.on = FALSE /\ NoFailure.failed = 0
      /\ NoFailure.until = 0 /\ NoFailure.seen = 0
  BY DEF NoFailure
<1> QED BY <1>1, <1>2, <1>3, Constants DEF GuessOk

(***************************************************************************)
(* A request answered without a failure leaves fewer that may still be     *)
(* counted.                                                                *)
(***************************************************************************)
LEMMA GuessFewer ==
  ASSUME NEW win \in FailureWindow, NEW s \in Seq(Nat), NEW n \in Nat,
         NEW m \in Nat, m <= n, NEW t \in Nat, GuessOk(win, s, n, t)
  PROVE  GuessOk(win, s, m, t)
<1>1. /\ Count(s, PastEnd(win)) \in Nat
      /\ Count(s, Last(t, Cooldown)) \in Nat
  BY HitsFinite
<1>2. win.until # 0 =>
        /\ Count(s, PastEnd(win)) + m <= Others
        /\ Count(s, Last(t, Cooldown)) + m <= AUTH_FAILURE_THRESHOLD + 2 * Others
  <2>1. SUFFICES ASSUME win.until # 0
                 PROVE  /\ Count(s, PastEnd(win)) + m <= Others
                        /\ Count(s, Last(t, Cooldown)) + m
                             <= AUTH_FAILURE_THRESHOLD + 2 * Others
    OBVIOUS
  <2>2. /\ Count(s, PastEnd(win)) + n <= Others
        /\ Count(s, Last(t, Cooldown)) + n <= AUTH_FAILURE_THRESHOLD + 2 * Others
    BY <2>1 DEF GuessOk
  <2> QED BY <1>1, <2>2, Constants
<1> QED BY <1>2 DEF GuessOk

(***************************************************************************)
(* Time passing keeps what is known of a failure window.                   *)
(***************************************************************************)
LEMMA GuessTick ==
  ASSUME NEW win \in FailureWindow, NEW s \in Seq(Nat), NEW n \in Nat,
         NEW t \in Nat, GuessOk(win, s, n, t)
  PROVE  GuessOk(win, s, n, t + 1)
<1>1. /\ Count(s, PastEnd(win)) \in Nat
      /\ Count(s, Last(t, Cooldown)) \in Nat
      /\ Count(s, Last(t + 1, Cooldown)) \in Nat
  BY HitsFinite
<1>2. \A i \in DOMAIN s : s[i] \in Nat OBVIOUS
<1>3. win.seen \in Nat /\ win.failed \in Nat BY DEF FailureWindow
<1>4. \A i \in DOMAIN s :
        s[i] \in Last(t + 1, Cooldown) => s[i] \in Last(t, Cooldown)
  BY <1>2, Constants DEF Last
<1>5. Count(s, Last(t + 1, Cooldown)) <= Count(s, Last(t, Cooldown))
  BY <1>4, CountMore
<1>6. \A i \in DOMAIN s : s[i] <= t + 1 /\ (win.on => s[i] <= win.seen)
  BY <1>2 DEF GuessOk
<1>7. win.until = 0 => Count(s, Last(t + 1, Cooldown)) <= win.failed + Others
  BY <1>1, <1>3, <1>5, Constants DEF GuessOk
<1>8. win.until # 0 => Count(s, Last(t + 1, Cooldown)) + n
                         <= AUTH_FAILURE_THRESHOLD + 2 * Others
  BY <1>1, <1>5, Constants DEF GuessOk
<1> QED BY <1>3, <1>6, <1>7, <1>8 DEF GuessOk

(***************************************************************************)
(* Cleanup drops a window whose cooldown is over and that was not used for *)
(* AUTH_FAILURE_STALE_SECONDS: its failures are older than a cooldown.     *)
(***************************************************************************)
LEMMA GuessDropped ==
  ASSUME NEW win \in FailureWindow, NEW s \in Seq(Nat), NEW n \in Nat,
         NEW t \in Nat, GuessOk(win, s, n, t),
         t - win.seen >= Stale, win.until <= t
  PROVE  GuessOk(NoFailure, s, n, t)
<1>1. \A i \in DOMAIN s : s[i] \in Nat OBVIOUS
<1>2. /\ win.seen \in Nat /\ win.failed \in Nat /\ win.on \in BOOLEAN
      /\ Len(s) \in Nat
  BY DEF FailureWindow
<1>3. Count(s, Last(t, Cooldown)) <= Others
  <2>1. CASE win.on
    <3>1. \A i \in DOMAIN s : s[i] \notin Last(t, Cooldown)
      BY <1>1, <1>2, <2>1, Constants DEF GuessOk, Last
    <3> QED BY <3>1, CountNone, Constants
  <2>2. CASE ~win.on
    BY <2>2, Constants DEF GuessOk
  <2> QED BY <1>2, <2>1, <2>2
<1>4. /\ NoFailure.on = FALSE /\ NoFailure.failed = 0
      /\ NoFailure.until = 0 /\ NoFailure.seen = 0
  BY DEF NoFailure
<1>5. \A i \in DOMAIN s : s[i] <= t BY DEF GuessOk
<1> QED BY <1>2, <1>3, <1>4, <1>5, Constants DEF GuessOk

(***************************************************************************)
(* Noting when a window was last used changes nothing of its failures.     *)
(***************************************************************************)
LEMMA GuessSeen ==
  ASSUME NEW win \in FailureWindow, NEW s \in Seq(Nat), NEW n \in Nat,
         NEW t \in Nat, GuessOk(win, s, n, t)
  PROVE  GuessOk([win EXCEPT !.seen = t], s, n, t)
<1> DEFINE new == [win EXCEPT !.seen = t]
<1>1. /\ new.on = win.on /\ new.failed = win.failed /\ new.until = win.until
      /\ new.seen = t
  BY DEF FailureWindow
<1>2. PastEnd(new) = PastEnd(win) BY <1>1 DEF PastEnd
<1> HIDE DEF new
<1>3. GuessOk(new, s, n, t) BY <1>1, <1>2 DEF GuessOk
<1> QED BY <1>3 DEF new

(***************************************************************************)
(* is_in_cooldown forgets a cooldown that is over: what is left of the     *)
(* last cooldown's length are the failures counted late, one for each      *)
(* other request at most.                                                  *)
(***************************************************************************)
LEMMA GuessOver ==
  ASSUME NEW win \in FailureWindow, NEW s \in Seq(Nat), NEW n \in Nat,
         NEW m \in Nat, NEW t \in Nat, GuessOk(win, s, n, t), win.on,
         win.until # 0, win.until <= t
  PROVE  /\ Count(s, Last(t, Cooldown)) <= Others
         /\ GuessOk([win EXCEPT !.seen = t, !.until = 0, !.failed = 0],
                    s, m, t)
<1> DEFINE new == [win EXCEPT !.seen = t, !.until = 0, !.failed = 0]
<1>2. \A i \in DOMAIN s : s[i] \in Nat BY s \in Seq(Nat)
<1>1. /\ new.on = win.on /\ new.failed = 0 /\ new.until = 0 /\ new.seen = t
      /\ win.until \in Nat /\ Len(s) \in Nat
  <2>1. win.until \in Nat /\ Len(s) \in Nat BY DEF FailureWindow
  <2>2. new.on = win.on BY DEF FailureWindow
  <2>3. new.failed = 0 BY DEF FailureWindow
  <2>4. new.until = 0 BY DEF FailureWindow
  <2>5. new.seen = t BY DEF FailureWindow
  <2> QED BY <2>1, <2>2, <2>3, <2>4, <2>5
<1>3. \A i \in DOMAIN s : s[i] \in Last(t, Cooldown) => s[i] \in PastEnd(win)
  BY SMTT(30), <1>1, <1>2, Constants DEF Last, PastEnd
<1>4. Count(s, Last(t, Cooldown)) <= Count(s, PastEnd(win))
  BY <1>3, CountMore
<1>5. Count(s, Last(t, Cooldown)) \in Nat /\ Count(s, PastEnd(win)) \in Nat
  BY HitsFinite
<1>6. Count(s, Last(t, Cooldown)) <= Others
  BY <1>4, <1>5, Constants DEF GuessOk
<1>7. \A i \in DOMAIN s : s[i] <= t BY DEF GuessOk
<1> HIDE DEF new
<1>8. GuessOk(new, s, m, t) BY <1>1, <1>6, <1>7, Constants DEF GuessOk
<1> QED BY <1>6, <1>8 DEF new

(***************************************************************************)
(* Outside a cooldown any number of requests may be past the check.        *)
(***************************************************************************)
LEMMA GuessMore ==
  ASSUME NEW win \in FailureWindow, NEW s \in Seq(Nat), NEW n \in Nat,
         NEW m \in Nat, NEW t \in Nat, GuessOk(win, s, n, t), win.until = 0
  PROVE  GuessOk(win, s, m, t)
BY DEF GuessOk

(***************************************************************************)
(* A failure recorded while the cooldown runs is one of the requests that  *)
(* were past the check when it began.                                      *)
(***************************************************************************)
LEMMA GuessLate ==
  ASSUME NEW win \in FailureWindow, NEW s \in Seq(Nat), NEW n \in Nat,
         NEW m \in Nat, NEW t \in Nat, GuessOk(win, s, n, t), win.on,
         m + 1 = n, win.until # 0
  PROVE  GuessOk([win EXCEPT !.seen = t], Append(s, t), m, t)
<1> DEFINE new == [win EXCEPT !.seen = t]
           r == Append(s, t)
<1>1. /\ new.on = win.on /\ new.failed = win.failed /\ new.until = win.until
      /\ new.seen = t /\ win.failed \in Nat /\ win.until \in Nat
  BY DEF FailureWindow
<1>2. PastEnd(new) = PastEnd(win) BY <1>1 DEF PastEnd
<1>3. /\ Count(s, PastEnd(win)) \in Nat
      /\ Count(s, Last(t, Cooldown)) \in Nat
      /\ Count(r, PastEnd(win)) <= Count(s, PastEnd(win)) + 1
      /\ Count(r, Last(t, Cooldown)) <= Count(s, Last(t, Cooldown)) + 1
      /\ Count(r, PastEnd(win)) \in Nat
      /\ Count(r, Last(t, Cooldown)) \in Nat
  <2>1. r \in Seq(Nat) OBVIOUS
  <2>2. /\ Count(s, PastEnd(win)) \in Nat
        /\ Count(s, Last(t, Cooldown)) \in Nat
        /\ Count(r, PastEnd(win)) \in Nat
        /\ Count(r, Last(t, Cooldown)) \in Nat
    BY <2>1, HitsFinite
  <2>3. /\ Count(r, PastEnd(win)) = Count(s, PastEnd(win)) + 1
           \/ Count(r, PastEnd(win)) = Count(s, PastEnd(win))
        /\ \/ Count(r, Last(t, Cooldown)) = Count(s, Last(t, Cooldown)) + 1
           \/ Count(r, Last(t, Cooldown)) = Count(s, Last(t, Cooldown))
    BY CountAppend
  <2> QED BY <2>2, <2>3
<1>4. /\ Len(r) = Len(s) + 1 /\ Len(s) \in Nat
      /\ DOMAIN s \subseteq DOMAIN r /\ \A i \in DOMAIN s : r[i] = s[i]
      /\ \A i \in DOMAIN r : r[i] = t \/ (i \in DOMAIN s /\ r[i] = s[i])
  OBVIOUS
<1>5. \A i \in DOMAIN r : r[i] <= t BY <1>4 DEF GuessOk
<1>6. /\ win.failed = 0 /\ Len(s) >= AUTH_FAILURE_THRESHOLD
      /\ Count(s, PastEnd(win)) + n <= Others
      /\ Count(s, Last(t, Cooldown)) + n <= AUTH_FAILURE_THRESHOLD + 2 * Others
      /\ \E i \in DOMAIN s : s[i] + Cooldown = win.until
  BY DEF GuessOk
<1>7. \E i \in DOMAIN r : r[i] + Cooldown = win.until BY <1>4, <1>6
<1>8. /\ Count(r, PastEnd(win)) + m <= Others
      /\ Count(r, Last(t, Cooldown)) + m <= AUTH_FAILURE_THRESHOLD + 2 * Others
  <2> HIDE DEF new, r
  <2>1. m \in Nat /\ n = m + 1 OBVIOUS
  <2>2. /\ Count(s, PastEnd(win)) + n <= Others
        /\ Count(s, Last(t, Cooldown)) + n <= AUTH_FAILURE_THRESHOLD + 2 * Others
    BY <1>6
  <2>3. Count(r, PastEnd(win)) + m <= Others
    BY <1>3, <2>1, <2>2, Constants
  <2>4. Count(r, Last(t, Cooldown)) + m <= AUTH_FAILURE_THRESHOLD + 2 * Others
    <3> DEFINE a == Count(r, Last(t, Cooldown))
               b == Count(s, Last(t, Cooldown))
               c == AUTH_FAILURE_THRESHOLD + 2 * Others
    <3>1. a \in Nat /\ b \in Nat /\ c \in Nat /\ a <= b + 1 /\ b + n <= c
      BY <1>3, <2>2, Constants
    <3> HIDE DEF a, b, c
    <3>2. a + m <= c BY <2>1, <3>1
    <3> QED BY <3>2 DEF a, c
  <2> QED BY <2>3, <2>4
<1>9. Len(r) >= AUTH_FAILURE_THRESHOLD /\ win.failed <= Len(r)
  BY <1>4, <1>6, Constants
<1> HIDE DEF new, r
<1>10. GuessOk(new, r, m, t)
  BY SMTT(30), <1>1, <1>2, <1>5, <1>6, <1>7, <1>8, <1>9, Constants DEF GuessOk
<1> QED BY <1>10 DEF new, r

(***************************************************************************)
(* A failure recorded outside a cooldown is counted, or is the last of the *)
(* threshold and begins one.                                               *)
(***************************************************************************)
LEMMA GuessCounted ==
  ASSUME NEW s \in Seq(Nat), NEW m \in Nat, m <= Others, NEW t \in Nat,
         NEW k \in Nat, k > 0, k <= AUTH_FAILURE_THRESHOLD,
         k <= Len(s) + 1, \A i \in DOMAIN s : s[i] <= t,
         Count(s, Last(t, Cooldown)) < k + Others
  PROVE  GuessOk([on |-> TRUE, seen |-> t,
                  failed |-> IF TooMany(k) THEN 0 ELSE k,
                  until |-> IF TooMany(k) THEN t + Cooldown ELSE 0],
                 Append(s, t), m, t)
<1> DEFINE new == [on |-> TRUE, seen |-> t,
                   failed |-> IF TooMany(k) THEN 0 ELSE k,
                   until |-> IF TooMany(k) THEN t + Cooldown ELSE 0]
           r == Append(s, t)
<1>1. /\ new.on /\ new.seen = t
      /\ new.failed = (IF TooMany(k) THEN 0 ELSE k)
      /\ new.until = (IF TooMany(k) THEN t + Cooldown ELSE 0)
  OBVIOUS
<1>2. /\ Len(r) = Len(s) + 1 /\ Len(s) \in Nat /\ r \in Seq(Nat)
      /\ Len(r) \in DOMAIN r /\ r[Len(r)] = t
      /\ \A i \in DOMAIN r : r[i] = t \/ (i \in DOMAIN s /\ r[i] = s[i])
  OBVIOUS
<1>3. \A i \in DOMAIN r : r[i] <= t /\ r[i] \in Nat BY <1>2
<1>4. Count(r, Last(t, Cooldown)) <= k + Others
  <2>1. t \in Last(t, Cooldown) BY Constants DEF Last
  <2>2. Count(r, Last(t, Cooldown)) = Count(s, Last(t, Cooldown)) + 1
    BY <2>1, CountAppend
  <2> QED BY <2>2, HitsFinite, Constants
<1>5. Count(r, Last(t, Cooldown)) \in Nat BY <1>2, HitsFinite
<1> HIDE DEF new, r
<1>6. CASE TooMany(k)
  <2>1. new.failed = 0 /\ new.until = t + Cooldown BY <1>1, <1>6
  <2>2. \A i \in DOMAIN r : r[i] \notin PastEnd(new)
    BY <1>3, <2>1, Constants DEF PastEnd
  <2>3. Count(r, PastEnd(new)) = 0 BY <1>2, <2>2, CountNone
  <2>4. k = AUTH_FAILURE_THRESHOLD BY <1>6, Constants DEF TooMany
  <2>5. Count(r, Last(t, Cooldown)) + m <= AUTH_FAILURE_THRESHOLD + 2 * Others
    BY <1>4, <1>5, <2>4, Constants
  <2>6. \E i \in DOMAIN r : r[i] + Cooldown = new.until BY <1>2, <2>1
  <2>7. new.until # 0 BY <2>1, Constants
  <2>8. Len(r) >= AUTH_FAILURE_THRESHOLD /\ 0 <= Len(r)
    BY <1>2, <2>4, Constants
  <2>9. GuessOk(new, r, m, t)
    BY <1>1, <1>3, <2>1, <2>3, <2>5, <2>6, <2>7, <2>8, Constants DEF GuessOk
  <2> QED BY <2>9 DEF new, r
<1>7. CASE ~TooMany(k)
  <2>1. new.failed = k /\ new.until = 0 BY <1>1, <1>7
  <2>2. k < AUTH_FAILURE_THRESHOLD /\ k <= Len(r)
    BY <1>2, <1>7, Constants DEF TooMany
  <2>3. GuessOk(new, r, m, t)
    BY <1>1, <1>3, <1>4, <2>1, <2>2 DEF GuessOk
  <2> QED BY <2>3 DEF new, r
<1> QED BY <1>6, <1>7

(***************************************************************************)
(* In every case the failures of the last cooldown's length are bounded.   *)
(***************************************************************************)
LEMMA GuessBound ==
  ASSUME NEW win \in FailureWindow, NEW s \in Seq(Nat), NEW n \in Nat,
         NEW t \in Nat, GuessOk(win, s, n, t)
  PROVE  Count(s, Last(t, Cooldown)) <= AUTH_FAILURE_THRESHOLD + 2 * Others
<1>1. Count(s, Last(t, Cooldown)) \in Nat BY HitsFinite
<1>2. win.failed \in Nat BY DEF FailureWindow
<1> QED BY <1>1, <1>2, Constants DEF GuessOk

-----------------------------------------------------------------------------
(***************************************************************************)
(* Cleanup keeps a window as it is or drops it; what a request does to the *)
(* windows of the rate limiter.                                            *)
(***************************************************************************)
Table(K, W) == [windows : [K -> W], cleaned : Nat]

(***************************************************************************)
(* Cleanup keeps a window as it is, or drops it because it was not used    *)
(* for long and nothing asks for it to be kept.                            *)
(***************************************************************************)
LEMMA CleanedShape ==
  ASSUME NEW K, NEW W, NEW t \in Table(K, W),
         NEW none \in W, NEW keep, now \in Nat,
         \A x \in W : x.seen \in Nat
  PROVE  /\ Cleaned(t, none, keep) \in Table(K, W)
         /\ \A k \in K :
              \/ Cleaned(t, none, keep).windows[k] = t.windows[k]
              \/ /\ Cleaned(t, none, keep).windows[k] = none
                 /\ k \notin keep /\ now - t.windows[k].seen >= Stale
<1>1. DOMAIN t.windows = K /\ \A k \in K : t.windows[k] \in W
  BY DEF Table
<1>2. CASE ~CleanupDue(t)
  <2>1. Cleaned(t, none, keep) = t BY <1>2 DEF Cleaned
  <2> QED BY <2>1
<1>3. CASE CleanupDue(t)
  <2> DEFINE f == [k \in K |->
                     IF k \in keep \/ now - t.windows[k].seen < Stale
                     THEN t.windows[k] ELSE none]
  <2>1. Cleaned(t, none, keep) = [windows |-> f, cleaned |-> now]
    BY <1>1, <1>3 DEF Cleaned
  <2>2. f \in [K -> W] BY <1>1
  <2>3. \A k \in K : f[k] = t.windows[k] \/
          (f[k] = none /\ k \notin keep /\ ~(now - t.windows[k].seen < Stale))
    OBVIOUS
  <2>4. \A k \in K : ~(now - t.windows[k].seen < Stale)
                        => now - t.windows[k].seen >= Stale
    BY <1>1, Constants
  <2> HIDE DEF f
  <2>5. [windows |-> f, cleaned |-> now] \in Table(K, W) BY <2>2 DEF Table
  <2> QED BY <2>1, <2>3, <2>4, <2>5
<1> QED BY <1>2, <1>3

(***************************************************************************)
(* What cleanup does to the rate limiter.                                  *)
(***************************************************************************)
LEMMA CleanRatesShape ==
  ASSUME TypeOK
  PROVE  /\ CleanRates \in Table(RateKey, RateWindow)
         /\ \A k \in RateKey :
              \/ CleanRates.windows[k] = rates.windows[k]
              \/ /\ CleanRates.windows[k] = NoRate
                 /\ now - rates.windows[k].seen >= Stale
<1>1. /\ now \in Nat
      /\ rates \in Table(RateKey, RateWindow)
  BY DEF TypeOK, Table
<1>2. NoRate \in RateWindow /\ \A x \in RateWindow : x.seen \in Nat
  BY DEF NoRate, RateWindow
<1>3. CleanRates = Cleaned(rates, NoRate, {}) BY DEF CleanRates
<1> QED BY <1>1, <1>2, <1>3, CleanedShape

(***************************************************************************)
(* What cleanup does to the failure tracker: a window in its cooldown is   *)
(* kept.                                                                   *)
(***************************************************************************)
LEMMA CleanFailuresShape ==
  ASSUME TypeOK
  PROVE  /\ CleanFailures \in Table(Peer, FailureWindow)
         /\ \A p \in Peer :
              \/ CleanFailures.windows[p] = failures.windows[p]
              \/ /\ CleanFailures.windows[p] = NoFailure
                 /\ now - failures.windows[p].seen >= Stale
                 /\ failures.windows[p].until <= now
<1>1. /\ now \in Nat
      /\ failures \in Table(Peer, FailureWindow)
  BY DEF TypeOK, Table
<1>2. /\ NoFailure \in FailureWindow
      /\ \A x \in FailureWindow : x.seen \in Nat /\ x.until \in Nat
  BY DEF NoFailure, FailureWindow
<1> DEFINE keep == {p \in Peer : Cooling(failures.windows[p])}
<1>3. \A p \in Peer : p \notin keep => failures.windows[p].until <= now
  BY <1>1, <1>2 DEF Cooling, Table
<1>4. CleanFailures = Cleaned(failures, NoFailure, keep) BY DEF CleanFailures
<1> HIDE DEF keep
<1>5. /\ CleanFailures \in Table(Peer, FailureWindow)
      /\ \A p \in Peer :
           \/ CleanFailures.windows[p] = failures.windows[p]
           \/ /\ CleanFailures.windows[p] = NoFailure
              /\ p \notin keep /\ now - failures.windows[p].seen >= Stale
  BY <1>1, <1>2, <1>4, CleanedShape
<1> QED BY <1>3, <1>5

KeyOf(p, kind) == IF kind = "read" THEN Reads ELSE p
Opened(old) ==
  IF ~old.on \/ now - old.started >= Window
  THEN [on |-> TRUE, started |-> now, seen |-> now, count |-> 0]
  ELSE [old EXCEPT !.seen = now]

(***************************************************************************)
(* Every rate key has a limit.                                             *)
(***************************************************************************)
LEMMA LimitNat == \A k : LimitOf(k) \in Nat
BY AccessAssumption DEF LimitOf

(***************************************************************************)
(* is_allowed makes a window of a window.                                  *)
(***************************************************************************)
LEMMA OpenedType ==
  ASSUME now \in Nat, NEW old \in RateWindow
  PROVE  /\ Opened(old) \in RateWindow
         /\ Opened(old) =
              [old EXCEPT !.on = TRUE, !.seen = now,
                 !.started = IF ~old.on \/ now - old.started >= Window
                             THEN now ELSE @,
                 !.count = IF ~old.on \/ now - old.started >= Window
                           THEN 0 ELSE @]
<1>1. CASE ~old.on \/ now - old.started >= Window
  <2>1. Opened(old) = [on |-> TRUE, started |-> now, seen |-> now, count |-> 0]
    BY <1>1 DEF Opened
  <2> DEFINE new == [old EXCEPT !.on = TRUE, !.seen = now,
                 !.started = IF ~old.on \/ now - old.started >= Window
                             THEN now ELSE @,
                 !.count = IF ~old.on \/ now - old.started >= Window
                           THEN 0 ELSE @]
  <2>2. new \in RateWindow BY <1>1 DEF RateWindow
  <2>3. new.on = TRUE BY DEF RateWindow
  <2>4. new.started = now BY <1>1 DEF RateWindow
  <2>5. new.seen = now BY DEF RateWindow
  <2>6. new.count = 0 BY <1>1 DEF RateWindow
  <2> HIDE DEF new
  <2>7. new = [on |-> TRUE, started |-> now, seen |-> now, count |-> 0]
    BY <2>2, <2>3, <2>4, <2>5, <2>6 DEF RateWindow
  <2> QED BY <2>1, <2>2, <2>7 DEF new
<1>2. CASE ~(~old.on \/ now - old.started >= Window)
  BY <1>2 DEF Opened, RateWindow
<1> QED BY <1>1, <1>2

(***************************************************************************)
(* What gives way to a new key is tracked and not the new key.             *)
(***************************************************************************)
LEMMA VictimsShape ==
  ASSUME NEW t, NEW k, NEW gone \in Victims(t, k)
  PROVE  gone \subseteq DOMAIN t.windows /\ k \notin gone
<1>1. CASE ~t.windows[k].on /\ Full(t)
  BY <1>1 DEF Victims, Oldest, Tracked
<1>2. CASE ~(~t.windows[k].on /\ Full(t))
  BY <1>2 DEF Victims
<1> QED BY <1>1, <1>2

(***************************************************************************)
(* What is_allowed does to the windows: the key's own is opened anew or    *)
(* continued and counts the request if it is below the limit; every other  *)
(* is cleaned or evicted.                                                  *)
(***************************************************************************)
LEMMA ArriveShape ==
  ASSUME TypeOK, NEW w \in Worker, NEW p \in Peer, NEW kind \in traffic,
         Arrive(w, p, kind)
  PROVE  LET k == KeyOf(p, kind)
             win == Opened(CleanRates.windows[k])
         IN /\ k \in RateKey /\ CleanRates.windows[k] \in RateWindow
            /\ evicted \subseteq evicted' /\ evicted' \subseteq RateKey
            /\ rates' \in Table(RateKey, RateWindow)
            /\ passed' \in [RateKey -> Seq(Nat)]
            /\ \A o \in RateKey \ evicted' : o # k =>
                 /\ rates'.windows[o] = CleanRates.windows[o]
                 /\ passed'[o] = passed[o]
            /\ \/ /\ win.count >= LimitOf(k)
                  /\ rates'.windows[k] = win /\ passed' = passed
               \/ /\ win.count < LimitOf(k)
                  /\ rates'.windows[k] = [win EXCEPT !.count = @ + 1]
                  /\ passed'[k] = Append(passed[k], now)
<1> DEFINE k == KeyOf(p, kind)
           clean == CleanRates
           win == Opened(clean.windows[k])
<1>1. /\ now \in Nat /\ passed \in [RateKey -> Seq(Nat)]
      /\ evicted \subseteq RateKey
  BY DEF TypeOK
<1>2. k \in RateKey BY DEF KeyOf, RateKey
<1>3. clean \in Table(RateKey, RateWindow)
  BY CleanRatesShape
<1>4. clean.windows[k] \in RateWindow /\ DOMAIN clean.windows = RateKey
  BY <1>2, <1>3 DEF Table
<1>5. win \in RateWindow BY <1>1, <1>4, OpenedType
<1>6. PICK gone \in Victims(clean, k) :
        LET kept == [o \in RateKey |-> IF o \in gone THEN NoRate
                                       ELSE clean.windows[o]]
            keep(x) == [clean EXCEPT !.windows = [kept EXCEPT ![k] = x]]
        IN /\ evicted' = evicted \cup gone
           /\ \/ /\ AtLimit(win, LimitOf(k))
                 /\ rates' = keep(win) /\ passed' = passed
              \/ /\ ~AtLimit(win, LimitOf(k))
                 /\ rates' = keep([win EXCEPT !.count = @ + 1])
                 /\ passed' = [passed EXCEPT ![k] = Append(@, now)]
  <2>1. win = [clean.windows[k] EXCEPT !.on = TRUE, !.seen = now,
                 !.started = IF ~clean.windows[k].on
                                \/ now - clean.windows[k].started >= Window
                             THEN now ELSE @,
                 !.count = IF ~clean.windows[k].on
                              \/ now - clean.windows[k].started >= Window
                           THEN 0 ELSE @]
    BY <1>1, <1>4, OpenedType
  <2>2. k = IF kind = "read" THEN Reads ELSE p BY DEF KeyOf
  <2> HIDE DEF win, k, clean
  <2>3. clean = CleanRates BY DEF clean
  <2> QED BY <2>1, <2>2, <2>3 DEF Arrive
<1>7. gone \subseteq RateKey /\ k \notin gone BY <1>4, VictimsShape
<1> DEFINE kept == [o \in RateKey |-> IF o \in gone THEN NoRate
                                      ELSE clean.windows[o]]
           keep(x) == [clean EXCEPT !.windows = [kept EXCEPT ![k] = x]]
<1>8. ASSUME NEW x \in RateWindow
      PROVE  /\ keep(x) \in Table(RateKey, RateWindow)
             /\ keep(x).windows[k] = x
             /\ \A o \in RateKey \ gone :
                  o # k => keep(x).windows[o] = clean.windows[o]
  <2>1. NoRate \in RateWindow BY DEF NoRate, RateWindow
  <2>2. kept \in [RateKey -> RateWindow] BY <1>3, <2>1 DEF Table
  <2>3. \A o \in RateKey \ gone : kept[o] = clean.windows[o] OBVIOUS
  <2> HIDE DEF kept, k, clean
  <2>4. [kept EXCEPT ![k] = x] \in [RateKey -> RateWindow] BY <2>2
  <2>5. /\ keep(x).windows = [kept EXCEPT ![k] = x]
        /\ keep(x) \in Table(RateKey, RateWindow)
    BY <1>3, <2>4 DEF Table
  <2>6. \A o \in RateKey : [kept EXCEPT ![k] = x][o] =
          IF o = k THEN x ELSE kept[o]
    BY <2>2
  <2> QED BY <1>2, <2>3, <2>5, <2>6
<1>9. evicted' = evicted \cup gone BY <1>6
<1>10. win.count \in Nat /\ LimitOf(k) \in Nat
  BY <1>5, LimitNat DEF RateWindow
<1>11. CASE AtLimit(win, LimitOf(k)) /\ rates' = keep(win) /\ passed' = passed
  <2>1. win.count >= LimitOf(k) BY <1>11 DEF AtLimit
  <2>2. /\ rates' \in Table(RateKey, RateWindow)
        /\ rates'.windows[k] = win
        /\ \A o \in RateKey \ gone :
             o # k => rates'.windows[o] = clean.windows[o]
    <3> HIDE DEF win, clean, kept, keep, k
    <3> QED BY <1>5, <1>8, <1>11
  <2> HIDE DEF win, clean, kept, keep, k
  <2>3. passed' = passed BY <1>11
  <2>4. /\ k \in RateKey /\ clean.windows[k] \in RateWindow
        /\ evicted \subseteq evicted' /\ evicted' \subseteq RateKey
        /\ \A o \in RateKey \ evicted' : o # k =>
                 /\ rates'.windows[o] = clean.windows[o]
                 /\ passed'[o] = passed[o]
    BY <1>1, <1>2, <1>4, <1>7, <1>9, <2>2, <2>3
  <2> QED BY <1>1, <2>1, <2>2, <2>3, <2>4 DEF win, clean, k
<1>12. CASE /\ ~AtLimit(win, LimitOf(k))
            /\ rates' = keep([win EXCEPT !.count = @ + 1])
            /\ passed' = [passed EXCEPT ![k] = Append(@, now)]
  <2> DEFINE new == [win EXCEPT !.count = @ + 1]
  <2>1. win.count < LimitOf(k) BY <1>10, <1>12 DEF AtLimit
  <2>2. new \in RateWindow
    <3> HIDE DEF win
    <3> QED BY <1>5 DEF RateWindow
  <2>3. /\ rates' \in Table(RateKey, RateWindow)
        /\ rates'.windows[k] = new
        /\ \A o \in RateKey \ gone :
             o # k => rates'.windows[o] = clean.windows[o]
    <3>1. rates' = keep(new) BY <1>12
    <3> HIDE DEF win, clean, kept, keep, k, new
    <3> QED BY <1>8, <2>2, <3>1
  <2>4. /\ passed' \in [RateKey -> Seq(Nat)]
        /\ passed'[k] = Append(passed[k], now)
        /\ \A o \in RateKey : o # k => passed'[o] = passed[o]
    <3> HIDE DEF win, clean, kept, keep, k, new
    <3>1. passed[k] \in Seq(Nat) BY <1>1, <1>2
    <3>2. Append(passed[k], now) \in Seq(Nat) BY <1>1, <3>1
    <3> QED BY <1>1, <1>2, <1>12, <3>2
  <2> HIDE DEF win, clean, kept, keep, k, new
  <2>5. /\ k \in RateKey /\ clean.windows[k] \in RateWindow
        /\ evicted \subseteq evicted' /\ evicted' \subseteq RateKey
        /\ \A o \in RateKey \ evicted' : o # k =>
                 /\ rates'.windows[o] = clean.windows[o]
                 /\ passed'[o] = passed[o]
    BY <1>1, <1>2, <1>4, <1>7, <1>9, <2>3, <2>4
  <2> QED BY <2>1, <2>3, <2>4, <2>5 DEF win, clean, k, new
<1> QED BY <1>6, <1>11, <1>12

-----------------------------------------------------------------------------
(***************************************************************************)
(* What a wrong token does to the windows of the failure tracker.          *)
(***************************************************************************)
Ended(old) == ~old.on \/ (old.until # 0 /\ ~Cooling(old))
Counting(old) == (IF Ended(old) THEN 0 ELSE old.failed) + 1
Recorded(old) ==
  IF old.on /\ Cooling(old)
  THEN [old EXCEPT !.seen = now]
  ELSE [on |-> TRUE, seen |-> now,
        failed |-> IF TooMany(Counting(old)) THEN 0 ELSE Counting(old),
        until |-> IF TooMany(Counting(old)) THEN now + Cooldown ELSE 0]

(***************************************************************************)
(* record_failure makes a window of a window.                              *)
(***************************************************************************)
LEMMA RecordedType ==
  ASSUME now \in Nat, NEW old \in FailureWindow
  PROVE  Recorded(old) \in FailureWindow
<1>1. Counting(old) \in Nat BY DEF Counting, FailureWindow
<1>2. Cooldown \in Nat BY Constants
<1> QED BY <1>1, <1>2 DEF Recorded, FailureWindow

(***************************************************************************)
(* What record_failure does to the windows: the peer's own counts the      *)
(* failure or begins the cooldown; every other is cleaned or evicted.      *)
(***************************************************************************)
LEMMA RecordShape ==
  ASSUME TypeOK, NEW w \in Worker, RecordFailure(w), req[w].peer \in Peer
  PROVE  LET p == req[w].peer
         IN /\ evicted' \subseteq RateKey /\ evicted \subseteq evicted'
            /\ failures' \in Table(Peer, FailureWindow)
            /\ tried' \in [Peer -> Seq(Nat)]
            /\ \A o \in Peer : o # p =>
                 \/ /\ failures'.windows[o] = CleanFailures.windows[o]
                    /\ tried'[o] = tried[o]
                 \/ failures'.windows[o] = NoFailure /\ tried'[o] = <<>>
            /\ failures'.windows[p] = Recorded(CleanFailures.windows[p])
            /\ tried'[p] = Append(tried[p], now)
<1> DEFINE p == req[w].peer
           clean == CleanFailures
           new == Recorded(clean.windows[p])
<1>1. /\ now \in Nat /\ tried \in [Peer -> Seq(Nat)]
      /\ evicted \subseteq RateKey /\ p \in Peer
  BY DEF TypeOK
<1>2. clean \in Table(Peer, FailureWindow) BY CleanFailuresShape
<1>3. clean.windows[p] \in FailureWindow /\ DOMAIN clean.windows = Peer
  BY <1>1, <1>2 DEF Table
<1>4. new \in FailureWindow BY <1>1, <1>3, RecordedType
<1>5. PICK gone \in Victims(clean, p) :
        LET kept == [o \in Peer |-> IF o \in gone THEN NoFailure
                                    ELSE clean.windows[o]]
        IN /\ evicted' = evicted \cup gone
           /\ tried' = [o \in Peer |-> CASE o = p -> Append(tried[o], now)
                                       [] o \in gone -> <<>>
                                       [] OTHER -> tried[o]]
           /\ failures' = [clean EXCEPT !.windows = [kept EXCEPT ![p] = new]]
  BY DEF RecordFailure, Recorded, Counting, Ended
<1>6. gone \subseteq Peer /\ p \notin gone BY <1>3, <1>5, VictimsShape
<1> DEFINE kept == [o \in Peer |-> IF o \in gone THEN NoFailure
                                   ELSE clean.windows[o]]
<1>7. evicted' \subseteq RateKey /\ evicted \subseteq evicted'
  BY <1>1, <1>5, <1>6 DEF RateKey
<1>8. /\ failures' = [clean EXCEPT !.windows = [kept EXCEPT ![p] = new]]
      /\ kept \in [Peer -> FailureWindow]
      /\ \A o \in Peer :
           kept[o] = IF o \in gone THEN NoFailure ELSE clean.windows[o]
  <2>1. NoFailure \in FailureWindow BY DEF NoFailure, FailureWindow
  <2>2. \A o \in Peer : clean.windows[o] \in FailureWindow BY <1>2 DEF Table
  <2>3. kept \in [Peer -> FailureWindow]
    <3> HIDE DEF clean, p, new
    <3> QED BY <2>1, <2>2
  <2> QED BY <1>5, <2>3
<1>9. tried' = [o \in Peer |-> CASE o = p -> Append(tried[o], now)
                               [] o \in gone -> <<>>
                               [] OTHER -> tried[o]]
  BY <1>5
<1> HIDE DEF kept, clean, p, new
<1>10. /\ failures' \in Table(Peer, FailureWindow)
       /\ failures'.windows = [kept EXCEPT ![p] = new]
  BY <1>1, <1>2, <1>4, <1>8 DEF Table
<1>11. \A o \in Peer :
         failures'.windows[o] = IF o = p THEN new ELSE kept[o]
  <2>1. kept \in [Peer -> FailureWindow] BY <1>8
  <2>2. failures'.windows = [kept EXCEPT ![p] = new] BY <1>10
  <2> QED
    <3> SUFFICES ASSUME NEW o \in Peer
                 PROVE  failures'.windows[o] = IF o = p THEN new ELSE kept[o]
      OBVIOUS
    <3>1. failures'.windows[o] = [kept EXCEPT ![p] = new][o] BY <2>2
    <3> QED BY <2>1, <3>1
<1>12. tried'[p] = Append(tried[p], now) BY <1>1, <1>6, <1>9
<1>13. \A o \in Peer : o # p =>
         tried'[o] = IF o \in gone THEN <<>> ELSE tried[o]
  BY <1>9
<1>14. tried' \in [Peer -> Seq(Nat)]
  <2>1. \A o \in Peer : Append(tried[o], now) \in Seq(Nat)
                        /\ <<>> \in Seq(Nat) /\ tried[o] \in Seq(Nat)
    BY <1>1
  <2> QED BY <1>9, <2>1
<1>15. \A o \in Peer : o # p =>
         \/ failures'.windows[o] = clean.windows[o] /\ tried'[o] = tried[o]
         \/ failures'.windows[o] = NoFailure /\ tried'[o] = <<>>
  BY <1>8, <1>11, <1>13
<1>16. failures'.windows[p] = new BY <1>1, <1>11
<1> QED BY <1>7, <1>10, <1>12, <1>14, <1>15, <1>16 DEF p, clean, new

-----------------------------------------------------------------------------
(***************************************************************************)
(* Types.                                                                  *)
(***************************************************************************)
LEMMA RequestType ==
  /\ NoReq \in Request
  /\ \A r \in Request :
       /\ r.peer \in Peer \cup {NoPeer} /\ r.cred \in Nat /\ r.new \in Nat
       /\ \A pc \in {"idle", "cooldown", "token", "record", "reset", "persist",
                     "swap", "forget"} : [r EXCEPT !.pc = pc] \in Request
<1>1. NoReq \in Request BY DEF NoReq, Request
<1>2. ASSUME NEW r \in Request,
             NEW pc \in {"idle", "cooldown", "token", "record", "reset",
                         "persist", "swap", "forget"}
      PROVE  [r EXCEPT !.pc = pc] \in Request
  BY DEF Request
<1> QED BY ZenonT(60), <1>1, <1>2 DEF Request

(***************************************************************************)
(* A step of a request keeps the requests typed.                           *)
(***************************************************************************)
LEMMA StepType ==
  ASSUME TypeOK, NEW w \in Worker,
         \/ req' = [req EXCEPT ![w] = NoReq]
         \/ \E pc \in {"idle", "cooldown", "token", "record", "reset",
                       "persist", "swap", "forget"} :
              req' = [req EXCEPT ![w].pc = pc]
  PROVE  req' \in [Worker -> Request]
<1>1. req \in [Worker -> Request] BY DEF TypeOK
<1>2. CASE req' = [req EXCEPT ![w] = NoReq]
  BY <1>1, <1>2, RequestType
<1>3. ASSUME NEW pc \in {"idle", "cooldown", "token", "record", "reset",
                         "persist", "swap", "forget"},
             req' = [req EXCEPT ![w].pc = pc]
      PROVE  req' \in [Worker -> Request]
  <2>1. [req[w] EXCEPT !.pc = pc] \in Request BY <1>1, RequestType
  <2>2. req' = [req EXCEPT ![w] = [req[w] EXCEPT !.pc = pc]] BY <1>3
  <2> QED BY <1>1, <2>1, <2>2
<1> QED BY <1>2, <1>3

\* Whose request it is, is known as long as it is not answered.
PeerKnown == \A w \in Worker : req[w].pc # "idle" => req[w].peer \in Peer

(***************************************************************************)
(* Every step keeps the types.                                             *)
(***************************************************************************)
LEMMA TypeStep ==
  ASSUME TypeOK, PeerKnown, [Next]_vars
  PROVE  TypeOK'
<1>0. /\ now \in Nat /\ asked \in Nat /\ up \in BOOLEAN /\ torn \in BOOLEAN
      /\ rates \in Table(RateKey, RateWindow)
      /\ failures \in Table(Peer, FailureWindow)
      /\ token \in Nat /\ file \in Nat /\ issued \in Nat /\ told \in Nat
      /\ req \in [Worker -> Request] /\ traffic \in Traffics
      /\ passed \in [RateKey -> Seq(Nat)] /\ tried \in [Peer -> Seq(Nat)]
      /\ evicted \subseteq RateKey
  BY DEF TypeOK, Table
<1> SUFFICES /\ now' \in Nat /\ asked' \in Nat /\ up' \in BOOLEAN
             /\ torn' \in BOOLEAN
             /\ rates' \in Table(RateKey, RateWindow)
             /\ failures' \in Table(Peer, FailureWindow)
             /\ token' \in Nat /\ file' \in Nat /\ issued' \in Nat
             /\ told' \in Nat
             /\ req' \in [Worker -> Request] /\ traffic' \in Traffics
             /\ passed' \in [RateKey -> Seq(Nat)]
             /\ tried' \in [Peer -> Seq(Nat)]
             /\ evicted' \subseteq RateKey
  BY DEF TypeOK, Table
<1>f. \A f \in Table(Peer, FailureWindow), p \in Peer, x \in FailureWindow :
        [f EXCEPT !.windows[p] = x] \in Table(Peer, FailureWindow)
  BY DEF Table
<1>n. /\ NoFailure \in FailureWindow /\ NoRate \in RateWindow
      /\ \A t \in Nat : [windows |-> [k \in RateKey |-> NoRate], cleaned |-> t]
                         \in Table(RateKey, RateWindow)
      /\ \A t \in Nat : [windows |-> [p \in Peer |-> NoFailure], cleaned |-> t]
                         \in Table(Peer, FailureWindow)
      /\ [failures EXCEPT !.windows = [p \in Peer |-> NoFailure]]
            \in Table(Peer, FailureWindow)
      /\ [k \in RateKey |-> <<>>] \in [RateKey -> Seq(Nat)]
      /\ [p \in Peer |-> <<>>] \in [Peer -> Seq(Nat)]
  <2>1. NoFailure \in FailureWindow BY DEF NoFailure, FailureWindow
  <2>2. NoRate \in RateWindow BY DEF NoRate, RateWindow
  <2>3. <<>> \in Seq(Nat) OBVIOUS
  <2> QED BY <1>0, <2>1, <2>2, <2>3 DEF Table
<1>a. ASSUME NEW w \in Worker, NEW p \in Peer, NEW kind \in traffic,
             Arrive(w, p, kind)
      PROVE  TypeOK'
  <2>1. /\ rates' \in Table(RateKey, RateWindow)
        /\ passed' \in [RateKey -> Seq(Nat)] /\ evicted' \subseteq RateKey
    BY <1>a, ArriveShape
  <2>2. /\ UNCHANGED <<now, traffic, failures, token, file, issued, told, torn,
                       up, tried>>
        /\ asked' = asked + 1
    BY <1>a DEF Arrive, fixed, tokens
  <2>3. req' \in [Worker -> Request]
    <3> DEFINE cred == IF kind \in {"admin", "rotate"} THEN token ELSE 0
               r == [pc |-> "cooldown", peer |-> p, kind |-> kind,
                     cred |-> cred, new |-> 0]
    <3>1. req' = req \/ req' = [req EXCEPT ![w] = r]
      BY <1>a, Zenon DEF Arrive
    <3>2. r \in Request
      <4>1. kind \in {"admin", "guess", "rotate", "read"}
        BY <1>0, AccessAssumption
      <4>2. cred \in Nat BY <1>0
      <4> HIDE DEF cred
      <4> QED BY <4>1, <4>2 DEF Request
    <3> HIDE DEF r
    <3> QED BY <1>0, <3>1, <3>2
  <2> QED BY <1>0, <2>1, <2>2, <2>3 DEF TypeOK, Table
<1>b. ASSUME NEW w \in Worker, InCooldown(w)
      PROVE  TypeOK'
  <2> DEFINE p == req[w].peer
             clean == CleanFailures
             win == clean.windows[p]
  <2>1. p \in Peer BY <1>b DEF InCooldown, PeerKnown
  <2>2. clean \in Table(Peer, FailureWindow) BY CleanFailuresShape
  <2>3. win \in FailureWindow BY <2>1, <2>2 DEF Table
  <2>4. /\ [win EXCEPT !.seen = now, !.until = 0, !.failed = 0] \in FailureWindow
        /\ [win EXCEPT !.seen = now] \in FailureWindow
    <3> HIDE DEF win
    <3> QED BY <1>0, <2>3 DEF FailureWindow
  <2>5. \/ failures' = clean
        \/ failures' = [clean EXCEPT !.windows[p] =
             [win EXCEPT !.seen = now, !.until = 0, !.failed = 0]]
        \/ failures' = [clean EXCEPT !.windows[p] = [win EXCEPT !.seen = now]]
    BY <1>b DEF InCooldown
  <2>6. req' = [req EXCEPT ![w] = NoReq] \/ req' = [req EXCEPT ![w].pc = "token"]
    BY <1>b DEF InCooldown, Answer, Goto
  <2>7. UNCHANGED <<now, traffic, rates, token, file, issued, told, torn, asked,
                    up, passed, tried, evicted>>
    BY <1>b DEF InCooldown, fixed, tokens
  <2>8. failures' \in Table(Peer, FailureWindow)
    <3> HIDE DEF win, clean, p
    <3> QED BY <1>f, <2>1, <2>2, <2>4, <2>5
  <2>9. req' \in [Worker -> Request] BY <2>6, StepType
  <2> QED BY <1>0, <2>7, <2>8, <2>9 DEF TypeOK, Table
<1>c. ASSUME NEW w \in Worker, CheckToken(w)
      PROVE  TypeOK'
  <2>1. \/ req' = [req EXCEPT ![w] = NoReq]
        \/ req' = [req EXCEPT ![w].pc = "reset"]
        \/ req' = [req EXCEPT ![w].pc = "record"]
    BY <1>c DEF CheckToken, Answer, Goto
  <2>2. req' \in [Worker -> Request] BY <2>1, StepType
  <2>3. UNCHANGED <<now, traffic, rates, failures, token, file, issued, told,
                    torn, asked, up, passed, tried, evicted>>
    BY <1>c DEF CheckToken, fixed, tokens
  <2> QED BY <1>0, <2>2, <2>3 DEF TypeOK, Table
<1>d. ASSUME NEW w \in Worker, RecordFailure(w)
      PROVE  TypeOK'
  <2>1. req[w].peer \in Peer BY <1>d DEF RecordFailure, PeerKnown
  <2>2. /\ evicted' \subseteq RateKey
        /\ failures' \in Table(Peer, FailureWindow)
        /\ tried' \in [Peer -> Seq(Nat)]
    BY <1>d, <2>1, RecordShape
  <2>3. req' = [req EXCEPT ![w] = NoReq] BY <1>d DEF RecordFailure, Answer
  <2>4. UNCHANGED <<now, traffic, rates, token, file, issued, told, torn, asked,
                    up, passed>>
    BY <1>d DEF RecordFailure, fixed, tokens
  <2>5. req' \in [Worker -> Request] BY <2>3, StepType
  <2> QED BY <1>0, <2>2, <2>4, <2>5 DEF TypeOK, Table
<1>e. ASSUME NEW w \in Worker, Authenticated(w)
      PROVE  TypeOK'
  <2>1. req[w].peer \in Peer BY <1>e DEF Authenticated, PeerKnown
  <2>2. failures' \in Table(Peer, FailureWindow)
    BY <1>0, <1>e, <1>f, <1>n, <2>1 DEF Authenticated, Reset
  <2>3. tried' \in [Peer -> Seq(Nat)]
    <3>1. <<>> \in Seq(Nat) OBVIOUS
    <3> QED BY <1>0, <1>e, <2>1, <3>1 DEF Authenticated
  <2>4. req' = [req EXCEPT ![w] = NoReq] \/ req' = [req EXCEPT ![w].pc = "persist"]
    BY <1>e DEF Authenticated, Answer, Goto
  <2>5. req' \in [Worker -> Request] BY <2>4, StepType
  <2>6. UNCHANGED <<now, traffic, rates, token, file, issued, told, torn, asked,
                    up, passed, evicted>>
    BY <1>e DEF Authenticated, fixed, tokens
  <2> QED BY <1>0, <2>2, <2>3, <2>5, <2>6 DEF TypeOK, Table
<1>g. ASSUME NEW w \in Worker, Persist(w)
      PROVE  TypeOK'
  <2>1. /\ issued' = issued + 1 /\ file' \in {file, 0, issued'}
        /\ torn' \in BOOLEAN
        /\ \/ req' = [req EXCEPT ![w] = NoReq]
           \/ req' = [req EXCEPT ![w].pc = "swap", ![w].new = issued']
    BY <1>0, <1>g DEF Persist, Answer
  <2>2. req' \in [Worker -> Request]
    <3>1. CASE req' = [req EXCEPT ![w] = NoReq] BY <3>1, StepType
    <3>2. CASE req' = [req EXCEPT ![w].pc = "swap", ![w].new = issued']
      <4> DEFINE r == [req[w] EXCEPT !.pc = "swap", !.new = issued']
      <4>1. r \in Request
        <5>1. req[w] \in Request /\ issued' \in Nat BY <1>0, <2>1
        <5> QED BY <5>1 DEF Request
      <4>2. req' = [req EXCEPT ![w] = r] BY <1>0, <3>2
      <4> HIDE DEF r
      <4> QED BY <1>0, <4>1, <4>2
    <3> QED BY <2>1, <3>1, <3>2
  <2>3. UNCHANGED <<now, traffic, rates, failures, token, asked, up, passed,
                    tried, evicted, told>>
    BY <1>g DEF Persist, fixed
  <2> QED BY <1>0, <2>1, <2>2, <2>3 DEF TypeOK, Table
<1>h. ASSUME NEW w \in Worker, Swap(w)
      PROVE  TypeOK'
  <2>1. token' = req[w].new /\ torn' \in BOOLEAN
        /\ req' = [req EXCEPT ![w].pc = "forget"]
    BY <1>0, <1>h DEF Swap, Goto
  <2>2. req' \in [Worker -> Request] BY <2>1, StepType
  <2>3. token' \in Nat BY <1>0, <2>1, RequestType
  <2>4. UNCHANGED <<now, traffic, rates, failures, file, issued, asked, up,
                    passed, tried, evicted, told>>
    BY <1>h DEF Swap, fixed
  <2> QED BY <1>0, <2>1, <2>2, <2>3, <2>4 DEF TypeOK, Table
<1>i. ASSUME NEW w \in Worker, Forget(w)
      PROVE  TypeOK'
  <2>1. req' = [req EXCEPT ![w] = NoReq] BY <1>i DEF Forget, Answer
  <2>2. req' \in [Worker -> Request] BY <2>1, StepType
  <2>3. told' \in Nat BY <1>0, <1>i, RequestType DEF Forget
  <2>4. /\ failures' = [failures EXCEPT !.windows = [p \in Peer |-> NoFailure]]
        /\ tried' = [p \in Peer |-> <<>>]
        /\ UNCHANGED <<now, traffic, rates, token, file, issued, asked, up,
                       passed, evicted, torn>>
    BY <1>i DEF Forget, fixed
  <2> QED BY <1>0, <1>n, <2>2, <2>3, <2>4 DEF TypeOK, Table
<1>j. CASE Tick
  BY <1>0, <1>j DEF Tick, tokens, TypeOK, Table
<1>k. CASE Stop
  <2>1. /\ UNCHANGED <<now, traffic, rates, failures, token, asked, passed,
                       tried, evicted, told>>
        /\ req' = [w \in Worker |-> NoReq]
    BY <1>k DEF Stop, fixed
  <2>2. /\ up' \in BOOLEAN /\ torn' \in BOOLEAN
        /\ issued' \in Nat /\ file' \in Nat
    <3>1. up' \in BOOLEAN /\ torn' \in BOOLEAN BY <1>k DEF Stop
    <3>2. \/ UNCHANGED <<file, issued>>
          \/ issued' = issued + 1 /\ file' \in {0, issued'}
      BY <1>k DEF Stop
    <3> QED BY <1>0, <3>1, <3>2
  <2>3. req' \in [Worker -> Request] BY <2>1, RequestType
  <2> QED BY <1>0, <2>1, <2>2, <2>3 DEF TypeOK, Table
<1>l. CASE Start
  <2>1. LoadToken \in Nat BY <1>0 DEF LoadToken
  <2>2. /\ UNCHANGED <<now, traffic, req, asked, evicted>>
        /\ up' = TRUE /\ torn' = FALSE
        /\ token' = LoadToken /\ file' = LoadToken
        /\ issued' \in {LoadToken, issued} /\ told' \in {LoadToken, told}
        /\ rates' = [windows |-> [k \in RateKey |-> NoRate], cleaned |-> now]
        /\ failures' = [windows |-> [p \in Peer |-> NoFailure], cleaned |-> now]
        /\ passed' = [k \in RateKey |-> <<>>]
        /\ tried' = [p \in Peer |-> <<>>]
    BY <1>l DEF Start, fixed
  <2>3. /\ rates' \in Table(RateKey, RateWindow)
        /\ failures' \in Table(Peer, FailureWindow)
        /\ passed' \in [RateKey -> Seq(Nat)] /\ tried' \in [Peer -> Seq(Nat)]
    BY <1>0, <1>n, <2>2
  <2> QED BY <1>0, <2>1, <2>2, <2>3 DEF TypeOK, Table
<1>m. CASE UNCHANGED vars
  BY <1>0, <1>m DEF vars, TypeOK, Table
<1> QED
  BY <1>a, <1>b, <1>c, <1>d, <1>e, <1>g, <1>h, <1>i, <1>j, <1>k, <1>l, <1>m,
     <1>0
  DEF Next, TypeOK, Table

-----------------------------------------------------------------------------
(***************************************************************************)
(* How the requests move.                                                  *)
(***************************************************************************)
Moves(w, from, to) ==
  /\ req[w].pc = from /\ req'[w].pc \in to
  /\ req'[w].pc = "idle" \/ req'[w].peer = req[w].peer
  /\ \A v \in Worker \ {w} : req'[v] = req[v]

(***************************************************************************)
(* An answered request is gone; no other moves.                            *)
(***************************************************************************)
LEMMA AnswerMoves ==
  ASSUME TypeOK, NEW w \in Worker, Answer(w)
  PROVE  Moves(w, req[w].pc, {"idle"})
BY DEF TypeOK, Answer, Moves, NoReq

(***************************************************************************)
(* A request that goes on keeps its peer; no other moves.                  *)
(***************************************************************************)
LEMMA GotoMoves ==
  ASSUME TypeOK, NEW w \in Worker, NEW pc, Goto(w, pc)
  PROVE  Moves(w, req[w].pc, {pc})
<1>1. req \in [Worker -> Request] /\ req[w] \in Request BY DEF TypeOK
<1>2. /\ req' = [req EXCEPT ![w] = [req[w] EXCEPT !.pc = pc]]
  BY DEF Goto
<1>3. req'[w] = [req[w] EXCEPT !.pc = pc] BY <1>1, <1>2
<1>4. \A v \in Worker \ {w} : req'[v] = req[v] BY <1>1, <1>2
<1>5. req'[w].pc = pc /\ req'[w].peer = req[w].peer
  BY <1>1, <1>3 DEF Request
<1> QED BY <1>4, <1>5 DEF Moves

(***************************************************************************)
(* Which request a step moves, from where and to where.                    *)
(***************************************************************************)
LEMMA StepMoves ==
  ASSUME TypeOK, NEW w \in Worker
  PROVE  /\ \A p \in Peer, kind \in traffic : Arrive(w, p, kind) =>
              /\ up /\ req[w].pc = "idle"
              /\ req' = req \/ (req'[w].pc = "cooldown" /\ req'[w].peer = p)
              /\ \A v \in Worker \ {w} : req'[v] = req[v]
         /\ InCooldown(w) => Moves(w, "cooldown", {"idle", "token"})
         /\ CheckToken(w) => Moves(w, "token", {"idle", "reset", "record"})
         /\ RecordFailure(w) => Moves(w, "record", {"idle"})
         /\ Authenticated(w) => Moves(w, "reset", {"idle", "persist"})
         /\ Persist(w) => /\ Moves(w, "persist", {"idle", "swap"})
                          /\ req'[w].pc = "swap" => req'[w].new = issued'
         /\ Swap(w) => /\ Moves(w, "swap", {"forget"})
                       /\ req'[w].new = req[w].new
         /\ Forget(w) => Moves(w, "forget", {"idle"})
<1>0. req \in [Worker -> Request] /\ req[w] \in Request BY DEF TypeOK
<1>1. ASSUME NEW p \in Peer, NEW kind \in traffic, Arrive(w, p, kind)
      PROVE  /\ up /\ req[w].pc = "idle"
             /\ req' = req \/ (req'[w].pc = "cooldown" /\ req'[w].peer = p)
             /\ \A v \in Worker \ {w} : req'[v] = req[v]
  <2> DEFINE cred == IF kind \in {"admin", "rotate"} THEN token ELSE 0
             r == [pc |-> "cooldown", peer |-> p, kind |-> kind,
                   cred |-> cred, new |-> 0]
  <2>1. req' = req \/ req' = [req EXCEPT ![w] = r]
    BY <1>1, Zenon DEF Arrive
  <2>2. r.pc = "cooldown" /\ r.peer = p OBVIOUS
  <2>3. up /\ req[w].pc = "idle" BY <1>1 DEF Arrive
  <2> HIDE DEF r
  <2> QED BY <1>0, <2>1, <2>2, <2>3
<1>2. InCooldown(w) => Moves(w, "cooldown", {"idle", "token"})
  <2> SUFFICES ASSUME InCooldown(w) PROVE Moves(w, "cooldown", {"idle", "token"})
    OBVIOUS
  <2>1. req[w].pc = "cooldown" /\ (Answer(w) \/ Goto(w, "token"))
    BY DEF InCooldown
  <2> QED BY <2>1, AnswerMoves, GotoMoves DEF Moves
<1>3. CheckToken(w) => Moves(w, "token", {"idle", "reset", "record"})
  <2> SUFFICES ASSUME CheckToken(w)
               PROVE  Moves(w, "token", {"idle", "reset", "record"})
    OBVIOUS
  <2>1. /\ req[w].pc = "token"
        /\ Answer(w) \/ Goto(w, "reset") \/ Goto(w, "record")
    BY DEF CheckToken
  <2> QED BY <2>1, AnswerMoves, GotoMoves DEF Moves
<1>4. RecordFailure(w) => Moves(w, "record", {"idle"})
  BY AnswerMoves DEF RecordFailure
<1>5. Authenticated(w) => Moves(w, "reset", {"idle", "persist"})
  <2> SUFFICES ASSUME Authenticated(w)
               PROVE  Moves(w, "reset", {"idle", "persist"})
    OBVIOUS
  <2>1. req[w].pc = "reset" /\ (Answer(w) \/ Goto(w, "persist"))
    BY DEF Authenticated
  <2> QED BY <2>1, AnswerMoves, GotoMoves DEF Moves
<1>6. Persist(w) => /\ Moves(w, "persist", {"idle", "swap"})
                    /\ req'[w].pc = "swap" => req'[w].new = issued'
  <2> SUFFICES ASSUME Persist(w)
               PROVE  /\ Moves(w, "persist", {"idle", "swap"})
                      /\ req'[w].pc = "swap" => req'[w].new = issued'
    OBVIOUS
  <2>1. /\ req[w].pc = "persist"
        /\ \/ Answer(w)
           \/ req' = [req EXCEPT ![w].pc = "swap", ![w].new = issued']
    BY DEF Persist
  <2>2. CASE Answer(w) BY <2>1, <2>2, AnswerMoves DEF Moves
  <2>3. CASE req' = [req EXCEPT ![w].pc = "swap", ![w].new = issued']
    <3> DEFINE r == [req[w] EXCEPT !.pc = "swap", !.new = issued']
    <3>1. r.pc = "swap" /\ r.new = issued' /\ r.peer = req[w].peer
      BY <1>0 DEF Request
    <3>2. req' = [req EXCEPT ![w] = r] BY <1>0, <2>3
    <3> HIDE DEF r
    <3>3. req'[w] = r /\ \A v \in Worker \ {w} : req'[v] = req[v]
      BY <1>0, <3>2
    <3> QED BY <2>1, <3>1, <3>3 DEF Moves
  <2> QED BY <2>1, <2>2, <2>3
<1>7. Swap(w) => /\ Moves(w, "swap", {"forget"})
                 /\ req'[w].new = req[w].new
  <2> SUFFICES ASSUME Swap(w)
               PROVE  /\ Moves(w, "swap", {"forget"})
                      /\ req'[w].new = req[w].new
    OBVIOUS
  <2>1. req[w].pc = "swap" /\ Goto(w, "forget") BY DEF Swap
  <2>2. req'[w] = [req[w] EXCEPT !.pc = "forget"] BY <1>0, <2>1 DEF Goto
  <2>3. req'[w].new = req[w].new BY <1>0, <2>2 DEF Request
  <2> QED BY <2>1, <2>3, GotoMoves
<1>8. Forget(w) => Moves(w, "forget", {"idle"})
  BY AnswerMoves DEF Forget
<1> QED BY <1>1, <1>2, <1>3, <1>4, <1>5, <1>6, <1>7, <1>8

(***************************************************************************)
(* Every step keeps the peer of a request known.                           *)
(***************************************************************************)
LEMMA PeerStep ==
  ASSUME TypeOK, PeerKnown, [Next]_vars
  PROVE  PeerKnown'
<1>1. ASSUME NEW w \in Worker, NEW from, NEW to, Moves(w, from, to),
             from # "idle"
      PROVE  PeerKnown'
  <2>1. req[w].peer \in Peer BY <1>1 DEF PeerKnown, Moves
  <2> QED BY <1>1, <2>1 DEF PeerKnown, Moves
<1>2. ASSUME NEW w \in Worker, NEW p \in Peer, NEW kind \in traffic,
             Arrive(w, p, kind)
      PROVE  PeerKnown'
  <2>1. /\ req' = req \/ (req'[w].pc = "cooldown" /\ req'[w].peer = p)
        /\ \A v \in Worker \ {w} : req'[v] = req[v]
    BY <1>2, StepMoves
  <2> QED BY <2>1 DEF PeerKnown
<1>3. ASSUME NEW w \in Worker,
             \/ InCooldown(w) \/ CheckToken(w) \/ RecordFailure(w)
             \/ Authenticated(w) \/ Persist(w) \/ Swap(w) \/ Forget(w)
      PROVE  PeerKnown'
  BY <1>1, <1>3, StepMoves
<1>4. CASE Tick \/ Start \/ UNCHANGED vars
  BY <1>4 DEF Tick, Start, vars, PeerKnown
<1>5. CASE Stop
  BY <1>5 DEF Stop, PeerKnown, NoReq
<1> QED BY <1>2, <1>3, <1>4, <1>5 DEF Next

-----------------------------------------------------------------------------
(***************************************************************************)
(* The token: at most one rotation is past the file, and where it stands   *)
(* tells how file, server and owner differ.                                *)
(***************************************************************************)
Changing == {w \in Worker : req[w].pc \in {"swap", "forget"}}

RotationInv ==
  /\ ~up => \A w \in Worker : req[w].pc = "idle"
  /\ ~torn =>
       /\ file # 0
       /\ \A w, v \in Changing : w = v
       /\ \A w \in Worker :
            /\ req[w].pc = "swap" => file = req[w].new /\ token = told
            /\ req[w].pc = "forget" => file = req[w].new /\ token = file
       /\ Changing = {} => file = told /\ token = told

(***************************************************************************)
(* A step of a request that is not past the file of a rotation changes     *)
(* nothing of the tokens.                                                  *)
(***************************************************************************)
LEMMA RotationQuiet ==
  ASSUME RotationInv, NEW w \in Worker, up, up' = up,
         UNCHANGED <<token, file, told, torn>>,
         req[w].pc \notin {"swap", "forget"},
         req'[w].pc \notin {"swap", "forget"},
         \A v \in Worker \ {w} : req'[v] = req[v]
  PROVE  RotationInv'
<1>1. Changing' = Changing BY DEF Changing
<1> QED BY <1>1 DEF RotationInv

(***************************************************************************)
(* Every step keeps file, server and owner in the order of the rotation.   *)
(***************************************************************************)
LEMMA RotationStep ==
  ASSUME TypeOK, RotationInv, [Next]_vars
  PROVE  RotationInv'
<1>1. ASSUME NEW w \in Worker, NEW p \in Peer, NEW kind \in traffic,
             Arrive(w, p, kind)
      PROVE  RotationInv'
  <2>1. /\ up /\ req[w].pc = "idle"
        /\ req' = req \/ req'[w].pc = "cooldown"
        /\ \A v \in Worker \ {w} : req'[v] = req[v]
    BY <1>1, StepMoves
  <2>2. UNCHANGED <<up, token, file, told, torn>>
    BY <1>1 DEF Arrive, tokens
  <2> QED BY <2>1, <2>2, RotationQuiet
<1>2. ASSUME NEW w \in Worker, req[w].pc # "idle" PROVE up
  BY <1>2 DEF RotationInv
<1>3. ASSUME NEW w \in Worker,
             \/ InCooldown(w) \/ CheckToken(w) \/ RecordFailure(w)
             \/ Authenticated(w)
      PROVE  RotationInv'
  <2>1. UNCHANGED <<up, token, file, told, torn>>
    BY <1>3 DEF InCooldown, CheckToken, RecordFailure, Authenticated, tokens
  <2>2. /\ req[w].pc \notin {"idle", "swap", "forget"}
        /\ req'[w].pc \notin {"swap", "forget"}
        /\ \A v \in Worker \ {w} : req'[v] = req[v]
    BY <1>3, StepMoves DEF Moves
  <2> QED BY <1>2, <2>1, <2>2, RotationQuiet
<1>4. ASSUME NEW w \in Worker, Persist(w)
      PROVE  RotationInv'
  <2>1. /\ req[w].pc = "persist" /\ req'[w].pc \in {"idle", "swap"}
        /\ req'[w].pc = "swap" => req'[w].new = issued'
        /\ \A v \in Worker \ {w} : req'[v] = req[v]
    BY <1>4, StepMoves DEF Moves
  <2>2. UNCHANGED <<up, token, told>> BY <1>4 DEF Persist
  <2>3. up BY <1>2, <2>1
  <2>4. CASE torn' = TRUE BY <2>2, <2>3, <2>4 DEF RotationInv
  <2>5. CASE /\ file' = issued' /\ torn' = (torn \/ Rotating # {w})
             /\ req' = [req EXCEPT ![w].pc = "swap", ![w].new = issued']
    <3> SUFFICES ASSUME ~torn' PROVE RotationInv'
      BY <2>2, <2>3 DEF RotationInv
    <3>1. ~torn /\ Rotating = {w} BY <2>5
    <3>2. Changing = {} BY <2>1, <3>1 DEF Rotating, Changing
    <3>3. req'[w].pc = "swap"
      <4>1. req \in [Worker -> Request] /\ req[w] \in Request BY DEF TypeOK
      <4>2. req'[w] = [req[w] EXCEPT !.pc = "swap", !.new = issued']
        BY <2>5, <4>1
      <4> QED BY <4>1, <4>2 DEF Request
    <3>4. \A v \in Worker \ {w} : req'[v].pc \notin {"swap", "forget"}
      BY <2>1, <3>2 DEF Changing
    <3>5. Changing' = {w} BY <3>3, <3>4 DEF Changing
    <3>6. token = told BY <3>1, <3>2 DEF RotationInv
    <3>7. file' = req'[w].new /\ file' # 0
      <4>1. issued \in Nat BY DEF TypeOK
      <4>2. issued' = issued + 1 BY <1>4 DEF Persist
      <4> QED BY <2>1, <2>5, <3>3, <4>1, <4>2
    <3> QED BY <2>2, <2>3, <3>3, <3>4, <3>5, <3>6, <3>7 DEF RotationInv
  <2> QED BY <1>4, <2>4, <2>5 DEF Persist
<1>5. ASSUME NEW w \in Worker, Swap(w)
      PROVE  RotationInv'
  <2>1. /\ req[w].pc = "swap" /\ req'[w].pc = "forget"
        /\ req'[w].new = req[w].new
        /\ \A v \in Worker \ {w} : req'[v] = req[v]
    BY <1>5, StepMoves DEF Moves
  <2>2. /\ UNCHANGED <<up, file, told>> /\ token' = req[w].new
        /\ torn' = (torn \/ Rotating # {w})
    BY <1>5 DEF Swap
  <2>3. up BY <1>2, <2>1
  <2> SUFFICES ASSUME ~torn' PROVE RotationInv'
    BY <2>2, <2>3 DEF RotationInv
  <2>4. ~torn BY <2>2
  <2>5. Changing' = Changing BY <2>1 DEF Changing
  <2>6. w \in Changing BY <2>1 DEF Changing
  <2>7. file = req[w].new /\ file # 0 /\ \A v \in Changing : v = w
    BY <2>1, <2>4, <2>6 DEF RotationInv
  <2>8. \A v \in Worker \ {w} : req'[v].pc \notin {"swap", "forget"}
    BY <2>1, <2>7 DEF Changing
  <2> QED BY <2>1, <2>2, <2>3, <2>5, <2>6, <2>7, <2>8 DEF RotationInv
<1>6. ASSUME NEW w \in Worker, Forget(w)
      PROVE  RotationInv'
  <2>1. /\ req[w].pc = "forget" /\ req'[w].pc = "idle"
        /\ \A v \in Worker \ {w} : req'[v] = req[v]
    BY <1>6, StepMoves DEF Moves
  <2>2. UNCHANGED <<up, file, token, torn>> /\ told' = req[w].new
    BY <1>6 DEF Forget
  <2>3. up BY <1>2, <2>1
  <2> SUFFICES ASSUME ~torn' PROVE RotationInv'
    BY <2>2, <2>3 DEF RotationInv
  <2>4. ~torn BY <2>2
  <2>5. w \in Changing BY <2>1 DEF Changing
  <2>6. /\ file = req[w].new /\ token = file /\ file # 0
        /\ \A v \in Changing : v = w
    BY <2>1, <2>4, <2>5 DEF RotationInv
  <2>7. \A v \in Worker : req'[v].pc \notin {"swap", "forget"}
    BY <2>1, <2>6 DEF Changing
  <2>8. Changing' = {} BY <2>7 DEF Changing
  <2> QED BY <2>2, <2>3, <2>6, <2>7, <2>8 DEF RotationInv
<1>7. CASE Tick \/ UNCHANGED vars
  <2>1. UNCHANGED <<up, req, token, file, told, torn>>
    BY <1>7 DEF Tick, tokens, vars
  <2> QED BY <2>1 DEF RotationInv, Changing
<1>8. CASE Stop
  <2>1. \A w \in Worker : req'[w].pc = "idle" BY <1>8 DEF Stop, NoReq
  <2>2. UNCHANGED <<token, told>> BY <1>8 DEF Stop
  <2> SUFFICES ASSUME ~torn' PROVE RotationInv'
    BY <2>1 DEF RotationInv
  <2>3. ~torn /\ Rotating = {} BY <1>8 DEF Stop
  <2>4. file' = file BY <1>8, <2>3 DEF Stop, Rotating
  <2>5. Changing = {} BY <2>3 DEF Rotating, Changing
  <2>6. Changing' = {} BY <2>1 DEF Changing
  <2> QED BY <2>1, <2>2, <2>3, <2>4, <2>5, <2>6 DEF RotationInv
<1>9. CASE Start
  <2>1. /\ ~up /\ up' = TRUE /\ token' = LoadToken /\ file' = LoadToken
        /\ told' = (IF Configured \/ torn THEN LoadToken ELSE told)
        /\ req' = req
    BY <1>9 DEF Start
  <2>2. \A w \in Worker : req[w].pc = "idle" BY <2>1 DEF RotationInv
  <2>3. Changing' = {} /\ Changing = {} BY <2>1, <2>2 DEF Changing
  <2>4. LoadToken # 0
    <3>1. issued \in Nat /\ file \in Nat BY DEF TypeOK
    <3> QED BY <3>1 DEF LoadToken
  <2>5. ~Configured /\ ~torn => LoadToken = told
    BY <2>3 DEF RotationInv, LoadToken
  <2> QED BY <2>1, <2>2, <2>3, <2>4, <2>5 DEF RotationInv
<1> QED BY <1>1, <1>3, <1>4, <1>5, <1>6, <1>7, <1>8, <1>9 DEF Next

-----------------------------------------------------------------------------
(***************************************************************************)
(* The rate limiter.                                                       *)
(***************************************************************************)
RateInv ==
  \A k \in RateKey \ evicted :
    RateOk(rates.windows[k], passed[k], LimitOf(k), now)

(***************************************************************************)
(* Every step keeps the windows of the rate limiter true to what was let   *)
(* through.                                                                *)
(***************************************************************************)
LEMMA RateStep ==
  ASSUME TypeOK, RateInv, [Next]_vars
  PROVE  RateInv'
<1>0. /\ now \in Nat /\ rates.windows \in [RateKey -> RateWindow]
      /\ passed \in [RateKey -> Seq(Nat)]
  BY DEF TypeOK
<1>1. ASSUME UNCHANGED <<rates, passed, evicted, now>>
      PROVE  RateInv'
  BY <1>1 DEF RateInv, RateOk
<1>2. ASSUME NEW w \in Worker, NEW p \in Peer, NEW kind \in traffic,
             Arrive(w, p, kind)
      PROVE  RateInv'
  <2> DEFINE k == KeyOf(p, kind)
             old == CleanRates.windows[k]
             win == Opened(old)
  <2>1. /\ k \in RateKey /\ old \in RateWindow
        /\ evicted \subseteq evicted'
        /\ rates'.windows \in [RateKey -> RateWindow]
        /\ \A o \in RateKey \ evicted' : o # k =>
             /\ rates'.windows[o] = CleanRates.windows[o]
             /\ passed'[o] = passed[o]
        /\ \/ /\ win.count >= LimitOf(k)
              /\ rates'.windows[k] = win /\ passed' = passed
           \/ /\ win.count < LimitOf(k)
              /\ rates'.windows[k] = [win EXCEPT !.count = @ + 1]
              /\ passed'[k] = Append(passed[k], now)
    BY <1>2, ArriveShape DEF Table
  <2>2. now' = now BY <1>2 DEF Arrive, fixed
  <2>3. ASSUME NEW o \in RateKey \ evicted
        PROVE  /\ RateOk(CleanRates.windows[o], passed[o], LimitOf(o), now)
               /\ passed[o] \in Seq(Nat) /\ LimitOf(o) \in Nat
    <3>1. RateOk(rates.windows[o], passed[o], LimitOf(o), now)
      BY DEF RateInv
    <3>2. /\ passed[o] \in Seq(Nat) /\ LimitOf(o) \in Nat
          /\ rates.windows[o] \in RateWindow
      BY <1>0, LimitNat
    <3>3. \/ CleanRates.windows[o] = rates.windows[o]
          \/ /\ CleanRates.windows[o] = NoRate
             /\ now - rates.windows[o].seen >= Stale
      BY CleanRatesShape
    <3> QED BY <1>0, <3>1, <3>2, <3>3, RateDropped
  <2> HIDE DEF k, old
  <2>4. SUFFICES ASSUME NEW o \in RateKey \ evicted'
                 PROVE  RateOk(rates'.windows[o], passed'[o], LimitOf(o), now)
    BY <2>2 DEF RateInv, RateOk
  <2>5. o \in RateKey \ evicted BY <2>1
  <2>6. CASE o # k
    BY <2>1, <2>3, <2>5, <2>6
  <2>7. CASE o = k
    <3>1. /\ RateOk(old, passed[k], LimitOf(k), now)
          /\ passed[k] \in Seq(Nat) /\ LimitOf(k) \in Nat
      BY <2>3, <2>5, <2>7 DEF old
    <3>2. win \in RateWindow BY <1>0, <2>1, OpenedType
    <3>3. /\ RateOk(win, passed[k], LimitOf(k), now)
          /\ win.on /\ win.seen = now /\ now - win.started < Window
      <4>1. CASE ~old.on \/ now - old.started >= Window
        <5>1. win = [on |-> TRUE, started |-> now, seen |-> now, count |-> 0]
          BY <4>1 DEF Opened
        <5>2. RateOk(win, passed[k], LimitOf(k), now)
          BY <1>0, <2>1, <3>1, <4>1, <5>1, RateOpened
        <5> QED BY <1>0, <5>1, <5>2, Constants
      <4>2. CASE ~(~old.on \/ now - old.started >= Window)
        <5>1. win = [old EXCEPT !.seen = now] /\ old.on
          BY <2>1, <4>2 DEF Opened, RateWindow
        <5>2. RateOk(win, passed[k], LimitOf(k), now)
          BY <1>0, <2>1, <3>1, <5>1, RateSeen
        <5>3. /\ win.on = old.on /\ win.seen = now /\ win.started = old.started
              /\ old.started \in Nat
          BY <2>1, <5>1 DEF RateWindow
        <5> QED BY <1>0, <4>2, <5>1, <5>2, <5>3, Constants
      <4> QED BY <4>1, <4>2
    <3> HIDE DEF win
    <3>4. CASE rates'.windows[k] = win /\ passed' = passed
      BY <2>7, <3>3, <3>4
    <3>5. CASE /\ win.count < LimitOf(k)
               /\ rates'.windows[k] = [win EXCEPT !.count = @ + 1]
               /\ passed'[k] = Append(passed[k], now)
      <4>1. RateOk([win EXCEPT !.count = @ + 1], Append(passed[k], now),
                   LimitOf(k), now)
        BY <1>0, <3>1, <3>2, <3>3, <3>5, RatePassed
      <4> QED BY <2>7, <3>5, <4>1
    <3> QED BY <2>1, <3>4, <3>5
  <2> QED BY <2>6, <2>7
<1>3. ASSUME NEW w \in Worker, InCooldown(w)
      PROVE  RateInv'
  BY <1>1, <1>3 DEF InCooldown, fixed
<1>4. ASSUME NEW w \in Worker, CheckToken(w)
      PROVE  RateInv'
  BY <1>1, <1>4 DEF CheckToken, fixed
<1>5. ASSUME NEW w \in Worker, RecordFailure(w)
      PROVE  RateInv'
  <2>1. UNCHANGED <<rates, passed, now>> BY <1>5 DEF RecordFailure, fixed
  <2>2. evicted \subseteq evicted' BY <1>5 DEF RecordFailure
  <2> QED BY <2>1, <2>2 DEF RateInv, RateOk
<1>6. ASSUME NEW w \in Worker,
             Authenticated(w) \/ Persist(w) \/ Swap(w) \/ Forget(w)
      PROVE  RateInv'
  BY <1>1, <1>6 DEF Authenticated, Persist, Swap, Forget, fixed
<1>7. CASE Tick
  <2>1. UNCHANGED <<rates, passed, evicted>> /\ now' = now + 1
    BY <1>7 DEF Tick
  <2>2. SUFFICES ASSUME NEW o \in RateKey \ evicted
                 PROVE  RateOk(rates.windows[o], passed[o], LimitOf(o), now + 1)
    BY <2>1 DEF RateInv, RateOk
  <2>3. /\ RateOk(rates.windows[o], passed[o], LimitOf(o), now)
        /\ rates.windows[o] \in RateWindow /\ passed[o] \in Seq(Nat)
        /\ LimitOf(o) \in Nat
    BY <1>0, LimitNat DEF RateInv
  <2> QED BY <1>0, <2>3, RateTick
<1>8. CASE Stop
  BY <1>1, <1>8 DEF Stop, fixed
<1>9. CASE Start
  <2>1. \A k \in RateKey : ~rates'.windows[k].on /\ passed'[k] = <<>>
    BY <1>9 DEF Start, NoRate
  <2> QED BY <2>1 DEF RateInv, RateOk
<1>10. CASE UNCHANGED vars
  BY <1>1, <1>10 DEF vars
<1> QED
  BY <1>2, <1>3, <1>4, <1>5, <1>6, <1>7, <1>8, <1>9, <1>10 DEF Next

-----------------------------------------------------------------------------
(***************************************************************************)
(* The failure tracker.                                                    *)
(***************************************************************************)
InFlight(p) ==
  {w \in Worker : req[w].peer = p /\ req[w].pc \in {"token", "record"}}
GuessInv ==
  \A p \in Peer : GuessOk(failures.windows[p], tried[p],
                         Cardinality(InFlight(p)), now)

(***************************************************************************)
(* Requests in progress can be counted.                                    *)
(***************************************************************************)
LEMMA Flights ==
  ASSUME NEW S, S \subseteq Worker
  PROVE  /\ IsFiniteSet(S) /\ Cardinality(S) \in Nat
         /\ Cardinality(S) <= Others + 1
         /\ \A w \in S : /\ Cardinality(S \ {w}) \in Nat
                        /\ Cardinality(S \ {w}) + 1 = Cardinality(S)
         /\ \A R : R \subseteq S => /\ Cardinality(R) \in Nat
                                 /\ Cardinality(R) <= Cardinality(S)
<1>1. IsFiniteSet(Worker) BY AccessAssumption
<1>2. IsFiniteSet(S) /\ Cardinality(S) \in Nat
  BY <1>1, FS_Subset, FS_CardinalityType
<1>3. Cardinality(S) <= Others + 1 BY <1>1, FS_Subset, Constants
<1>4. ASSUME NEW R, R \subseteq S
      PROVE  /\ IsFiniteSet(R) /\ Cardinality(R) \in Nat
             /\ Cardinality(R) <= Cardinality(S)
  BY <1>2, <1>4, FS_Subset, FS_CardinalityType
<1>5. ASSUME NEW w \in S
      PROVE  /\ Cardinality(S \ {w}) \in Nat
             /\ Cardinality(S \ {w}) + 1 = Cardinality(S)
  <2>1. Cardinality(S \ {w}) = Cardinality(S) - 1
    BY <1>2, FS_RemoveElement
  <2>2. Cardinality(S \ {w}) \in Nat BY <1>4
  <2> QED BY <1>2, <2>1, <2>2
<1> QED BY <1>2, <1>3, <1>4, <1>5

(***************************************************************************)
(* How a step of a request changes which of a peer's requests are past the *)
(* cooldown check.                                                         *)
(***************************************************************************)
LEMMA FlightsHere ==
  ASSUME NEW p \in Peer
  PROVE  /\ InFlight(p) \subseteq Worker /\ InFlight(p)' \subseteq Worker
         /\ \A w \in Worker : \A from, to : Moves(w, from, to) =>
              /\ InFlight(p)' \subseteq InFlight(p) \cup {w}
              /\ req[w].peer # p \/ to \cap {"token", "record"} = {} =>
                   InFlight(p)' \subseteq InFlight(p) \ {w}
              /\ from \in {"token", "record"} =>
                   InFlight(p)' \subseteq InFlight(p)
BY DEF InFlight, Moves

(***************************************************************************)
(* Cleanup keeps what is known of a failure window.                        *)
(***************************************************************************)
LEMMA CleanGuess ==
  ASSUME TypeOK, GuessInv, NEW p \in Peer
  PROVE  /\ GuessOk(CleanFailures.windows[p], tried[p],
                    Cardinality(InFlight(p)), now)
         /\ CleanFailures.windows[p] \in FailureWindow
<1>1. /\ now \in Nat /\ failures.windows[p] \in FailureWindow
      /\ tried[p] \in Seq(Nat)
  BY DEF TypeOK
<1>2. Cardinality(InFlight(p)) \in Nat BY Flights DEF InFlight
<1>3. GuessOk(failures.windows[p], tried[p], Cardinality(InFlight(p)), now)
  BY DEF GuessInv
<1>4. /\ CleanFailures.windows[p] \in FailureWindow
      /\ \/ CleanFailures.windows[p] = failures.windows[p]
         \/ /\ CleanFailures.windows[p] = NoFailure
            /\ now - failures.windows[p].seen >= Stale
            /\ failures.windows[p].until <= now
  BY CleanFailuresShape DEF Table
<1> QED BY <1>1, <1>2, <1>3, <1>4, GuessDropped

\* The peers a step only takes requests from.
(***************************************************************************)
(* A step that leaves a peer's window and failures alone and takes none of *)
(* its requests past the check keeps what is known of it.                  *)
(***************************************************************************)
LEMMA GuessKept ==
  ASSUME TypeOK, TypeOK', NEW p \in Peer, now' = now,
         NEW win \in FailureWindow, NEW s \in Seq(Nat),
         GuessOk(win, s, Cardinality(InFlight(p)), now),
         failures'.windows[p] = win, tried'[p] = s,
         InFlight(p)' \subseteq InFlight(p)
  PROVE  GuessOk(failures'.windows[p], tried'[p],
                 Cardinality(InFlight(p)'), now')
<1>1. now \in Nat BY DEF TypeOK
<1>2. /\ Cardinality(InFlight(p)) \in Nat /\ Cardinality(InFlight(p)') \in Nat
      /\ Cardinality(InFlight(p)') <= Cardinality(InFlight(p))
  BY Flights, FlightsHere
<1>3. GuessOk(win, s, Cardinality(InFlight(p)'), now)
  BY <1>1, <1>2, GuessFewer
<1> QED BY <1>3

(***************************************************************************)
(* Every step keeps the windows of the failure tracker true to the         *)
(* failures.                                                               *)
(***************************************************************************)
LEMMA GuessStep ==
  ASSUME TypeOK, TypeOK', PeerKnown, GuessInv, [Next]_vars
  PROVE  GuessInv'
<1>0. /\ now \in Nat /\ now' \in Nat
      /\ failures.windows \in [Peer -> FailureWindow]
      /\ failures'.windows \in [Peer -> FailureWindow]
      /\ tried \in [Peer -> Seq(Nat)] /\ tried' \in [Peer -> Seq(Nat)]
  BY DEF TypeOK
<1> SUFFICES ASSUME NEW p \in Peer
             PROVE  GuessOk(failures'.windows[p], tried'[p],
                            Cardinality(InFlight(p)'), now')
  BY DEF GuessInv, GuessOk, Count, Hits, Last, PastEnd, InFlight
<1> DEFINE Goal == GuessOk(failures'.windows[p], tried'[p],
                           Cardinality(InFlight(p)'), now')
<1>1. GuessOk(failures.windows[p], tried[p], Cardinality(InFlight(p)), now)
  BY DEF GuessInv
<1>2. /\ failures.windows[p] \in FailureWindow /\ tried[p] \in Seq(Nat)
      /\ Cardinality(InFlight(p)) \in Nat /\ Cardinality(InFlight(p)') \in Nat
  BY <1>0, Flights, FlightsHere
<1>3. ASSUME UNCHANGED <<failures, tried, now>>,
             InFlight(p)' \subseteq InFlight(p)
      PROVE  Goal
  BY <1>1, <1>2, <1>3, GuessKept
<1>4. ASSUME failures'.windows[p] = NoFailure, tried'[p] = <<>>
      PROVE  Goal
  BY <1>0, <1>2, <1>4, GuessForgotten
<1>5. ASSUME NEW w \in Worker, NEW q \in Peer, NEW kind \in traffic,
             Arrive(w, q, kind)
      PROVE  Goal
  <2>1. UNCHANGED <<failures, tried, now>> BY <1>5 DEF Arrive, fixed
  <2>2. /\ req' = req \/ req'[w].pc = "cooldown"
        /\ \A v \in Worker \ {w} : req'[v] = req[v]
    BY <1>5, StepMoves
  <2>3. InFlight(p)' \subseteq InFlight(p) BY <2>2 DEF InFlight
  <2> QED BY <1>3, <2>1, <2>3
<1>6. ASSUME NEW w \in Worker, InCooldown(w)
      PROVE  Goal
  <2> DEFINE q == req[w].peer
             clean == CleanFailures
             win == clean.windows[q]
  <2>1. q \in Peer BY <1>6 DEF InCooldown, PeerKnown
  <2>2. /\ GuessOk(clean.windows[p], tried[p], Cardinality(InFlight(p)), now)
        /\ clean.windows[p] \in FailureWindow
    BY CleanGuess
  <2>3. clean.windows \in [Peer -> FailureWindow]
    BY CleanFailuresShape DEF Table
  <2>4. UNCHANGED <<tried, now>> BY <1>6 DEF InCooldown, fixed
  <2>5. Moves(w, "cooldown", {"idle", "token"}) BY <1>6, StepMoves
  <2>6. CASE p # q
    <3>1. failures'.windows[p] = clean.windows[p]
      <4>1. \/ failures' = clean
            \/ \E x : failures' = [clean EXCEPT !.windows[q] = x]
        BY <1>6 DEF InCooldown
      <4>2. clean \in Table(Peer, FailureWindow) BY CleanFailuresShape
      <4> HIDE DEF clean, q
      <4> QED BY <2>1, <2>6, <4>1, <4>2 DEF Table
    <3>2. InFlight(p)' \subseteq InFlight(p) BY <2>5, <2>6, FlightsHere
    <3> QED BY <1>2, <2>2, <2>4, <3>1, <3>2, GuessKept
  <2>7. CASE p = q
    <3>1. failures'.windows[p] =
            IF ~win.on THEN win
            ELSE IF win.until # 0 /\ ~Cooling(win)
                 THEN [win EXCEPT !.seen = now, !.until = 0, !.failed = 0]
                 ELSE [win EXCEPT !.seen = now]
      <4>1. failures' = IF ~win.on THEN clean ELSE
              [clean EXCEPT !.windows[q] =
                 IF win.until # 0 /\ ~Cooling(win)
                 THEN [win EXCEPT !.seen = now, !.until = 0, !.failed = 0]
                 ELSE [win EXCEPT !.seen = now]]
        BY <1>6 DEF InCooldown
      <4>2. clean \in Table(Peer, FailureWindow) BY CleanFailuresShape
      <4> DEFINE x == IF win.until # 0 /\ ~Cooling(win)
                      THEN [win EXCEPT !.seen = now, !.until = 0, !.failed = 0]
                      ELSE [win EXCEPT !.seen = now]
      <4>3. CASE ~win.on BY <2>7, <4>1, <4>3
      <4>4. CASE win.on
        <5>1. failures' = [clean EXCEPT !.windows[q] = x] BY <4>1, <4>4
        <5> HIDE DEF x, clean, q, win
        <5>2. failures'.windows[q] = x BY <2>1, <4>2, <5>1 DEF Table
        <5> QED BY <2>7, <4>4, <5>2 DEF x
      <4> QED BY <4>3, <4>4
    <3>2. win \in FailureWindow BY <2>1, <2>3
    <3>3. GuessOk(win, tried[p], Cardinality(InFlight(p)), now)
      BY <2>2, <2>7
    <3>4. win.on /\ Cooling(win) => InFlight(p)' \subseteq InFlight(p)
      <4>1. win.on /\ Cooling(win) => Answer(w) BY <1>6 DEF InCooldown
      <4>2. Answer(w) => Moves(w, req[w].pc, {"idle"}) BY AnswerMoves
      <4>3. Moves(w, req[w].pc, {"idle"}) => InFlight(p)' \subseteq InFlight(p)
        BY FlightsHere
      <4> QED BY <4>1, <4>2, <4>3
    <3> HIDE DEF win, clean, q
    <3>5. CASE ~win.on
      <4>1. win.until = 0 BY <3>3, <3>5 DEF GuessOk
      <4>2. GuessOk(win, tried[p], Cardinality(InFlight(p)'), now)
        BY <1>0, <1>2, <3>2, <3>3, <4>1, GuessMore
      <4> QED BY <2>4, <3>1, <3>5, <4>2
    <3>6. CASE win.on /\ win.until # 0 /\ ~Cooling(win)
      <4>1. win.until <= now BY <1>0, <3>2, <3>6 DEF Cooling, FailureWindow
      <4>2. GuessOk([win EXCEPT !.seen = now, !.until = 0, !.failed = 0],
                    tried[p], Cardinality(InFlight(p)'), now)
        BY <1>0, <1>2, <3>2, <3>3, <3>6, <4>1, GuessOver
      <4> QED BY <2>4, <3>1, <3>6, <4>2
    <3>7. CASE win.on /\ win.until = 0
      <4>1. GuessOk(win, tried[p], Cardinality(InFlight(p)'), now)
        BY <1>0, <1>2, <3>2, <3>3, <3>7, GuessMore
      <4>2. GuessOk([win EXCEPT !.seen = now], tried[p],
                    Cardinality(InFlight(p)'), now)
        BY <1>0, <1>2, <3>2, <4>1, GuessSeen
      <4> QED BY <2>4, <3>1, <3>7, <4>2
    <3>8. CASE win.on /\ Cooling(win)
      <4>1. GuessOk([win EXCEPT !.seen = now], tried[p],
                    Cardinality(InFlight(p)), now)
        BY <1>0, <1>2, <3>2, <3>3, GuessSeen
      <4>2. [win EXCEPT !.seen = now] \in FailureWindow
        BY <1>0, <3>2 DEF FailureWindow
      <4>3. failures'.windows[p] = [win EXCEPT !.seen = now]
        BY <3>1, <3>8
      <4> QED BY <1>2, <2>4, <3>4, <3>8, <4>1, <4>2, <4>3, GuessKept
    <3> QED BY <3>5, <3>6, <3>7, <3>8
  <2> QED BY <2>6, <2>7
<1>7. ASSUME NEW w \in Worker, CheckToken(w)
      PROVE  Goal
  <2>1. UNCHANGED <<failures, tried, now>> BY <1>7 DEF CheckToken, fixed
  <2>2. Moves(w, "token", {"idle", "reset", "record"}) BY <1>7, StepMoves
  <2>3. InFlight(p)' \subseteq InFlight(p) BY <2>2, FlightsHere
  <2> QED BY <1>3, <2>1, <2>3
<1>8. ASSUME NEW w \in Worker, RecordFailure(w)
      PROVE  Goal
  <2> DEFINE q == req[w].peer
             old == CleanFailures.windows[p]
             n == Cardinality(InFlight(p))
             m == Cardinality(InFlight(p)')
  <2>1. q \in Peer BY <1>8 DEF RecordFailure, PeerKnown
  <2>2. /\ p # q =>
             \/ failures'.windows[p] = old /\ tried'[p] = tried[p]
             \/ failures'.windows[p] = NoFailure /\ tried'[p] = <<>>
        /\ p = q => /\ failures'.windows[p] = Recorded(old)
                    /\ tried'[p] = Append(tried[p], now)
    BY <1>8, <2>1, RecordShape
  <2>3. Moves(w, "record", {"idle"}) /\ now' = now
    BY <1>8, StepMoves DEF RecordFailure, fixed
  <2>4. GuessOk(old, tried[p], n, now) /\ old \in FailureWindow
    BY CleanGuess
  <2>5. InFlight(p)' \subseteq InFlight(p) \ {w} BY <2>3, FlightsHere
  <2>6. CASE p # q
    BY <1>2, <1>4, <2>2, <2>3, <2>4, <2>5, <2>6, GuessKept
  <2>7. CASE p = q
    <3>1. w \in InFlight(p) BY <2>3, <2>7 DEF InFlight, Moves
    <3>2. /\ n \in Nat /\ Cardinality(InFlight(p) \ {w}) \in Nat
          /\ Cardinality(InFlight(p) \ {w}) + 1 = n /\ n <= Others + 1
      BY <3>1, Flights, FlightsHere
    <3>3. m \in Nat /\ m + 1 <= n
      <4>1. InFlight(p) \ {w} \subseteq Worker BY FlightsHere
      <4>2. m \in Nat /\ m <= Cardinality(InFlight(p) \ {w})
        BY <2>5, <4>1, Flights
      <4> QED BY <3>2, <4>2
    <3> HIDE DEF m, n
    <3> DEFINE l == n - 1
    <3>4. l \in Nat /\ l + 1 = n /\ m <= l /\ l <= Others
      BY <3>2, <3>3, Constants
    <3>5. GuessOk(Recorded(old), Append(tried[p], now), l, now)
      <4>1. CASE old.on /\ Cooling(old)
        <5>1. old.until # 0 BY <1>0, <2>4, <4>1 DEF Cooling, FailureWindow
        <5>2. Recorded(old) = [old EXCEPT !.seen = now] BY <4>1 DEF Recorded
        <5> HIDE DEF l, old
        <5> QED BY <1>0, <1>2, <2>4, <3>2, <3>4, <4>1, <5>1, <5>2, GuessLate
      <4>2. CASE ~(old.on /\ Cooling(old))
        <5> DEFINE k == Counting(old)
        <5>1. Recorded(old) =
                [on |-> TRUE, seen |-> now,
                 failed |-> IF TooMany(k) THEN 0 ELSE k,
                 until |-> IF TooMany(k) THEN now + Cooldown ELSE 0]
          BY <4>2 DEF Recorded
        <5> HIDE DEF l
        <5>2. /\ Count(tried[p], Last(now, Cooldown)) \in Nat
              /\ old.failed \in Nat /\ old.until \in Nat /\ old.on \in BOOLEAN
              /\ Len(tried[p]) \in Nat
          BY <1>2, <2>4, HitsFinite DEF FailureWindow
        <5>3. /\ \A i \in DOMAIN tried[p] : tried[p][i] <= now
              /\ ~old.on => old.until = 0 /\ old.failed = 0
              /\ old.failed < AUTH_FAILURE_THRESHOLD
              /\ old.failed <= Len(tried[p])
              /\ old.until = 0 => Count(tried[p], Last(now, Cooldown))
                                    <= old.failed + Others
          BY <2>4 DEF GuessOk
        <5> HIDE DEF old
        <5>4. /\ k \in Nat /\ k > 0 /\ k <= AUTH_FAILURE_THRESHOLD
              /\ k <= Len(tried[p]) + 1
          BY <5>2, <5>3, Constants DEF Counting
        <5>5. Count(tried[p], Last(now, Cooldown)) < k + Others
          <6>1. CASE Ended(old) /\ old.until # 0
            <7>1. old.on /\ old.until <= now /\ k = 1
              BY <1>0, <5>2, <5>3, <6>1 DEF Ended, Cooling, Counting
            <7>2. Count(tried[p], Last(now, Cooldown)) <= Others
              BY <1>0, <1>2, <2>4, <3>2, <3>4, <6>1, <7>1, GuessOver
            <7> QED BY <5>2, <7>1, <7>2, Constants
          <6>2. CASE old.until = 0
            <7>1. k = old.failed + 1
              BY <5>2, <5>3, <6>2 DEF Ended, Counting
            <7> QED BY <5>2, <5>3, <6>2, <7>1, Constants
          <6>3. CASE ~Ended(old) /\ old.until # 0
            BY <4>2, <6>3 DEF Ended
          <6> QED BY <6>1, <6>2, <6>3
        <5> HIDE DEF k
        <5> QED BY <1>0, <1>2, <3>4, <5>1, <5>3, <5>4, <5>5, GuessCounted
      <4> QED BY <4>1, <4>2
    <3>6. Recorded(old) \in FailureWindow BY <1>0, <2>4, RecordedType
    <3>7. Append(tried[p], now) \in Seq(Nat) BY <1>0, <1>2
    <3> HIDE DEF l, old
    <3>8. GuessOk(Recorded(old), Append(tried[p], now), m, now)
      BY <1>0, <3>3, <3>4, <3>5, <3>6, <3>7, GuessFewer
    <3> QED BY <2>2, <2>3, <2>7, <3>8 DEF m
  <2> QED BY <2>6, <2>7
<1>9. ASSUME NEW w \in Worker, Authenticated(w)
      PROVE  Goal
  <2> DEFINE q == req[w].peer
  <2>1. q \in Peer BY <1>9 DEF Authenticated, PeerKnown
  <2>2. /\ failures' = [failures EXCEPT !.windows[q] = NoFailure]
        /\ tried' = [tried EXCEPT ![q] = <<>>] /\ now' = now
    BY <1>9 DEF Authenticated, Reset, fixed
  <2>3. Moves(w, "reset", {"idle", "persist"}) BY <1>9, StepMoves
  <2>4. InFlight(p)' \subseteq InFlight(p) BY <2>3, FlightsHere
  <2> HIDE DEF q
  <2>5. CASE p = q
    <3>1. failures'.windows[p] = NoFailure /\ tried'[p] = <<>>
      BY <1>0, <2>1, <2>2, <2>5 DEF TypeOK
    <3> QED BY <1>4, <3>1
  <2>6. CASE p # q
    <3>1. failures'.windows[p] = failures.windows[p] /\ tried'[p] = tried[p]
      BY <1>0, <2>1, <2>2, <2>6 DEF TypeOK
    <3> QED BY <1>1, <1>2, <2>2, <2>4, <3>1, GuessKept
  <2> QED BY <2>5, <2>6
<1>10. ASSUME NEW w \in Worker, Persist(w)
       PROVE  Goal
  <2>1. UNCHANGED <<failures, tried, now>> BY <1>10 DEF Persist, fixed
  <2>2. Moves(w, "persist", {"idle", "swap"}) BY <1>10, StepMoves
  <2>3. InFlight(p)' \subseteq InFlight(p) BY <2>2, FlightsHere
  <2> QED BY <1>3, <2>1, <2>3
<1>11. ASSUME NEW w \in Worker, Swap(w)
       PROVE  Goal
  <2>1. UNCHANGED <<failures, tried, now>> BY <1>11 DEF Swap, fixed
  <2>2. Moves(w, "swap", {"forget"}) BY <1>11, StepMoves
  <2>3. InFlight(p)' \subseteq InFlight(p) BY <2>2, FlightsHere
  <2> QED BY <1>3, <2>1, <2>3
<1>12. ASSUME NEW w \in Worker, Forget(w)
       PROVE  Goal
  <2>1. failures'.windows[p] = NoFailure /\ tried'[p] = <<>>
    BY <1>12 DEF Forget, TypeOK
  <2> QED BY <1>4, <2>1
<1>13. CASE Tick
  <2>1. UNCHANGED <<failures, tried, req>> /\ now' = now + 1
    BY <1>13 DEF Tick
  <2>2. Cardinality(InFlight(p)') = Cardinality(InFlight(p))
    BY <2>1 DEF InFlight
  <2> QED BY <1>0, <1>1, <1>2, <2>1, <2>2, GuessTick
<1>14. CASE Stop
  <2>1. UNCHANGED <<failures, tried, now>> BY <1>14 DEF Stop, fixed
  <2>2. InFlight(p)' = {} BY <1>14 DEF Stop, InFlight, NoReq
  <2> QED BY <1>3, <2>1, <2>2
<1>15. CASE Start
  <2>1. failures'.windows[p] = NoFailure /\ tried'[p] = <<>>
    BY <1>15 DEF Start
  <2> QED BY <1>4, <2>1
<1>16. CASE UNCHANGED vars
  <2>1. UNCHANGED <<failures, tried, now>> /\ InFlight(p)' = InFlight(p)
    BY <1>16 DEF vars, InFlight
  <2> QED BY <1>3, <2>1
<1> QED
  BY <1>5, <1>6, <1>7, <1>8, <1>9, <1>10, <1>11, <1>12, <1>13, <1>14, <1>15,
     <1>16
  DEF Next

-----------------------------------------------------------------------------
(***************************************************************************)
(* What follows for every behaviour.                                       *)
(***************************************************************************)
IInv == TypeOK /\ PeerKnown /\ RotationInv /\ RateInv /\ GuessInv

(***************************************************************************)
(* The invariant holds when the server starts for the first time.          *)
(***************************************************************************)
LEMMA InitInv == Init => IInv
<1> SUFFICES ASSUME Init PROVE IInv OBVIOUS
<1>1. TypeOK
  <2>1. /\ NoRate \in RateWindow /\ NoFailure \in FailureWindow
        /\ NoReq \in Request
    BY DEF NoRate, RateWindow, NoFailure, FailureWindow, NoReq, Request
  <2>2. <<>> \in Seq(Nat) OBVIOUS
  <2> QED BY <2>1, <2>2 DEF Init, TypeOK
<1>2. \A w \in Worker : req[w].pc = "idle" BY DEF Init, NoReq
<1>3. PeerKnown BY <1>2 DEF PeerKnown
<1>4. RotationInv BY <1>2 DEF Init, RotationInv, Changing
<1>5. RateInv BY DEF Init, NoRate, RateInv, RateOk
<1>6. GuessInv
  <2> SUFFICES ASSUME NEW p \in Peer
               PROVE  GuessOk(failures.windows[p], tried[p],
                              Cardinality(InFlight(p)), now)
    BY DEF GuessInv
  <2>1. failures.windows[p] = NoFailure /\ tried[p] = <<>> /\ now \in Nat
    BY DEF Init
  <2>2. Cardinality(InFlight(p)) \in Nat BY Flights DEF InFlight
  <2> QED BY <2>1, <2>2, GuessForgotten
<1> QED BY <1>1, <1>3, <1>4, <1>5, <1>6 DEF IInv

(***************************************************************************)
(* Every step keeps the invariant.                                         *)
(***************************************************************************)
LEMMA StepInv == IInv /\ [Next]_vars => IInv'
<1> SUFFICES ASSUME IInv, [Next]_vars PROVE IInv' OBVIOUS
<1>1. TypeOK /\ PeerKnown /\ RotationInv /\ RateInv /\ GuessInv BY DEF IInv
<1>2. TypeOK' BY <1>1, TypeStep
<1>3. PeerKnown' BY <1>1, PeerStep
<1>4. RotationInv' BY <1>1, RotationStep
<1>5. RateInv' BY <1>1, RateStep
<1>6. GuessInv' BY <1>1, <1>2, GuessStep
<1> QED BY <1>2, <1>3, <1>4, <1>5, <1>6 DEF IInv

(***************************************************************************)
(* The inductive invariant of the module: types, rotation, rate windows    *)
(* and failure windows.                                                    *)
(***************************************************************************)
THEOREM Invariance == Spec => []IInv
BY InitInv, StepInv, PTL DEF Spec

(***************************************************************************)
(* Every variable keeps its type, for any number of peers, requests and    *)
(* ticks.                                                                  *)
(***************************************************************************)
THEOREM TypeCorrect == Spec => []TypeOK
<1>1. IInv => TypeOK BY DEF IInv
<1> QED BY <1>1, Invariance, PTL

(***************************************************************************)
(* rotate_admin_token_handler and the load at the next start: unless a     *)
(* rotation failed half-way or ran beside another, the file, the server    *)
(* and the owner have the same token.                                      *)
(***************************************************************************)
THEOREM TokenSurvivesHolds == Spec => []TokenSurvives
<1>1. IInv => TokenSurvives
  <2> SUFFICES ASSUME RotationInv, Rotating = {}, ~torn
               PROVE  token = told /\ file = told
    BY DEF IInv, TokenSurvives
  <2>1. Changing = {} BY DEF Rotating, Changing
  <2> QED BY <2>1 DEF RotationInv
<1> QED BY <1>1, Invariance, PTL

(***************************************************************************)
(* The failures of the last span, as a count.                              *)
(***************************************************************************)
LEMMA RecentCount ==
  ASSUME NEW s \in Seq(Nat), NEW span
  PROVE  Recent(s, span) = Count(s, Last(now, span))
<1>1. \A i \in DOMAIN s : s[i] \in Nat OBVIOUS
<1>2. {i \in DOMAIN s : now - s[i] < span} = Hits(s, Last(now, span))
  BY <1>1 DEF Hits, Last
<1> QED BY <1>2 DEF Recent, Count

(***************************************************************************)
(* is_allowed: whatever the limits, the windows and the traffic, no key    *)
(* gets more than twice its limit through in any second, unless its window *)
(* was evicted.                                                            *)
(***************************************************************************)
THEOREM RateBoundedHolds == Spec => []RateBounded
<1>1. IInv => RateBounded
  <2> SUFFICES ASSUME IInv, NEW k \in RateKey \ evicted
               PROVE  Recent(passed[k], Window) <= 2 * LimitOf(k)
    BY DEF RateBounded
  <2>1. /\ rates.windows[k] \in RateWindow /\ passed[k] \in Seq(Nat)
        /\ now \in Nat /\ LimitOf(k) \in Nat
    BY LimitNat DEF IInv, TypeOK
  <2>2. RateOk(rates.windows[k], passed[k], LimitOf(k), now)
    BY DEF IInv, RateInv
  <2>3. Count(passed[k], Last(now, Window)) <= 2 * LimitOf(k)
    BY <2>1, <2>2, RateBound
  <2> QED BY <2>1, <2>3, RecentCount
<1> QED BY <1>1, Invariance, PTL

(***************************************************************************)
(* is_in_cooldown and record_failure are taken under separate locks:       *)
(* however requests interleave between them, a peer has at most the        *)
(* threshold of wrong tokens looked at in a cooldown's length of time, and *)
(* two more for each other request in progress.                            *)
(***************************************************************************)
THEOREM GuessesBoundedHolds == Spec => []GuessesBounded
<1>1. IInv => GuessesBounded
  <2> SUFFICES ASSUME IInv, NEW p \in Peer
               PROVE  Recent(tried[p], Cooldown) <=
                        AUTH_FAILURE_THRESHOLD + 2 * (Cardinality(Worker) - 1)
    BY DEF GuessesBounded
  <2>1. /\ failures.windows[p] \in FailureWindow /\ tried[p] \in Seq(Nat)
        /\ now \in Nat /\ Cardinality(InFlight(p)) \in Nat
    BY Flights DEF IInv, TypeOK, InFlight
  <2>2. GuessOk(failures.windows[p], tried[p], Cardinality(InFlight(p)), now)
    BY DEF IInv, GuessInv
  <2>3. Count(tried[p], Last(now, Cooldown))
          <= AUTH_FAILURE_THRESHOLD + 2 * Others
    BY <2>1, <2>2, GuessBound
  <2> QED BY <2>1, <2>3, RecentCount DEF Others
<1> QED BY <1>1, Invariance, PTL

(***************************************************************************)
(* A request is refused in its cooldown check only.                        *)
(***************************************************************************)
LEMMA CauseStep ==
  ASSUME IInv, [Next]_vars, NEW w \in Worker,
         req[w].pc = "cooldown", up', req'[w].pc = "idle"
  PROVE  /\ Len(tried[req[w].peer]) >= AUTH_FAILURE_THRESHOLD
         /\ Recent(tried[req[w].peer], Cooldown) > 0
<1>0. TypeOK /\ PeerKnown /\ GuessInv BY DEF IInv
<1> DEFINE p == req[w].peer
           win == CleanFailures.windows[p]
           s == tried[p]
<1>1. InCooldown(w)
  <2>1. req' # req OBVIOUS
  <2>2. ~Tick /\ ~Stop /\ ~Start /\ ~UNCHANGED vars
    BY <2>1 DEF Tick, Stop, Start, vars
  <2>3. ASSUME NEW v \in Worker, NEW q \in Peer, NEW kind \in traffic,
               Arrive(v, q, kind)
        PROVE  FALSE
    <3>1. /\ req[v].pc = "idle" /\ \A u \in Worker \ {v} : req'[u] = req[u]
      BY <1>0, <2>3, StepMoves
    <3> QED BY <3>1
  <2>4. ASSUME NEW v \in Worker,
               \/ CheckToken(v) \/ RecordFailure(v) \/ Authenticated(v)
               \/ Persist(v) \/ Swap(v) \/ Forget(v)
        PROVE  FALSE
    <3>1. /\ req[v].pc # "cooldown"
          /\ \A u \in Worker \ {v} : req'[u] = req[u]
      BY <1>0, <2>4, StepMoves DEF Moves
    <3> QED BY <3>1
  <2>5. ASSUME NEW v \in Worker, InCooldown(v)
        PROVE  v = w
    <3>1. \A u \in Worker \ {v} : req'[u] = req[u]
      BY <1>0, <2>5, StepMoves DEF Moves
    <3> QED BY <3>1
  <2> QED BY <2>2, <2>3, <2>4, <2>5 DEF Next
<1>2. p \in Peer BY <1>0 DEF PeerKnown
<1>3. win.on /\ Cooling(win)
  <2> SUFFICES ASSUME ~(win.on /\ Cooling(win)) PROVE FALSE OBVIOUS
  <2>1. Goto(w, "token") BY <1>1 DEF InCooldown
  <2>2. req'[w].pc = "token" BY <1>0, <2>1, GotoMoves DEF Moves
  <2> QED BY <2>2
<1>4. /\ GuessOk(win, s, Cardinality(InFlight(p)), now) /\ win \in FailureWindow
  BY <1>0, <1>2, CleanGuess
<1>5. s \in Seq(Nat) /\ now \in Nat BY <1>0, <1>2 DEF TypeOK
<1>6. win.until > now /\ win.until \in Nat
  BY <1>3, <1>4 DEF Cooling, FailureWindow
<1> HIDE DEF win, s, p
<1>7. /\ Len(s) >= AUTH_FAILURE_THRESHOLD
      /\ \E i \in DOMAIN s : s[i] + Cooldown = win.until
  BY <1>4, <1>5, <1>6 DEF GuessOk
<1>8. Recent(s, Cooldown) > 0
  <2>1. PICK i \in DOMAIN s : s[i] + Cooldown = win.until BY <1>7
  <2>2. s[i] \in Nat BY <1>5
  <2>3. i \in Hits(s, Last(now, Cooldown))
    BY <1>5, <1>6, <2>1, <2>2, Constants DEF Hits, Last
  <2>4. Count(s, Last(now, Cooldown)) # 0
    BY <1>5, <2>3, HitsFinite, FS_EmptySet DEF Count
  <2>5. Count(s, Last(now, Cooldown)) > 0 BY <1>5, <2>4, HitsFinite
  <2> QED BY <1>5, <2>5, RecentCount
<1> QED BY <1>7, <1>8 DEF s, p

(***************************************************************************)
(* A refused peer showed the threshold of wrong tokens since its last      *)
(* right one, the last of them less than a cooldown ago.                   *)
(***************************************************************************)
THEOREM RefusedForCauseHolds == Spec => RefusedForCause
<1> DEFINE A == \A w \in Worker :
                  req[w].pc = "cooldown" /\ up' /\ req'[w].pc = "idle" =>
                    /\ Len(tried[req[w].peer]) >= AUTH_FAILURE_THRESHOLD
                    /\ Recent(tried[req[w].peer], Cooldown) > 0
<1>1. IInv /\ [Next]_vars => [A]_vars BY CauseStep
<1> QED BY <1>1, Invariance, PTL DEF Spec, RefusedForCause
=============================================================================
