---------------------------- MODULE AdminAccess ----------------------------
(***************************************************************************)
(* What a request meets before its handler: the rate limiter, the cooldown *)
(* after failed authentications, the admin token and the export tokens;    *)
(* and the rotation of the admin token, which changes the file and the     *)
(* running server one after the other.                                     *)
(*                                                                         *)
(* The rate limiter, the failures and the token are behind locks of their  *)
(* own, taken one after the other, so each of them is a step of a request. *)
(* Host and method checks answer without touching any state.               *)
(***************************************************************************)
EXTENDS Naturals, Sequences, FiniteSets

CONSTANTS
  Peer,             \* addresses requests come from
  Worker,           \* requests in progress at a time
  NoPeer,
  MANAGEMENT_RATE_LIMIT_PER_SECOND,
  SUBSCRIPTION_RATE_LIMIT_PER_SECOND,
  Window,           \* the second of the rate limits, in ticks
  AUTH_FAILURE_THRESHOLD,
  Cooldown,         \* AUTH_FAILURE_COOLDOWN_SECONDS, in ticks
  Stale,            \* RATE_LIMIT_ and AUTH_FAILURE_STALE_SECONDS
  CleanupInterval,  \* RATE_LIMIT_ and AUTH_FAILURE_CLEANUP_INTERVAL_SECONDS
  MAX_TRACKED_KEYS,
  Traffics,         \* kinds of requests that come together
  Configured,       \* server.admin_token is given in the configuration
  MaxTime, MaxRequests, MaxRotations

ASSUME AccessAssumption ==
  /\ NoPeer \notin Peer
  /\ IsFiniteSet(Worker) /\ Worker # {}
  /\ MANAGEMENT_RATE_LIMIT_PER_SECOND \in Nat
  /\ SUBSCRIPTION_RATE_LIMIT_PER_SECOND \in Nat
  /\ Window \in Nat \ {0} /\ AUTH_FAILURE_THRESHOLD \in Nat \ {0}
  /\ Cooldown \in Nat \ {0} /\ Stale \in Nat
  /\ Stale >= Cooldown /\ Stale >= Window   \* 300 s against 60 s and 1 s
  /\ MAX_TRACKED_KEYS \in Nat \ {0}
  /\ Configured \in BOOLEAN
  /\ Traffics \subseteq SUBSET {"admin", "guess", "rotate", "read"}

VARIABLES
  now,
  rates,      \* RateLimiterState: windows by key, last_cleanup_at
  failures,   \* AuthFailureTrackerState: windows by peer, last_cleanup_at
  token,      \* admin_token of the ServerContext; tokens are numbered
  file,       \* the admin_token file; 0 when it is empty
  issued,     \* tokens generated so far
  req,        \* the requests in progress
  traffic,    \* the kinds of this behaviour
  asked,      \* requests so far
  up,         \* the server is running
  passed,     \* when each rate key had requests let through
  tried,      \* when each peer showed a wrong token since a right one
  evicted,    \* keys and peers dropped because too many were tracked
  told,       \* the token its owner was last told of
  torn        \* a rotation failed, overlapped another or was cut short

vars == <<now, rates, failures, token, file, issued, req, traffic, asked, up,
          passed, tried, evicted, told, torn>>
tokens == <<token, file, issued, told, torn>>
fixed == <<now, traffic>>

Reads == "reads"        \* the rate key profile-read:<token> of one token
RateKey == Peer \cup {Reads}
NoReq == [pc |-> "idle", peer |-> NoPeer, kind |-> "", cred |-> 0, new |-> 0]

RateWindow == [on : BOOLEAN, started : Nat, seen : Nat, count : Nat]
FailureWindow == [on : BOOLEAN, failed : Nat, until : Nat, seen : Nat]
Request ==
  [pc : {"idle", "cooldown", "token", "record", "reset", "persist", "swap",
         "forget"},
   peer : Peer \cup {NoPeer},
   kind : {"", "admin", "guess", "rotate", "read"}, cred : Nat, new : Nat]

TypeOK ==
  /\ now \in Nat /\ asked \in Nat /\ up \in BOOLEAN /\ torn \in BOOLEAN
  /\ rates \in [windows : [RateKey -> RateWindow], cleaned : Nat]
  /\ failures \in [windows : [Peer -> FailureWindow], cleaned : Nat]
  /\ token \in Nat /\ file \in Nat /\ issued \in Nat /\ told \in Nat
  /\ req \in [Worker -> Request] /\ traffic \in Traffics
  /\ passed \in [RateKey -> Seq(Nat)] /\ tried \in [Peer -> Seq(Nat)]
  /\ evicted \subseteq RateKey

----------------------------------------------------------------------------
(***************************************************************************)
(* RateLimiter and AuthFailures keep a window for each key they have seen. *)
(***************************************************************************)
NoRate == [on |-> FALSE, started |-> 0, seen |-> 0, count |-> 0]
NoFailure == [on |-> FALSE, failed |-> 0, until |-> 0, seen |-> 0]

Tracked(t) == {k \in DOMAIN t.windows : t.windows[k].on}
Full(t) == Cardinality(Tracked(t)) >= MAX_TRACKED_KEYS
EndsEarly(w) == w.until > now + 1  \* mutant
Cooling(w) == w.until > now

\* maybe_cleanup_rate_windows and maybe_cleanup_auth_windows.
CleanupDue(t) == now - t.cleaned >= CleanupInterval \/ Full(t)
Cleaned(t, none, keep) ==
  IF ~CleanupDue(t) THEN t
  ELSE [windows |-> [k \in DOMAIN t.windows |->
          LET w == t.windows[k]
          IN IF k \in keep \/ now - w.seen < Stale THEN w ELSE none],
        cleaned |-> now]

CleanRates == Cleaned(rates, NoRate, {})
CleanFailures ==
  Cleaned(failures, NoFailure, {p \in Peer : Cooling(failures.windows[p])})

\* ensure_rate_capacity and ensure_auth_capacity: the keys one of which goes.
Oldest(t) == {k \in Tracked(t) :
                \A o \in Tracked(t) : t.windows[k].seen <= t.windows[o].seen}
Victims(t, k) ==
  IF ~t.windows[k].on /\ Full(t) THEN {{v} : v \in Oldest(t)} ELSE {{}}

----------------------------------------------------------------------------
(***************************************************************************)
(* A request arrives and passes the middlewares in order.                  *)
(***************************************************************************)
Answer(w) == req' = [req EXCEPT ![w] = NoReq]
Goto(w, pc) == req' = [req EXCEPT ![w].pc = pc]

\* The limit of rate_limit_middleware; its key is the peer of a management
\* request and the token of a read.
LimitOf(k) == IF k = Reads THEN SUBSCRIPTION_RATE_LIMIT_PER_SECOND
              ELSE MANAGEMENT_RATE_LIMIT_PER_SECOND

\* mutant
OneMore(w, limit) == w.count > limit

AtLimit(w, limit) == w.count >= limit

\* A request arrives and asks is_allowed: a management request or a rotation
\* with the admin token of that time, a guess without it, or a profile read.
Arrive(w, p, kind) ==
  LET cred == IF kind \in {"admin", "rotate"} THEN token ELSE 0
      k == IF kind = "read" THEN Reads ELSE p
      clean == CleanRates
      old == clean.windows[k]
      fresh == ~old.on \/ now - old.started >= Window
      win == [old EXCEPT !.on = TRUE, !.seen = now,
                         !.started = IF fresh THEN now ELSE @,
                         !.count = IF fresh THEN 0 ELSE @]
  IN /\ up /\ req[w].pc = "idle"
     /\ asked < MaxRequests /\ asked' = asked + 1
     /\ \E gone \in Victims(clean, k) :
          LET kept == [o \in RateKey |-> IF o \in gone THEN NoRate
                                         ELSE clean.windows[o]]
              keep(x) == [clean EXCEPT !.windows = [kept EXCEPT ![k] = x]]
          IN /\ evicted' = evicted \cup gone
             /\ IF AtLimit(win, LimitOf(k))
                THEN rates' = keep(win) /\ UNCHANGED <<passed, req>>
                ELSE /\ rates' = keep([win EXCEPT !.count = @ + 1])
                     /\ passed' = [passed EXCEPT ![k] = Append(@, now)]
                     /\ req' = [req EXCEPT ![w] =
                          [pc |-> "cooldown", peer |-> p, kind |-> kind,
                           cred |-> cred, new |-> 0]]
     /\ UNCHANGED <<fixed, failures, tokens, up, tried>>

\* is_in_cooldown: a cooldown that is over is forgotten, and so is the count.
InCooldown(w) ==
  LET p == req[w].peer
      clean == CleanFailures
      win == clean.windows[p]
  IN /\ req[w].pc = "cooldown"
     /\ failures' = IF ~win.on THEN clean ELSE
          [clean EXCEPT !.windows[p] =
             IF win.until # 0 /\ ~Cooling(win)
             THEN [win EXCEPT !.seen = now, !.until = 0, !.failed = 0]
             ELSE [win EXCEPT !.seen = now]]
     /\ IF win.on /\ Cooling(win) THEN Answer(w) ELSE Goto(w, "token")
     /\ UNCHANGED <<fixed, rates, tokens, asked, up, passed, tried, evicted>>

\* The bearer token, then the export token of a read; is_valid_export_token
\* is the subject of ExportTokens and may answer anything here.
CheckToken(w) ==
  LET r == req[w]
      right == r.cred = token
  IN /\ r.pc = "token"
     /\ \/ (right \/ r.kind = "read") /\ Goto(w, "reset")
        \/ ~right /\ r.kind = "read" /\ Answer(w)
        \/ ~right /\ Goto(w, "record")
     /\ UNCHANGED <<fixed, rates, failures, tokens, asked, up, passed, tried,
                    evicted>>

TooMany(n) == n >= AUTH_FAILURE_THRESHOLD

\* record_failure.
RecordFailure(w) ==
  LET p == req[w].peer
      clean == CleanFailures
      old == clean.windows[p]
      ended == ~old.on \/ (old.until # 0 /\ ~Cooling(old))
      n == (IF ended THEN 0 ELSE old.failed) + 1
      win == [on |-> TRUE, seen |-> now,
              failed |-> IF TooMany(n) THEN 0 ELSE n,
              until |-> IF TooMany(n) THEN now + Cooldown ELSE 0]
  IN /\ req[w].pc = "record"
     /\ \E gone \in Victims(clean, p) :
          LET kept == [o \in Peer |-> IF o \in gone THEN NoFailure
                                      ELSE clean.windows[o]]
          IN /\ evicted' = evicted \cup gone
             /\ tried' = [o \in Peer |-> CASE o = p -> Append(tried[o], now)
                                         [] o \in gone -> <<>>
                                         [] OTHER -> tried[o]]
             /\ failures' = [clean EXCEPT !.windows =
                  [kept EXCEPT ![p] = IF old.on /\ Cooling(old)
                                      THEN [old EXCEPT !.seen = now]
                                      ELSE win]]
     /\ Answer(w)
     /\ UNCHANGED <<fixed, rates, tokens, asked, up, passed>>

\* mutant
NoReset(p) == failures

\* reset.
Reset(p) == [failures EXCEPT !.windows[p] = NoFailure]

Authenticated(w) ==
  LET r == req[w] IN
  /\ r.pc = "reset"
  /\ failures' = Reset(r.peer)
  /\ tried' = [tried EXCEPT ![r.peer] = <<>>]
  /\ IF r.kind = "rotate" THEN Goto(w, "persist") ELSE Answer(w)
  /\ UNCHANGED <<fixed, rates, tokens, asked, up, passed, evicted>>

----------------------------------------------------------------------------
(***************************************************************************)
(* rotate_admin_token_handler: the file, the running server, then the      *)
(* failures.                                                               *)
(***************************************************************************)
Rotating == {w \in Worker : req[w].pc \in {"persist", "swap", "forget"}}

\* persist_admin_token; its mode may fail to be set once it is written.
Persist(w) ==
  /\ req[w].pc = "persist"
  /\ issued < MaxRotations
  /\ issued' = issued + 1
  /\ \/ /\ file' = issued' /\ torn' = (torn \/ Rotating # {w})
        /\ req' = [req EXCEPT ![w].pc = "swap", ![w].new = issued']
     \/ /\ file' \in {file, 0, issued'} /\ torn' = TRUE
        /\ Answer(w)
  /\ UNCHANGED <<fixed, rates, failures, token, asked, up, passed, tried,
                 evicted, told>>

Swap(w) ==
  /\ req[w].pc = "swap"
  /\ token' = req[w].new
  /\ torn' = (torn \/ Rotating # {w})
  /\ Goto(w, "forget")
  /\ UNCHANGED <<fixed, rates, failures, file, issued, asked, up, passed, tried,
                 evicted, told>>

\* reset_all, and the answer that carries the new token.
Forget(w) ==
  /\ req[w].pc = "forget"
  /\ failures' = [failures EXCEPT !.windows = [p \in Peer |-> NoFailure]]
  /\ tried' = [p \in Peer |-> <<>>]
  /\ told' = req[w].new
  /\ Answer(w)
  /\ UNCHANGED <<fixed, rates, token, file, issued, asked, up, passed, evicted,
                 torn>>

----------------------------------------------------------------------------
Tick ==
  /\ now < MaxTime
  /\ now' = now + 1
  /\ UNCHANGED <<rates, failures, tokens, req, traffic, asked, up, passed, tried,
                 evicted>>

\* The process ends; a file being written is left empty, old or new.
Stop ==
  /\ up /\ up' = FALSE
  /\ \/ UNCHANGED <<file, issued>>
     \/ /\ \E w \in Worker : req[w].pc = "persist"
        /\ issued < MaxRotations /\ issued' = issued + 1
        /\ file' \in {0, issued'}
  /\ torn' = (torn \/ Rotating # {})
  /\ req' = [w \in Worker |-> NoReq]
  /\ UNCHANGED <<fixed, rates, failures, token, asked, passed, tried, evicted,
                 told>>

\* mutant
StaleToken == IF file = 0 THEN issued + 1 ELSE 1

\* load_or_create_admin_token_with_override: the configured token is token 1.
LoadToken == IF Configured THEN 1 ELSE IF file = 0 THEN issued + 1 ELSE file

Start ==
  /\ ~up /\ up' = TRUE
  /\ token' = LoadToken /\ file' = LoadToken
  /\ issued' = IF LoadToken > issued THEN LoadToken ELSE issued
  /\ told' = IF Configured \/ torn THEN LoadToken ELSE told
  /\ torn' = FALSE
  /\ rates' = [windows |-> [k \in RateKey |-> NoRate], cleaned |-> now]
  /\ failures' = [windows |-> [p \in Peer |-> NoFailure], cleaned |-> now]
  /\ passed' = [k \in RateKey |-> <<>>]
  /\ tried' = [p \in Peer |-> <<>>]
  /\ UNCHANGED <<fixed, req, asked, evicted>>

Init ==
  /\ now = 0
  /\ rates = [windows |-> [k \in RateKey |-> NoRate], cleaned |-> 0]
  /\ failures = [windows |-> [p \in Peer |-> NoFailure], cleaned |-> 0]
  /\ token = 1 /\ file = 1 /\ issued = 1 /\ told = 1 /\ torn = FALSE
  /\ req = [w \in Worker |-> NoReq]
  /\ traffic \in Traffics /\ asked = 0 /\ up = TRUE
  /\ passed = [k \in RateKey |-> <<>>]
  /\ tried = [p \in Peer |-> <<>>]
  /\ evicted = {}

Next ==
  \/ \E w \in Worker, p \in Peer, kind \in traffic : Arrive(w, p, kind)
  \/ \E w \in Worker :
       \/ InCooldown(w) \/ CheckToken(w) \/ RecordFailure(w)
       \/ Authenticated(w) \/ Persist(w) \/ Swap(w) \/ Forget(w)
  \/ Tick \/ Stop \/ Start

Spec == Init /\ [][Next]_vars

----------------------------------------------------------------------------
(***************************************************************************)
(* Properties.                                                             *)
(***************************************************************************)
Recent(times, span) == Cardinality({i \in DOMAIN times : now - times[i] < span})

\* The fixed windows of the rate limiter bound every stretch of one second,
\* wherever it begins: no key gets through more than twice its limit, unless
\* its window was dropped because too many keys were tracked.
RateBounded ==
  \A k \in RateKey \ evicted :
    Recent(passed[k], Window) <= 2 * LimitOf(k)

\* However requests interleave between the cooldown check and the count, in
\* any cooldown's length of time a peer that does not know a token has at
\* most the threshold of tokens looked at, and two more for each other
\* request in progress: one that was past the check when the last cooldown
\* began and is counted late, and one that is past it when the next begins.
GuessesBounded ==
  \A p \in Peer :
    Recent(tried[p], Cooldown) <=
      AUTH_FAILURE_THRESHOLD + 2 * (Cardinality(Worker) - 1)

\* A peer is only ever refused for its failures, and not for longer than the
\* cooldown: the threshold of wrong tokens since it last showed a right one,
\* the last of them less than a cooldown ago.
RefusedForCause ==
  [][\A w \in Worker :
       req[w].pc = "cooldown" /\ up' /\ req'[w].pc = "idle" =>
         /\ Len(tried[req[w].peer]) >= AUTH_FAILURE_THRESHOLD
         /\ Recent(tried[req[w].peer], Cooldown) > 0]_vars

\* The token the server accepts is the one its owner was told of, also after
\* a restart, unless a rotation failed half-way or ran beside another.
TokenSurvives ==
  up /\ Rotating = {} /\ ~torn => token = told /\ file = told
=============================================================================
