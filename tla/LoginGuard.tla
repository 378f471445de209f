------------------------------ MODULE LoginGuard ------------------------------
(***************************************************************************)
(* The two brakes on POST /login: the fixed-window limiter of              *)
(* src/middleware/rateLimit.ts (authRateLimit) and the failure counters of *)
(* src/services/loginGuard.ts, one for the user name and one for the       *)
(* address.  Between the check of the lock and the verdict the handler     *)
(* awaits verifyPassword, so several attempts are under way at once.       *)
(* Both caches drop entries only when they no longer count for anything.   *)
(***************************************************************************)
EXTENDS Integers, FiniteSets

CONSTANTS
  Account, Ip,                     \* the two kinds of key
  Attempt,                         \* requests that can be verifying at once
  MaxFailures, FailWindow, LockTime,   \* config.loginGuard
  RateMax, RateWindow,             \* authRateLimit
  MaxTime                          \* bound: the clock

ASSUME LoginAssumption ==
  /\ {MaxFailures, FailWindow, LockTime, RateMax, RateWindow} \subseteq Nat \ {0}
  /\ MaxTime \in Nat /\ IsFiniteSet(Attempt) /\ "none" \notin Account

VARIABLES
  now,       \* Date.now()
  guard,     \* per key: its GuardEntry
  rate,      \* per address: its RateLimitEntry
  trying,    \* attempts awaiting verifyPassword
  guesses,   \* history: per key, attempts begun since its count last restarted
  told       \* history: per address, the end of the wait the last 429 announced

loginVars == <<now, guard, rate, trying, guesses, told>>

GuardKey == Account \union Ip
NoEntry == [failures |-> 0, windowStart |-> -1, lockedUntil |-> 0]
NotTrying == [name |-> "none", ip |-> "none", right |-> FALSE]

LoginTypeOK ==
  /\ now \in 0..MaxTime
  /\ guard \in [GuardKey -> [failures : 0..(MaxFailures - 1), windowStart : -1..MaxTime,
                        lockedUntil : 0..(MaxTime + LockTime)]]
  /\ rate \in [Ip -> [count : Nat, resetAt : 0..(MaxTime + RateWindow)]]
  /\ guesses \in [GuardKey -> Nat] /\ told \in [Ip -> 0..(MaxTime + RateWindow)]

LoginInit ==
  /\ now = 0
  /\ guard = [k \in GuardKey |-> NoEntry]
  /\ rate = [i \in Ip |-> [count |-> 0, resetAt |-> 0]]
  /\ trying = [t \in Attempt |-> NotTrying]
  /\ guesses = [k \in GuardKey |-> 0]
  /\ told = [i \in Ip |-> 0]

-----------------------------------------------------------------------------
\* The limiter's entry after one more request: refused ones are counted too.
Counted(i) ==
  IF now >= rate[i].resetAt THEN [count |-> 1, resetAt |-> now + RateWindow]
  ELSE [rate[i] EXCEPT !.count = @ + 1]

\* The GuardEntry after a failure.
Failed(e, started) ==
  IF e.failures + 1 >= MaxFailures
  THEN [failures |-> 0, windowStart |-> now, lockedUntil |-> now + LockTime]
  ELSE [e EXCEPT !.failures = @ + 1, !.windowStart = started]

WindowOver(e) == e.windowStart = -1 \/ now - e.windowStart > FailWindow
AfterFailure(e) ==
  IF WindowOver(e) THEN Failed([e EXCEPT !.failures = 0], now) ELSE Failed(e, e.windowStart)

RecordLoginFailure(keys) ==
  /\ guard' = [k \in GuardKey |-> IF k \in keys THEN AfterFailure(guard[k]) ELSE guard[k]]
  /\ guesses' = [k \in GuardKey |->
       IF k \in keys /\ (WindowOver(guard[k]) \/ AfterFailure(guard[k]).failures = 0)
       THEN 0 ELSE guesses[k]]

Locked(keys) == \E k \in keys : guard[k].lockedUntil > now

\* A request that the limiter refuses.
Refuse(i) ==
  /\ now < rate[i].resetAt /\ rate[i].count >= RateMax
  /\ rate[i].count <= RateMax + 1  \* more refusals change nothing
  /\ rate' = [rate EXCEPT ![i] = Counted(i)]
  /\ told' = [told EXCEPT ![i] = rate[i].resetAt]
  /\ UNCHANGED <<now, guard, trying, guesses>>

\* A request the limiter lets through: 429 while a key is locked, otherwise the
\* password is being verified.  (A name without an account fails at once, as if
\* verified with no time in between.)
Login(t, n, i, right) ==
  /\ trying[t] = NotTrying
  /\ now >= rate[i].resetAt \/ rate[i].count < RateMax
  /\ rate' = [rate EXCEPT ![i] = Counted(i)]
  /\ UNCHANGED <<now, told>>
  /\ \/ /\ Locked({n, i})
        /\ UNCHANGED <<guard, trying, guesses>>
     \/ /\ ~Locked({n, i})
        /\ trying' = [trying EXCEPT ![t] = [name |-> n, ip |-> i, right |-> right]]
        /\ guesses' = [k \in GuardKey |-> IF k \in {n, i} THEN guesses[k] + 1 ELSE guesses[k]]
        /\ UNCHANGED guard

\* verifyPassword answers: resetLoginFailures or recordLoginFailure.
Verified(t) ==
  /\ trying[t] # NotTrying
  /\ LET keys == {trying[t].name, trying[t].ip}
     IN IF trying[t].right
        THEN /\ guard' = [k \in GuardKey |-> IF k \in keys THEN NoEntry ELSE guard[k]]
             /\ guesses' = [k \in GuardKey |-> IF k \in keys THEN 0 ELSE guesses[k]]
        ELSE RecordLoginFailure(keys)
  /\ trying' = [trying EXCEPT ![t] = NotTrying]
  /\ UNCHANGED <<now, rate, told>>

LoginTick ==
  /\ now < MaxTime /\ now' = now + 1
  /\ UNCHANGED <<guard, rate, trying, guesses, told>>

LoginNext ==
  \/ \E i \in Ip : Refuse(i)
  \/ \E t \in Attempt, n \in Account, i \in Ip, right \in BOOLEAN : Login(t, n, i, right)
  \/ \E t \in Attempt : Verified(t)
  \/ LoginTick

LoginSpec == LoginInit /\ [][LoginNext]_loginVars

-----------------------------------------------------------------------------
\* Attempts that overlap all pass the check of the lock before any of them has
\* failed.  Even so, between two restarts of its count a name or an address gets
\* no more guesses than the limit allows and the overlap adds.
GuessesAreBounded ==
  \A k \in GuardKey : guesses[k] <= MaxFailures - 1 + Cardinality(Attempt)

\* Of the limiter only: who it told to wait finds the window over when the wait is.
\* Requests sent meanwhile are counted, but never move its end.  (The Retry-After of a
\* lock, auth.ts:156-167, promises less: attempts still being verified may fail after it
\* and lengthen the lock.)
RetryAfterIsHonest ==
  \A i \in Ip : now < told[i] => rate[i].resetAt <= told[i]

LoginIsThrottled == GuessesAreBounded /\ RetryAfterIsHonest
=============================================================================
