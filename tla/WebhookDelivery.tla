---------------------------- MODULE WebhookDelivery ----------------------------
(***************************************************************************)
(* Delivery of events to webhook receivers: sendToWebhook() of             *)
(* src/baileys/connection.ts with the concurrency queue and the circuit    *)
(* breaker of src/services/webhookQueue.ts.  A delivery that fails goes    *)
(* to the buffer of DeadLetters, whose replays run beside it.              *)
(*                                                                         *)
(* Handlers of all sessions deliver concurrently on one event loop; a      *)
(* delivery is split at its awaits: its turn in the queue, what precedes   *)
(* the POST (rate limiter, DNS check), the POST, and the sleep between     *)
(* attempts.  The turn is a resolved promise: between the call of next()   *)
(* and the waiter's running++ only microtasks that are queued already run, *)
(* a handler that goes on to deliver another event among them.             *)
(* Events that a filter stops before the breaker change no state and are   *)
(* left out, as are sessions without a webhook, logs and the jitter.       *)
(***************************************************************************)
EXTENDS Integers, Sequences, FiniteSets

CONSTANTS
  Delivery,     \* events to deliver, also the ids of their dead letters
  Url,          \* receivers
  UrlOf,        \* the receiver of each event
  Blocked,      \* receivers whose address validateWebhookTarget() turns down
  Concurrency,  \* config.webhook.concurrency
  MaxAttempts,  \* Math.max(1, retryPolicy.maxRetries)
  Interval,     \* retryPolicy.retryInterval
  Factor,       \* retryPolicy.backoffFactor
  RetryAfter,   \* values of a Retry-After header, after the cap
  Threshold,    \* config.webhook.circuitFailures; 0 turns the breaker off
  ResetFor,     \* config.webhook.circuitResetMs
  AnswersOf,    \* what can come of an attempt to deliver each event
  Request, MaxEntries,  \* of DeadLetters
  MaxTime       \* bound: the clock stops here unless a delivery sleeps

\* "busy" is 429, "unavailable" any other retryable status, "down" a network
\* error, "unsigned" a missing secret under signatureMode "required",
\* "rejected" a status that is not retried, "refused" a redirect or a target
\* the address check turns down.
Answer == {"ok", "busy", "unavailable", "down", "unsigned", "rejected", "refused"}

ASSUME WebhookAssumption ==
  /\ IsFiniteSet(Delivery) /\ UrlOf \in [Delivery -> Url] /\ Blocked \subseteq Url
  /\ MaxEntries \in Nat \ {0}
  /\ Concurrency \in Nat \ {0} /\ MaxAttempts \in Nat \ {0}
  /\ Interval \in Nat /\ Factor \in Nat /\ RetryAfter \subseteq Nat
  /\ Threshold \in Nat /\ ResetFor \in Nat /\ MaxTime \in Nat
  /\ AnswersOf \in [Delivery -> SUBSET Answer]

VARIABLES
  now,        \* Date.now(); 0 is "closed" in the breaker, so it starts at 1
  stage,      \* where each delivery is
  attempt,    \* attempts completed
  delay,      \* currentDelay
  wakeAt,     \* when the sleep between two attempts ends
  waiters,    \* ConcurrencyQueue.queue
  running,    \* ConcurrencyQueue.running
  breaker,    \* PerUrlCircuitBreaker.state; no entry is the initial record
  posts,      \* history: POSTs made
  heard,      \* history: the answer to the last attempt
  notBefore,  \* history: earliest time the receiver allows the next POST
  genuine,    \* history: genuine failures since the last success, per receiver
  failed,     \* history: exhausted deliveries since the last success
  entries, status, added, replay, delivered   \* of DeadLetters

Letters == INSTANCE DeadLetters WITH Letter <- Delivery

queueVars == <<waiters, running>>
letterVars == <<entries, status, added, replay, delivered>>
history == <<posts, heard, notBefore, genuine, failed>>
vars == <<now, stage, attempt, delay, wakeAt, queueVars, breaker, history, letterVars>>

Stage == {"new", "waiting", "granted", "preparing", "posting", "sleeping",
          "success", "failed", "skipped", "blocked"}
InTask == {"preparing", "posting", "sleeping"}
Over == {"success", "failed", "skipped", "blocked"}

TypeOK ==
  /\ now \in Nat \ {0}
  /\ stage \in [Delivery -> Stage]
  /\ attempt \in [Delivery -> Nat]
  /\ delay \in [Delivery -> Nat]
  /\ wakeAt \in [Delivery -> Nat]
  /\ waiters \in Seq(Delivery)
  /\ running \in Int
  /\ breaker \in [Url -> [failures : Nat, openUntil : Nat, halfOpen : BOOLEAN]]
  /\ posts \in [Delivery -> Nat]
  /\ heard \in [Delivery -> Answer \cup {"none"}]
  /\ notBefore \in [Delivery -> Nat]
  /\ genuine \in [Url -> Nat] /\ failed \in [Url -> Nat]

Init ==
  /\ now = 1
  /\ stage = [d \in Delivery |-> "new"]
  /\ attempt = [d \in Delivery |-> 0]
  /\ delay = [d \in Delivery |-> Interval]
  /\ wakeAt = [d \in Delivery |-> 0]
  /\ waiters = <<>> /\ running = 0
  /\ breaker = [u \in Url |-> [failures |-> 0, openUntil |-> 0, halfOpen |-> FALSE]]
  /\ posts = [d \in Delivery |-> 0]
  /\ heard = [d \in Delivery |-> "none"]
  /\ notBefore = [d \in Delivery |-> 0]
  /\ genuine = [u \in Url |-> 0] /\ failed = [u \in Url |-> 0]
  /\ Letters!LettersInit

-----------------------------------------------------------------------------
(* The circuit breaker of one receiver, on its entry b.                    *)

Cooling(b) == Threshold > 0 /\ b.openUntil # 0 /\ now < b.openUntil
Cooled(b) == Threshold > 0 /\ b.openUntil # 0 /\ now >= b.openUntil

\* beforeSend() when it answers true.
Admitted(b) == IF Cooled(b) THEN [b EXCEPT !.halfOpen = TRUE] ELSE b

\* recordSuccess().
Closed(b) == [b EXCEPT !.failures = 0, !.openUntil = 0, !.halfOpen = FALSE]

\* recordFailure().  (Variant: every failure at the threshold opens again.)
AlwaysReopened(b) ==
  [failures |-> b.failures + 1, halfOpen |-> FALSE,
   openUntil |-> IF b.halfOpen \/ b.failures + 1 >= Threshold THEN now + ResetFor
                 ELSE b.openUntil]
Failed(b) ==
  IF Threshold = 0 THEN b
  ELSE [failures |-> b.failures + 1, halfOpen |-> FALSE,
        openUntil |-> IF b.halfOpen \/ (b.openUntil = 0 /\ b.failures + 1 >= Threshold)
                      THEN now + ResetFor ELSE b.openUntil]

-----------------------------------------------------------------------------
(* The concurrency queue.                                                  *)

Start(d, s) == [s EXCEPT ![d] = "preparing"]

\* The finally block of add(): running--, and the oldest waiter's promise is
\* resolved.  (Variant: nobody is woken.)
ReleaseSilently(s) == running' = running - 1 /\ waiters' = waiters /\ stage' = s
Release(s) ==
  /\ running' = running - 1
  /\ IF waiters = <<>> THEN UNCHANGED waiters /\ stage' = s
     ELSE waiters' = Tail(waiters) /\ stage' = [s EXCEPT ![Head(waiters)] = "granted"]

\* No promise is resolved and waiting for its microtask.
NoMicrotask == \A d \in Delivery : stage[d] # "granted"

\* The woken waiter goes on: running++, without a look at the limit.
Granted(d) ==
  /\ stage[d] = "granted"
  /\ running' = running + 1
  /\ stage' = Start(d, stage)
  /\ UNCHANGED <<now, attempt, delay, wakeAt, waiters, breaker, history, letterVars>>

-----------------------------------------------------------------------------
(* sendToWebhook().                                                        *)

\* Up to the first await: the check of the address, whose failure is returned and leaves
\* nothing behind, the breaker, then add().
SendToWebhook(d) ==
  LET u == UrlOf[d] IN
  /\ stage[d] = "new"
  /\ \/ /\ u \in Blocked
        /\ stage' = [stage EXCEPT ![d] = "blocked"]
        /\ UNCHANGED <<queueVars, breaker>>
     \/ /\ u \notin Blocked /\ Cooling(breaker[u])
        /\ stage' = [stage EXCEPT ![d] = "skipped"]
        /\ UNCHANGED <<queueVars, breaker>>
     \/ /\ u \notin Blocked /\ ~Cooling(breaker[u])
        /\ breaker' = [breaker EXCEPT ![u] = Admitted(@)]
        /\ \/ /\ running >= Concurrency
              /\ waiters' = Append(waiters, d)
              /\ stage' = [stage EXCEPT ![d] = "waiting"]
              /\ UNCHANGED running
           \/ /\ running < Concurrency
              /\ running' = running + 1
              /\ stage' = Start(d, stage)
              /\ UNCHANGED waiters
  /\ UNCHANGED <<now, attempt, delay, wakeAt, posts, heard, notBefore, genuine, failed, letterVars>>

\* The limiter and the address check let the attempt through.
Post(d) ==
  /\ NoMicrotask
  /\ stage[d] = "preparing"
  /\ "unsigned" \notin AnswersOf[d]
  /\ stage' = [stage EXCEPT ![d] = "posting"]
  /\ posts' = [posts EXCEPT ![d] = @ + 1]
  /\ UNCHANGED <<now, attempt, delay, wakeAt, queueVars, breaker, heard, notBefore,
                 genuine, failed, letterVars>>

\* response.ok
Delivered(d) ==
  LET u == UrlOf[d] IN
  /\ stage[d] = "posting" /\ "ok" \in AnswersOf[d]
  /\ breaker' = [breaker EXCEPT ![u] = Closed(@)]
  /\ heard' = [heard EXCEPT ![d] = "ok"]
  /\ genuine' = [genuine EXCEPT ![u] = 0] /\ failed' = [failed EXCEPT ![u] = 0]
  /\ Release([stage EXCEPT ![d] = "success"])
  /\ UNCHANGED <<now, attempt, delay, wakeAt, posts, notBefore, letterVars>>

\* addToDeadLetter() after answer a.  (Variant: a full buffer takes no more.)
KeepIfRoom(d, a) ==
  IF Len(entries) < MaxEntries THEN Letters!Add(d)
  ELSE added' = Append(added, d) /\ UNCHANGED <<entries, status, replay, delivered>>
Keep(d, a) == Letters!Add(d)

\* What follows the retry loop of d, n attempts in, after answer a.
GiveUp(d, a, n) ==
  LET u == UrlOf[d] IN
  /\ attempt' = [attempt EXCEPT ![d] = n]
  /\ breaker' = IF a \in {"rejected", "refused"} THEN breaker
                ELSE [breaker EXCEPT ![u] = Failed(@)]
  /\ genuine' = [genuine EXCEPT ![u] = IF a \in {"unavailable", "down"} THEN @ + 1 ELSE @]
  /\ failed' = [failed EXCEPT ![u] = IF a \in {"rejected", "refused"} THEN @ ELSE @ + 1]
  /\ Release([stage EXCEPT ![d] = "failed"])
  /\ Keep(d, a)

\* The attempt at which d gives up.
Last(n) == n = MaxAttempts

\* Whether answer a ends the loop.  (Variant: a redirect is tried again.)
FinalButRedirect(a) == a = "rejected"
Final(a) == a \in {"rejected", "refused"}

\* The delay after answer a with Retry-After ra (-1: none).  A network or
\* header error throws past the backoff.  (Variants: the header is one more
\* factor of the backoff; its absence is not noticed.)
UnguardedDelay(d, a, ra) == IF a \in {"busy", "unavailable"} THEN ra ELSE delay[d]
ScaledDelay(d, a, ra) == IF a \in {"busy", "unavailable"} THEN delay[d] * Factor ELSE delay[d]
NextDelay(d, a, ra) ==
  IF ra >= 0 THEN ra
  ELSE IF a \in {"busy", "unavailable"} THEN delay[d] * Factor ELSE delay[d]

\* An attempt that did not deliver: its answer, or an error before the POST.
\* A redirect and a refused target break out of the loop before attempt++.
Unsuccessful(d, a, ra) ==
  LET n == attempt[d] + (IF a = "refused" THEN 0 ELSE 1) IN
  /\ a \in AnswersOf[d] \ {"ok"}
  /\ stage[d] = "preparing" => a \in {"unsigned", "refused"}
  /\ stage[d] = "posting" => a # "unsigned"
  /\ stage[d] \in {"preparing", "posting"}
  /\ ra >= 0 => a \in {"busy", "unavailable"}
  /\ heard' = [heard EXCEPT ![d] = a]
  /\ IF Final(a) \/ Last(n)
     THEN GiveUp(d, a, n) /\ ra = -1 /\ UNCHANGED <<delay, wakeAt, notBefore>>
     ELSE /\ attempt' = [attempt EXCEPT ![d] = n]
          /\ delay' = [delay EXCEPT ![d] = NextDelay(d, a, ra)]
          /\ wakeAt' = [wakeAt EXCEPT ![d] = now + NextDelay(d, a, ra)]
          /\ notBefore' = [notBefore EXCEPT ![d] = IF ra >= 0 THEN now + ra ELSE 0]
          /\ stage' = [stage EXCEPT ![d] = "sleeping"]
          /\ UNCHANGED <<queueVars, breaker, genuine, failed, letterVars>>
  /\ UNCHANGED <<now, posts>>

\* asyncSleep() ends, at the earliest when the delay has passed.
Wake(d) ==
  /\ NoMicrotask
  /\ stage[d] = "sleeping" /\ now >= wakeAt[d]
  /\ stage' = Start(d, stage)
  /\ UNCHANGED <<now, attempt, delay, wakeAt, queueVars, breaker, history, letterVars>>

\* A replay of a dead letter goes past the queue and the breaker.
ReplayLetter ==
  /\ NoMicrotask
  /\ Letters!Replaying
  /\ UNCHANGED <<now, stage, attempt, delay, wakeAt, queueVars, breaker, history>>

Tick ==
  /\ NoMicrotask
  /\ now < MaxTime \/ \E d \in Delivery : stage[d] = "sleeping" /\ now < wakeAt[d]
  /\ now' = now + 1
  /\ UNCHANGED <<stage, attempt, delay, wakeAt, queueVars, breaker, history, letterVars>>

Settles(d) == Delivered(d) \/ \E a \in AnswersOf[d], ra \in RetryAfter \cup {-1} : Unsuccessful(d, a, ra)

Next ==
  \/ \E d \in Delivery : SendToWebhook(d) \/ Granted(d) \/ Post(d) \/ Delivered(d) \/ Wake(d)
  \/ \E d \in Delivery, a \in Answer, ra \in RetryAfter \cup {-1} : Unsuccessful(d, a, ra)
  \/ ReplayLetter
  \/ Tick

Spec == Init /\ [][Next]_vars

\* Microtasks run, timers fire, and the awaits of an attempt settle: the limiter
\* waits rateMaxWaitMs at most and the fetch is aborted after 30 seconds.
FairSpec ==
  /\ Spec
  /\ WF_vars(Tick)
  /\ \A d \in Delivery : WF_vars(Granted(d)) /\ WF_vars(Wake(d)) /\ WF_vars(Post(d) \/ Settles(d))

-----------------------------------------------------------------------------
(* Properties.                                                             *)

Staged(S) == {d \in Delivery : stage[d] \in S}

\* ConcurrencyQueue: running is the number of deliveries inside their task, the
\* queue holds exactly those that wait, and nobody waits while a slot is free
\* and promised to no one: no turn is lost.
QueueKeepsTurns ==
  /\ running = Cardinality(Staged(InTask))
  /\ Staged({"waiting"}) = {waiters[i] : i \in DOMAIN waiters}
  /\ waiters # <<>> => running + Cardinality(Staged({"granted"})) >= Concurrency

\* PerUrlCircuitBreaker: a circuit is open only after Threshold deliveries to
\* that receiver failed since the last one that succeeded.
CircuitNeedsFailures ==
  \A u \in Url : breaker[u].openUntil # 0 => failed[u] >= Threshold

\* A circuit is half-open only once its cooldown has passed: the failure of a
\* probe, or of a delivery admitted earlier, leaves it plainly open or closed.
HalfOpenHasCooled ==
  \A u \in Url : breaker[u].halfOpen => breaker[u].openUntil \in 1..now

\* A circuit that cools down keeps its deadline or closes: failures of deliveries
\* admitted before it opened never push the deadline out.
CooldownIsFixed ==
  [][\A u \in Url : Cooling(breaker[u]) => breaker'[u].openUntil \in {0, breaker[u].openUntil}]_vars

\* A circuit cools down once, for the time it was opened for.
CircuitCoolsDown == []HalfOpenHasCooled /\ CooldownIsFixed

\* A circuit neither opens without its failures nor stays open beyond its cooldown,
\* however deliveries that passed it before and after overlap.
CircuitIsFair == []CircuitNeedsFailures /\ CircuitCoolsDown

\* An event that was tried is in the dead letters exactly when it is over and the last
\* attempt did not reach the receiver: one that was received after retries, or still
\* may be, is not there.
KeptUnlessReceived ==
  \A d \in Delivery : d \in Letters!Elems(added) <=>
    stage[d] \in Over /\ heard[d] \notin {"none", "ok"}

\* An event may be over without an attempt, and is not kept then.  That happens only to
\* events of a receiver whose address is turned down and, if there is a breaker, to those
\* of one to which Threshold deliveries failed since the last that succeeded.
UntriedForCause ==
  [][\A d \in Delivery : stage[d] = "new" /\ stage'[d] \in Over =>
       \/ UrlOf[d] \in Blocked
       \/ Threshold > 0 /\ failed[UrlOf[d]] >= Threshold]_vars

\* Every event that is tried is received or kept, and one that is not tried is dropped
\* for a cause.  The buffer sees of the deliveries what DeadLetters specifies, and nothing
\* else: each adds its letter once at most, however attempts and replays interleave.
FailuresFillTheBuffer == []KeptUnlessReceived /\ UntriedForCause /\ Letters!LettersSpec

\* No POST is made before the time the receiver named in Retry-After.
RetryAfterIsKept ==
  [][\A d \in Delivery : posts'[d] > posts[d] => now >= notBefore[d]]_vars

\* After a success, a redirect, a refused target or a status that is not retried
\* the event is not posted again, and it is never posted more than MaxAttempts
\* times.
NoPostAfterVerdict ==
  [][\A d \in Delivery : posts'[d] > posts[d] =>
       heard[d] \notin {"ok", "rejected", "refused"} /\ posts'[d] <= MaxAttempts]_vars

\* What a receiver answered is heeded by every later attempt, of whichever kind.
AnswersAreHeeded == RetryAfterIsKept /\ NoPostAfterVerdict

\* Every delivery handed to the queue comes to an end.
DeliveriesEnd ==
  \A d \in Delivery : stage[d] \notin Over \cup {"new"} ~> stage[d] \in Over
=============================================================================
