------------------------- MODULE WebhookDeliveryProofs -------------------------
(***************************************************************************)
(* Proofs about WebhookDelivery, for every set of events and receivers,    *)
(* every limit and every delay.                                            *)
(***************************************************************************)
EXTENDS WebhookDelivery, FiniteSetTheorems, TLAPS

\* What is proved of the buffer whoever adds to it, for the buffer of the deliveries.
Buffer == INSTANCE DeadLettersProofs WITH Letter <- Delivery

-----------------------------------------------------------------------------
(* Types.                                                                  *)

BreakerEntry == [failures : Nat, openUntil : Nat, halfOpen : BOOLEAN]

\* What every operation of the breaker returns is an entry of the breaker.
LEMMA BreakerType ==
  ASSUME NEW b \in BreakerEntry, now \in Nat
  PROVE  Admitted(b) \in BreakerEntry /\ Closed(b) \in BreakerEntry /\ Failed(b) \in BreakerEntry
<1>. USE DEF BreakerEntry
<1>1. Admitted(b) \in BreakerEntry
  <2>1. CASE Cooled(b)  BY <2>1 DEF Admitted
  <2>2. CASE ~Cooled(b)  BY <2>2 DEF Admitted
  <2>. QED  BY <2>1, <2>2
<1>2. Closed(b) \in BreakerEntry
  BY DEF Closed
<1>3. Failed(b) \in BreakerEntry
  <2>1. now + ResetFor \in Nat /\ b.failures + 1 \in Nat
    BY WebhookAssumption
  <2>2. CASE Threshold = 0  BY <2>2 DEF Failed
  <2>3. CASE Threshold # 0  BY <2>1, <2>3 DEF Failed
  <2>. QED  BY <2>2, <2>3
<1>. QED  BY <1>1, <1>2, <1>3

\* Release() keeps the types of what it changes.
LEMMA ReleaseType ==
  ASSUME TypeOK, NEW s \in [Delivery -> Stage], Release(s)
  PROVE  stage' \in [Delivery -> Stage] /\ waiters' \in Seq(Delivery) /\ running' \in Int
<1>1. running' \in Int
  BY DEF TypeOK, Release
<1>2. CASE waiters = <<>>
  BY <1>1, <1>2 DEF TypeOK, Release
<1>3. CASE waiters # <<>>
  <2>1. Head(waiters) \in Delivery /\ Tail(waiters) \in Seq(Delivery)
    BY <1>3 DEF TypeOK
  <2>2. waiters' = Tail(waiters) /\ stage' = [s EXCEPT ![Head(waiters)] = "granted"]
    BY <1>3 DEF Release
  <2>. QED  BY <1>1, <2>1, <2>2 DEF Stage
<1>. QED  BY <1>2, <1>3

\* So does giving up.
LEMMA GiveUpType ==
  ASSUME TypeOK, NEW d \in Delivery, NEW a, NEW n \in Nat, GiveUp(d, a, n)
  PROVE  /\ attempt' \in [Delivery -> Nat]
         /\ breaker' \in [Url -> BreakerEntry]
         /\ genuine' \in [Url -> Nat] /\ failed' \in [Url -> Nat]
         /\ stage' \in [Delivery -> Stage] /\ waiters' \in Seq(Delivery) /\ running' \in Int
<1>1. attempt' \in [Delivery -> Nat]
  BY DEF GiveUp, TypeOK
<1>2. breaker' \in [Url -> BreakerEntry]
  <2>1. breaker[UrlOf[d]] \in BreakerEntry /\ now \in Nat /\ UrlOf[d] \in Url
    BY WebhookAssumption DEF TypeOK, BreakerEntry
  <2>2. Failed(breaker[UrlOf[d]]) \in BreakerEntry
    BY <2>1, BreakerType
  <2>. QED  BY <2>2 DEF GiveUp, TypeOK, BreakerEntry
<1>3. genuine' \in [Url -> Nat] /\ failed' \in [Url -> Nat]
  <2>1. UrlOf[d] \in Url /\ genuine[UrlOf[d]] + 1 \in Nat /\ failed[UrlOf[d]] + 1 \in Nat
    BY WebhookAssumption DEF TypeOK
  <2>2. genuine' \in [Url -> Nat]
    BY <2>1 DEF GiveUp, TypeOK
  <2>3. failed' \in [Url -> Nat]
    BY <2>1 DEF GiveUp, TypeOK
  <2>. QED  BY <2>2, <2>3
<1>4. [stage EXCEPT ![d] = "failed"] \in [Delivery -> Stage]
  BY DEF TypeOK, Stage
<1>5. Release([stage EXCEPT ![d] = "failed"])
  BY DEF GiveUp
<1>. QED  BY <1>1, <1>2, <1>3, <1>4, <1>5, ReleaseType

\* Every variable of the delivery path keeps its type: the counters of the
\* breaker never go below zero and a delay is never the "no header" value.
THEOREM TypeCorrect == Spec => []TypeOK
<1>1. Init => TypeOK
  BY WebhookAssumption DEF Init, TypeOK, Stage
<1>2. TypeOK /\ [Next]_vars => TypeOK'
  <2>. SUFFICES ASSUME TypeOK, [Next]_vars PROVE TypeOK'
    OBVIOUS
  <2>1. ASSUME NEW d \in Delivery, SendToWebhook(d) PROVE TypeOK'
    <3>1. UrlOf[d] \in Url /\ breaker[UrlOf[d]] \in BreakerEntry /\ now \in Nat
      BY WebhookAssumption DEF TypeOK, BreakerEntry
    <3>2. Admitted(breaker[UrlOf[d]]) \in BreakerEntry
      BY <3>1, BreakerType
    <3>3. breaker' \in [Url -> BreakerEntry]
      BY <2>1, <3>2 DEF SendToWebhook, TypeOK, BreakerEntry
    <3>4. stage' \in [Delivery -> Stage] /\ waiters' \in Seq(Delivery) /\ running' \in Int
      <4>1. stage' \in [Delivery -> Stage]
        BY <2>1 DEF SendToWebhook, TypeOK, Stage, Start
      <4>2. waiters' \in Seq(Delivery) /\ running' \in Int
        <5>1. /\ waiters' = waiters \/ waiters' = Append(waiters, d)
              /\ running' = running \/ running' = running + 1
          BY <2>1 DEF SendToWebhook, queueVars
        <5>2. Append(waiters, d) \in Seq(Delivery)
          BY DEF TypeOK
        <5>3. waiters \in Seq(Delivery) /\ running \in Int /\ running + 1 \in Int
          BY DEF TypeOK
        <5>4. waiters' \in Seq(Delivery)
          BY <5>1, <5>2, <5>3
        <5>. QED  BY <5>1, <5>3, <5>4
      <4>. QED  BY <4>1, <4>2
    <3>5. UNCHANGED <<now, attempt, delay, wakeAt, posts, heard, notBefore, genuine, failed>>
      BY <2>1 DEF SendToWebhook
    <3>. QED  BY <3>3, <3>4, <3>5 DEF TypeOK, BreakerEntry
  <2>2. ASSUME NEW d \in Delivery, Granted(d) PROVE TypeOK'
    <3>1. stage' \in [Delivery -> Stage]
      BY <2>2 DEF Granted, TypeOK, Stage, Start
    <3>. QED  BY <2>2, <3>1 DEF Granted, TypeOK, history
  <2>3. ASSUME NEW d \in Delivery, Post(d) PROVE TypeOK'
    <3>1. stage' \in [Delivery -> Stage]
      BY <2>3 DEF Post, TypeOK, Stage
    <3>2. posts' \in [Delivery -> Nat]
      BY <2>3 DEF Post, TypeOK
    <3>. QED  BY <2>3, <3>1, <3>2 DEF Post, TypeOK, queueVars
  <2>4. ASSUME NEW d \in Delivery, Delivered(d) PROVE TypeOK'
    <3>1. UrlOf[d] \in Url /\ breaker[UrlOf[d]] \in BreakerEntry /\ now \in Nat
      BY WebhookAssumption DEF TypeOK, BreakerEntry
    <3>2. Closed(breaker[UrlOf[d]]) \in BreakerEntry
      BY <3>1, BreakerType
    <3>3. breaker' \in [Url -> BreakerEntry]
      BY <2>4, <3>2 DEF Delivered, TypeOK, BreakerEntry
    <3>4. [stage EXCEPT ![d] = "success"] \in [Delivery -> Stage]
      BY DEF TypeOK, Stage
    <3>5. stage' \in [Delivery -> Stage] /\ waiters' \in Seq(Delivery) /\ running' \in Int
      BY <2>4, <3>4, ReleaseType DEF Delivered
    <3>6. heard' \in [Delivery -> Answer \cup {"none"}]
      BY <2>4 DEF Delivered, TypeOK, Answer
    <3>7. genuine' \in [Url -> Nat] /\ failed' \in [Url -> Nat]
      BY <2>4 DEF Delivered, TypeOK
    <3>. QED  BY <2>4, <3>3, <3>5, <3>6, <3>7 DEF Delivered, TypeOK, BreakerEntry
  <2>5. ASSUME NEW d \in Delivery, NEW a \in Answer, NEW ra \in RetryAfter \cup {-1}, Unsuccessful(d, a, ra)
        PROVE TypeOK'
    <3>1. heard' \in [Delivery -> Answer \cup {"none"}]
      BY <2>5 DEF Unsuccessful, TypeOK
    <3>2. attempt[d] + (IF a = "refused" THEN 0 ELSE 1) \in Nat
      BY DEF TypeOK
    <3>3. CASE GiveUp(d, a, attempt[d] + (IF a = "refused" THEN 0 ELSE 1)) /\ UNCHANGED <<delay, wakeAt, notBefore>>
      BY <2>5, <3>1, <3>2, <3>3, GiveUpType DEF Unsuccessful, TypeOK, BreakerEntry
    <3>4. CASE /\ attempt' = [attempt EXCEPT ![d] = attempt[d] + (IF a = "refused" THEN 0 ELSE 1)]
               /\ delay' = [delay EXCEPT ![d] = NextDelay(d, a, ra)]
               /\ wakeAt' = [wakeAt EXCEPT ![d] = now + NextDelay(d, a, ra)]
               /\ notBefore' = [notBefore EXCEPT ![d] = IF ra >= 0 THEN now + ra ELSE 0]
               /\ stage' = [stage EXCEPT ![d] = "sleeping"]
               /\ UNCHANGED <<queueVars, breaker, genuine, failed, letterVars>>
      <4>1. ra \in Int /\ (ra >= 0 => ra \in Nat)
        BY WebhookAssumption
      <4>2. delay[d] * Factor \in Nat
        BY WebhookAssumption DEF TypeOK
      <4>3. NextDelay(d, a, ra) \in Nat
        BY <4>1, <4>2 DEF NextDelay, TypeOK
      <4>4. now + NextDelay(d, a, ra) \in Nat /\ (IF ra >= 0 THEN now + ra ELSE 0) \in Nat
        BY <4>1, <4>3 DEF TypeOK
      <4>. QED  BY <2>5, <3>1, <3>2, <3>4, <4>3, <4>4 DEF Unsuccessful, TypeOK, Stage, queueVars
    <3>. QED  BY <2>5, <3>3, <3>4 DEF Unsuccessful
  <2>6. ASSUME NEW d \in Delivery, Wake(d) PROVE TypeOK'
    BY <2>6 DEF Wake, TypeOK, Stage, Start, queueVars, history
  <2>7. CASE ReplayLetter
    BY <2>7 DEF ReplayLetter, TypeOK, queueVars, history
  <2>8. CASE Tick
    BY <2>8 DEF Tick, TypeOK, queueVars, history
  <2>9. CASE UNCHANGED vars
    BY <2>9 DEF vars, TypeOK, queueVars, history
  <2>. QED  BY <2>1, <2>2, <2>3, <2>4, <2>5, <2>6, <2>7, <2>8, <2>9 DEF Next
<1>. QED  BY <1>1, <1>2, PTL DEF Spec

-----------------------------------------------------------------------------
(* The circuit breaker.                                                    *)

\* An entry b agrees with n failed deliveries since the last success: open only
\* after Threshold of them, half-open only after its cooldown.  The count in
\* the entry can lag behind n, never run ahead of it.
Sound(b, n) ==
  /\ b.failures <= n
  /\ b.openUntil # 0 => n >= Threshold
  /\ b.halfOpen => b.openUntil # 0 /\ b.openUntil <= now

BreakerInv == \A u \in Url : Sound(breaker[u], failed[u])

\* Each operation of the breaker keeps an entry sound; recordFailure() counts one
\* more failure, recordSuccess() starts from none.
LEMMA BreakerSound ==
  ASSUME NEW b \in BreakerEntry, NEW n \in Nat, now \in Nat \ {0}, Sound(b, n)
  PROVE  Sound(Admitted(b), n) /\ Sound(Closed(b), 0) /\ Sound(Failed(b), n + 1)
<1>. USE DEF BreakerEntry, Sound
<1>1. Sound(Admitted(b), n)
  <2>1. CASE Cooled(b)
    BY <2>1 DEF Admitted, Cooled
  <2>2. CASE ~Cooled(b)
    BY <2>2 DEF Admitted
  <2>. QED  BY <2>1, <2>2
<1>2. Sound(Closed(b), 0)
  BY DEF Closed
<1>3. Sound(Failed(b), n + 1)
  <2>1. CASE Threshold = 0
    BY <2>1 DEF Failed
  <2>2. CASE Threshold # 0
    BY <2>2, WebhookAssumption DEF Failed
  <2>. QED  BY <2>1, <2>2
<1>. QED  BY <1>1, <1>2, <1>3

\* An entry stays sound as time passes.
LEMMA SoundLater ==
  ASSUME TypeOK, BreakerInv, now' \in Nat, now' >= now, UNCHANGED <<breaker, failed>>
  PROVE  BreakerInv'
<1>. SUFFICES ASSUME NEW u \in Url PROVE Sound(breaker[u], failed[u])'
  BY DEF BreakerInv
<1>1. breaker[u] \in BreakerEntry /\ Sound(breaker[u], failed[u]) /\ now \in Nat
  BY DEF TypeOK, BreakerInv, BreakerEntry
<1>. QED  BY <1>1 DEF Sound, BreakerEntry

\* A step at one receiver u that applies an operation of the breaker.
LEMMA SoundAt ==
  ASSUME TypeOK, BreakerInv, now' = now, NEW u \in Url, NEW b, NEW n,
         breaker' = [breaker EXCEPT ![u] = b], failed' = [failed EXCEPT ![u] = n],
         Sound(b, n)
  PROVE  BreakerInv'
<1>. SUFFICES ASSUME NEW w \in Url PROVE Sound(breaker[w], failed[w])'
  BY DEF BreakerInv
<1>1. CASE w = u
  <2>1. breaker'[w] = b /\ failed'[w] = n
    BY <1>1 DEF TypeOK
  <2>. QED  BY <2>1 DEF Sound
<1>2. CASE w # u
  <2>1. breaker'[w] = breaker[w] /\ failed'[w] = failed[w]
    BY <1>2 DEF TypeOK
  <2>. QED  BY <2>1 DEF Sound, BreakerInv
<1>. QED  BY <1>1, <1>2

\* Every step keeps the breaker sound.
LEMMA BreakerStep == TypeOK /\ TypeOK' /\ BreakerInv /\ [Next]_vars => BreakerInv'
<1>. SUFFICES ASSUME TypeOK, TypeOK', BreakerInv, [Next]_vars PROVE BreakerInv'
  OBVIOUS
<1>. now \in Nat \ {0} /\ now' \in Nat
  BY DEF TypeOK
<1>0. ASSUME NEW d \in Delivery
      PROVE  /\ UrlOf[d] \in Url /\ breaker[UrlOf[d]] \in BreakerEntry
             /\ failed[UrlOf[d]] \in Nat /\ Sound(breaker[UrlOf[d]], failed[UrlOf[d]])
             /\ failed = [failed EXCEPT ![UrlOf[d]] = failed[UrlOf[d]]]
             /\ breaker = [breaker EXCEPT ![UrlOf[d]] = breaker[UrlOf[d]]]
  BY WebhookAssumption DEF TypeOK, BreakerInv, BreakerEntry
<1>1. ASSUME NEW d \in Delivery, SendToWebhook(d) PROVE BreakerInv'
  <2>1. CASE UNCHANGED <<now, breaker, failed>>
    BY <2>1, SoundLater
  <2>2. CASE breaker' = [breaker EXCEPT ![UrlOf[d]] = Admitted(@)] /\ UNCHANGED <<now, failed>>
    <3>1. Sound(Admitted(breaker[UrlOf[d]]), failed[UrlOf[d]])
      BY <1>0, BreakerSound
    <3>. QED  BY <2>2, <3>1, <1>0, SoundAt
  <2>. QED  BY <1>1, <2>1, <2>2 DEF SendToWebhook
<1>2. ASSUME NEW d \in Delivery, Delivered(d) PROVE BreakerInv'
  <2>1. Sound(Closed(breaker[UrlOf[d]]), 0)
    BY <1>0, BreakerSound
  <2>2. /\ breaker' = [breaker EXCEPT ![UrlOf[d]] = Closed(breaker[UrlOf[d]])]
        /\ failed' = [failed EXCEPT ![UrlOf[d]] = 0] /\ now' = now
    BY <1>2 DEF Delivered
  <2>. QED  BY <2>1, <2>2, <1>0, SoundAt
<1>3. ASSUME NEW d \in Delivery, NEW a \in Answer, NEW n, GiveUp(d, a, n), now' = now PROVE BreakerInv'
  <2>1. CASE a \in {"rejected", "refused"}
    <3>1. breaker' = breaker /\ failed' = failed
      BY <1>0, <1>3, <2>1 DEF GiveUp
    <3>. QED  BY <1>3, <3>1, SoundLater
  <2>2. CASE a \notin {"rejected", "refused"}
    <3>1. Sound(Failed(breaker[UrlOf[d]]), failed[UrlOf[d]] + 1)
      BY <1>0, BreakerSound
    <3>2. /\ breaker' = [breaker EXCEPT ![UrlOf[d]] = Failed(breaker[UrlOf[d]])]
          /\ failed' = [failed EXCEPT ![UrlOf[d]] = failed[UrlOf[d]] + 1]
      BY <1>3, <2>2 DEF GiveUp
    <3>. QED  BY <1>3, <3>1, <3>2, <1>0, SoundAt
  <2>. QED  BY <2>1, <2>2
<1>4. ASSUME NEW d \in Delivery, NEW a \in Answer, NEW ra, Unsuccessful(d, a, ra) PROVE BreakerInv'
  <2>1. now' = now
    BY <1>4 DEF Unsuccessful
  <2>2. CASE UNCHANGED <<breaker, failed>>
    BY <2>1, <2>2, SoundLater
  <2>3. CASE \E n : GiveUp(d, a, n)
    BY <1>3, <2>1, <2>3
  <2>. QED  BY <1>4, <2>2, <2>3 DEF Unsuccessful
<1>5. CASE UNCHANGED <<now, breaker, failed>>
  BY <1>5, SoundLater
<1>6. CASE Tick
  BY <1>6, SoundLater DEF Tick, history
<1>7. ASSUME NEW d \in Delivery, Granted(d) \/ Post(d) \/ Wake(d) PROVE UNCHANGED <<now, breaker, failed>>
  BY <1>7 DEF Granted, Post, Wake, history
<1>8. ReplayLetter \/ UNCHANGED vars => UNCHANGED <<now, breaker, failed>>
  BY DEF ReplayLetter, vars, history
<1>. QED  BY <1>1, <1>2, <1>4, <1>5, <1>6, <1>7, <1>8 DEF Next

\* The circuit of a receiver is open only after Threshold failed deliveries since
\* its last success, and half-open only once its cooldown has passed, however
\* deliveries admitted before and after it opened overlap.
THEOREM CircuitIsSound == Spec => [](CircuitNeedsFailures /\ HalfOpenHasCooled)
<1>1. Init => BreakerInv
  BY WebhookAssumption DEF Init, BreakerInv, Sound
<1>2. TypeOK /\ BreakerInv => CircuitNeedsFailures /\ HalfOpenHasCooled
  <2>. SUFFICES ASSUME TypeOK, BreakerInv, NEW u \in Url
                PROVE  /\ breaker[u].openUntil # 0 => failed[u] >= Threshold
                       /\ breaker[u].halfOpen => breaker[u].openUntil \in 1..now
    BY DEF CircuitNeedsFailures, HalfOpenHasCooled
  <2>. QED  BY DEF TypeOK, BreakerInv, Sound
<1>. QED  BY <1>1, <1>2, TypeCorrect, BreakerStep, PTL DEF Spec

\* A cooldown that has begun keeps its deadline or ends in a success.
THEOREM CooldownNeverMoves == Spec => CooldownIsFixed
<1>1. TypeOK /\ BreakerInv /\ [Next]_vars =>
        [\A u \in Url : Cooling(breaker[u]) => breaker'[u].openUntil \in {0, breaker[u].openUntil}]_vars
  <2>. SUFFICES ASSUME TypeOK, BreakerInv, Next, NEW u \in Url, Cooling(breaker[u])
                PROVE  breaker'[u].openUntil \in {0, breaker[u].openUntil}
    OBVIOUS
  <2>0. /\ breaker[u] \in BreakerEntry /\ now \in Nat
        /\ ~breaker[u].halfOpen /\ breaker[u].openUntil # 0
    BY DEF TypeOK, BreakerInv, Sound, Cooling, BreakerEntry
  <2>1. /\ Admitted(breaker[u]).openUntil = breaker[u].openUntil
        /\ Closed(breaker[u]).openUntil = 0
        /\ Failed(breaker[u]).openUntil = breaker[u].openUntil
    <3>1. Admitted(breaker[u]).openUntil = breaker[u].openUntil
      BY <2>0 DEF Admitted, BreakerEntry
    <3>2. Closed(breaker[u]).openUntil = 0
      BY <2>0 DEF Closed, BreakerEntry
    <3>3. Failed(breaker[u]).openUntil = breaker[u].openUntil
      BY <2>0 DEF Failed, BreakerEntry
    <3>. QED  BY <3>1, <3>2, <3>3
  <2>2. breaker' = breaker \/ \E d \in Delivery :
           \/ breaker' = [breaker EXCEPT ![UrlOf[d]] = Admitted(@)]
           \/ breaker' = [breaker EXCEPT ![UrlOf[d]] = Closed(@)]
           \/ breaker' = [breaker EXCEPT ![UrlOf[d]] = Failed(@)]
    <3>1. ASSUME NEW d \in Delivery, SendToWebhook(d)
          PROVE breaker' = breaker \/ breaker' = [breaker EXCEPT ![UrlOf[d]] = Admitted(@)]
      BY <3>1 DEF SendToWebhook
    <3>2. ASSUME NEW d \in Delivery, Delivered(d) PROVE breaker' = [breaker EXCEPT ![UrlOf[d]] = Closed(@)]
      BY <3>2 DEF Delivered
    <3>3. ASSUME NEW d \in Delivery, NEW a, NEW ra, Unsuccessful(d, a, ra)
          PROVE breaker' = breaker \/ breaker' = [breaker EXCEPT ![UrlOf[d]] = Failed(@)]
      BY <3>3 DEF Unsuccessful, GiveUp
    <3>4. ASSUME NEW d \in Delivery, Granted(d) \/ Post(d) \/ Wake(d) PROVE breaker' = breaker
      BY <3>4 DEF Granted, Post, Wake
    <3>5. ReplayLetter \/ Tick => breaker' = breaker
      BY DEF ReplayLetter, Tick
    <3>. QED  BY <3>1, <3>2, <3>3, <3>4, <3>5 DEF Next
  <2>3. breaker \in [Url -> BreakerEntry] /\ \A d \in Delivery : UrlOf[d] \in Url
    <3>1. breaker \in [Url -> BreakerEntry] BY DEF TypeOK, BreakerEntry
    <3>2. UrlOf \in [Delivery -> Url] BY WebhookAssumption
    <3>. QED  BY <3>1, <3>2
  <2>4. ASSUME NEW d \in Delivery,
               \/ breaker' = [breaker EXCEPT ![UrlOf[d]] = Admitted(@)]
               \/ breaker' = [breaker EXCEPT ![UrlOf[d]] = Closed(@)]
               \/ breaker' = [breaker EXCEPT ![UrlOf[d]] = Failed(@)]
        PROVE  breaker'[u].openUntil \in {0, breaker[u].openUntil}
    <3>1. UrlOf[d] # u => breaker'[u] = breaker[u] BY <2>3, <2>4
    <3>2. UrlOf[d] = u => breaker'[u] \in {Admitted(breaker[u]), Closed(breaker[u]), Failed(breaker[u])}
      BY <2>3, <2>4
    <3>. QED  BY <2>1, <3>1, <3>2
  <2>. QED  BY <2>2, <2>4
<1>2. Init => BreakerInv
  BY WebhookAssumption DEF Init, BreakerInv, Sound
<1>. QED  BY <1>1, <1>2, TypeCorrect, BreakerStep, PTL DEF Spec, CooldownIsFixed

\* A circuit cools down once, for the time it was opened for, for every number of receivers
\* and deliveries, every threshold and cooldown.
THEOREM CircuitCools == Spec => CircuitCoolsDown
BY CircuitIsSound, CooldownNeverMoves, PTL DEF CircuitCoolsDown

\* A circuit neither opens without its failures nor cools down longer than it was opened
\* for, whatever deliveries are under way when it opens, half-opens and closes.
THEOREM CircuitFair == Spec => CircuitIsFair
BY CircuitIsSound, CircuitCools, PTL DEF CircuitIsFair

-----------------------------------------------------------------------------
(* The concurrency queue.                                                  *)

Waiting(d) == \E i \in 1..Len(waiters) : waiters[i] = d

\* The queue lists the waiting deliveries, each once.
QueueOrder ==
  /\ \A d \in Delivery : stage[d] = "waiting" <=> Waiting(d)
  /\ \A i, j \in 1..Len(waiters) : waiters[i] = waiters[j] => i = j

\* running counts the tasks; with the granted turns it fills the limit while
\* anybody waits.
SlotInv ==
  /\ running = Cardinality(Staged(InTask))
  /\ waiters # <<>> => running + Cardinality(Staged({"granted"})) >= Concurrency

QueueInv == QueueOrder /\ SlotInv

\* Sets of deliveries are finite.
LEMMA StagedFinite ==
  ASSUME NEW S PROVE IsFiniteSet(Staged(S)) /\ Cardinality(Staged(S)) \in Nat
BY WebhookAssumption, FS_Subset, FS_CardinalityType DEF Staged

\* A step that changes no queue and moves no delivery into or out of the stages
\* the queue is about.
LEMMA QueueUntouched ==
  ASSUME QueueInv, UNCHANGED queueVars,
         \A d \in Delivery : /\ stage'[d] = "waiting" <=> stage[d] = "waiting"
                             /\ stage'[d] = "granted" <=> stage[d] = "granted"
                             /\ stage'[d] \in InTask <=> stage[d] \in InTask
  PROVE  QueueInv'
<1>1. Staged(InTask)' = Staged(InTask) /\ Staged({"granted"})' = Staged({"granted"})
  BY DEF Staged, InTask
<1>2. SlotInv'
  BY <1>1 DEF QueueInv, SlotInv, queueVars
<1>3. QueueOrder'
  BY DEF QueueInv, QueueOrder, Waiting, queueVars
<1>. QED  BY <1>2, <1>3 DEF QueueInv

\* A delivery that was not waiting takes a slot.
LEMMA QueueEnter ==
  ASSUME TypeOK, QueueInv, NEW d \in Delivery, stage[d] \in {"new", "granted"},
         stage' = [stage EXCEPT ![d] = "preparing"], running' = running + 1, waiters' = waiters
  PROVE  QueueInv'
<1>1. Staged(InTask)' = Staged(InTask) \cup {d} /\ d \notin Staged(InTask)
  BY DEF Staged, InTask, TypeOK
<1>2. running' = Cardinality(Staged(InTask)')
  BY <1>1, StagedFinite, FS_AddElement DEF QueueInv, SlotInv
<1>3. Cardinality(Staged({"granted"})') >= Cardinality(Staged({"granted"})) - 1
  <2>1. Staged({"granted"})' = Staged({"granted"}) \ {d}
    BY DEF Staged, TypeOK
  <2>. DEFINE G == Staged({"granted"})
  <2>2. IsFiniteSet(G) /\ Cardinality(G) \in Nat
    BY StagedFinite
  <2>. HIDE DEF G
  <2>3. Cardinality(G \ {d}) = IF d \in G THEN Cardinality(G) - 1 ELSE Cardinality(G)
    BY <2>2, FS_RemoveElement
  <2>4. Cardinality(G \ {d}) >= Cardinality(G) - 1
    BY <2>2, <2>3
  <2>. QED  BY <2>1, <2>4 DEF G
<1>4. Cardinality(Staged({"granted"})') \in Nat /\ Cardinality(Staged({"granted"})) \in Nat
  <2>1. Staged({"granted"})' = {e \in Delivery : stage'[e] \in {"granted"}}
    BY DEF Staged
  <2>. QED  BY <2>1, StagedFinite, WebhookAssumption, FS_Subset, FS_CardinalityType
<1>5. SlotInv'
  <2>1. waiters # <<>> => running + Cardinality(Staged({"granted"})) >= Concurrency
    BY DEF QueueInv, SlotInv
  <2>2. running \in Int /\ Concurrency \in Nat
    BY WebhookAssumption DEF TypeOK
  <2>3. waiters' # <<>> => running' + Cardinality(Staged({"granted"})') >= Concurrency
    BY <1>3, <1>4, <2>1, <2>2
  <2>. QED  BY <1>2, <2>3 DEF SlotInv
<1>6. QueueOrder'
  BY DEF QueueInv, QueueOrder, Waiting, TypeOK
<1>. QED  BY <1>5, <1>6 DEF QueueInv

\* A new delivery joins the queue.
LEMMA QueueJoin ==
  ASSUME TypeOK, QueueInv, NEW d \in Delivery, stage[d] = "new", running >= Concurrency,
         stage' = [stage EXCEPT ![d] = "waiting"], running' = running, waiters' = Append(waiters, d)
  PROVE  QueueInv'
<1>1. Staged(InTask)' = Staged(InTask) /\ Staged({"granted"})' = Staged({"granted"})
  BY DEF Staged, InTask, TypeOK
<1>2. SlotInv'
  BY <1>1, StagedFinite, WebhookAssumption DEF QueueInv, SlotInv, TypeOK
<1>3. /\ Len(waiters') = Len(waiters) + 1 /\ Len(waiters) \in Nat
      /\ waiters'[Len(waiters) + 1] = d
      /\ \A i \in 1..Len(waiters) : waiters'[i] = waiters[i]
  BY DEF TypeOK
<1>4. \A i \in 1..Len(waiters) : waiters[i] # d
  BY DEF QueueInv, QueueOrder, Waiting
<1>5. \A e \in Delivery : stage'[e] = "waiting" <=> Waiting(e)'
  <2>1. \A e \in Delivery : Waiting(e)' <=> Waiting(e) \/ e = d
    BY <1>3 DEF Waiting
  <2>. QED  BY <2>1 DEF QueueInv, QueueOrder, TypeOK
<1>6. \A i, j \in 1..Len(waiters') : waiters'[i] = waiters'[j] => i = j
  BY <1>3, <1>4 DEF QueueInv, QueueOrder
<1>. QED  BY <1>2, <1>5, <1>6 DEF QueueInv, QueueOrder

\* A task ends: its slot is free or promised to the oldest waiter.
LEMMA QueueLeave ==
  ASSUME TypeOK, QueueInv, NEW d \in Delivery, stage[d] \in InTask, NEW x \in Over,
         Release([stage EXCEPT ![d] = x])
  PROVE  QueueInv'
<1>. DEFINE s == [stage EXCEPT ![d] = x]
<1>0. \A e \in Delivery : s[e] = IF e = d THEN x ELSE stage[e]
  BY DEF TypeOK
<1>1. CASE waiters = <<>>
  <2>1. stage' = s /\ waiters' = waiters /\ running' = running - 1
    BY <1>1 DEF Release
  <2>2. Staged(InTask)' = Staged(InTask) \ {d} /\ d \in Staged(InTask)
    BY <2>1, <1>0 DEF Staged, InTask, Over
  <2>3. running' = Cardinality(Staged(InTask)')
    BY <2>1, <2>2, StagedFinite, FS_RemoveElement DEF QueueInv, SlotInv
  <2>4. QueueOrder'
    <3>1. ~Waiting(d) /\ x # "waiting" BY <1>1 DEF Waiting, Over
    <3>2. \A e \in Delivery : stage'[e] = "waiting" <=> stage[e] = "waiting"
      <4>1. stage[d] # "waiting" BY <3>1 DEF QueueInv, QueueOrder
      <4>. QED  BY <1>0, <2>1, <3>1, <4>1
    <3>. QED  BY <2>1, <3>2 DEF QueueInv, QueueOrder, Waiting
  <2>. QED  BY <1>1, <2>1, <2>3, <2>4 DEF QueueInv, SlotInv
<1>2. CASE waiters # <<>>
  <2>. DEFINE h == Head(waiters)
  <2>1. h = waiters[1] /\ 1 \in 1..Len(waiters) /\ h \in Delivery
    <3>1. waiters \in Seq(Delivery) BY DEF TypeOK
    <3>. QED  BY <1>2, <3>1
  <2>2. stage[h] = "waiting" /\ h # d
    BY <2>1 DEF QueueInv, QueueOrder, Waiting, InTask
  <2>3. stage' = [s EXCEPT ![h] = "granted"] /\ waiters' = Tail(waiters) /\ running' = running - 1
    BY <1>2 DEF Release
  <2>4. \A e \in Delivery : stage'[e] = IF e = h THEN "granted" ELSE IF e = d THEN x ELSE stage[e]
    BY <2>1, <2>2, <2>3 DEF TypeOK
  <2>5. Staged(InTask)' = Staged(InTask) \ {d} /\ d \in Staged(InTask)
    BY <2>2, <2>4 DEF Staged, InTask, Over
  <2>6. running' = Cardinality(Staged(InTask)')
    BY <2>3, <2>5, StagedFinite, FS_RemoveElement DEF QueueInv, SlotInv
  <2>7. Staged({"granted"})' = Staged({"granted"}) \cup {h} /\ h \notin Staged({"granted"})
    BY <2>1, <2>2, <2>4 DEF Staged, InTask, Over
  <2>8. Cardinality(Staged({"granted"})') = Cardinality(Staged({"granted"})) + 1
    BY <2>7, StagedFinite, FS_AddElement
  <2>9. SlotInv'
    BY <1>2, <2>3, <2>6, <2>8, StagedFinite, WebhookAssumption DEF QueueInv, SlotInv, TypeOK
  <2>10. /\ Len(waiters') = Len(waiters) - 1 /\ Len(waiters) \in Nat
         /\ \A i \in 1..Len(waiters') : waiters'[i] = waiters[i + 1]
    BY <1>2, <2>3 DEF TypeOK
  <2>11. \A e \in Delivery : Waiting(e)' <=> Waiting(e) /\ e # h
    <3>1. \A e \in Delivery : Waiting(e)' => Waiting(e) /\ e # h
      BY <2>1, <2>10 DEF Waiting, QueueInv, QueueOrder
    <3>2. ASSUME NEW e \in Delivery, Waiting(e), e # h PROVE Waiting(e)'
      <4>1. PICK i \in 1..Len(waiters) : waiters[i] = e
        BY <3>2 DEF Waiting
      <4>2. i # 1 /\ i - 1 \in 1..Len(waiters') /\ (i - 1) + 1 = i
        BY <2>1, <2>10, <3>2, <4>1
      <4>3. waiters'[i - 1] = e
        BY <2>10, <4>1, <4>2
      <4>. QED  BY <4>2, <4>3 DEF Waiting
    <3>. QED  BY <3>1, <3>2
  <2>12. \A e \in Delivery : stage'[e] = "waiting" <=> Waiting(e)'
    BY <2>4, <2>11 DEF QueueInv, QueueOrder, InTask, Over
  <2>13. ASSUME NEW i \in 1..Len(waiters'), NEW j \in 1..Len(waiters'), waiters'[i] = waiters'[j]
         PROVE  i = j
    <3>1. /\ i + 1 \in 1..Len(waiters) /\ j + 1 \in 1..Len(waiters)
          /\ waiters[i + 1] = waiters[j + 1]
      BY <2>10, <2>13
    <3>2. i + 1 = j + 1
      BY <3>1 DEF QueueInv, QueueOrder
    <3>. QED  BY <3>2
  <2>. QED  BY <2>9, <2>12, <2>13 DEF QueueInv, QueueOrder
<1>. QED  BY <1>1, <1>2

\* Every step keeps the queue.
LEMMA QueueStep == TypeOK /\ QueueInv /\ [Next]_vars => QueueInv'
<1>. SUFFICES ASSUME TypeOK, QueueInv, [Next]_vars PROVE QueueInv'
  OBVIOUS
<1>1. ASSUME NEW d \in Delivery, SendToWebhook(d) PROVE QueueInv'
  <2>1. CASE (\E x \in {"skipped", "blocked"} : stage' = [stage EXCEPT ![d] = x]) /\ UNCHANGED queueVars
    <3>1. stage[d] = "new"
      BY <1>1 DEF SendToWebhook
    <3>. QED  BY <2>1, <3>1, QueueUntouched DEF TypeOK, InTask
  <2>2. CASE running >= Concurrency /\ waiters' = Append(waiters, d) /\ stage' = [stage EXCEPT ![d] = "waiting"] /\ running' = running
    BY <1>1, <2>2, QueueJoin DEF SendToWebhook
  <2>3. CASE running' = running + 1 /\ stage' = Start(d, stage) /\ waiters' = waiters
    BY <1>1, <2>3, QueueEnter DEF SendToWebhook, Start
  <2>. QED  BY <1>1, <2>1, <2>2, <2>3 DEF SendToWebhook
<1>2. ASSUME NEW d \in Delivery, Granted(d) PROVE QueueInv'
  BY <1>2, QueueEnter DEF Granted, Start
<1>3. ASSUME NEW d \in Delivery, NEW x \in InTask, stage[d] \in InTask,
             stage' = [stage EXCEPT ![d] = x], UNCHANGED queueVars
      PROVE QueueInv'
  BY <1>3, QueueUntouched DEF TypeOK, InTask
<1>4. ASSUME NEW d \in Delivery, Post(d) \/ Wake(d) PROVE QueueInv'
  BY <1>3, <1>4 DEF Post, Wake, Start, InTask
<1>5. ASSUME NEW d \in Delivery, Delivered(d) PROVE QueueInv'
  BY <1>5, QueueLeave DEF Delivered, InTask, Over
<1>6. ASSUME NEW d \in Delivery, NEW a, NEW ra, Unsuccessful(d, a, ra) PROVE QueueInv'
  <2>1. stage[d] \in InTask
    BY <1>6 DEF Unsuccessful, InTask
  <2>2. CASE \E n : GiveUp(d, a, n)
    BY <2>1, <2>2, QueueLeave DEF GiveUp, Over
  <2>3. CASE stage' = [stage EXCEPT ![d] = "sleeping"] /\ UNCHANGED queueVars
    BY <1>3, <2>1, <2>3 DEF InTask
  <2>. QED  BY <1>6, <2>2, <2>3 DEF Unsuccessful
<1>7. CASE UNCHANGED <<stage, queueVars>>
  BY <1>7, QueueUntouched
<1>8. ReplayLetter \/ Tick \/ UNCHANGED vars => UNCHANGED <<stage, queueVars>>
  BY DEF ReplayLetter, Tick, vars
<1>. QED  BY <1>1, <1>2, <1>4, <1>5, <1>6, <1>7, <1>8 DEF Next

\* At the start nobody runs or waits.
LEMMA QueueInit == Init => QueueInv
<1>. SUFFICES ASSUME Init PROVE QueueInv
  OBVIOUS
<1>1. Staged(InTask) = {} /\ waiters = <<>> /\ running = 0
  BY DEF Init, Staged, InTask
<1>2. SlotInv
  BY <1>1, FS_EmptySet DEF SlotInv
<1>3. QueueOrder
  BY <1>1 DEF QueueOrder, Waiting, Init
<1>. QED  BY <1>2, <1>3 DEF QueueInv

\* No turn of the concurrency queue is lost: running counts the tasks, the queue
\* holds exactly the deliveries that wait, and while one waits the limit is used
\* up by tasks and by turns already promised.
THEOREM NoTurnIsLost == Spec => []QueueKeepsTurns
<1>1. TypeOK /\ QueueInv => QueueKeepsTurns
  <2>. SUFFICES ASSUME TypeOK, QueueInv PROVE QueueKeepsTurns
    OBVIOUS
  <2>1. DOMAIN waiters = 1..Len(waiters) /\ \A i \in 1..Len(waiters) : waiters[i] \in Delivery
    BY DEF TypeOK
  <2>2. Staged({"waiting"}) = {waiters[i] : i \in DOMAIN waiters}
    BY <2>1 DEF QueueInv, QueueOrder, Waiting, Staged
  <2>. QED  BY <2>2 DEF QueueInv, SlotInv, QueueKeepsTurns
<1>. QED  BY <1>1, QueueInit, TypeCorrect, QueueStep, PTL DEF Spec

-----------------------------------------------------------------------------
(* Attempts, their answers and the dead letters.                           *)

\* What the end of a task does to the stages: d is over, a waiter may be granted
\* its turn, nobody else moves.
LEMMA LeaveStages ==
  ASSUME TypeOK, QueueOrder, NEW d \in Delivery, stage[d] \in InTask, NEW x \in Over,
         Release([stage EXCEPT ![d] = x])
  PROVE  \A e \in Delivery :
           IF e = d THEN stage'[e] = x
           ELSE stage'[e] = stage[e] \/ (stage[e] = "waiting" /\ stage'[e] = "granted")
<1>. DEFINE s == [stage EXCEPT ![d] = x]
<1>0. \A e \in Delivery : s[e] = IF e = d THEN x ELSE stage[e]
  BY DEF TypeOK
<1>1. CASE waiters = <<>>
  BY <1>0, <1>1 DEF Release
<1>2. CASE waiters # <<>>
  <2>1. Head(waiters) = waiters[1] /\ 1 \in 1..Len(waiters) /\ Head(waiters) \in Delivery
    BY <1>2 DEF TypeOK
  <2>2. stage[Head(waiters)] = "waiting" /\ Head(waiters) # d
    BY <2>1 DEF QueueOrder, Waiting, InTask
  <2>3. stage' = [s EXCEPT ![Head(waiters)] = "granted"]
    BY <1>2 DEF Release
  <2>. QED  BY <1>0, <2>1, <2>2, <2>3 DEF TypeOK
<1>. QED  BY <1>1, <1>2

Verdict == {"ok", "rejected", "refused"}

\* What is known of delivery d with stage st, n completed attempts, p POSTs, the
\* last answer a, allowed again at time nb, asleep until w.
Fits(st, n, p, a, nb, w, t) ==
  /\ st \notin Over => n < MaxAttempts /\ a \notin Verdict
  /\ st \notin Over => p <= n + (IF st = "posting" THEN 1 ELSE 0)
  /\ st \in {"new", "waiting", "granted"} => nb = 0
  /\ st = "preparing" => nb <= t
  /\ st = "sleeping" => nb <= w

FitsAt(d) == Fits(stage[d], attempt[d], posts[d], heard[d], notBefore[d], wakeAt[d], now)
AttemptInv == \A d \in Delivery : FitsAt(d)

\* Time passes, and what is waiting may be granted its turn.
LEMMA FitsLater ==
  ASSUME TypeOK, NEW e \in Delivery, FitsAt(e), now' \in Nat, now' >= now,
         attempt'[e] = attempt[e], posts'[e] = posts[e], heard'[e] = heard[e],
         notBefore'[e] = notBefore[e], wakeAt'[e] = wakeAt[e],
         stage'[e] = stage[e] \/ (stage[e] \in {"new", "waiting"} /\ stage'[e] \in {"waiting", "granted"})
  PROVE  FitsAt(e)'
BY DEF TypeOK, FitsAt, Fits, Over

\* Every step keeps it.
LEMMA AttemptStep == TypeOK /\ TypeOK' /\ QueueInv /\ AttemptInv /\ [Next]_vars => AttemptInv'
<1>. SUFFICES ASSUME TypeOK, TypeOK', QueueInv, AttemptInv, [Next]_vars, NEW e \in Delivery PROVE FitsAt(e)'
  BY DEF AttemptInv
<1>. FitsAt(e) /\ now \in Nat /\ now' \in Nat
  BY DEF AttemptInv, TypeOK
<1>0. /\ attempt[e] \in Nat /\ posts[e] \in Nat /\ notBefore[e] \in Nat /\ wakeAt[e] \in Nat
      /\ stage[e] \in Stage /\ MaxAttempts \in Nat
  BY WebhookAssumption DEF TypeOK
<1>1. ASSUME NEW d \in Delivery, SendToWebhook(d) PROVE FitsAt(e)'
  <2>1. UNCHANGED <<now, attempt, posts, heard, notBefore, wakeAt>>
    BY <1>1 DEF SendToWebhook
  <2>2. CASE e # d
    <3>1. stage'[e] = stage[e]
      BY <1>1, <2>2 DEF SendToWebhook, Start, TypeOK
    <3>. QED  BY <2>1, <3>1, FitsLater
  <2>3. CASE e = d
    <3>1. stage[e] = "new" /\ stage'[e] \in {"skipped", "blocked", "waiting", "preparing"}
      BY <1>1, <2>3 DEF SendToWebhook, Start, TypeOK
    <3>. QED  BY <1>0, <2>1, <3>1 DEF FitsAt, Fits, Over
  <2>. QED  BY <2>2, <2>3
<1>2. ASSUME NEW d \in Delivery, Granted(d) PROVE FitsAt(e)'
  <2>1. UNCHANGED <<now, attempt, posts, heard, notBefore, wakeAt>>
    BY <1>2 DEF Granted, history
  <2>2. stage[d] = "granted" /\ stage' = [stage EXCEPT ![d] = "preparing"]
    BY <1>2 DEF Granted, Start
  <2>3. CASE e # d
    <3>1. stage'[e] = stage[e]
      BY <2>2, <2>3 DEF TypeOK
    <3>. QED  BY <2>1, <3>1, FitsLater
  <2>4. CASE e = d
    <3>1. stage[e] = "granted" /\ stage'[e] = "preparing"
      BY <2>2, <2>4 DEF TypeOK
    <3>. QED  BY <1>0, <2>1, <3>1 DEF FitsAt, Fits, Over
  <2>. QED  BY <2>3, <2>4
<1>3. ASSUME NEW d \in Delivery, Post(d) PROVE FitsAt(e)'
  <2>1. UNCHANGED <<now, attempt, heard, notBefore, wakeAt>>
    BY <1>3 DEF Post
  <2>2. /\ stage[d] = "preparing" /\ stage' = [stage EXCEPT ![d] = "posting"]
        /\ posts' = [posts EXCEPT ![d] = @ + 1]
    BY <1>3 DEF Post
  <2>3. CASE e # d
    <3>1. stage'[e] = stage[e] /\ posts'[e] = posts[e]
      BY <2>2, <2>3 DEF TypeOK
    <3>. QED  BY <2>1, <3>1, FitsLater
  <2>4. CASE e = d
    <3>1. stage[e] = "preparing" /\ stage'[e] = "posting" /\ posts'[e] = posts[e] + 1
      BY <2>2, <2>4 DEF TypeOK
    <3>. QED  BY <1>0, <2>1, <3>1 DEF FitsAt, Fits, Over
  <2>. QED  BY <2>3, <2>4
<1>4. ASSUME NEW d \in Delivery, Wake(d) PROVE FitsAt(e)'
  <2>1. UNCHANGED <<now, attempt, posts, heard, notBefore, wakeAt>>
    BY <1>4 DEF Wake, history
  <2>2. stage[d] = "sleeping" /\ stage' = [stage EXCEPT ![d] = "preparing"] /\ now >= wakeAt[d]
    BY <1>4 DEF Wake, Start
  <2>3. CASE e # d
    <3>1. stage'[e] = stage[e]
      BY <2>2, <2>3 DEF TypeOK
    <3>. QED  BY <2>1, <3>1, FitsLater
  <2>4. CASE e = d
    <3>1. stage[e] = "sleeping" /\ stage'[e] = "preparing" /\ now >= wakeAt[e]
      BY <2>2, <2>4 DEF TypeOK
    <3>. QED  BY <1>0, <2>1, <3>1 DEF FitsAt, Fits, Over
  <2>. QED  BY <2>3, <2>4
<1>5. ASSUME NEW d \in Delivery, stage[d] \in InTask, NEW x \in Over, Release([stage EXCEPT ![d] = x]),
             now' = now, UNCHANGED <<posts, notBefore, wakeAt>>,
             e # d => attempt'[e] = attempt[e] /\ heard'[e] = heard[e]
      PROVE  FitsAt(e)'
  <2>1. IF e = d THEN stage'[e] = x
        ELSE stage'[e] = stage[e] \/ (stage[e] = "waiting" /\ stage'[e] = "granted")
    BY <1>5, LeaveStages DEF QueueInv
  <2>2. CASE e = d
    BY <1>5, <2>1, <2>2 DEF FitsAt, Fits, Over
  <2>3. CASE e # d
    BY <1>5, <2>1, <2>3, FitsLater
  <2>. QED  BY <2>2, <2>3
<1>6. ASSUME NEW d \in Delivery, Delivered(d) PROVE FitsAt(e)'
  <2>1. e # d => heard'[e] = heard[e]
    BY <1>6 DEF Delivered, TypeOK
  <2>. QED  BY <1>5, <1>6, <2>1 DEF Delivered, InTask, Over
<1>7. ASSUME NEW d \in Delivery, NEW a \in Answer, NEW ra \in RetryAfter \cup {-1}, Unsuccessful(d, a, ra)
      PROVE  FitsAt(e)'
  <2>. DEFINE n == attempt[d] + (IF a = "refused" THEN 0 ELSE 1)
  <2>1. /\ stage[d] \in {"preparing", "posting"} /\ now' = now /\ posts' = posts
        /\ heard' = [heard EXCEPT ![d] = a] /\ a # "ok"
    BY <1>7 DEF Unsuccessful
  <2>2. CASE Final(a) \/ Last(n)
    <3>1. GiveUp(d, a, n) /\ UNCHANGED <<wakeAt, notBefore>>
      BY <1>7, <2>2 DEF Unsuccessful
    <3>2. Release([stage EXCEPT ![d] = "failed"]) /\ attempt' = [attempt EXCEPT ![d] = n]
      BY <3>1 DEF GiveUp
    <3>3. e # d => attempt'[e] = attempt[e] /\ heard'[e] = heard[e]
      BY <2>1, <3>2 DEF TypeOK
    <3>. QED  BY <1>5, <2>1, <3>1, <3>2, <3>3 DEF InTask, Over
  <2>3. CASE ~(Final(a) \/ Last(n))
    <3>1. /\ attempt' = [attempt EXCEPT ![d] = n]
          /\ wakeAt' = [wakeAt EXCEPT ![d] = now + NextDelay(d, a, ra)]
          /\ notBefore' = [notBefore EXCEPT ![d] = IF ra >= 0 THEN now + ra ELSE 0]
          /\ stage' = [stage EXCEPT ![d] = "sleeping"]
      BY <1>7, <2>3 DEF Unsuccessful
    <3>2. CASE e # d
      <4>1. /\ stage'[e] = stage[e] /\ attempt'[e] = attempt[e] /\ heard'[e] = heard[e]
            /\ notBefore'[e] = notBefore[e] /\ wakeAt'[e] = wakeAt[e]
        BY <2>1, <3>1, <3>2 DEF TypeOK
      <4>. QED  BY <2>1, <4>1, FitsLater
    <3>3. CASE e = d
      <4>1. n = attempt[e] + 1 /\ a \notin Verdict /\ n # MaxAttempts
        BY <2>1, <2>3, <3>3 DEF Final, Last, Verdict
      <4>2. /\ stage'[e] = "sleeping" /\ attempt'[e] = n /\ heard'[e] = a
            /\ notBefore'[e] = (IF ra >= 0 THEN now + ra ELSE 0)
            /\ wakeAt'[e] = now + NextDelay(d, a, ra)
        BY <2>1, <3>1, <3>3 DEF TypeOK
      <4>3. notBefore'[e] <= wakeAt'[e]
        <5>1. ra >= 0 => NextDelay(d, a, ra) = ra
          BY DEF NextDelay
        <5>2. wakeAt'[e] \in Nat
          BY DEF TypeOK
        <5>. QED  BY <4>2, <5>1, <5>2, WebhookAssumption
      <4>4. attempt[e] < MaxAttempts /\ posts[e] <= attempt[e] + 1
        BY <1>0, <2>1, <3>3 DEF FitsAt, Fits, Over
      <4>5. attempt'[e] < MaxAttempts /\ posts'[e] <= attempt'[e]
        BY <1>0, <2>1, <4>1, <4>2, <4>4
      <4>6. stage'[e] = "sleeping" /\ heard'[e] \notin Verdict /\ attempt'[e] \in Nat /\ posts'[e] \in Nat
        BY <4>1, <4>2 DEF TypeOK
      <4>. QED  BY <4>3, <4>5, <4>6 DEF FitsAt, Fits
    <3>. QED  BY <3>2, <3>3
  <2>. QED  BY <2>2, <2>3
<1>8. CASE Tick \/ ReplayLetter \/ UNCHANGED vars
  <2>1. now' >= now /\ UNCHANGED <<stage, attempt, posts, heard, notBefore, wakeAt>>
    BY <1>8 DEF Tick, ReplayLetter, vars, history
  <2>. QED  BY <2>1, FitsLater
<1>. QED  BY <1>1, <1>2, <1>3, <1>4, <1>6, <1>7, <1>8 DEF Next

LEMMA AttemptInit == Init => AttemptInv
BY WebhookAssumption DEF Init, AttemptInv, FitsAt, Fits, Verdict, Over

\* What holds of each step follows from the invariant before it: only Post
\* makes a POST.
LEMMA PostStep ==
  ASSUME TypeOK, AttemptInv, [Next]_vars, NEW d \in Delivery, posts'[d] > posts[d]
  PROVE  /\ now >= notBefore[d]
         /\ heard[d] \notin Verdict /\ posts'[d] <= MaxAttempts
<1>1. PICK e \in Delivery : Post(e)
  <2>1. ASSUME NEW e \in Delivery, SendToWebhook(e) \/ Granted(e) \/ Delivered(e) \/ Wake(e) PROVE posts' = posts
    BY <2>1 DEF SendToWebhook, Granted, Delivered, Wake, history
  <2>2. ASSUME NEW e \in Delivery, NEW a, NEW ra, Unsuccessful(e, a, ra) PROVE posts' = posts
    BY <2>2 DEF Unsuccessful
  <2>3. Tick \/ ReplayLetter \/ UNCHANGED vars => posts' = posts
    BY DEF Tick, ReplayLetter, vars, history
  <2>4. posts' # posts
    BY DEF TypeOK
  <2>. QED  BY <2>1, <2>2, <2>3, <2>4 DEF Next
<1>2. posts' = [posts EXCEPT ![e] = @ + 1] /\ stage[e] = "preparing"
  BY <1>1 DEF Post
<1>3. e = d /\ posts'[d] = posts[d] + 1
  BY <1>2 DEF TypeOK
<1>4. FitsAt(d) /\ stage[d] = "preparing"
  BY <1>2, <1>3 DEF AttemptInv
<1>5. posts[d] \in Nat /\ attempt[d] \in Nat /\ MaxAttempts \in Nat /\ now \in Nat /\ notBefore[d] \in Nat
  BY WebhookAssumption DEF TypeOK
<1>. QED  BY <1>3, <1>4, <1>5 DEF FitsAt, Fits, Over

\* A receiver's Retry-After is respected: no POST of the event before that time.
THEOREM RetryAfterRespected == Spec => RetryAfterIsKept
<1>1. TypeOK /\ AttemptInv /\ [Next]_vars =>
        [\A d \in Delivery : posts'[d] > posts[d] => now >= notBefore[d]]_vars
  BY PostStep
<1>. QED  BY <1>1, QueueInit, TypeCorrect, AttemptInit, AttemptStep, QueueStep, PTL DEF Spec, RetryAfterIsKept

\* A verdict ends the attempts, and there are never more than MaxAttempts POSTs.
THEOREM VerdictEndsAttempts == Spec => NoPostAfterVerdict
<1>1. TypeOK /\ AttemptInv /\ [Next]_vars =>
        [\A d \in Delivery : posts'[d] > posts[d] =>
           heard[d] \notin {"ok", "rejected", "refused"} /\ posts'[d] <= MaxAttempts]_vars
  BY PostStep DEF Verdict
<1>. QED  BY <1>1, QueueInit, TypeCorrect, AttemptInit, AttemptStep, QueueStep, PTL DEF Spec, NoPostAfterVerdict

\* However attempts, sleeps and waits for a slot or for the breaker interleave, no POST comes
\* before the time a receiver asked for, after its verdict, or beyond MaxAttempts.
THEOREM AnswersHeeded == Spec => AnswersAreHeeded
BY RetryAfterRespected, VerdictEndsAttempts DEF AnswersAreHeeded

\* The dead letters ever added are the deliveries given up.
KeptIffGivenUp == Staged({"failed"}) = {added[i] : i \in DOMAIN added}
KeptInv == KeptIffGivenUp /\ added \in Seq(Delivery)

\* A step that neither fails a delivery nor adds a letter.
LEMMA KeptUntouched ==
  ASSUME KeptInv, added' = added, \A e \in Delivery : stage'[e] = "failed" <=> stage[e] = "failed"
  PROVE  KeptInv'
BY DEF KeptInv, KeptIffGivenUp, Staged

\* A delivery is added to the dead letters when it is given up, and never otherwise.
LEMMA KeptAlways == Spec => []KeptInv
<1>1. Init => KeptInv
  BY DEF Init, KeptInv, KeptIffGivenUp, Staged, Letters!LettersInit
<1>2. TypeOK /\ QueueInv /\ KeptInv /\ [Next]_vars => KeptInv'
  <2>. SUFFICES ASSUME TypeOK, QueueInv, KeptInv, [Next]_vars PROVE KeptInv'
    OBVIOUS
  <2>1. ASSUME NEW d \in Delivery, SendToWebhook(d) \/ Granted(d) \/ Post(d) \/ Wake(d) PROVE KeptInv'
    <3>1. added' = added
      BY <2>1 DEF SendToWebhook, Granted, Post, Wake, letterVars
    <3>2. stage[d] # "failed" /\ \E x \in Stage \ {"failed"} : stage' = [stage EXCEPT ![d] = x]
      BY <2>1 DEF SendToWebhook, Granted, Post, Wake, Start, Stage
    <3>. QED  BY <3>1, <3>2, KeptUntouched DEF TypeOK
  <2>2. ASSUME NEW d \in Delivery, Delivered(d) PROVE KeptInv'
    <3>1. added' = added /\ stage[d] = "posting" /\ Release([stage EXCEPT ![d] = "success"])
      BY <2>2 DEF Delivered, letterVars
    <3>2. \A e \in Delivery : stage'[e] = "failed" <=> stage[e] = "failed"
      BY <3>1, LeaveStages DEF QueueInv, InTask, Over
    <3>. QED  BY <3>1, <3>2, KeptUntouched
  <2>3. ASSUME NEW d \in Delivery, NEW a, NEW ra, Unsuccessful(d, a, ra) PROVE KeptInv'
    <3>1. stage[d] \in {"preparing", "posting"}
      BY <2>3 DEF Unsuccessful
    <3>2. CASE stage' = [stage EXCEPT ![d] = "sleeping"] /\ UNCHANGED letterVars
      BY <3>1, <3>2, KeptUntouched DEF TypeOK, letterVars
    <3>3. CASE \E n : GiveUp(d, a, n)
      <4>1. Release([stage EXCEPT ![d] = "failed"]) /\ added' = Append(added, d)
        BY <3>3 DEF GiveUp, Keep, Letters!Add
      <4>2. \A e \in Delivery : stage'[e] = "failed" <=> stage[e] = "failed" \/ e = d
        BY <3>1, <4>1, LeaveStages DEF QueueInv, InTask, Over
      <4>3. Staged({"failed"})' = Staged({"failed"}) \cup {d}
        BY <4>2 DEF Staged
      <4>4. /\ DOMAIN added' = 1..(Len(added) + 1) /\ DOMAIN added = 1..Len(added) /\ Len(added) \in Nat
            /\ added'[Len(added) + 1] = d
            /\ \A i \in 1..Len(added) : added'[i] = added[i]
            /\ added' \in Seq(Delivery)
        BY <4>1 DEF KeptInv
      <4>5. {added'[i] : i \in DOMAIN added'} = {added[i] : i \in DOMAIN added} \cup {d}
        BY <4>4
      <4>. QED  BY <4>3, <4>4, <4>5 DEF KeptInv, KeptIffGivenUp
    <3>. QED  BY <2>3, <3>2, <3>3 DEF Unsuccessful
  <2>4. CASE ReplayLetter
    <3>1. added' = added
      BY <2>4 DEF ReplayLetter, Letters!Replaying, Letters!RetryOne, Letters!OneAnswered,
                  Letters!RetryAll, Letters!AllAnswered, Letters!Clear
    <3>. QED  BY <2>4, <3>1, KeptUntouched DEF ReplayLetter
  <2>5. CASE Tick \/ UNCHANGED vars
    BY <2>5, KeptUntouched DEF Tick, vars, letterVars
  <2>. QED  BY <2>1, <2>2, <2>3, <2>4, <2>5 DEF Next
<1>. QED  BY <1>1, <1>2, QueueInit, TypeCorrect, QueueStep, PTL DEF Spec

\* The last answer a delivery has heard fits its stage: none before it is tried.
Heard(st, a) ==
  /\ st \in {"new", "waiting", "granted", "skipped", "blocked"} => a = "none"
  /\ st = "success" => a = "ok"
  /\ st = "failed" => a \notin {"none", "ok"}
HeardInv == \A d \in Delivery : Heard(stage[d], heard[d])

\* Every step keeps it.
LEMMA HeardStep == TypeOK /\ QueueInv /\ HeardInv /\ [Next]_vars => HeardInv'
<1>. SUFFICES ASSUME TypeOK, QueueInv, HeardInv, [Next]_vars, NEW e \in Delivery
              PROVE  Heard(stage'[e], heard'[e])
  BY DEF HeardInv
<1>0. Heard(stage[e], heard[e]) BY DEF HeardInv
<1>1. ASSUME NEW d \in Delivery, SendToWebhook(d) PROVE Heard(stage'[e], heard'[e])
  <2>1. heard' = heard /\ stage[d] = "new" /\ \A f \in Delivery \ {d} : stage'[f] = stage[f]
    BY <1>1 DEF SendToWebhook, Start, TypeOK
  <2>2. CASE e # d BY <1>0, <2>1, <2>2
  <2>3. CASE e = d
    <3>1. stage'[d] \in {"skipped", "blocked", "waiting", "preparing"}
      BY <1>1 DEF SendToWebhook, Start, TypeOK
    <3>. QED  BY <1>0, <2>1, <2>3, <3>1 DEF Heard
  <2>. QED  BY <2>2, <2>3
<1>2. ASSUME NEW d \in Delivery, Granted(d) \/ Post(d) \/ Wake(d) PROVE Heard(stage'[e], heard'[e])
  <2>1. heard' = heard /\ \E x \in {"preparing", "posting"} : stage' = [stage EXCEPT ![d] = x]
    BY <1>2 DEF Granted, Post, Wake, Start, history
  <2>. QED  BY <1>0, <2>1 DEF Heard, TypeOK
<1>3. ASSUME NEW d \in Delivery, NEW x \in {"success", "failed"}, NEW a \in Answer,
             stage[d] \in {"preparing", "posting"}, Release([stage EXCEPT ![d] = x]),
             heard' = [heard EXCEPT ![d] = a], Heard(x, a)
      PROVE  Heard(stage'[e], heard'[e])
  <2>1. IF e = d THEN stage'[e] = x
        ELSE stage'[e] = stage[e] \/ (stage[e] = "waiting" /\ stage'[e] = "granted")
    BY <1>3, LeaveStages DEF QueueInv, InTask, Over
  <2>2. heard'[e] = IF e = d THEN a ELSE heard[e] BY <1>3 DEF TypeOK
  <2>. QED  BY <1>0, <1>3, <2>1, <2>2 DEF Heard
<1>4. ASSUME NEW d \in Delivery, Delivered(d) PROVE Heard(stage'[e], heard'[e])
  <2>1. Heard("success", "ok") /\ "ok" \in Answer BY DEF Heard, Answer
  <2>2. stage[d] = "posting" /\ Release([stage EXCEPT ![d] = "success"])
        /\ heard' = [heard EXCEPT ![d] = "ok"]
    BY <1>4 DEF Delivered
  <2>3. stage[d] \in {"preparing", "posting"} BY <2>2
  <2>. QED  BY <1>3, <2>1, <2>2, <2>3
<1>5. ASSUME NEW d \in Delivery, NEW a \in Answer, NEW ra, Unsuccessful(d, a, ra)
      PROVE  Heard(stage'[e], heard'[e])
  <2>1. /\ stage[d] \in {"preparing", "posting"} /\ heard' = [heard EXCEPT ![d] = a]
        /\ a \notin {"none", "ok"}
    BY <1>5 DEF Unsuccessful, Answer
  <2>2. CASE stage' = [stage EXCEPT ![d] = "sleeping"]
    BY <1>0, <2>1, <2>2 DEF Heard, TypeOK
  <2>3. CASE \E n : GiveUp(d, a, n)
    <3>1. Release([stage EXCEPT ![d] = "failed"]) BY <2>3 DEF GiveUp
    <3>2. Heard("failed", a) BY <2>1 DEF Heard
    <3>. QED  BY <1>3, <2>1, <3>1, <3>2
  <2>. QED  BY <1>5, <2>2, <2>3 DEF Unsuccessful
<1>6. CASE ReplayLetter \/ Tick \/ UNCHANGED vars
  <2>1. stage' = stage /\ heard' = heard
    BY <1>6 DEF ReplayLetter, Tick, vars, history
  <2>. QED  BY <1>0, <2>1
<1>. QED  BY <1>1, <1>2, <1>4, <1>5, <1>6 DEF Next

\* An event that was tried is in the dead letters exactly when its delivery is over and the
\* last attempt did not reach the receiver, whatever retries and replays go on.
THEOREM FailuresAreKept == Spec => []KeptUnlessReceived
<1>1. Init => HeardInv
  BY DEF Init, HeardInv, Heard
<1>2. TypeOK /\ HeardInv /\ KeptInv => KeptUnlessReceived
  <2>. SUFFICES ASSUME TypeOK, HeardInv, KeptInv, NEW d \in Delivery
                PROVE  d \in Letters!Elems(added) <=> stage[d] \in Over /\ heard[d] \notin {"none", "ok"}
    BY DEF KeptUnlessReceived
  <2>1. d \in Letters!Elems(added) <=> stage[d] = "failed"
    BY DEF Letters!Elems, KeptInv, KeptIffGivenUp, Staged
  <2>2. stage[d] \in Over /\ heard[d] \notin {"none", "ok"} <=> stage[d] = "failed"
    BY DEF HeardInv, Heard, Over
  <2>. QED  BY <2>1, <2>2
<1>. QED  BY <1>1, <1>2, HeardStep, KeptAlways, QueueInit, TypeCorrect, QueueStep, PTL DEF Spec

\* An event is dropped untried only if its receiver is blocked, or if there is a breaker and
\* Threshold deliveries to the receiver failed since the last that succeeded.
THEOREM NoneIsDroppedEarly == Spec => UntriedForCause
<1>1. TypeOK /\ QueueInv /\ CircuitNeedsFailures /\ [Next]_vars =>
        [\A d \in Delivery : stage[d] = "new" /\ stage'[d] \in Over =>
           \/ UrlOf[d] \in Blocked
           \/ Threshold > 0 /\ failed[UrlOf[d]] >= Threshold]_vars
  <2>. SUFFICES ASSUME TypeOK, QueueInv, CircuitNeedsFailures, [Next]_vars, NEW d \in Delivery,
                       stage[d] = "new", stage'[d] \in Over
                PROVE  \/ UrlOf[d] \in Blocked
                       \/ Threshold > 0 /\ failed[UrlOf[d]] >= Threshold
    OBVIOUS
  <2>1. ASSUME NEW e \in Delivery, SendToWebhook(e)
        PROVE  \/ UrlOf[d] \in Blocked
               \/ Threshold > 0 /\ failed[UrlOf[d]] >= Threshold
    <3>1. e = d BY <2>1 DEF SendToWebhook, Start, TypeOK, Over
    <3>2. CASE Cooling(breaker[UrlOf[d]])
      <4>1. UrlOf[d] \in Url BY WebhookAssumption
      <4>. QED  BY <3>2, <4>1 DEF Cooling, CircuitNeedsFailures
    <3>3. CASE UrlOf[d] \in Blocked BY <3>3
    <3>4. CASE UrlOf[d] \notin Blocked /\ ~Cooling(breaker[UrlOf[d]])
      <4>1. stage'[d] \in {"waiting", "preparing"}
        BY <2>1, <3>1, <3>4 DEF SendToWebhook, Start, TypeOK
      <4>. QED  BY <4>1 DEF Over
    <3>. QED  BY <3>2, <3>3, <3>4
  <2>2. ASSUME NEW e \in Delivery, Granted(e) \/ Post(e) \/ Wake(e) PROVE FALSE
    BY <2>2 DEF Granted, Post, Wake, Start, TypeOK, Over
  <2>3. ASSUME NEW e \in Delivery, NEW x \in {"success", "failed"}, stage[e] \in {"preparing", "posting"},
               Release([stage EXCEPT ![e] = x])
        PROVE  FALSE
    <3>1. stage'[d] = stage[d] \/ (stage[d] = "waiting" /\ stage'[d] = "granted")
      BY <2>3, LeaveStages DEF QueueInv, InTask, Over
    <3>. QED  BY <3>1 DEF Over
  <2>4. ASSUME NEW e \in Delivery, NEW a \in Answer, NEW ra, Unsuccessful(e, a, ra) PROVE FALSE
    <3>1. stage[e] \in {"preparing", "posting"} BY <2>4 DEF Unsuccessful
    <3>2. CASE stage' = [stage EXCEPT ![e] = "sleeping"]
      BY <3>1, <3>2 DEF TypeOK, Over
    <3>3. CASE \E n : GiveUp(e, a, n)
      BY <2>3, <3>1, <3>3 DEF GiveUp
    <3>. QED  BY <2>4, <3>2, <3>3 DEF Unsuccessful
  <2>5. ASSUME NEW e \in Delivery, Delivered(e) PROVE FALSE
    BY <2>3, <2>5 DEF Delivered
  <2>6. ReplayLetter \/ Tick \/ UNCHANGED vars => stage' = stage
    BY DEF ReplayLetter, Tick, vars
  <2>. QED  BY <2>1, <2>2, <2>4, <2>5, <2>6 DEF Next, Over
<1>2. CircuitNeedsFailures /\ HalfOpenHasCooled => CircuitNeedsFailures
  OBVIOUS
<1>. QED  BY <1>1, <1>2, CircuitIsSound, QueueInit, TypeCorrect, QueueStep, PTL DEF Spec, UntriedForCause

\* Every step of the deliveries is a step of the buffer, or leaves it alone.
LEMMA BufferStep == [Next]_vars => [Letters!LettersNext]_(Letters!letterVars)
<1>. SUFFICES ASSUME [Next]_vars PROVE [Letters!LettersNext]_letterVars
  BY DEF letterVars, Letters!letterVars
<1>1. ASSUME NEW d \in Delivery, SendToWebhook(d) \/ Granted(d) \/ Post(d) \/ Delivered(d) \/ Wake(d)
      PROVE  UNCHANGED letterVars
  BY <1>1 DEF SendToWebhook, Granted, Post, Delivered, Wake
<1>2. ASSUME NEW d \in Delivery, NEW a, NEW ra, Unsuccessful(d, a, ra)
      PROVE  Letters!Add(d) \/ UNCHANGED letterVars
  BY <1>2 DEF Unsuccessful, GiveUp, Keep
<1>3. ReplayLetter => Letters!Replaying
  BY DEF ReplayLetter
<1>4. Tick \/ UNCHANGED vars => UNCHANGED letterVars
  BY DEF Tick, vars
<1>. QED  BY <1>1, <1>2, <1>3, <1>4 DEF Next, Letters!LettersNext

\* The delivery path with its replays implements DeadLetters, for any events, receivers and
\* requests: an event that was tried without success is added once, whatever replays are
\* under way, no other is, and one is dropped untried only for a blocked receiver, or after
\* Threshold deliveries to the receiver failed since the last that succeeded.
THEOREM BufferIsFed == Spec => FailuresFillTheBuffer
<1>1. Init => Letters!LettersInit
  BY DEF Init
<1>. QED  BY <1>1, BufferStep, FailuresAreKept, NoneIsDroppedEarly, PTL DEF Spec, Letters!LettersSpec, FailuresFillTheBuffer

\* So the buffer of the deliveries is sound: newest failure first, none twice, no entry stuck
\* in a replay that ended, and none leaves it without a reason.
THEOREM BufferIsSound == Spec => []Letters!LettersAreSound /\ Letters!LeavesForAReason
<1>1. Buffer!DeadLetterAssumption
  BY WebhookAssumption DEF Buffer!DeadLetterAssumption
<1>2. Buffer!LettersSpec => [](Buffer!LettersTypeOK /\ Buffer!LettersAreSound)
  BY <1>1, Buffer!LettersSound
<1>3. Buffer!LettersSpec => Buffer!LeavesForAReason
  BY <1>1, Buffer!LettersLeave
<1>4. Letters!LettersInit => Buffer!LettersInit
  BY DEF Letters!LettersInit, Buffer!LettersInit, Letters!Idle, Buffer!Idle
<1>5. [Letters!LettersNext]_(Letters!letterVars) => [Buffer!LettersNext]_(Buffer!letterVars)
  <2>1. ASSUME NEW l \in Delivery, Letters!Add(l) PROVE Buffer!Add(l)
    BY <2>1 DEF Letters!Add, Buffer!Add, Letters!Elems, Buffer!Elems, Letters!Unshifted, Buffer!Unshifted,
                Letters!Capped, Buffer!Capped
  <2>2. ASSUME NEW r \in Request, NEW l \in Delivery, Letters!RetryOne(r, l) PROVE Buffer!RetryOne(r, l)
    BY <2>2 DEF Letters!RetryOne, Buffer!RetryOne, Letters!Idle, Buffer!Idle, Letters!Elems, Buffer!Elems
  <2>3. ASSUME NEW r \in Request, NEW ok \in BOOLEAN, Letters!OneAnswered(r, ok) PROVE Buffer!OneAnswered(r, ok)
    BY <2>3, Zenon DEF Letters!OneAnswered, Buffer!OneAnswered, Letters!Idle, Buffer!Idle, Letters!Spliced,
                Buffer!Spliced, Letters!Elems, Buffer!Elems, Letters!Without, Buffer!Without,
                Letters!PlaceOf, Buffer!PlaceOf, Letters!BackInQueue, Buffer!BackInQueue
  <2>4. ASSUME NEW r \in Request, Letters!RetryAll(r) PROVE Buffer!RetryAll(r)
    BY <2>4 DEF Letters!RetryAll, Buffer!RetryAll, Letters!Idle, Buffer!Idle
  <2>5. ASSUME NEW r \in Request, NEW ok \in BOOLEAN, Letters!AllAnswered(r, ok) PROVE Buffer!AllAnswered(r, ok)
    BY <2>5 DEF Letters!AllAnswered, Buffer!AllAnswered, Letters!Idle, Buffer!Idle
  <2>6. (Letters!Clear => Buffer!Clear) /\ (Letters!Restart => Buffer!Restart)
    BY DEF Letters!Clear, Buffer!Clear, Letters!Restart, Buffer!Restart, Letters!Idle, Buffer!Idle
  <2>. QED  BY <2>1, <2>2, <2>3, <2>4, <2>5, <2>6
            DEF Letters!LettersNext, Buffer!LettersNext, Letters!Replaying, Buffer!Replaying,
                Letters!letterVars, Buffer!letterVars
<1>6. Buffer!LettersAreSound => Letters!LettersAreSound
  BY DEF Buffer!LettersAreSound, Letters!LettersAreSound, Buffer!NewestFirst, Letters!NewestFirst,
         Buffer!RetryingIsInFlight, Letters!RetryingIsInFlight, Buffer!Elems, Letters!Elems
<1>7. Buffer!LeavesForAReason => Letters!LeavesForAReason
  BY DEF Buffer!LeavesForAReason, Letters!LeavesForAReason, Buffer!Elems, Letters!Elems,
         Buffer!letterVars, Letters!letterVars
<1>. QED  BY <1>2, <1>3, <1>4, <1>5, <1>6, <1>7, BufferIsFed, PTL
          DEF FailuresFillTheBuffer, Letters!LettersSpec, Buffer!LettersSpec
=============================================================================
