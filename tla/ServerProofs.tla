------------------------------ MODULE ServerProofs ------------------------------
(***************************************************************************)
(* What holds for every value of the constants of the modules that         *)
(* MCServer puts side by side: send slots, the rate limiter of webhook     *)
(* receivers, the brakes on logins, the auth backends, API keys, session   *)
(* settings, the message store and the accounts.  Each part has an         *)
(* inductive invariant of its own; the last part puts them together.       *)
(***************************************************************************)
EXTENDS MCServer, FiniteSetTheorems, TLAPS

-----------------------------------------------------------------------------
(* SendSlots: one slot per waiting request.                                *)

\* What happened to a request follows the stages of its send.
StagesAgree ==
  \A r \in Sender : /\ send[r] = "new" => answer[r] = "none"
                    /\ r \in out => send[r] = "over"

SlotsInv == SlotsTypeOK /\ SendsAreAccounted /\ StagesAgree

LEMMA HoldersFinite ==
  ASSUME NEW s
  PROVE  /\ IsFiniteSet(Holders(s)) /\ Cardinality(Holders(s)) \in Nat
         /\ Cardinality(Holders(s)) <= Cardinality(Sender)
<1>1. Holders(s) \subseteq Sender BY DEF Holders
<1> QED BY <1>1, SlotsAssumption, FS_Subset, FS_CardinalityType

\* The count of slots is right as long as it is the number of holders, and holders are
\* senders.
LEMMA SlotsCounted ==
  ASSUME NEW f, DOMAIN f = Session, f = [s \in Session |-> f[s]],
         \A s \in Session : f[s] = Cardinality(Holders(s))
  PROVE  f \in [Session -> 0..Cardinality(Sender)]
BY HoldersFinite, SlotsAssumption, FS_CardinalityType

\* A slot that is released is given back by the request that leaves, and by nobody else.
LEMMA SlotReleased ==
  ASSUME SlotsTypeOK, SlotsAreWaiting, NEW r \in Sender, Waits(r), ReleaseSlot(r),
         \A s \in Session : Holders(s)' = Holders(s) \ {r}
  PROVE  SlotsAreWaiting' /\ inFlight' \in [Session -> 0..Cardinality(Sender)]
<1>1. /\ inFlight \in [Session -> 0..Cardinality(Sender)] /\ from[r] \in Session
      /\ Cardinality(Sender) \in Nat /\ MaxConcurrent \in Nat
  BY SlotsAssumption, FS_CardinalityType DEF SlotsTypeOK
<1>2. ASSUME NEW s \in Session
      PROVE  inFlight'[s] = Cardinality(Holders(s)') /\ inFlight'[s] <= inFlight[s]
             /\ inFlight'[s] \in 0..Cardinality(Sender)
  <2>1. IsFiniteSet(Holders(s)) /\ inFlight[s] = Cardinality(Holders(s))
        /\ Cardinality(Holders(s)) \in Nat
    BY HoldersFinite DEF SlotsAreWaiting
  <2>2. CASE s = from[r]
    <3>1. r \in Holders(s) BY <2>2 DEF Holders
    <3>2. Cardinality(Holders(s) \ {r}) = Cardinality(Holders(s)) - 1
          /\ Cardinality(Holders(s) \ {r}) \in Nat
      BY <2>1, <3>1, FS_RemoveElement, FS_CardinalityType
    <3>3. inFlight'[s] = IF inFlight[s] <= 1 THEN 0 ELSE inFlight[s] - 1
      BY <1>1, <2>2 DEF ReleaseSlot
    <3> QED BY <1>1, <2>1, <3>2, <3>3
  <2>3. CASE s # from[r]
    <3>1. r \notin Holders(s) BY <2>3 DEF Holders
    <3>2. Holders(s) \ {r} = Holders(s) BY <3>1
    <3>3. inFlight'[s] = inFlight[s] BY <1>1, <2>3 DEF ReleaseSlot
    <3> QED BY <1>1, <2>1, <3>2, <3>3
  <2> QED BY <2>2, <2>3
<1>3. inFlight' = [s \in Session |-> inFlight'[s]] BY <1>1 DEF ReleaseSlot
<1>4. inFlight' \in [Session -> 0..Cardinality(Sender)] BY <1>2, <1>3
<1>5. SlotsAreWaiting'
  <2> SUFFICES ASSUME NEW s \in Session
               PROVE  inFlight'[s] = Cardinality(Holders(s)') /\ inFlight'[s] <= MaxConcurrent
    BY DEF SlotsAreWaiting
  <2>1. inFlight[s] \in Nat /\ inFlight[s] <= MaxConcurrent BY <1>1 DEF SlotsAreWaiting
  <2> QED BY <1>1, <1>2, <2>1
<1> QED BY <1>4, <1>5

\* Whoever is not among the holders of any slot before and after a step changes no count.
LEMMA SlotsUntouched ==
  ASSUME SlotsAreWaiting, UNCHANGED inFlight,
         \A s \in Session : Holders(s)' = Holders(s)
  PROVE  SlotsAreWaiting'
BY DEF SlotsAreWaiting

\* The end of a send, told to the client who still waits.
LEMMA SettleKeeps ==
  ASSUME SlotsInv, NEW r \in Sender, NEW a \in Answer \ {"none"}, Settle(r, a),
         send[r] \notin {"new", "over"}, UNCHANGED <<from, connected>>,
         out \subseteq out', out' \subseteq out \union {r},
         a = "sent" => r \in out', a \in {"busy", "refused"} => out' = out
  PROVE  SlotsInv'
<1>1. /\ inFlight \in [Session -> 0..Cardinality(Sender)]
      /\ send \in [Sender -> Stage] /\ answer \in [Sender -> Answer]
      /\ from \in [Sender -> Session] /\ out \subseteq Sender /\ connected \subseteq Session
      /\ SlotsAreWaiting /\ AnswersAreTrue
  BY DEF SlotsInv, SlotsTypeOK, SendsAreAccounted
<1>2. /\ send' \in [Sender -> Stage] /\ send'[r] = "over"
      /\ \A q \in Sender \ {r} : send'[q] = send[q]
  BY <1>1 DEF Settle, Stepped, Stage
<1>3. CASE answer[r] = "none"
  <2>1. /\ answer' \in [Sender -> Answer] /\ answer'[r] = a /\ ReleaseSlot(r) /\ Waits(r)
        /\ \A q \in Sender \ {r} : answer'[q] = answer[q]
    BY <1>1, <1>3 DEF Settle, Told, Waits
  <2>2. \A s \in Session : Holders(s)' = Holders(s) \ {r}
    BY <1>2, <2>1 DEF Holders, Waits
  <2>3. SlotsTypeOK BY DEF SlotsInv
  <2>4. SlotsAreWaiting' /\ inFlight' \in [Session -> 0..Cardinality(Sender)]
    BY <1>1, <2>1, <2>2, <2>3, SlotReleased
  <2>5. AnswersAreTrue'
    <3> SUFFICES ASSUME NEW q \in Sender
                 PROVE  /\ answer'[q] = "sent" => q \in out'
                        /\ answer'[q] \in {"busy", "refused"} => q \notin out' /\ send'[q] = "over"
      BY DEF AnswersAreTrue
    <3>1. CASE q = r
      BY <1>2, <2>1, <3>1 DEF SlotsInv, StagesAgree
    <3>2. CASE q # r
      BY <1>1, <1>2, <2>1, <3>2 DEF AnswersAreTrue
    <3> QED BY <3>1, <3>2
  <2>6. StagesAgree' BY <1>2, <2>1 DEF SlotsInv, StagesAgree
  <2> QED BY <1>1, <1>2, <2>1, <2>4, <2>5, <2>6 DEF SlotsInv, SlotsTypeOK, SendsAreAccounted
<1>4. CASE answer[r] # "none"
  <2>1. UNCHANGED <<answer, inFlight>> BY <1>4 DEF Settle
  <2>2. \A s \in Session : Holders(s)' = Holders(s)
    BY <1>2, <1>4, <2>1 DEF Holders, Waits
  <2>3. SlotsAreWaiting' BY <1>1, <2>1, <2>2, SlotsUntouched
  <2>4. AnswersAreTrue' BY <1>1, <1>2, <2>1 DEF AnswersAreTrue
  <2>5. StagesAgree' BY <1>2, <2>1 DEF SlotsInv, StagesAgree
  <2> QED BY <1>1, <1>2, <2>1, <2>3, <2>4, <2>5 DEF SlotsInv, SlotsTypeOK, SendsAreAccounted
<1> QED BY <1>3, <1>4

\* A request that comes in takes a slot, if there is one, or is answered at once.
LEMMA PostKeeps ==
  ASSUME SlotsInv, NEW r \in Sender, NEW s \in Session, NEW isGroup \in BOOLEAN,
         PostMessage(r, s, isGroup)
  PROVE  SlotsInv'
<1>1. /\ inFlight \in [Session -> 0..Cardinality(Sender)]
      /\ send \in [Sender -> Stage] /\ answer \in [Sender -> Answer]
      /\ from \in [Sender -> Session] /\ out \subseteq Sender /\ connected \subseteq Session
      /\ SlotsAreWaiting /\ AnswersAreTrue
      /\ Cardinality(Sender) \in Nat /\ MaxConcurrent \in Nat
  BY SlotsAssumption, FS_CardinalityType DEF SlotsInv, SlotsTypeOK, SendsAreAccounted
<1>2. /\ from' \in [Sender -> Session] /\ from'[r] = s
      /\ \A q \in Sender \ {r} : from'[q] = from[q]
      /\ UNCHANGED <<out, connected>> /\ send[r] = "new" /\ answer[r] = "none" /\ r \notin out
  BY <1>1 DEF PostMessage, SlotsInv, StagesAgree
<1>3. ASSUME NEW a \in Answer \ {"none", "sent"}, Told(r, a), Stepped(r, "over"), UNCHANGED inFlight
      PROVE  SlotsInv'
  <2>1. /\ send' \in [Sender -> Stage] /\ send'[r] = "over"
        /\ answer' \in [Sender -> Answer] /\ answer'[r] = a
        /\ \A q \in Sender \ {r} : send'[q] = send[q] /\ answer'[q] = answer[q]
    BY <1>1, <1>3 DEF Told, Stepped, Stage
  <2>2. \A t \in Session : Holders(t)' = Holders(t)
    BY <1>2, <2>1 DEF Holders, Waits
  <2>3. SlotsAreWaiting' BY <1>1, <1>3, <2>2, SlotsUntouched
  <2>4. AnswersAreTrue' BY <1>1, <1>2, <2>1 DEF AnswersAreTrue
  <2>5. StagesAgree' BY <1>2, <2>1 DEF SlotsInv, StagesAgree
  <2> QED BY <1>1, <1>2, <1>3, <2>1, <2>3, <2>4, <2>5 DEF SlotsInv, SlotsTypeOK, SendsAreAccounted
<1>4. ASSUME inFlight[s] < MaxConcurrent, inFlight' = [inFlight EXCEPT ![s] = @ + 1],
             Stepped(r, IF isGroup THEN "typing" ELSE "checking"), UNCHANGED answer
      PROVE  SlotsInv'
  <2>1. /\ send' \in [Sender -> Stage] /\ send'[r] \in {"typing", "checking"}
        /\ \A q \in Sender \ {r} : send'[q] = send[q]
    BY <1>1, <1>4 DEF Stepped, Stage
  <2>2. ASSUME NEW t \in Session
        PROVE  /\ inFlight'[t] = Cardinality(Holders(t)') /\ inFlight'[t] <= MaxConcurrent
               /\ inFlight'[t] \in 0..Cardinality(Sender)
    <3>1. /\ IsFiniteSet(Holders(t)) /\ inFlight[t] = Cardinality(Holders(t))
          /\ inFlight[t] <= MaxConcurrent /\ inFlight[t] \in Nat
      BY <1>1, HoldersFinite DEF SlotsAreWaiting
    <3>4. r \notin Holders(t) /\ r \notin Holders(s)
      BY <1>2 DEF Holders, Waits
    <3>2. CASE t = s
      <4>1. Holders(t)' = Holders(t) \union {r}
        BY <1>2, <1>4, <2>1, <3>2 DEF Holders, Waits
      <4>2. Cardinality(Holders(t) \union {r}) = Cardinality(Holders(t)) + 1
        BY <3>1, <3>4, FS_AddElement
      <4>3. inFlight'[t] = inFlight[t] + 1 BY <1>1, <1>4, <3>2
      <4>4. Holders(t) \union {r} \subseteq Sender BY DEF Holders
      <4>5. Cardinality(Holders(t)') <= Cardinality(Sender)
        BY <4>1, <4>4, SlotsAssumption, FS_Subset
      <4> QED BY <1>1, <1>4, <3>1, <3>2, <4>1, <4>2, <4>3, <4>5
    <3>3. CASE t # s
      <4>1. Holders(t)' = Holders(t)
        BY <1>2, <1>4, <2>1, <3>3 DEF Holders, Waits
      <4> QED BY <1>1, <1>4, <3>1, <3>3, <4>1
    <3> QED BY <3>2, <3>3
  <2>3. SlotsAreWaiting' BY <2>2 DEF SlotsAreWaiting
  <2>4. inFlight' \in [Session -> 0..Cardinality(Sender)] BY <1>1, <1>4, <2>2
  <2>5. AnswersAreTrue' BY <1>1, <1>2, <1>4, <2>1 DEF AnswersAreTrue
  <2>6. StagesAgree' BY <1>2, <1>4, <2>1 DEF SlotsInv, StagesAgree
  <2> QED BY <1>1, <1>2, <1>4, <2>1, <2>3, <2>4, <2>5, <2>6 DEF SlotsInv, SlotsTypeOK, SendsAreAccounted
<1> QED BY <1>3, <1>4 DEF PostMessage, Answer

\* The stages of a send, its timeout and the socket, one by one.
LEMMA SlotsStep ==
  ASSUME SlotsInv, [SlotsNext]_slotVars
  PROVE  SlotsInv'
<1>0. /\ inFlight \in [Session -> 0..Cardinality(Sender)]
      /\ send \in [Sender -> Stage] /\ answer \in [Sender -> Answer]
      /\ from \in [Sender -> Session] /\ out \subseteq Sender /\ connected \subseteq Session
      /\ SlotsAreWaiting /\ AnswersAreTrue
  BY DEF SlotsInv, SlotsTypeOK, SendsAreAccounted
<1>1. ASSUME NEW r \in Sender, NEW reached \in {"typing", "socket"}, send[r] \in {"checking", "typing"},
             Stepped(r, reached), UNCHANGED <<answer, inFlight, from, out, connected>>
      PROVE  SlotsInv'
  <2>1. /\ send' \in [Sender -> Stage] /\ send'[r] = reached
        /\ \A q \in Sender \ {r} : send'[q] = send[q]
    BY <1>0, <1>1 DEF Stepped, Stage
  <2>2. \A s \in Session : Holders(s)' = Holders(s)
    BY <1>1, <2>1 DEF Holders, Waits
  <2>3. SlotsAreWaiting' BY <1>0, <1>1, <2>2, SlotsUntouched
  <2>4. AnswersAreTrue' BY <1>0, <1>1, <2>1 DEF AnswersAreTrue
  <2>5. StagesAgree' BY <1>1, <2>1 DEF SlotsInv, StagesAgree
  <2> QED BY <1>0, <1>1, <2>1, <2>3, <2>4, <2>5 DEF SlotsInv, SlotsTypeOK, SendsAreAccounted
<1>2. ASSUME NEW r \in Sender, NumberChecked(r) PROVE SlotsInv'
  <2>1. /\ send[r] = "checking" /\ UNCHANGED <<from, out, connected>>
        /\ \/ Stepped(r, "typing") /\ UNCHANGED <<answer, inFlight>>
           \/ Settle(r, "refused")
    BY <1>2 DEF NumberChecked
  <2>2. CASE Stepped(r, "typing") /\ UNCHANGED <<answer, inFlight>> BY <1>1, <2>1, <2>2
  <2>3. CASE Settle(r, "refused") BY <2>1, <2>3, SettleKeeps DEF Answer
  <2> QED BY <2>1, <2>2, <2>3
<1>3. ASSUME NEW r \in Sender, Typed(r) PROVE SlotsInv'
  <2>1. /\ send[r] = "typing" /\ UNCHANGED <<from, out, connected>>
        /\ \/ Stepped(r, "socket") /\ UNCHANGED <<answer, inFlight>>
           \/ Settle(r, "failed")
    BY <1>3 DEF Typed
  <2>2. CASE Stepped(r, "socket") /\ UNCHANGED <<answer, inFlight>> BY <1>1, <2>1, <2>2
  <2>3. CASE Settle(r, "failed") BY <2>1, <2>3, SettleKeeps DEF Answer
  <2> QED BY <2>1, <2>2, <2>3
<1>4. ASSUME NEW r \in Sender, SocketAnswered(r) PROVE SlotsInv'
  <2>1. /\ send[r] = "socket" /\ UNCHANGED <<from, connected>>
        /\ out \subseteq out' /\ out' \subseteq out \union {r}
        /\ \/ out' = out \union {r} /\ Settle(r, "sent")
           \/ Settle(r, "failed")
    BY <1>4 DEF SocketAnswered
  <2>2. CASE out' = out \union {r} /\ Settle(r, "sent") BY <2>1, <2>2, SettleKeeps DEF Answer
  <2>3. CASE Settle(r, "failed") BY <2>1, <2>3, SettleKeeps DEF Answer
  <2> QED BY <2>1, <2>2, <2>3
<1>5. ASSUME NEW r \in Sender, SendTimedOut(r) PROVE SlotsInv'
  <2>1. /\ answer' \in [Sender -> Answer] /\ answer'[r] = "timeout" /\ ReleaseSlot(r) /\ Waits(r)
        /\ \A q \in Sender \ {r} : answer'[q] = answer[q]
        /\ UNCHANGED <<send, from, out, connected>>
    BY <1>0, <1>5 DEF SendTimedOut, Told, Answer
  <2>2. \A s \in Session : Holders(s)' = Holders(s) \ {r}
    BY <2>1 DEF Holders, Waits
  <2>3. SlotsAreWaiting' /\ inFlight' \in [Session -> 0..Cardinality(Sender)]
    BY <1>0, <2>1, <2>2, SlotReleased DEF SlotsInv
  <2>4. AnswersAreTrue' BY <1>0, <2>1 DEF AnswersAreTrue
  <2>5. StagesAgree' BY <2>1 DEF SlotsInv, StagesAgree, Waits
  <2> QED BY <1>0, <2>1, <2>3, <2>4, <2>5 DEF SlotsInv, SlotsTypeOK, SendsAreAccounted
<1>6. ASSUME NEW s \in Session, SocketChange(s) PROVE SlotsInv'
  <2>1. connected' \subseteq Session /\ UNCHANGED <<inFlight, send, answer, from, out>>
    BY <1>0, <1>6 DEF SocketChange
  <2>2. SlotsAreWaiting' /\ AnswersAreTrue' /\ StagesAgree'
    BY <1>0, <2>1 DEF SlotsAreWaiting, AnswersAreTrue, SlotsInv, StagesAgree, Waits, Holders
  <2> QED BY <1>0, <2>1, <2>2 DEF SlotsInv, SlotsTypeOK, SendsAreAccounted
<1>7. CASE UNCHANGED slotVars
  <2>1. UNCHANGED <<inFlight, send, answer, from, out, connected>> BY <1>7 DEF slotVars
  <2>2. SlotsAreWaiting' /\ AnswersAreTrue' /\ StagesAgree'
    BY <1>0, <2>1 DEF SlotsAreWaiting, AnswersAreTrue, SlotsInv, StagesAgree, Waits, Holders
  <2> QED BY <1>0, <2>1, <2>2 DEF SlotsInv, SlotsTypeOK, SendsAreAccounted
<1> QED BY <1>2, <1>3, <1>4, <1>5, <1>6, <1>7, PostKeeps DEF SlotsNext

LEMMA SlotsStart ==
  ASSUME SlotsInit
  PROVE  SlotsInv
<1>1. /\ inFlight = [s \in Session |-> 0] /\ out = {} /\ connected = Session
      /\ send = [r \in Sender |-> "new"] /\ answer = [r \in Sender |-> "none"]
      /\ from \in [Sender -> Session] /\ Cardinality(Sender) \in Nat /\ MaxConcurrent \in Nat
  BY SlotsAssumption, FS_CardinalityType DEF SlotsInit
<1>2. \A s \in Session : Holders(s) = {} BY <1>1 DEF Waits, Holders
<1>3. SlotsAreWaiting BY <1>1, <1>2, FS_EmptySet DEF SlotsAreWaiting
<1>4. SlotsTypeOK BY <1>1 DEF SlotsTypeOK, Stage, Answer
<1>5. AnswersAreTrue /\ StagesAgree BY <1>1 DEF AnswersAreTrue, StagesAgree
<1> QED BY <1>3, <1>4, <1>5 DEF SlotsInv, SendsAreAccounted

\* Slots never leak and never go below zero, a session never has more waiting requests
\* than slots, and no client is told an outcome that a late send makes false: for every
\* number of requests, sessions and slots.
THEOREM SendsAccounted == SlotsSpec => [](SlotsTypeOK /\ SendsAreAccounted)
<1>1. SlotsInv => SlotsTypeOK /\ SendsAreAccounted BY DEF SlotsInv
<1> QED BY <1>1, SlotsStart, SlotsStep, PTL DEF SlotsSpec

-----------------------------------------------------------------------------
(* TokenBucket: what was granted plus what is left is what flowed in.       *)

\* The account of one receiver when the bucket and what it gave out are b and g: without
\* a bucket, only the time since the start was spent, so a new one can be full again.
Balanced(b, g) ==
  IF b = NoBucket THEN g <= PerTick * tick
  ELSE /\ b \in [tokens : 0..Capacity, refilled : 0..LastTick, used : 0..LastTick]
       /\ b.used = b.refilled /\ b.refilled <= tick
       /\ g + b.tokens <= Capacity + PerTick * b.refilled

\* A waiter polls next at the latest when its wait is over.
WaitsAreCapped ==
  \A d \in Delivery : waiter[d] # NotWaiting =>
    /\ waiter[d].url \in Url /\ waiter[d].since <= tick
    /\ tick <= waiter[d].poll /\ waiter[d].poll <= waiter[d].since + MaxWait

BucketTypes ==
  /\ tick \in 0..LastTick
  /\ bucket \in [Url -> [tokens : -1..Capacity, refilled : 0..LastTick, used : 0..LastTick]]
  /\ waiter \in [Delivery -> [url : Url \union {"none"}, since : 0..LastTick, poll : Nat]]
  /\ granted \in [Url -> Nat] /\ overlong \in BOOLEAN

BucketInv ==
  /\ BucketTypes /\ WaitsAreCapped /\ ~overlong
  /\ \A u \in Url : Balanced(bucket[u], granted[u])

LEMMA BucketConstants ==
  /\ Capacity \in Nat /\ Share \in Nat /\ PerTick \in Nat /\ MaxWait \in Nat \ {0}
  /\ IdleTtl \in Nat /\ LastTick \in Nat /\ Share <= Capacity /\ IdleTtl * PerTick >= Capacity
BY BucketAssumption

\* More time lets more in.
LEMMA FlowGrows ==
  ASSUME NEW a \in Nat, NEW b \in Nat, a <= b
  PROVE  /\ PerTick * a \in Nat /\ PerTick * b \in Nat /\ PerTick * (b - a) \in Nat
         /\ PerTick * b = PerTick * a + PerTick * (b - a)
<1>1. PerTick \in Nat /\ b - a \in Nat BY BucketConstants
<1>2. PerTick * a \in Nat /\ PerTick * b \in Nat /\ PerTick * (b - a) \in Nat BY <1>1
<1>3. PerTick * b = PerTick * a + PerTick * (b - a) BY <1>1
<1> QED BY <1>2, <1>3

\* A bucket that is looked at is refilled, and its account still balances.
LEMMA LookKeepsBalance ==
  ASSUME BucketInv, NEW u \in Url
  PROVE  /\ Balanced(BucketFor(u), granted[u]) /\ BucketFor(u) # NoBucket
         /\ BucketFor(u).used = tick /\ BucketFor(u).refilled = tick
         /\ BucketFor(u) \in [tokens : 0..Capacity, refilled : 0..LastTick, used : 0..LastTick]
<1> DEFINE b == bucket[u]  g == granted[u]  n == BucketFor(u)
<1>1. /\ tick \in 0..LastTick /\ g \in Nat /\ Balanced(b, g)
      /\ b \in [tokens : -1..Capacity, refilled : 0..LastTick, used : 0..LastTick]
  BY DEF BucketInv, BucketTypes
<1>2. PerTick \in Nat /\ Capacity \in Nat /\ LastTick \in Nat /\ PerTick * tick \in Nat
  BY <1>1, BucketConstants
<1>3. CASE b = NoBucket
  <2>1. n = [tokens |-> Capacity, refilled |-> tick, used |-> tick] BY <1>3 DEF BucketFor
  <2>2. g <= PerTick * tick BY <1>1, <1>3 DEF Balanced
  <2>3. n.tokens = Capacity /\ n.refilled = tick /\ n.used = tick /\ n # NoBucket
    BY <1>2, <2>1 DEF NoBucket
  <2>4. n \in [tokens : 0..Capacity, refilled : 0..LastTick, used : 0..LastTick]
    BY <1>1, <1>2, <2>1
  <2> HIDE DEF n
  <2>5. Balanced(n, g) BY <1>1, <1>2, <2>2, <2>3, <2>4 DEF Balanced
  <2> QED BY <2>3, <2>4, <2>5 DEF n
<1>4. CASE b # NoBucket
  <2>1. /\ b \in [tokens : 0..Capacity, refilled : 0..LastTick, used : 0..LastTick]
        /\ b.refilled <= tick /\ g + b.tokens <= Capacity + PerTick * b.refilled
    BY <1>1, <1>4 DEF Balanced
  <2> DEFINE flow == PerTick * (tick - b.refilled)
  <2>2. /\ flow \in Nat /\ PerTick * b.refilled \in Nat
        /\ PerTick * tick = PerTick * b.refilled + flow
    <3> DEFINE at == b.refilled
    <3>1. at \in Nat /\ tick \in Nat /\ at <= tick BY <1>1, <1>2, <2>1
    <3> HIDE DEF at
    <3>2. /\ PerTick * tick = PerTick * at + PerTick * (tick - at) /\ PerTick * at \in Nat
          /\ PerTick * (tick - at) \in Nat
      BY <3>1, FlowGrows
    <3> QED BY <3>2 DEF at
  <2>3. n = [tokens |-> AtMost(Capacity, b.tokens + flow), refilled |-> tick, used |-> tick]
    BY <1>4 DEF BucketFor
  <2> HIDE DEF flow
  <2>4. /\ AtMost(Capacity, b.tokens + flow) \in 0..Capacity
        /\ AtMost(Capacity, b.tokens + flow) <= b.tokens + flow
    BY <1>2, <2>1, <2>2 DEF AtMost
  <2>5. n.tokens \in 0..Capacity /\ n.tokens <= b.tokens + flow /\ n.refilled = tick /\ n.used = tick
    BY <2>3, <2>4
  <2>6. n \in [tokens : 0..Capacity, refilled : 0..LastTick, used : 0..LastTick]
    BY <1>1, <2>3, <2>4
  <2>7. n # NoBucket BY <1>2, <2>5 DEF NoBucket
  <2> HIDE DEF n
  <2>8. g + n.tokens <= Capacity + PerTick * n.refilled
    BY <1>1, <1>2, <2>1, <2>2, <2>5
  <2>9. Balanced(n, g) BY <1>1, <2>5, <2>6, <2>7, <2>8 DEF Balanced
  <2> QED BY <2>5, <2>6, <2>7, <2>9 DEF n
<1> QED BY <1>3, <1>4

\* Taking a token moves a share from the bucket to what was granted.
LEMMA TakeKeepsBalance ==
  ASSUME BucketInv, NEW u \in Url, BucketFor(u).tokens >= Share
  PROVE  /\ Balanced([BucketFor(u) EXCEPT !.tokens = @ - Share], granted[u] + Share)
         /\ [BucketFor(u) EXCEPT !.tokens = @ - Share]
              \in [tokens : 0..Capacity, refilled : 0..LastTick, used : 0..LastTick]
<1> DEFINE b == BucketFor(u)  n == [b EXCEPT !.tokens = @ - Share]  g == granted[u]
<1>1. /\ Balanced(b, g) /\ b # NoBucket /\ b.used = tick /\ b.refilled = tick
      /\ b \in [tokens : 0..Capacity, refilled : 0..LastTick, used : 0..LastTick]
  BY LookKeepsBalance
<1>2. /\ Capacity \in Nat /\ Share \in Nat /\ PerTick \in Nat /\ tick \in 0..LastTick
      /\ LastTick \in Nat /\ g \in Nat
  BY BucketConstants DEF BucketInv, BucketTypes
<1> HIDE DEF b
<1>3. b.tokens >= Share BY DEF b
<1>4. /\ n.tokens = b.tokens - Share /\ n.refilled = tick /\ n.used = tick
      /\ n \in [tokens : 0..Capacity, refilled : 0..LastTick, used : 0..LastTick]
  BY <1>1, <1>2, <1>3
<1>5. n # NoBucket BY <1>2, <1>4 DEF NoBucket
<1>6. g + b.tokens <= Capacity + PerTick * tick BY <1>1 DEF Balanced
<1> HIDE DEF n
<1>7. PerTick * tick \in Nat BY <1>2
<1>8. (g + Share) + n.tokens <= Capacity + PerTick * n.refilled
  BY <1>1, <1>2, <1>4, <1>6, <1>7
<1>9. Balanced(n, g + Share) BY <1>2, <1>4, <1>5, <1>8 DEF Balanced
<1> QED BY <1>4, <1>9 DEF n, b

\* An idle bucket that is dropped was full long before: IdleTtl refills any bucket.
LEMMA SweepKeepsBalance ==
  ASSUME tick \in 0..LastTick, NEW bs \in [Url -> [tokens : -1..Capacity, refilled : 0..LastTick,
                                                   used : 0..LastTick]],
         NEW g \in [Url -> Nat], \A u \in Url : Balanced(bs[u], g[u])
  PROVE  /\ Swept(bs) \in [Url -> [tokens : -1..Capacity, refilled : 0..LastTick, used : 0..LastTick]]
         /\ \A u \in Url : Balanced(Swept(bs)[u], g[u])
<1>1. /\ Capacity \in Nat /\ PerTick \in Nat /\ IdleTtl \in Nat /\ LastTick \in Nat
      /\ IdleTtl * PerTick >= Capacity /\ tick \in Nat /\ PerTick * tick \in Nat
  BY BucketConstants
<1>2. NoBucket \in [tokens : -1..Capacity, refilled : 0..LastTick, used : 0..LastTick]
  BY <1>1 DEF NoBucket
<1>3. Swept(bs) \in [Url -> [tokens : -1..Capacity, refilled : 0..LastTick, used : 0..LastTick]]
  BY <1>2 DEF Swept
<1>4. ASSUME NEW u \in Url PROVE Balanced(Swept(bs)[u], g[u])
  <2>1. CASE tick - bs[u].used > IdleTtl
    <3>1. Swept(bs)[u] = NoBucket BY <2>1 DEF Swept
    <3>2. g[u] <= PerTick * tick
      <4>1. CASE bs[u] = NoBucket BY <4>1 DEF Balanced
      <4>2. CASE bs[u] # NoBucket
        <5> DEFINE at == bs[u].refilled
        <5>1. /\ at \in Nat /\ at <= tick /\ bs[u].used = at /\ bs[u].tokens \in 0..Capacity
              /\ g[u] + bs[u].tokens <= Capacity + PerTick * at
          BY <1>1, <4>2 DEF Balanced
        <5> HIDE DEF at
        <5>2. /\ PerTick * tick = PerTick * at + PerTick * (tick - at) /\ PerTick * at \in Nat
              /\ PerTick * (tick - at) \in Nat
          BY <1>1, <5>1, FlowGrows
        <5>3. /\ PerTick * (tick - at) = PerTick * IdleTtl + PerTick * ((tick - at) - IdleTtl)
              /\ PerTick * ((tick - at) - IdleTtl) \in Nat
          <6>1. tick - at \in Nat /\ IdleTtl <= tick - at BY <1>1, <2>1, <5>1
          <6> QED BY <1>1, <6>1, FlowGrows
        <5>4. PerTick * IdleTtl >= Capacity /\ PerTick * IdleTtl \in Nat BY <1>1
        <5> QED BY <1>1, <5>1, <5>2, <5>3, <5>4
      <4> QED BY <4>1, <4>2
    <3> QED BY <3>1, <3>2 DEF Balanced
  <2>2. CASE ~(tick - bs[u].used > IdleTtl)
    <3>1. Swept(bs)[u] = bs[u] BY <2>2 DEF Swept
    <3> QED BY <3>1
  <2> QED BY <2>1, <2>2
<1> QED BY <1>3, <1>4

\* A look at a bucket, with or without taking a token, as both the first call and every
\* poll do it.
LEMMA BucketServed ==
  ASSUME BucketInv, NEW u \in Url, NEW bs, NEW g,
         \/ bs = Looked(u) /\ g = granted
         \/ bs = Taken(u) /\ BucketFor(u).tokens >= Share /\ g = [granted EXCEPT ![u] = @ + Share]
  PROVE  /\ bs \in [Url -> [tokens : -1..Capacity, refilled : 0..LastTick, used : 0..LastTick]]
         /\ g \in [Url -> Nat] /\ \A v \in Url : Balanced(bs[v], g[v])
<1>1. /\ bucket \in [Url -> [tokens : -1..Capacity, refilled : 0..LastTick, used : 0..LastTick]]
      /\ granted \in [Url -> Nat] /\ \A v \in Url : Balanced(bucket[v], granted[v])
      /\ Share \in Nat /\ Capacity \in Nat
  BY BucketConstants DEF BucketInv, BucketTypes
<1>2. [tokens : 0..Capacity, refilled : 0..LastTick, used : 0..LastTick]
        \subseteq [tokens : -1..Capacity, refilled : 0..LastTick, used : 0..LastTick]
  BY <1>1
<1>3. CASE bs = Looked(u) /\ g = granted
  BY <1>1, <1>2, <1>3, LookKeepsBalance DEF Looked
<1>4. CASE /\ bs = Taken(u) /\ BucketFor(u).tokens >= Share
           /\ g = [granted EXCEPT ![u] = @ + Share]
  <2> DEFINE n == [BucketFor(u) EXCEPT !.tokens = @ - Share]
  <2>1. /\ Balanced(n, granted[u] + Share)
        /\ n \in [tokens : -1..Capacity, refilled : 0..LastTick, used : 0..LastTick]
    BY <1>2, <1>4, TakeKeepsBalance
  <2>2. bs = [bucket EXCEPT ![u] = n] BY <1>4 DEF Taken
  <2> HIDE DEF n
  <2>3. granted[u] + Share \in Nat BY <1>1
  <2> QED BY <1>1, <1>4, <2>1, <2>2, <2>3
<1> QED BY <1>3, <1>4

LEMMA BucketStep ==
  ASSUME BucketInv, [BucketNext]_bucketVars
  PROVE  BucketInv'
<1>1. /\ tick \in 0..LastTick /\ tick \in Nat /\ LastTick \in Nat /\ MaxWait \in Nat \ {0}
      /\ bucket \in [Url -> [tokens : -1..Capacity, refilled : 0..LastTick, used : 0..LastTick]]
      /\ waiter \in [Delivery -> [url : Url \union {"none"}, since : 0..LastTick, poll : Nat]]
      /\ granted \in [Url -> Nat] /\ overlong = FALSE /\ WaitsAreCapped
      /\ \A u \in Url : Balanced(bucket[u], granted[u])
  BY BucketConstants DEF BucketInv, BucketTypes
<1>2. ASSUME NEW bs \in [Url -> [tokens : -1..Capacity, refilled : 0..LastTick, used : 0..LastTick]],
             NEW g \in [Url -> Nat], \A v \in Url : Balanced(bs[v], g[v]),
             NEW d \in Delivery, bucket' = bs, granted' = g, UNCHANGED <<tick, overlong>>,
             NEW w \in [url : Url \union {"none"}, since : 0..LastTick, poll : Nat],
             waiter' = [waiter EXCEPT ![d] = w],
             w # NotWaiting => /\ w.url \in Url /\ w.since <= tick /\ tick <= w.poll
                               /\ w.poll <= w.since + MaxWait
      PROVE  BucketInv'
  <2>1. waiter' \in [Delivery -> [url : Url \union {"none"}, since : 0..LastTick, poll : Nat]]
    BY <1>1, <1>2
  <2>2. WaitsAreCapped'
    BY <1>1, <1>2 DEF WaitsAreCapped
  <2>3. \A v \in Url : Balanced(bucket[v], granted[v])' BY <1>2 DEF Balanced
  <2> QED BY <1>1, <1>2, <2>1, <2>2, <2>3 DEF BucketInv, BucketTypes
<1>3. NotWaiting \in [url : Url \union {"none"}, since : 0..LastTick, poll : Nat]
  BY <1>1 DEF NotWaiting
<1>4. ASSUME NEW d \in Delivery, NEW u \in Url, WaitForSlot(d, u) PROVE BucketInv'
  <2>1. CASE BucketFor(u).tokens >= Share
    <3>1. /\ bucket' = Taken(u) /\ granted' = [granted EXCEPT ![u] = @ + Share]
          /\ UNCHANGED <<tick, overlong, waiter>> /\ waiter[d] = NotWaiting
      BY <1>4, <2>1 DEF WaitForSlot, Grant
    <3>2. waiter' = [waiter EXCEPT ![d] = NotWaiting] BY <1>1, <3>1
    <3>3. /\ bucket' \in [Url -> [tokens : -1..Capacity, refilled : 0..LastTick, used : 0..LastTick]]
          /\ granted' \in [Url -> Nat] /\ \A v \in Url : Balanced(bucket'[v], granted'[v])
      BY <2>1, <3>1, BucketServed
    <3> QED BY <1>2, <1>3, <3>1, <3>2, <3>3
  <2>2. CASE ~(BucketFor(u).tokens >= Share)
    <3> DEFINE w == [url |-> u, since |-> tick, poll |-> tick + 1]
    <3>1. /\ bucket' = Looked(u) /\ granted' = granted
          /\ UNCHANGED <<tick, overlong>> /\ waiter' = [waiter EXCEPT ![d] = w]
      BY <1>4, <2>2 DEF WaitForSlot
    <3>2. /\ w \in [url : Url \union {"none"}, since : 0..LastTick, poll : Nat]
          /\ w.url \in Url /\ w.since <= tick /\ tick <= w.poll
          /\ w.poll <= w.since + MaxWait
      BY <1>1
    <3>3. /\ bucket' \in [Url -> [tokens : -1..Capacity, refilled : 0..LastTick, used : 0..LastTick]]
          /\ granted' \in [Url -> Nat] /\ \A v \in Url : Balanced(bucket'[v], granted'[v])
      BY <3>1, BucketServed
    <3> HIDE DEF w
    <3> QED BY <1>2, <3>1, <3>2, <3>3
  <2> QED BY <2>1, <2>2
<1>5. ASSUME NEW d \in Delivery, Poll(d) PROVE BucketInv'
  <2> DEFINE u == waiter[d].url  old == waiter[d]
  <2>1. /\ old # NotWaiting /\ tick = old.poll /\ u \in Url /\ old.since <= tick
        /\ tick <= old.since + MaxWait /\ old.since \in Nat
        /\ old \in [url : Url \union {"none"}, since : 0..LastTick, poll : Nat]
    BY <1>1, <1>5 DEF Poll, WaitsAreCapped
  <2>2. ASSUME NEW bs, NEW g, Leave(d, bs), granted' = g,
               \/ bs = Looked(u) /\ g = granted
               \/ bs = Taken(u) /\ BucketFor(u).tokens >= Share /\ g = [granted EXCEPT ![u] = @ + Share]
        PROVE  BucketInv'
    <3>1. /\ bs \in [Url -> [tokens : -1..Capacity, refilled : 0..LastTick, used : 0..LastTick]]
          /\ g \in [Url -> Nat] /\ \A v \in Url : Balanced(bs[v], g[v])
      BY <2>1, <2>2, BucketServed
    <3>2. /\ Swept(bs) \in [Url -> [tokens : -1..Capacity, refilled : 0..LastTick, used : 0..LastTick]]
          /\ \A v \in Url : Balanced(Swept(bs)[v], g[v])
      BY <1>1, <3>1, SweepKeepsBalance
    <3>3. UNCHANGED <<tick, overlong>>
      <4>1. ~(tick - waiter[d].since > MaxWait) BY <1>1, <2>1
      <4>2. tick' = tick /\ overlong' = (overlong \/ tick - waiter[d].since > MaxWait)
        BY <2>2 DEF Leave
      <4> QED BY <1>1, <4>1, <4>2, Zenon
    <3>4. waiter' = [waiter EXCEPT ![d] = NotWaiting] /\ bucket' = Swept(bs) BY <2>2 DEF Leave
    <3> QED BY <1>2, <1>3, <2>2, <3>1, <3>2, <3>3, <3>4
  <2>3. CASE BucketFor(u).tokens >= Share /\ Grant(u) /\ Leave(d, Taken(u))
    BY <2>2, <2>3 DEF Grant
  <2>4. CASE UNCHANGED granted /\ Leave(d, Looked(u))
    BY <2>2, <2>4
  <2>5. CASE /\ tick - old.since < MaxWait /\ bucket' = Looked(u)
             /\ waiter' = [waiter EXCEPT ![d].poll = tick + 1]
             /\ UNCHANGED <<tick, granted, overlong>>
    <3> DEFINE w == [old EXCEPT !.poll = tick + 1]
    <3>1. tick + 1 \in Nat BY <1>1
    <3>2. /\ w \in [url : Url \union {"none"}, since : 0..LastTick, poll : Nat]
          /\ w.url = old.url /\ w.since = old.since /\ w.poll = tick + 1
      BY <2>1, <3>1
    <3>3. waiter' = [waiter EXCEPT ![d] = w] BY <2>5
    <3>4. w.poll <= w.since + MaxWait BY <1>1, <2>1, <2>5, <3>2
    <3>5. /\ bucket' \in [Url -> [tokens : -1..Capacity, refilled : 0..LastTick, used : 0..LastTick]]
          /\ granted' \in [Url -> Nat] /\ \A v \in Url : Balanced(bucket'[v], granted'[v])
      BY <1>1, <2>1, <2>5, BucketServed
    <3>6. /\ w.url \in Url /\ w.since <= tick /\ tick <= w.poll BY <1>1, <2>1, <3>2
    <3>7. UNCHANGED <<tick, overlong>> BY <2>5
    <3> HIDE DEF w, old
    <3> QED BY <1>2, <3>2, <3>3, <3>4, <3>5, <3>6, <3>7
  <2> QED BY <1>5, <2>3, <2>4, <2>5 DEF Poll
<1>6. CASE BucketTick
  <2>1. /\ tick' = tick + 1 /\ tick' \in 0..LastTick /\ UNCHANGED <<bucket, waiter, granted, overlong>>
        /\ \A d \in Delivery : waiter[d] = NotWaiting \/ waiter[d].poll > tick
    BY <1>1, <1>6 DEF BucketTick
  <2>2. WaitsAreCapped' BY <1>1, <2>1 DEF WaitsAreCapped
  <2>3. ASSUME NEW u \in Url PROVE Balanced(bucket[u], granted[u])'
    <3>1. PerTick * tick \in Nat /\ PerTick * tick <= PerTick * tick'
      <4>1. PerTick * (tick + 1) = PerTick * tick + PerTick /\ PerTick \in Nat
        BY <1>1, BucketConstants
      <4> QED BY <1>1, <2>1, <4>1
    <3>2. PerTick * tick' \in Nat BY <1>1, <2>1, BucketConstants
    <3>3. Balanced(bucket[u], granted[u]) /\ granted[u] \in Nat BY <1>1
    <3>4. CASE bucket[u] = NoBucket
      <4>1. granted[u] <= PerTick * tick' BY <3>1, <3>2, <3>3, <3>4 DEF Balanced
      <4> QED BY <2>1, <3>4, <4>1 DEF Balanced
    <3>5. CASE bucket[u] # NoBucket
      <4>1. bucket[u].refilled <= tick' BY <1>1, <2>1, <3>3, <3>5 DEF Balanced
      <4> QED BY <2>1, <3>3, <3>5, <4>1 DEF Balanced
    <3> QED BY <3>4, <3>5
  <2> QED BY <1>1, <2>1, <2>2, <2>3 DEF BucketInv, BucketTypes
<1>7. CASE UNCHANGED bucketVars
  <2>1. UNCHANGED <<tick, bucket, waiter, granted, overlong>> BY <1>7 DEF bucketVars
  <2>2. WaitsAreCapped' BY <1>1, <2>1 DEF WaitsAreCapped
  <2>3. \A v \in Url : Balanced(bucket[v], granted[v])' BY <1>1, <2>1 DEF Balanced
  <2> QED BY <1>1, <2>1, <2>2, <2>3 DEF BucketInv, BucketTypes
<1> QED BY <1>4, <1>5, <1>6, <1>7 DEF BucketNext

LEMMA BucketStart ==
  ASSUME BucketInit
  PROVE  BucketInv
<1>1. /\ tick = 0 /\ bucket = [u \in Url |-> NoBucket] /\ waiter = [d \in Delivery |-> NotWaiting]
      /\ granted = [u \in Url |-> 0] /\ overlong = FALSE
      /\ PerTick \in Nat /\ Capacity \in Nat /\ LastTick \in Nat
  BY BucketConstants DEF BucketInit
<1>2. BucketTypes
  <2>1. NoBucket \in [tokens : -1..Capacity, refilled : 0..LastTick, used : 0..LastTick]
    BY <1>1 DEF NoBucket
  <2>2. NotWaiting \in [url : Url \union {"none"}, since : 0..LastTick, poll : Nat]
    BY <1>1 DEF NotWaiting
  <2>3. /\ bucket \in [Url -> [tokens : -1..Capacity, refilled : 0..LastTick, used : 0..LastTick]]
        /\ waiter \in [Delivery -> [url : Url \union {"none"}, since : 0..LastTick, poll : Nat]]
    BY <1>1, <2>1, <2>2
  <2>4. granted \in [Url -> Nat] /\ tick \in 0..LastTick BY <1>1
  <2>5. overlong \in BOOLEAN BY <1>1, Zenon
  <2> QED BY <2>3, <2>4, <2>5 DEF BucketTypes
<1>3. PerTick * tick = 0 BY <1>1
<1>4. \A u \in Url : Balanced(bucket[u], granted[u]) BY <1>1, <1>3 DEF Balanced
<1>5. WaitsAreCapped BY <1>1 DEF WaitsAreCapped
<1> QED BY <1>1, <1>2, <1>4, <1>5 DEF BucketInv

\* Up to when the waits of a delivery are accounted for.
Settled(d) == IF waiter[d] = NotWaiting THEN tick ELSE waiter[d].since

\* Each time it went on without a token it had waited MaxWait for it.
OpensAreRare ==
  /\ opened \in [Delivery -> Nat]
  /\ \A d \in Delivery : opened[d] * MaxWait <= Settled(d)

LEMMA OpensStep ==
  ASSUME BucketInv, OpensAreRare, [BucketNext]_bucketVars
  PROVE  OpensAreRare'
<1>1. /\ tick \in Nat /\ MaxWait \in Nat /\ opened \in [Delivery -> Nat]
      /\ \A d \in Delivery : /\ opened[d] * MaxWait <= Settled(d) /\ opened[d] \in Nat
                             /\ Settled(d) \in Nat /\ Settled(d) <= tick
                             /\ waiter[d].since \in Nat
      /\ waiter \in [Delivery -> [url : Url \union {"none"}, since : 0..LastTick, poll : Nat]]
  BY BucketConstants DEF BucketInv, BucketTypes, OpensAreRare, Settled, WaitsAreCapped
<1>2. \A d \in Delivery : opened[d] * MaxWait \in Nat BY <1>1
<1>3. ASSUME opened' = opened, \A d \in Delivery : Settled(d)' \in Nat /\ Settled(d) <= Settled(d)'
      PROVE  OpensAreRare'
  BY <1>1, <1>2, <1>3 DEF OpensAreRare
<1>4. ASSUME NEW d \in Delivery, NEW u \in Url, WaitForSlot(d, u) PROVE OpensAreRare'
  <2>1. /\ opened' = opened /\ tick' = tick /\ waiter[d] = NotWaiting
        /\ \A e \in Delivery \ {d} : waiter'[e] = waiter[e]
        /\ waiter'[d] = waiter[d] \/ waiter'[d] = [url |-> u, since |-> tick, poll |-> tick + 1]
    BY <1>1, <1>4 DEF WaitForSlot
  <2>2. Settled(d)' = tick BY <2>1 DEF Settled
  <2>3. \A e \in Delivery \ {d} : Settled(e)' = Settled(e) BY <2>1 DEF Settled
  <2>4. Settled(d) = tick BY <2>1 DEF Settled
  <2> QED BY <1>1, <1>3, <2>1, <2>2, <2>3, <2>4
<1>5. ASSUME NEW d \in Delivery, Poll(d) PROVE OpensAreRare'
  <2>0. waiter[d] # NotWaiting BY <1>5 DEF Poll
  <2>1. CASE UNCHANGED opened
    <3>1. /\ tick' = tick /\ \A e \in Delivery \ {d} : waiter'[e] = waiter[e]
          /\ waiter'[d] = NotWaiting
             \/ waiter'[d] = [waiter[d] EXCEPT !.poll = tick + 1]
      BY <1>1, <1>5 DEF Poll, Leave
    <3>2. \A e \in Delivery \ {d} : Settled(e)' = Settled(e) BY <3>1 DEF Settled
    <3>3. Settled(d) = waiter[d].since BY <2>0 DEF Settled
    <3>4. Settled(d)' = tick \/ Settled(d)' = waiter[d].since
      <4>1. CASE waiter'[d] = NotWaiting BY <3>1, <4>1 DEF Settled
      <4>2. CASE waiter'[d] # NotWaiting
        <5>1. waiter'[d].since = waiter[d].since BY <1>1, <3>1, <4>2
        <5> QED BY <4>2, <5>1 DEF Settled
      <4> QED BY <4>1, <4>2
    <3> QED BY <1>1, <1>3, <2>1, <3>2, <3>3, <3>4
  <2>2. CASE opened' # opened
    <3>1. /\ tick - waiter[d].since >= MaxWait /\ opened' = [opened EXCEPT ![d] = @ + 1]
          /\ tick' = tick /\ waiter' = [waiter EXCEPT ![d] = NotWaiting]
      BY <1>5, <2>2 DEF Poll, Leave
    <3>2. /\ opened'[d] = opened[d] + 1 /\ opened' \in [Delivery -> Nat]
          /\ \A e \in Delivery \ {d} : opened'[e] = opened[e] /\ waiter'[e] = waiter[e]
          /\ waiter'[d] = NotWaiting
      BY <1>1, <3>1
    <3>3. \A e \in Delivery \ {d} : Settled(e)' = Settled(e) BY <3>1, <3>2 DEF Settled
    <3>4. Settled(d) = waiter[d].since /\ Settled(d)' = tick BY <2>0, <3>1, <3>2 DEF Settled
    <3>5. opened'[d] * MaxWait <= tick
      <4>1. (opened[d] + 1) * MaxWait = opened[d] * MaxWait + MaxWait BY <1>1
      <4> QED BY <1>1, <1>2, <3>1, <3>2, <3>4, <4>1
    <3> QED BY <1>1, <3>2, <3>3, <3>4, <3>5 DEF OpensAreRare
  <2> QED BY <2>1, <2>2
<1>6. CASE BucketTick
  <2>1. tick' = tick + 1 /\ UNCHANGED <<waiter, opened>> BY <1>6 DEF BucketTick
  <2>2. \A d \in Delivery : Settled(d)' = Settled(d) \/ Settled(d)' = tick + 1
    BY <2>1 DEF Settled
  <2> QED BY <1>1, <1>3, <2>1, <2>2
<1>7. CASE UNCHANGED bucketVars
  <2>1. UNCHANGED <<tick, waiter, opened>> BY <1>7 DEF bucketVars
  <2>2. \A d \in Delivery : Settled(d)' = Settled(d) BY <2>1 DEF Settled
  <2> QED BY <1>1, <1>3, <2>1, <2>2
<1> QED BY <1>4, <1>5, <1>6, <1>7 DEF BucketNext

\* What the account of a receiver implies for it.
LEMMA BucketBound ==
  ASSUME BucketInv, OpensAreRare
  PROVE  BucketTypeOK /\ RateIsKept
<1>1. ASSUME NEW u \in Url PROVE granted[u] <= Capacity + PerTick * tick
  <2>1. /\ Balanced(bucket[u], granted[u]) /\ granted[u] \in Nat /\ tick \in Nat
        /\ Capacity \in Nat /\ PerTick * tick \in Nat
    BY BucketConstants DEF BucketInv, BucketTypes
  <2>2. CASE bucket[u] = NoBucket BY <2>1, <2>2 DEF Balanced
  <2>3. CASE bucket[u] # NoBucket
    <3>1. /\ bucket[u].refilled \in Nat /\ bucket[u].refilled <= tick
          /\ bucket[u].tokens \in Nat
          /\ granted[u] + bucket[u].tokens <= Capacity + PerTick * bucket[u].refilled
      BY <2>1, <2>3 DEF Balanced
    <3> DEFINE at == bucket[u].refilled  left == bucket[u].tokens
    <3>2. /\ at \in Nat /\ at <= tick /\ left \in Nat /\ granted[u] + left <= Capacity + PerTick * at
      BY <3>1
    <3> HIDE DEF at, left
    <3>3. /\ PerTick * tick = PerTick * at + PerTick * (tick - at) /\ PerTick * at \in Nat
          /\ PerTick * (tick - at) \in Nat
      BY <2>1, <3>2, FlowGrows
    <3> QED BY <2>1, <3>2, <3>3
  <2> QED BY <2>2, <2>3
<1>2. ASSUME NEW d \in Delivery PROVE opened[d] * MaxWait <= tick
  <2>1. /\ opened[d] \in Nat /\ opened[d] * MaxWait <= Settled(d) /\ Settled(d) <= tick
        /\ Settled(d) \in Nat /\ MaxWait \in Nat
    BY BucketConstants DEF BucketInv, BucketTypes, OpensAreRare, Settled, WaitsAreCapped
  <2>2. opened[d] * MaxWait \in Nat /\ tick \in Nat BY <2>1 DEF BucketInv, BucketTypes
  <2> QED BY <2>1, <2>2
<1> QED BY <1>1, <1>2 DEF BucketInv, BucketTypes, BucketTypeOK, OpensAreRare, RateIsKept

\* However deliveries to one receiver overlap and however often its bucket is dropped and
\* made anew, no more tokens are granted for it than a full bucket and the time since the
\* start account for; those that go on without one are counted apart: each of the deliveries
\* at once does so at most once per MaxWait; and nobody waits longer.  For every capacity,
\* rate, cap, and number of receivers and of deliveries at once.
THEOREM RateKept == BucketSpec => [](BucketTypeOK /\ RateIsKept)
<1>1. BucketInit => OpensAreRare
  <2> SUFFICES ASSUME BucketInit PROVE OpensAreRare
    OBVIOUS
  <2>1. /\ tick = 0 /\ opened = [d \in Delivery |-> 0] /\ MaxWait \in Nat
        /\ \A d \in Delivery : waiter[d] = NotWaiting
    BY BucketConstants DEF BucketInit
  <2>2. \A d \in Delivery : Settled(d) = 0 /\ opened[d] = 0 BY <2>1 DEF Settled
  <2>3. 0 * MaxWait = 0 BY <2>1
  <2> QED BY <2>1, <2>2, <2>3 DEF OpensAreRare
<1> QED BY <1>1, BucketStart, BucketStep, OpensStep, BucketBound, PTL DEF BucketSpec

-----------------------------------------------------------------------------
(* LoginGuard: a guess is a failure that was counted or one that will be.   *)

\* The attempts under way that will count for the key k.
Pending(k) == {t \in Attempt : trying[t] # NotTrying /\ k \in {trying[t].name, trying[t].ip}}

\* What is verified is an attempt somebody made.
Attempted ==
  trying \in [Attempt -> {NotTrying} \union [name : Account, ip : Ip, right : BOOLEAN]]

\* Each guess since the count restarted is in the count or still under way.
GuessesAreCounted == \A k \in GuardKey : guesses[k] <= guard[k].failures + Cardinality(Pending(k))

\* The window of an address never ends before the wait it was told of.
AnnouncedWindow == \A i \in Ip : told[i] <= rate[i].resetAt

LoginInv ==
  LoginTypeOK /\ Attempted /\ GuessesAreCounted /\ AnnouncedWindow /\ RetryAfterIsHonest

Guard == [failures : 0..(MaxFailures - 1), windowStart : -1..MaxTime, lockedUntil : 0..(MaxTime + LockTime)]

LEMMA LoginTypes ==
  ASSUME LoginInv
  PROVE  /\ now \in Nat /\ now <= MaxTime /\ MaxTime \in Nat /\ guard \in [GuardKey -> Guard]
         /\ rate \in [Ip -> [count : Nat, resetAt : 0..(MaxTime + RateWindow)]]
         /\ guesses \in [GuardKey -> Nat] /\ told \in [Ip -> 0..(MaxTime + RateWindow)]
         /\ MaxFailures \in Nat \ {0} /\ LockTime \in Nat /\ RateWindow \in Nat \ {0}
         /\ FailWindow \in Nat
BY LoginAssumption DEF LoginInv, LoginTypeOK, Guard

LEMMA PendingFinite ==
  ASSUME NEW k
  PROVE  /\ IsFiniteSet(Pending(k)) /\ Cardinality(Pending(k)) \in Nat
         /\ Cardinality(Pending(k)) <= Cardinality(Attempt) /\ Cardinality(Attempt) \in Nat
<1>1. Pending(k) \subseteq Attempt BY DEF Pending
<1> QED BY <1>1, LoginAssumption, FS_Subset, FS_CardinalityType

\* One more failure keeps the entry of a key an entry, and is counted in it unless the
\* count restarts.
LEMMA FailureCounts ==
  ASSUME LoginInv, NEW k \in GuardKey
  PROVE  /\ AfterFailure(guard[k]) \in Guard
         /\ WindowOver(guard[k]) \/ AfterFailure(guard[k]).failures = 0
            \/ AfterFailure(guard[k]).failures = guard[k].failures + 1
<1> DEFINE e == guard[k]
<1>1. /\ e \in Guard /\ now \in Nat /\ now <= MaxTime /\ MaxTime \in Nat
      /\ MaxFailures \in Nat \ {0} /\ LockTime \in Nat
  BY LoginTypes
<1>2. NoEntry \in Guard BY <1>1 DEF Guard, NoEntry
<1> HIDE DEF e
<1>3. ASSUME NEW d \in Guard, NEW started \in -1..MaxTime
      PROVE  /\ Failed(d, started) \in Guard
             /\ Failed(d, started).failures = 0 \/ Failed(d, started).failures = d.failures + 1
  <2>1. CASE d.failures + 1 >= MaxFailures
    <3>1. Failed(d, started) = [failures |-> 0, windowStart |-> now, lockedUntil |-> now + LockTime]
      BY <2>1 DEF Failed
    <3> QED BY <1>1, <3>1 DEF Guard
  <2>2. CASE ~(d.failures + 1 >= MaxFailures)
    <3>1. Failed(d, started) = [d EXCEPT !.failures = @ + 1, !.windowStart = started]
      BY <2>2 DEF Failed
    <3>2. d.failures + 1 \in 0..(MaxFailures - 1) BY <1>1, <1>3, <2>2 DEF Guard
    <3> QED BY <1>1, <1>3, <3>1, <3>2 DEF Guard
  <2> QED BY <2>1, <2>2
<1>4. CASE WindowOver(e)
  <2>1. 0 \in 0..(MaxFailures - 1) /\ now \in -1..MaxTime BY <1>1
  <2>2. [e EXCEPT !.failures = 0] \in Guard BY <1>1, <2>1 DEF Guard
  <2>3. AfterFailure(e) = Failed([e EXCEPT !.failures = 0], now) BY <1>4 DEF AfterFailure
  <2> QED BY <1>3, <1>4, <2>1, <2>2, <2>3 DEF e
<1>5. CASE ~WindowOver(e)
  <2>1. AfterFailure(e) = Failed(e, e.windowStart) /\ e.windowStart \in -1..MaxTime
    BY <1>1, <1>5 DEF AfterFailure, Guard
  <2> QED BY <1>1, <1>3, <2>1 DEF e
<1> QED BY <1>4, <1>5

\* An attempt that is let in is pending for its name and its address.
LEMMA AttemptKeeps ==
  ASSUME LoginInv, NEW t \in Attempt, NEW n \in Account, NEW i \in Ip, NEW right \in BOOLEAN,
         trying[t] = NotTrying, UNCHANGED guard,
         trying' = [trying EXCEPT ![t] = [name |-> n, ip |-> i, right |-> right]],
         guesses' = [k \in GuardKey |-> IF k \in {n, i} THEN guesses[k] + 1 ELSE guesses[k]]
  PROVE  Attempted' /\ GuessesAreCounted' /\ guesses' \in [GuardKey -> Nat]
<1>1. /\ trying \in [Attempt -> {NotTrying} \union [name : Account, ip : Ip, right : BOOLEAN]]
      /\ guesses \in [GuardKey -> Nat] /\ guard \in [GuardKey -> Guard] /\ GuessesAreCounted
  BY LoginTypes DEF LoginInv, Attempted
<1> DEFINE new == [name |-> n, ip |-> i, right |-> right]
<1>2. /\ new \in [name : Account, ip : Ip, right : BOOLEAN] /\ new.name = n /\ new.ip = i
      /\ new # NotTrying
  BY LoginAssumption DEF NotTrying
<1> HIDE DEF new
<1>3. trying' = [trying EXCEPT ![t] = new] BY DEF new
<1>4. /\ trying'[t] = new /\ \A s \in Attempt \ {t} : trying'[s] = trying[s]
      /\ Attempted'
  BY <1>1, <1>2, <1>3 DEF Attempted
<1>5. ASSUME NEW k \in GuardKey
      PROVE  guesses'[k] <= guard'[k].failures + Cardinality(Pending(k)') /\ guesses'[k] \in Nat
  <2>1. /\ guesses[k] <= guard[k].failures + Cardinality(Pending(k)) /\ guesses[k] \in Nat
        /\ guard[k].failures \in Nat /\ IsFiniteSet(Pending(k)) /\ Cardinality(Pending(k)) \in Nat
        /\ guard' = guard /\ t \notin Pending(k)
    <3>1. guard[k].failures \in Nat BY <1>1, LoginTypes DEF Guard
    <3>2. t \notin Pending(k) BY DEF Pending
    <3> QED BY <1>1, <3>1, <3>2, PendingFinite DEF GuessesAreCounted
  <2>2. CASE k \in {n, i}
    <3>1. Pending(k)' = Pending(k) \union {t} BY <1>2, <1>4, <2>2 DEF Pending
    <3>2. Cardinality(Pending(k) \union {t}) = Cardinality(Pending(k)) + 1
      BY <2>1, FS_AddElement
    <3>3. guesses'[k] = guesses[k] + 1 BY <2>2
    <3> QED BY <2>1, <3>1, <3>2, <3>3
  <2>3. CASE k \notin {n, i}
    <3>1. Pending(k)' = Pending(k) BY <1>2, <1>4, <2>1, <2>3 DEF Pending
    <3>2. guesses'[k] = guesses[k] BY <2>3
    <3> QED BY <2>1, <3>1, <3>2
  <2> QED BY <2>2, <2>3
<1>6. GuessesAreCounted' BY <1>5 DEF GuessesAreCounted
<1>7. guesses' = [k \in GuardKey |-> guesses'[k]] OBVIOUS
<1>8. guesses' \in [GuardKey -> Nat] BY <1>5, <1>7
<1> QED BY <1>4, <1>6, <1>8

\* The verdict on an attempt: a right password clears its keys, a wrong one is counted
\* where it was pending.
LEMMA VerdictKeeps ==
  ASSUME LoginInv, NEW t \in Attempt, Verified(t)
  PROVE  /\ Attempted' /\ GuessesAreCounted' /\ guesses' \in [GuardKey -> Nat]
         /\ guard' \in [GuardKey -> Guard]
<1>1. /\ trying \in [Attempt -> {NotTrying} \union [name : Account, ip : Ip, right : BOOLEAN]]
      /\ guesses \in [GuardKey -> Nat] /\ guard \in [GuardKey -> Guard] /\ GuessesAreCounted
  BY LoginTypes DEF LoginInv, Attempted
<1> DEFINE keys == {trying[t].name, trying[t].ip}
<1>2. /\ trying[t] # NotTrying /\ trying'[t] = NotTrying
      /\ \A s \in Attempt \ {t} : trying'[s] = trying[s]
      /\ Attempted'
  BY <1>1 DEF Verified, Attempted
<1>3. \A k \in GuardKey : Pending(k)' = Pending(k) \ {t}
  BY <1>2 DEF Pending
<1>4. \A k \in GuardKey : t \in Pending(k) <=> k \in keys BY <1>2 DEF Pending
<1>5. NoEntry \in Guard /\ NoEntry.failures = 0 BY LoginTypes DEF Guard, NoEntry
<1>6. \/ /\ guard' = [k \in GuardKey |-> IF k \in keys THEN NoEntry ELSE guard[k]]
         /\ guesses' = [k \in GuardKey |-> IF k \in keys THEN 0 ELSE guesses[k]]
      \/ RecordLoginFailure(keys)
  BY DEF Verified
<1> HIDE DEF keys
<1>7. ASSUME NEW k \in GuardKey
      PROVE  /\ guesses'[k] <= guard'[k].failures + Cardinality(Pending(k)')
             /\ guesses'[k] \in Nat /\ guard'[k] \in Guard
  <2>1. /\ guesses[k] <= guard[k].failures + Cardinality(Pending(k)) /\ guesses[k] \in Nat
        /\ guard[k] \in Guard /\ IsFiniteSet(Pending(k)) /\ Cardinality(Pending(k)) \in Nat
    BY <1>1, PendingFinite DEF GuessesAreCounted
  <2>2. \A e \in Guard : e.failures \in Nat BY LoginTypes DEF Guard
  <2>3. CASE k \notin keys
    <3>1. Pending(k)' = Pending(k) BY <1>3, <1>4, <2>3
    <3>2. guesses'[k] = guesses[k] /\ guard'[k] = guard[k]
      BY <1>6, <2>3 DEF RecordLoginFailure
    <3> QED BY <2>1, <3>1, <3>2
  <2>4. CASE k \in keys
    <3>1. Cardinality(Pending(k) \ {t}) = Cardinality(Pending(k)) - 1
          /\ Cardinality(Pending(k) \ {t}) \in Nat
      BY <1>4, <2>1, <2>4, FS_RemoveElement, FS_CardinalityType
    <3>2. Cardinality(Pending(k)') = Cardinality(Pending(k)) - 1
          /\ Cardinality(Pending(k)') \in Nat
      BY <1>3, <3>1
    <3>3. CASE guesses'[k] = 0 /\ guard'[k] \in Guard
      <4>1. guard'[k].failures \in Nat BY <2>2, <3>3
      <4> QED BY <3>2, <3>3, <4>1
    <3>4. CASE RecordLoginFailure(keys)
      <4> DEFINE e == AfterFailure(guard[k])
      <4>1. guard'[k] = e
            /\ guesses'[k] = IF WindowOver(guard[k]) \/ e.failures = 0 THEN 0 ELSE guesses[k]
        BY <2>4, <3>4 DEF RecordLoginFailure
      <4>2. e \in Guard /\ (WindowOver(guard[k]) \/ e.failures = 0 \/ e.failures = guard[k].failures + 1)
        BY FailureCounts
      <4> HIDE DEF e
      <4>3. CASE WindowOver(guard[k]) \/ e.failures = 0 BY <3>3, <4>1, <4>2, <4>3
      <4>4. CASE ~(WindowOver(guard[k]) \/ e.failures = 0)
        <5>1. guesses'[k] = guesses[k] /\ guard'[k].failures = guard[k].failures + 1
          BY <4>1, <4>2, <4>4
        <5>2. guard[k].failures \in Nat BY <2>1, <2>2
        <5> QED BY <2>1, <3>2, <4>1, <4>2, <5>1, <5>2
      <4> QED BY <4>3, <4>4
    <3> QED BY <1>5, <1>6, <2>4, <3>3, <3>4
  <2> QED BY <2>3, <2>4
<1>8. GuessesAreCounted' BY <1>7 DEF GuessesAreCounted
<1>9. guard' = [k \in GuardKey |-> guard'[k]] /\ guesses' = [k \in GuardKey |-> guesses'[k]]
  BY <1>6 DEF RecordLoginFailure
<1>10. guard' \in [GuardKey -> Guard] /\ guesses' \in [GuardKey -> Nat] BY <1>7, <1>9
<1> QED BY <1>2, <1>8, <1>10

\* A request that is counted moves the end of the window only after the wait it ends.
LEMMA CountKeeps ==
  ASSUME LoginInv, NEW i \in Ip, rate' = [rate EXCEPT ![i] = Counted(i)], UNCHANGED now,
         told' \in {told, [told EXCEPT ![i] = rate[i].resetAt]},
         now < rate[i].resetAt \/ told' = told
  PROVE  /\ rate' \in [Ip -> [count : Nat, resetAt : 0..(MaxTime + RateWindow)]]
         /\ told' \in [Ip -> 0..(MaxTime + RateWindow)]
         /\ AnnouncedWindow' /\ RetryAfterIsHonest'
<1>1. /\ now \in Nat /\ now <= MaxTime /\ MaxTime \in Nat /\ RateWindow \in Nat \ {0}
      /\ rate \in [Ip -> [count : Nat, resetAt : 0..(MaxTime + RateWindow)]]
      /\ told \in [Ip -> 0..(MaxTime + RateWindow)]
      /\ AnnouncedWindow /\ RetryAfterIsHonest
  BY LoginTypes DEF LoginInv
<1> DEFINE c == Counted(i)
<1>2. /\ c \in [count : Nat, resetAt : 0..(MaxTime + RateWindow)]
      /\ IF now >= rate[i].resetAt THEN c.resetAt = now + RateWindow
         ELSE c.resetAt = rate[i].resetAt
  <2>1. rate[i].count + 1 \in Nat BY <1>1
  <2> QED BY <1>1, <2>1 DEF Counted
<1> HIDE DEF c
<1>3. rate' = [rate EXCEPT ![i] = c] BY DEF c
<1>4. /\ rate' \in [Ip -> [count : Nat, resetAt : 0..(MaxTime + RateWindow)]]
      /\ told' \in [Ip -> 0..(MaxTime + RateWindow)]
  BY <1>1, <1>2, <1>3
<1>5. ASSUME NEW j \in Ip
      PROVE  told'[j] <= rate'[j].resetAt /\ (now' < told'[j] => rate'[j].resetAt <= told'[j])
  <2>1. /\ told[j] <= rate[j].resetAt /\ (now < told[j] => rate[j].resetAt <= told[j])
        /\ rate[j].resetAt \in Nat /\ told[j] \in Nat
    BY <1>1 DEF AnnouncedWindow, RetryAfterIsHonest
  <2>2. CASE j # i BY <1>1, <1>3, <2>1, <2>2
  <2>3. CASE j = i
    <3>1. rate'[j] = c /\ told'[j] \in {told[j], rate[j].resetAt} BY <1>1, <1>3, <2>3
    <3>2. told'[j] = told[j] \/ now < rate[j].resetAt BY <2>3
    <3> QED BY <1>1, <1>2, <2>1, <2>3, <3>1, <3>2
  <2> QED BY <2>2, <2>3
<1> QED BY <1>4, <1>5 DEF AnnouncedWindow, RetryAfterIsHonest

LEMMA LoginStep ==
  ASSUME LoginInv, [LoginNext]_loginVars
  PROVE  LoginInv'
<1>1. /\ now \in Nat /\ now <= MaxTime /\ MaxTime \in Nat
      /\ guard \in [GuardKey -> Guard] /\ guesses \in [GuardKey -> Nat]
      /\ rate \in [Ip -> [count : Nat, resetAt : 0..(MaxTime + RateWindow)]]
      /\ told \in [Ip -> 0..(MaxTime + RateWindow)]
      /\ Attempted /\ GuessesAreCounted /\ AnnouncedWindow /\ RetryAfterIsHonest
  BY LoginTypes DEF LoginInv
<1>2. ASSUME UNCHANGED <<guard, trying, guesses>>
      PROVE  Attempted' /\ GuessesAreCounted'
  BY <1>1, <1>2 DEF Attempted, GuessesAreCounted, Pending
<1>3. ASSUME UNCHANGED <<rate, told, now>>
      PROVE  AnnouncedWindow' /\ RetryAfterIsHonest'
  BY <1>1, <1>3 DEF AnnouncedWindow, RetryAfterIsHonest
<1>4. ASSUME NEW i \in Ip, Refuse(i) PROVE LoginInv'
  <2>1. /\ rate' = [rate EXCEPT ![i] = Counted(i)] /\ told' = [told EXCEPT ![i] = rate[i].resetAt]
        /\ UNCHANGED <<now, guard, trying, guesses>> /\ now < rate[i].resetAt
    BY <1>4 DEF Refuse
  <2>2. /\ rate' \in [Ip -> [count : Nat, resetAt : 0..(MaxTime + RateWindow)]]
        /\ told' \in [Ip -> 0..(MaxTime + RateWindow)] /\ AnnouncedWindow' /\ RetryAfterIsHonest'
    BY <2>1, CountKeeps
  <2> QED BY <1>1, <1>2, <2>1, <2>2 DEF LoginInv, LoginTypeOK, Guard
<1>5. ASSUME NEW t \in Attempt, NEW n \in Account, NEW i \in Ip, NEW right \in BOOLEAN,
             Login(t, n, i, right)
      PROVE  LoginInv'
  <2>1. /\ rate' = [rate EXCEPT ![i] = Counted(i)] /\ UNCHANGED <<now, told, guard>>
        /\ trying[t] = NotTrying
    BY <1>5 DEF Login
  <2>2. /\ rate' \in [Ip -> [count : Nat, resetAt : 0..(MaxTime + RateWindow)]]
        /\ told' \in [Ip -> 0..(MaxTime + RateWindow)] /\ AnnouncedWindow' /\ RetryAfterIsHonest'
    BY <2>1, CountKeeps
  <2>3. Attempted' /\ GuessesAreCounted' /\ guesses' \in [GuardKey -> Nat]
    <3>1. CASE UNCHANGED <<guard, trying, guesses>> BY <1>1, <1>2, <3>1
    <3>2. CASE /\ trying' = [trying EXCEPT ![t] = [name |-> n, ip |-> i, right |-> right]]
               /\ guesses' = [k \in GuardKey |-> IF k \in {n, i} THEN guesses[k] + 1 ELSE guesses[k]]
      BY <2>1, <3>2, AttemptKeeps
    <3> QED BY <1>5, <3>1, <3>2 DEF Login
  <2> QED BY <1>1, <2>1, <2>2, <2>3 DEF LoginInv, LoginTypeOK, Guard
<1>6. ASSUME NEW t \in Attempt, Verified(t) PROVE LoginInv'
  <2>1. UNCHANGED <<now, rate, told>> BY <1>6 DEF Verified
  <2>2. /\ Attempted' /\ GuessesAreCounted' /\ guesses' \in [GuardKey -> Nat]
        /\ guard' \in [GuardKey -> Guard]
    BY <1>6, VerdictKeeps
  <2> QED BY <1>1, <1>3, <2>1, <2>2 DEF LoginInv, LoginTypeOK, Guard
<1>7. CASE LoginTick
  <2>1. now' \in 0..MaxTime /\ now <= now' /\ UNCHANGED <<guard, rate, trying, guesses, told>>
    BY <1>1, <1>7 DEF LoginTick
  <2>2. AnnouncedWindow' BY <1>1, <2>1 DEF AnnouncedWindow
  <2>3. RetryAfterIsHonest'
    <3> SUFFICES ASSUME NEW i \in Ip, now' < told[i]
                 PROVE  rate[i].resetAt <= told[i]
      BY <2>1 DEF RetryAfterIsHonest
    <3>1. told[i] \in Nat /\ now' \in Nat BY <1>1, <2>1, LoginTypes
    <3>2. now < told[i] BY <1>1, <2>1, <3>1
    <3> QED BY <1>1, <3>2 DEF RetryAfterIsHonest
  <2> QED BY <1>1, <1>2, <2>1, <2>2, <2>3 DEF LoginInv, LoginTypeOK, Guard
<1>8. CASE UNCHANGED loginVars
  <2>1. UNCHANGED <<now, guard, rate, trying, guesses, told>> BY <1>8 DEF loginVars
  <2> QED BY <1>1, <1>2, <1>3, <2>1 DEF LoginInv, LoginTypeOK, Guard
<1> QED BY <1>4, <1>5, <1>6, <1>7, <1>8 DEF LoginNext

LEMMA LoginStart ==
  ASSUME LoginInit
  PROVE  LoginInv
<1>1. /\ now = 0 /\ guard = [k \in GuardKey |-> NoEntry] /\ guesses = [k \in GuardKey |-> 0]
      /\ rate = [i \in Ip |-> [count |-> 0, resetAt |-> 0]] /\ told = [i \in Ip |-> 0]
      /\ trying = [t \in Attempt |-> NotTrying]
      /\ MaxFailures \in Nat \ {0} /\ MaxTime \in Nat /\ LockTime \in Nat /\ RateWindow \in Nat
  BY LoginAssumption DEF LoginInit
<1>2. NoEntry \in Guard /\ NoEntry.failures = 0 BY <1>1 DEF Guard, NoEntry
<1>3. [count |-> 0, resetAt |-> 0] \in [count : Nat, resetAt : 0..(MaxTime + RateWindow)] BY <1>1
<1>4. LoginTypeOK BY <1>1, <1>2, <1>3 DEF LoginTypeOK, Guard
<1>5. Attempted BY <1>1 DEF Attempted
<1>6. GuessesAreCounted
  <2> SUFFICES ASSUME NEW k \in GuardKey
               PROVE  guesses[k] <= guard[k].failures + Cardinality(Pending(k))
    BY DEF GuessesAreCounted
  <2>1. Cardinality(Pending(k)) \in Nat BY PendingFinite
  <2> QED BY <1>1, <1>2, <2>1
<1>7. AnnouncedWindow /\ RetryAfterIsHonest BY <1>1 DEF AnnouncedWindow, RetryAfterIsHonest
<1> QED BY <1>4, <1>5, <1>6, <1>7 DEF LoginInv

LEMMA LoginBound ==
  ASSUME LoginInv
  PROVE  LoginTypeOK /\ LoginIsThrottled
<1>1. ASSUME NEW k \in GuardKey
      PROVE  guesses[k] <= MaxFailures - 1 + Cardinality(Attempt)
  <2>1. /\ guard[k] \in Guard /\ guesses[k] \in Nat /\ MaxFailures \in Nat
        /\ guesses[k] <= guard[k].failures + Cardinality(Pending(k))
    BY LoginTypes DEF LoginInv, GuessesAreCounted
  <2>2. guard[k].failures \in 0..(MaxFailures - 1) BY <2>1 DEF Guard
  <2> QED BY <2>1, <2>2, PendingFinite
<1> QED BY <1>1 DEF LoginInv, LoginIsThrottled, GuessesAreBounded

\* However many attempts overlap between the check of a lock and their verdicts, a name
\* or an address gets no more guesses than the limit and the overlap allow; and the limiter
\* of requests does not move the end of a wait it announced.  (The wait of a lock is not
\* promised: attempts still under way may fail and lengthen it.)  For every limit, window
\* and number of attempts.
THEOREM LoginThrottled == LoginSpec => [](LoginTypeOK /\ LoginIsThrottled)
<1> QED BY LoginStart, LoginStep, LoginBound, PTL DEF LoginSpec

-----------------------------------------------------------------------------
(* AuthBackend: one decision per process, and the record follows it.        *)

Starting == phase \in {"connecting", "checking"}

\* What a caller waits for is a first decision: nothing is recorded or configured, and
\* nothing pending was decided, as long as a start can still record something.
FirstDecision ==
  /\ phase = "down" => decision = "none" /\ pending = "none" /\ asking = {} /\ wrote = {}
  /\ Starting /\ (asking # {} \/ pending # "none") => record = "none"
  /\ asking # {} /\ decision = "none" => config.backend = "auto"
  /\ asking # {} /\ phase = "connecting" => available
  /\ phase = "serving" => decision # "none"

\* One decision, as long as no two callers have waited at once: who still waits never
\* gets an answer, and what is written, pending or recorded is what was decided.
OneDecision ==
  /\ \A a, b \in asking : a = b
  /\ wrote \subseteq {decision}
  /\ decision = "none" => pending = "none" /\ wrote = {}
  /\ asking # {} /\ decision # "none" => ~available /\ phase # "connecting"
  /\ Starting /\ decision # "none" =>
       IF pending # "none" THEN pending = decision ELSE record = decision
  /\ phase = "serving" => decision = record

BackendInv == BackendTypeOK /\ FirstDecision /\ (~overlapped => OneDecision)

LEMMA BackendTypes ==
  ASSUME BackendTypeOK
  PROVE  /\ record \in Backend \union {"none"} /\ decision \in Backend \union {"none"}
         /\ pending \in Backend \union {"none"} /\ stored \subseteq Backend /\ wrote \subseteq Backend
         /\ phase \in {"down", "connecting", "checking", "serving"}
         /\ config \in [backend : Configured, confirmed : BOOLEAN]
         /\ config.backend \in Backend \union {"auto"}
         /\ asking \subseteq {"boot", "request"}
BY BackendAssumption DEF BackendTypeOK

\* What a process decides when it need not ask is a backend; it asks only on a first run
\* with Redis and without a configured backend.
LEMMA WantedIs ==
  ASSUME BackendTypeOK
  PROVE  /\ Wanted # "ask" => Wanted \in Backend
         /\ Wanted = "ask" => record = "none" /\ config.backend = "auto" /\ available
         /\ Wanted # "ask" /\ record = "none" /\ config.backend = "auto" => ~available
         /\ SwitchAsked => record # "none" /\ Wanted = config.backend
         /\ ~SwitchAsked /\ record # "none" => Wanted = record
<1>1. /\ record \in Backend \union {"none"} /\ config.backend \in Backend \union {"auto"}
  BY BackendTypes
<1> QED BY <1>1 DEF Wanted, SwitchAsked, Backend

\* A process that ends, or has not begun, has decided nothing.
LEMMA FreshStart ==
  ASSUME BackendInv, Fresh, phase' \in {"down", "connecting"}, available' \in BOOLEAN,
         config' \in [backend : Configured, confirmed : BOOLEAN],
         UNCHANGED <<record, stored, hadRecord>>
  PROVE  BackendInv'
<1>1. /\ decision' = "none" /\ pending' = "none" /\ asking' = {} /\ wrote' = {} /\ overlapped' = FALSE
  BY DEF Fresh
<1>2. BackendTypeOK' BY <1>1 DEF BackendInv, BackendTypeOK
<1>3. FirstDecision' /\ OneDecision' BY <1>1 DEF FirstDecision, OneDecision, Starting
<1> QED BY <1>2, <1>3 DEF BackendInv

\* The types after a step that decides or waits.
LEMMA ResolveKeeps ==
  ASSUME BackendInv, NEW caller \in {"boot", "request"}, Resolve(caller)
  PROVE  BackendInv'
<1>1. /\ BackendTypeOK /\ FirstDecision /\ (~overlapped => OneDecision)
      /\ phase \in {"connecting", "checking", "serving"} /\ decision = "none" /\ caller \notin asking
      /\ UNCHANGED <<stored, phase, config, available, hadRecord, wrote>>
  BY BackendTypes DEF BackendInv, Resolve
<1>2. Starting BY <1>1 DEF FirstDecision, Starting
<1>3. CASE Wanted = "ask"
  <2>1. /\ asking' = asking \union {caller} /\ UNCHANGED <<record, decision, pending>>
        /\ overlapped' = (overlapped \/ asking # {})
        /\ record = "none" /\ config.backend = "auto" /\ available
    BY <1>1, <1>3, WantedIs DEF Resolve
  <2>2. overlapped' \in BOOLEAN BY <2>1, Zenon
  <2>3. BackendTypeOK' BY <1>1, <2>1, <2>2 DEF BackendTypeOK
  <2>4. FirstDecision' BY <1>1, <1>2, <2>1 DEF FirstDecision, Starting
  <2>5. ASSUME ~overlapped' PROVE OneDecision'
    <3>1. ~overlapped /\ asking = {} BY <2>1, <2>5, Zenon
    <3> QED BY <1>1, <2>1, <3>1 DEF OneDecision, Starting
  <2> QED BY <2>3, <2>4, <2>5 DEF BackendInv
<1>4. CASE Wanted # "ask"
  <2>1. /\ decision' = Wanted /\ pending' = (IF record = "none" THEN Wanted ELSE pending)
        /\ record' = (IF SwitchAsked THEN Wanted ELSE record)
        /\ UNCHANGED <<asking, overlapped>>
    BY <1>4 DEF Resolve, Decide
  <2>2. /\ Wanted \in Backend
        /\ record = "none" /\ config.backend = "auto" => ~available
        /\ SwitchAsked => record # "none"
        /\ record # "none" => record' = Wanted
        /\ record = "none" => record' = record
    BY <1>1, <1>4, <2>1, WantedIs
  <2>3. "none" \notin Backend BY DEF Backend
  <2>4. BackendTypeOK' BY <1>1, <2>1, <2>2 DEF BackendTypeOK
  <2>5. FirstDecision' BY <1>1, <1>2, <2>1, <2>2, <2>3 DEF FirstDecision, Starting
  <2>6. ASSUME ~overlapped PROVE OneDecision'
    <3>1. OneDecision BY <1>1, <2>6
    <3>2. asking # {} => ~available /\ phase # "connecting"
      BY <1>1, <1>2, <2>2 DEF FirstDecision, Starting
    <3>3. wrote = {} /\ pending = "none" BY <1>1, <3>1 DEF OneDecision
    <3> QED BY <1>1, <1>2, <2>1, <2>2, <2>3, <3>1, <3>2, <3>3 DEF OneDecision, Starting
  <2> QED BY <2>1, <2>4, <2>5, <2>6 DEF BackendInv
<1> QED BY <1>3, <1>4

LEMMA BackendStep ==
  ASSUME BackendInv, [BackendNext]_authVars
  PROVE  BackendInv'
<1>1. /\ BackendTypeOK /\ FirstDecision /\ (~overlapped => OneDecision)
      /\ phase \in {"down", "connecting", "checking", "serving"}
      /\ config \in [backend : Configured, confirmed : BOOLEAN] /\ "none" \notin Backend
      /\ record \in Backend \union {"none"} /\ decision \in Backend \union {"none"}
      /\ pending \in Backend \union {"none"} /\ stored \subseteq Backend /\ wrote \subseteq Backend
      /\ asking \subseteq {"boot", "request"}
  BY BackendTypes DEF BackendInv, Backend
<1>2. CASE StartServer BY <1>1, <1>2, FreshStart DEF StartServer
<1>3. CASE RedisInitialised
  <2>1. /\ phase = "connecting" /\ phase' = "checking" /\ available' \in BOOLEAN
        /\ hadRecord' = (record # "none")
        /\ UNCHANGED <<record, stored, config, decision, pending, asking, wrote, overlapped>>
    BY <1>3 DEF RedisInitialised
  <2>2. hadRecord' \in BOOLEAN BY <2>1, Zenon
  <2>3. BackendTypeOK' BY <1>1, <2>1, <2>2 DEF BackendTypeOK
  <2>4. FirstDecision' BY <1>1, <2>1 DEF FirstDecision, Starting
  <2>5. ASSUME OneDecision PROVE OneDecision' BY <1>1, <2>1, <2>5 DEF OneDecision, Starting
  <2> QED BY <1>1, <2>1, <2>3, <2>4, <2>5 DEF BackendInv
<1>4. CASE Exit BY <1>1, <1>4, FreshStart DEF Exit
<1>5. CASE BootRefused BY <1>1, <1>5, FreshStart DEF BootRefused
<1>6. CASE Checked
  <2>1. /\ phase = "checking" /\ decision # "none" /\ "boot" \notin asking
        /\ UNCHANGED <<stored, config, hadRecord>>
    BY <1>6 DEF Checked
  <2>2. CASE phase' = "down" /\ available' = FALSE /\ Fresh /\ UNCHANGED record
    BY <1>1, <2>1, <2>2, FreshStart
  <2>3. CASE /\ phase' = "serving" /\ record' = (IF pending # "none" THEN pending ELSE record)
             /\ pending' = "none" /\ UNCHANGED <<available, decision, asking, wrote, overlapped>>
    <3>1. BackendTypeOK' BY <1>1, <2>1, <2>3 DEF BackendTypeOK
    <3>2. FirstDecision' BY <1>1, <2>1, <2>3 DEF FirstDecision, Starting
    <3>3. ASSUME OneDecision PROVE OneDecision'
      BY <1>1, <2>1, <2>3, <3>3 DEF OneDecision, Starting
    <3> QED BY <1>1, <2>3, <3>1, <3>2, <3>3 DEF BackendInv
  <2> QED BY <1>6, <2>2, <2>3 DEF Checked
<1>7. ASSUME NEW caller \in {"boot", "request"}, IdsRead(caller) PROVE BackendInv'
  <2>1. /\ available /\ phase # "connecting" /\ caller \in asking /\ asking' = asking \ {caller}
        /\ decision' = Chosen /\ pending' = Chosen /\ Chosen \in Backend
        /\ UNCHANGED <<record, stored, phase, config, available, hadRecord, wrote, overlapped>>
    BY <1>7 DEF IdsRead, Chosen, Backend
  <2>2. BackendTypeOK' BY <1>1, <2>1 DEF BackendTypeOK
  <2>3. phase # "down" BY <1>1, <2>1 DEF FirstDecision
  <2>4. FirstDecision'
    <3>1. Starting => record = "none" BY <1>1, <2>1 DEF FirstDecision
    <3> QED BY <1>1, <2>1, <2>3, <3>1 DEF FirstDecision, Starting
  <2>5. ASSUME OneDecision PROVE OneDecision'
    <3>1. asking = {caller} /\ asking' = {} BY <2>1, <2>5 DEF OneDecision
    <3>2. decision = "none" /\ phase # "serving" BY <1>1, <2>1, <2>5 DEF OneDecision, FirstDecision
    <3>3. wrote = {} BY <2>5, <3>2 DEF OneDecision
    <3> QED BY <1>1, <2>1, <3>1, <3>2, <3>3 DEF OneDecision, Starting
  <2> QED BY <1>1, <2>1, <2>2, <2>4, <2>5 DEF BackendInv
<1>8. CASE IdsFailed
  <2>1. /\ asking' = asking \ {"request"}
        /\ UNCHANGED <<record, stored, phase, config, available, decision, pending, hadRecord,
                       wrote, overlapped>>
    BY <1>8 DEF IdsFailed
  <2>2. BackendTypeOK' BY <1>1, <2>1 DEF BackendTypeOK
  <2>3. FirstDecision' BY <1>1, <2>1 DEF FirstDecision, Starting
  <2>4. ASSUME OneDecision PROVE OneDecision' BY <1>1, <2>1, <2>4 DEF OneDecision, Starting
  <2> QED BY <1>1, <2>1, <2>2, <2>3, <2>4 DEF BackendInv
<1>9. CASE WriteSession \/ DeleteSessions
  <2>1. /\ phase # "down" /\ decision # "none" /\ stored' \subseteq Backend
        /\ wrote' \subseteq wrote \union {decision}
        /\ UNCHANGED <<record, phase, config, available, decision, pending, asking, hadRecord,
                       overlapped>>
    BY <1>1, <1>9 DEF WriteSession, DeleteSessions
  <2>2. BackendTypeOK' BY <1>1, <2>1 DEF BackendTypeOK
  <2>3. FirstDecision' BY <1>1, <2>1 DEF FirstDecision, Starting
  <2>4. ASSUME OneDecision PROVE OneDecision' BY <1>1, <2>1, <2>4 DEF OneDecision, Starting
  <2> QED BY <1>1, <2>1, <2>2, <2>3, <2>4 DEF BackendInv
<1>10. CASE UNCHANGED authVars
  <2>1. UNCHANGED <<record, stored, phase, config, available, decision, pending, asking, hadRecord,
                    wrote, overlapped>>
    BY <1>10 DEF authVars
  <2> QED BY <1>1, <2>1 DEF BackendInv, BackendTypeOK, FirstDecision, OneDecision, Starting
<1> QED BY <1>2, <1>3, <1>4, <1>5, <1>6, <1>7, <1>8, <1>9, <1>10, ResolveKeeps DEF BackendNext

LEMMA BackendStart ==
  ASSUME BackendInit
  PROVE  BackendInv
<1>1. BackendTypeOK BY DEF BackendInit, BackendTypeOK
<1> QED BY <1>1 DEF BackendInit, BackendInv, FirstDecision, OneDecision, Starting

\* A record that exists moves only by a confirmed switch.
LEMMA RecordMoves ==
  ASSUME BackendInv, [BackendNext]_authVars, record # "none", record' # record
  PROVE  config.confirmed /\ record' = config.backend
<1>1. BackendTypeOK /\ FirstDecision BY DEF BackendInv
<1>2. \/ \E caller \in {"boot", "request"} : Resolve(caller)
      \/ Checked
  BY DEF BackendNext, StartServer, RedisInitialised, Exit, BootRefused, IdsRead, IdsFailed,
         WriteSession, DeleteSessions, authVars
<1>3. ASSUME NEW caller \in {"boot", "request"}, Resolve(caller)
      PROVE  config.confirmed /\ record' = config.backend
  <2>1. ~Refused /\ record' = (IF SwitchAsked THEN Wanted ELSE record)
    BY <1>3 DEF Resolve
  <2>2. SwitchAsked /\ record' = Wanted BY <2>1
  <2> QED BY <1>1, <2>1, <2>2, WantedIs DEF Refused
<1>4. CASE Checked
  <2>1. phase = "checking" /\ (record' = record \/ (pending # "none" /\ record' = pending))
    BY <1>4 DEF Checked
  <2> QED BY <1>1, <2>1 DEF FirstDecision, Starting
<1> QED BY <1>2, <1>3, <1>4

\* Once a process serves it uses the recorded store and writes to that one only, and the
\* record moves by a confirmed switch alone, whatever the configurations it is started
\* with.
THEOREM BackendKept == BackendSpec => BackendIsKept
<1>1. BackendInv => BackendIsSticky
  BY DEF BackendInv, FirstDecision, OneDecision, BackendIsSticky, Backend
<1>2. BackendInv /\ [BackendNext]_authVars =>
        [record # "none" /\ record' # record => config.confirmed /\ record' = config.backend]_record
  BY RecordMoves
<1>3. BackendSpec => []BackendInv BY BackendStart, BackendStep, PTL DEF BackendSpec
<1>4. BackendSpec => []BackendIsSticky BY <1>1, <1>3, PTL
<1>5. BackendSpec => RecordMovesByConfirmation
  BY <1>2, <1>3, PTL DEF BackendSpec, RecordMovesByConfirmation
<1> QED BY <1>4, <1>5 DEF BackendIsKept

-----------------------------------------------------------------------------
(* ApiKeys: who still has a key in hand when its revocation is answered.    *)

\* Two requests never share a key unnoticed; who waits has a key, one that was issued
\* unless it is about to be looked for.
RequestsAreMet ==
  /\ \A r, q \in KeyRequest : r # q /\ op[r].key = op[q].key /\ op[r].key # "none" => op[r].key \in met
  /\ \A r \in KeyRequest : op[r] = Free \/ /\ op[r].key \in Key /\ op[r].at # "idle"
                                           /\ op[r].at # "hGetAll" => op[r].key \in minted

\* A key that is being moved has its record, or somebody began to delete it; a key that is
\* being deleted has none in the file, unless a request that met it wrote one.
RecordsAreFiled ==
  /\ file \union redis \union legacy \union clean \subseteq minted
  /\ \A r \in KeyRequest :
       /\ op[r].at \in {"moved", "del"} => op[r].key \in file \union asked
       /\ op[r].at = "hDel" /\ op[r].key \notin met => op[r].key \notin file

\* Who comes with a key whose revocation was clean only looks for it.
CleanKeysAreOnlySought ==
  \A r \in KeyRequest : op[r].key \in clean =>
    /\ op[r].at \in {"hGet", "get", "hGetAll"}
    /\ op[r].at # "hGetAll" => op[r].presents

KeysInv ==
  /\ KeysTypeOK /\ KeysAreKept /\ RequestsAreMet /\ RecordsAreFiled /\ CleanKeysAreOnlySought

RequestRecord == [at : Place, key : Key \union {"none"}, presents : BOOLEAN]

LEMMA FreeIs ==
  Free \in RequestRecord /\ Free.at = "idle" /\ Free.key = "none"
BY DEF Free, RequestRecord, Place

\* A request begins with a key: whoever holds it too has met it now.
LEMMA StartMeets ==
  ASSUME op \in [KeyRequest -> RequestRecord], met \subseteq Key, RequestsAreMet, NEW r \in KeyRequest,
         NEW place \in Place \ {"idle"}, NEW k \in Key, NEW presents \in BOOLEAN,
         Start(r, place, k, presents), minted \subseteq minted', place = "hGetAll" \/ k \in minted'
  PROVE  /\ op' \in [KeyRequest -> RequestRecord] /\ met' \subseteq Key /\ met \subseteq met'
         /\ op[r].key = "none" /\ op'[r].at = place /\ op'[r].key = k /\ op'[r].presents = presents
         /\ \A q \in KeyRequest \ {r} : op'[q] = op[q]
         /\ RequestsAreMet'
<1>1. /\ op' = [op EXCEPT ![r] = [at |-> place, key |-> k, presents |-> presents]]
      /\ met' = (IF Held(k, r) THEN met \union {k} ELSE met) /\ op[r] = Free
  BY DEF Start
<1>2. /\ op'[r].at = place /\ op'[r].key = k /\ op'[r].presents = presents
      /\ \A q \in KeyRequest \ {r} : op'[q] = op[q]
      /\ op' \in [KeyRequest -> RequestRecord]
  BY <1>1 DEF RequestRecord
<1>3. met' \subseteq Key /\ met \subseteq met' BY <1>1
<1>4. RequestsAreMet'
  <2>1. ASSUME NEW q \in KeyRequest, NEW p \in KeyRequest, q # p, op'[q].key = op'[p].key,
               op'[q].key # "none"
        PROVE  op'[q].key \in met'
    <3>1. CASE q # r /\ p # r BY <1>2, <1>3, <2>1, <3>1 DEF RequestsAreMet
    <3>2. CASE q = r \/ p = r
      <4>1. Held(k, r) BY <1>2, <2>1, <3>2 DEF Held
      <4> QED BY <1>1, <1>2, <2>1, <3>2, <4>1
    <3> QED BY <3>1, <3>2
  <2>2. ASSUME NEW q \in KeyRequest
        PROVE  op'[q] = Free \/ /\ op'[q].key \in Key /\ op'[q].at # "idle"
                                /\ op'[q].at # "hGetAll" => op'[q].key \in minted'
    BY <1>2 DEF RequestsAreMet
  <2> QED BY <2>1, <2>2 DEF RequestsAreMet
<1> QED BY <1>1, <1>2, <1>3, <1>4, FreeIs

\* A request goes on with the key it has.
LEMMA GoMeets ==
  ASSUME op \in [KeyRequest -> RequestRecord], RequestsAreMet, NEW r \in KeyRequest,
         NEW place \in Place \ {"idle"}, Go(r, place), op[r] # Free, op[r].key \in minted',
         minted \subseteq minted'
  PROVE  /\ op' \in [KeyRequest -> RequestRecord] /\ met' = met
         /\ op'[r].at = place /\ op'[r].key = op[r].key /\ op'[r].presents = op[r].presents
         /\ \A q \in KeyRequest \ {r} : op'[q] = op[q]
         /\ RequestsAreMet'
<1>1. op' = [op EXCEPT ![r].at = place] /\ met' = met BY DEF Go
<1>2. /\ op'[r].at = place /\ op'[r].key = op[r].key /\ op'[r].presents = op[r].presents
      /\ \A q \in KeyRequest \ {r} : op'[q] = op[q]
      /\ op' \in [KeyRequest -> RequestRecord]
  BY <1>1 DEF RequestRecord
<1>3. \A q \in KeyRequest : op'[q].key = op[q].key BY <1>2
<1>4. op[r].key \in Key BY DEF RequestsAreMet
<1>5. RequestsAreMet'
  <2>1. \A q, p \in KeyRequest : q # p /\ op'[q].key = op'[p].key /\ op'[q].key # "none"
                                   => op'[q].key \in met'
    BY <1>1, <1>3 DEF RequestsAreMet
  <2>2. ASSUME NEW q \in KeyRequest
        PROVE  op'[q] = Free \/ /\ op'[q].key \in Key /\ op'[q].at # "idle"
                                /\ op'[q].at # "hGetAll" => op'[q].key \in minted'
    BY <1>2, <1>4 DEF RequestsAreMet
  <2> QED BY <2>1, <2>2 DEF RequestsAreMet
<1> QED BY <1>1, <1>2, <1>5

\* A request ends; whoever still shares a key with another one is still met.
LEMMA FinishMeets ==
  ASSUME op \in [KeyRequest -> RequestRecord], met \subseteq Key, RequestsAreMet, NEW r \in KeyRequest,
         Finish(r), op[r] # Free, minted \subseteq minted'
  PROVE  /\ op' \in [KeyRequest -> RequestRecord] /\ met' \subseteq met /\ op'[r] = Free
         /\ \A q \in KeyRequest \ {r} : op'[q] = op[q] /\ (op[q].key \in met => op[q].key \in met')
         /\ RequestsAreMet'
<1>1. /\ op' = [op EXCEPT ![r] = Free]
      /\ met' = (IF Held(op[r].key, r) THEN met ELSE met \ {op[r].key})
  BY DEF Finish
<1>2. /\ op'[r] = Free /\ \A q \in KeyRequest \ {r} : op'[q] = op[q]
      /\ op' \in [KeyRequest -> RequestRecord]
  BY <1>1, FreeIs
<1>3. ASSUME NEW q \in KeyRequest \ {r}, op[q].key \in met PROVE op[q].key \in met'
  BY <1>1, <1>3 DEF Held
<1>4. RequestsAreMet'
  <2>1. ASSUME NEW q \in KeyRequest, NEW p \in KeyRequest, q # p, op'[q].key = op'[p].key,
               op'[q].key # "none"
        PROVE  op'[q].key \in met'
    <3>1. q # r /\ p # r BY <1>2, <2>1, FreeIs
    <3>2. op[q].key \in met BY <1>2, <2>1, <3>1 DEF RequestsAreMet
    <3> QED BY <1>2, <1>3, <3>1, <3>2
  <2>2. ASSUME NEW q \in KeyRequest
        PROVE  op'[q] = Free \/ /\ op'[q].key \in Key /\ op'[q].at # "idle"
                                /\ op'[q].at # "hGetAll" => op'[q].key \in minted'
    BY <1>2 DEF RequestsAreMet
  <2> QED BY <2>1, <2>2 DEF RequestsAreMet
<1> QED BY <1>1, <1>2, <1>3, <1>4

\* What the invariant says of the state, unfolded once.
LEMMA KeysState ==
  ASSUME KeysInv
  PROVE  /\ file \subseteq Key /\ redis \subseteq Key /\ minted \subseteq Key /\ asked \subseteq Key
         /\ revoked \subseteq Key /\ clean \subseteq Key /\ met \subseteq Key /\ touched \subseteq Key
         /\ legacy \subseteq Legacy /\ legacy \subseteq Key /\ up \in BOOLEAN /\ "none" \notin Key
         /\ op \in [KeyRequest -> RequestRecord] /\ RequestsAreMet
         /\ minted \ asked \subseteq file \union legacy
         /\ clean \cap (file \union redis \union legacy) = {}
         /\ file \union redis \union legacy \union clean \subseteq minted
         /\ RecordsAreFiled /\ CleanKeysAreOnlySought
BY KeysAssumption
   DEF KeysInv, KeysTypeOK, KeysAreKept, NoKeyIsLost, CleanRevocationSticks, RequestRecord,
       RecordsAreFiled

\* A step that ends the work of r with the key k, or lets it go on, and does not clear or
\* revoke: records grow only by a key that was not revoked cleanly.
LEMMA KeysGrow ==
  ASSUME KeysInv, NEW r \in KeyRequest, NEW k \in Key, op[r] # Free, op[r].key = k,
         file' \in {file, file \union {k}}, redis' \in {redis, redis \union {k}},
         legacy' \in {legacy, legacy \ {k}}, legacy' = legacy \/ k \in file \union asked,
         touched' \subseteq Key,
         UNCHANGED <<up, minted, asked, revoked, clean>>,
         k \in minted \/ (Finish(r) /\ UNCHANGED <<file, redis>>),
         (file' = file /\ redis' = redis) \/ k \notin clean,
         \/ Finish(r)
         \/ \E place \in Place \ {"idle", "hDel"} :
              /\ Go(r, place)
              /\ place \in {"moved", "del"} => k \in file' \union asked
              /\ k \in clean => place = "get" /\ op[r].presents
  PROVE  KeysInv'
<1>1. /\ file \subseteq Key /\ redis \subseteq Key /\ minted \subseteq Key /\ asked \subseteq Key
      /\ revoked \subseteq Key /\ clean \subseteq Key /\ met \subseteq Key /\ touched \subseteq Key
      /\ legacy \subseteq Legacy /\ legacy \subseteq Key /\ up \in BOOLEAN /\ "none" \notin Key
      /\ op \in [KeyRequest -> RequestRecord] /\ RequestsAreMet
      /\ minted \ asked \subseteq file \union legacy
      /\ clean \cap (file \union redis \union legacy) = {}
      /\ file \union redis \union legacy \union clean \subseteq minted
      /\ RecordsAreFiled /\ CleanKeysAreOnlySought
  BY KeysState
<1>2. minted \subseteq minted' OBVIOUS
<1>3. /\ op' \in [KeyRequest -> RequestRecord] /\ RequestsAreMet' /\ met' \subseteq met
      /\ \A q \in KeyRequest \ {r} : op'[q] = op[q] /\ (op[q].key \in met => op[q].key \in met')
      /\ \/ op'[r] = Free
         \/ /\ op'[r].key = k /\ op'[r].at \notin {"idle", "hDel"}
            /\ op'[r].at \in {"moved", "del"} => k \in file' \union asked
            /\ k \in clean => op'[r].at = "get" /\ op'[r].presents
  <2>1. CASE Finish(r) BY <1>1, <1>2, <2>1, FinishMeets
  <2>2. CASE /\ op[r].key \in minted'
             /\ \E place \in Place \ {"idle", "hDel"} :
                  /\ Go(r, place)
                  /\ place \in {"moved", "del"} => k \in file' \union asked
                  /\ k \in clean => place = "get" /\ op[r].presents
    BY <1>1, <1>2, <2>2, GoMeets
  <2> QED BY <2>1, <2>2
<1>4. KeysTypeOK' BY <1>1, <1>3 DEF KeysTypeOK, RequestRecord
<1>5. NoKeyIsLost' /\ CleanRevocationSticks' BY <1>1 DEF NoKeyIsLost, CleanRevocationSticks
<1>6. RecordsAreFiled'
  <2>1. file' \union redis' \union legacy' \union clean' \subseteq minted' BY <1>1
  <2>2. ASSUME NEW q \in KeyRequest, op'[q].at \in {"moved", "del"}
        PROVE  op'[q].key \in file' \union asked'
    <3>1. CASE q = r BY <1>3, <2>2, <3>1, FreeIs
    <3>2. CASE q # r BY <1>1, <1>3, <2>2, <3>2 DEF RecordsAreFiled
    <3> QED BY <3>1, <3>2
  <2>3. ASSUME NEW q \in KeyRequest, op'[q].at = "hDel", op'[q].key \notin met'
        PROVE  op'[q].key \notin file'
    <3>1. q # r BY <1>3, <2>3, FreeIs
    <3>2. op'[q] = op[q] /\ op[q].key \notin met BY <1>3, <2>3, <3>1
    <3>3. op[q].key \notin file BY <1>1, <2>3, <3>2 DEF RecordsAreFiled
    <3>4. op[q].key # k
      BY <1>1, <3>1, <3>2 DEF RequestsAreMet
    <3> QED BY <3>2, <3>3, <3>4
  <2> QED BY <2>1, <2>2, <2>3 DEF RecordsAreFiled
<1>7. CleanKeysAreOnlySought'
  <2> SUFFICES ASSUME NEW q \in KeyRequest, op'[q].key \in clean
               PROVE  /\ op'[q].at \in {"hGet", "get", "hGetAll"}
                      /\ op'[q].at # "hGetAll" => op'[q].presents
    BY DEF CleanKeysAreOnlySought
  <2>1. CASE q = r BY <1>1, <1>3, <2>1, FreeIs
  <2>2. CASE q # r BY <1>1, <1>3, <2>2 DEF CleanKeysAreOnlySought
  <2> QED BY <2>1, <2>2
<1> QED BY <1>3, <1>4, <1>5, <1>6, <1>7 DEF KeysInv, KeysAreKept

\* A request that begins to look for a key changes no record.
LEMMA KeysBegin ==
  ASSUME KeysInv, NEW r \in KeyRequest, NEW k \in Key, NEW place \in {"hGet", "get", "hGetAll"},
         NEW presents \in BOOLEAN, Start(r, place, k, presents),
         place = "hGetAll" \/ (k \in minted /\ (k \in clean => presents)),
         UNCHANGED <<file, redis, legacy, up, touched, minted, asked, revoked, clean>>
  PROVE  KeysInv'
<1>1. /\ op \in [KeyRequest -> RequestRecord] /\ RequestsAreMet /\ met \subseteq Key
      /\ RecordsAreFiled /\ CleanKeysAreOnlySought
  BY KeysState
<1>2. /\ op' \in [KeyRequest -> RequestRecord] /\ met' \subseteq Key /\ met \subseteq met'
      /\ op'[r].at = place /\ op'[r].key = k /\ op'[r].presents = presents
      /\ \A q \in KeyRequest \ {r} : op'[q] = op[q]
      /\ RequestsAreMet'
  BY <1>1, StartMeets DEF Place
<1>3. KeysTypeOK' BY <1>2 DEF KeysInv, KeysTypeOK, RequestRecord
<1>4. KeysAreKept' BY DEF KeysInv, KeysAreKept, NoKeyIsLost, CleanRevocationSticks
<1>5. RecordsAreFiled' BY <1>1, <1>2 DEF RecordsAreFiled
<1>6. CleanKeysAreOnlySought' BY <1>1, <1>2 DEF CleanKeysAreOnlySought
<1> QED BY <1>2, <1>3, <1>4, <1>5, <1>6 DEF KeysInv

\* A key that is issued has its record in the file before anything is awaited.
LEMMA CreateKeeps ==
  ASSUME KeysInv, NEW r \in KeyRequest, NEW k \in Key, CreateApiKey(r, k)
  PROVE  KeysInv'
<1>1. /\ file \subseteq Key /\ redis \subseteq Key /\ minted \subseteq Key /\ asked \subseteq Key
      /\ clean \subseteq Key /\ met \subseteq Key /\ touched \subseteq Key
      /\ op \in [KeyRequest -> RequestRecord] /\ RequestsAreMet
      /\ minted \ asked \subseteq file \union legacy
      /\ clean \cap (file \union redis \union legacy) = {}
      /\ file \union redis \union legacy \union clean \subseteq minted
      /\ RecordsAreFiled /\ CleanKeysAreOnlySought
  BY KeysState
<1>2. /\ k \notin minted /\ minted' = minted \union {k} /\ file' = file \union {k}
      /\ UNCHANGED <<redis, legacy, up, touched, asked, revoked, clean>>
      /\ IF up THEN Start(r, "hSet", k, FALSE) ELSE UNCHANGED <<op, met>>
  BY DEF CreateApiKey, Filed
<1>3. /\ op' \in [KeyRequest -> RequestRecord] /\ met' \subseteq Key /\ met \subseteq met'
      /\ RequestsAreMet'
      /\ \A q \in KeyRequest : \/ op'[q] = op[q]
                               \/ q = r /\ op'[q].at = "hSet" /\ op'[q].key = k
  <2>1. CASE up
    <3>1. Start(r, "hSet", k, FALSE) /\ minted \subseteq minted' /\ k \in minted' BY <1>2, <2>1
    <3> QED BY <1>1, <3>1, StartMeets DEF Place
  <2>2. CASE ~up
    <3>1. UNCHANGED <<op, met>> BY <1>2, <2>2
    <3>2. RequestsAreMet' BY <1>1, <1>2, <3>1 DEF RequestsAreMet
    <3> QED BY <1>1, <3>1, <3>2
  <2> QED BY <2>1, <2>2
<1>4. KeysTypeOK' BY <1>1, <1>2, <1>3 DEF KeysInv, KeysTypeOK, RequestRecord
<1>5. KeysAreKept' BY <1>1, <1>2 DEF KeysAreKept, NoKeyIsLost, CleanRevocationSticks
<1>6. RecordsAreFiled'
  <2>1. file' \union redis' \union legacy' \union clean' \subseteq minted' BY <1>1, <1>2
  <2>2. ASSUME NEW q \in KeyRequest, op'[q].at \in {"moved", "del"}
        PROVE  op'[q].key \in file' \union asked'
    BY <1>1, <1>2, <1>3, <2>2 DEF RecordsAreFiled
  <2>3. ASSUME NEW q \in KeyRequest, op'[q].at = "hDel", op'[q].key \notin met'
        PROVE  op'[q].key \notin file'
    <3>1. op'[q] = op[q] /\ op[q].key \notin met BY <1>3, <2>3
    <3>2. op[q].key \notin file BY <1>1, <2>3, <3>1 DEF RecordsAreFiled
    <3>3. op[q].key \in minted BY <1>1, <2>3, <3>1, FreeIs DEF RequestsAreMet
    <3> QED BY <1>2, <3>1, <3>2, <3>3
  <2> QED BY <2>1, <2>2, <2>3 DEF RecordsAreFiled
<1>7. CleanKeysAreOnlySought' BY <1>1, <1>2, <1>3 DEF CleanKeysAreOnlySought
<1> QED BY <1>3, <1>4, <1>5, <1>6, <1>7 DEF KeysInv

\* A revocation that finds the key takes it from the file and goes to Redis, or is
\* answered; the answer is clean only if nobody else has the key in hand.
LEMMA RevokeKeeps ==
  ASSUME KeysInv, NEW r \in KeyRequest, NEW k \in Key, op[r] # Free, op[r].key = k, k \in minted,
         \/ file' = file /\ asked' = asked
         \/ file' = file \ {k} /\ asked' = asked \union {k},
         redis' = redis \/ redis' = redis \ {k}, UNCHANGED <<legacy, up, touched, minted>>,
         k \notin met => k \notin file',
         \/ Finish(r) /\ Answered(k, redis')
         \/ /\ Go(r, "hDel") /\ UNCHANGED <<revoked, clean>> /\ k \notin file' /\ k \notin clean
  PROVE  KeysInv'
<1>1. /\ file \subseteq Key /\ redis \subseteq Key /\ minted \subseteq Key /\ asked \subseteq Key
      /\ revoked \subseteq Key /\ clean \subseteq Key /\ met \subseteq Key /\ touched \subseteq Key
      /\ legacy \subseteq Legacy /\ up \in BOOLEAN /\ "none" \notin Key
      /\ op \in [KeyRequest -> RequestRecord] /\ RequestsAreMet
      /\ minted \ asked \subseteq file \union legacy
      /\ clean \cap (file \union redis \union legacy) = {}
      /\ file \union redis \union legacy \union clean \subseteq minted
      /\ RecordsAreFiled /\ CleanKeysAreOnlySought
  BY KeysState
<1>2. minted \subseteq minted' /\ op[r].key \in minted' OBVIOUS
<1>3. /\ op' \in [KeyRequest -> RequestRecord] /\ RequestsAreMet' /\ met' \subseteq met
      /\ \A q \in KeyRequest \ {r} : op'[q] = op[q] /\ (op[q].key \in met => op[q].key \in met')
      /\ revoked' \subseteq Key /\ clean \subseteq clean' /\ clean' \subseteq clean \union {k}
      /\ \/ op'[r] = Free /\ (k \in clean' => k \in clean \/ k \notin redis' \union legacy \union met)
         \/ op'[r].key = k /\ op'[r].at = "hDel" /\ clean' = clean /\ k \notin file' /\ k \notin clean
  <2>1. CASE Finish(r) /\ Answered(k, redis')
    <3>1. /\ revoked' \subseteq Key /\ clean \subseteq clean' /\ clean' \subseteq clean \union {k}
          /\ k \in clean' => k \in clean \/ k \notin redis' \union legacy \union met
      BY <1>1, <2>1 DEF Answered
    <3> QED BY <1>1, <1>2, <2>1, <3>1, FinishMeets
  <2>2. CASE /\ Go(r, "hDel") /\ UNCHANGED <<revoked, clean>> /\ k \notin file' /\ k \notin clean
    BY <1>1, <1>2, <2>2, GoMeets DEF Place
  <2> QED BY <2>1, <2>2
<1>4. KeysTypeOK' BY <1>1, <1>3 DEF KeysTypeOK, RequestRecord
<1>5. NoKeyIsLost' BY <1>1 DEF NoKeyIsLost
<1>6. CleanRevocationSticks' BY <1>1, <1>3 DEF CleanRevocationSticks
<1>7. RecordsAreFiled'
  <2>1. file' \union redis' \union legacy' \union clean' \subseteq minted' BY <1>1, <1>3
  <2>2. ASSUME NEW q \in KeyRequest, op'[q].at \in {"moved", "del"}
        PROVE  op'[q].key \in file' \union asked'
    BY <1>1, <1>3, <2>2, FreeIs DEF RecordsAreFiled
  <2>3. ASSUME NEW q \in KeyRequest, op'[q].at = "hDel", op'[q].key \notin met'
        PROVE  op'[q].key \notin file'
    BY <1>1, <1>3, <2>3, FreeIs DEF RecordsAreFiled
  <2> QED BY <2>1, <2>2, <2>3 DEF RecordsAreFiled
<1>8. CleanKeysAreOnlySought'
  <2> SUFFICES ASSUME NEW q \in KeyRequest, op'[q].key \in clean'
               PROVE  /\ op'[q].at \in {"hGet", "get", "hGetAll"}
                      /\ op'[q].at # "hGetAll" => op'[q].presents
    BY DEF CleanKeysAreOnlySought
  <2>1. q # r
    <3>1. "none" \notin clean' BY <1>1, <1>3
    <3> QED BY <1>1, <1>3, <3>1, FreeIs
  <2>2. op'[q] = op[q] BY <1>3, <2>1
  <2>3. CASE op[q].key \in clean BY <1>1, <2>2, <2>3 DEF CleanKeysAreOnlySought
  <2>4. CASE op[q].key \notin clean
    <3>1. op[q].key = k /\ k \in clean' BY <1>3, <2>2, <2>4
    <3>2. k \in met BY <1>1, <2>1, <3>1 DEF RequestsAreMet
    <3> QED BY <1>3, <2>4, <3>1, <3>2
  <2> QED BY <2>3, <2>4
<1> QED BY <1>3, <1>4, <1>5, <1>6, <1>7, <1>8 DEF KeysInv, KeysAreKept

\* What a use of a key that was found writes.
LEMMA TouchKeeps ==
  ASSUME KeysInv, NEW r \in KeyRequest, NEW k \in Key, op[r] # Free, op[r].key = k, Touch(r, k),
         k \in minted, k \notin clean, legacy' \in {legacy, legacy \ {k}},
         legacy' = legacy \/ k \in file \union asked,
         UNCHANGED <<redis, up, minted, asked, revoked, clean>>
  PROVE  KeysInv'
<1>1. touched \subseteq Key BY KeysState
<1>2. /\ file' \in {file, file \union {k}} /\ touched' \subseteq Key
      /\ Finish(r) \/ Go(r, "hSet")
  BY <1>1 DEF Touch, Filed
<1>3. "hSet" \in Place \ {"idle", "hDel"} BY DEF Place
<1>4. \/ Finish(r)
      \/ \E place \in Place \ {"idle", "hDel"} :
           /\ Go(r, place)
           /\ place \in {"moved", "del"} => k \in file' \union asked
           /\ k \in clean => place = "get" /\ op[r].presents
  BY <1>2, <1>3
<1> QED BY <1>2, <1>4, KeysGrow

LEMMA KeysStep ==
  ASSUME KeysInv, [KeysNext]_keyVars
  PROVE  KeysInv'
<1>1. /\ file \subseteq Key /\ redis \subseteq Key /\ minted \subseteq Key /\ legacy \subseteq Key
      /\ op \in [KeyRequest -> RequestRecord] /\ RequestsAreMet /\ touched \subseteq Key
      /\ clean \cap (file \union redis \union legacy) = {}
      /\ file \union redis \union legacy \union clean \subseteq minted
      /\ RecordsAreFiled /\ CleanKeysAreOnlySought
  BY KeysState
\* A request that is under way has a key.
<1>2. ASSUME NEW r \in KeyRequest, op[r].at # "idle"
      PROVE  /\ op[r] # Free /\ op[r].key \in Key
             /\ op[r].at # "hGetAll" => op[r].key \in minted
             /\ op[r].key \in clean => /\ op[r].at \in {"hGet", "get", "hGetAll"}
                                       /\ op[r].at # "hGetAll" => op[r].presents
  BY <1>1, <1>2, FreeIs DEF RequestsAreMet, CleanKeysAreOnlySought
<1>3. ASSUME NEW r \in KeyRequest, NEW k \in Key, CreateApiKey(r, k) PROVE KeysInv'
  BY <1>3, CreateKeeps
<1>4. ASSUME NEW r \in KeyRequest, NEW k \in Key, PresentKey(r, k) PROVE KeysInv'
  BY <1>4, KeysBegin DEF PresentKey, Noted
<1>5. ASSUME NEW r \in KeyRequest, NEW k \in Key, MigrateLegacyKey(r, k) PROVE KeysInv'
  BY <1>1, <1>5, KeysBegin DEF MigrateLegacyKey, Noted
<1>6. ASSUME NEW r \in KeyRequest, NEW k \in Key, RevokeApiKey(r, k) PROVE KeysInv'
  BY <1>6, KeysBegin DEF RevokeApiKey, Noted
<1>7. ASSUME NEW r \in KeyRequest, HashAnswered(r) PROVE KeysInv'
  <2> DEFINE k == op[r].key
  <2>1. /\ op[r] # Free /\ k \in Key /\ k \in minted /\ (k \in clean => op[r].presents)
        /\ UNCHANGED <<redis, legacy, up, minted, asked, revoked, clean>>
    BY <1>2, <1>7 DEF HashAnswered, Noted
  <2>2. CASE k \in redis \union file /\ Touch(r, k)
    <3>1. k \notin clean BY <1>1, <2>2
    <3> QED BY <2>1, <2>2, <3>1, TouchKeeps
  <2>3. CASE UNCHANGED <<file, touched>> /\ (Go(r, "get") \/ Finish(r))
    <3>1. "get" \in Place \ {"idle", "hDel"} BY DEF Place
    <3>2. touched' \subseteq Key BY <1>1, <2>3
    <3> HIDE DEF k
    <3>3. op[r].key = k BY DEF k
    <3> QED BY <2>1, <2>3, <3>1, <3>2, <3>3, KeysGrow
  <2> QED BY <1>7, <2>2, <2>3 DEF HashAnswered
<1>8. ASSUME NEW r \in KeyRequest, EntryRead(r) PROVE KeysInv'
  <2> DEFINE k == op[r].key
  <2>1. /\ op[r] # Free /\ k \in Key /\ k \in minted /\ (k \in clean => op[r].presents)
        /\ UNCHANGED <<redis, legacy, up, touched, minted, asked, revoked, clean>>
    BY <1>2, <1>8 DEF EntryRead, Noted
  <2>2. touched' \subseteq Key BY <1>1, <2>1
  <2>3. CASE (k \in legacy \/ ~op[r].presents) /\ file' = Filed(k) /\ Go(r, "moved")
    <3>1. k \notin clean BY <1>1, <2>1, <2>3
    <3>2. file' = file \union {k} BY <2>3 DEF Filed
    <3>3. "moved" \in Place \ {"idle", "hDel"} BY DEF Place
    <3> HIDE DEF k
    <3>4. op[r].key = k BY DEF k
    <3> QED BY <2>1, <2>2, <2>3, <3>1, <3>2, <3>3, <3>4, KeysGrow
  <2>4. CASE UNCHANGED file /\ Finish(r)
    <3> HIDE DEF k
    <3>1. op[r].key = k BY DEF k
    <3> QED BY <2>1, <2>2, <2>4, <3>1, KeysGrow
  <2> QED BY <1>8, <2>3, <2>4 DEF EntryRead
<1>9. ASSUME NEW r \in KeyRequest, Moved(r) PROVE KeysInv'
  <2> DEFINE k == op[r].key
  <2>1. /\ op[r] # Free /\ k \in Key /\ k \in minted /\ k \notin clean /\ k \in file \union asked
        /\ redis' \in {redis, redis \union {k}} /\ Go(r, "del")
        /\ UNCHANGED <<file, legacy, up, touched, minted, asked, revoked, clean>>
    BY <1>1, <1>2, <1>9 DEF Moved, Noted, Stored, RecordsAreFiled
  <2>2. touched' \subseteq Key /\ "del" \in Place \ {"idle", "hDel"} BY <1>1, <2>1 DEF Place
  <2> HIDE DEF k
  <2>3. op[r].key = k BY DEF k
  <2> QED BY <2>1, <2>2, <2>3, KeysGrow
<1>10. ASSUME NEW r \in KeyRequest, EntryDeleted(r) PROVE KeysInv'
  <2> DEFINE k == op[r].key
  <2>1. /\ op[r] # Free /\ k \in Key /\ k \in minted /\ k \notin clean /\ k \in file \union asked
        /\ legacy' \in {legacy, legacy \ {k}}
        /\ UNCHANGED <<redis, up, minted, asked, revoked, clean>>
        /\ Touch(r, k) \/ (Finish(r) /\ UNCHANGED <<file, touched>>)
    BY <1>1, <1>2, <1>10 DEF EntryDeleted, Noted, RecordsAreFiled
  <2> HIDE DEF k
  <2>2. op[r].key = k BY DEF k
  <2>3. CASE Touch(r, k) BY <2>1, <2>2, <2>3, TouchKeeps
  <2>4. CASE Finish(r) /\ UNCHANGED <<file, touched>>
    <3>1. touched' \subseteq Key BY <1>1, <2>4
    <3> QED BY <2>1, <2>2, <2>4, <3>1, KeysGrow
  <2> QED BY <2>1, <2>3, <2>4
<1>11. ASSUME NEW r \in KeyRequest, RecordStored(r) PROVE KeysInv'
  <2> DEFINE k == op[r].key
  <2>1. /\ op[r] # Free /\ k \in Key /\ k \in minted /\ k \notin clean
        /\ redis' \in {redis, redis \union {k}} /\ Finish(r)
        /\ UNCHANGED <<file, legacy, up, touched, minted, asked, revoked, clean>>
    BY <1>2, <1>11 DEF RecordStored, Noted, Stored
  <2>2. touched' \subseteq Key BY <1>1, <2>1
  <2> HIDE DEF k
  <2>3. op[r].key = k BY DEF k
  <2> QED BY <2>1, <2>2, <2>3, KeysGrow
<1>12. ASSUME NEW r \in KeyRequest, StoresRead(r) PROVE KeysInv'
  <2> DEFINE k == op[r].key
  <2>1. /\ op[r] # Free /\ k \in Key /\ UNCHANGED <<redis, legacy, up, touched, minted>>
    BY <1>2, <1>12 DEF StoresRead
  <2>2. CASE /\ k \in file \union redis /\ file' = Unfiled(k) /\ asked' = asked \union {k}
             /\ \/ Go(r, "hDel") /\ UNCHANGED <<revoked, clean>>
                \/ Finish(r) /\ Answered(k, redis)
    <3>1. k \in minted /\ k \notin clean BY <1>1, <2>2
    <3>2. file' = file \ {k} /\ redis' = redis BY <2>1, <2>2 DEF Unfiled
    <3> HIDE DEF k
    <3>3. op[r].key = k BY DEF k
    <3> QED BY <2>1, <2>2, <3>1, <3>2, <3>3, RevokeKeeps
  <2>3. CASE Finish(r) /\ UNCHANGED <<file, asked, revoked, clean>>
    <3>1. touched' \subseteq Key BY <1>1, <2>1
    <3> HIDE DEF k
    <3>2. op[r].key = k BY DEF k
    <3> QED BY <2>1, <2>3, <3>1, <3>2, KeysGrow
  <2> QED BY <1>12, <2>2, <2>3 DEF StoresRead
<1>13. ASSUME NEW r \in KeyRequest, RecordDeleted(r) PROVE KeysInv'
  <2> DEFINE k == op[r].key
  <2>1. /\ op[r] # Free /\ k \in Key /\ k \in minted /\ (k \notin met => k \notin file)
        /\ redis' \in {redis, redis \ {k}} /\ Finish(r) /\ Answered(k, redis')
        /\ UNCHANGED <<file, legacy, up, touched, minted, asked>>
    BY <1>1, <1>2, <1>13 DEF RecordDeleted, RecordsAreFiled
  <2> HIDE DEF k
  <2>2. op[r].key = k BY DEF k
  <2> QED BY <2>1, <2>2, RevokeKeeps
<1>14. CASE MinutePasses
  <2>1. touched' = {} /\ UNCHANGED <<file, redis, legacy, up, op, met, minted, asked, revoked, clean>>
    BY <1>14 DEF MinutePasses, Noted
  <2> QED BY <2>1 DEF KeysInv, KeysTypeOK, KeysAreKept, NoKeyIsLost, CleanRevocationSticks,
                      RequestsAreMet, RecordsAreFiled, CleanKeysAreOnlySought
<1>15. CASE KeysRestart
  <2>1. /\ up' \in BOOLEAN /\ op' = [r \in KeyRequest |-> Free] /\ touched' = {} /\ met' = {}
        /\ UNCHANGED <<file, redis, legacy, minted, asked, revoked, clean>>
    BY <1>15 DEF KeysRestart, Noted
  <2>2. \A r \in KeyRequest : op'[r] = Free /\ op'[r].at = "idle" /\ op'[r].key = "none"
    BY <2>1, FreeIs
  <2>3. op' \in [KeyRequest -> RequestRecord] BY <2>1, FreeIs
  <2>4. KeysTypeOK' BY <2>1, <2>3 DEF KeysInv, KeysTypeOK, RequestRecord
  <2>5. "none" \notin clean BY KeysState
  <2>6. RequestsAreMet' /\ RecordsAreFiled' /\ CleanKeysAreOnlySought'
    BY <1>1, <2>1, <2>2, <2>5 DEF RequestsAreMet, RecordsAreFiled, CleanKeysAreOnlySought
  <2> QED BY <2>1, <2>4, <2>6 DEF KeysInv, KeysAreKept, NoKeyIsLost, CleanRevocationSticks
<1>16. CASE UNCHANGED keyVars
  <2>1. UNCHANGED <<file, redis, legacy, up, touched, op, minted, asked, revoked, clean, met>>
    BY <1>16 DEF keyVars
  <2> QED BY <2>1 DEF KeysInv, KeysTypeOK, KeysAreKept, NoKeyIsLost, CleanRevocationSticks,
                      RequestsAreMet, RecordsAreFiled, CleanKeysAreOnlySought
<1> QED BY <1>3, <1>4, <1>5, <1>6, <1>7, <1>8, <1>9, <1>10, <1>11, <1>12, <1>13, <1>14, <1>15, <1>16
        DEF KeysNext

LEMMA KeysStart ==
  ASSUME KeysInit
  PROVE  KeysInv
<1>1. op = [r \in KeyRequest |-> Free] /\ \A r \in KeyRequest : op[r] = Free BY DEF KeysInit
<1>2. op \in [KeyRequest -> RequestRecord] BY <1>1, FreeIs
<1>3. KeysTypeOK BY <1>2, KeysAssumption DEF KeysInit, KeysTypeOK, RequestRecord
<1>4. KeysAreKept BY DEF KeysInit, KeysAreKept, NoKeyIsLost, CleanRevocationSticks
<1>5. RequestsAreMet /\ RecordsAreFiled /\ CleanKeysAreOnlySought
  BY <1>1, FreeIs DEF KeysInit, RequestsAreMet, RecordsAreFiled, CleanKeysAreOnlySought
<1> QED BY <1>3, <1>4, <1>5 DEF KeysInv

\* A key works until somebody deletes it, and a revocation that met nobody and left no
\* copy is final: for every number of keys and requests, over failed commands and
\* restarts with Redis or without.
THEOREM KeysKept == KeysSpec => [](KeysTypeOK /\ KeysAreKept)
<1>1. KeysInv => KeysTypeOK /\ KeysAreKept BY DEF KeysInv
<1> QED BY <1>1, KeysStart, KeysStep, PTL DEF KeysSpec

-----------------------------------------------------------------------------
(* SessionSettings: one change, one outcome.                                *)

\* Options are either none at all or those of a change.
Genuine(o) == o = NoOptions \/ (o.secret # -1 /\ o.rev >= 1)

\* Equal changes have equal options.
Same(o, p) == o.rev = p.rev => o = p

\* What is in memory, stored, on its way or in somebody's hands comes from a change that
\* was made.
OptionsAreMade ==
  /\ rev >= 1 /\ answered <= rev
  /\ Genuine(live) /\ Genuine(saved) /\ live.rev <= rev /\ saved.rev <= rev
  /\ \A i \in 1..Len(writes) : 1 <= writes[i].rev /\ writes[i].rev <= rev
  /\ reading # Nobody => /\ reading.by # "nobody" /\ reading.what.secret # -1
                         /\ 1 <= reading.what.rev /\ reading.what.rev <= rev

\* As long as nobody holds outdated metadata: writes go out in the order of the changes,
\* none is newer than the options in memory or older than the last answer, and what was
\* read is what is stored or in memory.
ChangesAreOrdered ==
  /\ saved # NoOptions => saved.rev >= answered
  /\ live # NoOptions => live.rev >= answered /\ \A i \in 1..Len(writes) : writes[i].rev <= live.rev
  /\ \A i \in 1..Len(writes) : answered <= writes[i].rev /\ Same(live, writes[i])
  /\ \A i, j \in 1..Len(writes) : i <= j => writes[i].rev <= writes[j].rev
  /\ Same(live, saved)
  /\ reading # Nobody => /\ writes = <<>> /\ reading.what.rev >= answered
                         /\ Same(reading.what, saved) /\ Same(reading.what, live)
                         /\ reading.by = "patch" => live = NoOptions

SettingsInv == SettingsTypeOK /\ OptionsAreMade /\ (~outdated => ChangesAreOrdered)

LEMMA NoOptionsIs ==
  /\ NoOptions \in Options /\ NoOptions.secret = -1 /\ NoOptions.rev = 0 /\ NoOptions.previous = 0
  /\ LastRev \in Nat \ {0} /\ Grace \in Nat \ {0} /\ LastHour \in Nat /\ MaxWrites \in Nat \ {0}
BY SettingsAssumption DEF NoOptions, Options

LEMMA OptionsAre ==
  ASSUME NEW o \in Options
  PROVE  /\ o.secret \in -1..LastRev /\ o.previous \in 0..LastRev /\ o.until \in 0..LastHour + Grace
         /\ o.rev \in 0..LastRev /\ o.rev \in Nat
BY NoOptionsIs DEF Options

LEMMA Appended ==
  ASSUME NEW S, NEW w \in Seq(S), NEW x \in S
  PROVE  /\ Append(w, x) \in Seq(S) /\ Len(Append(w, x)) = Len(w) + 1 /\ Len(w) \in Nat
         /\ \A i \in 1..Len(w) : Append(w, x)[i] = w[i]
         /\ Append(w, x)[Len(w) + 1] = x
OBVIOUS

LEMMA Shortened ==
  ASSUME NEW S, NEW w \in Seq(S), w # <<>>
  PROVE  /\ Tail(w) \in Seq(S) /\ Len(Tail(w)) = Len(w) - 1 /\ Len(w) \in Nat \ {0}
         /\ \A i \in 1..Len(w) - 1 : Tail(w)[i] = w[i + 1]
         /\ Head(w) = w[1] /\ Head(w) \in S
OBVIOUS

LEMMA SettingsState ==
  ASSUME SettingsInv
  PROVE  /\ instant \in 0..LastHour /\ rev \in 0..LastRev /\ rev \in Nat /\ answered \in 0..LastRev
         /\ answered \in Nat /\ live \in Options /\ saved \in Options
         /\ writes \in Seq(Options) /\ Len(writes) <= MaxWrites /\ Len(writes) \in Nat
         /\ reading \in [by : {"nobody", "reconnect", "patch"}, what : Options]
         /\ reading.what \in Options
         /\ linked \in BOOLEAN /\ outdated \in BOOLEAN
         /\ OptionsAreMade /\ (~outdated => ChangesAreOrdered)
BY DEF SettingsInv, SettingsTypeOK

\* A change of a live session, or new options for one: the newest in memory and the last
\* to be written.
LEMMA NewestKeeps ==
  ASSUME SettingsInv, Numbered, live' \in Options, live'.secret # -1, live'.rev = rev + 1,
         Send(live'), ReadIsOutdated, linked' \in BOOLEAN, UNCHANGED <<instant, saved, reading, answered>>
  PROVE  SettingsInv'
<1>1. /\ instant \in 0..LastHour /\ rev \in 0..LastRev /\ rev \in Nat /\ answered \in 0..LastRev
      /\ answered \in Nat /\ live \in Options /\ saved \in Options
      /\ writes \in Seq(Options) /\ Len(writes) <= MaxWrites /\ Len(writes) \in Nat
      /\ reading \in [by : {"nobody", "reconnect", "patch"}, what : Options]
      /\ outdated \in BOOLEAN /\ OptionsAreMade /\ (~outdated => ChangesAreOrdered)
  BY SettingsState
<1>2. /\ rev' = rev + 1 /\ rev' \in 0..LastRev /\ LastRev \in Nat
  BY <1>1, NoOptionsIs DEF Numbered
<1>3. /\ writes' \in Seq(Options) /\ Len(writes') = Len(writes) + 1 /\ Len(writes') <= MaxWrites
      /\ \A i \in 1..Len(writes) : writes'[i] = writes[i]
      /\ writes'[Len(writes) + 1] = live'
  <2>1. Len(writes) < MaxWrites /\ writes' = Append(writes, live') BY DEF Send
  <2> QED BY <1>1, <2>1, NoOptionsIs, Appended
<1>4. outdated' = (outdated \/ reading # Nobody) /\ outdated' \in BOOLEAN
  <2>1. outdated' = (outdated \/ reading # Nobody) BY DEF ReadIsOutdated
  <2>2. outdated' \in BOOLEAN BY <2>1, Zenon
  <2> QED BY <2>1, <2>2
<1>5. SettingsTypeOK' BY <1>1, <1>2, <1>3, <1>4 DEF SettingsTypeOK
<1>6. live'.rev \in Nat /\ saved.rev \in Nat BY <1>1, OptionsAre
<1>7. OptionsAreMade'
  <2>1. \A i \in 1..Len(writes') : 1 <= writes'[i].rev /\ writes'[i].rev <= rev'
    <3> SUFFICES ASSUME NEW i \in 1..Len(writes')
                 PROVE  1 <= writes'[i].rev /\ writes'[i].rev <= rev'
      OBVIOUS
    <3>1. CASE i = Len(writes) + 1 BY <1>1, <1>2, <1>3, <3>1
    <3>2. CASE i # Len(writes) + 1
      <4>1. i \in 1..Len(writes) BY <1>1, <1>3, <3>2
      <4>2. writes'[i] = writes[i] /\ writes[i] \in Options BY <1>1, <1>3, <4>1
      <4>3. writes[i].rev \in Nat /\ 1 <= writes[i].rev /\ writes[i].rev <= rev
        BY <1>1, <4>1, <4>2, OptionsAre DEF OptionsAreMade
      <4> QED BY <1>1, <1>2, <4>2, <4>3
    <3> QED BY <3>1, <3>2
  <2>2. Genuine(live') BY <1>1 DEF Genuine
  <2>3. reading # Nobody => reading.what.rev \in Nat BY <1>1, OptionsAre
  <2> QED BY <1>1, <1>2, <1>6, <2>1, <2>2, <2>3 DEF OptionsAreMade
<1>8. ASSUME ~outdated' PROVE ChangesAreOrdered'
  <2>1. ~outdated /\ reading = Nobody BY <1>4, <1>8, Zenon
  <2>2. ChangesAreOrdered BY <1>1, <2>1
  <2>3. ASSUME NEW i \in 1..Len(writes')
        PROVE  /\ answered <= writes'[i].rev /\ writes'[i].rev <= live'.rev /\ Same(live', writes'[i])
               /\ i # Len(writes) + 1 => writes'[i] = writes[i] /\ i \in 1..Len(writes)
               /\ writes'[i].rev \in Nat
    <3>1. CASE i = Len(writes) + 1
      <4>1. writes'[i] = live' BY <1>3, <3>1
      <4> QED BY <1>1, <1>6, <3>1, <4>1 DEF OptionsAreMade, Same
    <3>2. CASE i # Len(writes) + 1
      <4>1. i \in 1..Len(writes) BY <1>1, <1>3, <3>2
      <4>2. writes'[i] = writes[i] /\ writes[i] \in Options BY <1>1, <1>3, <4>1
      <4>3. writes[i].rev \in Nat /\ writes[i].rev <= rev /\ answered <= writes[i].rev
        BY <1>1, <2>2, <4>1, <4>2, OptionsAre DEF OptionsAreMade, ChangesAreOrdered
      <4> QED BY <1>1, <4>1, <4>2, <4>3 DEF Same
    <3> QED BY <3>1, <3>2
  <2>4. ASSUME NEW i \in 1..Len(writes'), NEW j \in 1..Len(writes'), i <= j
        PROVE  writes'[i].rev <= writes'[j].rev
    <3>1. CASE j = Len(writes) + 1 BY <1>3, <2>3, <3>1
    <3>2. CASE j # Len(writes) + 1
      <4>1. /\ i # Len(writes) + 1 /\ i \in 1..Len(writes) /\ j \in 1..Len(writes)
            /\ writes'[i] = writes[i] /\ writes'[j] = writes[j]
        BY <1>1, <1>3, <2>3, <2>4, <3>2
      <4> QED BY <2>2, <2>4, <4>1 DEF ChangesAreOrdered
    <3> QED BY <3>1, <3>2
  <2>5. Same(live', saved) BY <1>1, <1>6 DEF OptionsAreMade, Same
  <2>6. live'.rev >= answered BY <1>1 DEF OptionsAreMade
  <2> QED BY <2>1, <2>2, <2>3, <2>4, <2>5, <2>6 DEF ChangesAreOrdered
<1> QED BY <1>5, <1>7, <1>8 DEF SettingsInv

\* The types and the origins of options after a write was sent; origins do not depend on
\* the order of changes.
LEMMA SentKeeps ==
  ASSUME SettingsInv, Numbered, NEW o \in Options, o.rev = rev + 1, Send(o),
         live' \in {live, NoOptions}, reading' \in {reading, Nobody}, linked' \in BOOLEAN,
         outdated' \in BOOLEAN, UNCHANGED <<instant, saved, answered>>,
         ~outdated' => ~outdated /\ live' = NoOptions /\ reading' = Nobody
  PROVE  SettingsInv'
<1>1. /\ instant \in 0..LastHour /\ rev \in 0..LastRev /\ rev \in Nat /\ answered \in 0..LastRev
      /\ answered \in Nat /\ live \in Options /\ saved \in Options
      /\ writes \in Seq(Options) /\ Len(writes) <= MaxWrites /\ Len(writes) \in Nat
      /\ reading \in [by : {"nobody", "reconnect", "patch"}, what : Options]
      /\ OptionsAreMade /\ (~outdated => ChangesAreOrdered)
  BY SettingsState
<1>2. /\ rev' = rev + 1 /\ rev' \in 0..LastRev /\ LastRev \in Nat
  BY <1>1, NoOptionsIs DEF Numbered
<1>3. /\ writes' \in Seq(Options) /\ Len(writes') = Len(writes) + 1 /\ Len(writes') <= MaxWrites
      /\ \A i \in 1..Len(writes) : writes'[i] = writes[i]
      /\ writes'[Len(writes) + 1] = o
  <2>1. Len(writes) < MaxWrites /\ writes' = Append(writes, o) BY DEF Send
  <2> QED BY <1>1, <2>1, NoOptionsIs, Appended
<1>4. /\ live' \in Options /\ Nobody \in [by : {"nobody", "reconnect", "patch"}, what : Options]
      /\ reading' \in [by : {"nobody", "reconnect", "patch"}, what : Options]
  BY <1>1, NoOptionsIs DEF Nobody
<1>5. SettingsTypeOK' BY <1>1, <1>2, <1>3, <1>4 DEF SettingsTypeOK
<1>6. ASSUME NEW i \in 1..Len(writes')
      PROVE  /\ 1 <= writes'[i].rev /\ writes'[i].rev <= rev' /\ writes'[i].rev \in Nat
             /\ \/ i = Len(writes) + 1 /\ writes'[i].rev = rev'
                \/ i \in 1..Len(writes) /\ writes'[i] = writes[i] /\ writes[i].rev <= rev
  <2>1. CASE i = Len(writes) + 1
    <3>1. writes'[i] = o BY <1>3, <2>1
    <3>2. writes'[i].rev = rev' BY <1>2, <3>1
    <3>3. rev' \in Nat /\ 1 <= rev' BY <1>1, <1>2
    <3>4. writes'[i].rev \in Nat /\ 1 <= writes'[i].rev BY <3>2, <3>3
    <3>5. writes'[i].rev <= rev' BY <3>2, <3>3
    <3> QED BY <2>1, <3>2, <3>4, <3>5
  <2>2. CASE i # Len(writes) + 1
    <3>1. i \in 1..Len(writes) BY <1>1, <1>3, <2>2
    <3>2. writes'[i] = writes[i] /\ writes[i] \in Options BY <1>1, <1>3, <3>1
    <3>3. writes[i].rev \in Nat /\ 1 <= writes[i].rev /\ writes[i].rev <= rev
      BY <1>1, <3>1, <3>2, OptionsAre DEF OptionsAreMade
    <3> QED BY <1>1, <1>2, <3>1, <3>2, <3>3
  <2> QED BY <2>1, <2>2
<1>7. OptionsAreMade'
  <2>1. Genuine(live') /\ live'.rev <= rev' /\ saved.rev <= rev'
    <3>1. live.rev \in Nat /\ saved.rev \in Nat BY <1>1, OptionsAre
    <3> QED BY <1>1, <1>2, <3>1, NoOptionsIs DEF OptionsAreMade, Genuine
  <2>2. reading # Nobody => reading.what.rev \in Nat BY <1>1, OptionsAre
  <2> QED BY <1>1, <1>2, <1>6, <2>1, <2>2 DEF OptionsAreMade
<1>8. ASSUME ~outdated' PROVE ChangesAreOrdered'
  <2>1. ChangesAreOrdered /\ live' = NoOptions /\ reading' = Nobody BY <1>1, <1>8
  <2>2. ASSUME NEW i \in 1..Len(writes')
        PROVE  answered <= writes'[i].rev /\ Same(live', writes'[i])
    <3>1. answered <= writes'[i].rev
      <4>1. CASE i = Len(writes) + 1 /\ writes'[i].rev = rev'
        BY <1>1, <1>2, <4>1 DEF OptionsAreMade
      <4>2. CASE i \in 1..Len(writes) /\ writes'[i] = writes[i]
        BY <2>1, <4>2 DEF ChangesAreOrdered
      <4> QED BY <1>6, <4>1, <4>2
    <3>2. Same(live', writes'[i]) BY <1>6, <2>1, NoOptionsIs DEF Same
    <3> QED BY <3>1, <3>2
  <2>3. ASSUME NEW i \in 1..Len(writes'), NEW j \in 1..Len(writes'), i <= j
        PROVE  writes'[i].rev <= writes'[j].rev
    <3>1. CASE j = Len(writes) + 1 /\ writes'[j].rev = rev' BY <1>6, <3>1
    <3>2. CASE j \in 1..Len(writes) /\ writes'[j] = writes[j]
      <4>1. i \in 1..Len(writes) /\ writes'[i] = writes[i] BY <1>1, <1>3, <2>3, <3>2
      <4> QED BY <2>1, <2>3, <3>2, <4>1 DEF ChangesAreOrdered
    <3> QED BY <1>6, <3>1, <3>2
  <2>4. Same(live', saved) BY <1>1, <2>1, NoOptionsIs DEF Same, OptionsAreMade, Genuine
  <2> QED BY <2>1, <2>2, <2>3, <2>4 DEF ChangesAreOrdered
<1> QED BY <1>5, <1>7, <1>8 DEF SettingsInv

\* A new connection writes its metadata back; nothing newer is on its way.
LEMMA ConnectKeeps ==
  ASSUME SettingsInv, NEW o \in Options, o.secret # -1, o.rev >= 1, o.rev <= rev, live' = o,
         linked' \in BOOLEAN, reading' = Nobody, outdated' \in BOOLEAN,
         UNCHANGED <<instant, rev, saved, answered>>,
         writes' = <<o>> \/ Send(o),
         ~outdated' => /\ writes' = <<o>> /\ o.rev >= answered /\ Same(o, saved)
                       /\ saved # NoOptions => saved.rev >= answered
  PROVE  SettingsInv'
<1>1. /\ instant \in 0..LastHour /\ rev \in 0..LastRev /\ rev \in Nat /\ answered \in 0..LastRev
      /\ answered \in Nat /\ live \in Options /\ saved \in Options
      /\ writes \in Seq(Options) /\ Len(writes) <= MaxWrites /\ Len(writes) \in Nat
      /\ OptionsAreMade /\ o.rev \in Nat
  BY SettingsState, OptionsAre
<1>2. /\ writes' \in Seq(Options) /\ Len(writes') <= MaxWrites /\ Len(writes') \in Nat
      /\ \A i \in 1..Len(writes') : \/ writes'[i] = o
                                    \/ i \in 1..Len(writes) /\ writes'[i] = writes[i]
  <2>1. CASE writes' = <<o>> BY <2>1, NoOptionsIs
  <2>2. CASE Send(o)
    <3>1. Len(writes) < MaxWrites /\ writes' = Append(writes, o) BY <2>2 DEF Send
    <3>2. /\ writes' \in Seq(Options) /\ Len(writes') = Len(writes) + 1
          /\ \A i \in 1..Len(writes) : writes'[i] = writes[i]
          /\ writes'[Len(writes) + 1] = o
      BY <1>1, <3>1, Appended
    <3>3. ASSUME NEW i \in 1..Len(writes')
          PROVE  writes'[i] = o \/ (i \in 1..Len(writes) /\ writes'[i] = writes[i])
      <4>1. i = Len(writes) + 1 \/ i \in 1..Len(writes) BY <1>1, <3>2
      <4> QED BY <3>2, <4>1
    <3> QED BY <1>1, <3>1, <3>2, <3>3, NoOptionsIs
  <2> QED BY <2>1, <2>2
<1>3. Nobody \in [by : {"nobody", "reconnect", "patch"}, what : Options] BY NoOptionsIs DEF Nobody
<1>4. SettingsTypeOK' BY <1>1, <1>2, <1>3 DEF SettingsTypeOK
<1>5. OptionsAreMade' BY <1>1, <1>2 DEF OptionsAreMade, Genuine
<1>6. ASSUME ~outdated' PROVE ChangesAreOrdered'
  <2>1. writes' = <<o>> BY <1>6, Zenon
  <2>2. Len(writes') = 1 /\ writes'[1] = o BY <2>1
  <2>3. \A i \in 1..Len(writes') : i = 1 BY <2>2
  <2> QED BY <1>1, <1>6, <2>2, <2>3 DEF ChangesAreOrdered, Same
<1> QED BY <1>4, <1>5, <1>6 DEF SettingsInv

\* Metadata is read back, or kept, with the change that made it; what is read stays what is
\* stored or in memory as long as nothing is changed meanwhile.
LEMMA ReadKeeps ==
  ASSUME SettingsInv, writes = <<>>, reading' \in [by : {"reconnect", "patch"}, what : {saved, live}],
         reading'.what # NoOptions, reading'.by = "patch" => live = NoOptions,
         UNCHANGED <<instant, rev, live, linked, saved, writes, answered, outdated>>
  PROVE  SettingsInv'
<1>1. /\ live \in Options /\ saved \in Options /\ OptionsAreMade /\ (~outdated => ChangesAreOrdered)
      /\ live.rev \in Nat /\ saved.rev \in Nat
  BY SettingsState, OptionsAre
<1>2. /\ reading'.what \in {saved, live} /\ reading'.by \in {"reconnect", "patch"}
      /\ reading' \in [by : {"nobody", "reconnect", "patch"}, what : Options]
  BY <1>1
<1>3. SettingsTypeOK' BY <1>2 DEF SettingsInv, SettingsTypeOK
<1>4. reading'.what.secret # -1 /\ 1 <= reading'.what.rev /\ reading'.what.rev <= rev
  BY <1>1, <1>2 DEF OptionsAreMade, Genuine
<1>5. OptionsAreMade' BY <1>1, <1>2, <1>4 DEF OptionsAreMade
<1>6. ASSUME ~outdated PROVE ChangesAreOrdered'
  <2>1. ChangesAreOrdered BY <1>1, <1>6
  <2>2. Same(reading'.what, saved) /\ Same(reading'.what, live) /\ reading'.what.rev >= answered
    BY <1>2, <2>1 DEF ChangesAreOrdered, Same
  <2> QED BY <1>2, <2>1, <2>2 DEF ChangesAreOrdered
<1> QED BY <1>3, <1>5, <1>6 DEF SettingsInv

\* Redis executes the oldest write, or fails to.
LEMMA WriteKeeps ==
  ASSUME SettingsInv, NEW ok \in BOOLEAN, WriteEnds(ok)
  PROVE  SettingsInv'
<1>1. /\ answered \in 0..LastRev /\ answered \in Nat /\ live \in Options /\ saved \in Options
      /\ writes \in Seq(Options) /\ Len(writes) <= MaxWrites /\ Len(writes) \in Nat
      /\ rev \in 0..LastRev /\ rev \in Nat
      /\ OptionsAreMade /\ (~outdated => ChangesAreOrdered)
  BY SettingsState
<1>2. /\ writes # <<>> /\ writes' = Tail(writes)
      /\ UNCHANGED <<instant, rev, live, linked, reading, outdated>>
      /\ \/ saved' = StoredAs(Head(writes)) /\ answered' = Head(writes).rev
         \/ UNCHANGED <<saved, answered>>
  BY DEF WriteEnds
<1>3. /\ writes' \in Seq(Options) /\ Len(writes') = Len(writes) - 1 /\ Len(writes) \in Nat \ {0}
      /\ \A i \in 1..Len(writes') : writes'[i] = writes[i + 1] /\ i + 1 \in 1..Len(writes)
      /\ Head(writes) = writes[1] /\ Head(writes) \in Options /\ 1 \in 1..Len(writes)
  BY <1>1, <1>2, Shortened
<1> DEFINE h == Head(writes)
<1>4. /\ h = writes[1] /\ h \in Options /\ h.rev \in Nat /\ 1 <= h.rev /\ h.rev <= rev
      /\ h.rev \in 0..LastRev
  BY <1>1, <1>3, OptionsAre DEF OptionsAreMade
<1>5. StoredAs(h) \in Options /\ Genuine(StoredAs(h)) /\ StoredAs(h).rev <= rev
      /\ (StoredAs(h) # NoOptions => StoredAs(h) = h)
  BY <1>1, <1>4, NoOptionsIs DEF StoredAs, Genuine
<1>6. ASSUME ~outdated
      PROVE  /\ answered <= h.rev /\ Same(live, StoredAs(h))
             /\ live # NoOptions => h.rev <= live.rev
             /\ reading = Nobody
  <2>1. ChangesAreOrdered BY <1>1, <1>6
  <2>2. Same(live, h) /\ answered <= h.rev /\ (live # NoOptions => h.rev <= live.rev)
    BY <1>3, <1>4, <2>1 DEF ChangesAreOrdered
  <2>3. live = NoOptions \/ live.rev >= 1 BY <1>1 DEF OptionsAreMade, Genuine
  <2>4. Same(live, StoredAs(h)) BY <1>5, <2>2, <2>3, NoOptionsIs DEF Same
  <2>5. reading = Nobody BY <1>2, <2>1 DEF ChangesAreOrdered
  <2> QED BY <2>2, <2>4, <2>5
<1> HIDE DEF h
<1>7. \/ saved' = StoredAs(h) /\ answered' = h.rev
      \/ UNCHANGED <<saved, answered>>
  BY <1>2 DEF h
<1>8. SettingsTypeOK'
  <2>1. Len(writes') <= MaxWrites BY <1>1, <1>3, NoOptionsIs
  <2>2. saved' \in Options /\ answered' \in 0..LastRev BY <1>1, <1>4, <1>5, <1>7
  <2> QED BY <1>2, <1>3, <2>1, <2>2 DEF SettingsInv, SettingsTypeOK
<1>9. OptionsAreMade'
  <2>1. \A i \in 1..Len(writes') : 1 <= writes'[i].rev /\ writes'[i].rev <= rev
    BY <1>1, <1>3 DEF OptionsAreMade
  <2> QED BY <1>1, <1>2, <1>4, <1>5, <1>7, <2>1 DEF OptionsAreMade
<1>10. ASSUME ~outdated' PROVE ChangesAreOrdered'
  <2>1. ~outdated /\ ChangesAreOrdered BY <1>1, <1>2, <1>10
  <2>2. ASSUME NEW i \in 1..Len(writes')
        PROVE  /\ answered' <= writes'[i].rev /\ Same(live, writes'[i])
               /\ live # NoOptions => writes'[i].rev <= live.rev
    <3>1. writes'[i] = writes[i + 1] /\ i + 1 \in 1..Len(writes) /\ 1 <= i + 1
      BY <1>3
    <3>2. h.rev <= writes[i + 1].rev BY <1>3, <1>4, <2>1, <3>1 DEF ChangesAreOrdered
    <3> QED BY <1>7, <2>1, <3>1, <3>2 DEF ChangesAreOrdered
  <2>3. ASSUME NEW i \in 1..Len(writes'), NEW j \in 1..Len(writes'), i <= j
        PROVE  writes'[i].rev <= writes'[j].rev
    <3>1. /\ writes'[i] = writes[i + 1] /\ i + 1 \in 1..Len(writes)
          /\ writes'[j] = writes[j + 1] /\ j + 1 \in 1..Len(writes) /\ i + 1 <= j + 1
      BY <1>3, <2>3
    <3> QED BY <2>1, <3>1 DEF ChangesAreOrdered
  <2>4. /\ saved' # NoOptions => saved'.rev >= answered'
        /\ live # NoOptions => live.rev >= answered'
        /\ Same(live, saved')
    BY <1>4, <1>5, <1>6, <1>7, <2>1 DEF ChangesAreOrdered
  <2>5. reading' = Nobody BY <1>2, <1>6, <2>1
  <2> QED BY <1>2, <2>2, <2>3, <2>4, <2>5 DEF ChangesAreOrdered
<1> QED BY <1>8, <1>9, <1>10 DEF SettingsInv

LEMMA SettingsStep ==
  ASSUME SettingsInv, [SettingsNext]_settingsVars
  PROVE  SettingsInv'
<1>1. /\ instant \in 0..LastHour /\ rev \in 0..LastRev /\ rev \in Nat /\ answered \in 0..LastRev
      /\ live \in Options /\ saved \in Options /\ LastHour \in Nat /\ Grace \in Nat /\ LastRev \in Nat
      /\ reading \in [by : {"nobody", "reconnect", "patch"}, what : Options]
      /\ reading.what \in Options /\ linked \in BOOLEAN /\ outdated \in BOOLEAN
      /\ OptionsAreMade /\ (~outdated => ChangesAreOrdered)
  BY SettingsState, NoOptionsIs
<1>2. live # NoOptions => live.secret # -1 /\ live.rev >= 1 /\ live.secret \in 0..LastRev
  BY <1>1, OptionsAre DEF OptionsAreMade, Genuine
\* A change keeps the options options.
<1>3. ASSUME NEW o \in Options, o.secret # -1, Change(o) PROVE SettingsInv'
  <2>1. /\ Numbered /\ live' = [o EXCEPT !.rev = rev + 1] /\ Send(live') /\ ReadIsOutdated
        /\ UNCHANGED <<instant, linked, saved, reading, answered>>
    BY <1>3 DEF Change
  <2>2. rev + 1 \in 0..LastRev BY <1>1, <2>1 DEF Numbered
  <2>3. live' \in Options /\ live'.secret # -1 /\ live'.rev = rev + 1
    BY <1>3, <2>1, <2>2 DEF Options
  <2> QED BY <1>1, <2>1, <2>3, NewestKeeps
<1>4. ASSUME NEW grace \in {0, Grace}, Rotate(grace) PROVE SettingsInv'
  <2> DEFINE keep == live.secret # 0 /\ grace > 0
             p == IF keep THEN live.secret ELSE 0
             t == IF keep THEN instant + grace ELSE 0
             o == [live EXCEPT !.secret = rev + 1, !.previous = p, !.until = t]
  <2>1. Change(o) BY <1>4 DEF Rotate
  <2>2. live # NoOptions /\ rev + 1 \in 0..LastRev BY <1>1, <2>1 DEF Change, Numbered
  <2>3. p \in 0..LastRev /\ t \in 0..LastHour + Grace BY <1>1, <1>2, <2>2
  <2> HIDE DEF p, t, keep
  <2>4. rev + 1 \in -1..LastRev /\ rev + 1 # -1 /\ live.rev \in 0..LastRev
    BY <1>1, <2>2, OptionsAre
  <2> DEFINE s == rev + 1
  <2>5. s \in -1..LastRev /\ s # -1 BY <2>4
  <2> HIDE DEF s
  <2>6. o \in Options /\ o.secret # -1
    <3>1. o = [live EXCEPT !.secret = s, !.previous = p, !.until = t] BY DEF s
    <3> HIDE DEF o
    <3> QED BY <1>1, <2>3, <2>5, <3>1 DEF Options
  <2> QED BY <1>3, <2>1, <2>6
<1>5. CASE SetSecret \/ ClearSecret \/ SaveOthers
  <2>1. PICK o : Change(o) /\ o \in {[live EXCEPT !.secret = rev + 1], [live EXCEPT !.secret = 0], live}
    BY <1>5 DEF SetSecret, ClearSecret, SaveOthers
  <2>2. live # NoOptions /\ rev + 1 \in 0..LastRev BY <1>1, <2>1 DEF Change, Numbered
  <2>3. o \in Options /\ o.secret # -1 BY <1>1, <1>2, <2>1, <2>2 DEF Options
  <2> QED BY <1>3, <2>1, <2>3
<1>6. CASE PatchReads
  <2>1. /\ live = NoOptions /\ saved # NoOptions /\ writes = <<>>
        /\ reading' = [by |-> "patch", what |-> saved]
        /\ UNCHANGED <<instant, rev, live, linked, saved, writes, answered, outdated>>
    BY <1>6 DEF PatchReads, Decoded
  <2> QED BY <2>1, ReadKeeps
<1>7. CASE ReconnectReads
  <2>1. /\ {saved, live} # {NoOptions} /\ writes = <<>>
        /\ reading' = [by |-> "reconnect", what |-> IF saved # NoOptions THEN saved ELSE live]
        /\ UNCHANGED <<instant, rev, live, linked, saved, writes, answered, outdated>>
    BY <1>7 DEF ReconnectReads, Decoded
  <2>2. PICK o \in {saved, live} : o # NoOptions /\ reading' = [by |-> "reconnect", what |-> o]
    BY <2>1
  <2> QED BY <2>1, <2>2, ReadKeeps
<1>8. CASE PatchWrites
  <2> DEFINE o == [reading.what EXCEPT !.secret = rev + 1, !.rev = rev + 1]
  <2>1. /\ reading.by = "patch" /\ reading' = Nobody /\ Numbered /\ Send(o)
        /\ UNCHANGED <<instant, live, linked, saved, answered, outdated>>
    BY <1>8 DEF PatchWrites
  <2>2. rev + 1 \in 0..LastRev BY <1>1, <2>1 DEF Numbered
  <2>3. o \in Options /\ o.rev = rev + 1
    <3> DEFINE s == rev + 1
    <3>1. s \in -1..LastRev /\ s \in 0..LastRev BY <1>1, <2>2
    <3>2. o = [reading.what EXCEPT !.secret = s, !.rev = s] OBVIOUS
    <3> HIDE DEF s, o
    <3>3. o \in Options /\ o.rev = s BY <1>1, <3>1, <3>2 DEF Options
    <3> QED BY <3>3 DEF s
  <2>4. reading # Nobody BY <2>1 DEF Nobody
  <2>5. ~outdated => live = NoOptions BY <1>1, <2>1, <2>4 DEF ChangesAreOrdered
  <2> HIDE DEF o
  <2> QED BY <1>1, <2>1, <2>3, <2>5, SentKeeps
<1>9. CASE Reconnect
  <2> DEFINE o == reading.what
  <2>1. /\ reading.by = "reconnect" /\ reading' = Nobody /\ live' = o /\ linked' = FALSE
        /\ Send(o) /\ UNCHANGED <<instant, rev, saved, answered, outdated>>
    BY <1>9 DEF Reconnect, Connect
  <2>2. reading # Nobody BY <2>1 DEF Nobody
  <2>3. o \in Options /\ o.secret # -1 /\ o.rev >= 1 /\ o.rev <= rev
    <3>1. o.rev \in Nat BY <1>1, OptionsAre
    <3> QED BY <1>1, <2>2, <3>1 DEF OptionsAreMade
  <2>4. ~outdated => /\ writes = <<>> /\ o.rev >= answered /\ Same(o, saved)
                     /\ saved # NoOptions => saved.rev >= answered
    BY <1>1, <2>2 DEF ChangesAreOrdered
  <2> HIDE DEF o
  <2>5. ~outdated' => writes' = <<o>>
    <3>1. writes = <<>> => writes' = <<o>> BY <2>1 DEF Send
    <3> QED BY <2>1, <2>4, <3>1
  <2> QED BY <1>1, <2>1, <2>3, <2>4, <2>5, ConnectKeeps
<1>10. ASSUME NEW b \in BOOLEAN, CreateSession(b) PROVE SettingsInv'
  <2> DEFINE t == IF b THEN rev + 1 ELSE 0
  <2>1. /\ Numbered /\ live' = [NoOptions EXCEPT !.secret = t, !.rev = rev + 1] /\ linked' = FALSE
        /\ Send(live') /\ ReadIsOutdated /\ UNCHANGED <<instant, saved, reading, answered>>
    BY <1>10 DEF CreateSession, Connect
  <2>2. rev + 1 \in 0..LastRev BY <1>1, <2>1 DEF Numbered
  <2>3. t \in 0..LastRev BY <1>1, <2>2
  <2> HIDE DEF t
  <2>4. live' \in Options /\ live'.secret # -1 /\ live'.rev = rev + 1
    <3> DEFINE n == rev + 1
    <3>1. t \in -1..LastRev /\ t # -1 /\ n \in 0..LastRev BY <1>1, <2>2, <2>3
    <3>2. live' = [NoOptions EXCEPT !.secret = t, !.rev = n] BY <2>1
    <3> HIDE DEF n
    <3>3. live' \in Options /\ live'.secret # -1 /\ live'.rev = n
      BY <3>1, <3>2, NoOptionsIs DEF Options
    <3> QED BY <3>3 DEF n
  <2> QED BY <2>1, <2>4, NewestKeeps
<1>11. CASE DeleteSession
  <2> DEFINE o == [NoOptions EXCEPT !.rev = rev + 1]
  <2>1. /\ Numbered /\ live' = NoOptions /\ linked' = FALSE /\ Send(o) /\ ReadIsOutdated
        /\ UNCHANGED <<instant, saved, reading, answered>>
    BY <1>11 DEF DeleteSession
  <2>2. rev + 1 \in 0..LastRev BY <1>1, <2>1 DEF Numbered
  <2>3. o \in Options /\ o.rev = rev + 1 BY <1>1, <2>2, NoOptionsIs DEF Options
  <2>4. outdated' = (outdated \/ reading # Nobody) BY <2>1 DEF ReadIsOutdated
  <2>5. outdated' \in BOOLEAN /\ (~outdated' => ~outdated /\ reading = Nobody) BY <2>4, Zenon
  <2> HIDE DEF o
  <2> QED BY <2>1, <2>3, <2>5, SentKeeps
<1>12. ASSUME NEW b \in BOOLEAN, WriteEnds(b) PROVE SettingsInv'
  BY <1>12, WriteKeeps
<1>13. ASSUME NEW b \in BOOLEAN, Restart(b) PROVE SettingsInv'
  <2>1. /\ reading' = Nobody /\ linked' = FALSE /\ outdated' = (outdated \/ ~b)
        /\ UNCHANGED <<instant, rev, saved, answered>>
    BY <1>13 DEF Restart
  <2>2. outdated' \in BOOLEAN /\ (~outdated' => ~outdated /\ b) BY <2>1, Zenon
  <2>3. CASE saved = NoOptions
    <3>1. live' = NoOptions /\ writes' = <<>> BY <1>13, <2>3 DEF Restart
    <3>2. /\ Nobody \in [by : {"nobody", "reconnect", "patch"}, what : Options]
          /\ <<>> \in Seq(Options) /\ Len(<<>>) <= MaxWrites
      BY NoOptionsIs DEF Nobody
    <3>3. SettingsTypeOK' BY <1>1, <2>1, <2>2, <3>1, <3>2, NoOptionsIs DEF SettingsTypeOK
    <3>4. OptionsAreMade' BY <1>1, <2>1, <2>3, <3>1 DEF OptionsAreMade
    <3>5. ChangesAreOrdered' BY <2>1, <2>3, <3>1 DEF ChangesAreOrdered, Same
    <3> QED BY <3>3, <3>4, <3>5 DEF SettingsInv
  <2>4. CASE saved # NoOptions
    <3> DEFINE o == Decoded(saved, b)
    <3>1. live' = o /\ writes' = <<o>> BY <1>13, <2>4 DEF Restart
    <3>2. saved.secret # -1 /\ saved.rev >= 1 /\ saved.rev <= rev BY <1>1, <2>4 DEF OptionsAreMade, Genuine
    <3>3. o \in Options /\ o.rev = saved.rev /\ o.secret # -1 /\ (b => o = saved)
      <4>1. CASE b BY <1>1, <3>2, <4>1 DEF Decoded
      <4>2. CASE ~b
        <5>1. o = [secret |-> 0, previous |-> 0, until |-> saved.until, rev |-> saved.rev]
          BY <1>1, <4>2 DEF Decoded, Options
        <5>2. saved.until \in 0..LastHour + Grace /\ saved.rev \in 0..LastRev BY <1>1, OptionsAre
        <5>3. 0 \in -1..LastRev /\ 0 \in 0..LastRev BY <1>1
        <5> HIDE DEF o
        <5> QED BY <4>2, <5>1, <5>2, <5>3 DEF Options
      <4> QED BY <4>1, <4>2
    <3>4. ~outdated' => saved.rev >= answered /\ o = saved
      BY <1>1, <2>2, <2>4, <3>3 DEF ChangesAreOrdered
    <3> HIDE DEF o
    <3>5. ~outdated' => o.rev >= answered /\ Same(o, saved) /\ saved.rev >= answered
      BY <3>4 DEF Same
    <3> QED BY <1>1, <2>1, <2>2, <3>1, <3>2, <3>3, <3>5, ConnectKeeps
  <2> QED BY <2>3, <2>4
<1>14. CASE SocketTurns
  <2>1. /\ linked' = ~linked /\ live' \in {live, NoOptions}
        /\ UNCHANGED <<instant, rev, saved, writes, reading, answered, outdated>>
    BY <1>14 DEF SocketTurns
  <2>2. linked' \in BOOLEAN BY <2>1, Zenon
  <2>3. SettingsTypeOK' BY <1>1, <2>1, <2>2, NoOptionsIs DEF SettingsInv, SettingsTypeOK
  <2>4. OptionsAreMade' BY <1>1, <2>1, NoOptionsIs DEF OptionsAreMade, Genuine
  <2>5. ASSUME ~outdated PROVE ChangesAreOrdered'
    <3>1. ChangesAreOrdered BY <1>1, <2>5
    <3>2. CASE live' = live BY <2>1, <3>1, <3>2 DEF ChangesAreOrdered
    <3>3. CASE live' = NoOptions
      <4>1. \A i \in 1..Len(writes) : writes[i].rev # 0 BY <1>1 DEF OptionsAreMade
      <4>2. reading # Nobody => reading.what.rev # 0 BY <1>1 DEF OptionsAreMade
      <4>3. saved.rev = 0 => saved = NoOptions BY <1>1 DEF OptionsAreMade, Genuine
      <4>4. NoOptions.rev = 0 BY NoOptionsIs
      <4>5. /\ \A i \in 1..Len(writes) : Same(live', writes[i])
            /\ reading # Nobody => Same(reading.what, live')
            /\ Same(live', saved)
        BY <3>3, <4>1, <4>2, <4>3, <4>4 DEF Same
      <4> QED BY <2>1, <3>1, <3>3, <4>5 DEF ChangesAreOrdered
    <3> QED BY <2>1, <3>2, <3>3
  <2> QED BY <2>1, <2>3, <2>4, <2>5 DEF SettingsInv
<1>15. CASE GraceRuns
  <2>1. /\ instant' \in 0..LastHour
        /\ UNCHANGED <<rev, live, linked, saved, writes, reading, answered, outdated>>
    BY <1>1, <1>15 DEF GraceRuns
  <2> QED BY <2>1 DEF SettingsInv, SettingsTypeOK, OptionsAreMade, ChangesAreOrdered
<1>16. CASE UNCHANGED settingsVars
  <2>1. UNCHANGED <<instant, rev, live, linked, saved, writes, reading, answered, outdated>>
    BY <1>16 DEF settingsVars
  <2> QED BY <2>1 DEF SettingsInv, SettingsTypeOK, OptionsAreMade, ChangesAreOrdered
<1> QED BY <1>4, <1>5, <1>6, <1>7, <1>8, <1>9, <1>10, <1>11, <1>12, <1>13, <1>14, <1>15, <1>16
        DEF SettingsNext

LEMMA SettingsStart ==
  ASSUME SettingsInit
  PROVE  SettingsInv
<1>1. /\ instant = 0 /\ rev = 1 /\ linked = FALSE /\ writes = <<>> /\ reading = Nobody
      /\ live = NoOptions /\ saved = [secret |-> 1, previous |-> 0, until |-> 0, rev |-> 1]
      /\ answered = 1 /\ outdated = FALSE
  BY DEF SettingsInit
<1>2. /\ saved \in Options /\ saved.secret = 1 /\ saved.rev = 1 /\ live \in Options /\ live.rev = 0
  BY <1>1, NoOptionsIs DEF Options
<1>3. /\ Nobody \in [by : {"nobody", "reconnect", "patch"}, what : Options]
      /\ writes \in Seq(Options) /\ Len(writes) = 0
  BY <1>1, NoOptionsIs DEF Nobody
<1>4. SettingsTypeOK
  <2>1. linked \in BOOLEAN /\ outdated \in BOOLEAN BY <1>1, Zenon
  <2> QED BY <1>1, <1>2, <1>3, <2>1, NoOptionsIs DEF SettingsTypeOK
<1>5. OptionsAreMade BY <1>1, <1>2, <1>3 DEF OptionsAreMade, Genuine
<1>6. ChangesAreOrdered BY <1>1, <1>2, <1>3 DEF ChangesAreOrdered, Same
<1> QED BY <1>4, <1>5, <1>6 DEF SettingsInv

\* The secret that signs changes, for options that stay, only to the announced one.
LEMMA SigningStep ==
  ASSUME SettingsInv, [SettingsNext]_settingsVars, live # NoOptions, live' # NoOptions,
         Primary(live)' # Primary(live)
  PROVE  /\ live'.rev = live.rev /\ ~outdated' => Primary(live)' = Secondary(live)
         /\ ~(Rotate(Grace) /\ ~InGrace(live) /\ live.secret # 0)
<1>1. /\ instant \in 0..LastHour /\ rev \in 0..LastRev /\ rev \in Nat
      /\ live \in Options /\ saved \in Options /\ LastHour \in Nat /\ Grace \in Nat \ {0} /\ LastRev \in Nat
      /\ OptionsAreMade /\ (~outdated => ChangesAreOrdered) /\ live.rev \in Nat /\ live.secret \in -1..LastRev
  BY SettingsState, NoOptionsIs, OptionsAre
<1>2. ~(Rotate(Grace) /\ ~InGrace(live) /\ live.secret # 0)
  <2> SUFFICES ASSUME Rotate(Grace), ~InGrace(live), live.secret # 0 PROVE FALSE
    OBVIOUS
  <2> DEFINE keep == live.secret # 0 /\ Grace > 0
             p == IF keep THEN live.secret ELSE 0
             t == IF keep THEN instant + Grace ELSE 0
             o == [live EXCEPT !.secret = rev + 1, !.previous = p, !.until = t]
  <2>1. Change(o) BY DEF Rotate
  <2>2. live' = [o EXCEPT !.rev = rev + 1] /\ instant' = instant /\ rev + 1 \in 0..LastRev
    BY <1>1, <2>1 DEF Change, Numbered
  <2>3. p = live.secret /\ t = instant + Grace BY <1>1
  <2>4. live.secret # -1 BY <1>1 DEF OptionsAreMade, Genuine
  <2>5. /\ p \in 0..LastRev /\ t \in 0..LastHour + Grace /\ rev + 1 \in -1..LastRev
        /\ live.rev \in 0..LastRev
    BY <1>1, <2>2, <2>3, <2>4, OptionsAre
  <2> HIDE DEF p, t, keep
  <2> DEFINE s == rev + 1
  <2>6. s \in -1..LastRev /\ s \in 0..LastRev BY <1>1, <2>2
  <2>7. live'.previous = live.secret /\ live'.until = instant + Grace
    <3>1. o = [live EXCEPT !.secret = s, !.previous = p, !.until = t] /\ live' = [o EXCEPT !.rev = s]
      BY <2>2
    <3> HIDE DEF o, s
    <3>2. o \in Options /\ o.previous = p /\ o.until = t BY <1>1, <2>5, <2>6, <3>1 DEF Options
    <3> QED BY <2>3, <2>6, <3>1, <3>2 DEF Options
  <2>8. Primary(live)' = live.secret /\ Primary(live) = live.secret
    BY <1>1, <2>2, <2>7 DEF Primary, InGrace
  <2> QED BY <2>8
<1>3. ASSUME live'.rev = live.rev, ~outdated' PROVE Primary(live)' = Secondary(live)
  <2>1. CASE live' = live
    <3>1. (InGrace(live) /\ ~InGrace(live)') \/ (~InGrace(live) /\ InGrace(live)')
      <4>1. CASE InGrace(live) /\ InGrace(live)'
        <5>1. Primary(live) = live.previous /\ Primary(live)' = live'.previous BY <4>1 DEF Primary
        <5> QED BY <2>1, <5>1
      <4>2. CASE ~InGrace(live) /\ ~InGrace(live)'
        <5>1. Primary(live) = live.secret /\ Primary(live)' = live'.secret BY <4>2 DEF Primary
        <5> QED BY <2>1, <5>1
      <4> QED BY <4>1, <4>2, Zenon
    <3>2. instant' = instant \/ instant' = instant + 1
      BY DEF SettingsNext, Rotate, Change, SetSecret, ClearSecret, SaveOthers, PatchReads, PatchWrites,
             ReconnectReads, Reconnect, CreateSession, WriteEnds, Restart, DeleteSession, SocketTurns,
             GraceRuns, settingsVars
    <3>3. live.until \in Nat BY <1>1, OptionsAre
    <3>4. InGrace(live) /\ ~InGrace(live)'
      BY <1>1, <2>1, <3>1, <3>2, <3>3 DEF InGrace
    <3> QED BY <2>1, <3>4 DEF Primary, Secondary
  <2>2. CASE live' # live
    <3>1. ASSUME NEW o \in Options, live' = [o EXCEPT !.rev = rev + 1] PROVE FALSE
      <4>1. live'.rev = rev + 1 BY <3>1 DEF Options
      <4> QED BY <1>1, <1>3, <4>1 DEF OptionsAreMade
    <3>2. ASSUME NEW o, Change(o), DOMAIN o = {"secret", "previous", "until", "rev"} PROVE FALSE
      <4>1. live' = [o EXCEPT !.rev = rev + 1] BY <3>2 DEF Change
      <4>2. live'.rev = rev + 1 BY <3>2, <4>1
      <4> QED BY <1>1, <1>3, <4>2 DEF OptionsAreMade
    <3>3. DOMAIN live = {"secret", "previous", "until", "rev"} BY <1>1 DEF Options
    <3>4. ASSUME NEW g \in {0, Grace}, Rotate(g) PROVE FALSE BY <3>2, <3>3, <3>4 DEF Rotate
    <3>5. ~(SetSecret \/ ClearSecret \/ SaveOthers)
      BY <3>2, <3>3 DEF SetSecret, ClearSecret, SaveOthers
    <3>6. ASSUME NEW b \in BOOLEAN, CreateSession(b) PROVE FALSE
      <4>1. live' = [NoOptions EXCEPT !.secret = IF b THEN rev + 1 ELSE 0, !.rev = rev + 1]
        BY <3>6 DEF CreateSession, Connect
      <4>2. live'.rev = rev + 1 BY <4>1 DEF NoOptions
      <4> QED BY <1>1, <1>3, <4>2 DEF OptionsAreMade
    <3>7. ~DeleteSession BY DEF DeleteSession
    <3>8. ~SocketTurns BY <2>2 DEF SocketTurns
    <3>9. ~Reconnect
      <4> SUFFICES ASSUME Reconnect PROVE FALSE
        OBVIOUS
      <4>1. reading.by = "reconnect" /\ live' = reading.what /\ outdated' = outdated
        BY DEF Reconnect, Connect
      <4>2. reading # Nobody BY <4>1 DEF Nobody
      <4>3. ChangesAreOrdered BY <1>1, <1>3, <4>1
      <4> QED BY <1>3, <2>2, <4>1, <4>2, <4>3 DEF ChangesAreOrdered, Same
    <3>10. ASSUME NEW b \in BOOLEAN, Restart(b) PROVE FALSE
      <4>1. outdated' = (outdated \/ ~b) BY <3>10 DEF Restart
      <4>2. ~outdated /\ b BY <1>3, <4>1, Zenon
      <4>3. live' = saved BY <3>10, <4>2 DEF Restart, Decoded
      <4> QED BY <1>1, <1>3, <2>2, <4>2, <4>3 DEF ChangesAreOrdered, Same
    <3> QED
      BY <2>2, <3>4, <3>5, <3>6, <3>7, <3>8, <3>9, <3>10
         DEF SettingsNext, PatchReads, PatchWrites, ReconnectReads, WriteEnds, GraceRuns, settingsVars
  <2> QED BY <2>1, <2>2
<1> QED BY <1>2, <1>3

\* A change that was answered with success stays, in memory and in the store, and signing
\* moves only to a secret that was announced: for any number of changes and writes.
THEOREM SettingsKept == SettingsSpec => SettingsAreKept
<1>1. SettingsInv => SettingsAreCurrent
  <2> SUFFICES ASSUME SettingsInv, ~outdated
               PROVE  /\ saved # NoOptions => saved.rev >= answered
                      /\ live # NoOptions => live.rev >= answered
                      /\ live.rev = saved.rev => live = saved
    BY DEF SettingsAreCurrent
  <2> QED BY DEF SettingsInv, ChangesAreOrdered, Same
<1>2. SettingsInv /\ [SettingsNext]_settingsVars =>
        [live # NoOptions /\ live' # NoOptions /\ Primary(live)' # Primary(live) =>
           /\ live'.rev = live.rev /\ ~outdated' => Primary(live)' = Secondary(live)
           /\ ~(Rotate(Grace) /\ ~InGrace(live) /\ live.secret # 0)]_settingsVars
  BY SigningStep
<1>3. SettingsSpec => []SettingsInv BY SettingsStart, SettingsStep, PTL DEF SettingsSpec
<1>4. SettingsSpec => []SettingsAreCurrent BY <1>1, <1>3, PTL
<1>5. SettingsSpec => SigningIsContinuous
  BY <1>2, <1>3, PTL DEF SettingsSpec, SigningIsContinuous
<1> QED BY <1>4, <1>5 DEF SettingsAreKept

-----------------------------------------------------------------------------
(* MessageStore: one room per contact, a mark to rely on, a file that is    *)
(* final.                                                                   *)

\* What OneRoomPerContact says of the store in memory holds of the file, of what is written
\* to it and of what is read from it as well, because all of them are loaded again.
RoomsAreSound(s) ==
  /\ Cardinality(s.msgs["lid"]) <= MaxPerChat
  /\ ~s.mapped => Cardinality(s.msgs["pn"]) <= MaxPerChat
  /\ s.mapped => s.msgs["lid"] = {} /\ "lid" \notin s.chats

SoundContent == {s \in Content : RoomsAreSound(s)}
SoundFile == SoundContent \union {NoFile}

StoreTyped ==
  /\ mem \in SoundContent /\ onDisk \in SoundFile /\ loading \in SoundFile
  /\ snapshots \in [1..MaxSaves -> SoundFile]
  /\ dirty \in BOOLEAN /\ deleted \in BOOLEAN
  /\ link \in {"pending", "reading", "up", "gone"} /\ stage \in {"open", "destroyed", "off"}
  /\ request \in [kind : {"none", "clear", "delete", "leave"}, room : Room]
  /\ changes \in 0..MaxChanges
  /\ mishaps \subseteq {"raced", "unmarked", "late", "failed", "stale", "revived"}

\* The rooms of a store are those of its file.
Current == onDisk = mem \/ (onDisk = NoFile /\ mem = Empty)

\* Why the mark can be relied on: whatever is written is what the store holds, and a clean
\* store is either the file or still empty, with the file's rooms about to come in.
MarkTells ==
  "unmarked" \notin mishaps /\ "stale" \notin mishaps =>
    /\ Writing \subseteq {mem}
    /\ ~dirty /\ ~deleted =>
         \/ Current
         \/ mem = Empty /\ (link = "pending" \/ stage = "off")
         \/ mem = Empty /\ link = "reading" /\ loading = onDisk

\* A closed store is being written, or has been.
CloseTells ==
  stage = "destroyed" /\ ~deleted /\ "raced" \notin mishaps /\ "late" \notin mishaps
    /\ "failed" \notin mishaps
    => Writing \subseteq {mem} /\ (Writing = {} => onDisk = mem)

\* A deleted one is not.
DeletionTells == deleted /\ "revived" \notin mishaps => Writing = {} /\ onDisk = NoFile

\* A process that ended left nothing but the file.
NothingRuns ==
  stage = "off" => mem = Empty /\ ~dirty /\ Writing = {} /\ link = "gone" /\ request = NoRequest

StoreInv == StoreTyped /\ MarkTells /\ CloseTells /\ DeletionTells /\ NothingRuns

LEMMA MessagesFinite ==
  /\ LastMessage \in Nat \ {0} /\ MaxPerChat \in Nat \ {0} /\ IsFiniteSet(Msg)
  /\ \A ms \in SUBSET Msg : IsFiniteSet(ms) /\ Cardinality(ms) \in Nat
  /\ Cardinality({}) = 0
<1>1. LastMessage \in Nat \ {0} /\ MaxPerChat \in Nat \ {0} BY StoreAssumption
<1>2. IsFiniteSet(Msg) BY <1>1, FS_Interval DEF Msg
<1> QED BY <1>1, <1>2, FS_Subset, FS_CardinalityType, FS_EmptySet

\* Messages that lose nobody are no more.
LEMMA FewerMessages ==
  ASSUME NEW ms \in SUBSET Msg, NEW ks \in SUBSET ms
  PROVE  Cardinality(ks) <= Cardinality(ms)
BY MessagesFinite, FS_Subset

\* The newest n messages are at most n: two of them cannot have equally many newer ones.
LEMMA NewestAreFew ==
  ASSUME NEW ms \in SUBSET Msg, NEW n \in Nat \ {0}
  PROVE  Newest(ms, n) \subseteq ms /\ Cardinality(Newest(ms, n)) <= n
<1> DEFINE Newer(m) == {k \in ms : k > m}
           S == Newest(ms, n)
           T == 0..n - 1
           f == [m \in S |-> Cardinality(Newer(m))]
<1>1. S \subseteq ms /\ S \in SUBSET Msg BY DEF Newest
<1>2. \A m \in ms : Newer(m) \in SUBSET Msg /\ IsFiniteSet(Newer(m)) /\ Cardinality(Newer(m)) \in Nat
  BY MessagesFinite
<1>3. f \in [S -> T]
  <2> SUFFICES ASSUME NEW m \in S PROVE Cardinality(Newer(m)) \in T
    OBVIOUS
  <2>1. m \in ms /\ Cardinality(Newer(m)) < n BY DEF Newest
  <2> HIDE DEF Newer
  <2> QED BY <1>2, <2>1
<1>4. IsFiniteSet(T) /\ Cardinality(T) = n BY FS_Interval
<1>5. IsFiniteSet(S) /\ Cardinality(S) \in Nat BY <1>1, MessagesFinite
<1>6. ASSUME NEW x \in S, NEW y \in S, x < y PROVE f[x] # f[y]
  <2>0. x \in Int /\ y \in Int /\ y \in ms /\ \A k \in ms : k \in Int BY <1>1, MessagesFinite DEF Msg
  <2>1. Newer(y) \subseteq Newer(x) /\ y \in Newer(x) /\ y \notin Newer(y)
    <3>1. y > x /\ ~(y > y) /\ \A k \in ms : k > y => k > x BY <1>6, <2>0
    <3> HIDE DEF S, f
    <3>2. y \in Newer(x) BY <2>0, <3>1
    <3>3. y \notin Newer(y) BY <3>1
    <3>4. Newer(y) \subseteq Newer(x) BY <3>1
    <3> QED BY <3>2, <3>3, <3>4
  <2>2. Newer(y) # Newer(x) /\ IsFiniteSet(Newer(x)) BY <1>1, <1>2, <2>1
  <2> HIDE DEF Newer
  <2>3. Cardinality(Newer(x)) # Cardinality(Newer(y)) BY <2>1, <2>2, FS_Subset
  <2> QED BY <2>3
<1>7. \A x, y \in S : x # y => f[x] # f[y]
  <2> SUFFICES ASSUME NEW x \in S, NEW y \in S, x # y PROVE f[x] # f[y]
    OBVIOUS
  <2>1. x < y \/ y < x BY <1>1 DEF Msg
  <2> HIDE DEF f, S
  <2> QED BY <1>6, <2>1
<1> HIDE DEF f, T
<1>8. ~(Cardinality(T) < Cardinality(S))
  <2> HIDE DEF S
  <2> QED BY <1>3, <1>4, <1>5, <1>7, FS_PigeonHole
<1> QED BY <1>1, <1>4, <1>5, <1>8

\* What a change of the rooms' messages, of the chats or of the mapping makes of the rest.
LEMMA ContentIs ==
  ASSUME NEW s \in Content
  PROVE  /\ s.msgs \in [Room -> SUBSET Msg] /\ s.chats \subseteq Room
         /\ s.mapped \in BOOLEAN
         /\ \A r \in Room : s.msgs[r] \in SUBSET Msg
         /\ "lid" \in Room /\ "pn" \in Room
BY DEF Content, Room

\* mergeRoom() leaves nothing under the LID.
LEMMA MergedRooms ==
  ASSUME NEW s \in Content, s.mapped
  PROVE  MergeRoom(s) \in Content /\ MergeRoom(s).mapped /\ RoomsAreSound(MergeRoom(s))
<1> DEFINE rooms == [r \in Room |-> IF r = "pn" THEN s.msgs["lid"] \union s.msgs["pn"] ELSE {}]
           chats == IF s.chats = {} THEN {} ELSE {"pn"}
           t == [s EXCEPT !.msgs = rooms, !.chats = chats]
<1>1. t = MergeRoom(s) BY DEF MergeRoom
<1>2. s.msgs["lid"] \union s.msgs["pn"] \in SUBSET Msg BY ContentIs
<1>3. rooms \in [Room -> SUBSET Msg] /\ rooms["lid"] = {} BY <1>2 DEF Room
<1>4. chats \in SUBSET (Room) /\ "lid" \notin chats BY DEF Room
<1> HIDE DEF rooms, chats
<1>5. t \in Content /\ t.msgs = rooms /\ t.chats = chats /\ t.mapped BY <1>3, <1>4 DEF Content
<1> HIDE DEF t
<1>6. RoomsAreSound(t)
  <2>1. t.msgs["lid"] = {} /\ "lid" \notin t.chats /\ t.mapped BY <1>3, <1>4, <1>5
  <2>2. Cardinality({}) <= MaxPerChat BY MessagesFinite
  <2> QED BY <2>1, <2>2 DEF RoomsAreSound
<1> QED BY <1>1, <1>5, <1>6

\* registerLidMapping().
LEMMA RegisteredRooms ==
  ASSUME NEW s \in Content
  PROVE  /\ RegisterLidMapping(s) \in Content /\ RoomsAreSound(RegisterLidMapping(s))
<1>1. [s EXCEPT !.mapped = TRUE] \in Content /\ [s EXCEPT !.mapped = TRUE].mapped
  BY DEF Content
<1> QED BY <1>1, MergedRooms DEF RegisterLidMapping

\* canonicalRoomJid() is a room, and of a mapped contact the only one.
LEMMA CanonicalRoom ==
  ASSUME NEW s \in Content, NEW q \in Room
  PROVE  Canonical(s, q) \in Room /\ (s.mapped => Canonical(s, q) = "pn")
BY DEF Canonical, Room

\* Messages go away, a chat comes or goes: under the canonical name all stays sound.
LEMMA RoomsShrink ==
  ASSUME NEW s \in Content, RoomsAreSound(s), NEW t \in Content, t.mapped = s.mapped,
         \A r \in Room : t.msgs[r] \subseteq s.msgs[r],
         NEW q \in Room, t.chats \subseteq s.chats \union {Canonical(s, q)}
  PROVE  RoomsAreSound(t)
<1>1. /\ Cardinality(t.msgs["lid"]) <= Cardinality(s.msgs["lid"])
      /\ Cardinality(t.msgs["pn"]) <= Cardinality(s.msgs["pn"])
  BY ContentIs, FewerMessages
<1>2. \A r \in Room : Cardinality(t.msgs[r]) \in Nat /\ Cardinality(s.msgs[r]) \in Nat
  BY ContentIs, MessagesFinite
<1>3. s.mapped => t.msgs["lid"] = {} /\ "lid" \notin t.chats
  BY ContentIs, CanonicalRoom DEF RoomsAreSound
<1> QED BY <1>1, <1>2, <1>3, MessagesFinite, ContentIs DEF RoomsAreSound

\* addMessage(): the room that grows is cut back to the limit.
LEMMA AddedRooms ==
  ASSUME NEW s \in Content, RoomsAreSound(s), NEW q \in Room, NEW ms \in SUBSET Msg
  PROVE  /\ AddMessages(s, Canonical(s, q), ms) \in Content
         /\ RoomsAreSound(AddMessages(s, Canonical(s, q), ms))
<1> DEFINE r == Canonical(s, q)
           new == Newest(s.msgs[r] \union ms, MaxPerChat)
           rooms == [s.msgs EXCEPT ![r] = new]
           chats == s.chats \union {r}
           t == [s EXCEPT !.msgs = rooms, !.chats = chats]
<1>0. t = AddMessages(s, r, ms) BY DEF AddMessages
<1>1. r \in Room /\ (s.mapped => r = "pn") BY CanonicalRoom
<1> HIDE DEF r
<1>2. new \in SUBSET Msg /\ Cardinality(new) <= MaxPerChat
  <2>1. s.msgs[r] \union ms \in SUBSET Msg BY <1>1, ContentIs
  <2> QED BY <2>1, NewestAreFew, MessagesFinite
<1> HIDE DEF new
<1>3. rooms \in [Room -> SUBSET Msg] /\ \A u \in Room : rooms[u] = IF u = r THEN new ELSE s.msgs[u]
  BY <1>1, <1>2, ContentIs
<1>4. chats \in SUBSET (Room) BY <1>1, ContentIs
<1>5. t \in Content /\ t.msgs = rooms /\ t.chats = chats /\ t.mapped = s.mapped
  <2> HIDE DEF rooms, chats
  <2> QED BY <1>3, <1>4 DEF Content
<1> HIDE DEF t, rooms
<1>6. RoomsAreSound(t) BY <1>1, <1>2, <1>3, <1>5, ContentIs DEF RoomsAreSound
<1> QED BY <1>0, <1>5, <1>6 DEF r

\* readFromFile().
LEMMA LoadedRooms ==
  ASSUME NEW s \in Content, RoomsAreSound(s), NEW f \in Content, RoomsAreSound(f)
  PROVE  Loaded(s, f) \in Content /\ RoomsAreSound(Loaded(s, f))
<1> DEFINE rooms == [r \in Room |-> IF f.msgs[r] # {} \/ r \in f.chats THEN f.msgs[r] ELSE s.msgs[r]]
           m == s.mapped \/ f.mapped
           t == [msgs |-> rooms, chats |-> s.chats \union f.chats, mapped |-> m]
<1>1. Loaded(s, f) = IF f = NoFile THEN s ELSE IF t.mapped THEN MergeRoom(t) ELSE t
  BY DEF Loaded
<1>2. rooms \in [Room -> SUBSET Msg] /\ (\A r \in Room : rooms[r] \in {f.msgs[r], s.msgs[r]})
  BY ContentIs
<1>3. s.chats \union f.chats \in SUBSET (Room) BY ContentIs
<1>4. m \in BOOLEAN BY Zenon
<1>5. t.mapped = m /\ t.msgs = rooms BY DEF t
<1> HIDE DEF rooms, m
<1>6. t \in Content BY <1>2, <1>3, <1>4 DEF Content
<1> HIDE DEF t
<1>7. CASE t.mapped BY <1>1, <1>6, <1>7, MergedRooms
<1>8. CASE ~t.mapped
  <2>1. ~s.mapped /\ ~f.mapped BY <1>5, <1>8, Zenon DEF m
  <2>2. RoomsAreSound(t) BY <1>2, <1>5, <1>8, <2>1, ContentIs DEF RoomsAreSound
  <2> QED BY <1>1, <1>6, <1>8, <2>2
<1> QED BY <1>7, <1>8

\* clearChat() and deleteChat().
LEMMA EmptiedRooms ==
  ASSUME NEW s \in Content, RoomsAreSound(s), NEW r \in Room
  PROVE  /\ Cleared(s, r) \in Content /\ RoomsAreSound(Cleared(s, r))
         /\ Deleted(s, r) \in Content /\ RoomsAreSound(Deleted(s, r))
<1>1. /\ Cleared(s, r) \in Content /\ Cleared(s, r).mapped = s.mapped
      /\ Cleared(s, r).chats = s.chats /\ \A u \in Room : Cleared(s, r).msgs[u] \subseteq s.msgs[u]
  BY DEF Cleared, Content
<1>2. RoomsAreSound(Cleared(s, r)) BY <1>1, RoomsShrink
<1>3. /\ Deleted(s, r) \in Content /\ Deleted(s, r).mapped = s.mapped
      /\ Deleted(s, r).chats \subseteq s.chats
      /\ \A u \in Room : Deleted(s, r).msgs[u] \subseteq Cleared(s, r).msgs[u]
  BY <1>1 DEF Deleted, Content
<1>4. RoomsAreSound(Deleted(s, r)) BY <1>1, <1>3, RoomsShrink
<1> QED BY <1>1, <1>2, <1>3, <1>4

LEMMA EmptyIsSound ==
  /\ Empty \in SoundContent /\ NoFile \notin Content /\ NoFile \in SoundFile
  /\ NoRequest \in [kind : {"none", "clear", "delete", "leave"}, room : Room]
<1>1. Empty \in Content BY DEF Empty, Content, Room
<1>2. ~Empty.mapped /\ Empty.msgs["lid"] = {} /\ Empty.msgs["pn"] = {} BY DEF Empty, Room
<1>3. RoomsAreSound(Empty)
  <2>1. Cardinality({}) <= MaxPerChat BY MessagesFinite
  <2> QED BY <1>2, <2>1 DEF RoomsAreSound
<1>4. NoFile.chats = {"none"} /\ "none" \notin Room BY DEF NoFile, Room
<1>5. NoFile \notin Content BY <1>4 DEF Content
<1>6. NoRequest \in [kind : {"none", "clear", "delete", "leave"}, room : Room] BY DEF NoRequest, Room
<1> QED BY <1>1, <1>3, <1>5, <1>6 DEF SoundContent, SoundFile

\* A store that reads its own rooms, an empty one that reads a file, and one without a file.
LEMMA LoadedBack ==
  ASSUME NEW s \in SoundContent
  PROVE  Loaded(s, s) = s /\ Loaded(Empty, s) = s /\ Loaded(s, NoFile) = s
<1>0. s \in Content /\ RoomsAreSound(s) /\ s # NoFile BY EmptyIsSound DEF SoundContent
<1>1. Loaded(s, NoFile) = s BY DEF Loaded
<1>2. ASSUME NEW t \in Content, t.msgs = s.msgs, t.chats = s.chats, t.mapped = s.mapped
      PROVE  t = s
  BY <1>0, <1>2 DEF Content
<1>3. s.mapped => MergeRoom(s) = s
  <2> DEFINE rooms == [r \in Room |-> IF r = "pn" THEN s.msgs["lid"] \union s.msgs["pn"] ELSE {}]
             chats == IF s.chats = {} THEN {} ELSE {"pn"}
             m == [s EXCEPT !.msgs = rooms, !.chats = chats]
  <2> SUFFICES ASSUME s.mapped PROVE m = s
    BY DEF MergeRoom
  <2>1. s.msgs["lid"] = {} /\ "lid" \notin s.chats BY <1>0 DEF RoomsAreSound
  <2>2. rooms = s.msgs
    <3>1. s.msgs \in [Room -> SUBSET Msg] BY <1>0, ContentIs
    <3>2. \A r \in Room : rooms[r] = s.msgs[r] BY <2>1 DEF Room
    <3> QED BY <3>1, <3>2
  <2>3. chats = s.chats BY <1>0, <2>1, ContentIs DEF Room
  <2> HIDE DEF rooms, chats
  <2>4. m \in Content /\ m.msgs = s.msgs /\ m.chats = s.chats /\ m.mapped = s.mapped
    BY <1>0, <2>2, <2>3 DEF Content
  <2> HIDE DEF m
  <2> QED BY <1>2, <2>4
<1>4. ASSUME NEW e \in {s, Empty} PROVE Loaded(e, s) = s
  <2> DEFINE rooms == [r \in Room |-> IF s.msgs[r] # {} \/ r \in s.chats THEN s.msgs[r] ELSE e.msgs[r]]
             chats == e.chats \union s.chats
             mapped == e.mapped \/ s.mapped
             t == [msgs |-> rooms, chats |-> chats, mapped |-> mapped]
  <2>1. Loaded(e, s) = IF t.mapped THEN MergeRoom(t) ELSE t BY <1>0 DEF Loaded
  <2>2. e.chats \subseteq s.chats /\ \A r \in Room : e.msgs[r] \in {s.msgs[r], {}}
    BY DEF Empty
  <2>3. rooms = s.msgs
    <3>1. s.msgs \in [Room -> SUBSET Msg] BY <1>0, ContentIs
    <3>2. \A r \in Room : rooms[r] = s.msgs[r] BY <2>2
    <3> QED BY <3>1, <3>2
  <2>4. chats = s.chats BY <2>2
  <2>5. mapped = s.mapped
    <3>1. e.mapped = s.mapped \/ e.mapped = FALSE BY DEF Empty
    <3>2. s.mapped \in BOOLEAN BY <1>0, ContentIs
    <3> QED BY <3>1, <3>2
  <2> HIDE DEF rooms, chats, mapped
  <2>6. t.msgs = s.msgs /\ t.chats = s.chats /\ t.mapped = s.mapped BY <2>3, <2>4, <2>5
  <2>7. t \in Content BY <1>0, <2>3, <2>4, <2>5 DEF Content
  <2>8. t = s BY <1>2, <2>6, <2>7
  <2> QED BY <1>3, <2>1, <2>8
<1> QED BY <1>1, <1>4

\* What connect() puts into the store is sound.
LEMMA LoadedSound ==
  ASSUME NEW s \in SoundContent, NEW f \in SoundFile
  PROVE  Loaded(s, f) \in SoundContent
<1>1. CASE f = NoFile BY <1>1, LoadedBack
<1>2. CASE f \in SoundContent BY <1>2, LoadedRooms DEF SoundContent
<1> QED BY <1>1, <1>2 DEF SoundFile

\* What is written is sound, and there is nothing of it exactly when every slot is free.
LEMMA WritingIs ==
  ASSUME StoreTyped
  PROVE  /\ Writing \subseteq SoundContent
         /\ \A w \in 1..MaxSaves : snapshots[w] # NoFile => snapshots[w] \in Writing
         /\ \A x \in Writing : x # NoFile /\ \E w \in 1..MaxSaves : x = snapshots[w]
         /\ mem # NoFile
BY EmptyIsSound DEF StoreTyped, Writing, SoundFile, SoundContent

\* writeToFile() adds what the store holds to what is being written.
LEMMA SaveAdds ==
  ASSUME StoreTyped, NEW w \in 1..MaxSaves, SaveStarts(w)
  PROVE  /\ Writing' = Writing \union {mem} /\ snapshots' \in [1..MaxSaves -> SoundFile]
         /\ mishaps' \subseteq {"raced", "unmarked", "late", "failed", "stale", "revived"}
         /\ mishaps \subseteq mishaps' /\ mishaps' \subseteq mishaps \union {"raced"}
         /\ ("raced" \in mishaps' \/ Writing \subseteq {mem})
<1>1. /\ snapshots \in [1..MaxSaves -> SoundFile] /\ mem \in SoundFile /\ mem # NoFile
      /\ snapshots[w] = NoFile /\ snapshots' = [snapshots EXCEPT ![w] = mem]
      /\ mishaps \subseteq {"raced", "unmarked", "late", "failed", "stale", "revived"}
  BY WritingIs DEF StoreTyped, SaveStarts, SoundFile
<1>2. \A v \in 1..MaxSaves : snapshots'[v] = IF v = w THEN mem ELSE snapshots[v] BY <1>1
<1>3. snapshots' \in [1..MaxSaves -> SoundFile] BY <1>1
<1>4. Writing' = Writing \union {mem} BY <1>1, <1>2 DEF Writing
<1>5. mishaps' = mishaps \union (IF Writing \subseteq {mem} THEN {} ELSE {"raced"}) BY DEF SaveStarts
<1> QED BY <1>1, <1>3, <1>4, <1>5

\* Its end takes one away.
LEMMA SaveTakesAway ==
  ASSUME StoreTyped, NEW w \in 1..MaxSaves, snapshots[w] # NoFile,
         snapshots' = [snapshots EXCEPT ![w] = NoFile]
  PROVE  /\ Writing' \subseteq Writing /\ snapshots' \in [1..MaxSaves -> SoundFile]
         /\ snapshots[w] \in Writing
         /\ (\A v \in 1..MaxSaves : v # w => snapshots[v] = NoFile) => Writing' = {}
<1>1. /\ snapshots \in [1..MaxSaves -> SoundFile] /\ NoFile \in SoundFile
  BY EmptyIsSound DEF StoreTyped
<1>2. \A v \in 1..MaxSaves : snapshots'[v] = IF v = w THEN NoFile ELSE snapshots[v] BY <1>1
<1>3. snapshots' \in [1..MaxSaves -> SoundFile] BY <1>1
<1>4. Writing' \subseteq Writing /\ snapshots[w] \in Writing BY <1>2 DEF Writing
<1>5. (\A v \in 1..MaxSaves : v # w => snapshots[v] = NoFile) => Writing' = {}
  BY <1>2 DEF Writing
<1> QED BY <1>3, <1>4, <1>5

\* The rooms change, by an event or by a request.
LEMMA ChangesKeep ==
  ASSUME StoreInv, stage # "off", NEW s \in SoundContent, NEW marked \in BOOLEAN,
         Becomes(s, marked), dirty' = (dirty \/ marked),
         request' \in [kind : {"none", "clear", "delete", "leave"}, room : Room],
         changes' \in 0..MaxChanges,
         UNCHANGED <<onDisk, snapshots, loading, link, stage, deleted>>
  PROVE  StoreInv'
<1>1. /\ mem' = s /\ Writing' = Writing /\ mishaps \subseteq mishaps'
      /\ mishaps' \subseteq mishaps \union {"unmarked", "late"}
      /\ s # mem /\ (~marked \/ Writing # {}) => "unmarked" \in mishaps'
      /\ s # mem /\ stage = "destroyed" => "late" \in mishaps'
  BY DEF Becomes, Writing
<1>2. StoreTyped'
  <2>1. dirty' \in BOOLEAN BY DEF StoreInv, StoreTyped
  <2> QED BY <1>1, <2>1 DEF StoreInv, StoreTyped
<1>3. MarkTells'
  <2> SUFFICES ASSUME "unmarked" \notin mishaps', "stale" \notin mishaps' PROVE MarkTells'
    BY DEF MarkTells
  <2>1. "unmarked" \notin mishaps /\ "stale" \notin mishaps BY <1>1
  <2>2. CASE s = mem
    <3>1. UNCHANGED <<mem, onDisk, Writing, deleted, link, loading>> /\ (~dirty' => ~dirty)
      BY <1>1, <2>2
    <3> QED BY <2>1, <3>1 DEF StoreInv, MarkTells, Current
  <2>3. CASE s # mem
    <3>1. marked /\ Writing' = {} /\ dirty' BY <1>1, <2>3
    <3> QED BY <3>1 DEF MarkTells
  <2> QED BY <2>2, <2>3
<1>4. CloseTells'
  <2>1. CASE s = mem BY <1>1, <2>1 DEF StoreInv, CloseTells
  <2>2. CASE s # mem BY <1>1, <2>2 DEF StoreInv, CloseTells
  <2> QED BY <2>1, <2>2
<1>5. DeletionTells' BY <1>1 DEF StoreInv, DeletionTells
<1>6. NothingRuns' BY DEF NothingRuns
<1> QED BY <1>2, <1>3, <1>4, <1>5, <1>6 DEF StoreInv

LEMMA EventKeeps ==
  ASSUME StoreInv, NEW s \in SoundContent, Event(s)
  PROVE  StoreInv'
<1>1. /\ link = "up" /\ changes < MaxChanges /\ changes' = changes + 1 /\ Becomes(s, TRUE)
      /\ dirty' = TRUE /\ UNCHANGED <<onDisk, snapshots, loading, link, stage, deleted, request>>
  BY DEF Event
<1>2. stage # "off" BY <1>1 DEF StoreInv, NothingRuns
<1>3. changes' \in 0..MaxChanges BY <1>1, StoreAssumption DEF StoreInv, StoreTyped
<1>4. request' \in [kind : {"none", "clear", "delete", "leave"}, room : Room]
  BY <1>1 DEF StoreInv, StoreTyped
<1>5. dirty' = (dirty \/ TRUE) BY <1>1
<1> QED BY <1>1, <1>2, <1>3, <1>4, <1>5, ChangesKeep

\* The messages, chats and mappings that events bring.
LEMMA EventsKeep ==
  ASSUME StoreInv
  PROVE  /\ \A r \in Room, b \in BOOLEAN :
              /\ \A m \in Msg : MessagesUpsert(m, r, b) => StoreInv'
              /\ HistorySet(Msg, r, b) => StoreInv'
         /\ \A r \in Room :
              /\ ChatsUpsert(r) => StoreInv'
              /\ ChatsDelete(r) => StoreInv'
              /\ \A ms \in SUBSET Msg : MessagesDelete(ms, r) => StoreInv'
         /\ LidMappingUpdate => StoreInv'
<1>1. mem \in SoundContent /\ mem \in Content /\ RoomsAreSound(mem)
  BY DEF StoreInv, StoreTyped, SoundContent
<1> DEFINE KnownRooms(b) == IF b THEN RegisterLidMapping(mem) ELSE mem
<1>2. ASSUME NEW b \in BOOLEAN PROVE KnownRooms(b) \in Content /\ RoomsAreSound(KnownRooms(b))
  BY <1>1, RegisteredRooms
<1>3. ASSUME NEW ms \in SUBSET Msg, NEW r \in Room, NEW b \in BOOLEAN,
             Event(AddMessages(KnownRooms(b), Canonical(KnownRooms(b), r), ms))
      PROVE  StoreInv'
  <2> DEFINE s == AddMessages(KnownRooms(b), Canonical(KnownRooms(b), r), ms)
  <2> HIDE DEF KnownRooms
  <2>1. s \in SoundContent BY <1>2, AddedRooms DEF SoundContent
  <2> HIDE DEF s
  <2>2. Event(s) BY <1>3 DEF s
  <2> QED BY <2>1, <2>2, EventKeeps
<1>4. ASSUME NEW m \in Msg, NEW r \in Room, NEW b \in BOOLEAN, MessagesUpsert(m, r, b)
      PROVE  StoreInv'
  <2>1. Event(AddMessages(KnownRooms(b), Canonical(KnownRooms(b), r), {m}))
    BY <1>4 DEF MessagesUpsert
  <2>2. {m} \in SUBSET Msg OBVIOUS
  <2> HIDE DEF KnownRooms
  <2> QED BY <1>3, <2>1, <2>2
<1>5. ASSUME NEW r \in Room, NEW b \in BOOLEAN, HistorySet(Msg, r, b) PROVE StoreInv'
  <2>1. Event(AddMessages(KnownRooms(b), Canonical(KnownRooms(b), r), Msg))
    BY <1>5 DEF HistorySet
  <2>2. Msg \in SUBSET Msg OBVIOUS
  <2> HIDE DEF KnownRooms
  <2> QED BY <1>3, <2>1, <2>2
<1>6. ASSUME NEW r \in Room, ChatsUpsert(r) PROVE StoreInv'
  <2> DEFINE s == [mem EXCEPT !.chats = @ \union {Canonical(mem, r)}]
  <2>1. Canonical(mem, r) \in Room BY <1>1, CanonicalRoom
  <2>2. /\ s \in Content /\ s.mapped = mem.mapped /\ s.msgs = mem.msgs
        /\ s.chats = mem.chats \union {Canonical(mem, r)}
    BY <1>1, <2>1 DEF Content
  <2>3. Event(s) BY <1>6 DEF ChatsUpsert
  <2> HIDE DEF s
  <2>4. s \in SoundContent BY <1>1, <2>2, RoomsShrink DEF SoundContent
  <2> QED BY <2>3, <2>4, EventKeeps
<1>7. ASSUME NEW r \in Room, ChatsDelete(r) PROVE StoreInv'
  <2> DEFINE s == Deleted(mem, Canonical(mem, r))
  <2>1. s \in Content /\ RoomsAreSound(s) BY <1>1, CanonicalRoom, EmptiedRooms
  <2> HIDE DEF s
  <2>2. Deleted(s, r) \in SoundContent BY <2>1, EmptiedRooms DEF SoundContent
  <2>3. Event(Deleted(s, r)) BY <1>7 DEF ChatsDelete, s
  <2> QED BY <2>2, <2>3, EventKeeps
<1>8. ASSUME NEW r \in Room, NEW ms \in SUBSET Msg, MessagesDelete(ms, r) PROVE StoreInv'
  <2> DEFINE c == Canonical(mem, r)
             s == [mem EXCEPT !.msgs[c] = @ \ ms]
  <2>1. c \in Room BY <1>1, CanonicalRoom
  <2>2. Event(s) BY <1>8 DEF MessagesDelete
  <2> HIDE DEF c
  <2>3. /\ s \in Content /\ s.mapped = mem.mapped /\ s.chats = mem.chats
        /\ \A u \in Room : s.msgs[u] \subseteq mem.msgs[u]
    BY <1>1, <2>1 DEF Content
  <2> HIDE DEF s
  <2>4. s \in SoundContent BY <1>1, <2>3, RoomsShrink DEF SoundContent
  <2> QED BY <2>2, <2>4, EventKeeps
<1>9. ASSUME LidMappingUpdate PROVE StoreInv'
  <2>1. RegisterLidMapping(mem) \in SoundContent BY <1>1, RegisteredRooms DEF SoundContent
  <2> QED BY <1>9, <2>1, EventKeeps DEF LidMappingUpdate
<1> HIDE DEF KnownRooms
<1> QED BY <1>4, <1>5, <1>6, <1>7, <1>8, <1>9

\* Clears, deletions and leaves, and the answers they wait for.
LEMMA RequestsKeep ==
  ASSUME StoreInv
  PROVE  /\ \A r \in Room, kind \in {"clear", "delete", "leave"} : RequestStarts(kind, r) => StoreInv'
         /\ \A ok \in BOOLEAN : RequestEnds(ok) => StoreInv'
<1>1. /\ mem \in SoundContent /\ mem \in Content /\ RoomsAreSound(mem) /\ dirty \in BOOLEAN
      /\ request \in [kind : {"none", "clear", "delete", "leave"}, room : Room]
      /\ request.room \in Room /\ changes \in 0..MaxChanges
      /\ NoRequest \in [kind : {"none", "clear", "delete", "leave"}, room : Room]
  BY EmptyIsSound DEF StoreInv, StoreTyped, SoundContent
<1>2. ASSUME NEW r \in Room PROVE Cleared(mem, r) \in SoundContent /\ Deleted(mem, r) \in SoundContent
  BY <1>1, EmptiedRooms DEF SoundContent
<1>3. ASSUME NEW r \in Room, NEW kind \in {"clear", "delete", "leave"}, RequestStarts(kind, r)
      PROVE  StoreInv'
  <2>1. /\ stage = "open" /\ changes' = changes + 1 /\ changes < MaxChanges
        /\ UNCHANGED <<onDisk, dirty, snapshots, loading, link, stage, deleted>>
    BY <1>3 DEF RequestStarts
  <2>2. changes' \in 0..MaxChanges BY <1>1, <2>1, StoreAssumption
  <2>3. CASE AtOnce(kind, r)
    <3> DEFINE s == IF kind = "clear" THEN Cleared(mem, r) ELSE Deleted(mem, r)
    <3>1. Becomes(s, FALSE) /\ request' = request BY <1>3, <2>3 DEF RequestStarts
    <3>2. s \in SoundContent BY <1>2
    <3> HIDE DEF s
    <3>3. dirty' = (dirty \/ FALSE) BY <1>1, <2>1
    <3> QED BY <1>1, <2>1, <2>2, <3>1, <3>2, <3>3, ChangesKeep
  <2>4. CASE ~AtOnce(kind, r)
    <3>1. request' = [kind |-> kind, room |-> r] /\ mem' = mem /\ mishaps' = mishaps
      BY <1>3, <2>4 DEF RequestStarts
    <3>2. request' \in [kind : {"none", "clear", "delete", "leave"}, room : Room] BY <3>1
    <3>3. Writing' = Writing BY <2>1 DEF Writing
    <3>4. StoreTyped' BY <2>1, <2>2, <3>1, <3>2 DEF StoreInv, StoreTyped
    <3> QED BY <2>1, <3>1, <3>3, <3>4
            DEF StoreInv, MarkTells, Current, CloseTells, DeletionTells, NothingRuns
  <2> QED BY <2>3, <2>4
<1>4. ASSUME NEW ok \in BOOLEAN, RequestEnds(ok) PROVE StoreInv'
  <2> DEFINE s == CASE ~ok -> mem
                    [] request.kind = "clear" -> Cleared(mem, request.room)
                    [] OTHER -> Deleted(mem, request.room)
  <2>1. /\ request # NoRequest /\ request' = NoRequest /\ Becomes(s, FALSE)
        /\ UNCHANGED <<onDisk, dirty, snapshots, loading, link, stage, deleted, changes>>
    BY <1>4 DEF RequestEnds
  <2>2. s \in {mem, Cleared(mem, request.room), Deleted(mem, request.room)}
    <3>1. CASE ~ok BY <3>1
    <3>2. CASE ok /\ request.kind = "clear" BY <3>2
    <3>3. CASE ok /\ request.kind # "clear" BY <3>3
    <3> QED BY <3>1, <3>2, <3>3
  <2> HIDE DEF s
  <2>3. s \in SoundContent BY <1>1, <1>2, <2>2
  <2>4. stage # "off" BY <2>1 DEF StoreInv, NothingRuns
  <2>5. dirty' = (dirty \/ FALSE) BY <1>1, <2>1
  <2> QED BY <1>1, <2>1, <2>3, <2>4, <2>5, ChangesKeep
<1> QED BY <1>3, <1>4

\* Saves begin and end.
LEMMA SavesKeep ==
  ASSUME StoreInv, NEW w \in 1..MaxSaves
  PROVE  /\ AutoSave(w) => StoreInv'
         /\ Destroy(w) => StoreInv'
         /\ \A ok \in BOOLEAN : SaveEnds(w, ok) => StoreInv'
<1>0. StoreTyped /\ MarkTells /\ CloseTells /\ DeletionTells /\ NothingRuns /\ dirty \in BOOLEAN
  BY DEF StoreInv, StoreTyped
<1>1. ASSUME AutoSave(w) PROVE StoreInv'
  <2>1. /\ stage = "open" /\ ~deleted /\ SaveStarts(w)
        /\ UNCHANGED <<mem, onDisk, dirty, loading, link, stage, deleted, request, changes>>
    BY <1>1 DEF AutoSave, MustWrite
  <2>2. StoreTyped' BY <1>0, <2>1, SaveAdds DEF StoreTyped
  <2>3. MarkTells' BY <1>0, <2>1, SaveAdds DEF MarkTells, Current
  <2>4. CloseTells' /\ DeletionTells' /\ NothingRuns'
    BY <2>1 DEF CloseTells, DeletionTells, NothingRuns
  <2> QED BY <2>2, <2>3, <2>4 DEF StoreInv
<1>2. ASSUME Destroy(w) PROVE StoreInv'
  <2>1. /\ stage # "off" /\ stage' = "destroyed"
        /\ UNCHANGED <<mem, onDisk, dirty, loading, link, deleted, request, changes>>
        /\ IF ~deleted THEN SaveStarts(w) ELSE UNCHANGED <<snapshots, mishaps>>
    BY <1>2 DEF Destroy, MustWrite
  <2>2. CASE deleted
    <3>1. UNCHANGED <<snapshots, mishaps>> /\ Writing' = Writing BY <2>1, <2>2 DEF Writing
    <3>2. StoreTyped' BY <1>0, <2>1, <3>1 DEF StoreTyped
    <3> QED BY <1>0, <2>1, <2>2, <3>1, <3>2
            DEF StoreInv, MarkTells, Current, CloseTells, DeletionTells, NothingRuns
  <2>3. CASE ~deleted
    <3>1. SaveStarts(w) BY <2>1, <2>3
    <3>2. StoreTyped' BY <1>0, <2>1, <3>1, SaveAdds DEF StoreTyped
    <3>3. MarkTells' BY <1>0, <2>1, <3>1, SaveAdds DEF MarkTells, Current
    <3>4. CloseTells' BY <1>0, <2>1, <3>1, SaveAdds DEF CloseTells
    <3>5. DeletionTells' /\ NothingRuns' BY <2>1, <2>3 DEF DeletionTells, NothingRuns
    <3> QED BY <3>2, <3>3, <3>4, <3>5 DEF StoreInv
  <2> QED BY <2>2, <2>3
<1>3. ASSUME NEW ok \in BOOLEAN, SaveEnds(w, ok) PROVE StoreInv'
  <2> DEFINE x == snapshots[w]
  <2>1. /\ x # NoFile /\ snapshots' = [snapshots EXCEPT ![w] = NoFile]
        /\ UNCHANGED <<mem, loading, link, stage, deleted, request, changes>>
    BY <1>3 DEF SaveEnds
  <2>2. /\ Writing' \subseteq Writing /\ snapshots' \in [1..MaxSaves -> SoundFile] /\ x \in Writing
        /\ (\A v \in 1..MaxSaves : v # w => snapshots[v] = NoFile) => Writing' = {}
    BY <1>0, <2>1, SaveTakesAway
  <2>3. x \in SoundContent /\ stage # "off"
    BY <1>0, <2>2, WritingIs DEF NothingRuns
  <2>4. CASE ok
    <3> DEFINE alone == \A v \in 1..MaxSaves : v # w => snapshots[v] = NoFile
    <3>1. onDisk' = x /\ dirty' = FALSE
      BY <1>3, <2>4 DEF SaveEnds
    <3>2. mishaps' = IF alone /\ x = mem THEN mishaps \intersect {"revived"} ELSE mishaps
      BY <1>3, <2>4 DEF SaveEnds
    <3> HIDE DEF x
    <3>3. \/ alone /\ x = mem /\ Writing' = {} /\ mishaps' = mishaps \intersect {"revived"}
          \/ mishaps' = mishaps
      BY <2>2, <3>2
    <3> HIDE DEF alone
    <3>4. StoreTyped'
      <4>1. mishaps' \subseteq {"raced", "unmarked", "late", "failed", "stale", "revived"}
        BY <1>0, <3>3 DEF StoreTyped
      <4>2. onDisk' \in SoundFile BY <2>3, <3>1 DEF SoundFile
      <4> QED BY <1>0, <2>1, <2>2, <3>1, <4>1, <4>2 DEF StoreTyped
    <3>5. MarkTells' BY <1>0, <2>1, <2>2, <3>1, <3>3 DEF MarkTells, Current
    <3>6. CloseTells' BY <1>0, <2>1, <2>2, <3>1, <3>3 DEF CloseTells
    <3>7. DeletionTells' BY <1>0, <2>1, <2>2, <3>1, <3>3 DEF DeletionTells
    <3>8. NothingRuns' BY <2>1, <2>3 DEF NothingRuns
    <3> QED BY <3>4, <3>5, <3>6, <3>7, <3>8 DEF StoreInv
  <2>5. CASE ~ok
    <3>1. /\ UNCHANGED <<onDisk, dirty>>
          /\ mishaps' = mishaps \union (IF stage = "destroyed" THEN {"failed"} ELSE {})
      BY <1>3, <2>5 DEF SaveEnds
    <3> HIDE DEF x
    <3>2. StoreTyped' BY <1>0, <2>1, <2>2, <3>1 DEF StoreTyped
    <3>3. MarkTells' BY <1>0, <2>1, <2>2, <3>1 DEF MarkTells, Current
    <3>4. CloseTells' BY <1>0, <2>1, <2>2, <3>1 DEF CloseTells
    <3>5. DeletionTells' BY <1>0, <2>1, <2>2, <3>1 DEF DeletionTells
    <3>6. NothingRuns' BY <2>1, <2>3 DEF NothingRuns
    <3> QED BY <3>2, <3>3, <3>4, <3>5, <3>6 DEF StoreInv
  <2> QED BY <2>4, <2>5
<1> QED BY <1>1, <1>2, <1>3

\* connect() puts what it read into the store.
LEMMA ReadsKeep ==
  ASSUME StoreInv, NEW made \in BOOLEAN, ReadEnds(made)
  PROVE  StoreInv'
<1> DEFINE s == Loaded(mem, loading)
<1>0. StoreTyped /\ MarkTells /\ CloseTells /\ DeletionTells /\ NothingRuns /\ dirty \in BOOLEAN
  BY DEF StoreInv, StoreTyped
<1>1. /\ link = "reading" /\ link' \in {"up", "gone"} /\ loading' = NoFile /\ mem' = s
      /\ dirty' = (dirty \/ (s.mapped /\ "lid" \in loading.chats))
      /\ UNCHANGED <<onDisk, snapshots, stage, deleted, request, changes>>
  BY DEF ReadEnds
<1>2. mishaps' = mishaps
          \union (IF s # mem /\ Writing # {} THEN {"unmarked"} ELSE {})
          \union (IF s # mem /\ stage = "destroyed" THEN {"late"} ELSE {})
          \union (IF s # mem /\ loading # onDisk THEN {"stale"} ELSE {})
  BY DEF ReadEnds
<1>3. s \in SoundContent BY <1>0, LoadedSound DEF StoreTyped
<1>4. Writing' = Writing /\ stage # "off" BY <1>0, <1>1 DEF Writing, NothingRuns
<1>5. s.mapped \in BOOLEAN BY <1>3 DEF SoundContent, Content
<1>6. dirty' \in BOOLEAN /\ (~dirty' => ~dirty) BY <1>0, <1>1, <1>5
<1>7. mem = Empty /\ loading = onDisk => s = onDisk \/ (onDisk = NoFile /\ s = mem)
  BY <1>0, LoadedBack DEF StoreTyped, SoundFile
<1>8. Current /\ loading = onDisk => s = mem
  BY <1>0, LoadedBack DEF StoreTyped, Current
<1> HIDE DEF s
<1>9. StoreTyped'
  <2>1. mishaps' \subseteq {"raced", "unmarked", "late", "failed", "stale", "revived"}
    BY <1>0, <1>2 DEF StoreTyped
  <2> QED BY <1>0, <1>1, <1>3, <1>6, <2>1, EmptyIsSound DEF StoreTyped
<1>10. MarkTells'
  <2> SUFFICES ASSUME "unmarked" \notin mishaps', "stale" \notin mishaps' PROVE MarkTells'
    BY DEF MarkTells
  <2>1. /\ "unmarked" \notin mishaps /\ "stale" \notin mishaps
        /\ s # mem => Writing = {} /\ loading = onDisk
    BY <1>2
  <2>2. Writing' \subseteq {mem'} BY <1>0, <1>1, <1>4, <2>1 DEF MarkTells
  <2>3. ASSUME ~dirty', ~deleted' PROVE Current'
    <3>1. ~dirty /\ ~deleted BY <1>1, <1>6, <2>3
    <3>2. Current \/ (mem = Empty /\ loading = onDisk) BY <1>0, <1>1, <1>4, <2>1, <3>1 DEF MarkTells
    <3>3. CASE s = mem BY <1>1, <1>7, <3>2, <3>3 DEF Current
    <3>4. CASE s # mem BY <1>1, <1>7, <1>8, <2>1, <3>2, <3>4 DEF Current
    <3> QED BY <3>3, <3>4
  <2> QED BY <2>2, <2>3 DEF MarkTells
<1>11. CloseTells'
  <2>1. CASE s = mem BY <1>0, <1>1, <1>2, <1>4, <2>1 DEF CloseTells
  <2>2. CASE s # mem BY <1>1, <1>2, <2>2 DEF CloseTells
  <2> QED BY <2>1, <2>2
<1>12. DeletionTells' BY <1>0, <1>1, <1>2, <1>4 DEF DeletionTells
<1>13. NothingRuns' BY <1>1, <1>4 DEF NothingRuns
<1> QED BY <1>9, <1>10, <1>11, <1>12, <1>13 DEF StoreInv

LEMMA StoreStep ==
  ASSUME StoreInv, [StoreNext]_storeVars
  PROVE  StoreInv'
<1>0. StoreTyped /\ MarkTells /\ CloseTells /\ DeletionTells /\ NothingRuns
  BY DEF StoreInv
<1>1. CASE ReadStarts
  <2>1. /\ link = "pending" /\ link' = "reading" /\ loading' = onDisk
        /\ UNCHANGED <<mem, onDisk, dirty, snapshots, stage, deleted, request, changes, mishaps>>
    BY <1>1 DEF ReadStarts
  <2>2. Writing' = Writing BY <2>1 DEF Writing
  <2>3. StoreTyped' BY <1>0, <2>1 DEF StoreTyped
  <2> QED BY <1>0, <2>1, <2>2, <2>3
          DEF StoreInv, MarkTells, Current, CloseTells, DeletionTells, NothingRuns
<1>2. ASSUME NEW again \in BOOLEAN, SocketCloses(again) PROVE StoreInv'
  <2>1. /\ link = "up" /\ link' \in {"pending", "gone"}
        /\ UNCHANGED <<mem, onDisk, dirty, snapshots, loading, stage, deleted, request, changes, mishaps>>
    BY <1>2 DEF SocketCloses
  <2>2. Writing' = Writing BY <2>1 DEF Writing
  <2>3. StoreTyped' BY <1>0, <2>1 DEF StoreTyped
  <2> QED BY <1>0, <2>1, <2>2, <2>3
          DEF StoreInv, MarkTells, Current, CloseTells, DeletionTells, NothingRuns
<1>3. CASE MarkDeleted
  <2>1. /\ stage # "off" /\ deleted' = TRUE /\ dirty' = FALSE /\ onDisk' = NoFile
        /\ mishaps' = mishaps \union (IF Writing # {} THEN {"revived"} ELSE {})
        /\ UNCHANGED <<mem, snapshots, loading, link, stage, request, changes>>
    BY <1>3 DEF MarkDeleted
  <2>2. Writing' = Writing BY <2>1 DEF Writing
  <2>3. StoreTyped' BY <1>0, <2>1, EmptyIsSound DEF StoreTyped
  <2> QED BY <1>0, <2>1, <2>2, <2>3
          DEF StoreInv, MarkTells, CloseTells, DeletionTells, NothingRuns
<1>4. CASE DeleteAuthState
  <2>1. /\ deleted /\ stage = "destroyed" /\ onDisk' = NoFile
        /\ mishaps' = (IF Writing = {} THEN mishaps \ {"revived"} ELSE mishaps)
        /\ UNCHANGED <<mem, dirty, snapshots, loading, link, stage, deleted, request, changes>>
    BY <1>4 DEF DeleteAuthState
  <2>2. Writing' = Writing BY <2>1 DEF Writing
  <2>3. StoreTyped' BY <1>0, <2>1, EmptyIsSound DEF StoreTyped
  <2> QED BY <1>0, <2>1, <2>2, <2>3
          DEF StoreInv, MarkTells, CloseTells, DeletionTells, NothingRuns
<1>5. CASE Crash
  <2>1. /\ stage' = "off" /\ link' = "gone" /\ snapshots' = [w \in 1..MaxSaves |-> NoFile]
        /\ request' = NoRequest /\ loading' = NoFile /\ mem' = Empty /\ dirty' = FALSE
        /\ mishaps' = mishaps \intersect {"revived"} /\ UNCHANGED <<onDisk, deleted, changes>>
    BY <1>5 DEF Crash
  <2>2. Writing' = {} BY <2>1 DEF Writing
  <2>3. snapshots' \in [1..MaxSaves -> SoundFile] BY <2>1, EmptyIsSound
  <2>4. StoreTyped' BY <1>0, <2>1, <2>3, EmptyIsSound DEF StoreTyped
  <2>5. DeletionTells' BY <1>0, <2>1, <2>2 DEF DeletionTells
  <2>6. MarkTells' BY <2>1, <2>2 DEF MarkTells
  <2>7. CloseTells' /\ NothingRuns' BY <2>1, <2>2 DEF CloseTells, NothingRuns
  <2> QED BY <2>4, <2>5, <2>6, <2>7 DEF StoreInv
<1>6. CASE Boot
  <2>1. /\ stage = "off" /\ stage' = "open" /\ link' = "pending" /\ deleted' = FALSE /\ mishaps' = {}
        /\ UNCHANGED <<mem, onDisk, dirty, snapshots, loading, request, changes>>
    BY <1>6 DEF Boot
  <2>2. Writing' = Writing BY <2>1 DEF Writing
  <2>3. StoreTyped' BY <1>0, <2>1 DEF StoreTyped
  <2> QED BY <1>0, <2>1, <2>2, <2>3
          DEF StoreInv, MarkTells, CloseTells, DeletionTells, NothingRuns
<1>7. CASE UNCHANGED storeVars
  <2>1. UNCHANGED <<mem, onDisk, dirty, snapshots, loading, link, stage, deleted, request, changes, mishaps>>
    BY <1>7 DEF storeVars
  <2>2. Writing' = Writing BY <2>1 DEF Writing
  <2>3. StoreTyped' BY <1>0, <2>1 DEF StoreTyped
  <2> QED BY <1>0, <2>1, <2>2, <2>3
          DEF StoreInv, MarkTells, Current, CloseTells, DeletionTells, NothingRuns
<1> QED BY <1>1, <1>2, <1>3, <1>4, <1>5, <1>6, <1>7, EventsKeep, RequestsKeep, SavesKeep, ReadsKeep
        DEF StoreNext

\* The rooms of a contact are one and stay within the limit; a clean store of a connected
\* session, and a closed one whose writes ended, are in the file, and a deleted one has no
\* file, except after the mishaps that FileIsCurrent and FileIsFinal name: for every number
\* of messages, every limit, and any number of writes at once, of events and of requests,
\* those that come after the close included.
THEOREM StoreSound == StoreSpec => [](StoreTypeOK /\ StoreIsSound)
<1>1. StoreInit => StoreInv
  <2> SUFFICES ASSUME StoreInit PROVE StoreInv
    OBVIOUS
  <2>1. /\ mem = Empty /\ onDisk = NoFile /\ dirty = FALSE
        /\ snapshots = [w \in 1..MaxSaves |-> NoFile] /\ loading = NoFile
        /\ link = "pending" /\ stage = "open" /\ deleted = FALSE
        /\ request = NoRequest /\ changes = 0 /\ mishaps = {}
    BY DEF StoreInit
  <2>2. Writing = {} BY <2>1 DEF Writing
  <2>3. changes \in 0..MaxChanges BY <2>1, StoreAssumption
  <2>4. snapshots \in [1..MaxSaves -> SoundFile] BY <2>1, EmptyIsSound
  <2>5. StoreTyped BY <2>1, <2>3, <2>4, EmptyIsSound DEF StoreTyped
  <2> QED BY <2>1, <2>2, <2>5 DEF StoreInv, MarkTells, CloseTells, DeletionTells, NothingRuns
<1>2. StoreInv => StoreTypeOK /\ StoreIsSound
  <2> SUFFICES ASSUME StoreInv PROVE StoreTypeOK /\ StoreIsSound
    OBVIOUS
  <2>1. StoreTypeOK
    <3>1. SoundContent \subseteq Content /\ SoundFile \subseteq Content \union {NoFile}
      BY DEF SoundContent, SoundFile
    <3> QED BY <3>1 DEF StoreInv, StoreTyped, StoreTypeOK
  <2>2. OneRoomPerContact BY DEF StoreInv, StoreTyped, SoundContent, RoomsAreSound, OneRoomPerContact
  <2>3. FileIsFinal BY DEF StoreInv, CloseTells, DeletionTells, FileIsFinal
  <2>4. FileIsCurrent BY DEF StoreInv, MarkTells, Current, NothingRuns, FileIsCurrent
  <2> QED BY <2>1, <2>2, <2>3, <2>4 DEF StoreIsSound
<1> QED BY <1>1, <1>2, StoreStep, PTL DEF StoreSpec

-----------------------------------------------------------------------------
(* Accounts.  The point of the induction is that not only the list on disk *)
(* is governed but every outdated copy a request still holds, so whichever *)
(* is written last, an administrator is left.                              *)

\* A list with somebody in it that is governed.
Peopled(list) == list # {} /\ Governed(list)

\* Requests hold governed lists, and never write an empty one.
CopiesGoverned ==
  /\ saving \in [AccountRequest -> [on : BOOLEAN, list : SUBSET User, token : SUBSET Token]]
  /\ \A r \in AccountRequest : saving[r].on => Peopled(saving[r].list)

\* Tokens are only given to somebody on the list, which never becomes empty again.
AccountsInv ==
  /\ users \subseteq User /\ nextId \in Nat
  /\ tokens # {} => users # {}
  /\ Governed(users)
  /\ CopiesGoverned

\* Changing one account to another of the same name that is as powerful keeps a
\* list governed.
LEMMA ReplaceKeepsGoverned ==
  ASSUME NEW list, Governed(list), NEW u \in list, NEW v,
         v.name = u.name, v.all => v.role = "manager",
         u.role = "admin" => v.role = "admin" \/ ~(Admins(list) = {u})
  PROVE  Governed(Replace(list, u, v))
<1> DEFINE new == Replace(list, u, v)
<1>1. \A x, y \in new : x.name = y.name => x = y
  BY DEF Governed, Replace
<1>2. \A x \in new : x.all => x.role = "manager"
  BY DEF Governed, Replace
<1>3. Admins(new) # {}
  <2>1. PICK a \in list : a.role = "admin"
    BY DEF Governed, Admins
  <2>2. CASE v.role = "admin"
    BY <2>2 DEF Admins, Replace
  <2>3. CASE v.role # "admin"
    <3>1. \E b \in list : b.role = "admin" /\ b # u
      <4>1. CASE u.role = "admin"
        BY <2>3, <4>1 DEF Admins
      <4>2. CASE u.role # "admin"
        BY <2>1, <4>2
      <4> QED BY <4>1, <4>2
    <3> QED BY <3>1 DEF Admins, Replace
  <2> QED BY <2>2, <2>3
<1> QED BY <1>1, <1>2, <1>3 DEF Governed

LEMMA RemovalKeepsGoverned ==
  ASSUME NEW list, Governed(list), NEW u \in list, ~(Admins(list) = {u})
  PROVE  Peopled(list \ {u})
<1>1. PICK a \in list : a.role = "admin"
  BY DEF Governed, Admins
<1>2. \E b \in list \ {u} : b.role = "admin"
  BY <1>1 DEF Admins
<1> QED BY <1>2 DEF Peopled, Governed, Admins

LEMMA AdditionKeepsGoverned ==
  ASSUME NEW list, Governed(list), NEW v,
         \A u \in list : u.name # v.name, v.all = FALSE,
         list = {} => v.role = "admin"
  PROVE  Peopled(list \union {v})
BY DEF Peopled, Governed, Admins

\* Beginning to hash, and writing at once, keep the invariant.
LEMMA HashKeepsGoverned ==
  ASSUME AccountsInv, NEW r \in AccountRequest, NEW list \in SUBSET User,
         NEW token \in SUBSET Token, Peopled(list), Hash(r, list, token), nextId' \in Nat
  PROVE  AccountsInv'
<1>1. users' = users /\ tokens' = tokens
  BY DEF Hash
<1>2. saving' = [saving EXCEPT ![r] = [on |-> TRUE, list |-> list, token |-> token]]
  BY DEF Hash
<1>3. saving' \in [AccountRequest -> [on : BOOLEAN, list : SUBSET User, token : SUBSET Token]]
  BY <1>2 DEF AccountsInv, CopiesGoverned
<1>4. \A q \in AccountRequest : saving'[q].on => Peopled(saving'[q].list)
  BY <1>2 DEF AccountsInv, CopiesGoverned
<1>5. CopiesGoverned'
  BY <1>3, <1>4 DEF CopiesGoverned, Peopled, Governed, Admins
<1> QED BY <1>1, <1>5 DEF AccountsInv, Governed, Admins

LEMMA WriteKeepsGoverned ==
  ASSUME AccountsInv, NEW list \in SUBSET User, Peopled(list), Write(list)
  PROVE  AccountsInv'
<1>1. users' = list /\ saving' = saving /\ nextId' = nextId
  BY DEF Write
<1>2. CopiesGoverned'
  BY <1>1 DEF AccountsInv, CopiesGoverned, Peopled, Governed, Admins
<1>3. Governed(users)'
  BY <1>1 DEF Peopled, Governed, Admins
<1> QED BY <1>1, <1>2, <1>3 DEF AccountsInv, Peopled

LEMMA AccountsStart == AccountsInit => AccountsInv
BY DEF AccountsInit, AccountsInv, CopiesGoverned, Governed, Admins, Quiet

LEMMA AccountsStep == AccountsInv /\ [AccountsNext]_accountVars => AccountsInv'
<1> SUFFICES ASSUME AccountsInv, [AccountsNext]_accountVars
             PROVE  AccountsInv'
  OBVIOUS
<1>0. users \subseteq User /\ Governed(users) /\ nextId \in Nat
  BY DEF AccountsInv
<1>a. \A n \in Name, role \in Role, b \in BOOLEAN :
        /\ NewUser(n, role, b) \in User
        /\ NewUser(n, role, b).name = n /\ NewUser(n, role, b).role = role
        /\ NewUser(n, role, b).all = FALSE
  BY <1>0 DEF NewUser, User
<1>b. ASSUME AnAdminAsks
      PROVE  users # {}
  BY <1>b DEF AnAdminAsks, AccountsInv
\* Accounts that take the place of one on the list.
<1>c. ASSUME NEW u \in users, NEW v \in User, v.name = u.name, v.all => v.role = "manager",
             u.role = "admin" => v.role = "admin" \/ ~(Admins(users) = {u}),
             Write(Replace(users, u, v))
      PROVE  AccountsInv'
  <2>1. Peopled(Replace(users, u, v))
    BY <1>0, <1>c, ReplaceKeepsGoverned DEF Peopled, Replace
  <2>2. Replace(users, u, v) \in SUBSET User
    BY <1>0 DEF Replace
  <2> QED BY <1>c, <2>1, <2>2, WriteKeepsGoverned
<1>d. \A u \in users : u \in User /\ (u.all => u.role = "manager")
  BY <1>0 DEF Governed
<1>1. ASSUME NEW r \in AccountRequest, NEW n \in Name, Register(r, n)
      PROVE  AccountsInv'
  <2> DEFINE u == Registered(n)
             token == IF u.active THEN {TokenOf(u)} ELSE {}
  <2>1. u \in User /\ u.name = n /\ u.all = FALSE /\ (users = {} => u.role = "admin")
    BY <1>a, AccountsAssumption DEF Registered, Role
  <2>2. Peopled(users \union {u})
    BY <1>0, <1>1, <2>1, AdditionKeepsGoverned DEF Register
  <2>3. token \in SUBSET Token
    BY <2>1 DEF TokenOf, Token, User
  <2>4. Hash(r, users \union {u}, token) /\ nextId' \in Nat
    BY <1>0, <1>1 DEF Register
  <2> HIDE DEF u, token
  <2> QED BY <1>0, <2>1, <2>2, <2>3, <2>4, HashKeepsGoverned
<1>2. ASSUME NEW r \in AccountRequest, NEW n \in Name, NEW role \in Role, CreateUser(r, n, role)
      PROVE  AccountsInv'
  <2> DEFINE u == NewUser(n, role, TRUE)
  <2>1. u \in User /\ u.name = n /\ u.all = FALSE
    BY <1>a
  <2>2. Hash(r, users \union {u}, {}) /\ nextId' \in Nat
    BY <1>0, <1>2 DEF CreateUser
  <2> HIDE DEF u
  <2>3. Peopled(users \union {u})
    BY <1>0, <1>2, <1>b, <2>1, AdditionKeepsGoverned DEF CreateUser
  <2> QED BY <1>0, <2>1, <2>2, <2>3, HashKeepsGoverned
<1>3. ASSUME NEW r \in AccountRequest, NEW u \in users, ChangePassword(r, u)
      PROVE  AccountsInv'
  <2>1. Peopled(users) /\ nextId' \in Nat
    BY <1>0, <1>3 DEF Peopled, ChangePassword
  <2> QED BY <1>0, <1>3, <2>1, HashKeepsGoverned DEF ChangePassword
<1>4. ASSUME NEW r \in AccountRequest, Save(r)
      PROVE  AccountsInv'
  <2>1. /\ users' = saving[r].list /\ nextId' = nextId
        /\ saving' = [saving EXCEPT ![r] = Quiet]
        /\ Peopled(saving[r].list) /\ saving[r].list \subseteq User
    BY <1>4 DEF Save, AccountsInv, CopiesGoverned
  <2>2. CopiesGoverned'
    <3>1. Quiet \in [on : BOOLEAN, list : SUBSET User, token : SUBSET Token] /\ ~Quiet.on
      BY DEF Quiet
    <3>2. \A q \in AccountRequest : saving'[q].on => Peopled(saving'[q].list)
      BY <2>1, <3>1 DEF AccountsInv, CopiesGoverned
    <3> QED BY <2>1, <3>1, <3>2 DEF AccountsInv, CopiesGoverned, Peopled, Governed, Admins
  <2>3. Governed(users)'
    BY <2>1 DEF Peopled, Governed, Admins
  <2> QED BY <1>0, <2>1, <2>2, <2>3 DEF AccountsInv, Peopled
<1>5. ASSUME NEW u \in users, SignIn(u)
      PROVE  AccountsInv'
  BY <1>5 DEF SignIn, AccountsInv, CopiesGoverned, Peopled, Governed, Admins
<1>6. ASSUME NEW u \in users, Approve(u)
      PROVE  AccountsInv'
  <2> DEFINE v == [u EXCEPT !.active = TRUE]
  <2>1. v \in User /\ v.name = u.name /\ v.all = u.all /\ v.role = u.role
    BY <1>d DEF User
  <2>2. Write(Replace(users, u, v))
    BY <1>6 DEF Approve
  <2> HIDE DEF v
  <2> QED BY <1>c, <1>d, <2>1, <2>2
<1>7. ASSUME NEW u \in users, NEW all \in BOOLEAN, AssignSessions(u, all)
      PROVE  AccountsInv'
  <2> DEFINE v == [u EXCEPT !.all = u.role = "manager" /\ all]
  <2>1. /\ v \in User /\ v.name = u.name /\ v.role = u.role
        /\ v.all => v.role = "manager"
    BY <1>d DEF User
  <2>2. Write(Replace(users, u, v))
    BY <1>7 DEF AssignSessions
  <2> HIDE DEF v
  <2> QED BY <1>c, <2>1, <2>2
<1>8. ASSUME NEW u \in users, NEW role \in Role, ChangeRole(u, role)
      PROVE  AccountsInv'
  <2> DEFINE v == WithRole(u, role)
  <2>1. /\ v \in User /\ v.name = u.name /\ v.role = role
        /\ v.all => v.role = "manager"
    BY <1>d DEF User, WithRole
  <2>2. Write(Replace(users, u, v)) /\ (role # "admin" => ~(Admins(users) = {u}))
    BY <1>8 DEF ChangeRole, IsLastAdmin
  <2> HIDE DEF v
  <2> QED BY <1>c, <2>1, <2>2
<1>9. ASSUME NEW u \in users, DeleteUser(u)
      PROVE  AccountsInv'
  <2>1. Write(users \ {u}) /\ ~(Admins(users) = {u})
    BY <1>9 DEF DeleteUser, IsLastAdmin
  <2>2. Peopled(users \ {u})
    BY <1>0, <2>1, RemovalKeepsGoverned
  <2> QED BY <1>0, <2>1, <2>2, WriteKeepsGoverned
<1>10. CASE UNCHANGED accountVars
  BY <1>10 DEF accountVars, AccountsInv, CopiesGoverned, Peopled, Governed, Admins
<1> QED BY <1>1, <1>2, <1>3, <1>4, <1>5, <1>6, <1>7, <1>8, <1>9, <1>10 DEF AccountsNext

\* However registrations, password changes and administrators overlap, and for any
\* number of them: the list on disk has an administrator once it has anybody, each
\* name once, and no grant of every session without the manager role.
THEOREM Governance == AccountsSpec => []AccountsStayGoverned
<1>1. AccountsInv => AccountsStayGoverned
  BY DEF AccountsInv, AccountsStayGoverned
<1> QED BY <1>1, AccountsStart, AccountsStep, PTL DEF AccountsSpec

\* Tokens name an account by its number and carry a role.
LEMMA TokensStay ==
  ASSUME AccountsInv, tokens \subseteq Token, [AccountsNext]_accountVars
  PROVE  tokens' \subseteq Token
<1>1. \A u \in User : TokenOf(u) \in Token BY DEF User, Token, TokenOf
<1>2. ASSUME NEW r \in AccountRequest, Save(r) PROVE tokens' \subseteq Token
  <2>1. saving[r].token \in SUBSET Token BY DEF AccountsInv, CopiesGoverned
  <2> QED BY <1>2, <2>1 DEF Save
<1>3. ASSUME NEW u \in users, SignIn(u) PROVE tokens' \subseteq Token
  <2>1. TokenOf(u) \in Token BY <1>1 DEF AccountsInv
  <2> QED BY <1>3, <2>1 DEF SignIn
<1>4. CASE UNCHANGED tokens BY <1>4
<1>5. (\E r \in AccountRequest : Save(r)) \/ (\E u \in users : SignIn(u)) \/ UNCHANGED tokens
  BY DEF AccountsNext, Register, CreateUser, ChangePassword, Hash, Write, Approve, AssignSessions,
         ChangeRole, DeleteUser, accountVars
<1> QED BY <1>2, <1>3, <1>4, <1>5

\* The list, the copies in requests and the tokens hold accounts and claims about them.
THEOREM AccountsTyped == AccountsSpec => []AccountsTypeOK
<1>1. AccountsInit => tokens \subseteq Token BY DEF AccountsInit
<1>2. AccountsInv /\ tokens \subseteq Token => AccountsTypeOK
  BY DEF AccountsInv, CopiesGoverned, AccountsTypeOK
<1>3. AccountsInv /\ tokens \subseteq Token /\ [AccountsNext]_accountVars
        => (AccountsInv /\ tokens \subseteq Token)'
  BY TokensStay, AccountsStep
<1> QED BY <1>1, <1>2, <1>3, AccountsStart, PTL DEF AccountsSpec

-----------------------------------------------------------------------------
(* The server: the modules side by side.                                    *)

\* A step of the server is one of each module, or leaves it alone.
LEMMA EachModuleSteps ==
  ASSUME [ServerNext]_serverVars
  PROVE  /\ [BackendNext]_authVars /\ [SlotsNext]_slotVars /\ [BucketNext]_bucketVars
         /\ [SettingsNext]_settingsVars /\ [StoreNext]_storeVars /\ [AccountsNext]_accountVars
         /\ [LoginNext]_loginVars /\ [KeysNext]_keyVars
<1>1. CASE ServerNext BY <1>1, Zenon DEF ServerNext
<1>2. CASE UNCHANGED serverVars BY <1>2 DEF serverVars
<1> QED BY <1>1, <1>2

LEMMA EachModuleStarts ==
  ASSUME ServerInit
  PROVE  /\ BackendInit /\ SlotsInit /\ BucketInit /\ SettingsInit /\ StoreInit /\ AccountsInit
         /\ LoginInit /\ KeysInit
BY DEF ServerInit

\* So a behaviour of the server is a behaviour of each of its modules.
LEMMA ServerRunsModules ==
  ServerSpec => /\ BackendSpec /\ SlotsSpec /\ BucketSpec /\ SettingsSpec /\ StoreSpec
                /\ AccountsSpec /\ LoginSpec /\ KeysSpec
BY EachModuleSteps, EachModuleStarts, PTL
   DEF ServerSpec, BackendSpec, SlotsSpec, BucketSpec, SettingsSpec, StoreSpec, AccountsSpec,
       LoginSpec, KeysSpec

\* What the three limiters promise, of slots, of tokens with those who go on without one
\* counted apart, and of guesses and announced waits, holds of the server.
THEOREM ServerLimits == ServerSpec => []LimitsAreKept
<1>1. SendsAreAccounted /\ RateIsKept /\ LoginIsThrottled => LimitsAreKept BY DEF LimitsAreKept
<1> QED BY <1>1, ServerRunsModules, SendsAccounted, RateKept, LoginThrottled, PTL

\* Keys work until they are revoked; a clean revocation is final.
THEOREM ServerKeys == ServerSpec => []KeysAreKept
BY ServerRunsModules, KeysKept, PTL

\* One room per contact, a mark that tells what is to be saved, and a final file, with
\* the mishaps that FileIsCurrent and FileIsFinal name excepted.
THEOREM ServerStore == ServerSpec => []StoreIsSound
BY ServerRunsModules, StoreSound, PTL

\* The user list keeps an administrator.
THEOREM ServerAccounts == ServerSpec => []AccountsStayGoverned
BY ServerRunsModules, Governance, PTL

\* The backend moves only by confirmation, and answered settings stay.
THEOREM ServerStorage == ServerSpec => StorageIsKept
BY ServerRunsModules, BackendKept, SettingsKept, PTL DEF StorageIsKept

\* Every variable keeps its type.
THEOREM ServerTypes == ServerSpec => []ServerTypesOK
<1>1. BackendSpec => []BackendTypeOK
  <2>1. BackendInv => BackendTypeOK BY DEF BackendInv
  <2> QED BY <2>1, BackendStart, BackendStep, PTL DEF BackendSpec
<1>2. SettingsSpec => []SettingsTypeOK
  <2>1. SettingsInv => SettingsTypeOK BY DEF SettingsInv
  <2> QED BY <2>1, SettingsStart, SettingsStep, PTL DEF SettingsSpec
<1>3. BackendTypeOK /\ SlotsTypeOK /\ BucketTypeOK /\ SettingsTypeOK /\ StoreTypeOK
        /\ AccountsTypeOK /\ LoginTypeOK /\ KeysTypeOK => ServerTypesOK
  BY DEF ServerTypesOK
<1> QED BY <1>1, <1>2, <1>3, ServerRunsModules, SendsAccounted, RateKept, LoginThrottled, KeysKept,
           StoreSound, AccountsTyped, PTL

=============================================================================
