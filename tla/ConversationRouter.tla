--------------------------- MODULE ConversationRouter ---------------------------
(***************************************************************************)
(* Per-conversation batching, human pause and mute for the AI agent:       *)
(* src/services/conversationRouter.ts.                                     *)
(*                                                                         *)
(* The process is one JavaScript event loop: what happens between two      *)
(* awaits is one action here.  A flush is asynchronous, so it is split at  *)
(* its awaits (generateReply, deliver, onFailure) and every other          *)
(* operation of the router may run between them.                           *)
(*                                                                         *)
(* A ConversationState is an object with an identity: a flush and a timer  *)
(* callback keep the object they started from even when the map has        *)
(* dropped it or holds another one, so the map `conversations' and the     *)
(* heap `state' are separate variables.  A list of texts is the set of its *)
(* message ids, which grow in arrival order.  Image messages, kept beside  *)
(* the texts under the same rules, and log lines are left out.             *)
(***************************************************************************)
EXTENDS Integers, FiniteSets

CONSTANTS
  Conv,          \* conversation ids (chat JIDs)
  Obj,           \* identities of ConversationState objects
  None,          \* "no object", "no conversation"
  BatchIdle,     \* routing.batchIdleMs
  BatchMaxWait,  \* routing.batchMaxWaitMs
  MaxBatch,      \* routing.maxBatchMessages
  PauseFor,      \* durations a caller of pause() asks for
  MuteFor,       \* durations a caller of mute() asks for
  MaxMsgs,       \* bound: texts enqueued in one behaviour
  MaxEpoch,      \* bound: pauses and mutes of one object
  MaxDisposals,  \* bound: calls of dispose()
  Horizon,       \* bound: no call of the router comes after this time
  MaxTime        \* bound: the clock stops here

ASSUME RouterAssumption ==
  /\ None \notin Conv /\ None \notin Obj
  /\ BatchIdle \in Nat /\ BatchMaxWait \in Nat
  /\ MaxBatch \in Nat \ {0}
  /\ PauseFor \subseteq Nat /\ MuteFor \subseteq Nat
  /\ MaxMsgs \in Nat /\ MaxEpoch \in Nat
  /\ MaxDisposals \in Nat /\ Horizon \in Nat /\ MaxTime \in Nat

VARIABLES
  now,           \* Date.now(); 0 is "unset" in the code, so it starts at 1
  eligible,      \* what isAiEligible() answers now
  conversations, \* the Map: conversation id -> its state object
  state,         \* the fields of every state object
  msgs,          \* history: origin, arrival time and fate of every text
  arrived,       \* history: how many texts were enqueued
  pauseGranted,  \* history: latest pause deadline promised per conversation
  muteGranted,   \* history: latest mute deadline asked for while no reply was under way
  disposals      \* history: how often dispose() ran

vars == <<now, eligible, conversations, state, msgs, arrived,
          pauseGranted, muteGranted, disposals>>
history == <<pauseGranted, muteGranted, disposals>>

Msg == 1..MaxMsgs
Stage == {"idle", "generating", "delivering", "failing"}
Fate == {"future", "queued", "prompted", "answered",
         "ignored", "trimmed", "discarded", "ineligible"}

\* timerAt = 0: no armed timer.  stage # "idle": the flushing flag, with the
\* await the flush is suspended at; prompt holds the texts it is answering.
ConversationState ==
  [id : Conv \cup {None}, texts : SUBSET Msg, firstAt : Nat,
   pausedUntil : Nat, mutedUntil : Nat, epoch : Nat,
   timerAt : Nat, timerEpoch : Nat, stage : Stage, prompt : SUBSET Msg]

NewState ==
  [id |-> None, texts |-> {}, firstAt |-> 0, pausedUntil |-> 0,
   mutedUntil |-> 0, epoch |-> 0, timerAt |-> 0, timerEpoch |-> 0,
   stage |-> "idle", prompt |-> {}]

TypeOK ==
  /\ now \in Nat \ {0} /\ eligible \in BOOLEAN
  /\ conversations \in [Conv -> Obj \cup {None}]
  /\ state \in [Obj -> ConversationState]
  /\ msgs \in [Msg -> [from : Conv \cup {None}, at : Nat, fate : Fate]]
  /\ arrived \in 0..MaxMsgs
  /\ pauseGranted \in [Conv -> Nat] /\ muteGranted \in [Conv -> Nat]
  /\ disposals \in 0..MaxDisposals

Init ==
  /\ now = 1 /\ eligible = TRUE
  /\ conversations = [c \in Conv |-> None]
  /\ state = [o \in Obj |-> NewState]
  /\ msgs = [m \in Msg |-> [from |-> None, at |-> 0, fate |-> "future"]]
  /\ arrived = 0 /\ disposals = 0
  /\ pauseGranted = [c \in Conv |-> 0] /\ muteGranted = [c \in Conv |-> 0]

-----------------------------------------------------------------------------
(* Helpers.                                                                *)

Lesser(a, b) == IF a <= b THEN a ELSE b
Greater(a, b) == IF a >= b THEN a ELSE b

\* texts.slice(-n): the n most recent members of S.
\* (Variant: slice(0, n), the oldest.)
Oldest(S, n) == {m \in S : Cardinality({x \in S : x <= m}) <= n}
Newest(S, n) == {m \in S : Cardinality({x \in S : x >= m}) <= n}

\* The fate of every text in S becomes f.
Mark(h, S, f) == [m \in Msg |-> IF m \in S THEN [h[m] EXCEPT !.fate = f] ELSE h[m]]

\* An object nothing refers to: not in the map, no timer, no flush in flight.
Unused(o) == /\ \A c \in Conv : conversations[c] # o
             /\ state[o].timerAt = 0 /\ state[o].stage = "idle"

\* ensure(): the object `o' is the conversation's own, or a new one for it,
\* and `s' its fields.
Ensure(c, o, s) ==
  \/ conversations[c] = o /\ s = state[o]
  \/ conversations[c] = None /\ Unused(o) /\ s = [NewState EXCEPT !.id = c]

\* arm(): replaces the object's timer; it carries the epoch it was armed in.
Armed(s, at) == [s EXCEPT !.timerAt = Greater(at, now), !.timerEpoch = s.epoch]
Disarmed(s) == [s EXCEPT !.timerAt = 0, !.timerEpoch = 0]

\* The texts leave the queue of s.
Emptied(s) == [s EXCEPT !.texts = {}, !.firstAt = 0]

\* When a batch is forwarded: idle for batchIdleMs, never beyond batchMaxWaitMs
\* from the first text.  (Variant: the idle gap is not restarted.)
UnresetDeadline(s) == Lesser(s.firstAt + BatchIdle, s.firstAt + BatchMaxWait)
BatchDeadline(s) == Lesser(now + BatchIdle, s.firstAt + BatchMaxWait)

\* flush() up to its first await, on the listed object o with the fields s.  The
\* rest of the heap and the history are as this step has left them so far.  An
\* object with nothing queued and nothing in flight is deleted (TimerFlush).
Flush(o, s, heap, h) ==
  \/ /\ s.stage # "idle"
     /\ state' = [heap EXCEPT ![o] = s] /\ msgs' = h
  \/ /\ s.stage = "idle" /\ s.texts # {} /\ s.pausedUntil > now
     /\ state' = [heap EXCEPT ![o] = Armed(s, s.pausedUntil)] /\ msgs' = h
  \/ /\ s.stage = "idle" /\ s.texts # {} /\ s.pausedUntil <= now /\ ~eligible
     /\ state' = [heap EXCEPT ![o] = Emptied(Disarmed(s))]
     /\ msgs' = Mark(h, s.texts, "ineligible")
  \/ /\ s.stage = "idle" /\ s.texts # {} /\ s.pausedUntil <= now /\ eligible
     /\ state' = [heap EXCEPT ![o] = [Emptied(Disarmed(s)) EXCEPT !.stage = "generating",
                                                                !.prompt = s.texts]]
     /\ msgs' = Mark(h, s.texts, "prompted")

\* enqueue() of the texts `new' on the object o with the fields s.
EnqueueOn(o, s, new, h) ==
  \/ /\ s.mutedUntil > now
     /\ state' = [state EXCEPT ![o] = s] /\ msgs' = Mark(h, new, "ignored")
  \/ /\ s.mutedUntil <= now
     /\ LET kept == Newest(s.texts \cup new, MaxBatch)
            q == [s EXCEPT !.texts = kept, !.firstAt = IF @ = 0 THEN now ELSE @]
            hq == Mark(Mark(h, new, "queued"), (s.texts \cup new) \ kept, "trimmed")
            timed == Armed(q, BatchDeadline(q))
        IN \/ /\ q.pausedUntil > now
              /\ state' = [state EXCEPT ![o] = Armed(q, q.pausedUntil)] /\ msgs' = hq
           \/ /\ q.pausedUntil <= now /\ Cardinality(kept) < MaxBatch
              /\ state' = [state EXCEPT ![o] = timed] /\ msgs' = hq
           \/ /\ q.pausedUntil <= now /\ Cardinality(kept) >= MaxBatch
              /\ Flush(o, timed, state, hq)

\* pause() of the object with the fields s.  (Variant: the epoch goes back.)
PausedBackwards(s, until) == [s EXCEPT !.pausedUntil = until, !.epoch = @ - 1]
Paused(s, until) ==
  LET p == [s EXCEPT !.pausedUntil = until, !.epoch = @ + 1]
  IN IF s.texts # {} THEN Armed(p, until) ELSE p

\* mute() of the object with the fields s.
Muted(s, until) ==
  [Emptied(Disarmed(s)) EXCEPT !.mutedUntil = Greater(@, until), !.epoch = @ + 1]

\* What dispose() leaves of an object.  (Variant: its texts survive.)
DroppedTimer(s) == Disarmed(s)
Dropped(s) == [Disarmed(s) EXCEPT !.texts = {}]

-----------------------------------------------------------------------------
(* Calls of the router.                                                    *)

\* A caller enqueues k texts of the conversation c.
Enqueue(c, k) ==
  /\ now <= Horizon /\ arrived + k <= MaxMsgs
  /\ \E o \in Obj : \E s \in {state[o], [NewState EXCEPT !.id = c]} :
       LET new == (arrived + 1)..(arrived + k)
           seen == [m \in Msg |-> IF m \notin new THEN msgs[m]
                                  ELSE [from |-> c, at |-> now, fate |-> "future"]]
       IN /\ Ensure(c, o, s)
          /\ conversations' = [conversations EXCEPT ![c] = o]
          /\ EnqueueOn(o, s, new, seen)
  /\ arrived' = arrived + k
  /\ UNCHANGED <<now, eligible, history>>

\* A caller makes c human-owned until a deadline; an older deadline is ignored.
Pause(c, d) ==
  /\ now <= Horizon
  /\ \E o \in Obj : \E s \in {state[o], [NewState EXCEPT !.id = c]} :
       /\ Ensure(c, o, s) /\ now + d > s.pausedUntil /\ s.epoch < MaxEpoch
       /\ conversations' = [conversations EXCEPT ![c] = o]
       /\ state' = [state EXCEPT ![o] = Paused(s, now + d)]
  /\ pauseGranted' = [pauseGranted EXCEPT ![c] = Greater(@, now + d)]
  /\ UNCHANGED <<now, eligible, msgs, arrived, muteGranted, disposals>>

\* A caller mutes c; what was queued is thrown away.  A mute asked for while a reply is
\* under way is no promise: it ends with that reply (Finally).
Mute(c, d) ==
  /\ now <= Horizon
  /\ \E o \in Obj : \E s \in {state[o], [NewState EXCEPT !.id = c]} :
       /\ Ensure(c, o, s) /\ s.epoch < MaxEpoch
       /\ conversations' = [conversations EXCEPT ![c] = o]
       /\ state' = [state EXCEPT ![o] = Muted(s, now + d)]
       /\ msgs' = Mark(msgs, s.texts, "discarded")
       /\ muteGranted' = [muteGranted EXCEPT ![c] =
                           IF s.stage = "idle" THEN Greater(@, now + d) ELSE @]
  /\ UNCHANGED <<now, eligible, arrived, pauseGranted, disposals>>

\* dispose(): every object of the map loses its timer and texts, the map is
\* cleared; flushes in flight keep running on the objects they hold.
Dispose ==
  /\ now <= Horizon /\ disposals < MaxDisposals
  /\ LET listed == {o \in Obj : \E c \in Conv : conversations[c] = o}
     IN /\ conversations' = [c \in Conv |-> None]
        /\ state' = [o \in Obj |->
             IF o \notin listed THEN state[o]
             ELSE IF state[o].stage = "idle" THEN NewState
             ELSE Dropped(state[o])]
        /\ msgs' = Mark(msgs, UNION {state[o].texts : o \in listed}, "discarded")
  /\ pauseGranted' = [c \in Conv |-> 0] /\ muteGranted' = [c \in Conv |-> 0]
  /\ disposals' = disposals + 1
  /\ UNCHANGED <<now, eligible, arrived>>

-----------------------------------------------------------------------------
(* Timer callbacks.  The callback holds the object o it was armed on; it   *)
(* may run at any time from its deadline on.                               *)

Due(o) == state[o].timerAt > 0 /\ now >= state[o].timerAt

\* The heap once the callback of o has started: its timer is spent.
Spent(o) == [state EXCEPT ![o] = Disarmed(@)]

\* The epoch has moved on: nothing happens.
TimerStale(o) ==
  /\ Due(o) /\ state[o].timerEpoch # state[o].epoch
  /\ state' = Spent(o)
  /\ UNCHANGED <<now, eligible, conversations, msgs, arrived, history>>

\* The instant the callback waits for instead of flushing; 0: flush now.
\* (Variant: the idle gap is counted from now, again and again.)
RearmAtFromNow(o) ==
  IF state[o].pausedUntil > now THEN state[o].pausedUntil
  ELSE IF state[o].firstAt > 0 THEN now + BatchIdle ELSE 0
RearmAt(o) ==
  IF state[o].pausedUntil > now THEN state[o].pausedUntil
  ELSE IF state[o].firstAt > 0 /\ now < state[o].firstAt + BatchIdle
  THEN state[o].firstAt + BatchIdle ELSE 0

\* Still paused, or the idle gap is not over: arm the timer of the object that
\* the map holds now.
TimerRearm(o) ==
  /\ Due(o) /\ state[o].timerEpoch = state[o].epoch /\ RearmAt(o) > 0
  /\ LET c == state[o].id
     IN \E p \in Obj : \E s \in {state[p], [NewState EXCEPT !.id = c]} :
          /\ Ensure(c, p, s)
          /\ conversations' = [conversations EXCEPT ![c] = p]
          /\ state' = [Spent(o) EXCEPT ![p] = Armed(s, RearmAt(o))]
  /\ UNCHANGED <<now, eligible, msgs, arrived, history>>

\* flush() of the object that the map holds now.
TimerFlush(o) ==
  /\ Due(o) /\ state[o].timerEpoch = state[o].epoch /\ RearmAt(o) = 0
  /\ LET c == state[o].id
         p == conversations[c]
     IN \/ p = None /\ state' = Spent(o) /\ UNCHANGED <<conversations, msgs>>
        \/ /\ p # None
           /\ Flush(p, Spent(o)[p], Spent(o), msgs) /\ UNCHANGED conversations
        \/ /\ p # None /\ state[p].stage = "idle" /\ state[p].texts = {}
           /\ conversations' = [conversations EXCEPT ![c] = None]
           /\ state' = [Spent(o) EXCEPT ![p] = NewState]
           /\ UNCHANGED msgs
  /\ UNCHANGED <<now, eligible, arrived, history>>

-----------------------------------------------------------------------------
(* The rest of a flush, from await to await.                               *)

\* The finally block drops an idle, unpaused conversation from the map, by its
\* id.  (Variant: without regard to new texts.)
MayDropBacklog(o) == state[o].pausedUntil <= now
MayDrop(o) == state[o].texts = {} /\ state[o].pausedUntil <= now

\* The flushing flag is reset.
Landed(s) == [s EXCEPT !.stage = "idle", !.prompt = {}]

Finally(o) ==
  LET c == state[o].id
  IN \/ /\ MayDrop(o)
        /\ conversations' = [conversations EXCEPT ![c] = None]
        /\ state' = [state EXCEPT ![o] = IF @.timerAt = 0 THEN NewState ELSE Landed(@)]
     \/ ~MayDrop(o) /\ UNCHANGED conversations /\ state' = [state EXCEPT ![o] = Landed(@)]

\* generateReply() answered with a text (deliver it), or failed (onFailure).
GenerateDone(o) ==
  /\ state[o].stage = "generating"
  /\ \E next \in {"delivering", "failing"} : state' = [state EXCEPT ![o].stage = next]
  /\ UNCHANGED <<now, eligible, conversations, msgs, arrived, history>>

\* generateReply() threw or returned no text.
GenerateNothing(o) ==
  /\ state[o].stage = "generating" /\ Finally(o)
  /\ UNCHANGED <<now, eligible, msgs, arrived, history>>

\* deliver() resolved: the reply is in the chat.
Delivered(o) ==
  /\ state[o].stage = "delivering" /\ Finally(o)
  /\ msgs' = Mark(msgs, state[o].prompt, "answered")
  /\ UNCHANGED <<now, eligible, arrived, history>>

\* deliver() threw, or onFailure() settled.
FlushFailed(o) ==
  /\ state[o].stage \in {"delivering", "failing"} /\ Finally(o)
  /\ UNCHANGED <<now, eligible, msgs, arrived, history>>

-----------------------------------------------------------------------------

\* The AI window opens or closes, or the AI is configured on or off.
SetEligible ==
  /\ now <= Horizon /\ eligible' = ~eligible
  /\ UNCHANGED <<now, conversations, state, msgs, arrived, history>>

Tick ==
  /\ now < MaxTime /\ now' = now + 1
  /\ UNCHANGED <<eligible, conversations, state, msgs, arrived, history>>

TimerCallback(o) == TimerStale(o) \/ TimerRearm(o) \/ TimerFlush(o)
FlushStep(o) ==
  GenerateDone(o) \/ GenerateNothing(o) \/ Delivered(o) \/ FlushFailed(o)

Next ==
  \/ \E c \in Conv : \/ \E k \in 1..MaxMsgs : Enqueue(c, k)
                     \/ \E d \in PauseFor : Pause(c, d)
                     \/ \E d \in MuteFor : Mute(c, d)
  \/ \E o \in Obj : TimerCallback(o) \/ FlushStep(o)
  \/ Dispose
  \/ SetEligible
  \/ Tick

Spec == Init /\ [][Next]_vars

\* The event loop runs every due timer, time passes, and every awaited call
\* settles: provider and send calls have timeouts.
Fairness ==
  /\ WF_vars(Tick)
  /\ \A o \in Obj : WF_vars(TimerCallback(o)) /\ WF_vars(FlushStep(o))

FairSpec == Spec /\ Fairness

-----------------------------------------------------------------------------
(* Safety.                                                                 *)

Queued(m) == msgs[m].fate = "queued"

\* Every text that is queued or being answered is in one object only, and a
\* text of a queue was never prompted or thrown away: however enqueue, flush,
\* mute, dispose and the finally block interleave, no text is prompted twice.
OnePlacePerText ==
  /\ \A o \in Obj : \A m \in state[o].texts : msgs[m].fate = "queued"
  /\ \A o \in Obj : \A m \in state[o].prompt : msgs[m].fate = "prompted"
  /\ \A o, p \in Obj : o # p => /\ state[o].texts \cap state[p].texts = {}
                                /\ state[o].prompt \cap state[p].prompt = {}

\* Until the session shuts down a queued text stays in the queue of the object
\* the map holds for its conversation: the deletions of flush() (empty queue,
\* finally block) never drop texts that arrived while a reply was generated.
BacklogIsListed ==
  disposals = 0 => \A m \in Msg : Queued(m) =>
    \E o \in Obj : conversations[msgs[m].from] = o /\ m \in state[o].texts

\* "Exactly one timer is armed; a stale timer can never fire": until the session
\* shuts down an armed timer belongs to a listed object with texts and was
\* armed in its present epoch, whatever pauses, mutes and flushes came between.
TimerIsCurrent ==
  disposals = 0 => \A o \in Obj : state[o].timerAt > 0 =>
    /\ conversations[state[o].id] = o
    /\ state[o].texts # {}
    /\ state[o].timerEpoch = state[o].epoch

\* As long as the object of a conversation is muted it queues nothing and waits for
\* nothing, so no backlog is answered when the mute expires.
MutedQueuesNothing ==
  disposals = 0 => \A o \in Obj : state[o].mutedUntil > now =>
    state[o].texts = {} /\ state[o].timerAt = 0

\* A promised pause is remembered until it expires: flushes in flight, timer
\* callbacks and the deletion of idle conversations never lose or shorten it.
PauseIsRemembered ==
  disposals = 0 => \A c \in Conv : pauseGranted[c] > now =>
    \E o \in Obj : conversations[c] = o /\ state[o].pausedUntil = pauseGranted[c]

\* Until the session shuts down texts wait for a prompt at most until
\* batchMaxWaitMs after the first of them arrived (batchIdleMs where that is
\* configured longer, because the callback waits for it), or until the pause
\* ends: no timer is still to come beyond that.
NoWaitBeyondCap ==
  disposals = 0 => \A o \in Obj :
    state[o].timerAt > now /\ state[o].firstAt > 0 =>
      \/ state[o].timerAt <= state[o].firstAt + Greater(BatchIdle, BatchMaxWait)
      \/ state[o].timerAt <= state[o].pausedUntil

\* A mute asked for while no reply is under way is remembered until it expires.  One that
\* comes during a generation is not: the finally block deletes the object and the mute
\* with it as soon as that reply has ended, unless the conversation is paused too.
MuteIsRemembered ==
  disposals = 0 => \A c \in Conv : muteGranted[c] > now =>
    \E o \in Obj : conversations[c] = o /\ state[o].mutedUntil >= muteGranted[c]

\* Until the session shuts down a backlog waits where the next flush looks, with a live
\* timer and not for too long; every pause, and every mute that did not come during a
\* generation, silences its conversation to the end, whatever calls go on meanwhile.
BacklogIsServed ==
  /\ BacklogIsListed /\ TimerIsCurrent /\ NoWaitBeyondCap
  /\ MutedQueuesNothing /\ PauseIsRemembered /\ MuteIsRemembered

-----------------------------------------------------------------------------
(* Action properties.                                                      *)

\* A flush starts on o in this step.
Starts(o) == state[o].stage = "idle" /\ state'[o].stage = "generating"

\* What a step may do to a text: queued texts are prompted or dropped, prompted
\* ones answered, and a text that was answered, ignored, trimmed, discarded or
\* dropped is never touched again, so nothing stale is answered later.
TextsMoveForward ==
  [][\A m \in Msg : LET f == msgs[m].fate
                        g == msgs'[m].fate
                    IN \/ g = f
                       \/ f = "future"
                       \/ f = "queued" /\ g \in {"prompted", "trimmed", "discarded", "ineligible"}
                       \/ f = "prompted" /\ g = "answered"]_vars

\* Until the session shuts down a timer never starts a prompt before the chat was
\* idle for batchIdleMs after the newest text, unless the cap from the first text
\* has passed, or the text arrived before the end of a pause.
PromptWaitsForIdle ==
  [][\A o \in Obj : \A m \in Msg :
       /\ Starts(o) /\ m \in state'[o].prompt
       /\ arrived' = arrived /\ disposals = 0
       => \/ now >= msgs[m].at + BatchIdle
          \/ now >= state[o].firstAt + BatchMaxWait
          \/ msgs[m].at <= state[o].pausedUntil]_vars

\* No prompt is started for a conversation whose promised pause is not over.
NoPromptWhilePaused ==
  [][\A o \in Obj : Starts(o) /\ disposals = 0 => pauseGranted[state'[o].id] <= now]_vars

\* Each text takes its turn: it moves forward only, and its prompt comes neither before
\* the chat is idle nor during a pause.
TextsTakeTheirTurn == TextsMoveForward /\ PromptWaitsForIdle /\ NoPromptWhilePaused

\* What the session sees of a conversation: the fields of its object, while the session
\* is up and the map lists one.
View(s) == [queue |-> s.texts, prompt |-> s.prompt,
            pausedUntil |-> s.pausedUntil, mutedUntil |-> s.mutedUntil]
Seen(c) == View(IF disposals > 0 \/ conversations[c] = None THEN NewState
                ELSE state[conversations[c]])

Promise == INSTANCE Inbox WITH
  Text <- Msg, seen <- 1..arrived, box <- [c \in Conv |-> Seen(c)],
  orders <- disposals, closed <- disposals > 0

\* The router is the inbox its session takes it for: whatever timers, epochs and objects
\* do, a queue is answered whole, by one prompt at a time, outside pauses; it loses
\* only its oldest texts or all of them to a mute; no pause is shortened, and a mute
\* only by the end of a reply, which forgets a conversation without texts and pause.
RouterIsAnInbox == Promise!InboxSpec

-----------------------------------------------------------------------------
(* Liveness.                                                               *)

\* A queue that no flush in flight blocks is drained: its timer fires, and the
\* texts are prompted or dropped.
UnblockedBacklogDrains ==
  \A o \in Obj : (state[o].timerAt > 0 /\ state[o].stage = "idle")
                   ~> (state[o].timerAt = 0 \/ state[o].stage # "idle")

\* Every flush in flight ends, so a conversation is never blocked for good.
FlushEnds == \A o \in Obj : state[o].stage # "idle" ~> state[o].stage = "idle"

\* What waits for a timer or for a generation does not wait for ever.
RouterSettles == UnblockedBacklogDrains /\ FlushEnds

-----------------------------------------------------------------------------
(* What the documentation says and the code does not do.                   *)

\* "Messages are collected until the chat is idle ... One idle window, one
\* prompt, one reply" (README.md:344): every queued text leaves the queue.
BacklogDrains == \A m \in Msg : Queued(m) ~> ~Queued(m)
=============================================================================
