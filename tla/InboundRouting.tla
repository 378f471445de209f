----------------------------- MODULE InboundRouting -----------------------------
(***************************************************************************)
(* Who answers an inbound message: handleMessagesUpsert(), handleAutoReply()*)
(* and enqueueForAi() of src/baileys/connection.ts, with the callbacks the *)
(* session gives its conversation router.  The event goes to the webhook   *)
(* first and is handled when that call ends, so events overtake each other;*)
(* then the AI, or the static rules, or nobody answers it.  The timers of  *)
(* the router are in ConversationRouter; here a flush happens at any time  *)
(* the router allows it.                                                   *)
(***************************************************************************)
EXTENDS Integers, Sequences, SequencesExt, FiniteSets, FiniteSetsExt, Functions

CONSTANTS
  Conv,        \* conversations
  LastMail,    \* bound: messages 1..LastMail
  LastMoment,  \* bound of the clock
  HumanIdle,   \* ROUTING_HUMAN_IDLE_MS
  MuteTime,    \* guard.muteMs
  Cooldown,    \* time-to-live of autoReplyCooldownCache
  MaxStrikes,  \* guard.maxStrikes
  MaxAsks      \* bound: calls of the handoff endpoint and restarts, together

ASSUME InboundAssumption ==
  {LastMail, LastMoment, HumanIdle, MuteTime, Cooldown, MaxStrikes, MaxAsks} \subseteq Nat

Never == -HumanIdle - 1
Kind == {"plain", "attack", "code"}      \* "code": the OTP filter ignores it
\* "off" also stands for a session whose rules match nothing.
RuleRole == {"both", "primary", "fallback", "off"}

VARIABLES
  moment,     \* the clock
  settings,   \* the static rules: their role, and whether only for failed webhooks
  open,       \* isAiEligible(): enabled, configured and inside its window
  mail,       \* the messages received
  batches,    \* events in progress: the messages left, by their numbers, and how far they are
  chat,       \* per conversation: queue, flushing, pausedUntil, mutedUntil, strikes
  cooled,     \* per conversation: when the entry of the cooldown cache expires
  human,      \* per conversation: newest message of a human in the store
  own,        \* per conversation: newest message in the store that apiSentIds knows
  asks,       \* bound: handoffs and restarts so far
  answers,    \* history: who answered which message
  promised,   \* history, per message: until when humans own its conversation
  decided     \* history, per conversation: when it got its last static reply

inboundVars == <<moment, settings, open, mail, batches, chat, cooled, human, own, asks,
                 answers, promised, decided>>

NoBatch == [queue |-> {}, flushing |-> {}, pausedUntil |-> 0, mutedUntil |-> 0, strikes |-> 0]

InboundTypeOK ==
  /\ moment \in 0..LastMoment /\ open \in BOOLEAN /\ asks \in 0..MaxAsks
  /\ settings \in [role : RuleRole, failedOnly : BOOLEAN]
  /\ Len(mail) <= LastMail /\ Range(mail) \subseteq [conv : Conv, kind : Kind]
  /\ \A b \in batches : b.step \in {"webhook", "static", "sending"} /\ b.msgs \subseteq 1..LastMail
  /\ \A c \in Conv : chat[c].queue \union chat[c].flushing \subseteq 1..LastMail
  /\ \A c \in Conv : chat[c].strikes \in 0..MaxStrikes
  /\ {human[c] : c \in Conv} \union {own[c] : c \in Conv} \subseteq {Never} \union 0..LastMoment

InboundInit ==
  /\ moment = 0 /\ settings \in [role : RuleRole, failedOnly : BOOLEAN] /\ open \in BOOLEAN
  /\ mail = <<>> /\ batches = {} /\ asks = 0 /\ answers = {}
  /\ chat = [c \in Conv |-> NoBatch] /\ cooled = [c \in Conv |-> 0]
  /\ human = [c \in Conv |-> Never] /\ own = [c \in Conv |-> Never]
  /\ promised = [k \in 1..LastMail |-> Never] /\ decided = [c \in Conv |-> Never]

-----------------------------------------------------------------------------
\* The router: ensure(), pause(), mute() and enqueue() of one conversation.  (Variant:
\* the last pause counts, not the longest.)
PauseAnew(s, until) == [s EXCEPT !.pausedUntil = until]
Pause(s, until) == [s EXCEPT !.pausedUntil = Max({@, until})]
Mute(s) == [s EXCEPT !.mutedUntil = Max({@, moment + MuteTime}), !.queue = {}, !.strikes = 0]
IsMuted(c) == chat[c].mutedUntil > moment

\* lastHumanActivityAt(): a human message of the last HumanIdle.  (Variant: the
\* newest message is looked at, whoever sent it.)
NewestOnly(c) == human[c] >= moment - HumanIdle /\ human[c] > own[c]
HumanActive(c) == human[c] >= moment - HumanIdle

\* The static rules take what the AI does not, unless they are the fallback only.
StaticAnswers(failed) ==
  settings.role \in {"primary", "both"} /\ (settings.failedOnly => failed)

-----------------------------------------------------------------------------
Rest == <<moment, settings, open, own, human, asks>>

\* messages.upsert: stored, and given to the webhook.
Receive(ms) ==
  /\ Len(mail) + Len(ms) <= LastMail /\ mail' = mail \o ms
  /\ batches' = batches \union {[msgs |-> Len(mail) + 1..Len(mail \o ms), step |-> "webhook"]}
  /\ UNCHANGED <<Rest, chat, cooled, answers, promised, decided>>

\* The texts that may be answered.
Texts(b) == {k \in b.msgs : mail[k].kind # "code"}
With(b, ks, step) ==
  batches' = (batches \ {b}) \union (IF ks = {} THEN {} ELSE {[msgs |-> ks, step |-> step]})

\* enqueueForAi(): the conversation is that of the last message.
Blocked(c) ==
  LET s == [chat[c] EXCEPT !.strikes = @ + 1]
  IN chat' = [chat EXCEPT ![c] = IF s.strikes >= MaxStrikes THEN Mute(s) ELSE s]
Admitted(c, ks) ==
  LET cleared == [chat[c] EXCEPT !.strikes = 0]
      held == IF HumanActive(c) THEN Pause(cleared, human[c] + HumanIdle) ELSE cleared
  IN /\ chat' = [chat EXCEPT ![c] = IF open THEN [held EXCEPT !.queue = @ \union ks] ELSE held]
     /\ promised' = [k \in 1..LastMail |->
          IF k \in ks THEN human[c] + HumanIdle ELSE promised[k]]

\* The webhook call ended; failed: after all its attempts.
Handle(b, failed) ==
  LET ks == Texts(b)
      c == mail[Max(ks)].conv
      attack == \E k \in ks : mail[k].kind = "attack"
  IN /\ b \in batches /\ b.step = "webhook"
     /\ UNCHANGED <<Rest, mail, cooled, answers, decided>>
     /\ IF ks = {} \/ IsMuted(c) THEN With(b, {}, "") /\ UNCHANGED <<chat, promised>>
        ELSE IF attack THEN With(b, {}, "") /\ Blocked(c) /\ UNCHANGED promised
        ELSE /\ Admitted(c, ks)
             /\ With(b, IF ~open /\ StaticAnswers(failed) THEN ks ELSE {}, "static")

\* The loop of the static rules goes on with the messages of the batch behind the first.
Later(b) == b.msgs \ {Min(b.msgs)}
\* The cooldown is asked and started before anything is awaited; the cache of bursts
\* forgets sooner and refuses nothing more.
MarkNow(c) == [cooled EXCEPT ![c] = moment + Cooldown]
DecideStatic(b) ==
  LET c == mail[Min(b.msgs)].conv
  IN /\ b \in batches /\ b.step = "static"
     /\ IF cooled[c] > moment
        THEN With(b, Later(b), "static") /\ UNCHANGED <<cooled, decided>>
        ELSE With(b, b.msgs, "sending") /\ cooled' = MarkNow(c) /\ decided' = [decided EXCEPT ![c] = moment]
     /\ UNCHANGED <<Rest, mail, chat, answers, promised>>

\* sendMessage() of a reply to message k in conversation c.
Sent(c, k, by) ==
  /\ answers' = answers \union {<<k, by>>}
  /\ own' = [own EXCEPT ![c] = moment]

SendStatic(b, ok) ==
  LET k == Min(b.msgs)
  IN /\ b \in batches /\ b.step = "sending" /\ With(b, Later(b), "static")
     /\ IF ok THEN Sent(mail[k].conv, k, "static") ELSE UNCHANGED <<answers, own>>
     /\ UNCHANGED <<moment, settings, open, human, asks, mail, chat, cooled, promised, decided>>

-----------------------------------------------------------------------------
\* flush(): the queue is given to the AI, or dropped when the AI may not answer now.
Flush(c) ==
  LET s == chat[c]
  IN /\ s.queue # {} /\ s.flushing = {} /\ s.pausedUntil <= moment
     /\ chat' = [chat EXCEPT ![c] = [s EXCEPT !.queue = {}, !.flushing = IF open THEN s.queue ELSE {}]]
     /\ UNCHANGED <<Rest, mail, batches, cooled, answers, promised, decided>>

\* The generation ends: deliver(), or onFailure() with the static reply.  A
\* conversation without queue and pause is forgotten, its mute included.
FlushEnds(c, ok, sent) ==
  LET s == [chat[c] EXCEPT !.flushing = {}]
      ks == chat[c].flushing
      fallback == settings.role \in {"fallback", "both"}
  IN /\ ks # {}
     /\ chat' = [chat EXCEPT ![c] = IF s.queue = {} /\ s.pausedUntil <= moment
                                     THEN [NoBatch EXCEPT !.strikes = s.strikes] ELSE s]
     /\ IF sent /\ (ok \/ fallback)
        THEN Sent(c, Max(ks), IF ok THEN "ai" ELSE "fallback") ELSE UNCHANGED <<answers, own>>
     /\ UNCHANGED <<moment, settings, open, human, asks, mail, batches, cooled, promised, decided>>

-----------------------------------------------------------------------------
\* A human writes in the chat; pauseAi() of the handoff endpoint.
HumanWrites(c) ==
  /\ human' = [human EXCEPT ![c] = moment]
  /\ UNCHANGED <<moment, settings, open, own, asks, mail, batches, chat, cooled, answers, promised, decided>>
Handoff(c) ==
  /\ asks < MaxAsks /\ asks' = asks + 1
  /\ chat' = [chat EXCEPT ![c] = Pause(@, moment + HumanIdle)]
  /\ promised' = [k \in 1..LastMail |->
       IF k \in chat[c].queue THEN Max({promised[k], moment + HumanIdle}) ELSE promised[k]]
  /\ UNCHANGED <<moment, settings, open, human, own, mail, batches, cooled, answers, decided>>

\* The AI's window opens or closes.
WindowMoves ==
  /\ open' = ~open
  /\ UNCHANGED <<moment, settings, own, human, asks, mail, batches, chat, cooled, answers, promised, decided>>

InboundTick ==
  /\ moment < LastMoment /\ moment' = moment + 1
  /\ UNCHANGED <<settings, open, mail, batches, chat, cooled, human, own, asks, answers, promised, decided>>

\* A new process: the messages are in the store's file, the rest was in memory.
InboundRestart ==
  /\ asks < MaxAsks /\ asks' = asks + 1
  /\ batches' = {} /\ chat' = [c \in Conv |-> NoBatch] /\ cooled' = [c \in Conv |-> 0]
  /\ human' = [c \in Conv |-> Max({human[c], own[c]})] /\ own' = [c \in Conv |-> Never]
  /\ decided' = [c \in Conv |-> Never]
  /\ UNCHANGED <<moment, settings, open, mail, answers, promised>>

Message == [conv : Conv, kind : Kind]
InboundNext ==
  \/ \E x \in Message : Receive(<<x>>) \/ (\E y \in Message : Receive(<<x, y>>))
  \/ \E b \in batches : DecideStatic(b) \/ (\E ok \in BOOLEAN : Handle(b, ok) \/ SendStatic(b, ok))
  \/ \E c \in Conv : Flush(c) \/ HumanWrites(c) \/ Handoff(c)
  \/ \E c \in Conv, ok, sent \in BOOLEAN : FlushEnds(c, ok, sent)
  \/ WindowMoves \/ InboundTick \/ InboundRestart

InboundSpec == InboundInit /\ [][InboundNext]_inboundVars

-----------------------------------------------------------------------------
\* "one owner per message": of the AI, the static rules and the fallback at most one
\* answered a message.
OneOwner == \A x, y \in answers : x[1] = y[1] => x = y

\* Rules that are the fallback only never answer unless the AI failed, whatever the
\* window does between the event and the reply.
FallbackOnlyAfterFailure ==
  settings.role \in {"fallback", "off"} => \A x \in answers : x[2] # "static"

\* The AI is not asked about a message while a human owned its conversation when the
\* message was handled, or was given it later.
HumansComeFirst ==
  [][\A c \in Conv : chat[c].flushing = {} /\ chat'[c].flushing # {} =>
       \A k \in chat'[c].flushing : promised[k] <= moment]_inboundVars

\* Static replies to one contact are a cooldown apart, with events that overlap.
StaticIsRationed ==
  [][\A c \in Conv : decided'[c] # decided[c] /\ decided[c] # Never /\ decided'[c] # Never =>
       decided'[c] >= decided[c] + Cooldown]_inboundVars

\* Who answers is settled message by message: at most one of them, in its role; the AI is
\* not asked while the humans have the conversation, and static rules answer not too often.
AnswersAreGoverned ==
  [](OneOwner /\ FallbackOnlyAfterFailure) /\ HumansComeFirst /\ StaticIsRationed

\* The texts that are not waiting for the webhook call of their event any more.
Decided == {k \in 1..Len(mail) : /\ mail[k].kind # "code"
                                 /\ \A b \in batches : b.step = "webhook" => k \notin b.msgs}

\* What is the router's in the record of a conversation.
View(s) == [queue |-> s.queue, prompt |-> s.flushing,
            pausedUntil |-> s.pausedUntil, mutedUntil |-> s.mutedUntil]

Promise == INSTANCE Inbox WITH
  Text <- 1..LastMail, now <- moment, eligible <- open, seen <- Decided,
  box <- [c \in Conv |-> View(chat[c])], orders <- asks, closed <- FALSE

\* The handlers use their router as the inbox that ConversationRouter implements: they
\* hand each message over once at most, when its event is decided, and count on no
\* other moves of the queues, pauses and mutes.
HandlersUseAnInbox == Promise!InboxSpec
=============================================================================
