------------------------------- MODULE AgentLoop --------------------------------
(***************************************************************************)
(* One reply of the built-in AI agent: generateAgentReply() and            *)
(* postCompletion() of src/services/aiAgent.ts, the send tool of           *)
(* src/baileys/connection.ts and its hourly quota.  Replies to several     *)
(* conversations of a session run at once and share the quota.  What the   *)
(* model says and what the tools return is nondeterministic.               *)
(***************************************************************************)
EXTENDS Integers, Sequences

CONSTANTS
  Reply,       \* the replies asked for
  MaxRounds,   \* toolMaxRounds
  MaxAttempts, \* maxAttempts of postCompletion, 3 in the code
  MaxPerHour,  \* sendMessage.maxPerHour
  Hour,        \* the window of the quota
  LastTime,    \* bound of the clock
  MaxCalls,    \* bound: tool calls in one answer of the model
  Called,      \* bound: which of the calls it makes
  Allowlist    \* scope is "allowlist", rather than "any"

\* What the model may call: the send tool for its own chat, a listed or another
\* receiver; a configured endpoint; nothing that exists, or nothing usable.
Call == {"own", "listed", "other", "endpoint", "unknown"}

ASSUME AgentAssumption ==
  /\ {MaxRounds, MaxAttempts, MaxPerHour, Hour, LastTime, MaxCalls} \subseteq Nat
  /\ MaxAttempts >= 1 /\ MaxPerHour >= 1
  /\ Allowlist \in BOOLEAN /\ Called \subseteq Call

VARIABLES
  time,    \* the clock
  quota,   \* aiSendWindows: when the sends of the last hour were made
  loop,    \* per reply: where it is
  sends    \* history: when and to whom the send tool sent

agentVars == <<time, quota, loop, sends>>

\* owed: the tool calls in the messages that no tool message answers yet.
Idle == [step |-> "idle", round |-> 0, attempt |-> 0, images |-> FALSE, dropped |-> FALSE,
         pending |-> <<>>, owed |-> 0, requests |-> 0]

AgentTypeOK ==
  /\ time \in 0..LastTime /\ quota \in Seq(0..LastTime) /\ sends \in Seq([at : 0..LastTime, to : Call])
  /\ \A r \in Reply :
       /\ loop[r].step \in {"idle", "asking", "calling", "sending", "replied", "failed"}
       /\ loop[r].pending \in Seq(Call) /\ loop[r].round \in 0..MaxRounds
       /\ loop[r].attempt \in 0..MaxAttempts /\ loop[r].owed \in 0..MaxCalls * (MaxRounds + 1)

AgentInit ==
  time = 0 /\ quota = <<>> /\ loop = [r \in Reply |-> Idle] /\ sends = <<>>

-----------------------------------------------------------------------------
Become(r, s) == loop' = [loop EXCEPT ![r] = s]

Ask(r, images) ==
  /\ loop[r].step = "idle"
  /\ Become(r, [Idle EXCEPT !.step = "asking", !.attempt = 1, !.requests = 1, !.images = images])
  /\ UNCHANGED <<time, quota, sends>>

\* A completion that failed for good is asked for once more without the images.
RetryPlain(s) == s.images /\ ~s.dropped

GaveUp(s) ==
  IF RetryPlain(s)
  THEN [s EXCEPT !.attempt = 1, !.dropped = TRUE, !.requests = @ + 1]
  ELSE [s EXCEPT !.step = "failed"]

\* postCompletion(): 429, 5xx and exceptions are tried again, other errors are final.
Complete(r, retryable) ==
  LET s == loop[r]
  IN /\ s.step = "asking" /\ UNCHANGED <<time, quota, sends>>
     /\ Become(r, IF retryable /\ s.attempt < MaxAttempts
                  THEN [s EXCEPT !.attempt = @ + 1, !.requests = @ + 1] ELSE GaveUp(s))

\* The model answers with a text, or without one.
PlainAnswer(r, text) ==
  /\ loop[r].step = "asking" /\ UNCHANGED <<time, quota, sends>>
  /\ Become(r, [loop[r] EXCEPT !.step = IF text THEN "replied" ELSE "failed"])

\* The model calls tools, whether or not it was offered any.
CallTools(r, calls) ==
  /\ loop[r].step = "asking" /\ UNCHANGED <<time, quota, sends>>
  /\ Become(r, [loop[r] EXCEPT !.step = "calling", !.pending = calls, !.owed = @ + Len(calls)])

-----------------------------------------------------------------------------
\* After a tool message: the next call, or the next round.  (Variant: one round too many.)
OneRoundMore(s) ==
  IF s.pending # <<>> THEN [s EXCEPT !.step = "calling"]
  ELSE IF s.round > MaxRounds THEN [s EXCEPT !.step = "failed"]
  ELSE [s EXCEPT !.step = "asking", !.round = @ + 1, !.attempt = 1, !.requests = @ + 1]
NextRound(s) ==
  IF s.pending # <<>> THEN [s EXCEPT !.step = "calling"]
  ELSE IF s.round = MaxRounds THEN [s EXCEPT !.step = "failed"]
  ELSE [s EXCEPT !.step = "asking", !.round = @ + 1, !.attempt = 1, !.requests = @ + 1]
ToolMessage(s) == NextRound([s EXCEPT !.pending = Tail(@), !.owed = @ - 1])

\* consumeSendQuota(): what is an hour old is shifted out at the front.
Old == CHOOSE n \in 0..Len(quota) :
         /\ \A i \in 1..n : quota[i] <= time - Hour
         /\ n < Len(quota) => quota[n + 1] > time - Hour
Recent == SubSeq(quota, Old + 1, Len(quota))
QuotaLeft == Len(Recent) < MaxPerHour
\* (Variant: a message to the own chat is free.)
OwnIsFree(to) == IF to = "own" THEN Recent ELSE Append(Recent, time)
Consumed(to) == Append(Recent, time)

Sendable(call) == call \in {"own", "listed"} \/ (call = "other" /\ ~Allowlist)

\* runAiSendTool(): the quota is consumed, then the send awaited.
SendTool(r) ==
  LET call == Head(loop[r].pending)
  IN /\ loop[r].step = "calling" /\ Sendable(call) /\ UNCHANGED time
     /\ IF QuotaLeft
        THEN /\ quota' = Consumed(call) /\ sends' = Append(sends, [at |-> time, to |-> call])
             /\ Become(r, [loop[r] EXCEPT !.step = "sending"])
        ELSE quota' = Recent /\ Become(r, ToolMessage(loop[r])) /\ UNCHANGED sends

\* It was sent or not: the tool message says so.
SendEnds(r) ==
  /\ loop[r].step = "sending" /\ Become(r, ToolMessage(loop[r]))
  /\ UNCHANGED <<time, quota, sends>>

\* Every other call: executeTool(), or an error in the tool message.
OtherTool(r) ==
  /\ loop[r].step = "calling" /\ ~Sendable(Head(loop[r].pending))
  /\ Become(r, ToolMessage(loop[r])) /\ UNCHANGED <<time, quota, sends>>

AgentTick == time < LastTime /\ time' = time + 1 /\ UNCHANGED <<quota, loop, sends>>

Calls == UNION {[1..n -> Called] : n \in 1..MaxCalls}
AgentNext ==
  \/ \E r \in Reply :
       \/ \E b \in BOOLEAN : Ask(r, b) \/ Complete(r, b) \/ PlainAnswer(r, b)
       \/ \E calls \in Calls : CallTools(r, calls)
       \/ SendTool(r) \/ SendEnds(r) \/ OtherTool(r)
  \/ AgentTick

AgentSpec == AgentInit /\ [][AgentNext]_agentVars

-----------------------------------------------------------------------------
\* The provider is never sent an assistant message whose tool calls are not all
\* answered, whichever of them failed or were refused.
CallsAreAnswered == \A r \in Reply : loop[r].step = "asking" => loop[r].owed = 0

\* One reply costs a bounded number of requests, image fallback and retries included.
RequestsAreBounded ==
  \A r \in Reply : loop[r].requests <= MaxAttempts * (MaxRounds + 2)

\* "At most maxPerHour sends per hour", whichever replies they belong to and whoever
\* they go to; none to somebody who is not listed.
SendsKeepTheQuota ==
  /\ \A i \in DOMAIN sends : i + MaxPerHour \in DOMAIN sends =>
       sends[i + MaxPerHour].at >= sends[i].at + Hour
  /\ Allowlist => \A i \in DOMAIN sends : sends[i].to # "other"

AgentIsBounded == CallsAreAnswered /\ RequestsAreBounded /\ SendsKeepTheQuota
=============================================================================
