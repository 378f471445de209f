------------------------------- MODULE SendSlots -------------------------------
(***************************************************************************)
(* The unified send: POST /messages in src/routes/messages.ts, with        *)
(* src/services/messageSender.ts and sendMessage() of                      *)
(* src/baileys/connection.ts.  A request holds a slot of its session while *)
(* it waits for the send or for the timeout, whichever is first.  A send   *)
(* whose request timed out goes on.                                        *)
(***************************************************************************)
EXTENDS Integers, FiniteSets

CONSTANTS
  Sender,         \* send requests
  Session,        \* connected sessions
  MaxConcurrent   \* config.send.maxConcurrent

ASSUME SlotsAssumption ==
  MaxConcurrent \in Nat \ {0} /\ IsFiniteSet(Sender) /\ Session # {}

VARIABLES
  inFlight,   \* slots taken, per session
  send,       \* per request: how far its send is
  answer,     \* per request: what the client was told
  from,       \* per request: the session it resolved to
  out,        \* history: requests whose message WhatsApp accepted
  connected   \* sessions with an open socket

slotVars == <<inFlight, send, answer, from, out, connected>>

Stage == {"new", "checking", "typing", "socket", "over"}
Answer == {"none", "sent", "refused", "failed", "busy", "timeout"}

SlotsTypeOK ==
  /\ inFlight \in [Session -> 0..Cardinality(Sender)]
  /\ send \in [Sender -> Stage] /\ answer \in [Sender -> Answer]
  /\ from \in [Sender -> Session] /\ out \subseteq Sender /\ connected \subseteq Session

SlotsInit ==
  /\ inFlight = [s \in Session |-> 0]
  /\ send = [r \in Sender |-> "new"] /\ answer = [r \in Sender |-> "none"]
  /\ from = [r \in Sender |-> CHOOSE s \in Session : TRUE]
  /\ out = {} /\ connected = Session

Stepped(r, stage) == send' = [send EXCEPT ![r] = stage]
Told(r, a) == answer' = [answer EXCEPT ![r] = a]
Waits(r) == answer[r] = "none" /\ send[r] # "new"

-----------------------------------------------------------------------------
\* releaseSlot(), in the `finally' of the request.  (Variant: only when the send
\* came to an end.)
ReleaseAfterSend(r) ==
  IF send[r] = "socket" THEN inFlight' = [inFlight EXCEPT ![from[r]] = @ - 1]
  ELSE UNCHANGED inFlight
ReleaseSlot(r) == inFlight' = [inFlight EXCEPT ![from[r]] = IF @ <= 1 THEN 0 ELSE @ - 1]

\* The send of r is over.  Its request is answered unless it timed out before.
Settle(r, a) ==
  /\ Stepped(r, "over")
  /\ IF answer[r] = "none" THEN Told(r, a) /\ ReleaseSlot(r)
     ELSE UNCHANGED <<answer, inFlight>>

\* The request arrives: no slot, no connection, or on to the number check
\* (a group needs none).  A bad receiver, or a bad URL for a group, is found at once.
PostMessage(r, s, isGroup) ==
  /\ send[r] = "new"
  /\ from' = [from EXCEPT ![r] = s]
  /\ \/ /\ inFlight[s] >= MaxConcurrent
        /\ Told(r, "busy") /\ Stepped(r, "over") /\ UNCHANGED inFlight
     \/ /\ inFlight[s] < MaxConcurrent
        /\ \/ s \notin connected /\ Told(r, "failed")
           \/ Told(r, "refused")
        /\ Stepped(r, "over") /\ UNCHANGED inFlight
     \/ /\ inFlight[s] < MaxConcurrent /\ s \in connected
        /\ inFlight' = [inFlight EXCEPT ![s] = @ + 1]
        /\ Stepped(r, IF isGroup THEN "typing" ELSE "checking") /\ UNCHANGED answer
  /\ UNCHANGED <<out, connected>>

\* isOnWhatsApp() answers; without a socket it answers that the number is unknown.
\* A media URL may be refused then.
NumberChecked(r) ==
  /\ send[r] = "checking"
  /\ \/ from[r] \in connected /\ Stepped(r, "typing") /\ UNCHANGED <<answer, inFlight>>
     \/ Settle(r, "refused")
  /\ UNCHANGED <<from, out, connected>>

\* The typing and pacing delays are over: the message goes to the socket, if there
\* still is one.
Typed(r) ==
  /\ send[r] = "typing"
  /\ IF from[r] \in connected THEN Stepped(r, "socket") /\ UNCHANGED <<answer, inFlight>>
     ELSE Settle(r, "failed")
  /\ UNCHANGED <<from, out, connected>>

\* The socket accepts the message, or throws: it may have gone out all the same.
SocketAnswered(r) ==
  /\ send[r] = "socket"
  /\ \/ out' = out \union {r} /\ Settle(r, "sent")
     \/ out' \in {out, out \union {r}} /\ Settle(r, "failed")
  /\ UNCHANGED <<from, connected>>

\* withTimeout(): the promise of the send is left alone.
SendTimedOut(r) ==
  /\ Waits(r)
  /\ Told(r, "timeout") /\ ReleaseSlot(r)
  /\ UNCHANGED <<send, from, out, connected>>

\* The socket of a session opens or closes.
SocketChange(s) ==
  /\ connected' = IF s \in connected THEN connected \ {s} ELSE connected \union {s}
  /\ UNCHANGED <<inFlight, send, answer, from, out>>

SlotsNext ==
  \/ \E r \in Sender, s \in Session, isGroup \in BOOLEAN : PostMessage(r, s, isGroup)
  \/ \E r \in Sender :
       NumberChecked(r) \/ Typed(r) \/ SocketAnswered(r) \/ SendTimedOut(r)
  \/ \E s \in Session : SocketChange(s)

SlotsSpec == SlotsInit /\ [][SlotsNext]_slotVars

-----------------------------------------------------------------------------
\* The requests that hold a slot of the session s.
Holders(s) == {r \in Sender : Waits(r) /\ from[r] = s}

\* Every request that waits holds one slot of its session and nobody else holds
\* one, whoever answers first, the send or the clock: slots neither leak nor go
\* below zero, and a session never has more waiting requests than slots.
SlotsAreWaiting ==
  \A s \in Session :
    /\ inFlight[s] = Cardinality(Holders(s))
    /\ inFlight[s] <= MaxConcurrent

\* What a client is told is true of the message, also when a late send overlaps
\* later requests: "sent" means it went out; a request told that the session is
\* busy or the number unknown never goes out afterwards.
AnswersAreTrue ==
  \A r \in Sender :
    /\ answer[r] = "sent" => r \in out
    /\ answer[r] \in {"busy", "refused"} => r \notin out /\ send[r] = "over"

SendsAreAccounted == SlotsAreWaiting /\ AnswersAreTrue
=============================================================================
