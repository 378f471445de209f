------------------------------- MODULE Inbox -------------------------------
(***************************************************************************)
(* What a session relies on of its conversation router, whatever timers,   *)
(* epochs and state objects of src/services/conversationRouter.ts are      *)
(* behind it: a conversation is a queue of texts and the prompt they are   *)
(* answered in.  ConversationRouter implements it until the session shuts  *)
(* down; InboundRouting, which sees of the router only this, does too.     *)
(***************************************************************************)
EXTENDS Integers

CONSTANTS
  Conv,  \* conversations
  Text   \* inbound texts: numbers, as they come

VARIABLES
  now,       \* the clock
  eligible,  \* what isAiEligible() answers
  seen,      \* the texts the session has decided about
  box,       \* per conversation: queue, prompt, pausedUntil, mutedUntil
  orders,    \* handoffs, restarts and shutdowns so far
  closed     \* the session was shut down

inboxVars == <<now, eligible, seen, box, orders, closed>>

Empty == [queue |-> {}, prompt |-> {}, pausedUntil |-> 0, mutedUntil |-> 0]

InboxInit ==
  /\ box = [c \in Conv |-> Empty]
  /\ seen = {} /\ ~closed

-----------------------------------------------------------------------------
\* What may become of a conversation s in a step, t.

\* A pause is set or prolonged.
Held(s, t) ==
  /\ s.pausedUntil <= t.pausedUntil
  /\ t = [s EXCEPT !.pausedUntil = t.pausedUntil]

\* A mute is set or prolonged, and throws the queue away.
Silenced(s, t) ==
  /\ s.mutedUntil <= t.mutedUntil
  /\ t = [s EXCEPT !.mutedUntil = t.mutedUntil, !.queue = {}]

\* The whole queue becomes the prompt, or is dropped if the AI may not answer: only
\* when no other is answered and no pause is on.
Served(s, t) ==
  /\ s.queue # {} /\ s.prompt = {} /\ s.pausedUntil <= now
  /\ t = [s EXCEPT !.queue = {}, !.prompt = IF eligible THEN s.queue ELSE {}]

\* New texts join the queue of a conversation that is not muted, after a longer pause
\* perhaps; the oldest may be left out.  A full queue is served at once.
Joined(s, t, new) ==
  /\ new # {} /\ s.mutedUntil <= now
  /\ \E kept \in (SUBSET (s.queue \union new)) \ {{}}, held \in {s, [s EXCEPT !.pausedUntil = t.pausedUntil]} :
       /\ Held(s, held)
       /\ \A x \in kept, y \in (s.queue \union new) \ kept : y < x
       /\ LET joined == [held EXCEPT !.queue = kept]
          IN t = joined \/ Served(joined, t)

\* The answer is out, or failed: without texts and pause the conversation is forgotten,
\* and with it a mute that came while the answer was under way.
Landed(s, t) ==
  LET rest == [s EXCEPT !.prompt = {}]
  IN /\ s.prompt # {}
     /\ t = IF rest.queue = {} /\ rest.pausedUntil <= now THEN Empty ELSE rest

-----------------------------------------------------------------------------
Move(c) ==
  LET s == box[c]
      t == box'[c]
  IN /\ box' = [box EXCEPT ![c] = t]
     /\ \/ Held(s, t) \/ Silenced(s, t) \/ Served(s, t) \/ Landed(s, t)
        \/ Joined(s, t, seen' \ seen)

\* A shutdown or a restart forgets everything; after a shutdown nothing is promised.
Reset == orders' # orders /\ box' = [c \in Conv |-> Empty]

InboxNext ==
  /\ seen \subseteq seen'
  /\ \/ Reset
     \/ ~closed /\ ~closed' /\ (UNCHANGED box \/ \E c \in Conv : Move(c))
     \/ closed /\ UNCHANGED <<box, closed>>

InboxSpec == InboxInit /\ [][InboxNext]_inboxVars
=============================================================================
