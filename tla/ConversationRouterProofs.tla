------------------------ MODULE ConversationRouterProofs ------------------------
(***************************************************************************)
(* What holds of ConversationRouter for every value of its constants.      *)
(***************************************************************************)
EXTENDS ConversationRouter, FiniteSetTheorems, TLAPS

\* Arming keeps the fields of an object well formed.
LEMMA ArmedType ==
  ASSUME NEW s \in ConversationState, NEW at \in Nat, now \in Nat
  PROVE  Armed(s, at) \in ConversationState
BY DEF ConversationState, Armed, Greater

\* Every other operation on the fields of an object yields the fields of an object.
LEMMA FieldsType ==
  ASSUME NEW s \in ConversationState, NEW at \in Nat, now \in Nat,
         NEW S \in SUBSET Msg
  PROVE  /\ Armed(s, at) \in ConversationState
         /\ Disarmed(s) \in ConversationState
         /\ Emptied(s) \in ConversationState
         /\ Dropped(s) \in ConversationState
         /\ Landed(s) \in ConversationState
         /\ Paused(s, at) \in ConversationState
         /\ Muted(s, at) \in ConversationState
         /\ [s EXCEPT !.texts = S, !.firstAt = IF @ = 0 THEN now ELSE @] \in ConversationState
         /\ [Emptied(Disarmed(s)) EXCEPT !.stage = "generating", !.prompt = s.texts]
              \in ConversationState
<1>1. /\ Disarmed(s) \in ConversationState
      /\ Emptied(s) \in ConversationState
      /\ Dropped(s) \in ConversationState
      /\ Landed(s) \in ConversationState
  BY DEF ConversationState, Disarmed, Emptied, Dropped, Landed, Stage
<1>2. Paused(s, at) \in ConversationState
  <2> DEFINE p == [s EXCEPT !.pausedUntil = at, !.epoch = @ + 1]
  <2>0. s.epoch + 1 \in Nat BY DEF ConversationState
  <2>1. p \in ConversationState BY <2>0 DEF ConversationState
  <2>2. Armed(p, at) \in ConversationState BY <2>1, ArmedType
  <2> QED BY <2>1, <2>2 DEF Paused
<1>3. Muted(s, at) \in ConversationState
  <2>1. /\ s.epoch + 1 \in Nat
        /\ Greater(s.mutedUntil, at) \in Nat
    BY DEF ConversationState, Greater
  <2>2. Emptied(Disarmed(s)) \in ConversationState
    BY DEF ConversationState, Emptied, Disarmed
  <2>3. /\ Emptied(Disarmed(s)).epoch = s.epoch
        /\ Emptied(Disarmed(s)).mutedUntil = s.mutedUntil
    BY DEF ConversationState, Emptied, Disarmed
  <2> QED BY <2>1, <2>2, <2>3 DEF Muted, ConversationState
<1>4. [s EXCEPT !.texts = S, !.firstAt = IF @ = 0 THEN now ELSE @] \in ConversationState
  BY DEF ConversationState
<1>5. [Emptied(Disarmed(s)) EXCEPT !.stage = "generating", !.prompt = s.texts]
        \in ConversationState
  BY DEF ConversationState, Emptied, Disarmed, Stage
<1> QED BY <1>1, <1>2, <1>3, <1>4, <1>5, ArmedType

\* The same for pause() and mute(), whose deadline is any instant.
LEMMA DeadlinesType ==
  ASSUME NEW s \in ConversationState, NEW at \in Nat, now \in Nat
  PROVE  Paused(s, at) \in ConversationState /\ Muted(s, at) \in ConversationState
BY FieldsType, {} \in SUBSET Msg

\* A fresh object.
LEMMA NewStateType ==
  ASSUME NEW c \in Conv \cup {None}
  PROVE  NewState \in ConversationState /\ [NewState EXCEPT !.id = c] \in ConversationState
BY DEF NewState, ConversationState, Stage

History == [Msg -> [from : Conv \cup {None}, at : Nat, fate : Fate]]

\* Mark keeps the shape of a history.
LEMMA MarkType ==
  ASSUME NEW h \in History, NEW S, NEW f \in Fate
  PROVE  Mark(h, S, f) \in History
BY DEF History, Mark, Fate

\* The batch deadline is an instant.
LEMMA DeadlineType ==
  ASSUME NEW s \in ConversationState, now \in Nat
  PROVE  BatchDeadline(s) \in Nat
BY RouterAssumption DEF BatchDeadline, Lesser, ConversationState

\* A heap stays a heap when one place of it, if it is one, is given new fields.
LEMMA HeapUpdate ==
  ASSUME NEW heap \in [Obj -> ConversationState], NEW o, NEW v,
         o \in Obj => v \in ConversationState
  PROVE  [heap EXCEPT ![o] = v] \in [Obj -> ConversationState]
OBVIOUS

\* The synchronous part of flush() keeps heap and history well formed.
LEMMA FlushType ==
  ASSUME NEW heap \in [Obj -> ConversationState], NEW o, NEW s,
         o \in Obj => s \in ConversationState,
         NEW h \in History, now \in Nat, Flush(o, s, heap, h)
  PROVE  state' \in [Obj -> ConversationState] /\ msgs' \in History
<1>1. CASE state' = [heap EXCEPT ![o] = s] /\ msgs' = h
  BY <1>1, HeapUpdate
<1>2. CASE state' = [heap EXCEPT ![o] = Armed(s, s.pausedUntil)] /\ msgs' = h
  <2>1. o \in Obj => s.pausedUntil \in Nat BY DEF ConversationState
  <2>2. o \in Obj => Armed(s, s.pausedUntil) \in ConversationState
    BY <2>1, ArmedType
  <2> QED BY <1>2, <2>2, HeapUpdate
<1>3. CASE /\ state' = [heap EXCEPT ![o] = Emptied(Disarmed(s))]
           /\ msgs' = Mark(h, s.texts, "ineligible")
  <2>1. o \in Obj => Emptied(Disarmed(s)) \in ConversationState
    BY DEF ConversationState, Emptied, Disarmed
  <2>2. msgs' \in History BY <1>3, MarkType DEF Fate
  <2> QED BY <1>3, <2>1, <2>2, HeapUpdate
<1>4. CASE /\ state' = [heap EXCEPT ![o] = [Emptied(Disarmed(s)) EXCEPT
                                              !.stage = "generating", !.prompt = s.texts]]
           /\ msgs' = Mark(h, s.texts, "prompted")
  <2>1. o \in Obj => [Emptied(Disarmed(s)) EXCEPT !.stage = "generating", !.prompt = s.texts]
           \in ConversationState
    BY FieldsType
  <2>2. msgs' \in History BY <1>4, MarkType DEF Fate
  <2> QED BY <1>4, <2>1, <2>2, HeapUpdate
<1> QED BY <1>1, <1>2, <1>3, <1>4 DEF Flush

\* So does enqueue().
LEMMA EnqueueType ==
  ASSUME state \in [Obj -> ConversationState], now \in Nat,
         NEW o \in Obj, NEW s \in ConversationState, NEW new \in SUBSET Msg,
         NEW h \in History, EnqueueOn(o, s, new, h)
  PROVE  state' \in [Obj -> ConversationState] /\ msgs' \in History
<1> DEFINE kept == Newest(s.texts \cup new, MaxBatch)
           q == [s EXCEPT !.texts = kept, !.firstAt = IF @ = 0 THEN now ELSE @]
           hq == Mark(Mark(h, new, "queued"), (s.texts \cup new) \ kept, "trimmed")
           timed == Armed(q, BatchDeadline(q))
<1>1. kept \in SUBSET Msg
  BY DEF Newest, ConversationState
<1>2. q \in ConversationState
  BY <1>1, FieldsType
<1>3. hq \in History
  BY MarkType DEF Fate
<1>4. timed \in ConversationState
  BY <1>2, DeadlineType, ArmedType
<1>5. Armed(q, q.pausedUntil) \in ConversationState
  <2>1. q.pausedUntil \in Nat BY <1>2 DEF ConversationState
  <2> QED BY <1>2, <2>1, ArmedType
<1>6. CASE state' = [state EXCEPT ![o] = s] /\ msgs' = Mark(h, new, "ignored")
  BY <1>6, HeapUpdate, MarkType DEF Fate
<1>7. CASE state' = [state EXCEPT ![o] = Armed(q, q.pausedUntil)] /\ msgs' = hq
  BY <1>7, <1>3, <1>5, HeapUpdate
<1>8. CASE state' = [state EXCEPT ![o] = timed] /\ msgs' = hq
  BY <1>8, <1>3, <1>4, HeapUpdate
<1>9. CASE Flush(o, timed, state, hq)
  BY <1>9, <1>3, <1>4, FlushType
<1> QED BY <1>6, <1>7, <1>8, <1>9 DEF EnqueueOn

\* The fields ensure() hands out are well formed.
LEMMA EnsureType ==
  ASSUME TypeOK, NEW c \in Conv \cup {None}, NEW o \in Obj,
         NEW s \in {state[o], [NewState EXCEPT !.id = c]}
  PROVE  s \in ConversationState
BY NewStateType DEF TypeOK

\* The finally block keeps map and heap well formed.
LEMMA FinallyType ==
  ASSUME TypeOK, NEW o \in Obj, Finally(o)
  PROVE  /\ conversations' \in [Conv -> Obj \cup {None}]
         /\ state' \in [Obj -> ConversationState]
<1>1. state[o] \in ConversationState BY DEF TypeOK
<1>2. Landed(state[o]) \in ConversationState BY <1>1 DEF ConversationState, Landed, Stage
<1>3. NewState \in ConversationState BY NewStateType
<1> QED BY <1>2, <1>3 DEF Finally, TypeOK

\* Every variable keeps its type.
THEOREM TypeCorrect == Spec => []TypeOK
<1>1. Init => TypeOK
  <2> SUFFICES ASSUME Init PROVE TypeOK
    OBVIOUS
  <2>1. state \in [Obj -> ConversationState] BY NewStateType DEF Init
  <2>2. msgs \in [Msg -> [from : Conv \cup {None}, at : Nat, fate : Fate]]
    BY DEF Init, Fate
  <2> QED BY <2>1, <2>2, RouterAssumption DEF Init, TypeOK
<1>2. TypeOK /\ [Next]_vars => TypeOK'
  <2> SUFFICES ASSUME TypeOK, [Next]_vars PROVE TypeOK'
    OBVIOUS
  <2>n. now \in Nat /\ msgs \in History /\ state \in [Obj -> ConversationState]
    BY DEF TypeOK, History
  <2>1. ASSUME NEW c \in Conv, NEW k \in 1..MaxMsgs, Enqueue(c, k) PROVE TypeOK'
    <3> DEFINE new == (arrived + 1)..(arrived + k)
               seen == [m \in Msg |-> IF m \in new
                                      THEN [from |-> c, at |-> now, fate |-> "future"]
                                      ELSE msgs[m]]
    <3>1. PICK o \in Obj : \E s \in {state[o], [NewState EXCEPT !.id = c]} :
            /\ conversations' = [conversations EXCEPT ![c] = o]
            /\ EnqueueOn(o, s, new, seen)
      BY <2>1 DEF Enqueue
    <3>2. PICK s \in {state[o], [NewState EXCEPT !.id = c]} : EnqueueOn(o, s, new, seen)
      BY <3>1
    <3>3. arrived' \in 0..MaxMsgs /\ new \in SUBSET Msg
      <4>1. arrived' = arrived + k /\ arrived + k <= MaxMsgs BY <2>1 DEF Enqueue
      <4>2. arrived \in Nat /\ k \in Nat /\ MaxMsgs \in Nat BY RouterAssumption DEF TypeOK
      <4> QED BY <4>1, <4>2 DEF Msg
    <3>4. seen \in History
      BY <2>n DEF History, Fate
    <3>5. state' \in [Obj -> ConversationState] /\ msgs' \in History
      BY <2>n, <3>2, <3>3, <3>4, EnsureType, EnqueueType
    <3> QED BY <2>1, <3>1, <3>3, <3>5 DEF Enqueue, TypeOK, History, history
  <2>2. ASSUME NEW c \in Conv, NEW d \in PauseFor, Pause(c, d) PROVE TypeOK'
    <3>1. now + d \in Nat BY <2>n, RouterAssumption
    <3>2. PICK o \in Obj : \E s \in {state[o], [NewState EXCEPT !.id = c]} :
            /\ conversations' = [conversations EXCEPT ![c] = o]
            /\ state' = [state EXCEPT ![o] = Paused(s, now + d)]
      BY <2>2 DEF Pause
    <3>3. PICK s \in {state[o], [NewState EXCEPT !.id = c]} :
            state' = [state EXCEPT ![o] = Paused(s, now + d)]
      BY <3>2
    <3>4. s \in ConversationState BY EnsureType
    <3>5. state' \in [Obj -> ConversationState]
      BY <2>n, <3>1, <3>3, <3>4, DeadlinesType, HeapUpdate
    <3> QED BY <2>2, <3>1, <3>2, <3>5 DEF Pause, TypeOK, Greater
  <2>3. ASSUME NEW c \in Conv, NEW d \in MuteFor, Mute(c, d) PROVE TypeOK'
    <3>1. now + d \in Nat BY <2>n, RouterAssumption
    <3>2. PICK o \in Obj : \E s \in {state[o], [NewState EXCEPT !.id = c]} :
            /\ conversations' = [conversations EXCEPT ![c] = o]
            /\ state' = [state EXCEPT ![o] = Muted(s, now + d)]
            /\ msgs' = Mark(msgs, s.texts, "discarded")
      BY <2>3 DEF Mute
    <3>3. PICK s \in {state[o], [NewState EXCEPT !.id = c]} :
            state' = [state EXCEPT ![o] = Muted(s, now + d)]
      BY <3>2
    <3>4. s \in ConversationState BY EnsureType
    <3>5. state' \in [Obj -> ConversationState]
      BY <2>n, <3>1, <3>3, <3>4, DeadlinesType, HeapUpdate
    <3>6. msgs' \in History BY <2>n, <3>2, MarkType DEF Fate
    <3> QED BY <2>3, <3>1, <3>2, <3>5, <3>6 DEF Mute, TypeOK, Greater, History
  <2>4. CASE Dispose
    <3>1. \A o \in Obj : Dropped(state[o]) \in ConversationState
      BY <2>n, FieldsType
    <3>2. state' \in [Obj -> ConversationState]
      BY <2>n, <2>4, <3>1, NewStateType DEF Dispose
    <3>3. msgs' \in History BY <2>n, <2>4, MarkType DEF Dispose, Fate
    <3> QED BY <2>4, <3>2, <3>3, RouterAssumption DEF Dispose, TypeOK, History
  <2>5. ASSUME NEW o \in Obj, TimerStale(o) PROVE TypeOK'
    BY <2>n, <2>5, FieldsType, HeapUpdate DEF TimerStale, Spent, TypeOK, history
  <2>6. ASSUME NEW o \in Obj, TimerRearm(o) PROVE TypeOK'
    <3>1. RearmAt(o) \in Nat
      BY <2>n, RouterAssumption DEF RearmAt, ConversationState
    <3>2. Spent(o) \in [Obj -> ConversationState]
      BY <2>n, FieldsType, HeapUpdate DEF Spent
    <3>3. state[o].id \in Conv \cup {None} BY <2>n DEF ConversationState
    <3>4. PICK p \in Obj : \E s \in {state[p], [NewState EXCEPT !.id = state[o].id]} :
            /\ conversations' = [conversations EXCEPT ![state[o].id] = p]
            /\ state' = [Spent(o) EXCEPT ![p] = Armed(s, RearmAt(o))]
      BY <2>6 DEF TimerRearm
    <3>5. state' \in [Obj -> ConversationState]
      <4>1. PICK s \in {state[p], [NewState EXCEPT !.id = state[o].id]} :
              state' = [Spent(o) EXCEPT ![p] = Armed(s, RearmAt(o))]
        BY <3>4
      <4>2. s \in ConversationState BY <3>3, EnsureType
      <4> QED BY <2>n, <3>1, <3>2, <4>1, <4>2, ArmedType, HeapUpdate
    <3>6. conversations' \in [Conv -> Obj \cup {None}]
      BY <3>4 DEF TypeOK
    <3> QED BY <2>6, <3>5, <3>6 DEF TimerRearm, TypeOK, history
  <2>7. ASSUME NEW o \in Obj, TimerFlush(o) PROVE TypeOK'
    <3> DEFINE p == conversations[state[o].id]
    <3>1. Spent(o) \in [Obj -> ConversationState]
      BY <2>n, FieldsType, HeapUpdate DEF Spent
    <3>2. CASE state' = Spent(o) /\ UNCHANGED <<conversations, msgs>>
      BY <2>7, <3>1, <3>2 DEF TimerFlush, TypeOK, history
    <3>3. CASE Flush(p, Spent(o)[p], Spent(o), msgs) /\ UNCHANGED conversations
      <4>1. state' \in [Obj -> ConversationState] /\ msgs' \in History
        BY <2>n, <3>1, <3>3, FlushType
      <4> QED BY <2>7, <3>3, <4>1 DEF TimerFlush, TypeOK, history, History
    <3>4. CASE /\ conversations' = [conversations EXCEPT ![state[o].id] = None]
               /\ state' = [Spent(o) EXCEPT ![p] = NewState]
               /\ UNCHANGED msgs
      <4>1. state' \in [Obj -> ConversationState]
        BY <3>1, <3>4, NewStateType, HeapUpdate
      <4>2. conversations' \in [Conv -> Obj \cup {None}]
        BY <3>4 DEF TypeOK
      <4> QED BY <2>7, <3>4, <4>1, <4>2 DEF TimerFlush, TypeOK, history
    <3> QED BY <2>7, <3>2, <3>3, <3>4 DEF TimerFlush
  <2>8. ASSUME NEW o \in Obj, GenerateDone(o) PROVE TypeOK'
    <3>1. PICK next \in {"delivering", "failing"} : state' = [state EXCEPT ![o].stage = next]
      BY <2>8 DEF GenerateDone
    <3>2. state' \in [Obj -> ConversationState]
      BY <2>n, <3>1 DEF ConversationState, Stage
    <3> QED BY <2>8, <3>2 DEF GenerateDone, TypeOK, history
  <2>9. ASSUME NEW o \in Obj, GenerateNothing(o) \/ FlushFailed(o) PROVE TypeOK'
    BY <2>9, FinallyType DEF GenerateNothing, FlushFailed, TypeOK, history
  <2>10. ASSUME NEW o \in Obj, Delivered(o) PROVE TypeOK'
    <3>1. msgs' \in History BY <2>n, <2>10, MarkType DEF Delivered, Fate
    <3> QED BY <2>10, <3>1, FinallyType DEF Delivered, TypeOK, history, History
  <2>11. CASE SetEligible
    BY <2>11 DEF SetEligible, TypeOK, history
  <2>12. CASE Tick
    BY <2>12 DEF Tick, TypeOK, history
  <2>13. CASE UNCHANGED vars
    BY <2>13 DEF vars, TypeOK
  <2> QED
    BY <2>1, <2>2, <2>3, <2>4, <2>5, <2>6, <2>7, <2>8, <2>9, <2>10, <2>11, <2>12, <2>13
       DEF Next, TimerCallback, FlushStep
<1> QED BY <1>1, <1>2, PTL DEF Spec

-----------------------------------------------------------------------------
(* Places of the texts.                                                    *)

\* A text that was not enqueued yet has no fate, so it is in no queue.
Unseen == \A m \in Msg : m > arrived => msgs[m].fate = "future"

\* What a queued text may become.
Onward == {"prompted", "trimmed", "discarded", "ineligible"}

\* What a step may do to the places: one object o takes new texts S, drops texts or
\* prompts its own; every other object keeps or loses texts, and only the texts of
\* o and the new ones change their fate, forwards.
Moves(o, S) ==
  /\ \A p \in Obj \ {o} : /\ state'[p].texts \subseteq state[p].texts
                          /\ state'[p].prompt \subseteq state[p].prompt
  /\ state'[o].texts \subseteq state[o].texts \cup S
  /\ state'[o].prompt \subseteq state[o].prompt \cup state[o].texts \cup S
  /\ \A m \in Msg : msgs'[m].fate # msgs[m].fate =>
       \/ m \in S
       \/ m \in state[o].texts /\ msgs'[m].fate \in Onward
       \/ m \in state[o].prompt /\ msgs'[m].fate = "answered"
  /\ \A m \in state'[o].texts : msgs'[m].fate = "queued"
  /\ \A m \in state'[o].prompt : msgs'[m].fate = "prompted"

\* Such a step keeps every text in one place.
LEMMA MovesKeepPlaces ==
  ASSUME OnePlacePerText, state \in [Obj -> ConversationState],
         NEW o \in Obj, NEW S \in SUBSET Msg, \A m \in S : msgs[m].fate = "future",
         Moves(o, S)
  PROVE  OnePlacePerText'
<1>1. ASSUME NEW p \in Obj, p # o
      PROVE  /\ \A m \in state'[p].texts : msgs'[m].fate = "queued"
             /\ \A m \in state'[p].prompt : msgs'[m].fate = "prompted"
  <2>1. /\ state[p].texts \subseteq Msg /\ state[p].prompt \subseteq Msg
        /\ state'[p].texts \subseteq state[p].texts
        /\ state'[p].prompt \subseteq state[p].prompt
    BY <1>1 DEF Moves, ConversationState
  <2>2. ASSUME NEW m \in state'[p].texts PROVE msgs'[m].fate = "queued"
    <3>1. msgs[m].fate = "queued" /\ m \in Msg BY <2>1 DEF OnePlacePerText
    <3>2. m \notin state[o].texts /\ m \notin state[o].prompt /\ m \notin S
      BY <1>1, <2>1, <3>1 DEF OnePlacePerText
    <3> QED BY <3>1, <3>2 DEF Moves
  <2>3. ASSUME NEW m \in state'[p].prompt PROVE msgs'[m].fate = "prompted"
    <3>1. msgs[m].fate = "prompted" /\ m \in Msg BY <2>1 DEF OnePlacePerText
    <3>2. m \notin state[o].texts /\ m \notin state[o].prompt /\ m \notin S
      BY <1>1, <2>1, <3>1 DEF OnePlacePerText
    <3> QED BY <3>1, <3>2 DEF Moves
  <2> QED BY <2>2, <2>3
<1>2. ASSUME NEW p \in Obj, p # o
      PROVE  /\ state'[p].texts \cap state'[o].texts = {}
             /\ state'[p].prompt \cap state'[o].prompt = {}
  <2>1. /\ state'[p].texts \subseteq state[p].texts
        /\ state'[p].prompt \subseteq state[p].prompt
        /\ state'[o].texts \subseteq state[o].texts \cup S
        /\ state'[o].prompt \subseteq state[o].prompt \cup state[o].texts \cup S
    BY <1>2 DEF Moves
  <2>2. /\ \A m \in state[p].texts : m \notin S /\ m \notin state[o].texts
        /\ \A m \in state[p].prompt : /\ m \notin S /\ m \notin state[o].texts
                                      /\ m \notin state[o].prompt
    BY <1>2 DEF OnePlacePerText
  <2> QED BY <2>1, <2>2
<1>3. ASSUME NEW p \in Obj, NEW q \in Obj, p # q, p # o, q # o
      PROVE  /\ state'[p].texts \cap state'[q].texts = {}
             /\ state'[p].prompt \cap state'[q].prompt = {}
  <2>1. /\ state'[p].texts \subseteq state[p].texts
        /\ state'[p].prompt \subseteq state[p].prompt
        /\ state'[q].texts \subseteq state[q].texts
        /\ state'[q].prompt \subseteq state[q].prompt
    BY <1>3 DEF Moves
  <2>2. /\ state[p].texts \cap state[q].texts = {}
        /\ state[p].prompt \cap state[q].prompt = {}
    BY <1>3 DEF OnePlacePerText
  <2> QED BY <2>1, <2>2
<1>4. /\ \A m \in state'[o].texts : msgs'[m].fate = "queued"
      /\ \A m \in state'[o].prompt : msgs'[m].fate = "prompted"
  BY DEF Moves
<1>5. \A p \in Obj : /\ \A m \in state'[p].texts : msgs'[m].fate = "queued"
                     /\ \A m \in state'[p].prompt : msgs'[m].fate = "prompted"
  BY <1>1, <1>4
<1>6. \A p, q \in Obj : p # q => /\ state'[p].texts \cap state'[q].texts = {}
                                 /\ state'[p].prompt \cap state'[q].prompt = {}
  BY <1>2, <1>3
<1> QED BY <1>5, <1>6 DEF OnePlacePerText

\* Nothing moves: every object keeps or loses texts, and no fate changes.
LEMMA StillKeepsPlaces ==
  ASSUME OnePlacePerText,
         \A p \in Obj : /\ state'[p].texts \subseteq state[p].texts
                        /\ state'[p].prompt \subseteq state[p].prompt,
         msgs' = msgs
  PROVE  OnePlacePerText'
BY DEF OnePlacePerText

\* Mark gives the members of S the fate f and leaves the rest alone.
LEMMA MarkEffect ==
  ASSUME NEW h \in History, NEW S, NEW f \in Fate, NEW m \in Msg
  PROVE  /\ Mark(h, S, f)[m].fate = IF m \in S THEN f ELSE h[m].fate
         /\ Mark(h, S, f)[m].from = h[m].from
         /\ Mark(h, S, f)[m].at = h[m].at
BY DEF History, Mark

\* What the synchronous part of flush() makes of the fields s: a flush in flight or
\* a pause keeps the texts; otherwise they leave the queue, into the prompt or not.
Flushed(s, t, h) ==
  /\ t.id = s.id /\ t.epoch = s.epoch
  /\ t.pausedUntil = s.pausedUntil /\ t.mutedUntil = s.mutedUntil
  /\ \/ t = s /\ s.stage # "idle" /\ msgs' = h
     \/ /\ t = Armed(s, s.pausedUntil) /\ s.pausedUntil > now /\ s.texts # {}
        /\ s.stage = "idle" /\ msgs' = h
     \/ /\ t.texts = {} /\ t.timerAt = 0 /\ t.stage = "idle" /\ t.prompt = s.prompt
        /\ s.stage = "idle" /\ msgs' = Mark(h, s.texts, "ineligible")
     \/ /\ t.texts = {} /\ t.timerAt = 0 /\ t.stage = "generating" /\ t.prompt = s.texts
        /\ s.stage = "idle" /\ s.pausedUntil <= now /\ msgs' = Mark(h, s.texts, "prompted")

LEMMA FlushEffect ==
  ASSUME NEW heap, NEW o \in Obj, NEW s \in ConversationState, now \in Nat,
         NEW h, Flush(o, s, heap, h)
  PROVE  \E t \in ConversationState : state' = [heap EXCEPT ![o] = t] /\ Flushed(s, t, h)
<1>1. CASE s.stage # "idle" /\ state' = [heap EXCEPT ![o] = s] /\ msgs' = h
  BY <1>1 DEF Flushed
<1>2. CASE /\ s.stage = "idle" /\ s.texts # {} /\ s.pausedUntil > now
           /\ state' = [heap EXCEPT ![o] = Armed(s, s.pausedUntil)] /\ msgs' = h
  <2> DEFINE t == Armed(s, s.pausedUntil)
  <2>1. s.pausedUntil \in Nat BY DEF ConversationState
  <2>2. t \in ConversationState BY <2>1, ArmedType
  <2>3. /\ t.id = s.id /\ t.epoch = s.epoch
        /\ t.pausedUntil = s.pausedUntil /\ t.mutedUntil = s.mutedUntil
    BY DEF Armed, ConversationState
  <2>4. Flushed(s, t, h) BY <1>2, <2>3 DEF Flushed
  <2> QED BY <1>2, <2>2, <2>4
<1>3. CASE /\ s.stage = "idle" /\ state' = [heap EXCEPT ![o] = Emptied(Disarmed(s))]
           /\ msgs' = Mark(h, s.texts, "ineligible")
  <2> DEFINE t == Emptied(Disarmed(s))
  <2>1. t \in ConversationState BY DEF ConversationState, Emptied, Disarmed
  <2>2. /\ t.id = s.id /\ t.epoch = s.epoch
        /\ t.pausedUntil = s.pausedUntil /\ t.mutedUntil = s.mutedUntil
        /\ t.texts = {} /\ t.timerAt = 0 /\ t.stage = s.stage /\ t.prompt = s.prompt
    BY DEF Emptied, Disarmed, ConversationState
  <2>3. Flushed(s, t, h) BY <1>3, <2>2 DEF Flushed
  <2> QED BY <1>3, <2>1, <2>3
<1>4. CASE /\ s.stage = "idle" /\ s.pausedUntil <= now
           /\ state' = [heap EXCEPT ![o] = [Emptied(Disarmed(s)) EXCEPT
                                              !.stage = "generating", !.prompt = s.texts]]
           /\ msgs' = Mark(h, s.texts, "prompted")
  <2> DEFINE t == [Emptied(Disarmed(s)) EXCEPT !.stage = "generating", !.prompt = s.texts]
  <2>1. t \in ConversationState BY FieldsType
  <2>2. /\ t.id = s.id /\ t.epoch = s.epoch
        /\ t.pausedUntil = s.pausedUntil /\ t.mutedUntil = s.mutedUntil
        /\ t.texts = {} /\ t.timerAt = 0 /\ t.stage = "generating" /\ t.prompt = s.texts
    BY DEF Emptied, Disarmed, ConversationState
  <2>3. Flushed(s, t, h) BY <1>4, <2>2 DEF Flushed
  <2> QED BY <1>4, <2>1, <2>3
<1> QED BY <1>1, <1>2, <1>3, <1>4 DEF Flush

\* A flush of the object o moves its own texts and nothing else, if the step has
\* queued the texts of s before (h) and moved no others.
LEMMA FlushMoves ==
  ASSUME NEW o \in Obj, NEW S \in SUBSET Msg, NEW h \in History, now \in Nat,
         NEW heap \in [Obj -> ConversationState], NEW s \in ConversationState,
         state \in [Obj -> ConversationState],
         \A p \in Obj \ {o} : /\ heap[p].texts \subseteq state[p].texts
                              /\ heap[p].prompt \subseteq state[p].prompt,
         s.texts \subseteq state[o].texts \cup S,
         s.prompt \subseteq state[o].prompt,
         \A m \in Msg : h[m].fate # msgs[m].fate =>
           m \in S \/ (m \in state[o].texts /\ h[m].fate = "trimmed"),
         \A m \in s.texts : h[m].fate = "queued",
         \A m \in s.prompt : h[m].fate = "prompted",
         Flush(o, s, heap, h)
  PROVE  Moves(o, S)
<1>1. PICK t \in ConversationState : state' = [heap EXCEPT ![o] = t] /\ Flushed(s, t, h)
  BY FlushEffect
<1>2. /\ \A p \in Obj \ {o} : state'[p] = heap[p]
      /\ state'[o] = t
  BY <1>1
<1>3. /\ s.texts \subseteq Msg /\ s.prompt \subseteq Msg
      /\ t.texts \subseteq Msg /\ t.prompt \subseteq Msg
  BY DEF ConversationState
<1>4. \/ /\ t.texts = s.texts /\ t.prompt = s.prompt /\ msgs' = h
      \/ /\ t.texts = {} /\ t.prompt = s.prompt /\ msgs' = Mark(h, s.texts, "ineligible")
      \/ /\ t.texts = {} /\ t.prompt = s.texts /\ msgs' = Mark(h, s.texts, "prompted")
  BY <1>1 DEF Flushed, Armed, ConversationState
<1>5. CASE t.texts = s.texts /\ t.prompt = s.prompt /\ msgs' = h
  BY <1>2, <1>3, <1>5 DEF Moves, Onward
<1>6. CASE t.texts = {} /\ t.prompt = s.prompt /\ msgs' = Mark(h, s.texts, "ineligible")
  <2>1. \A m \in Msg : msgs'[m].fate = IF m \in s.texts THEN "ineligible" ELSE h[m].fate
    BY <1>6, MarkEffect DEF Fate
  <2>2. \A m \in s.prompt : m \notin s.texts
    BY <1>3
  <2> QED BY <1>2, <1>3, <1>6, <2>1, <2>2 DEF Moves, Onward
<1>7. CASE t.texts = {} /\ t.prompt = s.texts /\ msgs' = Mark(h, s.texts, "prompted")
  <2>1. \A m \in Msg : msgs'[m].fate = IF m \in s.texts THEN "prompted" ELSE h[m].fate
    BY <1>7, MarkEffect DEF Fate
  <2> QED BY <1>2, <1>3, <1>7, <2>1 DEF Moves, Onward
<1> QED BY <1>4, <1>5, <1>6, <1>7

\* enqueue() of new texts on the object o moves the texts of o and the new ones only.
LEMMA EnqueueMoves ==
  ASSUME OnePlacePerText, state \in [Obj -> ConversationState], now \in Nat,
         NEW o \in Obj, NEW new \in SUBSET Msg, \A m \in new : msgs[m].fate = "future",
         NEW s \in ConversationState, NEW h \in History,
         \A m \in Msg : h[m].fate = msgs[m].fate,
         s.texts \subseteq state[o].texts, s.prompt \subseteq state[o].prompt,
         EnqueueOn(o, s, new, h)
  PROVE  Moves(o, new)
<1> DEFINE kept == Newest(s.texts \cup new, MaxBatch)
           q == [s EXCEPT !.texts = kept, !.firstAt = IF @ = 0 THEN now ELSE @]
           gone == (s.texts \cup new) \ kept
           hq == Mark(Mark(h, new, "queued"), gone, "trimmed")
           timed == Armed(q, BatchDeadline(q))
           paused == Armed(q, q.pausedUntil)
<1>0. /\ kept \subseteq s.texts \cup new
      /\ s.texts \subseteq Msg /\ s.prompt \subseteq Msg
  BY DEF Newest, ConversationState
<1>1. q \in ConversationState BY <1>0, FieldsType
<1>2. timed \in ConversationState /\ paused \in ConversationState
  <2>1. BatchDeadline(q) \in Nat /\ q.pausedUntil \in Nat
    BY <1>1, DeadlineType DEF ConversationState
  <2> QED BY <1>1, <2>1, ArmedType
<1>3. /\ q.texts = kept /\ q.prompt = s.prompt
      /\ timed.texts = kept /\ timed.prompt = s.prompt
      /\ paused.texts = kept /\ paused.prompt = s.prompt
  <2>1. q.texts = kept /\ q.prompt = s.prompt BY DEF ConversationState
  <2> QED BY <1>1, <2>1 DEF Armed, ConversationState
<1>4. hq \in History
  BY MarkType DEF Fate
<1>5. \A m \in Msg : hq[m].fate = IF m \in gone THEN "trimmed"
                                  ELSE IF m \in new THEN "queued" ELSE msgs[m].fate
  <2> DEFINE h1 == Mark(h, new, "queued")
  <2>0. "queued" \in Fate /\ "trimmed" \in Fate BY DEF Fate
  <2>1. h1 \in History BY <2>0, MarkType
  <2>2. \A m \in Msg : h1[m].fate = IF m \in new THEN "queued" ELSE h[m].fate
    BY <2>0, MarkEffect
  <2> HIDE DEF h1, gone
  <2>3. \A m \in Msg : Mark(h1, gone, "trimmed")[m].fate = IF m \in gone THEN "trimmed" ELSE h1[m].fate
    BY <2>0, <2>1, MarkEffect
  <2> QED BY <2>2, <2>3 DEF h1, gone
<1>6. /\ \A m \in s.texts : msgs[m].fate = "queued"
      /\ \A m \in s.prompt : msgs[m].fate = "prompted"
  BY DEF OnePlacePerText
<1>7. /\ \A m \in kept : hq[m].fate = "queued"
      /\ \A m \in s.prompt : hq[m].fate = "prompted"
      /\ \A m \in Msg : hq[m].fate # msgs[m].fate =>
           m \in new \/ (m \in state[o].texts /\ hq[m].fate = "trimmed")
  BY <1>0, <1>5, <1>6
<1>8. ASSUME NEW t \in {timed, paused}, state' = [state EXCEPT ![o] = t], msgs' = hq
      PROVE  Moves(o, new)
  <2>1. t.texts = kept /\ t.prompt = s.prompt BY <1>3
  <2>2. (\A p \in Obj \ {o} : state'[p] = state[p]) /\ state'[o] = t BY <1>8
  <2>3. /\ \A m \in t.texts : msgs'[m].fate = "queued"
        /\ \A m \in t.prompt : msgs'[m].fate = "prompted"
        /\ \A m \in Msg : msgs'[m].fate # msgs[m].fate =>
             m \in new \/ (m \in state[o].texts /\ msgs'[m].fate = "trimmed")
    BY <1>7, <1>8, <2>1
  <2>4. t.texts \subseteq state[o].texts \cup new /\ t.prompt \subseteq state[o].prompt BY <1>0, <2>1
  <2> QED BY <2>2, <2>3, <2>4 DEF Moves, Onward
<1>9. CASE state' = [state EXCEPT ![o] = s] /\ msgs' = Mark(h, new, "ignored")
  <2>1. \A m \in Msg : msgs'[m].fate = IF m \in new THEN "ignored" ELSE msgs[m].fate
    BY <1>9, MarkEffect DEF Fate
  <2>2. (\A p \in Obj \ {o} : state'[p] = state[p]) /\ state'[o] = s BY <1>9
  <2> QED BY <1>0, <1>6, <2>1, <2>2 DEF Moves
<1>10. CASE Flush(o, timed, state, hq)
  <2>1. /\ timed.texts \subseteq state[o].texts \cup new
        /\ timed.prompt \subseteq state[o].prompt
    BY <1>0, <1>3
  <2>2. /\ \A m \in timed.texts : hq[m].fate = "queued"
        /\ \A m \in timed.prompt : hq[m].fate = "prompted"
    <3>1. timed.texts = kept /\ timed.prompt = s.prompt BY <1>3
    <3> HIDE DEF timed, hq, kept
    <3> QED BY <1>7, <3>1
  <2> QED BY <1>2, <1>4, <1>7, <1>10, <2>1, <2>2, FlushMoves
<1> QED BY <1>8, <1>9, <1>10 DEF EnqueueOn

\* What ensure() hands out holds no texts but those of the object itself.
LEMMA EnsureEffect ==
  ASSUME TypeOK, NEW c \in Conv \cup {None}, NEW o \in Obj,
         NEW s \in {state[o], [NewState EXCEPT !.id = c]}
  PROVE  s.texts \subseteq state[o].texts /\ s.prompt \subseteq state[o].prompt
BY DEF NewState

\* The finally block drops the prompt of its object, and all its texts if there are none.
LEMMA FinallyEffect ==
  ASSUME TypeOK, NEW o \in Obj, Finally(o)
  PROVE  /\ \A p \in Obj \ {o} : state'[p] = state[p]
         /\ state'[o].texts = state[o].texts /\ state'[o].prompt = {}
<1>1. state \in [Obj -> ConversationState] /\ state[o] \in ConversationState
  BY DEF TypeOK
<1>2. Landed(state[o]).texts = state[o].texts /\ Landed(state[o]).prompt = {}
  BY <1>1 DEF Landed, ConversationState
<1>3. MayDrop(o) => state[o].texts = NewState.texts
  BY DEF MayDrop, NewState
<1>4. \/ state' = [state EXCEPT ![o] = Landed(state[o])]
      \/ MayDrop(o) /\ state' = [state EXCEPT ![o] = NewState]
  BY <1>1 DEF Finally
<1> QED BY <1>1, <1>2, <1>3, <1>4 DEF NewState

\* Spending a timer moves no text.
LEMMA SpentEffect ==
  ASSUME TypeOK, NEW o \in Obj
  PROVE  /\ Spent(o) \in [Obj -> ConversationState]
         /\ \A p \in Obj : /\ Spent(o)[p].texts = state[p].texts
                           /\ Spent(o)[p].prompt = state[p].prompt
                           /\ p # o => Spent(o)[p] = state[p]
<1>1. state \in [Obj -> ConversationState] BY DEF TypeOK
<1>2. Disarmed(state[o]) \in ConversationState BY <1>1 DEF Disarmed, ConversationState
<1>3. /\ Disarmed(state[o]).texts = state[o].texts
      /\ Disarmed(state[o]).prompt = state[o].prompt
  BY <1>1 DEF Disarmed, ConversationState
<1> QED BY <1>1, <1>2, <1>3 DEF Spent

-----------------------------------------------------------------------------
(* Names: an object of the map carries the id it is listed under.          *)

\* The map lists an object under its own id only.
NamesAgree == \A c \in Conv : conversations[c] # None => state[conversations[c]].id = c

\* An object something still waits on: texts, a timer or a flush in flight.
Live(s) == s.texts # {} \/ s.timerAt > 0 \/ s.stage # "idle"

\* Such an object belongs to a conversation, listed or not.
LiveIsNamed == \A o \in Obj : Live(state[o]) => state[o].id \in Conv

NamesInv == TypeOK /\ NamesAgree /\ LiveIsNamed

\* The texts a queue keeps of its old ones and new ones, the queue with them, and
\* what becomes of the others.
KeptTexts(s, new) == Newest(s.texts \cup new, MaxBatch)
Grown(s, new) == [s EXCEPT !.texts = KeptTexts(s, new), !.firstAt = IF @ = 0 THEN now ELSE @]
GrownHistory(s, new, h) ==
  Mark(Mark(h, new, "queued"), (s.texts \cup new) \ KeptTexts(s, new), "trimmed")
Timed(s, new) == Armed(Grown(s, new), BatchDeadline(Grown(s, new)))

\* What enqueue() makes of the fields s: nothing when muted, or the longer queue,
\* waiting for the end of the pause or of the batch, or flushed at once.
Enqueued(s, t, new, h) ==
  \/ t = s /\ s.mutedUntil > now /\ msgs' = Mark(h, new, "ignored")
  \/ /\ s.mutedUntil <= now
     /\ \/ /\ t = Armed(Grown(s, new), s.pausedUntil) /\ s.pausedUntil > now
           /\ msgs' = GrownHistory(s, new, h)
        \/ t = Timed(s, new) /\ msgs' = GrownHistory(s, new, h)
        \/ Flushed(Timed(s, new), t, GrownHistory(s, new, h))

\* A grown queue has the fields of an object and keeps all but texts and first arrival.
LEMMA GrownType ==
  ASSUME NEW s \in ConversationState, NEW new \in SUBSET Msg, now \in Nat
  PROVE  /\ Grown(s, new) \in ConversationState
         /\ Timed(s, new) \in ConversationState
         /\ Armed(Grown(s, new), s.pausedUntil) \in ConversationState
         /\ Grown(s, new).texts = KeptTexts(s, new)
         /\ Grown(s, new).firstAt = IF s.firstAt = 0 THEN now ELSE s.firstAt
         /\ Grown(s, new).id = s.id /\ Grown(s, new).epoch = s.epoch
         /\ Grown(s, new).pausedUntil = s.pausedUntil
         /\ Grown(s, new).mutedUntil = s.mutedUntil
         /\ Grown(s, new).stage = s.stage
<1>1. KeptTexts(s, new) \in SUBSET Msg
  BY DEF KeptTexts, Newest, ConversationState
<1>2. Grown(s, new) \in ConversationState
  BY <1>1, FieldsType DEF Grown
<1>3. Timed(s, new) \in ConversationState
  BY <1>2, DeadlineType, ArmedType DEF Timed
<1>4. Armed(Grown(s, new), s.pausedUntil) \in ConversationState
  BY <1>2, ArmedType DEF ConversationState
<1> QED BY <1>2, <1>3, <1>4 DEF Grown, ConversationState

\* Arming changes the timer only.
LEMMA ArmedEffect ==
  ASSUME NEW s \in ConversationState, NEW at \in Nat, now \in Nat
  PROVE  /\ Armed(s, at).id = s.id /\ Armed(s, at).texts = s.texts
         /\ Armed(s, at).firstAt = s.firstAt
         /\ Armed(s, at).pausedUntil = s.pausedUntil
         /\ Armed(s, at).mutedUntil = s.mutedUntil
         /\ Armed(s, at).epoch = s.epoch /\ Armed(s, at).timerEpoch = s.epoch
         /\ Armed(s, at).timerAt = Greater(at, now)
         /\ Armed(s, at).stage = s.stage /\ Armed(s, at).prompt = s.prompt
BY DEF Armed, ConversationState

LEMMA EnqueueEffect ==
  ASSUME state \in [Obj -> ConversationState], now \in Nat,
         NEW o \in Obj, NEW s \in ConversationState, NEW new \in SUBSET Msg,
         NEW h, EnqueueOn(o, s, new, h)
  PROVE  \E t \in ConversationState :
           /\ state' = [state EXCEPT ![o] = t] /\ Enqueued(s, t, new, h)
           /\ t.id = s.id /\ t.epoch = s.epoch
           /\ t.pausedUntil = s.pausedUntil /\ t.mutedUntil = s.mutedUntil
<1> DEFINE q == Grown(s, new)
           hq == GrownHistory(s, new, h)
           timed == Timed(s, new)
           paused == Armed(q, s.pausedUntil)
<1>1. /\ q \in ConversationState /\ timed \in ConversationState
      /\ paused \in ConversationState /\ q.pausedUntil = s.pausedUntil
  BY GrownType
<1>2. \A t \in {timed, paused} : /\ t.id = s.id /\ t.epoch = s.epoch
                                 /\ t.pausedUntil = s.pausedUntil
                                 /\ t.mutedUntil = s.mutedUntil
  <2>1. BatchDeadline(q) \in Nat /\ s.pausedUntil \in Nat
    BY <1>1, DeadlineType DEF ConversationState
  <2> QED BY <1>1, <2>1, GrownType, ArmedEffect DEF Timed
<1>3. \/ s.mutedUntil > now /\ state' = [state EXCEPT ![o] = s] /\ msgs' = Mark(h, new, "ignored")
      \/ /\ s.mutedUntil <= now /\ s.pausedUntil > now
         /\ state' = [state EXCEPT ![o] = paused] /\ msgs' = hq
      \/ s.mutedUntil <= now /\ state' = [state EXCEPT ![o] = timed] /\ msgs' = hq
      \/ s.mutedUntil <= now /\ Flush(o, timed, state, hq)
  BY <1>1 DEF EnqueueOn, Grown, GrownHistory, KeptTexts, Timed
<1>4. CASE s.mutedUntil > now /\ state' = [state EXCEPT ![o] = s] /\ msgs' = Mark(h, new, "ignored")
  BY <1>4 DEF Enqueued
<1>5. CASE /\ s.mutedUntil <= now /\ s.pausedUntil > now
           /\ state' = [state EXCEPT ![o] = paused] /\ msgs' = hq
  <2>1. Enqueued(s, paused, new, h) BY <1>5 DEF Enqueued
  <2> QED BY <1>1, <1>2, <1>5, <2>1
<1>6. CASE s.mutedUntil <= now /\ state' = [state EXCEPT ![o] = timed] /\ msgs' = hq
  <2>1. Enqueued(s, timed, new, h) BY <1>6 DEF Enqueued
  <2> QED BY <1>1, <1>2, <1>6, <2>1
<1>7. CASE s.mutedUntil <= now /\ Flush(o, timed, state, hq)
  <2> HIDE DEF timed, hq
  <2>1. PICK t \in ConversationState : state' = [state EXCEPT ![o] = t] /\ Flushed(timed, t, hq)
    BY <1>1, <1>7, FlushEffect
  <2>2. /\ t.id = timed.id /\ t.epoch = timed.epoch
        /\ t.pausedUntil = timed.pausedUntil /\ t.mutedUntil = timed.mutedUntil
    BY <2>1 DEF Flushed
  <2>3. Enqueued(s, t, new, h) BY <1>7, <2>1 DEF Enqueued, timed, hq
  <2> QED BY <1>2, <2>1, <2>2, <2>3
<1> QED BY <1>3, <1>4, <1>5, <1>6, <1>7

\* The map takes the object o in for c, or goes on listing it there.
LEMMA NamesTake ==
  ASSUME NamesInv, NEW c \in Conv, NEW o \in Obj, NEW s, Ensure(c, o, s),
         conversations' = [conversations EXCEPT ![c] = o],
         state'[o].id = c,
         \A p \in Obj \ {o} : /\ state'[p].id = state[p].id
                              /\ Live(state'[p]) => Live(state[p])
  PROVE  NamesAgree' /\ LiveIsNamed'
<1>1. conversations \in [Conv -> Obj \cup {None}] BY DEF NamesInv, TypeOK
<1>2. \A d \in Conv : d # c => conversations[d] # o
  BY <1>1, RouterAssumption DEF Ensure, Unused, NamesInv, NamesAgree
<1>3. \A d \in Conv : d # c => conversations'[d] = conversations[d]
  BY <1>1
<1>4. NamesAgree'
  BY <1>1, <1>2, <1>3 DEF NamesAgree, NamesInv
<1>5. LiveIsNamed'
  BY DEF LiveIsNamed, NamesInv
<1> QED BY <1>4, <1>5

\* The map lists what it listed or less, and its objects keep their names.
LEMMA NamesKeep ==
  ASSUME NamesInv, \A d \in Conv : conversations'[d] \in {conversations[d], None},
         \A p \in Obj :
           \/ /\ state'[p].id = state[p].id
              /\ Live(state'[p]) => Live(state[p]) \/ state[p].id \in Conv
           \/ ~Live(state'[p]) /\ \A d \in Conv : conversations'[d] # p
  PROVE  NamesAgree' /\ LiveIsNamed'
<1>1. NamesAgree'
  <2>1. SUFFICES ASSUME NEW d \in Conv, conversations'[d] # None
                 PROVE  state'[conversations'[d]].id = d
    BY DEF NamesAgree
  <2>2. conversations'[d] = conversations[d] /\ conversations[d] \in Obj
    BY <2>1 DEF NamesInv, TypeOK
  <2> QED BY <2>1, <2>2 DEF NamesInv, NamesAgree
<1>2. LiveIsNamed'
  BY DEF LiveIsNamed, NamesInv
<1> QED BY <1>1, <1>2

\* An object that is due belongs to a conversation; the map lists the object of that
\* name, if it lists one.
LEMMA DueIsNamed ==
  ASSUME NamesInv, NEW o \in Obj, Due(o)
  PROVE  /\ state[o].id \in Conv
         /\ conversations[state[o].id] # None =>
              /\ conversations[state[o].id] \in Obj
              /\ state[conversations[state[o].id]].id = state[o].id
BY DEF NamesInv, LiveIsNamed, NamesAgree, Live, Due, TypeOK

\* Spending a timer changes that timer only.
LEMMA SpentFields ==
  ASSUME TypeOK, NEW o \in Obj, NEW p \in Obj
  PROVE  /\ Spent(o)[p] \in ConversationState
         /\ Spent(o)[p].id = state[p].id /\ Spent(o)[p].texts = state[p].texts
         /\ Spent(o)[p].stage = state[p].stage /\ Spent(o)[p].prompt = state[p].prompt
         /\ Spent(o)[p].firstAt = state[p].firstAt
         /\ Spent(o)[p].pausedUntil = state[p].pausedUntil
         /\ Spent(o)[p].mutedUntil = state[p].mutedUntil
         /\ Spent(o)[p].epoch = state[p].epoch
         /\ p # o => Spent(o)[p] = state[p]
         /\ p = o => Spent(o)[p].timerAt = 0
<1>1. state \in [Obj -> ConversationState] BY DEF TypeOK
<1>2. Spent(o)[p] = IF p = o THEN Disarmed(state[o]) ELSE state[p]
  BY <1>1 DEF Spent
<1>3. Disarmed(state[o]) \in ConversationState BY <1>1 DEF Disarmed, ConversationState
<1> QED BY <1>1, <1>2, <1>3 DEF Disarmed, ConversationState

\* An object of ensure() is named after its conversation.
LEMMA EnsureNamed ==
  ASSUME NamesInv, NEW c \in Conv, NEW o \in Obj, NEW s, Ensure(c, o, s)
  PROVE  s.id = c /\ s \in ConversationState
<1>1. CASE conversations[c] = o /\ s = state[o]
  BY <1>1, RouterAssumption DEF NamesInv, NamesAgree, TypeOK
<1>2. CASE s = [NewState EXCEPT !.id = c]
  BY <1>2, NewStateType DEF NewState
<1> QED BY <1>1, <1>2 DEF Ensure

\* The finally block gives its object up or keeps its name.
LEMMA FinallyNames ==
  ASSUME NamesInv, NEW o \in Obj, state[o].stage # "idle", Finally(o)
  PROVE  NamesAgree' /\ LiveIsNamed'
<1>1. state[o] \in ConversationState /\ state \in [Obj -> ConversationState]
  BY DEF NamesInv, TypeOK
<1>2. state[o].id \in Conv /\ (\A d \in Conv : d # state[o].id => conversations[d] # o)
  BY RouterAssumption DEF NamesInv, LiveIsNamed, Live, NamesAgree
<1>3. /\ Landed(state[o]).id = state[o].id /\ Landed(state[o]).texts = state[o].texts
      /\ Landed(state[o]).timerAt = state[o].timerAt
  BY <1>1 DEF Landed, ConversationState
<1>4. CASE /\ conversations' = [conversations EXCEPT ![state[o].id] = None]
           /\ state' = [state EXCEPT ![o] = NewState]
  <2>1. ~Live(state'[o]) BY <1>1, <1>4 DEF NewState, Live
  <2>2. \A d \in Conv : conversations'[d] \in {conversations[d], None} /\ conversations'[d] # o
    BY <1>2, <1>4, RouterAssumption DEF NamesInv, TypeOK
  <2>3. \A p \in Obj \ {o} : state'[p] = state[p] BY <1>4
  <2> QED BY <2>1, <2>2, <2>3, NamesKeep
<1>5. CASE /\ \A d \in Conv : conversations'[d] \in {conversations[d], None}
           /\ state' = [state EXCEPT ![o] = Landed(state[o])]
  <2>1. state'[o].id = state[o].id BY <1>1, <1>3, <1>5
  <2>2. \A p \in Obj \ {o} : state'[p] = state[p] BY <1>5
  <2> QED BY <1>2, <1>5, <2>1, <2>2, NamesKeep
<1>6. \/ /\ conversations' = [conversations EXCEPT ![state[o].id] = None]
         /\ \/ state' = [state EXCEPT ![o] = NewState]
            \/ state' = [state EXCEPT ![o] = Landed(state[o])]
      \/ UNCHANGED conversations /\ state' = [state EXCEPT ![o] = Landed(state[o])]
  BY <1>1 DEF Finally
<1>7. conversations' = [conversations EXCEPT ![state[o].id] = None] \/ UNCHANGED conversations
        => \A d \in Conv : conversations'[d] \in {conversations[d], None}
  BY DEF NamesInv, TypeOK
<1> QED BY <1>4, <1>5, <1>6, <1>7

\* Every step keeps the names in order.
LEMMA NamesStep ==
  ASSUME NamesInv, [Next]_vars
  PROVE  NamesAgree' /\ LiveIsNamed'
<1>n. /\ now \in Nat /\ msgs \in History /\ state \in [Obj -> ConversationState]
      /\ arrived \in Nat /\ TypeOK
  BY RouterAssumption DEF NamesInv, TypeOK, History
<1>1. ASSUME NEW c \in Conv, NEW k \in 1..MaxMsgs, Enqueue(c, k)
      PROVE  NamesAgree' /\ LiveIsNamed'
  <2> DEFINE new == (arrived + 1)..(arrived + k)
             seen == [m \in Msg |-> IF m \notin new THEN msgs[m]
                                    ELSE [from |-> c, at |-> now, fate |-> "future"]]
  <2>1. PICK o \in Obj : \E s \in {state[o], [NewState EXCEPT !.id = c]} :
          /\ Ensure(c, o, s) /\ conversations' = [conversations EXCEPT ![c] = o]
          /\ EnqueueOn(o, s, new, seen)
    BY <1>1 DEF Enqueue
  <2>2. PICK s : /\ Ensure(c, o, s) /\ conversations' = [conversations EXCEPT ![c] = o]
                 /\ EnqueueOn(o, s, new, seen)
    BY <2>1
  <2>3. new \in SUBSET Msg BY <1>n, <1>1, RouterAssumption DEF Enqueue, Msg
  <2>4. s \in ConversationState /\ s.id = c BY <2>2, EnsureNamed
  <2> HIDE DEF new, seen
  <2>5. PICK t \in ConversationState : state' = [state EXCEPT ![o] = t] /\ t.id = s.id
    BY <1>n, <2>2, <2>3, <2>4, EnqueueEffect
  <2>6. state'[o].id = c /\ \A p \in Obj \ {o} : state'[p] = state[p]
    BY <1>n, <2>4, <2>5
  <2> QED BY <2>2, <2>6, NamesTake
<1>2. ASSUME NEW c \in Conv, NEW d \in PauseFor, Pause(c, d)
      PROVE  NamesAgree' /\ LiveIsNamed'
  <2>1. PICK o \in Obj : \E s \in {state[o], [NewState EXCEPT !.id = c]} :
          /\ Ensure(c, o, s) /\ conversations' = [conversations EXCEPT ![c] = o]
          /\ state' = [state EXCEPT ![o] = Paused(s, now + d)]
    BY <1>2 DEF Pause
  <2>2. PICK s : /\ Ensure(c, o, s) /\ conversations' = [conversations EXCEPT ![c] = o]
                 /\ state' = [state EXCEPT ![o] = Paused(s, now + d)]
    BY <2>1
  <2>3. s \in ConversationState /\ s.id = c BY <2>2, EnsureNamed
  <2>4. Paused(s, now + d).id = c BY <2>3 DEF Paused, Armed, ConversationState
  <2>5. state'[o].id = c /\ \A p \in Obj \ {o} : state'[p] = state[p]
    BY <1>n, <2>2, <2>4
  <2> QED BY <2>2, <2>5, NamesTake
<1>3. ASSUME NEW c \in Conv, NEW d \in MuteFor, Mute(c, d)
      PROVE  NamesAgree' /\ LiveIsNamed'
  <2>1. PICK o \in Obj : \E s \in {state[o], [NewState EXCEPT !.id = c]} :
          /\ Ensure(c, o, s) /\ conversations' = [conversations EXCEPT ![c] = o]
          /\ state' = [state EXCEPT ![o] = Muted(s, now + d)]
    BY <1>3 DEF Mute
  <2>2. PICK s : /\ Ensure(c, o, s) /\ conversations' = [conversations EXCEPT ![c] = o]
                 /\ state' = [state EXCEPT ![o] = Muted(s, now + d)]
    BY <2>1
  <2>3. s \in ConversationState /\ s.id = c BY <2>2, EnsureNamed
  <2>4. Muted(s, now + d).id = c BY <2>3 DEF Muted, Emptied, Disarmed, ConversationState
  <2>5. state'[o].id = c /\ \A p \in Obj \ {o} : state'[p] = state[p]
    BY <1>n, <2>2, <2>4
  <2> QED BY <2>2, <2>5, NamesTake
<1>4. CASE Dispose
  <2>1. \A o \in Obj : \/ state'[o] = state[o] \/ state'[o] = NewState
                       \/ state[o].stage # "idle" /\ state'[o] = Dropped(state[o])
    BY <1>4 DEF Dispose
  <2>2. \A o \in Obj : Dropped(state[o]).id = state[o].id
    BY <1>n DEF Dropped, Disarmed, ConversationState
  <2>3. \A d \in Conv : conversations'[d] = None BY <1>4 DEF Dispose
  <2>4. ~Live(NewState) BY DEF Live, NewState
  <2>5. \A o \in Obj : None # o BY RouterAssumption
  <2>6. \A o \in Obj : \/ /\ state'[o].id = state[o].id
                          /\ Live(state'[o]) => Live(state[o])
                       \/ ~Live(state'[o]) /\ \A d \in Conv : conversations'[d] # o
    BY <2>1, <2>2, <2>3, <2>4, <2>5 DEF Live
  <2> QED BY <2>3, <2>6, NamesKeep
<1>5. ASSUME NEW o \in Obj, TimerStale(o) PROVE NamesAgree' /\ LiveIsNamed'
  <2>1. state' = Spent(o) /\ conversations' = conversations BY <1>5 DEF TimerStale
  <2>2. \A p \in Obj : state'[p].id = state[p].id BY <1>n, <2>1, SpentFields
  <2>3. \A p \in Obj : Live(state'[p]) => Live(state[p])
    BY <1>n, <2>1, SpentFields DEF Live
  <2> QED BY <2>1, <2>2, <2>3, NamesKeep
<1>6. ASSUME NEW o \in Obj, TimerRearm(o) PROVE NamesAgree' /\ LiveIsNamed'
  <2> DEFINE c == state[o].id
  <2>1. c \in Conv BY <1>6, DueIsNamed DEF TimerRearm
  <2>2. PICK p \in Obj : \E s \in {state[p], [NewState EXCEPT !.id = c]} :
          /\ Ensure(c, p, s) /\ conversations' = [conversations EXCEPT ![c] = p]
          /\ state' = [Spent(o) EXCEPT ![p] = Armed(s, RearmAt(o))]
    BY <1>6 DEF TimerRearm
  <2>3. PICK s : /\ Ensure(c, p, s) /\ conversations' = [conversations EXCEPT ![c] = p]
                 /\ state' = [Spent(o) EXCEPT ![p] = Armed(s, RearmAt(o))]
    BY <2>2
  <2>4. s \in ConversationState /\ s.id = c BY <2>1, <2>3, EnsureNamed
  <2>5. RearmAt(o) \in Nat
    BY <1>n, RouterAssumption DEF RearmAt, ConversationState
  <2>6. Armed(s, RearmAt(o)).id = c BY <1>n, <2>4, <2>5, ArmedEffect
  <2>7. Spent(o) \in [Obj -> ConversationState] BY <1>n, SpentEffect
  <2>8. state'[p].id = c /\ \A q \in Obj \ {p} : state'[q] = Spent(o)[q]
    BY <2>3, <2>6, <2>7
  <2>9. \A q \in Obj \ {p} : state'[q].id = state[q].id /\ (Live(state'[q]) => Live(state[q]))
    BY <1>n, <2>8, SpentFields DEF Live
  <2> QED BY <2>1, <2>3, <2>8, <2>9, NamesTake
<1>7. ASSUME NEW o \in Obj, TimerFlush(o) PROVE NamesAgree' /\ LiveIsNamed'
  <2> DEFINE c == state[o].id
             p == conversations[c]
             sp == Spent(o)
  <2>1. c \in Conv /\ (p # None => p \in Obj /\ state[p].id = c)
    BY <1>7, DueIsNamed DEF TimerFlush
  <2>2. sp \in [Obj -> ConversationState] BY <1>n, SpentEffect
  <2>3. \A q \in Obj : sp[q].id = state[q].id /\ (Live(sp[q]) => Live(state[q]))
    BY <1>n, SpentFields DEF Live
  <2>4. CASE state' = sp /\ UNCHANGED conversations
    BY <2>3, <2>4, NamesKeep
  <2>5. CASE p # None /\ Flush(p, sp[p], sp, msgs) /\ UNCHANGED conversations
    <3>1. p \in Obj /\ sp[p] \in ConversationState BY <2>1, <2>2, <2>5
    <3> HIDE DEF sp, p
    <3>2. PICK t \in ConversationState : state' = [sp EXCEPT ![p] = t] /\ Flushed(sp[p], t, msgs)
      BY <1>n, <2>5, <3>1, FlushEffect
    <3>3. state'[p].id = sp[p].id /\ \A q \in Obj \ {p} : state'[q] = sp[q]
      BY <2>2, <3>1, <3>2 DEF Flushed
    <3>4. \A q \in Obj : /\ state'[q].id = state[q].id
                         /\ Live(state'[q]) => Live(state[q]) \/ state[q].id \in Conv
      BY <2>1, <2>3, <2>5, <3>1, <3>3
    <3> QED BY <2>5, <3>4, NamesKeep
  <2>6. CASE /\ p # None /\ conversations' = [conversations EXCEPT ![c] = None]
             /\ state' = [sp EXCEPT ![p] = NewState]
    <3>1. p \in Obj BY <2>1, <2>6
    <3>2. \A d \in Conv : d # c => conversations[d] # p
      BY <2>1, <2>6, RouterAssumption DEF NamesInv, NamesAgree
    <3>3. \A d \in Conv : conversations'[d] \in {conversations[d], None} /\ conversations'[d] # p
      BY <1>n, <2>1, <2>6, <3>1, <3>2, RouterAssumption DEF TypeOK
    <3>4. state'[p] = NewState /\ \A q \in Obj \ {p} : state'[q] = sp[q]
      BY <2>2, <2>6, <3>1
    <3>5. ~Live(NewState) BY DEF Live, NewState
    <3> HIDE DEF sp, p
    <3> QED BY <2>3, <3>3, <3>4, <3>5, NamesKeep
  <2> QED BY <1>7, <2>4, <2>5, <2>6 DEF TimerFlush
<1>8. ASSUME NEW o \in Obj, GenerateDone(o) PROVE NamesAgree' /\ LiveIsNamed'
  <2>1. \A q \in Obj : /\ state'[q].id = state[q].id
                       /\ Live(state'[q]) => Live(state[q])
    BY <1>n, <1>8 DEF GenerateDone, ConversationState, Live
  <2> QED BY <1>8, <2>1, NamesKeep DEF GenerateDone
<1>9. ASSUME NEW o \in Obj, GenerateNothing(o) \/ FlushFailed(o) \/ Delivered(o)
      PROVE  NamesAgree' /\ LiveIsNamed'
  BY <1>9, FinallyNames DEF GenerateNothing, FlushFailed, Delivered
<1>10. CASE SetEligible \/ Tick \/ UNCHANGED vars
  <2>1. conversations' = conversations /\ state' = state
    BY <1>10 DEF SetEligible, Tick, vars
  <2> QED BY <2>1, NamesKeep
<1> QED
  BY <1>1, <1>2, <1>3, <1>4, <1>5, <1>6, <1>7, <1>8, <1>9, <1>10
     DEF Next, TimerCallback, FlushStep

\* Names in order, every text in one place, and none enqueued before its time.
PlacesInv == NamesInv /\ OnePlacePerText /\ Unseen

\* A text moves forward only.
Forward ==
  \A m \in Msg : LET f == msgs[m].fate
                     g == msgs'[m].fate
                 IN \/ g = f
                    \/ f = "future"
                    \/ f = "queued" /\ g \in Onward
                    \/ f = "prompted" /\ g = "answered"

\* A step that moves the texts of one object moves them forward.
LEMMA MovesGoForward ==
  ASSUME OnePlacePerText, NEW o \in Obj, NEW S, \A m \in S : msgs[m].fate = "future",
         Moves(o, S)
  PROVE  Forward
BY DEF Forward, Moves, OnePlacePerText

\* Every step keeps each text in one place, leaves the texts to come alone and moves
\* the others forward: one case per operation of the router.
LEMMA PlacesStep ==
  ASSUME PlacesInv, [Next]_vars
  PROVE  OnePlacePerText' /\ Unseen' /\ Forward
<1>n. /\ now \in Nat /\ msgs \in History /\ state \in [Obj -> ConversationState]
      /\ arrived \in Nat /\ OnePlacePerText /\ Unseen /\ TypeOK
  BY RouterAssumption DEF PlacesInv, NamesInv, TypeOK, History
<1>m. ASSUME NEW o \in Obj, Moves(o, {}), arrived' = arrived
      PROVE  OnePlacePerText' /\ Unseen' /\ Forward
  <2>1. OnePlacePerText' BY <1>n, <1>m, MovesKeepPlaces
  <2>2. Forward BY <1>n, <1>m, MovesGoForward
  <2>3. Unseen'
    <3>1. \A m \in Msg : msgs[m].fate = "future" => msgs'[m].fate = "future"
      BY <1>n, <1>m DEF Moves, OnePlacePerText
    <3> QED BY <1>n, <1>m, <3>1 DEF Unseen
  <2> QED BY <2>1, <2>2, <2>3
<1>s. ASSUME \A p \in Obj : /\ state'[p].texts \subseteq state[p].texts
                            /\ state'[p].prompt \subseteq state[p].prompt,
             msgs' = msgs, arrived' = arrived
      PROVE  OnePlacePerText' /\ Unseen' /\ Forward
  BY <1>n, <1>s, StillKeepsPlaces DEF Unseen, Forward
<1>1. ASSUME NEW c \in Conv, NEW k \in 1..MaxMsgs, Enqueue(c, k)
      PROVE  OnePlacePerText' /\ Unseen' /\ Forward
  <2> DEFINE new == (arrived + 1)..(arrived + k)
             seen == [m \in Msg |-> IF m \in new
                                    THEN [from |-> c, at |-> now, fate |-> "future"]
                                    ELSE msgs[m]]
  <2>1. PICK o \in Obj : \E s \in {state[o], [NewState EXCEPT !.id = c]} :
          EnqueueOn(o, s, new, seen)
    BY <1>1 DEF Enqueue
  <2>2. PICK s \in {state[o], [NewState EXCEPT !.id = c]} : EnqueueOn(o, s, new, seen)
    BY <2>1
  <2>3. new \in SUBSET Msg /\ arrived' = arrived + k /\ k \in Nat
    BY <1>n, <1>1, RouterAssumption DEF Enqueue, Msg
  <2>4. \A m \in new : msgs[m].fate = "future"
    BY <1>n, <2>3 DEF Unseen
  <2>5. seen \in History BY <1>n DEF History, Fate
  <2>6. \A m \in Msg : seen[m].fate = msgs[m].fate
    BY <2>4
  <2>7. Moves(o, new)
    <3>1. s \in ConversationState BY <1>n, EnsureType
    <3>2. s.texts \subseteq state[o].texts /\ s.prompt \subseteq state[o].prompt
      BY <1>n, EnsureEffect
    <3> HIDE DEF new, seen
    <3> QED BY <1>n, <2>2, <2>3, <2>4, <2>5, <2>6, <3>1, <3>2, EnqueueMoves
  <2>8. OnePlacePerText' BY <1>n, <2>3, <2>4, <2>7, MovesKeepPlaces
  <2>9. Forward BY <1>n, <2>4, <2>7, MovesGoForward
  <2>10. Unseen'
    <3>1. \A m \in Msg : msgs[m].fate = "future" /\ m \notin new => msgs'[m].fate = "future"
      BY <1>n, <2>7 DEF Moves, OnePlacePerText
    <3>2. \A m \in Msg : m > arrived' => m > arrived /\ m \notin new
      BY <1>n, <2>3 DEF Msg
    <3> QED BY <1>n, <3>1, <3>2 DEF Unseen
  <2> QED BY <2>8, <2>9, <2>10
<1>2. ASSUME NEW c \in Conv, NEW d \in PauseFor, Pause(c, d)
      PROVE  OnePlacePerText' /\ Unseen' /\ Forward
  <2>1. PICK o \in Obj : \E s \in {state[o], [NewState EXCEPT !.id = c]} :
          state' = [state EXCEPT ![o] = Paused(s, now + d)]
    BY <1>2 DEF Pause
  <2>2. PICK s \in {state[o], [NewState EXCEPT !.id = c]} :
          state' = [state EXCEPT ![o] = Paused(s, now + d)]
    BY <2>1
  <2>3. s \in ConversationState BY <1>n, EnsureType
  <2>4. Paused(s, now + d).texts = s.texts /\ Paused(s, now + d).prompt = s.prompt
    BY <2>3 DEF Paused, Armed, ConversationState
  <2>5. s.texts \subseteq state[o].texts /\ s.prompt \subseteq state[o].prompt
    BY <1>n, EnsureEffect
  <2> QED BY <1>n, <1>s, <1>2, <2>2, <2>4, <2>5 DEF Pause
<1>3. ASSUME NEW c \in Conv, NEW d \in MuteFor, Mute(c, d)
      PROVE  OnePlacePerText' /\ Unseen' /\ Forward
  <2>1. PICK o \in Obj : \E s \in {state[o], [NewState EXCEPT !.id = c]} :
          /\ state' = [state EXCEPT ![o] = Muted(s, now + d)]
          /\ msgs' = Mark(msgs, s.texts, "discarded")
    BY <1>3 DEF Mute
  <2>2. PICK s \in {state[o], [NewState EXCEPT !.id = c]} :
          /\ state' = [state EXCEPT ![o] = Muted(s, now + d)]
          /\ msgs' = Mark(msgs, s.texts, "discarded")
    BY <2>1
  <2>3. s \in ConversationState BY <1>n, EnsureType
  <2>4. Muted(s, now + d).texts = {} /\ Muted(s, now + d).prompt = s.prompt
    BY <2>3 DEF Muted, Emptied, Disarmed, ConversationState
  <2>5. s.texts \subseteq state[o].texts /\ s.prompt \subseteq state[o].prompt
    BY <1>n, EnsureEffect
  <2>6. \A m \in Msg : msgs'[m].fate = IF m \in s.texts THEN "discarded" ELSE msgs[m].fate
    BY <1>n, <2>2, MarkEffect DEF Fate
  <2>7. /\ \A p \in Obj \ {o} : state'[p] = state[p]
        /\ state'[o] = Muted(s, now + d)
    BY <1>n, <2>2
  <2>8. \A m \in s.prompt : m \in Msg /\ m \notin s.texts /\ msgs[m].fate = "prompted"
    BY <1>n, <2>3, <2>5 DEF OnePlacePerText, ConversationState
  <2>9. Moves(o, {}) BY <1>n, <2>4, <2>5, <2>6, <2>7, <2>8 DEF Moves, Onward
  <2> QED BY <1>m, <1>3, <2>9 DEF Mute
<1>4. CASE Dispose
  <2> DEFINE listed == {o \in Obj : \E c \in Conv : conversations[c] = o}
             gone == UNION {state[o].texts : o \in listed}
  <2>1. /\ state' = [o \in Obj |-> IF o \notin listed THEN state[o]
                                   ELSE IF state[o].stage = "idle" THEN NewState
                                   ELSE Dropped(state[o])]
        /\ msgs' = Mark(msgs, gone, "discarded") /\ arrived' = arrived
    BY <1>4 DEF Dispose
  <2>2. \A o \in Obj : Dropped(state[o]).texts = {} /\ Dropped(state[o]).prompt = state[o].prompt
    BY <1>n DEF Dropped, Disarmed, ConversationState
  <2>3. \A o \in Obj : /\ state'[o].texts = {} \/ (o \notin listed /\ state'[o].texts = state[o].texts)
                       /\ state'[o].prompt \subseteq state[o].prompt
    BY <2>1, <2>2 DEF NewState
  <2>4. \A m \in Msg : msgs'[m].fate = IF m \in gone THEN "discarded" ELSE msgs[m].fate
    <3> HIDE DEF gone
    <3> QED BY <1>n, <2>1, MarkEffect DEF Fate
  <2>5. \A m \in gone : msgs[m].fate = "queued"
    BY <1>n DEF OnePlacePerText
  <2>6. \A o \in Obj : o \notin listed => state[o].texts \cap gone = {}
    BY <1>n DEF OnePlacePerText
  <2>7. \A o \in Obj : state[o].texts \subseteq Msg /\ state[o].prompt \subseteq Msg
    BY <1>n DEF ConversationState
  <2> HIDE DEF listed, gone
  <2>8. OnePlacePerText'
    <3>1. \A o \in Obj : \A m \in state'[o].texts : msgs'[m].fate = "queued"
      <4>1. SUFFICES ASSUME NEW o \in Obj, NEW m \in state'[o].texts PROVE msgs'[m].fate = "queued"
        OBVIOUS
      <4>2. o \notin listed /\ m \in state[o].texts BY <2>3
      <4>3. m \in Msg /\ m \notin gone /\ msgs[m].fate = "queued"
        BY <1>n, <2>6, <2>7, <4>2 DEF OnePlacePerText
      <4> QED BY <2>4, <4>3
    <3>2. \A o \in Obj : \A m \in state'[o].prompt : msgs'[m].fate = "prompted"
      <4>1. SUFFICES ASSUME NEW o \in Obj, NEW m \in state'[o].prompt PROVE msgs'[m].fate = "prompted"
        OBVIOUS
      <4>2. m \in state[o].prompt BY <2>3
      <4>3. m \in Msg /\ msgs[m].fate = "prompted" BY <1>n, <2>7, <4>2 DEF OnePlacePerText
      <4>4. m \notin gone BY <2>5, <4>3
      <4> QED BY <2>4, <4>3, <4>4
    <3>3. \A o, p \in Obj : o # p => /\ state'[o].texts \cap state'[p].texts = {}
                                     /\ state'[o].prompt \cap state'[p].prompt = {}
      BY <1>n, <2>3 DEF OnePlacePerText
    <3> QED BY <3>1, <3>2, <3>3 DEF OnePlacePerText
  <2>9. Unseen' BY <1>n, <2>1, <2>4, <2>5 DEF Unseen
  <2>10. Forward BY <2>4, <2>5 DEF Forward, Onward
  <2> QED BY <2>8, <2>9, <2>10
<1>5. ASSUME NEW o \in Obj, TimerStale(o) PROVE OnePlacePerText' /\ Unseen' /\ Forward
  <2>1. /\ state' = Spent(o)
        /\ \A p \in Obj : Spent(o)[p].texts = state[p].texts /\ Spent(o)[p].prompt = state[p].prompt
    BY <1>n, <1>5, SpentEffect DEF TimerStale
  <2> QED BY <1>s, <1>5, <2>1 DEF TimerStale
<1>6. ASSUME NEW o \in Obj, TimerRearm(o) PROVE OnePlacePerText' /\ Unseen' /\ Forward
  <2>1. /\ RearmAt(o) \in Nat /\ state[o].id \in Conv \cup {None}
    BY <1>n, RouterAssumption DEF RearmAt, ConversationState
  <2>2. PICK p \in Obj : \E s \in {state[p], [NewState EXCEPT !.id = state[o].id]} :
          state' = [Spent(o) EXCEPT ![p] = Armed(s, RearmAt(o))]
    BY <1>6 DEF TimerRearm
  <2>3. PICK s \in {state[p], [NewState EXCEPT !.id = state[o].id]} :
          state' = [Spent(o) EXCEPT ![p] = Armed(s, RearmAt(o))]
    BY <2>2
  <2>4. s \in ConversationState BY <1>n, <2>1, EnsureType
  <2>5. Armed(s, RearmAt(o)).texts = s.texts /\ Armed(s, RearmAt(o)).prompt = s.prompt
    BY <2>1, <2>4 DEF Armed, ConversationState
  <2>6. s.texts \subseteq state[p].texts /\ s.prompt \subseteq state[p].prompt
    BY <1>n, <2>1, EnsureEffect
  <2>7. /\ Spent(o) \in [Obj -> ConversationState]
        /\ \A q \in Obj : Spent(o)[q].texts = state[q].texts /\ Spent(o)[q].prompt = state[q].prompt
    BY <1>n, SpentEffect
  <2>8. ASSUME NEW q \in Obj
        PROVE  /\ state'[q].texts \subseteq state[q].texts
               /\ state'[q].prompt \subseteq state[q].prompt
    BY <2>3, <2>5, <2>6, <2>7
  <2> QED BY <1>s, <1>6, <2>8 DEF TimerRearm
<1>7. ASSUME NEW o \in Obj, TimerFlush(o) PROVE OnePlacePerText' /\ Unseen' /\ Forward
  <2> DEFINE p == conversations[state[o].id]
             sp == Spent(o)
  <2>1. /\ sp \in [Obj -> ConversationState]
        /\ \A q \in Obj : sp[q].texts = state[q].texts /\ sp[q].prompt = state[q].prompt
    BY <1>n, SpentEffect
  <2>2. arrived' = arrived BY <1>7 DEF TimerFlush
  <2>3. CASE state' = sp /\ UNCHANGED msgs
    BY <1>s, <2>1, <2>2, <2>3
  <2>4. CASE p # None /\ Flush(p, sp[p], sp, msgs)
    <3>1. CASE p \in Obj
      <4>1. /\ sp[p] \in ConversationState /\ sp[p].texts = state[p].texts
            /\ sp[p].prompt = state[p].prompt
        BY <2>1, <3>1
      <4>2. /\ \A m \in sp[p].texts : msgs[m].fate = "queued"
            /\ \A m \in sp[p].prompt : msgs[m].fate = "prompted"
        BY <1>n, <3>1, <4>1 DEF OnePlacePerText
      <4> HIDE DEF p, sp
      <4>3. Moves(p, {}) BY <1>n, <2>1, <2>4, <3>1, <4>1, <4>2, FlushMoves
      <4> QED BY <1>m, <2>2, <3>1, <4>3
    <3>2. CASE p \notin Obj
      BY <1>7, <2>4, <3>2, DueIsNamed DEF TimerFlush, PlacesInv
    <3> QED BY <3>1, <3>2
  <2>5. CASE state' = [sp EXCEPT ![p] = NewState] /\ UNCHANGED msgs
    <3>1. \A q \in Obj : state'[q] = sp[q] \/ state'[q] = NewState BY <2>1, <2>5
    <3> QED BY <1>s, <2>1, <2>2, <2>5, <3>1 DEF NewState
  <2> QED BY <1>7, <2>3, <2>4, <2>5 DEF TimerFlush
<1>8. ASSUME NEW o \in Obj, GenerateDone(o) PROVE OnePlacePerText' /\ Unseen' /\ Forward
  <2>1. \A q \in Obj : state'[q].texts = state[q].texts /\ state'[q].prompt = state[q].prompt
    BY <1>n, <1>8 DEF GenerateDone, ConversationState
  <2> QED BY <1>s, <1>8, <2>1 DEF GenerateDone
<1>9. ASSUME NEW o \in Obj, GenerateNothing(o) \/ FlushFailed(o)
      PROVE  OnePlacePerText' /\ Unseen' /\ Forward
  <2>1. Finally(o) /\ msgs' = msgs /\ arrived' = arrived
    BY <1>9 DEF GenerateNothing, FlushFailed
  <2> QED BY <1>n, <1>s, <2>1, FinallyEffect
<1>10. ASSUME NEW o \in Obj, Delivered(o) PROVE OnePlacePerText' /\ Unseen' /\ Forward
  <2>1. /\ Finally(o) /\ msgs' = Mark(msgs, state[o].prompt, "answered")
        /\ arrived' = arrived
    BY <1>10 DEF Delivered
  <2>2. \A m \in Msg : msgs'[m].fate = IF m \in state[o].prompt THEN "answered" ELSE msgs[m].fate
    BY <1>n, <2>1, MarkEffect DEF Fate
  <2>3. /\ \A p \in Obj \ {o} : state'[p] = state[p]
        /\ state'[o].texts = state[o].texts /\ state'[o].prompt = {}
    BY <1>n, <2>1, FinallyEffect
  <2>4. \A m \in state[o].texts : m \in Msg /\ msgs[m].fate = "queued" /\ m \notin state[o].prompt
    BY <1>n DEF OnePlacePerText, ConversationState
  <2>5. Moves(o, {}) BY <2>2, <2>3, <2>4 DEF Moves
  <2> QED BY <1>m, <2>1, <2>5
<1>11. CASE SetEligible \/ Tick \/ UNCHANGED vars
  BY <1>s, <1>11 DEF SetEligible, Tick, vars
<1> QED
  BY <1>1, <1>2, <1>3, <1>4, <1>5, <1>6, <1>7, <1>8, <1>9, <1>10, <1>11
     DEF Next, TimerCallback, FlushStep

\* At the start nothing is listed and nothing queued.
LEMMA PlacesInit ==
  ASSUME Init
  PROVE  NamesAgree /\ LiveIsNamed /\ OnePlacePerText /\ Unseen
BY RouterAssumption
   DEF Init, NewState, NamesAgree, LiveIsNamed, Live, OnePlacePerText, Unseen

\* However the operations of the router interleave, each text that is queued or being
\* answered is held by one object, and no text is queued once it was prompted or
\* thrown away.
THEOREM TextsHavePlaces == Spec => []OnePlacePerText
<1>1. Init /\ TypeOK => PlacesInv
  BY PlacesInit DEF PlacesInv, NamesInv
<1>2. PlacesInv /\ [Next]_vars /\ TypeOK' => PlacesInv'
  BY PlacesStep, NamesStep DEF PlacesInv, NamesInv
<1>3. PlacesInv => OnePlacePerText
  BY DEF PlacesInv
<1> QED BY <1>1, <1>2, <1>3, TypeCorrect, PTL DEF Spec

-----------------------------------------------------------------------------
(* Backlogs and timers, until the session shuts down.                      *)

\* A text that arrived at the instant at has waited long enough when the timer of
\* the object fires: the chat was idle, the cap has passed or a pause is over.
Waited(t, at) == \/ t.timerAt >= at + BatchIdle
                 \/ t.timerAt >= t.firstAt + BatchMaxWait
                 \/ at <= t.pausedUntil

\* The fields of an object agree: a timer is armed for texts, in the present epoch,
\* neither too late nor too early; a mute leaves neither; texts are the object's own.
Sound(t, h) ==
  /\ t.timerAt > 0 => t.texts # {} /\ t.timerEpoch = t.epoch
  /\ t.mutedUntil > now => t.texts = {} /\ t.timerAt = 0
  /\ t.timerAt > now /\ t.firstAt > 0 =>
       \/ t.timerAt <= t.firstAt + Greater(BatchIdle, BatchMaxWait)
       \/ t.timerAt <= t.pausedUntil
  /\ \A m \in t.texts : h[m].from = t.id /\ h[m].at <= now
  /\ t.timerAt > 0 => \A m \in t.texts : Waited(t, h[m].at)

\* What something waits on is listed; a queued text is in a queue; a promised pause
\* is the one its object keeps.
LiveIsListed == \A o \in Obj : Live(state[o]) => conversations[state[o].id] = o
AllSound == \A o \in Obj : Sound(state[o], msgs)
QueuedIsHeld == \A m \in Msg : Queued(m) => \E o \in Obj : m \in state[o].texts
PauseKept == \A c \in Conv : pauseGranted[c] > now =>
  conversations[c] # None /\ state[conversations[c]].pausedUntil = pauseGranted[c]

Waiting == LiveIsListed /\ AllSound /\ QueuedIsHeld /\ PauseKept

\* The inductive invariant behind BacklogIsServed.
ServedInv == PlacesInv /\ (disposals = 0 => Waiting)

LEMMA ServedInit == ASSUME Init PROVE Waiting
<1>1. LiveIsListed BY DEF Init, LiveIsListed, Live, NewState
<1>2. AllSound
  BY DEF Init, AllSound, Sound, NewState
<1>3. QueuedIsHeld BY DEF Init, QueuedIsHeld, Queued
<1>4. PauseKept BY DEF Init, PauseKept
<1> QED BY <1>1, <1>2, <1>3, <1>4 DEF Waiting

\* What the invariant says in the terms of the property.
LEMMA ServedMeans ==
  ASSUME ServedInv
  PROVE  /\ BacklogIsListed /\ TimerIsCurrent /\ NoWaitBeyondCap
         /\ MutedQueuesNothing /\ PauseIsRemembered
<1>n. /\ state \in [Obj -> ConversationState] /\ now \in Nat
      /\ conversations \in [Conv -> Obj \cup {None}]
      /\ NamesAgree /\ LiveIsNamed
  BY DEF ServedInv, PlacesInv, NamesInv, TypeOK
<1> SUFFICES ASSUME disposals = 0
             PROVE  /\ BacklogIsListed /\ TimerIsCurrent /\ NoWaitBeyondCap
                    /\ MutedQueuesNothing /\ PauseIsRemembered
  BY DEF BacklogIsListed, TimerIsCurrent, NoWaitBeyondCap,
         MutedQueuesNothing, PauseIsRemembered
<1>w. LiveIsListed /\ AllSound /\ QueuedIsHeld /\ PauseKept BY DEF ServedInv, Waiting
<1>1. BacklogIsListed
  <2>1. SUFFICES ASSUME NEW m \in Msg, Queued(m)
                 PROVE  \E o \in Obj : conversations[msgs[m].from] = o /\ m \in state[o].texts
    BY DEF BacklogIsListed
  <2>2. PICK o \in Obj : m \in state[o].texts BY <1>w, <2>1 DEF QueuedIsHeld
  <2>3. msgs[m].from = state[o].id BY <1>w, <2>2 DEF AllSound, Sound
  <2> QED BY <1>w, <2>2, <2>3 DEF LiveIsListed, Live
<1>2. TimerIsCurrent BY <1>w DEF TimerIsCurrent, LiveIsListed, Live, AllSound, Sound
<1>3. NoWaitBeyondCap BY <1>w DEF NoWaitBeyondCap, AllSound, Sound
<1>4. MutedQueuesNothing BY <1>w DEF MutedQueuesNothing, AllSound, Sound
<1>5. PauseIsRemembered BY <1>n, <1>w DEF PauseIsRemembered, PauseKept
<1> QED BY <1>1, <1>2, <1>3, <1>4, <1>5

\* The texts of an object keep their origin and arrival from one history to the next.
Kept(S, h, g) == \A m \in S : g[m].from = h[m].from /\ g[m].at = h[m].at

LEMMA SoundKept ==
  ASSUME NEW t, NEW h, NEW g, Sound(t, h), Kept(t.texts, h, g)
  PROVE  Sound(t, g)
BY DEF Sound, Kept

\* An object with neither texts nor timer is sound.
LEMMA EmptySound ==
  ASSUME NEW t \in ConversationState, NEW h, t.texts = {}, t.timerAt = 0, now \in Nat
  PROVE  Sound(t, h)
BY DEF Sound

\* ensure() hands out sound fields with the texts of the object, and its pause.
LEMMA EnsureSound ==
  ASSUME NamesInv, Waiting, NEW c \in Conv, NEW o \in Obj, NEW s, Ensure(c, o, s)
  PROVE  /\ Sound(s, msgs) /\ s.texts = state[o].texts
         /\ pauseGranted[c] > now => s.pausedUntil = pauseGranted[c]
<1>n. now \in Nat /\ o # None BY RouterAssumption DEF NamesInv, TypeOK
<1>1. CASE conversations[c] = o /\ s = state[o]
  BY <1>1, <1>n DEF Waiting, AllSound, PauseKept
<1>2. CASE conversations[c] = None /\ Unused(o) /\ s = [NewState EXCEPT !.id = c]
  <2>1. s \in ConversationState /\ s.texts = {} /\ s.timerAt = 0
    BY <1>2, NewStateType DEF NewState
  <2>2. state[o].texts = {}
    BY <1>2 DEF Waiting, LiveIsListed, Live, NamesInv, LiveIsNamed, Unused
  <2> QED BY <1>2, <1>n, <2>1, <2>2, EmptySound DEF Waiting, PauseKept
<1> QED BY <1>1, <1>2 DEF Ensure

\* The queued texts after a step on o: in its queue now, or in that of another object.
Held(o, t) == \A m \in Msg : msgs'[m].fate = "queued" =>
  m \in t.texts \/ (msgs[m].fate = "queued" /\ m \notin state[o].texts)

\* A step on the one object o of the conversation c, that leaves it sound, keeps the
\* backlogs of all conversations in order.
LEMMA TakeKeeps ==
  ASSUME NamesInv, Waiting, NEW c \in Conv, NEW o \in Obj, NEW s, Ensure(c, o, s),
         conversations' = [conversations EXCEPT ![c] = o], now' = now,
         state'[o].id = c, \A p \in Obj \ {o} : state'[p] = state[p],
         \A p \in Obj : Kept(state[p].texts, msgs, msgs'),
         Sound(state'[o], msgs'), Held(o, state'[o]),
         \A d \in Conv \ {c} : pauseGranted'[d] = pauseGranted[d],
         pauseGranted'[c] > now => state'[o].pausedUntil = pauseGranted'[c]
  PROVE  Waiting'
<1>n. /\ conversations \in [Conv -> Obj \cup {None}] /\ None \notin Obj
      /\ NamesAgree /\ LiveIsNamed
      /\ LiveIsListed /\ AllSound /\ QueuedIsHeld /\ PauseKept
  BY RouterAssumption DEF NamesInv, TypeOK, Waiting
<1>1. /\ conversations'[c] = o
      /\ \A d \in Conv : d # c => conversations'[d] = conversations[d] /\ conversations[d] # o
  BY <1>n DEF NamesAgree, Ensure, Unused
<1>2. LiveIsListed'
  <2>1. ASSUME NEW p \in Obj, p # o, Live(state'[p]) PROVE conversations'[state'[p].id] = p
    <3>1. state'[p] = state[p] /\ state[p].id \in Conv /\ conversations[state[p].id] = p
      BY <1>n, <2>1 DEF LiveIsListed, LiveIsNamed
    <3>2. state[p].id # c BY <1>n, <2>1, <3>1 DEF Ensure
    <3> QED BY <1>1, <3>1, <3>2
  <2> QED BY <1>1, <2>1 DEF LiveIsListed, Live
<1>3. AllSound'
  <2>1. ASSUME NEW p \in Obj, p # o PROVE Sound(state'[p], msgs')
    BY <1>n, <2>1, SoundKept DEF AllSound
  <2>2. \A p \in Obj : Sound(state'[p], msgs') BY <2>1
  <2> QED BY <2>2 DEF AllSound, Sound
<1>4. QueuedIsHeld'
  <2>1. SUFFICES ASSUME NEW m \in Msg, msgs'[m].fate = "queued"
                 PROVE  \E p \in Obj : m \in state'[p].texts
    BY DEF QueuedIsHeld, Queued
  <2>2. CASE m \in state'[o].texts BY <2>2
  <2>3. CASE msgs[m].fate = "queued" /\ m \notin state[o].texts
    <3>1. PICK p \in Obj : m \in state[p].texts BY <1>n, <2>3 DEF QueuedIsHeld, Queued
    <3> QED BY <2>3, <3>1
  <2> QED BY <2>1, <2>2, <2>3 DEF Held
<1>5. PauseKept'
  <2>1. ASSUME NEW d \in Conv, d # c, pauseGranted'[d] > now
        PROVE  /\ conversations'[d] # None
               /\ state'[conversations'[d]].pausedUntil = pauseGranted'[d]
    <3>1. pauseGranted[d] > now /\ pauseGranted'[d] = pauseGranted[d] BY <2>1
    <3>2. conversations[d] \in Obj \ {o} /\ conversations'[d] = conversations[d]
      BY <1>n, <1>1, <2>1, <3>1 DEF PauseKept
    <3> QED BY <1>n, <3>1, <3>2 DEF PauseKept
  <2>2. pauseGranted'[c] > now =>
          /\ conversations'[c] # None
          /\ state'[conversations'[c]].pausedUntil = pauseGranted'[c]
    BY <1>n, <1>1
  <2> QED BY <2>1, <2>2 DEF PauseKept
<1> QED BY <1>2, <1>3, <1>4, <1>5 DEF Waiting

\* The deletion of an object without texts whose pause is over keeps the others in order.
LEMMA DropKeeps ==
  ASSUME NamesInv, Waiting, NEW c \in Conv, NEW o \in Obj, conversations[c] = o,
         state[o].texts = {}, state[o].pausedUntil <= now, now' = now,
         conversations' = [conversations EXCEPT ![c] = None],
         state' = [state EXCEPT ![o] = NewState],
         \A p \in Obj : Kept(state[p].texts, msgs, msgs'),
         \A m \in Msg : msgs'[m].fate = "queued" => msgs[m].fate = "queued",
         pauseGranted' = pauseGranted
  PROVE  Waiting'
<1>n. /\ conversations \in [Conv -> Obj \cup {None}] /\ None \notin Obj
      /\ state \in [Obj -> ConversationState] /\ now \in Nat
      /\ pauseGranted \in [Conv -> Nat]
      /\ NamesAgree /\ LiveIsNamed
      /\ LiveIsListed /\ AllSound /\ QueuedIsHeld /\ PauseKept
  BY RouterAssumption DEF NamesInv, TypeOK, Waiting
<1>1. /\ conversations'[c] = None /\ state[o].id = c
      /\ \A d \in Conv : d # c => conversations'[d] = conversations[d] /\ conversations[d] # o
  BY <1>n DEF NamesAgree
<1>2. state'[o] = NewState /\ \A p \in Obj \ {o} : state'[p] = state[p]
  BY <1>n
<1>3. LiveIsListed'
  <2>1. ASSUME NEW p \in Obj, p # o, Live(state'[p]) PROVE conversations'[state'[p].id] = p
    <3>1. state'[p] = state[p] /\ state[p].id \in Conv /\ conversations[state[p].id] = p
      BY <1>n, <1>2, <2>1 DEF LiveIsListed, LiveIsNamed
    <3>2. state[p].id # c BY <2>1, <3>1
    <3> QED BY <1>1, <3>1, <3>2
  <2>2. ~Live(state'[o]) BY <1>2 DEF Live, NewState
  <2> QED BY <2>1, <2>2 DEF LiveIsListed, Live
<1>4. AllSound'
  <2>1. ASSUME NEW p \in Obj, p # o PROVE Sound(state'[p], msgs')
    BY <1>n, <1>2, <2>1, SoundKept DEF AllSound
  <2>2. Sound(state'[o], msgs')
    <3>1. NewState.texts = {} /\ NewState.timerAt = 0 BY DEF NewState
    <3> QED BY <1>n, <1>2, <3>1, NewStateType, EmptySound
  <2>3. \A p \in Obj : Sound(state'[p], msgs') BY <2>1, <2>2
  <2> QED BY <2>3 DEF AllSound, Sound
<1>5. QueuedIsHeld'
  <2>1. SUFFICES ASSUME NEW m \in Msg, msgs'[m].fate = "queued"
                 PROVE  \E p \in Obj : m \in state'[p].texts
    BY DEF QueuedIsHeld, Queued
  <2>2. PICK p \in Obj : m \in state[p].texts BY <1>n, <2>1 DEF QueuedIsHeld, Queued
  <2> QED BY <1>2, <2>2
<1>6. PauseKept'
  <2>1. ASSUME NEW d \in Conv, pauseGranted[d] > now
        PROVE  /\ conversations'[d] # None
               /\ state'[conversations'[d]].pausedUntil = pauseGranted[d]
    <3>1. d # c BY <1>n, <1>1, <2>1 DEF PauseKept, ConversationState
    <3>2. conversations[d] \in Obj \ {o} /\ conversations'[d] = conversations[d]
      BY <1>n, <1>1, <2>1, <3>1 DEF PauseKept
    <3> QED BY <1>n, <1>2, <2>1, <3>2 DEF PauseKept
  <2> QED BY <2>1 DEF PauseKept
<1> QED BY <1>3, <1>4, <1>5, <1>6 DEF Waiting

\* The texts of an object were enqueued, have the age the history says, and no mute holds.
Settled(s, h) ==
  /\ s.mutedUntil > now => s.texts = {}
  /\ \A m \in s.texts : h[m].from = s.id /\ h[m].at <= now

\* A queue that waits for the end of its pause is sound.
LEMMA PausedSound ==
  ASSUME NEW s \in ConversationState, NEW h \in History, now \in Nat,
         Settled(s, h), s.texts # {}, s.pausedUntil >= now, s.pausedUntil > 0
  PROVE  Sound(Armed(s, s.pausedUntil), h)
<1> DEFINE t == Armed(s, s.pausedUntil)
<1>1. /\ t.texts = s.texts /\ t.id = s.id /\ t.epoch = s.epoch /\ t.timerEpoch = s.epoch
      /\ t.mutedUntil = s.mutedUntil /\ t.pausedUntil = s.pausedUntil
      /\ t.timerAt = Greater(s.pausedUntil, now)
      /\ s.pausedUntil \in Nat /\ s.texts \subseteq Msg
  BY ArmedEffect DEF ConversationState
<1>2. t.timerAt = s.pausedUntil BY <1>1 DEF Greater
<1>3. \A m \in s.texts : h[m].at \in Nat /\ h[m].at <= t.pausedUntil
  BY <1>1 DEF Settled, History
<1>4. s.mutedUntil > now => FALSE BY DEF Settled
<1>5. \A m \in t.texts : h[m].from = t.id /\ h[m].at <= now /\ Waited(t, h[m].at)
  BY <1>1, <1>3 DEF Settled, Waited
<1> HIDE DEF t
<1>6. Sound(t, h) BY <1>1, <1>2, <1>4, <1>5 DEF Sound
<1> QED BY <1>6 DEF t

\* What a flush leaves of sound fields is sound.
LEMMA FlushSound ==
  ASSUME NEW s \in ConversationState, NEW t \in ConversationState, NEW h \in History,
         now \in Nat, Sound(s, h), Flushed(s, t, h)
  PROVE  Sound(t, msgs')
<1>1. CASE t = s /\ msgs' = h BY <1>1
<1>2. CASE /\ t = Armed(s, s.pausedUntil) /\ s.pausedUntil > now /\ s.texts # {}
           /\ msgs' = h
  <2>1. Settled(s, h) BY DEF Settled, Sound
  <2>2. s.pausedUntil >= now /\ s.pausedUntil > 0 BY <1>2 DEF ConversationState
  <2> QED BY <1>2, <2>1, <2>2, PausedSound
<1>3. CASE t.texts = {} /\ t.timerAt = 0
  BY <1>3, EmptySound
<1> QED BY <1>1, <1>2, <1>3 DEF Flushed

\* Its texts are its own still, or not queued any more.
LEMMA FlushHeld ==
  ASSUME NEW s \in ConversationState, NEW t \in ConversationState, NEW h \in History,
         Flushed(s, t, h)
  PROVE  /\ \A m \in Msg : msgs'[m].fate = "queued" =>
              h[m].fate = "queued" /\ (m \in s.texts => m \in t.texts)
         /\ \A m \in Msg : msgs'[m].from = h[m].from /\ msgs'[m].at = h[m].at
<1>1. CASE t.texts = s.texts /\ msgs' = h BY <1>1
<1>2. ASSUME NEW f \in {"ineligible", "prompted"}, msgs' = Mark(h, s.texts, f)
      PROVE  /\ \A m \in Msg : msgs'[m].fate = "queued" =>
                  h[m].fate = "queued" /\ (m \in s.texts => m \in t.texts)
             /\ \A m \in Msg : msgs'[m].from = h[m].from /\ msgs'[m].at = h[m].at
  <2>1. f \in Fate /\ f # "queued" BY <1>2 DEF Fate
  <2> QED BY <1>2, <2>1, MarkEffect
<1>3. \/ t.texts = s.texts /\ msgs' = h
      \/ msgs' = Mark(h, s.texts, "ineligible")
      \/ msgs' = Mark(h, s.texts, "prompted")
  BY DEF Flushed, Armed, ConversationState
<1> QED BY <1>1, <1>2, <1>3

\* The newest of the new texts is kept, whatever the limit.
LEMMA NewestKept ==
  ASSUME NEW s \in ConversationState, NEW k \in Nat \ {0}, arrived \in Nat,
         \A m \in s.texts : m <= arrived
  PROVE  arrived + k \in KeptTexts(s, (arrived + 1)..(arrived + k))
<1> DEFINE all == s.texts \cup ((arrived + 1)..(arrived + k))
           top == arrived + k
<1>1. top \in all /\ all \subseteq Nat
  BY RouterAssumption DEF ConversationState, Msg
<1>2. {x \in all : x >= top} = {top}
  BY <1>1
<1>3. Cardinality({x \in all : x >= top}) <= MaxBatch
  <2>1. Cardinality({top}) = 1 BY FS_Singleton
  <2> QED BY <1>2, <2>1, RouterAssumption
<1> QED BY <1>1, <1>3 DEF KeptTexts, Newest

\* A queue that waits for its batch is sound: the timer comes neither before the idle
\* window nor beyond the cap.
LEMMA BatchSound ==
  ASSUME NEW s \in ConversationState, NEW h \in History, now \in Nat \ {0},
         Settled(s, h), s.texts # {}, s.firstAt > 0
  PROVE  Sound(Armed(s, BatchDeadline(s)), h)
<1> DEFINE t == Armed(s, BatchDeadline(s))
<1>1. /\ BatchDeadline(s) \in Nat /\ s.firstAt \in Nat /\ s.texts \subseteq Msg
      /\ BatchIdle \in Nat /\ BatchMaxWait \in Nat
  BY DeadlineType, RouterAssumption DEF ConversationState
<1>2. /\ t.texts = s.texts /\ t.id = s.id /\ t.epoch = s.epoch /\ t.timerEpoch = s.epoch
      /\ t.mutedUntil = s.mutedUntil /\ t.firstAt = s.firstAt
      /\ t.timerAt = Greater(BatchDeadline(s), now)
  BY <1>1, ArmedEffect
<1>3. ~(s.mutedUntil > now) BY DEF Settled
<1>4. t.timerAt > 0 BY <1>1, <1>2 DEF Greater
<1>5. t.timerAt > now => t.timerAt <= t.firstAt + Greater(BatchIdle, BatchMaxWait)
  <2>1. BatchDeadline(s) <= s.firstAt + BatchMaxWait
    BY <1>1 DEF BatchDeadline, Lesser
  <2>2. BatchMaxWait <= Greater(BatchIdle, BatchMaxWait) /\ Greater(BatchIdle, BatchMaxWait) \in Nat
    BY <1>1 DEF Greater
  <2>3. t.timerAt > now => t.timerAt = BatchDeadline(s)
    BY <1>1, <1>2 DEF Greater
  <2> QED BY <1>1, <1>2, <2>1, <2>2, <2>3
<1>6. \A m \in t.texts : h[m].from = t.id /\ h[m].at <= now /\ Waited(t, h[m].at)
  <2>1. SUFFICES ASSUME NEW m \in s.texts
                 PROVE  h[m].from = t.id /\ h[m].at <= now /\ Waited(t, h[m].at)
    BY <1>2
  <2>2. h[m].from = t.id /\ h[m].at <= now /\ h[m].at \in Nat
    BY <1>1, <1>2 DEF Settled, History
  <2>3. \/ BatchDeadline(s) = now + BatchIdle
        \/ BatchDeadline(s) = s.firstAt + BatchMaxWait
    BY DEF BatchDeadline, Lesser
  <2>4. t.timerAt >= BatchDeadline(s) BY <1>1, <1>2 DEF Greater
  <2>5. t.timerAt \in Nat BY <1>1, <1>2 DEF Greater
  <2>6. t.timerAt >= h[m].at + BatchIdle \/ t.timerAt >= t.firstAt + BatchMaxWait
    BY <1>1, <1>2, <2>2, <2>3, <2>4, <2>5
  <2> QED BY <2>2, <2>6 DEF Waited
<1> HIDE DEF t
<1>7. Sound(t, h) BY <1>2, <1>3, <1>4, <1>5, <1>6 DEF Sound
<1> QED BY <1>7 DEF t

\* The history after new texts were queued: who is queued, and nothing else changed.
LEMMA GrownHistoryEffect ==
  ASSUME NEW s \in ConversationState, NEW new \in SUBSET Msg, NEW h \in History
  PROVE  /\ GrownHistory(s, new, h) \in History
         /\ \A m \in Msg :
              /\ GrownHistory(s, new, h)[m].from = h[m].from
              /\ GrownHistory(s, new, h)[m].at = h[m].at
              /\ GrownHistory(s, new, h)[m].fate = "queued" =>
                   \/ m \in KeptTexts(s, new)
                   \/ m \notin s.texts /\ m \notin new /\ h[m].fate = "queued"
<1> DEFINE h1 == Mark(h, new, "queued")
           gone == (s.texts \cup new) \ KeptTexts(s, new)
<1>0. "queued" \in Fate /\ "trimmed" \in Fate BY DEF Fate
<1>1. h1 \in History BY <1>0, MarkType
<1>2. \A m \in Msg : /\ h1[m].fate = IF m \in new THEN "queued" ELSE h[m].fate
                     /\ h1[m].from = h[m].from /\ h1[m].at = h[m].at
  BY <1>0, MarkEffect
<1> HIDE DEF h1, gone
<1>3. /\ Mark(h1, gone, "trimmed") \in History
      /\ \A m \in Msg :
           /\ Mark(h1, gone, "trimmed")[m].fate = IF m \in gone THEN "trimmed" ELSE h1[m].fate
           /\ Mark(h1, gone, "trimmed")[m].from = h1[m].from
           /\ Mark(h1, gone, "trimmed")[m].at = h1[m].at
  BY <1>0, <1>1, MarkEffect, MarkType
<1>4. GrownHistory(s, new, h) = Mark(h1, gone, "trimmed") BY DEF GrownHistory, h1, gone
<1> QED BY <1>2, <1>3, <1>4 DEF gone

\* enqueue() of the texts `new' of c leaves the object sound, and every queued text in
\* a queue.
LEMMA EnqueueSound ==
  ASSUME NEW c \in Conv, NEW s \in ConversationState, NEW t \in ConversationState,
         NEW new \in SUBSET Msg, NEW h \in History, now \in Nat \ {0},
         s.id = c, Sound(s, h), KeptTexts(s, new) # {},
         \A m \in new : h[m].from = c /\ h[m].at = now /\ h[m].fate # "queued",
         Enqueued(s, t, new, h)
  PROVE  /\ Sound(t, msgs')
         /\ \A m \in Msg : msgs'[m].from = h[m].from /\ msgs'[m].at = h[m].at
         /\ \A m \in Msg : msgs'[m].fate = "queued" =>
              m \in t.texts \/ (h[m].fate = "queued" /\ m \notin s.texts)
<1>n. s.texts \subseteq Msg /\ now \in Nat /\ s.pausedUntil \in Nat BY DEF ConversationState
<1>1. CASE t = s /\ msgs' = Mark(h, new, "ignored")
  <2>1. /\ \A m \in Msg : /\ msgs'[m].fate = IF m \in new THEN "ignored" ELSE h[m].fate
                          /\ msgs'[m].from = h[m].from /\ msgs'[m].at = h[m].at
    BY <1>1, MarkEffect DEF Fate
  <2>2. Sound(t, msgs') BY <1>n, <1>1, <2>1, SoundKept DEF Kept
  <2> QED BY <1>1, <2>1, <2>2
<1>2. CASE s.mutedUntil <= now /\ ~(t = s /\ msgs' = Mark(h, new, "ignored"))
  <2> DEFINE q == Grown(s, new)
             hq == GrownHistory(s, new, h)
             kept == KeptTexts(s, new)
             timed == Timed(s, new)
             paused == Armed(q, s.pausedUntil)
  <2>1. /\ q \in ConversationState /\ timed \in ConversationState /\ paused \in ConversationState
        /\ q.texts = kept /\ q.id = c /\ q.mutedUntil = s.mutedUntil
        /\ q.pausedUntil = s.pausedUntil
        /\ q.firstAt = IF s.firstAt = 0 THEN now ELSE s.firstAt
    BY <1>n, GrownType
  <2>2. /\ hq \in History
        /\ \A m \in Msg : /\ hq[m].from = h[m].from /\ hq[m].at = h[m].at
                          /\ hq[m].fate = "queued" =>
                               m \in kept \/ (m \notin s.texts /\ m \notin new /\ h[m].fate = "queued")
    BY GrownHistoryEffect
  <2>3. kept \subseteq s.texts \cup new /\ kept \subseteq Msg
    BY <1>n DEF KeptTexts, Newest
  <2>4. Settled(q, hq)
    <3>1. ~(q.mutedUntil > now) BY <1>n, <1>2, <2>1 DEF ConversationState
    <3>2. ASSUME NEW m \in kept PROVE hq[m].from = c /\ hq[m].at <= now
      <4>1. m \in Msg /\ hq[m].from = h[m].from /\ hq[m].at = h[m].at BY <2>2, <2>3
      <4>2. CASE m \in s.texts BY <4>1, <4>2 DEF Sound
      <4>3. CASE m \in new BY <1>n, <4>1, <4>3
      <4> QED BY <2>3, <4>2, <4>3
    <3> QED BY <2>1, <3>1, <3>2 DEF Settled
  <2>5. q.firstAt > 0 BY <1>n, <2>1 DEF ConversationState
  <2>6. timed = Armed(q, BatchDeadline(q)) /\ timed.texts = kept /\ paused.texts = kept
    <3>1. BatchDeadline(q) \in Nat BY <1>n, <2>1, DeadlineType
    <3> QED BY <1>n, <2>1, <3>1, ArmedEffect DEF Timed
  <2> HIDE DEF q, hq, kept, timed, paused
  <2>7. Sound(timed, hq)
    BY <2>1, <2>2, <2>4, <2>5, <2>6, BatchSound DEF kept
  <2>8. CASE t = paused /\ s.pausedUntil > now /\ msgs' = hq
    <3>1. paused = Armed(q, q.pausedUntil) BY <2>1 DEF paused
    <3>2. q.pausedUntil >= now /\ q.pausedUntil > 0 /\ q.texts # {}
      BY <1>n, <2>1, <2>8 DEF kept
    <3>3. Sound(t, hq) BY <1>n, <2>1, <2>2, <2>4, <2>8, <3>1, <3>2, PausedSound
    <3> QED BY <2>2, <2>6, <2>8, <3>3
  <2>9. CASE t = timed /\ msgs' = hq
    BY <2>2, <2>6, <2>7, <2>9
  <2>10. CASE Flushed(timed, t, hq)
    <3>1. Sound(t, msgs') BY <1>n, <2>1, <2>2, <2>7, <2>10, FlushSound
    <3>2. \A m \in Msg : /\ msgs'[m].fate = "queued" =>
                              hq[m].fate = "queued" /\ (m \in timed.texts => m \in t.texts)
                         /\ msgs'[m].from = hq[m].from /\ msgs'[m].at = hq[m].at
      BY <2>1, <2>2, <2>10, FlushHeld
    <3> QED BY <2>2, <2>6, <3>1, <3>2
  <2> QED BY <1>2, <2>8, <2>9, <2>10 DEF Enqueued, q, hq, timed, paused
<1> QED BY <1>1, <1>2 DEF Enqueued

\* A step on an object something waits on: the map goes on listing it.
LEMMA OwnStep ==
  ASSUME NamesInv, Waiting, NEW o \in Obj, Live(state[o]),
         conversations' = conversations, now' = now, pauseGranted' = pauseGranted,
         \A p \in Obj \ {o} : state'[p] = state[p],
         state'[o].id = state[o].id, state'[o].pausedUntil = state[o].pausedUntil,
         \A p \in Obj : Kept(state[p].texts, msgs, msgs'),
         Sound(state'[o], msgs'), Held(o, state'[o])
  PROVE  Waiting'
<1> DEFINE c == state[o].id
<1>1. c \in Conv /\ conversations[c] = o
  BY DEF NamesInv, LiveIsNamed, Waiting, LiveIsListed
<1>2. Ensure(c, o, state[o]) BY <1>1 DEF Ensure
<1>3. conversations' = [conversations EXCEPT ![c] = o]
  BY <1>1 DEF NamesInv, TypeOK
<1>4. pauseGranted'[c] > now => state'[o].pausedUntil = pauseGranted'[c]
  BY <1>1 DEF Waiting, PauseKept
<1> QED BY <1>1, <1>2, <1>3, <1>4, TakeKeeps

\* Fields that agree but for the flush are sound together.
LEMMA SoundFields ==
  ASSUME NEW s, NEW t, NEW h, Sound(s, h),
         t.id = s.id, t.texts = s.texts, t.firstAt = s.firstAt,
         t.timerAt = s.timerAt, t.timerEpoch = s.timerEpoch, t.epoch = s.epoch,
         t.pausedUntil = s.pausedUntil, t.mutedUntil = s.mutedUntil
  PROVE  Sound(t, h)
BY DEF Sound, Waited

\* The end of a flush keeps the backlogs in order: new texts are not dropped with the
\* conversation.
LEMMA FinallyKeeps ==
  ASSUME NamesInv, Waiting, NEW o \in Obj, state[o].stage # "idle", Finally(o),
         now' = now, pauseGranted' = pauseGranted,
         \A m \in Msg : /\ msgs'[m].from = msgs[m].from /\ msgs'[m].at = msgs[m].at
                        /\ msgs'[m].fate = "queued" => msgs[m].fate = "queued"
  PROVE  Waiting'
<1>n. /\ state \in [Obj -> ConversationState] /\ now \in Nat /\ Live(state[o])
      /\ state[o] \in ConversationState
  BY DEF NamesInv, TypeOK, Live
<1>1. state[o].id \in Conv /\ conversations[state[o].id] = o /\ Sound(state[o], msgs)
  BY <1>n DEF NamesInv, LiveIsNamed, Waiting, LiveIsListed, AllSound
<1>2. \A p \in Obj : Kept(state[p].texts, msgs, msgs')
  BY <1>n DEF Kept, ConversationState
<1>3. CASE MayDrop(o)
  <2>1. state[o].texts = {} /\ state[o].pausedUntil <= now BY <1>3 DEF MayDrop
  <2>2. state[o].timerAt = 0 BY <1>n, <1>1, <2>1 DEF Sound, ConversationState
  <2>3. /\ conversations' = [conversations EXCEPT ![state[o].id] = None]
        /\ state' = [state EXCEPT ![o] = NewState]
    BY <1>n, <1>3, <2>2 DEF Finally
  <2> QED BY <1>1, <1>2, <2>1, <2>3, DropKeeps
<1>4. CASE ~MayDrop(o)
  <2>1. conversations' = conversations /\ state' = [state EXCEPT ![o] = Landed(state[o])]
    BY <1>n, <1>4 DEF Finally
  <2> DEFINE t == Landed(state[o])
  <2>2. /\ t.id = state[o].id /\ t.texts = state[o].texts /\ t.firstAt = state[o].firstAt
        /\ t.timerAt = state[o].timerAt /\ t.timerEpoch = state[o].timerEpoch
        /\ t.epoch = state[o].epoch
        /\ t.pausedUntil = state[o].pausedUntil /\ t.mutedUntil = state[o].mutedUntil
    BY <1>n DEF Landed, ConversationState
  <2>3. state'[o] = t /\ \A p \in Obj \ {o} : state'[p] = state[p] BY <1>n, <2>1
  <2> HIDE DEF t
  <2>4. Sound(t, msgs) BY <1>1, <2>2, SoundFields
  <2>5. Sound(t, msgs') BY <1>2, <2>2, <2>4, SoundKept DEF Kept
  <2>6. Held(o, t) BY <2>2 DEF Held
  <2> QED BY <1>n, <1>2, <2>1, <2>2, <2>3, <2>5, <2>6, OwnStep
<1> QED BY <1>3, <1>4

\* The object of a due timer is the listed one, with texts, in its present epoch.
LEMMA DueIsOwn ==
  ASSUME NamesInv, Waiting, NEW o \in Obj, Due(o)
  PROVE  /\ Live(state[o]) /\ state[o].id \in Conv /\ conversations[state[o].id] = o
         /\ state[o].texts # {} /\ state[o].timerEpoch = state[o].epoch
         /\ Sound(state[o], msgs)
BY DEF NamesInv, LiveIsNamed, Waiting, LiveIsListed, AllSound, Sound, Live, Due

\* A callback that arms the timer again keeps it late enough, and not beyond the cap.
LEMMA RearmSound ==
  ASSUME NamesInv, Waiting, NEW o \in Obj, Due(o), RearmAt(o) > 0
  PROVE  Sound(Armed(state[o], RearmAt(o)), msgs)
<1> DEFINE s == state[o]
           t == Armed(s, RearmAt(o))
<1>n. /\ s \in ConversationState /\ now \in Nat \ {0} /\ msgs \in History
      /\ s.texts # {} /\ Sound(s, msgs) /\ s.timerAt > 0 /\ s.timerAt <= now
      /\ s.texts \subseteq Msg
  BY DueIsOwn DEF NamesInv, TypeOK, History, Due, ConversationState
<1>1. /\ s.firstAt \in Nat /\ s.pausedUntil \in Nat /\ s.timerAt \in Nat
      /\ BatchIdle \in Nat /\ BatchMaxWait \in Nat
  BY <1>n, RouterAssumption DEF ConversationState
<1>2. Settled(s, msgs) BY <1>n DEF Sound, Settled
<1>3. CASE s.pausedUntil > now
  <2>1. RearmAt(o) = s.pausedUntil BY <1>3 DEF RearmAt
  <2> QED BY <1>n, <1>1, <1>2, <1>3, <2>1, PausedSound
<1>4. CASE ~(s.pausedUntil > now)
  <2>1. /\ RearmAt(o) = s.firstAt + BatchIdle /\ s.firstAt > 0
        /\ now < s.firstAt + BatchIdle
    BY <1>4 DEF RearmAt
  <2>2. /\ t.texts = s.texts /\ t.id = s.id /\ t.epoch = s.epoch /\ t.timerEpoch = s.epoch
        /\ t.mutedUntil = s.mutedUntil /\ t.pausedUntil = s.pausedUntil
        /\ t.firstAt = s.firstAt /\ t.timerAt = Greater(s.firstAt + BatchIdle, now)
    BY <1>n, <1>1, <2>1, ArmedEffect
  <2>3. t.timerAt = s.firstAt + BatchIdle BY <1>n, <1>1, <2>1, <2>2 DEF Greater
  <2>4. t.timerAt <= t.firstAt + Greater(BatchIdle, BatchMaxWait)
    BY <1>1, <2>2, <2>3 DEF Greater
  <2>5. ASSUME NEW m \in s.texts PROVE Waited(t, msgs[m].at)
    <3>1. Waited(s, msgs[m].at) BY <1>n DEF Sound
    <3>2. msgs[m].at \in Nat /\ s.timerAt <= t.timerAt BY <1>n, <1>1, <2>1, <2>3 DEF History
    <3>3. t.timerAt \in Nat BY <1>1, <2>3
    <3> HIDE DEF t, s
    <3> QED BY <1>1, <2>2, <3>1, <3>2, <3>3 DEF Waited
  <2>6. ~(s.mutedUntil > now) BY <1>n, <1>2 DEF Settled
  <2> HIDE DEF t
  <2>7. Sound(t, msgs) BY <1>n, <1>2, <2>2, <2>4, <2>5, <2>6 DEF Sound, Settled
  <2> QED BY <2>7 DEF t
<1> QED BY <1>3, <1>4

\* Until the session shuts down every step keeps the backlogs in order.
LEMMA ServedStep ==
  ASSUME PlacesInv, Waiting, disposals = 0, disposals' = 0, [Next]_vars
  PROVE  Waiting'
<1>n. /\ NamesInv /\ TypeOK /\ OnePlacePerText /\ Unseen
      /\ now \in Nat \ {0} /\ msgs \in History /\ state \in [Obj -> ConversationState]
      /\ arrived \in Nat /\ pauseGranted \in [Conv -> Nat]
      /\ conversations \in [Conv -> Obj \cup {None}]
  BY RouterAssumption DEF PlacesInv, NamesInv, TypeOK, History
<1>k. msgs' = msgs => \A p \in Obj : Kept(state[p].texts, msgs, msgs')
  BY DEF Kept
<1>1. ASSUME NEW c \in Conv, NEW k \in 1..MaxMsgs, Enqueue(c, k) PROVE Waiting'
  <2> DEFINE new == (arrived + 1)..(arrived + k)
             seen == [m \in Msg |-> IF m \notin new THEN msgs[m]
                                    ELSE [from |-> c, at |-> now, fate |-> "future"]]
  <2>1. PICK o \in Obj : \E s \in {state[o], [NewState EXCEPT !.id = c]} :
          /\ Ensure(c, o, s) /\ conversations' = [conversations EXCEPT ![c] = o]
          /\ EnqueueOn(o, s, new, seen)
    BY <1>1 DEF Enqueue
  <2>2. PICK s : /\ Ensure(c, o, s) /\ conversations' = [conversations EXCEPT ![c] = o]
                 /\ EnqueueOn(o, s, new, seen)
    BY <2>1
  <2>3. /\ new \in SUBSET Msg /\ k \in Nat \ {0} /\ now' = now
        /\ pauseGranted' = pauseGranted
    BY <1>n, <1>1, RouterAssumption DEF Enqueue, Msg, history
  <2>4. s \in ConversationState /\ s.id = c BY <1>n, <2>2, EnsureNamed
  <2>5. /\ Sound(s, msgs) /\ s.texts = state[o].texts
        /\ pauseGranted[c] > now => s.pausedUntil = pauseGranted[c]
    BY <1>n, <2>2, EnsureSound
  <2>6. \A p \in Obj : \A m \in state[p].texts : m \in Msg /\ m <= arrived /\ m \notin new
    <3>1. \A p \in Obj : \A m \in state[p].texts : m \in Msg /\ ~(m > arrived)
      BY <1>n DEF OnePlacePerText, Unseen, ConversationState
    <3> QED BY <1>n, <2>3, <3>1 DEF Msg
  <2>7. /\ seen \in History
        /\ \A m \in Msg : m \notin new => seen[m] = msgs[m]
        /\ \A m \in new : seen[m].from = c /\ seen[m].at = now /\ seen[m].fate # "queued"
        /\ \A m \in new : msgs[m].fate # "queued"
    BY <1>n, <2>3 DEF History, Fate, Unseen
  <2>8. KeptTexts(s, new) # {}
    <3>1. \A m \in s.texts : m <= arrived BY <2>5, <2>6
    <3> QED BY <1>n, <2>3, <2>4, <3>1, NewestKept
  <2> HIDE DEF new, seen
  <2>9. PICK t \in ConversationState :
          /\ state' = [state EXCEPT ![o] = t] /\ Enqueued(s, t, new, seen)
          /\ t.id = s.id /\ t.pausedUntil = s.pausedUntil
    BY <1>n, <2>2, <2>3, <2>4, EnqueueEffect
  <2>10. Sound(s, seen)
    BY <2>5, <2>6, <2>7, SoundKept DEF Kept
  <2>11. /\ Sound(t, msgs')
         /\ \A m \in Msg : msgs'[m].from = seen[m].from /\ msgs'[m].at = seen[m].at
         /\ \A m \in Msg : msgs'[m].fate = "queued" =>
              m \in t.texts \/ (seen[m].fate = "queued" /\ m \notin s.texts)
    BY <1>n, <2>3, <2>4, <2>7, <2>8, <2>9, <2>10, EnqueueSound
  <2>12. state'[o] = t /\ \A p \in Obj \ {o} : state'[p] = state[p]
    BY <1>n, <2>9
  <2>13. \A p \in Obj : Kept(state[p].texts, msgs, msgs')
    BY <2>6, <2>7, <2>11 DEF Kept
  <2>14. Held(o, t) BY <2>5, <2>7, <2>11 DEF Held
  <2> QED
    BY <1>n, <2>2, <2>3, <2>4, <2>5, <2>9, <2>11, <2>12, <2>13, <2>14, TakeKeeps
<1>2. ASSUME NEW c \in Conv, NEW d \in PauseFor, Pause(c, d) PROVE Waiting'
  <2>1. PICK o \in Obj : \E s \in {state[o], [NewState EXCEPT !.id = c]} :
          /\ Ensure(c, o, s) /\ now + d > s.pausedUntil
          /\ conversations' = [conversations EXCEPT ![c] = o]
          /\ state' = [state EXCEPT ![o] = Paused(s, now + d)]
    BY <1>2 DEF Pause
  <2>2. PICK s : /\ Ensure(c, o, s) /\ now + d > s.pausedUntil
                 /\ conversations' = [conversations EXCEPT ![c] = o]
                 /\ state' = [state EXCEPT ![o] = Paused(s, now + d)]
    BY <2>1
  <2>3. /\ d \in Nat /\ now' = now /\ msgs' = msgs
        /\ pauseGranted' = [pauseGranted EXCEPT ![c] = Greater(@, now + d)]
    BY <1>2, RouterAssumption DEF Pause
  <2>4. s \in ConversationState /\ s.id = c BY <1>n, <2>2, EnsureNamed
  <2>5. /\ Sound(s, msgs) /\ s.texts = state[o].texts
        /\ pauseGranted[c] > now => s.pausedUntil = pauseGranted[c]
    BY <1>n, <2>2, EnsureSound
  <2> DEFINE t == Paused(s, now + d)
             u == [s EXCEPT !.pausedUntil = now + d, !.epoch = @ + 1]
  <2>6. /\ u \in ConversationState /\ u.texts = s.texts /\ u.id = s.id
        /\ u.pausedUntil = now + d /\ u.mutedUntil = s.mutedUntil
        /\ u.timerAt = s.timerAt
    <3>1. now + d \in Nat /\ s.epoch + 1 \in Nat BY <1>n, <2>3, <2>4 DEF ConversationState
    <3> QED BY <2>4, <3>1 DEF ConversationState
  <2>7. t = IF s.texts # {} THEN Armed(u, now + d) ELSE u BY DEF Paused
  <2> HIDE DEF t, u
  <2>8. t.texts = s.texts /\ t.id = c /\ t.pausedUntil = now + d
    BY <1>n, <2>3, <2>4, <2>6, <2>7, ArmedEffect
  <2>9. Sound(t, msgs)
    <3>1. CASE s.texts # {}
      <4>1. Settled(u, msgs) BY <2>5, <2>6 DEF Sound, Settled
      <4>2. u.pausedUntil >= now /\ u.pausedUntil > 0 /\ t = Armed(u, u.pausedUntil)
        BY <1>n, <2>3, <2>6, <2>7, <3>1
      <4> QED BY <1>n, <2>6, <3>1, <4>1, <4>2, PausedSound
    <3>2. CASE s.texts = {}
      <4>1. s.timerAt = 0 BY <2>4, <2>5, <3>2 DEF Sound, ConversationState
      <4> QED BY <1>n, <2>6, <2>7, <3>2, <4>1, EmptySound
    <3> QED BY <3>1, <3>2
  <2>10. state'[o] = t /\ \A p \in Obj \ {o} : state'[p] = state[p]
    BY <1>n, <2>2 DEF t
  <2>11. Held(o, t) BY <2>3, <2>5, <2>8 DEF Held
  <2>12. pauseGranted'[c] > now => t.pausedUntil = pauseGranted'[c]
    <3>1. s.pausedUntil \in Nat /\ pauseGranted[c] \in Nat BY <1>n, <2>4 DEF ConversationState
    <3>2. pauseGranted'[c] = Greater(pauseGranted[c], now + d) BY <1>n, <2>3
    <3>3. pauseGranted[c] <= now + d BY <1>n, <2>2, <2>3, <2>5, <3>1
    <3> QED BY <1>n, <2>3, <2>8, <3>1, <3>2, <3>3 DEF Greater
  <2>13. \A e \in Conv \ {c} : pauseGranted'[e] = pauseGranted[e] BY <1>n, <2>3
  <2> QED
    BY <1>k, <1>n, <2>2, <2>3, <2>8, <2>9, <2>10, <2>11, <2>12, <2>13, TakeKeeps
<1>3. ASSUME NEW c \in Conv, NEW d \in MuteFor, Mute(c, d) PROVE Waiting'
  <2>1. PICK o \in Obj : \E s \in {state[o], [NewState EXCEPT !.id = c]} :
          /\ Ensure(c, o, s)
          /\ conversations' = [conversations EXCEPT ![c] = o]
          /\ state' = [state EXCEPT ![o] = Muted(s, now + d)]
          /\ msgs' = Mark(msgs, s.texts, "discarded")
    BY <1>3 DEF Mute
  <2>2. PICK s : /\ Ensure(c, o, s)
                 /\ conversations' = [conversations EXCEPT ![c] = o]
                 /\ state' = [state EXCEPT ![o] = Muted(s, now + d)]
                 /\ msgs' = Mark(msgs, s.texts, "discarded")
    BY <2>1
  <2>3. d \in Nat /\ now' = now /\ pauseGranted' = pauseGranted
    BY <1>3, RouterAssumption DEF Mute
  <2>4. s \in ConversationState /\ s.id = c BY <1>n, <2>2, EnsureNamed
  <2>5. /\ s.texts = state[o].texts
        /\ pauseGranted[c] > now => s.pausedUntil = pauseGranted[c]
    BY <1>n, <2>2, EnsureSound
  <2> DEFINE t == Muted(s, now + d)
  <2>6. /\ t \in ConversationState /\ t.id = c /\ t.texts = {} /\ t.timerAt = 0
        /\ t.pausedUntil = s.pausedUntil
    <3>1. t \in ConversationState BY <1>n, <2>3, <2>4, DeadlinesType
    <3> QED BY <2>4, <3>1 DEF Muted, Emptied, Disarmed, ConversationState
  <2>7. state'[o] = t /\ \A p \in Obj \ {o} : state'[p] = state[p] BY <1>n, <2>2
  <2> HIDE DEF t
  <2>8. Sound(t, msgs') BY <1>n, <2>6, EmptySound
  <2>9. \A m \in Msg : /\ msgs'[m].fate = IF m \in s.texts THEN "discarded" ELSE msgs[m].fate
                       /\ msgs'[m].from = msgs[m].from /\ msgs'[m].at = msgs[m].at
    BY <1>n, <2>2, MarkEffect DEF Fate
  <2>10. Held(o, t) BY <2>5, <2>9 DEF Held
  <2>11. \A p \in Obj : Kept(state[p].texts, msgs, msgs')
    BY <1>n, <2>9 DEF Kept, ConversationState
  <2> QED BY <1>n, <2>2, <2>3, <2>5, <2>6, <2>7, <2>8, <2>10, <2>11, TakeKeeps
<1>4. ASSUME Dispose PROVE FALSE
  BY <1>4 DEF Dispose
<1>5. ASSUME NEW o \in Obj, TimerStale(o) PROVE FALSE
  BY <1>n, <1>5, DueIsOwn DEF TimerStale
<1>6. ASSUME NEW o \in Obj, TimerRearm(o) PROVE Waiting'
  <2> DEFINE c == state[o].id
             t == Armed(state[o], RearmAt(o))
  <2>1. /\ Live(state[o]) /\ c \in Conv /\ conversations[c] = o
        /\ Due(o) /\ RearmAt(o) > 0
    BY <1>n, <1>6, DueIsOwn DEF TimerRearm
  <2>2. PICK p \in Obj : \E s \in {state[p], [NewState EXCEPT !.id = c]} :
          /\ Ensure(c, p, s) /\ conversations' = [conversations EXCEPT ![c] = p]
          /\ state' = [Spent(o) EXCEPT ![p] = Armed(s, RearmAt(o))]
    BY <1>6 DEF TimerRearm
  <2>3. PICK s : /\ Ensure(c, p, s) /\ conversations' = [conversations EXCEPT ![c] = p]
                 /\ state' = [Spent(o) EXCEPT ![p] = Armed(s, RearmAt(o))]
    BY <2>2
  <2>4. p = o /\ s = state[o] BY <2>1, <2>3, RouterAssumption DEF Ensure
  <2>5. conversations' = conversations BY <1>n, <2>1, <2>3, <2>4
  <2>6. Spent(o) \in [Obj -> ConversationState] BY <1>n, SpentEffect
  <2>7. state'[o] = t /\ \A q \in Obj \ {o} : state'[q] = state[q]
    BY <1>n, <2>3, <2>4, <2>6, SpentFields
  <2>8. Sound(t, msgs) BY <1>n, <2>1, RearmSound
  <2>9. RearmAt(o) \in Nat
    BY <1>n, RouterAssumption DEF RearmAt, ConversationState
  <2>10. t.id = c /\ t.texts = state[o].texts /\ t.pausedUntil = state[o].pausedUntil
    BY <1>n, <2>9, ArmedEffect
  <2> HIDE DEF t
  <2>11. /\ now' = now /\ msgs' = msgs /\ pauseGranted' = pauseGranted
    BY <1>6 DEF TimerRearm, history
  <2>12. Held(o, t) BY <2>10, <2>11 DEF Held
  <2> QED BY <1>k, <1>n, <2>1, <2>5, <2>7, <2>8, <2>10, <2>11, <2>12, OwnStep
<1>7. ASSUME NEW o \in Obj, TimerFlush(o) PROVE Waiting'
  <2> DEFINE sp == Spent(o)
  <2>1. /\ Live(state[o]) /\ state[o].id \in Conv /\ conversations[state[o].id] = o
        /\ state[o].texts # {} /\ Sound(state[o], msgs) /\ o # None
    BY <1>n, <1>7, DueIsOwn, RouterAssumption DEF TimerFlush
  <2>2. /\ sp \in [Obj -> ConversationState] /\ sp[o] \in ConversationState
        /\ sp[o].id = state[o].id /\ sp[o].texts = state[o].texts
        /\ sp[o].pausedUntil = state[o].pausedUntil /\ sp[o].mutedUntil = state[o].mutedUntil
        /\ sp[o].timerAt = 0
        /\ \A q \in Obj \ {o} : sp[q] = state[q]
    BY <1>n, SpentEffect, SpentFields
  <2>3. Flush(o, sp[o], sp, msgs) /\ conversations' = conversations
    BY <1>7, <2>1, <2>2 DEF TimerFlush
  <2> HIDE DEF sp
  <2>4. PICK t \in ConversationState : state' = [sp EXCEPT ![o] = t] /\ Flushed(sp[o], t, msgs)
    BY <1>n, <2>2, <2>3, FlushEffect
  <2>5. Sound(sp[o], msgs) BY <1>n, <2>1, <2>2 DEF Sound
  <2>6. Sound(t, msgs') BY <1>n, <2>2, <2>4, <2>5, FlushSound
  <2>7. \A m \in Msg : /\ msgs'[m].fate = "queued" =>
                            msgs[m].fate = "queued" /\ (m \in sp[o].texts => m \in t.texts)
                       /\ msgs'[m].from = msgs[m].from /\ msgs'[m].at = msgs[m].at
    BY <1>n, <2>2, <2>4, FlushHeld
  <2>8. Held(o, t) BY <2>2, <2>7 DEF Held
  <2>9. \A p \in Obj : Kept(state[p].texts, msgs, msgs')
    BY <1>n, <2>7 DEF Kept, ConversationState
  <2>10. /\ state'[o] = t /\ \A q \in Obj \ {o} : state'[q] = state[q]
    BY <2>2, <2>4
  <2>11. t.id = state[o].id /\ t.pausedUntil = state[o].pausedUntil
    BY <2>2, <2>4 DEF Flushed
  <2>12. now' = now /\ pauseGranted' = pauseGranted BY <1>7 DEF TimerFlush, history
  <2> QED BY <1>n, <2>1, <2>3, <2>6, <2>8, <2>9, <2>10, <2>11, <2>12, OwnStep
<1>8. ASSUME NEW o \in Obj, GenerateDone(o) PROVE Waiting'
  <2>1. PICK next \in {"delivering", "failing"} : state' = [state EXCEPT ![o].stage = next]
    BY <1>8 DEF GenerateDone
  <2>2. /\ state'[o].id = state[o].id /\ state'[o].texts = state[o].texts
        /\ state'[o].firstAt = state[o].firstAt /\ state'[o].timerAt = state[o].timerAt
        /\ state'[o].timerEpoch = state[o].timerEpoch /\ state'[o].epoch = state[o].epoch
        /\ state'[o].pausedUntil = state[o].pausedUntil
        /\ state'[o].mutedUntil = state[o].mutedUntil
        /\ \A p \in Obj \ {o} : state'[p] = state[p]
    BY <1>n, <2>1 DEF ConversationState
  <2>3. /\ Live(state[o]) /\ Sound(state[o], msgs) BY <1>8 DEF GenerateDone, Live, Waiting, AllSound
  <2>4. Sound(state'[o], msgs) BY <2>2, <2>3, SoundFields
  <2>5. /\ msgs' = msgs /\ now' = now /\ pauseGranted' = pauseGranted
        /\ conversations' = conversations
    BY <1>8 DEF GenerateDone, history
  <2>6. Held(o, state'[o]) BY <2>2, <2>5 DEF Held
  <2> QED BY <1>k, <1>n, <2>2, <2>3, <2>4, <2>5, <2>6, OwnStep
<1>9. ASSUME NEW o \in Obj, GenerateNothing(o) \/ FlushFailed(o) PROVE Waiting'
  <2>1. /\ state[o].stage # "idle" /\ Finally(o) /\ msgs' = msgs
        /\ now' = now /\ pauseGranted' = pauseGranted
    BY <1>9 DEF GenerateNothing, FlushFailed, history
  <2> QED BY <1>n, <2>1, FinallyKeeps
<1>10. ASSUME NEW o \in Obj, Delivered(o) PROVE Waiting'
  <2>1. /\ state[o].stage # "idle" /\ Finally(o)
        /\ msgs' = Mark(msgs, state[o].prompt, "answered")
        /\ now' = now /\ pauseGranted' = pauseGranted
    BY <1>10 DEF Delivered, history
  <2>2. \A m \in Msg :
          /\ msgs'[m].fate = IF m \in state[o].prompt THEN "answered" ELSE msgs[m].fate
          /\ msgs'[m].from = msgs[m].from /\ msgs'[m].at = msgs[m].at
    BY <1>n, <2>1, MarkEffect DEF Fate
  <2> QED BY <1>n, <2>1, <2>2, FinallyKeeps
<1>11. CASE Tick
  <2>1. /\ now' = now + 1 /\ conversations' = conversations /\ state' = state
        /\ msgs' = msgs /\ pauseGranted' = pauseGranted
    BY <1>11 DEF Tick, history
  <2>2. LiveIsListed' /\ QueuedIsHeld'
    BY <2>1 DEF Waiting, LiveIsListed, QueuedIsHeld, Queued
  <2>3. AllSound'
    <3>1. \A o \in Obj : /\ state[o].mutedUntil \in Nat /\ state[o].timerAt \in Nat
                         /\ \A m \in state[o].texts : msgs[m].at \in Nat
      BY <1>n DEF ConversationState, History
    <3> QED BY <1>n, <2>1, <3>1 DEF Waiting, AllSound, Sound, Waited
  <2>4. PauseKept' BY <1>n, <2>1 DEF Waiting, PauseKept
  <2> QED BY <2>2, <2>3, <2>4 DEF Waiting
<1>12. CASE SetEligible \/ UNCHANGED vars
  <2>1. /\ now' = now /\ conversations' = conversations /\ state' = state
        /\ msgs' = msgs /\ pauseGranted' = pauseGranted
    BY <1>12 DEF SetEligible, history, vars
  <2> QED
    BY <2>1 DEF Waiting, LiveIsListed, AllSound, Sound, Waited, QueuedIsHeld, Queued, PauseKept
<1> QED
  BY <1>1, <1>2, <1>3, <1>4, <1>5, <1>6, <1>7, <1>8, <1>9, <1>10, <1>11, <1>12
     DEF Next, TimerCallback, FlushStep

\* Only dispose() counts disposals.
LEMMA DisposalsGrow ==
  ASSUME TypeOK, [Next]_vars, disposals' = 0
  PROVE  disposals = 0
<1>1. disposals \in Nat BY RouterAssumption DEF TypeOK
<1>2. CASE Dispose BY <1>1, <1>2 DEF Dispose
<1>3. CASE disposals' = disposals BY <1>3
<1> QED
  BY <1>2, <1>3
     DEF Next, vars, history, Enqueue, Pause, Mute, TimerCallback, TimerStale, TimerRearm,
         TimerFlush, FlushStep, GenerateDone, GenerateNothing, Delivered, FlushFailed,
         SetEligible, Tick

\* The invariant holds throughout.
LEMMA ServedAlways == Spec => []ServedInv
<1>1. Init /\ TypeOK => ServedInv
  BY PlacesInit, ServedInit DEF ServedInv, PlacesInv, NamesInv
<1>2. ServedInv /\ [Next]_vars /\ TypeOK' => ServedInv'
  <2> SUFFICES ASSUME ServedInv, [Next]_vars, TypeOK' PROVE ServedInv'
    OBVIOUS
  <2>1. PlacesInv /\ NamesInv /\ TypeOK BY DEF ServedInv, PlacesInv, NamesInv
  <2>2. PlacesInv' BY <2>1, PlacesStep, NamesStep DEF PlacesInv, NamesInv
  <2>3. ASSUME disposals' = 0 PROVE Waiting'
    <3>1. disposals = 0 BY <2>1, <2>3, DisposalsGrow
    <3> QED BY <2>1, <2>3, <3>1, ServedStep DEF ServedInv
  <2> QED BY <2>2, <2>3 DEF ServedInv
<1> QED BY <1>1, <1>2, TypeCorrect, PTL DEF Spec

\* A mute asked for while no reply was under way is kept by the object of its
\* conversation, which starts no reply as long as the mute lasts.
Silent(c) == muteGranted[c] > now =>
  /\ conversations[c] # None
  /\ state[conversations[c]].mutedUntil >= muteGranted[c]
  /\ state[conversations[c]].stage = "idle"
MuteKept == \A c \in Conv : Silent(c)

\* A step on one object of one conversation leaves the mutes of the others alone.
LEMMA MuteOwn ==
  ASSUME NamesInv, MuteKept, NEW c \in Conv, NEW o \in Obj, now' = now,
         \A d \in Conv \ {c} : /\ conversations'[d] = conversations[d]
                               /\ conversations[d] # o
                               /\ muteGranted'[d] = muteGranted[d],
         \A p \in Obj \ {o} : state'[p] = state[p],
         Silent(c)'
  PROVE  MuteKept'
<1>n. conversations \in [Conv -> Obj \cup {None}] BY DEF NamesInv, TypeOK
<1>1. ASSUME NEW d \in Conv, d # c, muteGranted'[d] > now'
      PROVE  /\ conversations'[d] # None
             /\ state'[conversations'[d]].mutedUntil >= muteGranted'[d]
             /\ state'[conversations'[d]].stage = "idle"
  <2>1. /\ conversations'[d] = conversations[d] /\ conversations[d] # o
        /\ muteGranted'[d] = muteGranted[d]
    BY <1>1
  <2>2. /\ conversations[d] # None
        /\ state[conversations[d]].mutedUntil >= muteGranted[d]
        /\ state[conversations[d]].stage = "idle"
    BY <1>1, <2>1 DEF MuteKept, Silent
  <2>3. state'[conversations[d]] = state[conversations[d]] BY <1>n, <2>1, <2>2
  <2> QED BY <2>1, <2>2, <2>3
<1>2. ASSUME NEW d \in Conv, d # c PROVE Silent(d)'
  BY <1>1, <1>2 DEF Silent
<1>3. \A d \in Conv : Silent(d)' BY <1>2
<1> QED BY <1>3 DEF MuteKept

\* The object that ensure() hands out is its conversation's alone, and keeps its mute.
LEMMA EnsureMute ==
  ASSUME NamesInv, MuteKept, NEW c \in Conv, NEW o \in Obj, NEW s, Ensure(c, o, s),
         conversations' = [conversations EXCEPT ![c] = o]
  PROVE  /\ \A d \in Conv \ {c} : conversations'[d] = conversations[d] /\ conversations[d] # o
         /\ conversations'[c] = o /\ o # None
         /\ muteGranted[c] > now =>
              s = state[o] /\ s.mutedUntil >= muteGranted[c] /\ s.stage = "idle"
<1>n. /\ conversations \in [Conv -> Obj \cup {None}] /\ None \notin Obj /\ NamesAgree
  BY RouterAssumption DEF NamesInv, TypeOK
<1>1. /\ conversations'[c] = o /\ o # None
      /\ \A d \in Conv : d # c => conversations'[d] = conversations[d] /\ conversations[d] # o
  BY <1>n DEF NamesAgree, Ensure, Unused
<1>2. muteGranted[c] > now =>
        s = state[o] /\ s.mutedUntil >= muteGranted[c] /\ s.stage = "idle"
  BY <1>n DEF MuteKept, Silent, Ensure
<1> QED BY <1>1, <1>2

\* A step of a timer or a flush on a listed object that no such mute silences keeps the
\* mutes of all conversations.
LEMMA MuteUnasked ==
  ASSUME NamesInv, MuteKept, NEW o \in Obj, state[o].id \in Conv,
         conversations[state[o].id] = o, ~(muteGranted[state[o].id] > now), now' = now,
         muteGranted' = muteGranted,
         \A d \in Conv \ {state[o].id} : conversations'[d] = conversations[d],
         \A p \in Obj \ {o} : state'[p] = state[p]
  PROVE  MuteKept'
<1> PICK c \in Conv : c = state[o].id OBVIOUS
<1>1. \A d \in Conv \ {c} : conversations'[d] = conversations[d] /\ conversations[d] # o
                            /\ muteGranted'[d] = muteGranted[d]
  BY RouterAssumption DEF NamesInv, NamesAgree
<1>2. Silent(c)' BY DEF Silent
<1> QED BY <1>1, <1>2, MuteOwn

\* Until the session shuts down every step keeps the mutes.
LEMMA MuteStep ==
  ASSUME PlacesInv, Waiting, MuteKept, disposals = 0, disposals' = 0, [Next]_vars
  PROVE  MuteKept'
<1>n. /\ NamesInv /\ TypeOK
      /\ now \in Nat /\ state \in [Obj -> ConversationState]
      /\ conversations \in [Conv -> Obj \cup {None}] /\ None \notin Obj
      /\ muteGranted \in [Conv -> Nat]
  BY RouterAssumption DEF PlacesInv, NamesInv, TypeOK
<1>1. ASSUME NEW c \in Conv, NEW k \in 1..MaxMsgs, Enqueue(c, k) PROVE MuteKept'
  <2> DEFINE new == (arrived + 1)..(arrived + k)
             seen == [m \in Msg |-> IF m \notin new THEN msgs[m]
                                    ELSE [from |-> c, at |-> now, fate |-> "future"]]
  <2>1. PICK o \in Obj : \E s \in {state[o], [NewState EXCEPT !.id = c]} :
          /\ Ensure(c, o, s)
          /\ conversations' = [conversations EXCEPT ![c] = o]
          /\ EnqueueOn(o, s, new, seen)
    BY <1>1 DEF Enqueue
  <2> HIDE DEF seen
  <2>2. PICK s : /\ Ensure(c, o, s)
                 /\ s \in {state[o], [NewState EXCEPT !.id = c]}
                 /\ conversations' = [conversations EXCEPT ![c] = o]
                 /\ EnqueueOn(o, s, new, seen)
    BY <2>1
  <2>3. now' = now /\ muteGranted' = muteGranted BY <1>1 DEF Enqueue, history
  <2>4. /\ \A d \in Conv \ {c} : conversations'[d] = conversations[d] /\ conversations[d] # o
        /\ conversations'[c] = o /\ o # None
        /\ muteGranted[c] > now =>
             s = state[o] /\ s.mutedUntil >= muteGranted[c] /\ s.stage = "idle"
    BY <1>n, <2>2, EnsureMute
  <2>5. \E t : state' = [state EXCEPT ![o] = t]
    BY <2>2 DEF EnqueueOn, Flush
  <2>6. \A p \in Obj \ {o} : state'[p] = state[p] BY <1>n, <2>5
  <2>7. muteGranted[c] > now => state'[o] = state[o]
    <3>1. SUFFICES ASSUME muteGranted[c] > now PROVE state'[o] = state[o]
      OBVIOUS
    <3>2. s = state[o] /\ s.mutedUntil \in Nat /\ muteGranted[c] \in Nat
      BY <1>n, <2>4, <3>1 DEF ConversationState
    <3>3. s.mutedUntil > now BY <1>n, <2>4, <3>1, <3>2
    <3>4. state' = [state EXCEPT ![o] = s] BY <1>n, <2>2, <3>2, <3>3 DEF EnqueueOn
    <3> QED BY <1>n, <3>2, <3>4
  <2>8. Silent(c)' BY <2>3, <2>4, <2>7 DEF Silent
  <2> QED BY <1>n, <2>3, <2>4, <2>6, <2>8, MuteOwn
<1>2. ASSUME NEW c \in Conv, NEW d \in PauseFor, Pause(c, d) PROVE MuteKept'
  <2>1. PICK o \in Obj : \E s \in {state[o], [NewState EXCEPT !.id = c]} :
          /\ Ensure(c, o, s)
          /\ conversations' = [conversations EXCEPT ![c] = o]
          /\ state' = [state EXCEPT ![o] = Paused(s, now + d)]
    BY <1>2 DEF Pause
  <2>2. PICK s : /\ Ensure(c, o, s)
                 /\ conversations' = [conversations EXCEPT ![c] = o]
                 /\ state' = [state EXCEPT ![o] = Paused(s, now + d)]
    BY <2>1
  <2>3. now' = now /\ muteGranted' = muteGranted BY <1>2 DEF Pause
  <2>4. /\ \A e \in Conv \ {c} : conversations'[e] = conversations[e] /\ conversations[e] # o
        /\ conversations'[c] = o /\ o # None
        /\ muteGranted[c] > now =>
             s = state[o] /\ s.mutedUntil >= muteGranted[c] /\ s.stage = "idle"
    BY <1>n, <2>2, EnsureMute
  <2>5. /\ \A p \in Obj \ {o} : state'[p] = state[p]
        /\ state'[o] = Paused(s, now + d)
    BY <1>n, <2>2
  <2>6. muteGranted[c] > now =>
          state'[o].mutedUntil = s.mutedUntil /\ state'[o].stage = s.stage
    BY <1>n, <2>4, <2>5 DEF Paused, Armed, ConversationState
  <2>7. Silent(c)' BY <2>3, <2>4, <2>6 DEF Silent
  <2> QED BY <1>n, <2>3, <2>4, <2>5, <2>7, MuteOwn
<1>3. ASSUME NEW c \in Conv, NEW d \in MuteFor, Mute(c, d) PROVE MuteKept'
  <2>1. PICK o \in Obj : \E s \in {state[o], [NewState EXCEPT !.id = c]} :
          /\ Ensure(c, o, s)
          /\ conversations' = [conversations EXCEPT ![c] = o]
          /\ state' = [state EXCEPT ![o] = Muted(s, now + d)]
          /\ muteGranted' = [muteGranted EXCEPT ![c] =
                              IF s.stage = "idle" THEN Greater(@, now + d) ELSE @]
    BY <1>3 DEF Mute
  <2>2. PICK s : /\ Ensure(c, o, s)
                 /\ conversations' = [conversations EXCEPT ![c] = o]
                 /\ state' = [state EXCEPT ![o] = Muted(s, now + d)]
                 /\ muteGranted' = [muteGranted EXCEPT ![c] =
                                     IF s.stage = "idle" THEN Greater(@, now + d) ELSE @]
    BY <2>1
  <2>3. now' = now /\ d \in Nat BY <1>3, RouterAssumption DEF Mute
  <2>4. /\ \A e \in Conv \ {c} : conversations'[e] = conversations[e] /\ conversations[e] # o
        /\ conversations'[c] = o /\ o # None
        /\ muteGranted[c] > now =>
             s = state[o] /\ s.mutedUntil >= muteGranted[c] /\ s.stage = "idle"
    BY <1>n, <2>2, EnsureMute
  <2>5. /\ \A p \in Obj \ {o} : state'[p] = state[p]
        /\ state'[o] = Muted(s, now + d)
        /\ \A e \in Conv \ {c} : muteGranted'[e] = muteGranted[e]
        /\ muteGranted'[c] = IF s.stage = "idle" THEN Greater(muteGranted[c], now + d)
                             ELSE muteGranted[c]
    BY <1>n, <2>2
  <2>6. s \in ConversationState BY <1>n, <2>2, EnsureNamed
  <2>7. /\ state'[o].mutedUntil = Greater(s.mutedUntil, now + d)
        /\ state'[o].stage = s.stage
    BY <2>5, <2>6 DEF Muted, Emptied, Disarmed, ConversationState
  <2>8. CASE s.stage = "idle"
    <3>1. s.mutedUntil \in Nat /\ muteGranted[c] \in Nat BY <1>n, <2>6 DEF ConversationState
    <3>2. state'[o].mutedUntil >= muteGranted'[c]
      BY <1>n, <2>3, <2>4, <2>5, <2>7, <2>8, <3>1 DEF Greater
    <3>3. Silent(c)' BY <2>4, <2>7, <2>8, <3>2 DEF Silent
    <3> QED BY <1>n, <2>3, <2>4, <2>5, <3>3, MuteOwn
  <2>9. CASE s.stage # "idle"
    <3>1. muteGranted'[c] = muteGranted[c] /\ ~(muteGranted[c] > now)
      BY <2>4, <2>5, <2>9
    <3>2. Silent(c)' BY <2>3, <3>1 DEF Silent
    <3> QED BY <1>n, <2>3, <2>4, <2>5, <3>2, MuteOwn
  <2> QED BY <2>8, <2>9
<1>4. ASSUME Dispose PROVE FALSE
  BY <1>4 DEF Dispose
<1>5. ASSUME NEW o \in Obj, TimerStale(o) PROVE FALSE
  BY <1>n, <1>5, DueIsOwn DEF TimerStale
<1>6. ASSUME NEW o \in Obj, Due(o)
      PROVE  /\ state[o].id \in Conv /\ conversations[state[o].id] = o
             /\ ~(muteGranted[state[o].id] > now) /\ state[o].texts # {}
  <2>1. /\ state[o].id \in Conv /\ conversations[state[o].id] = o
        /\ state[o].texts # {} /\ Sound(state[o], msgs)
    BY <1>n, <1>6, DueIsOwn
  <2>2. ~(state[o].mutedUntil > now) BY <2>1 DEF Sound
  <2>3. state[o].mutedUntil \in Nat /\ muteGranted[state[o].id] \in Nat
    BY <1>n, <2>1 DEF ConversationState
  <2> QED BY <1>n, <2>1, <2>2, <2>3 DEF MuteKept, Silent
<1>7. ASSUME NEW o \in Obj, TimerRearm(o) PROVE MuteKept'
  <2>1. /\ state[o].id \in Conv /\ conversations[state[o].id] = o
        /\ ~(muteGranted[state[o].id] > now)
    BY <1>6, <1>7 DEF TimerRearm
  <2>2. PICK p \in Obj : \E s \in {state[p], [NewState EXCEPT !.id = state[o].id]} :
          /\ Ensure(state[o].id, p, s)
          /\ conversations' = [conversations EXCEPT ![state[o].id] = p]
          /\ state' = [Spent(o) EXCEPT ![p] = Armed(s, RearmAt(o))]
    BY <1>7 DEF TimerRearm
  <2>3. p = o BY <1>n, <2>1, <2>2 DEF Ensure
  <2>4. \A q \in Obj \ {o} : state'[q] = state[q]
    BY <1>n, <2>2, <2>3, SpentEffect
  <2>5. \A e \in Conv \ {state[o].id} : conversations'[e] = conversations[e] BY <1>n, <2>2
  <2>6. now' = now /\ muteGranted' = muteGranted BY <1>7 DEF TimerRearm, history
  <2> QED BY <1>n, <2>1, <2>4, <2>5, <2>6, MuteUnasked
<1>8. ASSUME NEW o \in Obj, TimerFlush(o) PROVE MuteKept'
  <2>1. /\ state[o].id \in Conv /\ conversations[state[o].id] = o /\ o # None
        /\ ~(muteGranted[state[o].id] > now) /\ state[o].texts # {}
    BY <1>n, <1>6, <1>8 DEF TimerFlush
  <2>2. /\ Spent(o) \in [Obj -> ConversationState]
        /\ \A q \in Obj \ {o} : Spent(o)[q] = state[q]
    BY <1>n, SpentEffect
  <2>3. Flush(o, Spent(o)[o], Spent(o), msgs) /\ conversations' = conversations
    BY <1>8, <2>1 DEF TimerFlush
  <2>4. \E t : state' = [Spent(o) EXCEPT ![o] = t] BY <2>3 DEF Flush
  <2>5. \A q \in Obj \ {o} : state'[q] = state[q] BY <2>2, <2>4
  <2>6. now' = now /\ muteGranted' = muteGranted BY <1>8 DEF TimerFlush, history
  <2> QED BY <1>n, <2>1, <2>3, <2>5, <2>6, MuteUnasked
<1>9. ASSUME NEW o \in Obj, FlushStep(o) PROVE MuteKept'
  <2>1. state[o].stage # "idle"
    BY <1>9 DEF FlushStep, GenerateDone, GenerateNothing, Delivered, FlushFailed
  <2>2. state[o].id \in Conv /\ conversations[state[o].id] = o
    BY <1>n, <2>1 DEF NamesInv, LiveIsNamed, Waiting, LiveIsListed, Live
  <2>3. ~(muteGranted[state[o].id] > now) BY <2>1, <2>2 DEF MuteKept, Silent
  <2>4. now' = now /\ muteGranted' = muteGranted
    BY <1>9 DEF FlushStep, GenerateDone, GenerateNothing, Delivered, FlushFailed, history
  <2>5. \/ Finally(o)
        \/ conversations' = conversations /\ \E t : state' = [state EXCEPT ![o] = t]
    BY <1>9 DEF FlushStep, GenerateDone, GenerateNothing, Delivered, FlushFailed
  <2>6. \A e \in Conv \ {state[o].id} : conversations'[e] = conversations[e]
    BY <1>n, <2>5 DEF Finally
  <2>7. \A q \in Obj \ {o} : state'[q] = state[q] BY <1>n, <2>5, FinallyEffect
  <2> QED BY <1>n, <2>2, <2>3, <2>4, <2>6, <2>7, MuteUnasked
<1>10. CASE Tick
  <2>1. /\ now' = now + 1 /\ conversations' = conversations /\ state' = state
        /\ muteGranted' = muteGranted
    BY <1>10 DEF Tick, history
  <2> QED BY <1>n, <2>1 DEF MuteKept, Silent
<1>11. CASE SetEligible \/ UNCHANGED vars
  <2>1. /\ now' = now /\ conversations' = conversations /\ state' = state
        /\ muteGranted' = muteGranted
    BY <1>11 DEF SetEligible, history, vars
  <2> QED BY <2>1 DEF MuteKept, Silent
<1> QED
  BY <1>1, <1>2, <1>3, <1>4, <1>5, <1>7, <1>8, <1>9, <1>10, <1>11 DEF Next, TimerCallback

\* The inductive invariant with the mutes, and what it says of them.
MuteInv == ServedInv /\ (disposals = 0 => MuteKept)

LEMMA MuteMeans == ASSUME MuteInv PROVE BacklogIsServed
<1>n. /\ conversations \in [Conv -> Obj \cup {None}]
      /\ ServedInv
  BY DEF MuteInv, ServedInv, PlacesInv, NamesInv, TypeOK
<1>1. MuteIsRemembered BY <1>n DEF MuteIsRemembered, MuteInv, MuteKept, Silent
<1> QED BY <1>1, <1>n, ServedMeans DEF BacklogIsServed

\* Until the session shuts down every backlog waits where the next flush looks, with a
\* live timer and not beyond its cap; a mute leaves no backlog behind; a promised pause,
\* and a mute asked for while no reply is under way, last as long as they were asked for,
\* whatever flushes, timers and deletions come between.
THEOREM BacklogsAreServed == Spec => []BacklogIsServed
<1>1. Init /\ ServedInv => MuteInv
  BY DEF Init, MuteInv, MuteKept, Silent
<1>2. MuteInv /\ [Next]_vars /\ ServedInv' => MuteInv'
  <2> SUFFICES ASSUME MuteInv, [Next]_vars, ServedInv' PROVE MuteInv'
    OBVIOUS
  <2>1. ASSUME disposals' = 0 PROVE MuteKept'
    <3>1. /\ ServedInv /\ PlacesInv /\ TypeOK
      BY DEF MuteInv, ServedInv, PlacesInv, NamesInv
    <3>2. disposals = 0 BY <2>1, <3>1, DisposalsGrow
    <3> QED BY <2>1, <3>1, <3>2, MuteStep DEF MuteInv, ServedInv
  <2> QED BY <2>1 DEF MuteInv
<1>3. MuteInv => BacklogIsServed
  BY MuteMeans
<1> QED BY <1>1, <1>2, <1>3, ServedAlways, PTL DEF Spec

-----------------------------------------------------------------------------
(* The turns of the texts.                                                 *)

\* A flush starts in enqueue() at the size limit or in a timer callback only, on an
\* object that is not paused; a timer's prompt has waited as its texts must.
Turn(o) ==
  /\ pauseGranted[state'[o].id] <= now
  /\ arrived' = arrived => \A m \in Msg : m \in state'[o].prompt =>
       \/ now >= msgs[m].at + BatchIdle
       \/ now >= state[o].firstAt + BatchMaxWait
       \/ msgs[m].at <= state[o].pausedUntil

\* Whatever step starts a flush, the object's turn has come.
LEMMA StartsInTurn ==
  ASSUME PlacesInv, Waiting, disposals = 0, [Next]_vars, NEW o \in Obj, Starts(o)
  PROVE  Turn(o)
<1>n. /\ NamesInv /\ TypeOK /\ OnePlacePerText /\ Unseen
      /\ now \in Nat \ {0} /\ msgs \in History /\ state \in [Obj -> ConversationState]
      /\ arrived \in Nat /\ pauseGranted \in [Conv -> Nat]
      /\ state[o] \in ConversationState
      /\ state[o].stage = "idle" /\ state'[o].stage = "generating"
  BY RouterAssumption DEF PlacesInv, NamesInv, TypeOK, History, Starts
<1>1. ASSUME NEW c \in Conv, NEW k \in 1..MaxMsgs, Enqueue(c, k) PROVE Turn(o)
  <2> DEFINE new == (arrived + 1)..(arrived + k)
             seen == [m \in Msg |-> IF m \notin new THEN msgs[m]
                                    ELSE [from |-> c, at |-> now, fate |-> "future"]]
  <2>1. PICK p \in Obj : \E s \in {state[p], [NewState EXCEPT !.id = c]} :
          Ensure(c, p, s) /\ EnqueueOn(p, s, new, seen)
    BY <1>1 DEF Enqueue
  <2>2. PICK s : Ensure(c, p, s) /\ EnqueueOn(p, s, new, seen)
    BY <2>1
  <2>3. new \in SUBSET Msg /\ arrived' # arrived
    BY <1>n, <1>1, RouterAssumption DEF Enqueue, Msg
  <2>4. s \in ConversationState /\ s.id = c BY <1>n, <2>2, EnsureNamed
  <2>5. pauseGranted[c] > now => s.pausedUntil = pauseGranted[c]
    BY <1>n, <2>2, EnsureSound
  <2> HIDE DEF new, seen
  <2>6. PICK t \in ConversationState :
          state' = [state EXCEPT ![p] = t] /\ Enqueued(s, t, new, seen) /\ t.id = s.id
    BY <1>n, <2>2, <2>3, <2>4, EnqueueEffect
  <2>7. p = o /\ t = state'[o]
    <3>1. p # o => state'[o] = state[o] BY <1>n, <2>6
    <3> QED BY <1>n, <2>6, <3>1
  <2>8. s.stage = "idle"
    BY <1>n, <2>2, <2>7 DEF Ensure, NewState
  <2>9. s.pausedUntil <= now
    <3>1. /\ Grown(s, new) \in ConversationState /\ Grown(s, new).stage = s.stage
          /\ Grown(s, new).pausedUntil = s.pausedUntil
          /\ BatchDeadline(Grown(s, new)) \in Nat /\ s.pausedUntil \in Nat
      BY <1>n, <2>3, <2>4, GrownType, DeadlineType DEF ConversationState
    <3>2. /\ Timed(s, new).stage = "idle" /\ Timed(s, new).pausedUntil = s.pausedUntil
          /\ Armed(Grown(s, new), s.pausedUntil).stage = "idle"
          /\ Armed(Timed(s, new), s.pausedUntil).stage = "idle"
      BY <1>n, <2>3, <2>4, <2>8, <3>1, ArmedEffect, GrownType DEF Timed
    <3> QED BY <1>n, <2>6, <2>7, <2>8, <3>2 DEF Enqueued, Flushed
  <2>10. pauseGranted[c] <= now
    BY <1>n, <2>4, <2>5, <2>9 DEF ConversationState
  <2> QED BY <2>3, <2>4, <2>6, <2>7, <2>10 DEF Turn
<1>2. ASSUME NEW p \in Obj, TimerFlush(p) PROVE Turn(o)
  <2> DEFINE sp == Spent(p)
  <2>1. /\ state[p].id \in Conv /\ conversations[state[p].id] = p /\ p # None
        /\ state[p].texts # {} /\ Sound(state[p], msgs)
        /\ state[p].timerAt > 0 /\ now >= state[p].timerAt
    BY <1>n, <1>2, DueIsOwn, RouterAssumption DEF TimerFlush, Due
  <2>2. /\ sp \in [Obj -> ConversationState] /\ sp[p] \in ConversationState
        /\ sp[p].id = state[p].id /\ sp[p].texts = state[p].texts
        /\ sp[p].stage = state[p].stage /\ sp[p].pausedUntil = state[p].pausedUntil
        /\ \A q \in Obj \ {p} : sp[q] = state[q]
    BY <1>n, SpentEffect, SpentFields
  <2>3. Flush(p, sp[p], sp, msgs)
    BY <1>2, <2>1, <2>2 DEF TimerFlush
  <2> HIDE DEF sp
  <2>4. PICK t \in ConversationState : state' = [sp EXCEPT ![p] = t] /\ Flushed(sp[p], t, msgs)
    BY <1>n, <2>2, <2>3, FlushEffect
  <2>5. p = o /\ t = state'[o]
    <3>1. p # o => state'[o] = state[o] BY <2>2, <2>4
    <3> QED BY <1>n, <2>2, <2>4, <3>1
  <2>6. t.prompt = state[o].texts /\ t.id = state[o].id /\ state[o].pausedUntil <= now
    <3>1. sp[p].pausedUntil \in Nat BY <2>2 DEF ConversationState
    <3>2. Armed(sp[p], sp[p].pausedUntil).stage = sp[p].stage
      BY <1>n, <2>2, <3>1, ArmedEffect
    <3> QED BY <1>n, <2>2, <2>4, <2>5, <3>2 DEF Flushed
  <2>7. pauseGranted[state[o].id] <= now
    <3>1. state[o].pausedUntil \in Nat /\ pauseGranted[state[o].id] \in Nat
      BY <1>n, <2>1, <2>5 DEF ConversationState
    <3> QED BY <1>n, <2>1, <2>5, <2>6, <3>1 DEF Waiting, PauseKept
  <2>8. ASSUME NEW m \in state[o].texts
        PROVE  \/ now >= msgs[m].at + BatchIdle
               \/ now >= state[o].firstAt + BatchMaxWait
               \/ msgs[m].at <= state[o].pausedUntil
    <3>1. Waited(state[o], msgs[m].at) BY <2>1, <2>5 DEF Sound
    <3>2. /\ msgs[m].at \in Nat /\ BatchIdle \in Nat /\ BatchMaxWait \in Nat
          /\ state[o].timerAt \in Nat /\ state[o].firstAt \in Nat
      BY <1>n, RouterAssumption DEF History, ConversationState
    <3> QED BY <1>n, <2>1, <2>5, <3>1, <3>2 DEF Waited
  <2> QED BY <2>5, <2>6, <2>7, <2>8 DEF Turn
<1>3. ASSUME NEW c \in Conv, NEW d \in PauseFor, Pause(c, d) PROVE FALSE
  <2>1. PICK p \in Obj : \E s \in {state[p], [NewState EXCEPT !.id = c]} :
          Ensure(c, p, s) /\ state' = [state EXCEPT ![p] = Paused(s, now + d)]
    BY <1>3 DEF Pause
  <2>2. PICK s : Ensure(c, p, s) /\ state' = [state EXCEPT ![p] = Paused(s, now + d)]
    BY <2>1
  <2>3. s \in ConversationState BY <1>n, <2>2, EnsureNamed
  <2>4. Paused(s, now + d).stage = s.stage BY <2>3 DEF Paused, Armed, ConversationState
  <2>5. p = o => s.stage = "idle" BY <1>n, <2>2 DEF Ensure, NewState
  <2> QED BY <1>n, <2>2, <2>4, <2>5
<1>4. ASSUME NEW c \in Conv, NEW d \in MuteFor, Mute(c, d) PROVE FALSE
  <2>1. PICK p \in Obj : \E s \in {state[p], [NewState EXCEPT !.id = c]} :
          Ensure(c, p, s) /\ state' = [state EXCEPT ![p] = Muted(s, now + d)]
    BY <1>4 DEF Mute
  <2>2. PICK s : Ensure(c, p, s) /\ state' = [state EXCEPT ![p] = Muted(s, now + d)]
    BY <2>1
  <2>3. s \in ConversationState BY <1>n, <2>2, EnsureNamed
  <2>4. Muted(s, now + d).stage = s.stage
    BY <2>3 DEF Muted, Emptied, Disarmed, ConversationState
  <2>5. p = o => s.stage = "idle" BY <1>n, <2>2 DEF Ensure, NewState
  <2> QED BY <1>n, <2>2, <2>4, <2>5
<1>5. ASSUME Dispose PROVE FALSE
  <2>1. Dropped(state[o]).stage = state[o].stage
    BY <1>n DEF Dropped, Disarmed, ConversationState
  <2> QED BY <1>n, <1>5, <2>1 DEF Dispose, NewState
<1>6. ASSUME NEW p \in Obj, TimerStale(p) PROVE FALSE
  BY <1>n, <1>6, DueIsOwn DEF TimerStale
<1>7. ASSUME NEW p \in Obj, TimerRearm(p) PROVE FALSE
  <2>1. state[p].id \in Conv BY <1>n, <1>7, DueIsOwn DEF TimerRearm
  <2>2. PICK q \in Obj : \E s \in {state[q], [NewState EXCEPT !.id = state[p].id]} :
          /\ Ensure(state[p].id, q, s)
          /\ state' = [Spent(p) EXCEPT ![q] = Armed(s, RearmAt(p))]
    BY <1>7 DEF TimerRearm
  <2>3. PICK s : /\ Ensure(state[p].id, q, s)
                 /\ state' = [Spent(p) EXCEPT ![q] = Armed(s, RearmAt(p))]
    BY <2>2
  <2>4. s \in ConversationState BY <1>n, <2>1, <2>3, EnsureNamed
  <2>5. RearmAt(p) \in Nat
    BY <1>n, RouterAssumption DEF RearmAt, ConversationState
  <2>6. Armed(s, RearmAt(p)).stage = s.stage BY <1>n, <2>4, <2>5, ArmedEffect
  <2>7. q = o => s.stage = "idle" BY <1>n, <2>3 DEF Ensure, NewState
  <2>8. Spent(p) \in [Obj -> ConversationState] /\ Spent(p)[o].stage = "idle"
    BY <1>n, SpentEffect, SpentFields
  <2> QED BY <1>n, <2>3, <2>6, <2>7, <2>8
<1>8. ASSUME NEW p \in Obj, GenerateDone(p) PROVE FALSE
  <2>1. PICK next \in {"delivering", "failing"} : state' = [state EXCEPT ![p].stage = next]
    BY <1>8 DEF GenerateDone
  <2> QED BY <1>n, <1>8, <2>1 DEF GenerateDone, ConversationState
<1>9. ASSUME NEW p \in Obj, Finally(p) PROVE FALSE
  <2>1. Landed(state[p]).stage = "idle"
    BY <1>n DEF Landed, ConversationState
  <2> QED BY <1>n, <1>9, <2>1 DEF Finally, NewState
<1>10. ASSUME state' = state PROVE FALSE
  BY <1>n, <1>10
<1> QED
  BY <1>1, <1>2, <1>3, <1>4, <1>5, <1>6, <1>7, <1>8, <1>9, <1>10
     DEF Next, TimerCallback, FlushStep, GenerateNothing, FlushFailed, Delivered,
         SetEligible, Tick, vars

\* Each text takes its turn: it is prompted once at most and answered only after that,
\* no timer prompts before the chat was idle or its cap has passed, and nothing is
\* prompted while a promised pause lasts.
THEOREM TextsKeepTheirTurn == Spec => TextsTakeTheirTurn
<1>1. ServedInv /\ [Next]_vars =>
        [\A m \in Msg : LET f == msgs[m].fate
                            g == msgs'[m].fate
                        IN \/ g = f
                           \/ f = "future"
                           \/ f = "queued" /\ g \in {"prompted", "trimmed", "discarded", "ineligible"}
                           \/ f = "prompted" /\ g = "answered"]_vars
  BY PlacesStep DEF ServedInv, Forward, Onward
<1>2. ServedInv /\ [Next]_vars =>
        [\A o \in Obj : \A m \in Msg :
           /\ Starts(o) /\ m \in state'[o].prompt
           /\ arrived' = arrived /\ disposals = 0
           => \/ now >= msgs[m].at + BatchIdle
              \/ now >= state[o].firstAt + BatchMaxWait
              \/ msgs[m].at <= state[o].pausedUntil]_vars
  BY StartsInTurn DEF ServedInv, Turn
<1>3. ServedInv /\ [Next]_vars =>
        [\A o \in Obj : Starts(o) /\ disposals = 0 => pauseGranted[state'[o].id] <= now]_vars
  BY StartsInTurn DEF ServedInv, Turn
<1> QED
  BY <1>1, <1>2, <1>3, ServedAlways, PTL
     DEF Spec, TextsTakeTheirTurn, TextsMoveForward, PromptWaitsForIdle, NoPromptWhilePaused

-----------------------------------------------------------------------------
(* The inbox of the session.                                               *)

\* An object answers a prompt exactly while a flush is suspended on it.
Busy(s) == s.prompt = {} <=> s.stage = "idle"
PromptIsInFlight == \A o \in Obj : Busy(state[o])

InboxInv == ServedInv /\ PromptIsInFlight

\* What a flush makes of the queue and the prompt: nothing, or all of the one goes to
\* the other, or away.
Serving(s, t) ==
  /\ t.pausedUntil = s.pausedUntil /\ t.mutedUntil = s.mutedUntil
  /\ \/ t.texts = s.texts /\ t.prompt = s.prompt /\ t.stage = s.stage
     \/ /\ s.texts # {} /\ s.stage = "idle" /\ s.pausedUntil <= now /\ t.texts = {}
        /\ IF eligible THEN t.prompt = s.texts /\ t.stage = "generating"
                       ELSE t.prompt = s.prompt /\ t.stage = "idle"

LEMMA FlushServes ==
  ASSUME now \in Nat, NEW heap \in [Obj -> ConversationState], NEW o \in Obj,
         NEW s \in ConversationState, NEW h, Flush(o, s, heap, h)
  PROVE  Serving(s, state'[o]) /\ \A q \in Obj \ {o} : state'[q] = heap[q]
<1>1. CASE state' = [heap EXCEPT ![o] = s]
  BY <1>1 DEF Serving
<1>2. CASE state' = [heap EXCEPT ![o] = Armed(s, s.pausedUntil)]
  <2>1. s.pausedUntil \in Nat BY DEF ConversationState
  <2>2. state'[o] = Armed(s, s.pausedUntil) BY <1>2
  <2> QED BY <1>2, <2>1, <2>2, ArmedEffect DEF Serving
<1>3. CASE /\ s.stage = "idle" /\ s.texts # {} /\ s.pausedUntil <= now /\ ~eligible
           /\ state' = [heap EXCEPT ![o] = Emptied(Disarmed(s))]
  <2> DEFINE t == Emptied(Disarmed(s))
  <2>1. /\ t.pausedUntil = s.pausedUntil /\ t.mutedUntil = s.mutedUntil
        /\ t.texts = {} /\ t.stage = s.stage /\ t.prompt = s.prompt
    BY DEF Emptied, Disarmed, ConversationState
  <2>2. state'[o] = t BY <1>3
  <2> HIDE DEF t
  <2> QED BY <1>3, <2>1, <2>2 DEF Serving
<1>4. CASE /\ s.stage = "idle" /\ s.texts # {} /\ s.pausedUntil <= now /\ eligible
           /\ state' = [heap EXCEPT ![o] = [Emptied(Disarmed(s)) EXCEPT
                                              !.stage = "generating", !.prompt = s.texts]]
  <2> DEFINE t == [Emptied(Disarmed(s)) EXCEPT !.stage = "generating", !.prompt = s.texts]
  <2>1. /\ t.pausedUntil = s.pausedUntil /\ t.mutedUntil = s.mutedUntil
        /\ t.texts = {} /\ t.stage = "generating" /\ t.prompt = s.texts
    BY DEF Emptied, Disarmed, ConversationState
  <2>2. state'[o] = t BY <1>4
  <2> HIDE DEF t
  <2> QED BY <1>4, <2>1, <2>2 DEF Serving
<1> QED BY <1>1, <1>2, <1>3, <1>4 DEF Flush

\* What enqueue() makes of them: nothing when muted, or the queue grows and may be served.
Joining(s, t, new) ==
  \/ t = s
  \/ /\ s.mutedUntil <= now
     /\ \E u \in ConversationState :
          /\ u.texts = KeptTexts(s, new) /\ u.prompt = s.prompt /\ u.stage = s.stage
          /\ u.pausedUntil = s.pausedUntil /\ u.mutedUntil = s.mutedUntil
          /\ Serving(u, t)

LEMMA EnqueueJoins ==
  ASSUME state \in [Obj -> ConversationState], now \in Nat,
         NEW o \in Obj, NEW s \in ConversationState, NEW new \in SUBSET Msg,
         NEW h, EnqueueOn(o, s, new, h)
  PROVE  Joining(s, state'[o], new) /\ \A q \in Obj \ {o} : state'[q] = state[q]
<1> DEFINE u == Grown(s, new)
           timed == Timed(s, new)
           paused == Armed(u, s.pausedUntil)
           hq == GrownHistory(s, new, h)
<1>1. /\ u \in ConversationState /\ timed \in ConversationState /\ paused \in ConversationState
      /\ u.texts = KeptTexts(s, new) /\ u.stage = s.stage
      /\ u.pausedUntil = s.pausedUntil /\ u.mutedUntil = s.mutedUntil
  BY GrownType
<1>2. u.prompt = s.prompt BY DEF Grown, ConversationState
<1>3. /\ BatchDeadline(u) \in Nat /\ s.pausedUntil \in Nat /\ timed = Armed(u, BatchDeadline(u))
  BY <1>1, DeadlineType DEF ConversationState, Timed
<1>4. \/ state' = [state EXCEPT ![o] = s]
      \/ s.mutedUntil <= now /\ state' = [state EXCEPT ![o] = paused]
      \/ s.mutedUntil <= now /\ state' = [state EXCEPT ![o] = timed]
      \/ s.mutedUntil <= now /\ Flush(o, timed, state, hq)
  BY <1>1 DEF EnqueueOn, Grown, GrownHistory, KeptTexts, Timed
<1> HIDE DEF u, hq
<1>5. \A t \in {timed, paused} :
        /\ t.texts = u.texts /\ t.prompt = u.prompt /\ t.stage = u.stage
        /\ t.pausedUntil = u.pausedUntil /\ t.mutedUntil = u.mutedUntil
  BY <1>1, <1>3, ArmedEffect
<1> HIDE DEF timed, paused
<1>6. CASE state' = [state EXCEPT ![o] = s] BY <1>6 DEF Joining
<1>7. ASSUME NEW t \in {timed, paused}, s.mutedUntil <= now, state' = [state EXCEPT ![o] = t]
      PROVE  Joining(s, state'[o], new) /\ \A q \in Obj \ {o} : state'[q] = state[q]
  <2>1. state'[o] = t BY <1>7
  <2>2. Serving(u, t) BY <1>5 DEF Serving
  <2> QED BY <1>1, <1>2, <1>7, <2>1, <2>2 DEF Joining
<1>8. CASE s.mutedUntil <= now /\ Flush(o, timed, state, hq)
  <2>1. Serving(timed, state'[o]) /\ \A q \in Obj \ {o} : state'[q] = state[q]
    BY <1>1, <1>8, FlushServes
  <2>2. /\ timed.texts = KeptTexts(s, new) /\ timed.prompt = s.prompt /\ timed.stage = s.stage
        /\ timed.pausedUntil = s.pausedUntil /\ timed.mutedUntil = s.mutedUntil
    BY <1>1, <1>2, <1>5
  <2> QED BY <1>1, <1>8, <2>1, <2>2 DEF Joining
<1> QED BY <1>4, <1>6, <1>7, <1>8

\* A step that serves, or joins and serves, keeps prompt and flag together.
LEMMA ServingBusy ==
  ASSUME NEW s, NEW t, Busy(s), Serving(s, t)
  PROVE  Busy(t)
BY DEF Busy, Serving

LEMMA JoiningBusy ==
  ASSUME NEW s, NEW t, NEW new, Busy(s), Joining(s, t, new)
  PROVE  Busy(t)
<1>1. CASE t = s BY <1>1
<1>2. ASSUME NEW u \in ConversationState, u.prompt = s.prompt, u.stage = s.stage, Serving(u, t)
      PROVE  Busy(t)
  <2>1. Busy(u) BY <1>2 DEF Busy
  <2> QED BY <1>2, <2>1, ServingBusy
<1> QED BY <1>1, <1>2 DEF Joining

\* What ensure() hands out has its prompt in flight, too.
LEMMA EnsureBusy ==
  ASSUME PromptIsInFlight, NEW c, NEW o \in Obj, NEW s, Ensure(c, o, s)
  PROVE  Busy(s)
BY DEF PromptIsInFlight, Ensure, NewState, Busy

\* Fields with the prompt and the flag of busy ones.
LEMMA SameBusy ==
  ASSUME NEW s, NEW t, Busy(s), t.prompt = s.prompt, t.stage = s.stage
  PROVE  Busy(t)
BY DEF Busy

\* The heap but for one object.
LEMMA BusyBut ==
  ASSUME PromptIsInFlight, NEW o \in Obj, Busy(state'[o]),
         \A q \in Obj \ {o} : state'[q].prompt = state[q].prompt /\ state'[q].stage = state[q].stage
  PROVE  PromptIsInFlight'
<1> SUFFICES ASSUME NEW q \in Obj PROVE Busy(state'[q])
  BY DEF PromptIsInFlight, Busy
<1>1. CASE q = o BY <1>1
<1>2. CASE q # o BY <1>2, SameBusy DEF PromptIsInFlight
<1> QED BY <1>1, <1>2

\* Every step keeps prompts in flight.
LEMMA BusyStep ==
  ASSUME ServedInv, PromptIsInFlight, [Next]_vars
  PROVE  PromptIsInFlight'
<1>n. /\ NamesInv /\ TypeOK /\ now \in Nat /\ state \in [Obj -> ConversationState]
      /\ arrived \in Nat /\ conversations \in [Conv -> Obj \cup {None}]
  BY RouterAssumption DEF ServedInv, PlacesInv, NamesInv, TypeOK
<1>b. \A o \in Obj : Busy(state[o]) /\ state[o] \in ConversationState
  BY <1>n DEF PromptIsInFlight
<1>e. Busy(NewState) BY DEF Busy, NewState
<1>1. ASSUME NEW c \in Conv, NEW k \in 1..MaxMsgs, Enqueue(c, k) PROVE PromptIsInFlight'
  <2> DEFINE new == (arrived + 1)..(arrived + k)
             seen == [m \in Msg |-> IF m \notin new THEN msgs[m]
                                    ELSE [from |-> c, at |-> now, fate |-> "future"]]
  <2>1. PICK o \in Obj : \E s \in {state[o], [NewState EXCEPT !.id = c]} :
          Ensure(c, o, s) /\ EnqueueOn(o, s, new, seen)
    BY <1>1 DEF Enqueue
  <2>2. PICK s : Ensure(c, o, s) /\ EnqueueOn(o, s, new, seen) BY <2>1
  <2>3. new \in SUBSET Msg BY <1>n, <1>1, RouterAssumption DEF Enqueue, Msg
  <2>4. s \in ConversationState BY <1>n, <2>2, EnsureNamed
  <2> HIDE DEF new, seen
  <2>5. Joining(s, state'[o], new) /\ \A q \in Obj \ {o} : state'[q] = state[q]
    BY <1>n, <2>2, <2>3, <2>4, EnqueueJoins
  <2>6. Busy(state'[o]) BY <2>2, <2>5, EnsureBusy, JoiningBusy
  <2> QED BY <2>5, <2>6, BusyBut
<1>2. ASSUME NEW c \in Conv, NEW o \in Obj, NEW s, NEW t, Ensure(c, o, s),
             s \in ConversationState => t.prompt = s.prompt /\ t.stage = s.stage,
             state' = [state EXCEPT ![o] = t]
      PROVE  PromptIsInFlight'
  <2>1. s \in ConversationState BY <1>n, <1>2, EnsureNamed
  <2>2. Busy(t) BY <1>2, <2>1, EnsureBusy, SameBusy
  <2>3. state'[o] = t /\ \A q \in Obj \ {o} : state'[q] = state[q] BY <1>n, <1>2
  <2> QED BY <2>2, <2>3, BusyBut
<1>3. ASSUME NEW c \in Conv, NEW d \in PauseFor, Pause(c, d) PROVE PromptIsInFlight'
  <2>1. PICK o \in Obj : \E s \in {state[o], [NewState EXCEPT !.id = c]} :
          Ensure(c, o, s) /\ state' = [state EXCEPT ![o] = Paused(s, now + d)]
    BY <1>3 DEF Pause
  <2>2. PICK s : Ensure(c, o, s) /\ state' = [state EXCEPT ![o] = Paused(s, now + d)] BY <2>1
  <2>3. s \in ConversationState =>
          Paused(s, now + d).prompt = s.prompt /\ Paused(s, now + d).stage = s.stage
    BY DEF Paused, Armed, ConversationState
  <2> QED BY <1>2, <2>2, <2>3
<1>4. ASSUME NEW c \in Conv, NEW d \in MuteFor, Mute(c, d) PROVE PromptIsInFlight'
  <2>1. PICK o \in Obj : \E s \in {state[o], [NewState EXCEPT !.id = c]} :
          Ensure(c, o, s) /\ state' = [state EXCEPT ![o] = Muted(s, now + d)]
    BY <1>4 DEF Mute
  <2>2. PICK s : Ensure(c, o, s) /\ state' = [state EXCEPT ![o] = Muted(s, now + d)] BY <2>1
  <2>3. s \in ConversationState =>
          Muted(s, now + d).prompt = s.prompt /\ Muted(s, now + d).stage = s.stage
    BY DEF Muted, Emptied, Disarmed, ConversationState
  <2> QED BY <1>2, <2>2, <2>3
<1>5. CASE Dispose
  <2>1. \A o \in Obj : \/ state'[o] = state[o] \/ state'[o] = NewState
                       \/ state'[o] = Dropped(state[o])
    BY <1>5 DEF Dispose
  <2>2. \A o \in Obj : Dropped(state[o]).prompt = state[o].prompt /\ Dropped(state[o]).stage = state[o].stage
    BY <1>b DEF Dropped, Disarmed, ConversationState
  <2>3. \A o \in Obj : Busy(Dropped(state[o])) BY <1>b, <2>2, SameBusy
  <2>4. \A o \in Obj : Busy(state'[o]) BY <1>b, <1>e, <2>1, <2>3
  <2> QED BY <2>4 DEF PromptIsInFlight, Busy
<1>6. ASSUME NEW o \in Obj, NEW q \in Obj
      PROVE  /\ Spent(o)[q].prompt = state[q].prompt /\ Spent(o)[q].stage = state[q].stage
             /\ Busy(Spent(o)[q]) /\ Spent(o)[q] \in ConversationState
  <2>1. /\ Spent(o)[q].prompt = state[q].prompt /\ Spent(o)[q].stage = state[q].stage
        /\ Spent(o)[q] \in ConversationState
    BY <1>n, SpentFields
  <2> QED BY <1>b, <2>1, SameBusy
<1>7. ASSUME NEW o \in Obj, TimerStale(o) PROVE PromptIsInFlight'
  <2>1. state' = Spent(o) BY <1>7 DEF TimerStale
  <2>2. \A q \in Obj : Busy(state'[q]) BY <1>6, <2>1
  <2> QED BY <2>2 DEF PromptIsInFlight, Busy
<1>8. ASSUME NEW o \in Obj, TimerRearm(o) PROVE PromptIsInFlight'
  <2>1. state[o].id \in Conv BY <1>n, <1>8, DueIsNamed DEF TimerRearm
  <2>2. PICK p \in Obj : \E s \in {state[p], [NewState EXCEPT !.id = state[o].id]} :
          /\ Ensure(state[o].id, p, s)
          /\ state' = [Spent(o) EXCEPT ![p] = Armed(s, RearmAt(o))]
    BY <1>8 DEF TimerRearm
  <2>3. PICK s : /\ Ensure(state[o].id, p, s)
                 /\ state' = [Spent(o) EXCEPT ![p] = Armed(s, RearmAt(o))]
    BY <2>2
  <2>4. s \in ConversationState BY <1>n, <2>1, <2>3, EnsureNamed
  <2>5. RearmAt(o) \in Nat BY <1>n, RouterAssumption DEF RearmAt, ConversationState
  <2>6. Armed(s, RearmAt(o)).prompt = s.prompt /\ Armed(s, RearmAt(o)).stage = s.stage
    BY <1>n, <2>4, <2>5, ArmedEffect
  <2>7. Busy(Armed(s, RearmAt(o))) BY <2>3, <2>6, EnsureBusy, SameBusy
  <2>8. Spent(o) \in [Obj -> ConversationState] BY <1>n, SpentEffect
  <2>9. /\ state'[p] = Armed(s, RearmAt(o))
        /\ \A q \in Obj \ {p} : state'[q] = Spent(o)[q]
    BY <2>3, <2>8
  <2> QED BY <1>6, <2>7, <2>9, BusyBut
<1>9. ASSUME NEW o \in Obj, TimerFlush(o) PROVE PromptIsInFlight'
  <2> DEFINE p == conversations[state[o].id]
  <2>1. state[o].id \in Conv /\ (p # None => p \in Obj) BY <1>n, <1>9, DueIsNamed DEF TimerFlush
  <2>2. Spent(o) \in [Obj -> ConversationState] BY <1>n, SpentEffect
  <2>3. CASE state' = Spent(o)
    <3>1. \A q \in Obj : Busy(state'[q]) BY <1>6, <2>3
    <3> QED BY <3>1 DEF PromptIsInFlight, Busy
  <2>4. CASE p # None /\ Flush(p, Spent(o)[p], Spent(o), msgs)
    <3>1. p \in Obj BY <2>1, <2>4
    <3> HIDE DEF p
    <3>2. Serving(Spent(o)[p], state'[p]) /\ \A q \in Obj \ {p} : state'[q] = Spent(o)[q]
      BY <1>n, <1>6, <2>2, <2>4, <3>1, FlushServes
    <3>3. Busy(state'[p]) BY <1>6, <3>1, <3>2, ServingBusy
    <3> QED BY <1>6, <3>1, <3>2, <3>3, BusyBut
  <2>5. CASE p # None /\ state' = [Spent(o) EXCEPT ![p] = NewState]
    <3>1. p \in Obj BY <2>1, <2>5
    <3> HIDE DEF p
    <3>2. state'[p] = NewState /\ \A q \in Obj \ {p} : state'[q] = Spent(o)[q]
      BY <2>2, <2>5, <3>1
    <3> QED BY <1>e, <1>6, <3>1, <3>2, BusyBut
  <2> QED BY <1>9, <2>3, <2>4, <2>5 DEF TimerFlush
<1>10. ASSUME NEW o \in Obj, GenerateDone(o) PROVE PromptIsInFlight'
  <2>1. PICK next \in {"delivering", "failing"} : state' = [state EXCEPT ![o].stage = next]
    BY <1>10 DEF GenerateDone
  <2>2. /\ state'[o].prompt = state[o].prompt /\ state'[o].stage = next
        /\ \A q \in Obj \ {o} : state'[q] = state[q]
    BY <1>n, <2>1 DEF ConversationState
  <2>3. state[o].prompt # {} BY <1>b, <1>10 DEF Busy, GenerateDone
  <2>4. Busy(state'[o]) BY <2>2, <2>3 DEF Busy
  <2> QED BY <2>2, <2>4, BusyBut
<1>11. ASSUME NEW o \in Obj, Finally(o) PROVE PromptIsInFlight'
  <2>1. Landed(state[o]).prompt = {} /\ Landed(state[o]).stage = "idle"
    BY <1>b DEF Landed, ConversationState
  <2>2. /\ state'[o] = Landed(state[o]) \/ state'[o] = NewState
        /\ \A q \in Obj \ {o} : state'[q] = state[q]
    BY <1>n, <1>11 DEF Finally
  <2>3. Busy(state'[o]) BY <1>e, <2>1, <2>2 DEF Busy
  <2> QED BY <2>2, <2>3, BusyBut
<1>12. ASSUME state' = state PROVE PromptIsInFlight' BY <1>12 DEF PromptIsInFlight, Busy
<1> QED
  BY <1>1, <1>3, <1>4, <1>5, <1>7, <1>8, <1>9, <1>10, <1>11, <1>12
     DEF Next, TimerCallback, FlushStep, GenerateNothing, FlushFailed, Delivered,
         SetEligible, Tick, vars

\* Until the session shuts down a prompt is answered while a flush is in flight only.
LEMMA InboxAlways == Spec => []InboxInv
<1>1. Init => PromptIsInFlight BY DEF Init, PromptIsInFlight, Busy, NewState
<1>2. ServedInv /\ PromptIsInFlight /\ [Next]_vars => PromptIsInFlight' BY BusyStep
<1>3. ServedInv /\ PromptIsInFlight => InboxInv BY DEF InboxInv
<1> QED BY <1>1, <1>2, <1>3, ServedAlways, PTL DEF Spec

Fields(q, p, u, m) == [queue |-> q, prompt |-> p, pausedUntil |-> u, mutedUntil |-> m]

\* A pause is set or prolonged.
LEMMA ViewHeld ==
  ASSUME NEW s, NEW t, t.texts = s.texts, t.prompt = s.prompt, t.mutedUntil = s.mutedUntil,
         s.pausedUntil <= t.pausedUntil
  PROVE  Promise!Held(View(s), View(t))
<1> DEFINE v == View(s)
           w == View(t)
<1>1. v = Fields(s.texts, s.prompt, s.pausedUntil, s.mutedUntil) BY DEF View, Fields
<1>2. w = Fields(s.texts, s.prompt, t.pausedUntil, s.mutedUntil) BY DEF View, Fields
<1> HIDE DEF v, w
<1>3. w = [v EXCEPT !.pausedUntil = w.pausedUntil] BY <1>1, <1>2 DEF Fields
<1>4. v.pausedUntil <= w.pausedUntil BY <1>1, <1>2 DEF Fields
<1>5. Promise!Held(v, w) BY <1>3, <1>4 DEF Promise!Held
<1> QED BY <1>5 DEF v, w

\* A mute is set or prolonged.
LEMMA ViewSilenced ==
  ASSUME NEW s, NEW t, t.texts = {}, t.prompt = s.prompt, t.pausedUntil = s.pausedUntil,
         s.mutedUntil <= t.mutedUntil
  PROVE  Promise!Silenced(View(s), View(t))
<1> DEFINE v == View(s)
           u == Fields(s.texts, s.prompt, s.pausedUntil, t.mutedUntil)
           w == View(t)
<1>1. v = Fields(s.texts, s.prompt, s.pausedUntil, s.mutedUntil) BY DEF View, Fields
<1>2. w = Fields({}, s.prompt, s.pausedUntil, t.mutedUntil) BY DEF View, Fields
<1>u. u = Fields(s.texts, s.prompt, s.pausedUntil, t.mutedUntil) OBVIOUS
<1> HIDE DEF v, u, w
<1>3. u = [v EXCEPT !.mutedUntil = w.mutedUntil] BY <1>1, <1>2, <1>u DEF Fields
<1>4. w = [u EXCEPT !.queue = {}] BY <1>2, <1>u DEF Fields
<1>5. w = [v EXCEPT !.mutedUntil = w.mutedUntil, !.queue = {}] BY <1>3, <1>4
<1>6. v.mutedUntil <= w.mutedUntil BY <1>1, <1>2 DEF Fields
<1>7. Promise!Silenced(v, w) BY <1>5, <1>6 DEF Promise!Silenced
<1> QED BY <1>7 DEF v, w

\* The queue is served or not.
LEMMA ViewServed ==
  ASSUME NEW s, NEW t, Busy(s), Serving(s, t)
  PROVE  View(t) = View(s) \/ Promise!Served(View(s), View(t))
<1>1. CASE t.texts = s.texts /\ t.prompt = s.prompt
  BY <1>1 DEF View, Serving
<1>2. CASE /\ s.texts # {} /\ s.stage = "idle" /\ s.pausedUntil <= now /\ t.texts = {}
           /\ IF eligible THEN t.prompt = s.texts /\ t.stage = "generating"
                          ELSE t.prompt = s.prompt /\ t.stage = "idle"
  <2> DEFINE v == View(s)
             p == IF eligible THEN v.queue ELSE {}
             u == Fields({}, s.prompt, s.pausedUntil, s.mutedUntil)
             w == View(t)
  <2>1. v = Fields(s.texts, s.prompt, s.pausedUntil, s.mutedUntil) BY DEF View, Fields
  <2>2. s.prompt = {} BY <1>2 DEF Busy
  <2>3. t.prompt = p
    <3>1. v.queue = s.texts BY DEF View
    <3> QED BY <1>2, <2>2, <3>1
  <2>4. w = Fields({}, p, s.pausedUntil, s.mutedUntil)
    <3> HIDE DEF p
    <3> QED BY <1>2, <2>3 DEF View, Fields, Serving
  <2>u. u = Fields({}, s.prompt, s.pausedUntil, s.mutedUntil) OBVIOUS
  <2>5. w = [v EXCEPT !.queue = {}, !.prompt = p]
    <3> HIDE DEF v, u, w, p
    <3>1. u = [v EXCEPT !.queue = {}] BY <2>1, <2>u DEF Fields
    <3>2. w = [u EXCEPT !.prompt = p] BY <2>4, <2>u DEF Fields
    <3> QED BY <3>1, <3>2
  <2> HIDE DEF v, w
  <2>6. v.queue # {} /\ v.prompt = {} /\ v.pausedUntil <= now BY <1>2, <2>1, <2>2 DEF Fields
  <2>7. Promise!Served(v, w) BY <2>5, <2>6 DEF Promise!Served
  <2> QED BY <2>7 DEF v, w
<1> QED BY <1>1, <1>2 DEF Serving

\* Among finitely many texts the newest are newer than the others.
LEMMA NewestAreNewer ==
  ASSUME NEW S \in SUBSET Msg, NEW n \in Nat, NEW x \in Newest(S, n), NEW y \in S \ Newest(S, n)
  PROVE  y < x
<1>1. x \in Nat /\ y \in Nat /\ IsFiniteSet(S)
  <2>1. IsFiniteSet(1..MaxMsgs) BY FS_Interval, RouterAssumption
  <2>2. IsFiniteSet(S) BY <2>1, FS_Subset DEF Msg
  <2> QED BY <2>2, RouterAssumption DEF Msg, Newest
<1> SUFFICES ASSUME x <= y PROVE FALSE
  BY <1>1
<1> DEFINE above == {z \in S : z >= y}
           more == {z \in S : z >= x}
<1>2. S \subseteq Nat BY RouterAssumption DEF Msg
<1>3. above \subseteq more
  <2>1. SUFFICES ASSUME NEW z \in S, z >= y PROVE z >= x
    OBVIOUS
  <2>2. z \in Nat BY <1>2
  <2> HIDE DEF above, more
  <2> QED BY <1>1, <2>1, <2>2
<1>4. IsFiniteSet(more)
  <2>1. more \subseteq S OBVIOUS
  <2> HIDE DEF more
  <2> QED BY <1>1, <2>1, FS_Subset
<1>5. Cardinality(above) <= Cardinality(more) /\ Cardinality(above) \in Nat /\ Cardinality(more) \in Nat
  <2> HIDE DEF above, more
  <2>1. IsFiniteSet(above) BY <1>3, <1>4, FS_Subset
  <2> QED BY <1>3, <1>4, <2>1, FS_Subset, FS_CardinalityType
<1>6. Cardinality(more) <= n /\ ~(Cardinality(above) <= n) BY DEF Newest
<1> QED BY <1>5, <1>6

\* New texts join the queue, the newest of all are kept, and may be served.
LEMMA ViewJoined ==
  ASSUME NEW s \in ConversationState, NEW t, NEW new \in SUBSET Msg, new # {},
         KeptTexts(s, new) # {}, now \in Nat, Busy(s), Joining(s, t, new)
  PROVE  View(t) = View(s) \/ Promise!Joined(View(s), View(t), new)
<1> SUFFICES ASSUME t # s PROVE Promise!Joined(View(s), View(t), new)
  OBVIOUS
<1>1. s.mutedUntil <= now BY DEF Joining
<1>2. PICK u \in ConversationState :
        /\ u.texts = KeptTexts(s, new) /\ u.prompt = s.prompt /\ u.stage = s.stage
        /\ u.pausedUntil = s.pausedUntil /\ u.mutedUntil = s.mutedUntil
        /\ Serving(u, t)
  BY DEF Joining
<1>3. Busy(u) BY <1>2, SameBusy
<1>4. View(t) = View(u) \/ Promise!Served(View(u), View(t)) BY <1>2, <1>3, ViewServed
<1> DEFINE v == View(s)
           j == View(u)
           w == View(t)
           kept == KeptTexts(s, new)
           all == v.queue \union new
<1>5. j = [v EXCEPT !.queue = kept]
  <2>1. v = Fields(s.texts, s.prompt, s.pausedUntil, s.mutedUntil) BY DEF View, Fields
  <2>2. j = Fields(kept, s.prompt, s.pausedUntil, s.mutedUntil) BY <1>2 DEF View, Fields
  <2> HIDE DEF v, j, kept
  <2> QED BY <2>1, <2>2 DEF Fields
<1>6. all = s.texts \union new /\ v.mutedUntil <= now BY <1>1 DEF View
<1>7. kept \in (SUBSET all) \ {{}} BY <1>6 DEF KeptTexts, Newest
<1>8. \A x \in kept, y \in all \ kept : y < x
  <2>1. kept = Newest(all, MaxBatch) /\ all \in SUBSET Msg BY <1>6 DEF KeptTexts, ConversationState
  <2>2. MaxBatch \in Nat BY RouterAssumption
  <2> HIDE DEF kept, all
  <2> QED BY <2>1, <2>2, NewestAreNewer
<1>9. Promise!Held(v, v)
  <2>1. s.pausedUntil <= s.pausedUntil BY DEF ConversationState
  <2> QED BY <2>1, ViewHeld
<1> HIDE DEF v, j, w, kept
<1>10. w = j \/ Promise!Served(j, w) BY <1>4 DEF j, w
<1>11. Promise!Joined(v, w, new) BY <1>5, <1>6, <1>7, <1>8, <1>9, <1>10 DEF Promise!Joined
<1> QED BY <1>11 DEF v, w

\* The answer is out, or failed.
LEMMA ViewLanded ==
  ASSUME NEW s \in ConversationState, s.stage # "idle", Busy(s), NEW t,
         IF s.texts = {} /\ s.pausedUntil <= now THEN t = NewState ELSE t = Landed(s)
  PROVE  Promise!Landed(View(s), View(t))
<1> DEFINE v == View(s)
           r == [v EXCEPT !.prompt = {}]
           w == View(t)
<1>1. v = Fields(s.texts, s.prompt, s.pausedUntil, s.mutedUntil) BY DEF View, Fields
<1>2. View(Landed(s)) = Fields(s.texts, {}, s.pausedUntil, s.mutedUntil)
  <2> DEFINE l == Landed(s)
  <2>1. /\ l.texts = s.texts /\ l.prompt = {} /\ l.pausedUntil = s.pausedUntil
        /\ l.mutedUntil = s.mutedUntil
    BY DEF Landed, ConversationState
  <2> HIDE DEF l
  <2>2. View(l) = Fields(s.texts, {}, s.pausedUntil, s.mutedUntil) BY <2>1 DEF View, Fields
  <2> QED BY <2>2 DEF l
<1>3. View(NewState) = Promise!Empty BY DEF View, NewState, Promise!Empty
<1>4. s.prompt # {} BY DEF Busy
<1> DEFINE l == View(Landed(s))
<1>l. l = Fields(s.texts, {}, s.pausedUntil, s.mutedUntil) BY <1>2
<1>5. r = l
  <2> HIDE DEF v, l
  <2> QED BY <1>1, <1>l DEF Fields
<1>6. r.queue = s.texts /\ r.pausedUntil = s.pausedUntil
  <2> HIDE DEF r, l
  <2>1. l.queue = s.texts /\ l.pausedUntil = s.pausedUntil BY <1>l DEF Fields
  <2> QED BY <1>5, <2>1
<1>7. w = IF s.texts = {} /\ s.pausedUntil <= now THEN Promise!Empty ELSE r
  BY <1>3, <1>5
<1>8. v.prompt # {} BY <1>4 DEF View
<1> HIDE DEF v, w, l
<1>9. Promise!Landed(v, w) BY <1>6, <1>7, <1>8 DEF Promise!Landed
<1> QED BY <1>9 DEF v, w

\* A step while the session is up that changes what is seen of one conversation at
\* most, as the inbox allows.
Allowed(s, t, new) ==
  \/ t = s
  \/ Promise!Held(s, t) \/ Promise!Silenced(s, t) \/ Promise!Served(s, t)
  \/ Promise!Landed(s, t) \/ Promise!Joined(s, t, new)

LEMMA BoxMoves ==
  ASSUME arrived \in Nat, arrived' \in Nat, arrived <= arrived',
         disposals = 0, disposals' = 0,
         NEW c \in Conv, \A d \in Conv \ {c} : Seen(d)' = Seen(d),
         Allowed(Seen(c), Seen(c)', (1..arrived') \ (1..arrived))
  PROVE  Promise!InboxNext
<1> DEFINE box == [d \in Conv |-> Seen(d)]
<1>1. 1..arrived \subseteq 1..arrived' OBVIOUS
<1>2. box[c] = Seen(c) /\ box'[c] = Seen(c)' OBVIOUS
<1>3. box' = [box EXCEPT ![c] = Seen(c)'] OBVIOUS
<1>4. CASE Seen(c)' = Seen(c)
  <2>1. box' = box BY <1>4
  <2> QED BY <1>1, <2>1 DEF Promise!InboxNext
<1>5. CASE Seen(c)' # Seen(c)
  <2>1. Promise!Move(c) BY <1>2, <1>3, <1>5 DEF Promise!Move, Allowed
  <2> QED BY <1>1, <2>1 DEF Promise!InboxNext
<1> QED BY <1>4, <1>5

\* What is seen when the map takes or keeps the object o for c, and only o changes.
LEMMA BoxTaken ==
  ASSUME NamesInv, disposals = 0, disposals' = 0, NEW c \in Conv, NEW o \in Obj, NEW s,
         Ensure(c, o, s), conversations' = [conversations EXCEPT ![c] = o],
         \A q \in Obj \ {o} : state'[q] = state[q]
  PROVE  /\ Seen(c) = View(s) /\ Seen(c)' = View(state'[o])
         /\ \A d \in Conv \ {c} : Seen(d)' = Seen(d)
<1>n. conversations \in [Conv -> Obj \cup {None}] /\ None \notin Obj /\ NamesAgree
  BY RouterAssumption DEF NamesInv, TypeOK
<1>1. /\ conversations'[c] = o
      /\ \A d \in Conv : d # c => conversations'[d] = conversations[d] /\ conversations[d] # o
  BY <1>n DEF NamesAgree, Ensure, Unused
<1>2. Seen(c) = View(s)
  <2>1. View([NewState EXCEPT !.id = c]) = View(NewState) BY DEF View, NewState
  <2> QED BY <1>n, <2>1 DEF Seen, Ensure
<1>3. Seen(c)' = View(state'[o]) BY <1>n, <1>1 DEF Seen, View
<1>4. \A d \in Conv \ {c} : Seen(d)' = Seen(d) BY <1>n, <1>1 DEF Seen, View
<1> QED BY <1>2, <1>3, <1>4

\* What is seen when only a listed object o changes.
LEMMA BoxOwn ==
  ASSUME NamesInv, disposals = 0, disposals' = 0, NEW c \in Conv, NEW o \in Obj,
         conversations[c] = o, conversations' = conversations,
         \A q \in Obj \ {o} : state'[q] = state[q]
  PROVE  /\ Seen(c) = View(state[o]) /\ Seen(c)' = View(state'[o])
         /\ \A d \in Conv \ {c} : Seen(d)' = Seen(d)
<1>1. Ensure(c, o, state[o]) BY DEF Ensure
<1>2. conversations' = [conversations EXCEPT ![c] = o] BY DEF NamesInv, TypeOK
<1> QED BY <1>1, <1>2, BoxTaken

\* The end of a flush lands the prompt of a conversation.
LEMMA FinallyLands ==
  ASSUME InboxInv, disposals = 0, disposals' = 0, arrived' = arrived, NEW o \in Obj,
         state[o].stage # "idle", Finally(o)
  PROVE  Promise!InboxNext
<1>n. /\ NamesInv /\ TypeOK /\ Waiting /\ Busy(state[o]) /\ state[o] \in ConversationState
      /\ state \in [Obj -> ConversationState] /\ arrived \in Nat
      /\ conversations \in [Conv -> Obj \cup {None}] /\ None \notin Obj
  BY RouterAssumption DEF InboxInv, ServedInv, PlacesInv, NamesInv, TypeOK, PromptIsInFlight
<1>0. PICK c : c = state[o].id OBVIOUS
<1>1. c \in Conv /\ conversations[c] = o /\ Sound(state[o], msgs)
  BY <1>0, <1>n DEF NamesInv, LiveIsNamed, Waiting, LiveIsListed, AllSound, Live
<1>2. CASE MayDrop(o)
  <2>1. state[o].texts = {} /\ state[o].pausedUntil <= now BY <1>2 DEF MayDrop
  <2>2. state[o].timerAt = 0 BY <1>n, <1>1, <2>1 DEF Sound, ConversationState
  <2>3. /\ conversations' = [conversations EXCEPT ![c] = None]
        /\ state' = [state EXCEPT ![o] = NewState]
    BY <1>0, <1>n, <1>2, <2>2 DEF Finally
  <2>4. Promise!Landed(View(state[o]), View(NewState)) BY <1>n, <2>1, ViewLanded
  <2>5. \A d \in Conv : d # c => conversations'[d] = conversations[d] /\ conversations[d] # o
    BY <1>n, <1>1, <2>3 DEF NamesInv, NamesAgree
  <2>6. conversations'[c] = None /\ \A q \in Obj \ {o} : state'[q] = state[q] BY <1>n, <1>1, <2>3
  <2>7. Seen(c) = View(state[o]) /\ Seen(c)' = View(NewState)
    BY <1>n, <1>1, <2>6 DEF Seen, View
  <2>8. \A d \in Conv \ {c} : Seen(d)' = Seen(d) BY <1>n, <2>5, <2>6 DEF Seen, View
  <2>9. Allowed(Seen(c), Seen(c)', (1..arrived') \ (1..arrived)) BY <2>4, <2>7 DEF Allowed
  <2> QED BY <1>n, <1>1, <2>8, <2>9, BoxMoves
<1>3. CASE ~MayDrop(o)
  <2>1. conversations' = conversations /\ state' = [state EXCEPT ![o] = Landed(state[o])]
    BY <1>n, <1>3 DEF Finally
  <2>2. Promise!Landed(View(state[o]), View(Landed(state[o])))
    BY <1>n, <1>3, ViewLanded DEF MayDrop
  <2>3. state'[o] = Landed(state[o]) /\ \A q \in Obj \ {o} : state'[q] = state[q] BY <1>n, <2>1
  <2>4. /\ Seen(c) = View(state[o]) /\ Seen(c)' = View(Landed(state[o]))
        /\ \A d \in Conv \ {c} : Seen(d)' = Seen(d)
    BY <1>n, <1>1, <2>1, <2>3, BoxOwn
  <2>5. Allowed(Seen(c), Seen(c)', (1..arrived') \ (1..arrived)) BY <2>2, <2>4 DEF Allowed
  <2> QED BY <1>n, <1>1, <2>4, <2>5, BoxMoves
<1> QED BY <1>2, <1>3

\* Until the session shuts down every step is one of the inbox.
LEMMA RouterKeepsInbox ==
  ASSUME InboxInv, TypeOK', disposals = 0, disposals' = 0, [Next]_vars
  PROVE  Promise!InboxNext
<1>n. /\ NamesInv /\ TypeOK /\ Waiting /\ OnePlacePerText /\ Unseen
      /\ now \in Nat \ {0} /\ state \in [Obj -> ConversationState]
      /\ arrived \in Nat /\ arrived' \in Nat /\ conversations \in [Conv -> Obj \cup {None}]
  BY RouterAssumption DEF InboxInv, ServedInv, PlacesInv, NamesInv, TypeOK
<1>b. \A o \in Obj : Busy(state[o]) /\ state[o] \in ConversationState
  BY <1>n DEF InboxInv, PromptIsInFlight
<1>s. ASSUME conversations' = conversations, state' = state, arrived' = arrived
      PROVE  Promise!InboxNext
  <2>1. [c \in Conv |-> Seen(c)]' = [c \in Conv |-> Seen(c)] BY <1>s DEF Seen, View
  <2> QED BY <1>s, <2>1 DEF Promise!InboxNext
<1>1. ASSUME NEW c \in Conv, NEW k \in 1..MaxMsgs, Enqueue(c, k) PROVE Promise!InboxNext
  <2> DEFINE new == (arrived + 1)..(arrived + k)
             seen == [m \in Msg |-> IF m \notin new THEN msgs[m]
                                    ELSE [from |-> c, at |-> now, fate |-> "future"]]
  <2>1. PICK o \in Obj : \E s \in {state[o], [NewState EXCEPT !.id = c]} :
          /\ Ensure(c, o, s) /\ conversations' = [conversations EXCEPT ![c] = o]
          /\ EnqueueOn(o, s, new, seen)
    BY <1>1 DEF Enqueue
  <2>2. PICK s : /\ Ensure(c, o, s) /\ conversations' = [conversations EXCEPT ![c] = o]
                 /\ EnqueueOn(o, s, new, seen)
    BY <2>1
  <2>3. /\ new \in SUBSET Msg /\ new # {} /\ k \in Nat \ {0} /\ arrived' = arrived + k
        /\ (1..arrived') \ (1..arrived) = new
    BY <1>n, <1>1, RouterAssumption DEF Enqueue, Msg
  <2>4. s \in ConversationState BY <1>n, <2>2, EnsureNamed
  <2>5. \A m \in s.texts : m <= arrived
    <3>1. s.texts = state[o].texts BY <1>n, <2>2, EnsureSound
    <3>2. \A m \in state[o].texts : m \in Msg /\ ~(m > arrived)
      BY <1>n DEF OnePlacePerText, Unseen, ConversationState
    <3> QED BY <1>n, <3>1, <3>2, RouterAssumption DEF Msg
  <2>6. KeptTexts(s, new) # {} BY <1>n, <2>3, <2>4, <2>5, NewestKept
  <2> HIDE DEF new, seen
  <2>7. Joining(s, state'[o], new) /\ \A q \in Obj \ {o} : state'[q] = state[q]
    BY <1>n, <2>2, <2>3, <2>4, EnqueueJoins
  <2>8. Busy(s) BY <2>2, EnsureBusy DEF InboxInv
  <2>9. View(state'[o]) = View(s) \/ Promise!Joined(View(s), View(state'[o]), new)
    BY <1>n, <2>3, <2>4, <2>6, <2>7, <2>8, ViewJoined
  <2>10. /\ Seen(c) = View(s) /\ Seen(c)' = View(state'[o])
         /\ \A d \in Conv \ {c} : Seen(d)' = Seen(d)
    BY <1>n, <2>2, <2>7, BoxTaken
  <2>11. Allowed(Seen(c), Seen(c)', (1..arrived') \ (1..arrived)) BY <2>3, <2>9, <2>10 DEF Allowed
  <2>12. arrived <= arrived' BY <1>n, <2>3
  <2> QED BY <1>n, <2>10, <2>11, <2>12, BoxMoves
<1>2. ASSUME NEW c \in Conv, NEW d \in PauseFor, Pause(c, d) PROVE Promise!InboxNext
  <2>1. PICK o \in Obj : \E s \in {state[o], [NewState EXCEPT !.id = c]} :
          /\ Ensure(c, o, s) /\ now + d > s.pausedUntil
          /\ conversations' = [conversations EXCEPT ![c] = o]
          /\ state' = [state EXCEPT ![o] = Paused(s, now + d)]
    BY <1>2 DEF Pause
  <2>2. PICK s : /\ Ensure(c, o, s) /\ now + d > s.pausedUntil
                 /\ conversations' = [conversations EXCEPT ![c] = o]
                 /\ state' = [state EXCEPT ![o] = Paused(s, now + d)]
    BY <2>1
  <2>3. s \in ConversationState /\ s.pausedUntil \in Nat /\ d \in Nat
    BY <1>n, <2>2, EnsureNamed, RouterAssumption DEF ConversationState
  <2> DEFINE t == Paused(s, now + d)
  <2>4. /\ t.texts = s.texts /\ t.prompt = s.prompt /\ t.mutedUntil = s.mutedUntil
        /\ t.pausedUntil = now + d
    BY <2>3 DEF Paused, Armed, ConversationState
  <2>5. state'[o] = t /\ \A q \in Obj \ {o} : state'[q] = state[q] BY <1>n, <2>2
  <2>6. s.pausedUntil <= now + d BY <1>n, <2>2, <2>3
  <2> HIDE DEF t
  <2>7. Promise!Held(View(s), View(t)) BY <2>4, <2>6, ViewHeld
  <2>8. /\ Seen(c) = View(s) /\ Seen(c)' = View(t)
        /\ \A e \in Conv \ {c} : Seen(e)' = Seen(e)
    BY <1>n, <2>2, <2>5, BoxTaken
  <2>9. Allowed(Seen(c), Seen(c)', (1..arrived') \ (1..arrived)) BY <2>7, <2>8 DEF Allowed
  <2>10. arrived <= arrived' BY <1>n, <1>2 DEF Pause
  <2> QED BY <1>n, <2>8, <2>9, <2>10, BoxMoves
<1>3. ASSUME NEW c \in Conv, NEW d \in MuteFor, Mute(c, d) PROVE Promise!InboxNext
  <2>1. PICK o \in Obj : \E s \in {state[o], [NewState EXCEPT !.id = c]} :
          /\ Ensure(c, o, s) /\ conversations' = [conversations EXCEPT ![c] = o]
          /\ state' = [state EXCEPT ![o] = Muted(s, now + d)]
    BY <1>3 DEF Mute
  <2>2. PICK s : /\ Ensure(c, o, s) /\ conversations' = [conversations EXCEPT ![c] = o]
                 /\ state' = [state EXCEPT ![o] = Muted(s, now + d)]
    BY <2>1
  <2>3. s \in ConversationState /\ s.mutedUntil \in Nat /\ d \in Nat
    BY <1>n, <2>2, EnsureNamed, RouterAssumption DEF ConversationState
  <2> DEFINE t == Muted(s, now + d)
  <2>4. /\ t.texts = {} /\ t.prompt = s.prompt /\ t.pausedUntil = s.pausedUntil
        /\ t.mutedUntil = Greater(s.mutedUntil, now + d)
    BY <2>3 DEF Muted, Emptied, Disarmed, ConversationState
  <2>5. state'[o] = t /\ \A q \in Obj \ {o} : state'[q] = state[q] BY <1>n, <2>2
  <2>6. s.mutedUntil <= t.mutedUntil
    <3> HIDE DEF t
    <3> QED BY <1>n, <2>3, <2>4 DEF Greater
  <2> HIDE DEF t
  <2>7. Promise!Silenced(View(s), View(t)) BY <2>4, <2>6, ViewSilenced
  <2>8. /\ Seen(c) = View(s) /\ Seen(c)' = View(t)
        /\ \A e \in Conv \ {c} : Seen(e)' = Seen(e)
    BY <1>n, <2>2, <2>5, BoxTaken
  <2>9. Allowed(Seen(c), Seen(c)', (1..arrived') \ (1..arrived)) BY <2>7, <2>8 DEF Allowed
  <2>10. arrived <= arrived' BY <1>n, <1>3 DEF Mute
  <2> QED BY <1>n, <2>8, <2>9, <2>10, BoxMoves
<1>4. ASSUME Dispose PROVE FALSE BY <1>4 DEF Dispose
<1>5. ASSUME NEW o \in Obj, TimerStale(o) PROVE FALSE
  BY <1>n, <1>5, DueIsOwn DEF TimerStale
<1>6. ASSUME NEW o \in Obj, TimerRearm(o) PROVE Promise!InboxNext
  <2> DEFINE t == Armed(state[o], RearmAt(o))
  <2>0. PICK c : c = state[o].id OBVIOUS
  <2>1. c \in Conv /\ conversations[c] = o /\ o # None
    BY <1>n, <1>6, <2>0, DueIsOwn, RouterAssumption DEF TimerRearm
  <2>2. PICK p \in Obj : \E s \in {state[p], [NewState EXCEPT !.id = c]} :
          /\ Ensure(c, p, s) /\ conversations' = [conversations EXCEPT ![c] = p]
          /\ state' = [Spent(o) EXCEPT ![p] = Armed(s, RearmAt(o))]
    BY <1>6, <2>0 DEF TimerRearm
  <2>3. PICK s : /\ Ensure(c, p, s) /\ conversations' = [conversations EXCEPT ![c] = p]
                 /\ state' = [Spent(o) EXCEPT ![p] = Armed(s, RearmAt(o))]
    BY <2>2
  <2>4. p = o /\ s = state[o] BY <2>1, <2>3 DEF Ensure
  <2>5. conversations' = conversations BY <1>n, <2>1, <2>3, <2>4
  <2>6. Spent(o) \in [Obj -> ConversationState] BY <1>n, SpentEffect
  <2>7. state'[o] = t /\ \A q \in Obj \ {o} : state'[q] = state[q]
    BY <1>n, <2>3, <2>4, <2>6, SpentFields
  <2>8. RearmAt(o) \in Nat BY <1>n, RouterAssumption DEF RearmAt, ConversationState
  <2>9. View(t) = View(state[o]) BY <1>b, <1>n, <2>8, ArmedEffect DEF View
  <2> HIDE DEF t
  <2>10. /\ Seen(c) = View(state[o]) /\ Seen(c)' = View(t)
         /\ \A e \in Conv \ {c} : Seen(e)' = Seen(e)
    BY <1>n, <2>1, <2>5, <2>7, BoxOwn
  <2>11. Allowed(Seen(c), Seen(c)', (1..arrived') \ (1..arrived)) BY <2>9, <2>10 DEF Allowed
  <2>12. arrived <= arrived' BY <1>n, <1>6 DEF TimerRearm
  <2> QED BY <1>n, <2>1, <2>10, <2>11, <2>12, BoxMoves
<1>7. ASSUME NEW o \in Obj, TimerFlush(o) PROVE Promise!InboxNext
  <2> DEFINE sp == Spent(o)
  <2>0. PICK c : c = state[o].id OBVIOUS
  <2>1. c \in Conv /\ conversations[c] = o /\ o # None /\ state[o].texts # {}
    BY <1>n, <1>7, <2>0, DueIsOwn, RouterAssumption DEF TimerFlush
  <2>2. /\ sp \in [Obj -> ConversationState] /\ sp[o] \in ConversationState
        /\ sp[o].texts = state[o].texts /\ sp[o].prompt = state[o].prompt
        /\ sp[o].stage = state[o].stage
        /\ sp[o].pausedUntil = state[o].pausedUntil /\ sp[o].mutedUntil = state[o].mutedUntil
        /\ \A q \in Obj \ {o} : sp[q] = state[q]
    BY <1>n, SpentEffect, SpentFields
  <2>3. Flush(o, sp[o], sp, msgs) /\ conversations' = conversations
    BY <1>7, <2>0, <2>1, <2>2 DEF TimerFlush
  <2> HIDE DEF sp
  <2>4. Serving(sp[o], state'[o]) /\ \A q \in Obj \ {o} : state'[q] = state[q]
    BY <1>n, <2>2, <2>3, FlushServes
  <2>5. Busy(sp[o]) BY <1>b, <2>2, SameBusy
  <2>6. View(sp[o]) = View(state[o]) BY <2>2 DEF View
  <2>7. View(state'[o]) = View(state[o]) \/ Promise!Served(View(state[o]), View(state'[o]))
    BY <2>4, <2>5, <2>6, ViewServed
  <2>8. /\ Seen(c) = View(state[o]) /\ Seen(c)' = View(state'[o])
        /\ \A e \in Conv \ {c} : Seen(e)' = Seen(e)
    BY <1>n, <2>1, <2>3, <2>4, BoxOwn
  <2>9. Allowed(Seen(c), Seen(c)', (1..arrived') \ (1..arrived)) BY <2>7, <2>8 DEF Allowed
  <2>10. arrived <= arrived' BY <1>n, <1>7 DEF TimerFlush
  <2> QED BY <1>n, <2>1, <2>8, <2>9, <2>10, BoxMoves
<1>8. ASSUME NEW o \in Obj, GenerateDone(o) PROVE Promise!InboxNext
  <2>1. /\ conversations' = conversations /\ arrived' = arrived
        /\ \E next \in {"delivering", "failing"} : state' = [state EXCEPT ![o].stage = next]
    BY <1>8 DEF GenerateDone
  <2>2. PICK next : state' = [state EXCEPT ![o].stage = next] BY <2>1
  <2>3. /\ state'[o].texts = state[o].texts /\ state'[o].prompt = state[o].prompt
        /\ state'[o].pausedUntil = state[o].pausedUntil
        /\ state'[o].mutedUntil = state[o].mutedUntil
        /\ \A q \in Obj \ {o} : state'[q] = state[q]
    BY <1>n, <2>2 DEF ConversationState
  <2>4. \A q \in Obj : View(state'[q]) = View(state[q]) BY <2>3 DEF View
  <2>5. \A c \in Conv : Seen(c)' = Seen(c)
    <3> SUFFICES ASSUME NEW c \in Conv PROVE Seen(c)' = Seen(c)
      OBVIOUS
    <3>1. CASE conversations[c] = None BY <2>1, <3>1 DEF Seen, View
    <3>2. CASE conversations[c] # None
      <4>1. conversations[c] \in Obj BY <1>n, <3>2
      <4>2. Seen(c) = View(state[conversations[c]]) BY <3>2 DEF Seen
      <4>3. Seen(c)' = View(state'[conversations[c]]) BY <2>1, <3>2 DEF Seen, View
      <4> QED BY <2>4, <4>1, <4>2, <4>3
    <3> QED BY <3>1, <3>2
  <2>6. [c \in Conv |-> Seen(c)]' = [c \in Conv |-> Seen(c)] BY <2>5
  <2> QED BY <2>1, <2>6 DEF Promise!InboxNext
<1>9. ASSUME NEW o \in Obj, GenerateNothing(o) \/ FlushFailed(o) \/ Delivered(o)
      PROVE  Promise!InboxNext
  <2>1. state[o].stage # "idle" /\ Finally(o) /\ arrived' = arrived
    BY <1>9 DEF GenerateNothing, FlushFailed, Delivered
  <2> QED BY <2>1, FinallyLands
<1>10. CASE SetEligible \/ Tick \/ UNCHANGED vars
  BY <1>s, <1>10 DEF SetEligible, Tick, vars
<1> QED
  BY <1>1, <1>2, <1>3, <1>4, <1>5, <1>6, <1>7, <1>8, <1>9, <1>10
     DEF Next, TimerCallback, FlushStep

\* A shutdown empties the inbox; nothing is promised after it.
LEMMA ShutdownKeepsInbox ==
  ASSUME TypeOK, TypeOK', [Next]_vars, disposals' # 0
  PROVE  Promise!InboxNext
<1>n. disposals \in Nat /\ disposals' \in Nat /\ arrived \in Nat /\ arrived' \in Nat
  BY RouterAssumption DEF TypeOK
<1>1. 1..arrived \subseteq 1..arrived'
  <2>1. ASSUME NEW c \in Conv, NEW k \in 1..MaxMsgs, Enqueue(c, k) PROVE arrived <= arrived'
    BY <1>n, <2>1, RouterAssumption DEF Enqueue
  <2>2. ASSUME arrived' = arrived PROVE arrived <= arrived' BY <1>n, <2>2
  <2>3. arrived <= arrived'
    BY <2>1, <2>2
       DEF Next, vars, history, Pause, Mute, Dispose, TimerCallback, TimerStale, TimerRearm,
           TimerFlush, FlushStep, GenerateDone, GenerateNothing, Delivered, FlushFailed,
           SetEligible, Tick
  <2> QED BY <1>n, <2>3
<1>2. \A c \in Conv : Seen(c)' = View(NewState) BY <1>n DEF Seen, View, NewState
<1>3. View(NewState) = Promise!Empty BY DEF View, NewState, Promise!Empty
<1>4. CASE disposals' = disposals
  <2>1. \A c \in Conv : Seen(c) = View(NewState) BY <1>n, <1>4 DEF Seen
  <2>2. [c \in Conv |-> Seen(c)]' = [c \in Conv |-> Seen(c)] BY <1>2, <2>1
  <2> QED BY <1>n, <1>1, <1>4, <2>2 DEF Promise!InboxNext
<1>5. CASE disposals' # disposals
  <2>1. [c \in Conv |-> Seen(c)]' = [c \in Conv |-> Promise!Empty] BY <1>2, <1>3
  <2>2. Promise!Reset BY <1>5, <2>1 DEF Promise!Reset
  <2> QED BY <1>1, <2>2 DEF Promise!InboxNext
<1> QED BY <1>4, <1>5

\* What the session sees of its router is an inbox: whatever timers, epochs and objects
\* do, a queue is answered whole, by one prompt at a time and outside pauses, it loses
\* only its oldest texts, or all of them to a mute, no pause is shortened, and a mute
\* only by the end of a reply, which forgets a conversation without texts and pause.
THEOREM RouterIsTheirInbox == Spec => RouterIsAnInbox
<1>1. Init => Promise!InboxInit
  <2> SUFFICES ASSUME Init PROVE Promise!InboxInit
    OBVIOUS
  <2>1. \A c \in Conv : Seen(c) = View(NewState) BY DEF Init, Seen
  <2>2. View(NewState) = Promise!Empty BY DEF View, NewState, Promise!Empty
  <2>3. [c \in Conv |-> Seen(c)] = [c \in Conv |-> Promise!Empty] BY <2>1, <2>2
  <2>4. 1..arrived = {} /\ ~(disposals > 0) BY DEF Init
  <2> QED BY <2>3, <2>4 DEF Promise!InboxInit
<1>2. InboxInv /\ TypeOK /\ TypeOK' /\ [Next]_vars => [Promise!InboxNext]_(Promise!inboxVars)
  <2>1. ASSUME InboxInv, TypeOK, TypeOK', [Next]_vars PROVE Promise!InboxNext
    <3>1. CASE disposals' = 0
      <4>1. disposals = 0 BY <2>1, <3>1, DisposalsGrow
      <4> QED BY <2>1, <3>1, <4>1, RouterKeepsInbox
    <3>2. CASE disposals' # 0 BY <2>1, <3>2, ShutdownKeepsInbox
    <3> QED BY <3>1, <3>2
  <2> QED BY <2>1
<1> QED BY <1>1, <1>2, InboxAlways, TypeCorrect, PTL DEF Spec, RouterIsAnInbox, Promise!InboxSpec

=============================================================================
