----------------------------- MODULE TypingPresence -----------------------------
(***************************************************************************)
(* What the peer sees of the typing in a chat room of the dashboard:       *)
(* sendChatPresence() and the three timers around it in                    *)
(* src/dashboard-ui/js/pages/chatRooms.js.  The requests are not awaited   *)
(* by what comes next; what was sent last is remembered when its answer    *)
(* comes, and the same again is left out for a moment.  The lengths of the *)
(* timers are random and left open; a timer may fire at any time.          *)
(***************************************************************************)
EXTENDS Naturals, Sequences, SequencesExt

CONSTANTS
  Room,
  NoRoom,
  MaxPosts   \* bound: requests without an answer at a time

ASSUME TypingAssumption == NoRoom \notin Room /\ MaxPosts \in Nat

VARIABLES
  typingIn,   \* outgoingTypingJid while outgoingTypingActive, else NoRoom
  told,       \* outgoingTypingComposingSent
  startTimer, \* the room whose start timer runs
  pauseTimer, \* is it armed
  keepTimer,  \* is it armed
  lastSent,   \* outgoingPresenceState: the type last answered, and is its cooldown running
  posts,      \* requests without an answer, and has the peer got them
  sees,       \* what each peer saw last
  missed      \* history: at the room's last pause a "composing" had no answer yet, or a request was lost since

typingVars == <<typingIn, told, startTimer, pauseTimer, keepTimer, lastSent, posts, sees, missed>>
timers == <<startTimer, pauseTimer, keepTimer>>

Presence == {"composing", "paused"}

TypingTypeOK ==
  /\ typingIn \in Room \union {NoRoom} /\ startTimer \in Room \union {NoRoom}
  /\ {told, pauseTimer, keepTimer} \subseteq BOOLEAN /\ sees \in [Room -> Presence]
  /\ lastSent \in [Room -> [type : Presence \union {"none"}, fresh : BOOLEAN]]
  /\ Range(posts) \subseteq [type : Presence, room : Room, arrived : BOOLEAN] /\ Len(posts) <= MaxPosts
  /\ missed \in [Room -> BOOLEAN]

TypingInit ==
  /\ typingIn = NoRoom /\ told = FALSE /\ startTimer = NoRoom /\ pauseTimer = FALSE /\ keepTimer = FALSE
  /\ lastSent = [r \in Room |-> [type |-> "none", fresh |-> FALSE]] /\ posts = <<>>
  /\ sees = [r \in Room |-> "paused"] /\ missed = [r \in Room |-> FALSE]

-----------------------------------------------------------------------------
\* sendChatPresence(): the same again within the cooldown of the last one is left out.
Leaves(type, r) == lastSent[r].type = type /\ lastSent[r].fresh
Sending(type, r) ==
  IF Leaves(type, r) THEN UNCHANGED posts
  ELSE /\ Len(posts) < MaxPosts
       /\ posts' = Append(posts, [type |-> type, room |-> r, arrived |-> FALSE])

\* pauseOutgoingTypingPresence(): the peer is told if it was told of the typing.
Open(r) == \E p \in Range(posts) : p.room = r /\ p.type = "composing"
Pausing ==
  IF typingIn # NoRoom /\ told
  THEN /\ Sending("paused", typingIn)
       /\ missed' = [missed EXCEPT ![typingIn] = Open(typingIn) \/ (@ /\ Leaves("paused", typingIn))]
  ELSE UNCHANGED <<posts, missed>>

\* The user stopped, or sent the message, or cleared it, or opened another room, or left.
EndTyping ==
  /\ typingIn # NoRoom /\ Pausing
  /\ typingIn' = NoRoom /\ told' = FALSE /\ startTimer' = NoRoom /\ pauseTimer' = FALSE /\ keepTimer' = FALSE
  /\ UNCHANGED <<lastSent, sees>>

\* scheduleOutgoingTypingPresence(): a first character in a room, or one more.  The
\* typing in another room is paused first.  (Variant: that room is forgotten.)
Forgotten == UNCHANGED <<posts, missed>>
OtherRoom == Pausing
KeyPressed(r) ==
  /\ pauseTimer' = TRUE
  /\ IF typingIn = r
     THEN keepTimer' = (keepTimer \/ told) /\ UNCHANGED <<typingIn, told, startTimer, posts, missed>>
     ELSE /\ OtherRoom /\ typingIn' = r /\ told' = FALSE /\ startTimer' = r /\ keepTimer' = FALSE
  /\ UNCHANGED <<lastSent, sees>>

StartFires ==
  /\ startTimer # NoRoom /\ startTimer' = NoRoom
  /\ IF typingIn = startTimer
     THEN Sending("composing", startTimer) /\ told' = TRUE /\ keepTimer' = TRUE
     ELSE UNCHANGED <<posts, told, keepTimer>>
  /\ UNCHANGED <<typingIn, pauseTimer, lastSent, sees, missed>>
KeepAlive ==
  /\ keepTimer /\ typingIn # NoRoom /\ Sending("composing", typingIn)
  /\ UNCHANGED <<typingIn, told, timers, lastSent, sees, missed>>

\* The handler passes it on to the session; the answer is remembered, and so is a
\* refusal; a request without an answer is not.
Arrives(k) ==
  /\ ~posts[k].arrived /\ posts' = [posts EXCEPT ![k].arrived = TRUE]
  /\ sees' = [sees EXCEPT ![posts[k].room] = posts[k].type]
  /\ UNCHANGED <<typingIn, told, timers, lastSent, missed>>
Answered(k, fresh) ==
  /\ posts' = RemoveAt(posts, k)
  /\ lastSent' = [lastSent EXCEPT ![posts[k].room] = [type |-> posts[k].type, fresh |-> fresh]]
  /\ missed' = IF posts[k].arrived /\ ~\E j \in 1..(k - 1) : posts[j].room = posts[k].room
               THEN missed ELSE [missed EXCEPT ![posts[k].room] = TRUE]
  /\ UNCHANGED <<typingIn, told, timers, sees>>
NotAnswered(k) ==
  /\ posts' = RemoveAt(posts, k) /\ missed' = [missed EXCEPT ![posts[k].room] = TRUE]
  /\ UNCHANGED <<typingIn, told, timers, lastSent, sees>>

\* The cooldown is over; the page is left and what was sent last forgotten.
CooldownEnds(r) ==
  /\ lastSent[r].fresh /\ lastSent' = [lastSent EXCEPT ![r].fresh = FALSE]
  /\ UNCHANGED <<typingIn, told, timers, posts, sees, missed>>
ForgetSent ==
  /\ typingIn = NoRoom /\ lastSent' = [r \in Room |-> [type |-> "none", fresh |-> FALSE]]
  /\ UNCHANGED <<typingIn, told, timers, posts, sees, missed>>

TypingNext ==
  \/ EndTyping \/ StartFires \/ KeepAlive \/ ForgetSent
  \/ \E r \in Room : KeyPressed(r) \/ CooldownEnds(r)
  \/ \E k \in DOMAIN posts : Arrives(k) \/ NotAnswered(k) \/ \E fresh \in BOOLEAN : Answered(k, fresh)
TypingSpec == TypingInit /\ [][TypingNext]_typingVars

-----------------------------------------------------------------------------
\* A peer is not left with "typing" in a room nobody types in: when every request is
\* answered it saw the pause last, unless that pause was sent, or left out, while a
\* "composing" was still without an answer, or a request was lost or overtaken.  And whoever types is
\* paused in the end: the pause timer runs as long as a room counts as typed in, and no
\* timer of an earlier room or of an earlier typing tells the peer anything.
PeerSeesTheEnd ==
  \A r \in Room : typingIn # r /\ sees[r] = "composing" /\ ~missed[r] => \E p \in Range(posts) : p.room = r
TypingIsPaused ==
  IF typingIn = NoRoom THEN ~told /\ ~pauseTimer /\ ~keepTimer /\ startTimer = NoRoom
  ELSE pauseTimer /\ startTimer \in {typingIn, NoRoom} /\ (keepTimer => told) /\ (told => startTimer = NoRoom)

TypingEnds == PeerSeesTheEnd /\ TypingIsPaused
=============================================================================
