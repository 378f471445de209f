------------------------------- MODULE ChatRooms --------------------------------
(***************************************************************************)
(* The chat rooms page of the dashboard,                                   *)
(* src/dashboard-ui/js/pages/chatRooms.js, in one session.  Its functions  *)
(* await request after request while the user goes on clicking, and what   *)
(* follows a request works on the page as it is then: the selected room,   *)
(* the one form, the one timer.  Drafts, receipts, the bubbles and the     *)
(* notices of the peer's typing are left out.                              *)
(***************************************************************************)
EXTENDS Integers, Sequences, SequencesExt, FiniteSets

CONSTANTS
  Chat,     \* chats of the session, in the chosen mode
  NoChat,
  Slot,     \* bound: chains of requests in progress at a time
  MaxSteps  \* bound: steps such a chain has left when a list opens another room

ASSUME RoomsAssumption == NoChat \notin Chat /\ MaxSteps \in Nat

(***************************************************************************)
(* A chain is the rest of an async function that is under way, the         *)
(* functions it awaits written out: the sequence of its steps, each with   *)
(* its room.  The first one is awaited, unless it is one of Sync: those    *)
(* run before anything else does.                                          *)
(***************************************************************************)
Sync == {"take", "attach", "look", "again", "arm", "free"}
Step == [op : Sync \union {"sessions", "list", "open", "messages", "read", "refresh",
                           "pause", "post", "settle", "remove", "clear"},
         room : Chat \union {NoChat}]
On(op, r) == [op |-> op, room |-> r]
Do(op) == On(op, NoChat)

Rendering == <<Do("sessions"), Do("list"), Do("arm")>>
Polling == <<Do("list"), Do("look"), Do("arm")>>
Taking(r) == <<On("take", r), On("read", r), On("post", r), Do("list"), Do("settle"), Do("look"), Do("free")>>

VARIABLES
  here,         \* is this the page the application shows
  session,      \* is there a selectedSessionId
  selected,     \* selectedJid
  shown,        \* the room of the header over the form, NoChat without a form
  listeners,    \* the rooms whose submit handlers this form has, in their order
  text,         \* is there something in the input
  chains,       \* the chains under way
  isSending,
  refreshTimer, \* is it armed
  thrown        \* history: a request got no answer, or a handler found no form

roomsVars == <<here, session, selected, shown, listeners, text, chains, isSending, refreshTimer, thrown>>
form == <<shown, listeners, text>>

RoomsTypeOK ==
  /\ {here, session, text, isSending, refreshTimer, thrown} \subseteq BOOLEAN
  /\ {selected, shown} \subseteq Chat \union {NoChat} /\ Range(listeners) \subseteq Chat
  /\ \A i \in Slot : Range(chains[i]) \subseteq Step

RoomsInit ==
  /\ here = FALSE /\ session = FALSE /\ selected = NoChat /\ shown = NoChat /\ listeners = <<>>
  /\ text = FALSE /\ chains = [i \in Slot |-> <<>>] /\ isSending = FALSE /\ refreshTimer = FALSE
  /\ thrown = FALSE

-----------------------------------------------------------------------------
At(i, op) == chains[i] # <<>> /\ Head(chains[i]).op = op
Settled == \A i \in Slot, op \in Sync : ~At(i, op)
FreeSlots == {i \in Slot : chains[i] = <<>>}

Goes(i, steps) == chains' = [chains EXCEPT ![i] = steps \o Tail(@)]
Wiped == shown' = NoChat /\ listeners' = <<>> /\ text' = FALSE

\* An exception ends a chain; that of a message goes to its finally block.
Has(i, op) == \E k \in 1..Len(chains[i]) : chains[i][k].op = op
Throws(i) ==
  /\ chains' = [chains EXCEPT ![i] = IF Has(i, "free") /\ ~Has(i, "take") THEN <<Do("free")>> ELSE <<>>]
  /\ thrown' = TRUE

\* The list, or what of it matches the search: an empty one wipes the conversation, one
\* without the selected room opens its first.
RenderChatList(i, found) ==
  IF shown = NoChat /\ ~session THEN Goes(i, <<>>) /\ UNCHANGED <<selected, form>>
  ELSE IF found = {} THEN Wiped /\ Goes(i, <<>>) /\ UNCHANGED selected
  ELSE IF selected \in found THEN Goes(i, <<>>) /\ UNCHANGED <<selected, form>>
  ELSE \E first \in found :
         /\ Len(chains[i]) <= MaxSteps /\ selected' = first
         /\ Goes(i, <<On("open", first)>>) /\ UNCHANGED form

-----------------------------------------------------------------------------
\* App.navigate() to the page and away from it.  A page drawn by a late answer, after
\* the user left, is drawn over by the next one.
Navigate(i) ==
  /\ Settled /\ ~here /\ chains[i] = <<>> /\ here' = TRUE
  /\ chains' = [chains EXCEPT ![i] = Rendering]
  /\ UNCHANGED <<session, selected, form, isSending, refreshTimer, thrown>>
LeavePage ==
  /\ Settled /\ here /\ here' = FALSE /\ session' = FALSE /\ selected' = NoChat /\ Wiped
  /\ isSending' = FALSE /\ refreshTimer' = FALSE /\ UNCHANGED <<chains, thrown>>
DrawnOver ==
  /\ Settled /\ ~here /\ shown # NoChat /\ Wiped
  /\ UNCHANGED <<here, session, selected, chains, isSending, refreshTimer, thrown>>

MayClick(i) == Settled /\ here /\ session /\ chains[i] = <<>> /\ Cardinality(FreeSlots) > 1
Clicks(i, steps) ==
  /\ chains' = [chains EXCEPT ![i] = steps]
  /\ UNCHANGED <<here, session, form, isSending, refreshTimer, thrown>>

\* A room of the list is clicked; the chat menu loads it again with the list, deletes it or
\* clears it.
SelectRoom(i, r) == MayClick(i) /\ selected' = r /\ Clicks(i, <<On("open", r)>>)
ReloadChat(i, r) == MayClick(i) /\ selected' = r /\ Clicks(i, <<On("open", r), Do("list")>>)
RemoveChat(i, r) == MayClick(i) /\ UNCHANGED selected /\ Clicks(i, <<On("remove", r), Do("list")>>)
ClearChat(i, r) == MayClick(i) /\ UNCHANGED selected /\ Clicks(i, <<On("clear", r), Do("list")>>)
\* Another mode or session is chosen; the refresh button.
SwitchMode(i) == MayClick(i) /\ selected' = NoChat /\ Clicks(i, <<Do("list")>>)
Refresh(i) == MayClick(i) /\ UNCHANGED selected /\ Clicks(i, <<Do("list"), Do("again")>>)

\* Focus, blur and a changed interval: restartPollingSoon().
RestartPolling ==
  /\ Settled /\ here /\ session /\ refreshTimer' = TRUE
  /\ UNCHANGED <<here, session, selected, form, chains, isSending, thrown>>

\* The timer of startPolling(); without a session nothing follows.
TimerFires(i) ==
  /\ Settled /\ refreshTimer /\ chains[i] = <<>> /\ refreshTimer' = FALSE
  /\ chains' = IF session THEN [chains EXCEPT ![i] = Polling] ELSE chains
  /\ UNCHANGED <<here, session, selected, form, isSending, thrown>>

Type ==
  /\ Settled /\ here /\ shown # NoChat /\ ~text /\ text' = TRUE
  /\ UNCHANGED <<here, session, selected, shown, listeners, chains, isSending, refreshTimer, thrown>>

\* A submit: each handler of the form looks at the text and at isSending, then waits
\* until the peer knows that the typing stopped, if it was told that one is typing.
Submit(composing) ==
  /\ Settled /\ here /\ text /\ ~isSending /\ listeners # <<>> /\ Len(listeners) <= Cardinality(FreeSlots)
  /\ \E at \in [1..Len(listeners) -> FreeSlots] :
       /\ IsInjective(at)
       /\ chains' = [i \in Slot |->
            IF i \notin Range(at) THEN chains[i]
            ELSE LET k == CHOOSE k \in 1..Len(listeners) : at[k] = i
                 IN (IF composing /\ k = 1 THEN <<Do("pause")>> ELSE <<>>) \o Taking(listeners[k])]
  /\ UNCHANGED <<here, session, selected, form, isSending, refreshTimer, thrown>>

-----------------------------------------------------------------------------
\* The synchronous steps: the text is taken and polling stopped, the handler attached,
\* the selected room looked at, the timer armed, the flag cleared.
TakeText(i) ==
  /\ At(i, "take") /\ Goes(i, <<>>)
  /\ text' = FALSE /\ isSending' = TRUE /\ refreshTimer' = FALSE
  /\ UNCHANGED <<here, session, selected, shown, listeners, thrown>>
Attach(i) ==
  /\ At(i, "attach")
  /\ IF shown = NoChat THEN Throws(i) /\ UNCHANGED form
     ELSE /\ listeners' = Append(listeners, Head(chains[i]).room) /\ text' = FALSE
          /\ Goes(i, <<>>) /\ UNCHANGED <<shown, thrown>>
  /\ UNCHANGED <<here, session, selected, isSending, refreshTimer>>
Look(i) ==
  /\ At(i, "look")
  /\ Goes(i, IF selected # NoChat /\ shown # NoChat THEN <<On("refresh", selected)>> ELSE <<>>)
  /\ UNCHANGED <<here, session, selected, form, isSending, refreshTimer, thrown>>
Again(i) ==
  /\ At(i, "again") /\ Goes(i, IF selected # NoChat THEN <<On("open", selected)>> ELSE <<>>)
  /\ UNCHANGED <<here, session, selected, form, isSending, refreshTimer, thrown>>
Arm(i) ==
  /\ At(i, "arm") /\ Goes(i, <<>>) /\ refreshTimer' = TRUE
  /\ UNCHANGED <<here, session, selected, form, isSending, thrown>>
\* The finally block of a message.  (Variant: it leaves the polling stopped.)
FlagOnly(i) == At(i, "free") /\ isSending' = FALSE /\ UNCHANGED refreshTimer
Freed(i) == At(i, "free") /\ isSending' = FALSE /\ refreshTimer' = TRUE
Release(i) == Freed(i) /\ Goes(i, <<>>) /\ UNCHANGED <<here, session, selected, form, thrown>>

-----------------------------------------------------------------------------
Others == <<here, isSending, refreshTimer>>

\* render(): the sessions have come, and the page is drawn, even if the user has left.
SessionsCame(i) ==
  /\ Settled /\ At(i, "sessions") /\ session' = TRUE /\ selected' = NoChat /\ Wiped /\ Goes(i, <<>>)
  /\ UNCHANGED <<Others, thrown>>

\* loadChatList() and, through markRoomAsRead(), the list from the cache; an error of the
\* first ends it, one of the second is passed over.
ListCame(i) ==
  /\ Settled /\ At(i, "list")
  /\ \/ \E found \in SUBSET Chat : session /\ RenderChatList(i, found)
     \/ Goes(i, <<>>) /\ UNCHANGED <<selected, form>>
  /\ UNCHANGED <<session, Others, thrown>>
MarkedAsRead(i) ==
  /\ Settled /\ At(i, "read")
  /\ \/ \E found \in SUBSET Chat : session /\ RenderChatList(i, found)
     \/ Goes(i, <<>>) /\ UNCHANGED <<selected, form>>
  /\ UNCHANGED <<session, Others, thrown>>

\* loadConversation(): a new header and a new form, then the messages.
Opened(i) ==
  /\ Settled /\ At(i, "open")
  /\ IF session
     THEN /\ shown' = Head(chains[i]).room /\ listeners' = <<>> /\ text' = FALSE
          /\ Goes(i, <<On("messages", Head(chains[i]).room)>>)
     ELSE Goes(i, <<>>) /\ UNCHANGED form
  /\ UNCHANGED <<session, selected, Others, thrown>>
MessagesCame(i, ok) ==
  /\ Settled /\ At(i, "messages")
  /\ Goes(i, IF ok THEN <<On("read", Head(chains[i]).room), On("attach", Head(chains[i]).room)>> ELSE <<>>)
  /\ UNCHANGED <<session, selected, form, Others, thrown>>

\* refreshCurrentConversation(), the pause of the typing and the wait for the store.
Ended(i, op) ==
  /\ Settled /\ At(i, op) /\ Goes(i, <<>>) /\ UNCHANGED <<session, selected, form, Others, thrown>>

\* A failed message gives the text back; the list and the wait are skipped.
Posted(i, ok) ==
  /\ Settled /\ At(i, "post")
  /\ IF ok THEN Goes(i, <<>>) /\ UNCHANGED text
     ELSE chains' = [chains EXCEPT ![i] = <<Do("look"), Do("free")>>] /\ text' = (shown # NoChat)
  /\ UNCHANGED <<session, selected, shown, listeners, Others, thrown>>

\* runChatAction(): the chat is gone, and with it the selection; or it is empty.
Removed(i, ok) ==
  /\ Settled /\ At(i, "remove")
  /\ IF ok THEN /\ selected' = IF selected = Head(chains[i]).room THEN NoChat ELSE selected
                /\ Goes(i, <<>>)
     ELSE chains' = [chains EXCEPT ![i] = <<>>] /\ UNCHANGED selected
  /\ UNCHANGED <<session, form, Others, thrown>>

ChatCleared(i, ok) ==
  /\ Settled /\ At(i, "clear")
  /\ IF ~ok THEN chains' = [chains EXCEPT ![i] = <<>>]
     ELSE Goes(i, IF selected = Head(chains[i]).room THEN <<On("open", selected)>> ELSE <<>>)
  /\ UNCHANGED <<session, selected, form, Others, thrown>>

\* fetch() rejects: no answer at all.
NoAnswer(i) ==
  /\ Settled
  /\ \E op \in {"sessions", "list", "messages", "read", "refresh", "post", "remove", "clear"} : At(i, op)
  /\ Throws(i) /\ UNCHANGED <<session, selected, form, Others>>

RoomsNext ==
  \/ LeavePage \/ DrawnOver \/ RestartPolling \/ Type
  \/ \E composing \in BOOLEAN : Submit(composing)
  \/ \E i \in Slot :
       \/ Navigate(i) \/ SwitchMode(i) \/ Refresh(i) \/ TimerFires(i)
       \/ \E r \in Chat : SelectRoom(i, r) \/ ReloadChat(i, r) \/ RemoveChat(i, r) \/ ClearChat(i, r)
       \/ TakeText(i) \/ Attach(i) \/ Look(i) \/ Again(i) \/ Arm(i) \/ Release(i)
       \/ SessionsCame(i) \/ ListCame(i) \/ MarkedAsRead(i) \/ Opened(i) \/ NoAnswer(i)
       \/ \E ok \in BOOLEAN : MessagesCame(i, ok) \/ Posted(i, ok) \/ Removed(i, ok) \/ ChatCleared(i, ok)
       \/ \E op \in {"refresh", "pause", "settle"} : Ended(i, op)
RoomsSpec == RoomsInit /\ [][RoomsNext]_roomsVars

-----------------------------------------------------------------------------
\* As long as the page has a session and no request went without an answer, the
\* conversation goes on being refreshed: the timer is armed, or a chain is under way
\* that arms it at its end, whatever loads, sends and restarts overlap.  And the form
\* never stays locked: when isSending is set, a chain that clears it is under way, an
\* unanswered request or not.
Arms(i) == Has(i, "arm") \/ (Has(i, "free") /\ ~Has(i, "take"))
PageRecovers ==
  /\ session /\ ~thrown => refreshTimer \/ \E i \in Slot : Arms(i)
  /\ isSending => \E i \in Slot : Has(i, "free") /\ ~Has(i, "take")

\* One message is sent at a time.  Violated: a handler looks at isSending, waits for the
\* typing to be paused, and sets it afterwards; a second submit in between passes too,
\* with the same text.
SendsDoNotOverlap == \A i, j \in Slot : At(i, "post") /\ At(j, "post") => i = j
=============================================================================
