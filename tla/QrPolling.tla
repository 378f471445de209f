-------------------------------- MODULE QrPolling --------------------------------
(***************************************************************************)
(* The sign-in of a session on the sessions page of the dashboard,         *)
(* src/dashboard-ui/js/pages/sessions.js: a request creates or reconnects  *)
(* a session, its answer opens the one modal, and pollQR() asks for the    *)
(* session's state, first once and then every three seconds, whether the   *)
(* question before is answered or not.  The intervals share pollTimer, the *)
(* modal's elements and nothing else; the modal keeps its elements when it *)
(* is hidden.                                                              *)
(***************************************************************************)
EXTENDS Naturals, FiniteSets

CONSTANTS
  PollSession,
  Poll,        \* bound: calls of pollQR() at a time
  NoPoll,
  MaxAsking,   \* bound: updates of one interval under way
  MaxMissing   \* the update without a code at which the code counts as expired

ASSUME QrAssumption == NoPoll \notin Poll /\ {MaxMissing, MaxAsking} \subseteq Nat \ {0}

VARIABLES
  onPage,      \* is the sessions page shown
  wanted,      \* the sessions whose creation or reconnection has no answer yet
  body,        \* what the modal holds: the code of a session, or something else
  chip,        \* what it says of the code
  codeOf,      \* the session whose code or result it shows
  visible,     \* is the modal shown
  polls,       \* of each call of pollQR(): its session, how far it is, updates without a code
  ticking,     \* the calls whose interval runs
  asking,      \* of each call, how many updates of its interval have no answer yet
  pollTimer,   \* the call whose interval was last assigned to it
  closings,    \* may timers be running that hide the modal
  tangled,     \* history: pollQR() was called while an update of an earlier call was under way
  cut,         \* history: the page was left or a first update failed, and no interval runs
  belated      \* history: an update was answered when its interval had been cleared

qrVars == <<onPage, wanted, body, chip, codeOf, visible, polls, ticking, asking, pollTimer, closings,
            tangled, cut, belated>>
screen == <<body, chip, codeOf, visible>>

Unused == [of |-> "none", phase |-> "none", missing |-> 0]
Undecided == {"WAITING", "READY TO SCAN"}

QrTypeOK ==
  /\ {onPage, visible, closings, tangled, cut, belated} \subseteq BOOLEAN /\ wanted \subseteq PollSession
  /\ body \in PollSession \union {"other"} /\ codeOf \in PollSession \union {"none"}
  /\ chip \in Undecided \union {"CONNECTED", "EXPIRED"}
  /\ polls \in [Poll -> [of : PollSession \union {"none"}, phase : {"none", "first", "interval"},
                         missing : 0..MaxMissing]]
  /\ ticking \subseteq Poll /\ asking \in [Poll -> 0..MaxAsking] /\ pollTimer \in Poll \union {NoPoll}

QrInit ==
  /\ onPage = TRUE /\ wanted = {} /\ body = "other" /\ chip = "WAITING" /\ codeOf = "none"
  /\ visible = FALSE /\ polls = [i \in Poll |-> Unused] /\ ticking = {}
  /\ asking = [i \in Poll |-> 0] /\ belated = FALSE
  /\ pollTimer = NoPoll /\ closings = FALSE /\ tangled = FALSE /\ cut = FALSE

-----------------------------------------------------------------------------
Updating == {i \in Poll : asking[i] > 0 \/ polls[i].phase = "first"}
Free(i) == i \notin ticking \union Updating /\ i # pollTimer

\* The user goes to the page and leaves it: destroy() clears the interval.
GoToSessions ==
  /\ ~onPage /\ onPage' = TRUE
  /\ UNCHANGED <<wanted, screen, polls, ticking, asking, pollTimer, closings, tangled, cut, belated>>
LeaveSessions ==
  /\ onPage /\ onPage' = FALSE /\ ticking' = ticking \ {pollTimer} /\ cut' = TRUE
  /\ UNCHANGED <<wanted, screen, polls, asking, pollTimer, closings, tangled, belated>>

\* A session is created from the form in the modal, or reconnected.
SignIn(s) ==
  /\ onPage /\ s \notin wanted /\ wanted' = wanted \union {s}
  /\ UNCHANGED <<onPage, screen, polls, ticking, asking, pollTimer, closings, tangled, cut, belated>>
Refused(s) ==
  /\ s \in wanted /\ wanted' = wanted \ {s}
  /\ UNCHANGED <<onPage, screen, polls, ticking, asking, pollTimer, closings, tangled, cut, belated>>

\* Another modal: a form, a question, or the pairing code that came instead.
ShowOther == body' = "other" /\ visible' = TRUE /\ UNCHANGED <<chip, codeOf>>
OpenOther ==
  /\ onPage /\ ShowOther
  /\ UNCHANGED <<onPage, wanted, polls, ticking, asking, pollTimer, closings, tangled, cut, belated>>
PairingCode(s) ==
  /\ s \in wanted /\ wanted' = wanted \ {s} /\ ShowOther
  /\ UNCHANGED <<onPage, polls, ticking, asking, pollTimer, closings, tangled, cut, belated>>
HideModal ==
  /\ visible /\ visible' = FALSE
  /\ UNCHANGED <<onPage, wanted, body, chip, codeOf, polls, ticking, asking, pollTimer, closings, tangled, cut, belated>>

\* The interval of the call before is cleared.  (Variant: it goes on.)
LeftRunning == UNCHANGED ticking
ClearTimer == ticking' = ticking \ {pollTimer}

\* showQR() and pollQR().
ShowQr(s, i) ==
  /\ s \in wanted /\ Free(i) /\ wanted' = wanted \ {s}
  /\ body' = s /\ chip' = "WAITING" /\ codeOf' = "none" /\ visible' = TRUE
  /\ ClearTimer
  /\ polls' = [polls EXCEPT ![i] = [of |-> s, phase |-> "first", missing |-> 0]]
  /\ tangled' = (tangled \/ Updating # {})
  /\ UNCHANGED <<onPage, asking, pollTimer, closings, cut, belated>>

\* The first update is over, whatever it found: the interval is set.  An update of the
\* interval is answered, maybe after others of it and after it was cleared.
OneLess(i) == asking' = [asking EXCEPT ![i] = @ - 1]
Follows(i, running) ==
  \/ /\ polls[i].phase = "first" /\ ticking' = running \union {i} /\ pollTimer' = i
     /\ UNCHANGED <<asking, belated>>
  \/ /\ asking[i] > 0 /\ OneLess(i) /\ ticking' = running /\ UNCHANGED pollTimer
     /\ belated' = (belated \/ i \notin ticking)
Updated(i, missing) ==
  polls' = [polls EXCEPT ![i] = [@ EXCEPT !.phase = "interval", !.missing = missing]]
Stopped == ticking \ {pollTimer}

\* Three seconds are over: the interval asks again, and waits for no answer.
Tick(i) ==
  /\ i \in ticking /\ asking[i] < MaxAsking /\ asking' = [asking EXCEPT ![i] = @ + 1]
  /\ UNCHANGED <<onPage, wanted, screen, polls, ticking, pollTimer, closings, tangled, cut, belated>>

\* update(): a refusal is passed over; without the element of the modal, the interval
\* that is assigned by now is cleared.
UpdateRefused(i) ==
  /\ i \in Updating /\ Follows(i, ticking) /\ Updated(i, polls[i].missing)
  /\ UNCHANGED <<onPage, wanted, screen, closings, tangled, cut>>
NoElement(i) ==
  /\ i \in Updating /\ body = "other" /\ Follows(i, Stopped) /\ Updated(i, polls[i].missing)
  /\ UNCHANGED <<onPage, wanted, screen, closings, tangled, cut>>

\* The session is connected: the modal says so, and is hidden in a moment.
FoundConnected(i) ==
  /\ i \in Updating /\ body # "other" /\ Follows(i, Stopped) /\ Updated(i, polls[i].missing)
  /\ chip' = "CONNECTED" /\ codeOf' = polls[i].of /\ closings' = TRUE
  /\ UNCHANGED <<onPage, wanted, body, visible, tangled, cut>>
\* Such a timer hides whatever modal is shown by then; another may be left.
Closes ==
  /\ closings /\ closings' \in BOOLEAN /\ visible' = FALSE
  /\ UNCHANGED <<onPage, wanted, body, chip, codeOf, polls, ticking, asking, pollTimer, tangled, cut, belated>>

GotCode(i) ==
  /\ i \in Updating /\ body # "other" /\ Follows(i, ticking) /\ Updated(i, 0)
  /\ chip' = "READY TO SCAN" /\ codeOf' = polls[i].of
  /\ UNCHANGED <<onPage, wanted, body, visible, closings, tangled, cut>>
\* No code, often enough or for a session that is gone: the modal says that it expired.
NoCode(i, exists) ==
  LET missing == polls[i].missing + 1
      expired == missing >= MaxMissing \/ ~exists
  IN /\ i \in Updating /\ body # "other"
     /\ Follows(i, IF expired THEN Stopped ELSE ticking)
     /\ Updated(i, IF missing > MaxMissing THEN MaxMissing ELSE missing)
     /\ chip' = IF expired THEN "EXPIRED" ELSE "WAITING"
     /\ codeOf' = IF expired THEN polls[i].of ELSE codeOf
     /\ UNCHANGED <<onPage, wanted, body, visible, closings, tangled, cut>>

\* fetch() rejects: a first update leaves no interval behind, the interval goes on.
NoReply(i) ==
  /\ \/ /\ polls[i].phase = "first" /\ polls' = [polls EXCEPT ![i].phase = "interval"]
        /\ cut' = TRUE /\ UNCHANGED asking
     \/ asking[i] > 0 /\ OneLess(i) /\ UNCHANGED <<polls, cut>>
  /\ UNCHANGED <<onPage, wanted, screen, ticking, pollTimer, closings, tangled, belated>>

QrNext ==
  \/ GoToSessions \/ LeaveSessions \/ OpenOther \/ HideModal \/ Closes
  \/ \E s \in PollSession : SignIn(s) \/ Refused(s) \/ PairingCode(s) \/ \E i \in Poll : ShowQr(s, i)
  \/ \E i \in Poll :
       \/ Tick(i) \/ UpdateRefused(i) \/ NoElement(i) \/ FoundConnected(i) \/ GotCode(i) \/ NoReply(i)
       \/ \E exists \in BOOLEAN : NoCode(i, exists)
QrSpec == QrInit /\ [][QrNext]_qrVars

-----------------------------------------------------------------------------
\* Of the codes two sessions may have on their way to the one modal, the modal shows
\* that of the session it was opened for, one interval runs and it is the one that
\* pollTimer can clear, unless pollQR() was called while an update of an earlier call
\* was under way: then an interval may go on that nothing clears.
CodesAreNotMixed ==
  ~tangled => codeOf \in {"none", body} \union (IF body = "other" THEN PollSession ELSE {})
              /\ ticking \subseteq {pollTimer}

\* A modal that says the code is to come or to be scanned is followed, by a first update
\* or by an interval, however many updates of it are under way; unless the page was left,
\* a first update failed, or calls overlapped, and unless an update that took longer than
\* others was answered after one of those cleared the interval: then the modal is left
\* undecided and nobody asks any more.
UndecidedIsPolled ==
  ~tangled /\ ~cut /\ ~belated /\ body # "other" /\ chip \in Undecided =>
    \E i \in Poll : polls[i].of = body /\ (i \in ticking \/ polls[i].phase = "first")

QrIsFollowed == CodesAreNotMixed /\ UndecidedIsPolled
=============================================================================
