------------------------------ MODULE PagesProofs ------------------------------
(***************************************************************************)
(* Proofs about the pages of the dashboard for any number of sessions,     *)
(* chats and rooms, of requests and chains under way, of streams, events   *)
(* and typed URLs, carried over to MCPages at the end.                     *)
(*                                                                         *)
(* Each page keeps something true of the answers that are on their way:    *)
(* that is its inductive invariant.  Sign-in: the one interval and all     *)
(* updates under way are of the session in the modal.  Feed: what a stream *)
(* still has to deliver is newer than what is drawn.  Typing: no request   *)
(* that says "typing" is ahead of one that takes it back.  Webhooks: a     *)
(* form that nobody typed in has the URL of the server.  Chat rooms: the   *)
(* rest of a chain ends in what the page is waiting for.                   *)
(***************************************************************************)
EXTENDS MCPages, SequenceTheorems, FiniteSetTheorems, TLAPS

-----------------------------------------------------------------------------
(* The sign-in of a session.                                               *)

\* Unless calls overlapped: one interval at most, which has all the updates under way and
\* is of the session that the modal shows, and the first update of a call is alone.
OnePoll ==
  /\ ticking \subseteq {pollTimer} /\ \A i \in Poll : asking[i] > 0 => i = pollTimer
  /\ \A i \in Poll : polls[i].phase = "first" =>
       ticking = {} /\ \A k \in Poll : asking[k] = 0 /\ (polls[k].phase = "first" => k = i)
  /\ body # "other" => codeOf \in {"none", body} /\ \A i \in ticking \union Updating : polls[i].of = body

QrInv == QrTypeOK /\ (~tangled => OnePoll) /\ UndecidedIsPolled

LEMMA QrFields ==
  ASSUME QrTypeOK
  PROVE  /\ onPage \in BOOLEAN /\ visible \in BOOLEAN /\ closings \in BOOLEAN
         /\ tangled \in BOOLEAN /\ cut \in BOOLEAN /\ belated \in BOOLEAN
         /\ \A i \in Poll : /\ polls[i].of \in PollSession \union {"none"}
                            /\ polls[i].phase \in {"none", "first", "interval"}
                            /\ polls[i].missing \in 0..MaxMissing /\ asking[i] \in 0..MaxAsking
         /\ Updating \subseteq Poll
<1>1. {onPage, visible, closings, tangled, cut, belated} \subseteq BOOLEAN BY DEF QrTypeOK
<1>2. /\ onPage \in BOOLEAN /\ visible \in BOOLEAN /\ closings \in BOOLEAN
      /\ tangled \in BOOLEAN /\ cut \in BOOLEAN /\ belated \in BOOLEAN
  BY <1>1, Zenon
<1>3. \A i \in Poll : /\ polls[i].of \in PollSession \union {"none"}
                      /\ polls[i].phase \in {"none", "first", "interval"}
                      /\ polls[i].missing \in 0..MaxMissing /\ asking[i] \in 0..MaxAsking
  BY DEF QrTypeOK
<1>4. Updating \subseteq Poll BY DEF QrTypeOK, Updating
<1> QED BY <1>2, <1>3, <1>4

\* A step that leaves the polls and their intervals, and shows no code.
LEMMA PollsStay ==
  ASSUME QrInv, UNCHANGED <<polls, ticking, asking, pollTimer, tangled, cut, belated>>,
         wanted' \subseteq PollSession, onPage' \in BOOLEAN, visible' \in BOOLEAN, closings' \in BOOLEAN,
         UNCHANGED <<chip, codeOf>>, body' \in {body, "other"}
  PROVE  QrInv'
<1>1. QrTypeOK /\ tangled \in BOOLEAN /\ cut \in BOOLEAN /\ belated \in BOOLEAN BY QrFields DEF QrInv
<1>2. {onPage', visible', closings', tangled', cut', belated'} \subseteq BOOLEAN BY <1>1, Zenon
<1>3. QrTypeOK' BY <1>1, <1>2 DEF QrTypeOK
<1>4. Updating' = Updating BY DEF Updating
<1>5. (~tangled => OnePoll)' BY <1>4 DEF QrInv, OnePoll
<1>6. UndecidedIsPolled' BY <1>4 DEF QrInv, UndecidedIsPolled
<1> QED BY <1>3, <1>5, <1>6 DEF QrInv

\* An update of call i ends: its interval goes on or is set, or what runs is cleared.
LEMMA UpdateKeeps ==
  ASSUME QrInv, NEW i \in Updating, NEW running \in {ticking, Stopped}, NEW missing \in 0..MaxMissing,
         Follows(i, running), Updated(i, missing),
         UNCHANGED <<onPage, wanted, body, visible, tangled, cut>>, closings' \in BOOLEAN,
         chip' \in Undecided \union {"CONNECTED", "EXPIRED"}, codeOf' \in {codeOf, polls[i].of},
         running = ticking \/ body = "other" \/ chip' \notin Undecided
  PROVE  QrInv'
<1>1. /\ QrTypeOK /\ onPage \in BOOLEAN /\ visible \in BOOLEAN /\ tangled \in BOOLEAN /\ cut \in BOOLEAN
      /\ belated \in BOOLEAN /\ i \in Poll /\ polls[i].of \in PollSession \union {"none"}
      /\ \A k \in Poll : asking[k] \in 0..MaxAsking
  BY QrFields DEF QrInv
<1>2. {onPage', visible', closings', tangled', cut'} \subseteq BOOLEAN BY <1>1, Zenon
<1>3. /\ polls' \in [Poll -> [of : PollSession \union {"none"}, phase : {"none", "first", "interval"},
                              missing : 0..MaxMissing]]
      /\ \A k \in Poll : polls'[k].of = polls[k].of /\ (k # i => polls'[k] = polls[k])
      /\ polls'[i].phase = "interval"
  BY <1>1 DEF Updated, QrTypeOK
<1>4. running \subseteq ticking /\ ticking \subseteq Poll BY <1>1 DEF Stopped, QrTypeOK
<1>7. MaxAsking \in Nat BY QrAssumption
<1>5. CASE /\ polls[i].phase = "first" /\ ticking' = running \union {i} /\ pollTimer' = i
           /\ UNCHANGED <<asking, belated>>
  <2>1. {onPage', visible', closings', tangled', cut', belated'} \subseteq BOOLEAN BY <1>1, <1>2, <1>5, Zenon
  <2>2. QrTypeOK' BY <1>1, <1>3, <1>4, <1>5, <2>1 DEF QrTypeOK
  <2>3. ASSUME ~tangled PROVE OnePoll' /\ (body # "other" => polls'[i].of = body')
    <3>1. OnePoll BY <2>3 DEF QrInv
    <3>2. ticking = {} /\ \A k \in Poll : asking[k] = 0 /\ (polls[k].phase = "first" => k = i)
      BY <1>1, <1>5, <3>1 DEF OnePoll
    <3>3. ticking' = {i} /\ \A k \in Poll : asking'[k] = 0 BY <1>4, <1>5, <3>2
    <3>4. \A k \in Poll : polls'[k].phase # "first" BY <1>3, <3>2
    <3>5. Updating' = {} BY <3>3, <3>4 DEF Updating
    <3>6. body # "other" => codeOf \in {"none", body} /\ polls[i].of = body BY <3>1 DEF OnePoll
    <3> QED BY <1>1, <1>3, <1>5, <3>3, <3>4, <3>5, <3>6 DEF OnePoll
  <2>4. UndecidedIsPolled' BY <1>1, <1>5, <2>3 DEF UndecidedIsPolled
  <2> QED BY <2>2, <2>3, <2>4 DEF QrInv
<1>6. CASE /\ asking[i] > 0 /\ OneLess(i) /\ ticking' = running /\ UNCHANGED pollTimer
           /\ belated' = (belated \/ i \notin ticking)
  <2>1. belated' \in BOOLEAN BY <1>1, <1>6, Zenon
  <2>2. {onPage', visible', closings', tangled', cut', belated'} \subseteq BOOLEAN BY <1>2, <2>1, Zenon
  <2>3. /\ asking' \in [Poll -> 0..MaxAsking] /\ asking'[i] = asking[i] - 1
        /\ \A k \in Poll : (k # i => asking'[k] = asking[k]) /\ (asking'[k] > 0 => asking[k] > 0)
    <3>1. asking' = [asking EXCEPT ![i] = @ - 1] /\ asking \in [Poll -> 0..MaxAsking]
      BY <1>1, <1>6 DEF OneLess, QrTypeOK
    <3>2. asking[i] - 1 \in 0..MaxAsking BY <1>1, <1>6, <1>7
    <3>3. asking' \in [Poll -> 0..MaxAsking] /\ \A k \in Poll : asking'[k] = IF k = i THEN asking[i] - 1 ELSE asking[k]
      BY <3>1, <3>2
    <3> QED BY <1>1, <1>6, <3>3
  <2>4. QrTypeOK' BY <1>1, <1>3, <1>4, <1>6, <2>2, <2>3 DEF QrTypeOK
  <2>5. ASSUME ~tangled PROVE OnePoll'
    <3>1. OnePoll BY <2>5 DEF QrInv
    <3>2. \A k \in Poll : polls[k].phase # "first" BY <1>1, <1>6, <3>1 DEF OnePoll
    <3>3. \A k \in Poll : polls'[k].phase # "first" BY <1>3, <3>2
    <3>4. \A k \in Poll : asking'[k] > 0 => k = pollTimer' BY <1>6, <2>3, <3>1 DEF OnePoll
    <3>5. \A k \in Updating' : k \in Updating BY <2>3, <3>3 DEF Updating
    <3>6. \A k \in ticking' \union Updating' : k \in ticking \union Updating /\ k \in Poll
      BY <1>4, <1>6, <3>5 DEF Updating
    <3>7. body # "other" => /\ codeOf \in {"none", body} /\ polls[i].of = body
                            /\ \A k \in ticking \union Updating : polls[k].of = body
      BY <3>1 DEF OnePoll
    <3>8. body' # "other" => /\ codeOf' \in {"none", body'}
                             /\ \A k \in ticking' \union Updating' : polls'[k].of = body'
      BY <1>3, <3>6, <3>7
    <3>9. ticking' \subseteq {pollTimer'} BY <1>4, <1>6, <3>1 DEF OnePoll
    <3> QED BY <3>3, <3>4, <3>8, <3>9 DEF OnePoll
  <2>6. UndecidedIsPolled'
    <3> SUFFICES ASSUME ~tangled, i \in ticking, body # "other", chip' \in Undecided
                 PROVE  \E k \in Poll : polls'[k].of = body' /\ (k \in ticking' \/ polls'[k].phase = "first")
      BY <1>6 DEF UndecidedIsPolled
    <3>1. OnePoll /\ running = ticking BY DEF QrInv
    <3>2. i \in ticking' /\ polls[i].of = body BY <1>6, <3>1 DEF OnePoll
    <3> QED BY <1>1, <1>3, <3>2
  <2> QED BY <2>4, <2>5, <2>6 DEF QrInv
<1> QED BY <1>5, <1>6 DEF Follows

LEMMA ShowQrKeeps ==
  ASSUME QrInv, NEW s \in PollSession, NEW i \in Poll, ShowQr(s, i)
  PROVE  QrInv'
<1>1. /\ QrTypeOK /\ onPage \in BOOLEAN /\ closings \in BOOLEAN /\ tangled \in BOOLEAN /\ cut \in BOOLEAN
      /\ belated \in BOOLEAN /\ \A k \in Poll : asking[k] \in 0..MaxAsking
      /\ MaxMissing \in Nat
  BY QrFields, QrAssumption DEF QrInv
<1>2. /\ body' = s /\ chip' = "WAITING" /\ codeOf' = "none" /\ visible' = TRUE /\ wanted' = wanted \ {s}
      /\ ticking' = ticking \ {pollTimer}
      /\ polls' = [polls EXCEPT ![i] = [of |-> s, phase |-> "first", missing |-> 0]]
      /\ tangled' = (tangled \/ Updating # {}) /\ UNCHANGED <<onPage, asking, pollTimer, closings, cut, belated>>
      /\ i \notin ticking \union Updating /\ i # pollTimer
  BY DEF ShowQr, ClearTimer, Free
<1>3. {onPage', visible', closings', tangled', cut', belated'} \subseteq BOOLEAN
  <2>1. tangled' \in BOOLEAN BY <1>1, <1>2, Zenon
  <2>2. visible' \in BOOLEAN BY <1>2, Zenon
  <2> QED BY <1>1, <1>2, <2>1, <2>2, Zenon
<1>4. polls' \in [Poll -> [of : PollSession \union {"none"}, phase : {"none", "first", "interval"},
                           missing : 0..MaxMissing]]
  BY <1>1, <1>2 DEF QrTypeOK
<1>5. QrTypeOK' BY <1>1, <1>2, <1>3, <1>4 DEF QrTypeOK, Undecided
<1>6. /\ polls'[i].phase = "first" /\ polls'[i].of = s
      /\ \A k \in Poll : k # i => polls'[k] = polls[k]
  BY <1>1, <1>2 DEF QrTypeOK
<1>7. ASSUME ~tangled' PROVE OnePoll'
  <2>1. OnePoll /\ Updating = {} BY <1>2, <1>7 DEF QrInv
  <2>2. \A k \in Poll : asking[k] = 0 /\ polls[k].phase # "first"
    <3>1. \A k \in Poll : ~(asking[k] > 0) /\ polls[k].phase # "first" BY <2>1 DEF Updating
    <3> QED BY <1>1, <3>1, QrAssumption
  <2>3. ticking' = {} BY <1>2, <2>1 DEF OnePoll
  <2>4. \A k \in Poll : polls'[k].phase = "first" => k = i BY <1>6, <2>2
  <2>5. \A k \in Poll : asking'[k] = 0 BY <1>2, <2>2
  <2>6. Updating' = {i} BY <1>6, <2>4, <2>5 DEF Updating
  <2> QED BY <1>2, <1>6, <2>3, <2>4, <2>5, <2>6 DEF OnePoll
<1>8. UndecidedIsPolled' BY <1>2, <1>6 DEF UndecidedIsPolled
<1> QED BY <1>5, <1>7, <1>8 DEF QrInv

LEMMA QrStart == ASSUME QrInit PROVE QrInv
<1>1. onPage = TRUE /\ visible = FALSE /\ closings = FALSE /\ tangled = FALSE /\ cut = FALSE
      /\ belated = FALSE
  BY DEF QrInit
<1>2. {onPage, visible, closings, tangled, cut, belated} \subseteq BOOLEAN BY <1>1, Zenon
<1>3. /\ \A i \in Poll : polls[i] = Unused
      /\ polls \in [Poll -> [of : PollSession \union {"none"}, phase : {"none", "first", "interval"},
                             missing : 0..MaxMissing]]
  BY QrAssumption DEF QrInit, Unused
<1>7. asking \in [Poll -> 0..MaxAsking] /\ \A i \in Poll : asking[i] = 0 BY QrAssumption DEF QrInit
<1>4. QrTypeOK BY <1>2, <1>3, <1>7 DEF QrInit, QrTypeOK, Undecided
<1>5. OnePoll BY <1>3, <1>7 DEF QrInit, OnePoll, Unused
<1>6. UndecidedIsPolled BY DEF QrInit, UndecidedIsPolled
<1> QED BY <1>4, <1>5, <1>6 DEF QrInv

LEMMA QrStep == ASSUME QrInv, [QrNext]_qrVars PROVE QrInv'
<1> USE DEF screen
<1>1. /\ QrTypeOK /\ onPage \in BOOLEAN /\ visible \in BOOLEAN /\ closings \in BOOLEAN
      /\ tangled \in BOOLEAN /\ cut \in BOOLEAN /\ belated \in BOOLEAN /\ wanted \subseteq PollSession
      /\ \A i \in Poll : polls[i].missing \in 0..MaxMissing /\ asking[i] \in 0..MaxAsking
  BY QrFields DEF QrInv, QrTypeOK
<1>2. TRUE \in BOOLEAN /\ FALSE \in BOOLEAN BY Zenon
<1>3. CASE UNCHANGED qrVars BY <1>1, <1>3, PollsStay DEF qrVars
<1>4. CASE GoToSessions BY <1>1, <1>2, <1>4, PollsStay DEF GoToSessions
<1>5. CASE LeaveSessions
  <2>1. /\ onPage' = FALSE /\ ticking' = ticking \ {pollTimer} /\ cut' = TRUE
        /\ UNCHANGED <<wanted, body, chip, codeOf, visible, polls, asking, pollTimer, closings, tangled, belated>>
    BY <1>5 DEF LeaveSessions
  <2>2. onPage' \in BOOLEAN /\ cut' \in BOOLEAN BY <2>1, Zenon
  <2>3. {onPage', visible', closings', tangled', cut', belated'} \subseteq BOOLEAN BY <1>1, <2>1, <2>2, Zenon
  <2>4. QrTypeOK' BY <1>1, <2>1, <2>3 DEF QrTypeOK
  <2>5. Updating' = Updating BY <2>1 DEF Updating
  <2>6. (~tangled => OnePoll)' BY <2>1, <2>5 DEF QrInv, OnePoll
  <2>7. UndecidedIsPolled' BY <2>1 DEF UndecidedIsPolled
  <2> QED BY <2>4, <2>6, <2>7 DEF QrInv
<1>6. CASE OpenOther BY <1>1, <1>2, <1>6, PollsStay DEF OpenOther, ShowOther
<1>7. CASE HideModal BY <1>1, <1>2, <1>7, PollsStay DEF HideModal
<1>8. CASE Closes BY <1>1, <1>2, <1>8, PollsStay DEF Closes
<1>9. ASSUME NEW s \in PollSession, SignIn(s) \/ Refused(s) PROVE QrInv'
  <2>1. wanted' \subseteq PollSession BY <1>1, <1>9 DEF SignIn, Refused
  <2> QED BY <1>1, <1>9, <2>1, PollsStay DEF SignIn, Refused
<1>10. ASSUME NEW s \in PollSession, PairingCode(s) PROVE QrInv'
  <2>1. wanted' \subseteq PollSession BY <1>1, <1>10 DEF PairingCode
  <2> QED BY <1>1, <1>2, <1>10, <2>1, PollsStay DEF PairingCode, ShowOther
<1>11. ASSUME NEW s \in PollSession, NEW i \in Poll, ShowQr(s, i) PROVE QrInv' BY <1>11, ShowQrKeeps
<1>12. ASSUME NEW i \in Poll, Tick(i) PROVE QrInv'
  <2>1. /\ i \in ticking /\ asking[i] < MaxAsking /\ asking' = [asking EXCEPT ![i] = @ + 1]
        /\ UNCHANGED <<onPage, wanted, body, chip, codeOf, visible, polls, ticking, pollTimer, closings, tangled,
                       cut, belated>>
    BY <1>12 DEF Tick
  <2>2. {onPage', visible', closings', tangled', cut', belated'} \subseteq BOOLEAN BY <1>1, <2>1, Zenon
  <2>3. asking' \in [Poll -> 0..MaxAsking] /\ \A k \in Poll : k # i => asking'[k] = asking[k]
    <3>1. asking \in [Poll -> 0..MaxAsking] /\ asking[i] + 1 \in 0..MaxAsking BY <1>1, <2>1, QrAssumption DEF QrTypeOK
    <3> QED BY <2>1, <3>1
  <2>4. QrTypeOK' BY <1>1, <2>1, <2>2, <2>3 DEF QrTypeOK
  <2>5. \A k \in Updating' : k \in Updating \union {i} BY <2>1, <2>3 DEF Updating
  <2>6. ASSUME ~tangled PROVE OnePoll'
    <3>1. OnePoll /\ i = pollTimer BY <2>1, <2>6 DEF QrInv, OnePoll
    <3>2. \A k \in Poll : polls[k].phase # "first" BY <2>1, <3>1 DEF OnePoll
    <3>3. \A k \in Poll : asking'[k] > 0 => k = pollTimer BY <2>3, <3>1 DEF OnePoll
    <3>4. body # "other" => /\ codeOf \in {"none", body}
                            /\ \A k \in ticking \union Updating' : polls[k].of = body
      BY <2>1, <2>5, <3>1 DEF OnePoll
    <3> QED BY <2>1, <3>1, <3>2, <3>3, <3>4 DEF OnePoll
  <2>7. UndecidedIsPolled' BY <2>1 DEF QrInv, UndecidedIsPolled
  <2> QED BY <2>1, <2>4, <2>6, <2>7 DEF QrInv
<1>13. ASSUME NEW i \in Poll, UpdateRefused(i) PROVE QrInv'
  <2>1. chip \in Undecided \union {"CONNECTED", "EXPIRED"} BY <1>1 DEF QrTypeOK
  <2> QED BY <1>1, <1>13, <2>1, UpdateKeeps DEF UpdateRefused
<1>14. ASSUME NEW i \in Poll, NoElement(i) PROVE QrInv'
  <2>1. chip \in Undecided \union {"CONNECTED", "EXPIRED"} BY <1>1 DEF QrTypeOK
  <2> QED BY <1>1, <1>14, <2>1, UpdateKeeps DEF NoElement
<1>15. ASSUME NEW i \in Poll, FoundConnected(i) PROVE QrInv'
  BY <1>1, <1>2, <1>15, UpdateKeeps DEF FoundConnected, Undecided
<1>16. ASSUME NEW i \in Poll, GotCode(i) PROVE QrInv'
  <2>1. 0 \in 0..MaxMissing BY QrAssumption
  <2> QED BY <1>1, <1>16, <2>1, UpdateKeeps DEF GotCode, Undecided
<1>17. ASSUME NEW i \in Poll, NEW exists \in BOOLEAN, NoCode(i, exists) PROVE QrInv'
  <2> DEFINE n == polls[i].missing + 1
             missing == IF n > MaxMissing THEN MaxMissing ELSE n
             expired == n >= MaxMissing \/ ~exists
             running == IF expired THEN Stopped ELSE ticking
  <2>1. missing \in 0..MaxMissing BY <1>1, QrAssumption
  <2>2. /\ i \in Updating /\ Follows(i, running) /\ Updated(i, missing)
        /\ chip' = (IF expired THEN "EXPIRED" ELSE "WAITING")
        /\ codeOf' = (IF expired THEN polls[i].of ELSE codeOf)
        /\ UNCHANGED <<onPage, wanted, body, visible, closings, tangled, cut>>
    BY <1>17 DEF NoCode
  <2> HIDE DEF missing, expired
  <2>3. CASE expired
    <3>1. /\ Follows(i, Stopped) /\ chip' = "EXPIRED" /\ codeOf' = polls[i].of BY <2>2, <2>3
    <3> QED BY <1>1, <2>1, <2>2, <3>1, UpdateKeeps DEF Undecided
  <2>4. CASE ~expired
    <3>1. /\ Follows(i, ticking) /\ chip' = "WAITING" /\ codeOf' = codeOf BY <2>2, <2>4
    <3> QED BY <1>1, <2>1, <2>2, <3>1, UpdateKeeps DEF Undecided
  <2> QED BY <2>3, <2>4
<1>18. ASSUME NEW i \in Poll, NoReply(i) PROVE QrInv'
  <2>1. UNCHANGED <<onPage, wanted, body, chip, codeOf, visible, ticking, pollTimer, closings, tangled, belated>>
    BY <1>18 DEF NoReply
  <2>2. CASE /\ polls[i].phase = "first" /\ polls' = [polls EXCEPT ![i].phase = "interval"]
             /\ cut' = TRUE /\ UNCHANGED asking
    <3>1. /\ polls' \in [Poll -> [of : PollSession \union {"none"}, phase : {"none", "first", "interval"},
                                  missing : 0..MaxMissing]]
          /\ \A k \in Poll : polls'[k].of = polls[k].of /\ (k # i => polls'[k] = polls[k])
          /\ polls'[i].phase = "interval"
      BY <1>1, <2>2 DEF QrTypeOK
    <3>2. cut' \in BOOLEAN BY <2>2, Zenon
    <3>3. {onPage', visible', closings', tangled', cut', belated'} \subseteq BOOLEAN BY <1>1, <2>1, <3>2, Zenon
    <3>4. QrTypeOK' BY <1>1, <2>1, <2>2, <3>1, <3>3 DEF QrTypeOK
    <3>5. \A k \in Poll : polls'[k].phase = "first" => k # i /\ polls[k].phase = "first" BY <3>1
    <3>6. \A k \in Updating' : k \in Updating BY <2>2, <3>5 DEF Updating
    <3>7. ASSUME ~tangled PROVE OnePoll'
      <4>1. OnePoll BY <3>7 DEF QrInv
      <4>2. \A k \in ticking' \union Updating' : k \in ticking \union Updating /\ k \in Poll
        BY <1>1, <2>1, <3>6 DEF QrTypeOK, Updating
      <4>3. body' # "other" => /\ codeOf' \in {"none", body'}
                               /\ \A k \in ticking' \union Updating' : polls'[k].of = body'
        BY <2>1, <3>1, <4>1, <4>2 DEF OnePoll
      <4>4. \A k \in Poll : polls'[k].phase = "first" =>
              ticking' = {} /\ \A m \in Poll : asking'[m] = 0 /\ (polls'[m].phase = "first" => m = k)
        BY <2>1, <2>2, <3>5, <4>1 DEF OnePoll
      <4> QED BY <2>1, <2>2, <4>1, <4>3, <4>4 DEF OnePoll
    <3>8. UndecidedIsPolled' BY <2>2 DEF UndecidedIsPolled
    <3> QED BY <2>1, <3>4, <3>7, <3>8 DEF QrInv
  <2>3. CASE asking[i] > 0 /\ OneLess(i) /\ UNCHANGED <<polls, cut>>
    <3>1. /\ asking' \in [Poll -> 0..MaxAsking]
          /\ \A k \in Poll : asking'[k] \in 0..MaxAsking /\ (asking'[k] > 0 => asking[k] > 0)
      <4>1. asking' = [asking EXCEPT ![i] = @ - 1] /\ asking \in [Poll -> 0..MaxAsking]
        BY <1>1, <2>3 DEF OneLess, QrTypeOK
      <4>2. asking[i] - 1 \in 0..MaxAsking BY <1>1, <2>3, QrAssumption
      <4>3. asking' \in [Poll -> 0..MaxAsking] /\ \A k \in Poll : asking'[k] = IF k = i THEN asking[i] - 1 ELSE asking[k]
        BY <4>1, <4>2
      <4> QED BY <1>1, <2>3, <4>3
    <3>2. {onPage', visible', closings', tangled', cut', belated'} \subseteq BOOLEAN BY <1>1, <2>1, <2>3, Zenon
    <3>3. QrTypeOK' BY <1>1, <2>1, <2>3, <3>1, <3>2 DEF QrTypeOK
    <3>4. \A k \in Updating' : k \in Updating BY <2>3, <3>1 DEF Updating
    <3>5. ASSUME ~tangled PROVE OnePoll'
      <4>1. OnePoll BY <3>5 DEF QrInv
      <4>2. \A k \in Poll : polls[k].phase # "first" BY <2>3, <4>1, <1>1, QrAssumption DEF OnePoll
      <4> QED BY <2>1, <2>3, <3>1, <3>4, <4>1, <4>2 DEF OnePoll
    <3>6. UndecidedIsPolled' BY <2>1, <2>3 DEF QrInv, UndecidedIsPolled
    <3> QED BY <2>1, <3>3, <3>5, <3>6 DEF QrInv
  <2> QED BY <1>18, <2>2, <2>3 DEF NoReply
<1> QED BY <1>3, <1>4, <1>5, <1>6, <1>7, <1>8, <1>9, <1>10, <1>11, <1>12, <1>13, <1>14, <1>15, <1>16, <1>17, <1>18
        DEF QrNext

\* For any number of sessions, of calls of pollQR() and of updates of an interval under way:
\* the modal shows the code of the session it was opened for, and one interval runs, unless
\* pollQR() was called during an update; and it is followed until it is decided, unless the
\* page was left, a first update failed, or an update was answered after its interval was
\* cleared.
THEOREM SignInIsFollowed == QrSpec => [](QrTypeOK /\ QrIsFollowed)
<1>1. QrInit => QrInv BY QrStart
<1>2. QrInv /\ [QrNext]_qrVars => QrInv' BY QrStep
<1>3. QrInv => QrTypeOK /\ QrIsFollowed
  <2> SUFFICES ASSUME QrInv PROVE QrTypeOK /\ CodesAreNotMixed /\ UndecidedIsPolled BY DEF QrIsFollowed
  <2>1. CodesAreNotMixed BY DEF QrInv, OnePoll, QrTypeOK, CodesAreNotMixed
  <2> QED BY <2>1 DEF QrInv
<1> QED BY <1>1, <1>2, <1>3, PTL DEF QrSpec

-----------------------------------------------------------------------------
(* The feed of events.                                                     *)

Rising(s) == \A i, j \in DOMAIN s : i < j => s[i] < s[j]
Falling(s) == \A i, j \in DOMAIN s : i < j => s[i] > s[j]
UpTo(s, n) == \A i \in DOMAIN s : s[i] <= n
Newer(q, s) == \A i \in DOMAIN q, k \in DOMAIN s : s[k] < q[i]

FeedTypes ==
  /\ emitted \in 0..LastEvent /\ recentEvents \in Seq(Event) /\ Len(recentEvents) <= MaxKept
  /\ streams \in [Stream -> [phase : {"closed", "connecting", "listening"}, queue : Seq(Event)]]
  /\ eventSource \in Stream \union {NoStream}
  /\ paused \in BOOLEAN /\ clearing \in BOOLEAN /\ late \in BOOLEAN
  /\ visits \in [Visit -> [phase : {"none", "asked", "sent"}, got : Seq(Event)]]
  /\ \A v \in Visit : Len(visits[v].got) <= MaxKept
  /\ feed = NoFeed \/ (feed \in Seq(Event) /\ Len(feed) <= MaxShown)

\* Everything lists events in their order, up to the last one; a stream is the page's, and
\* what it still has to deliver is newer than what is drawn.
FeedOrder ==
  /\ Rising(recentEvents) /\ UpTo(recentEvents, emitted)
  /\ \A v \in Visit : Rising(visits[v].got) /\ UpTo(visits[v].got, emitted)
  /\ \A t \in Stream : /\ Rising(streams[t].queue) /\ UpTo(streams[t].queue, emitted)
                       /\ Newer(streams[t].queue, feed)
  /\ Falling(feed) /\ UpTo(feed, emitted)
OneStream ==
  /\ \A t \in Stream : streams[t] # Shut => t = eventSource /\ (feed # NoFeed \/ late)
  /\ feed = NoFeed => \A v \in Visit : visits[v] = Quiet \/ late
  /\ \A t \in Stream : streams[t].phase = "closed" => streams[t] = Shut

FeedInv == FeedTypes /\ FeedOrder /\ OneStream

LEMMA EventsAre == Event \subseteq Nat \ {0} /\ {LastEvent, MaxKept, MaxShown} \subseteq Nat /\ MaxShown >= MaxKept
<1>1. LastEvent \in Nat BY FeedAssumption
<1> QED BY <1>1, FeedAssumption DEF Event

\* The operators on sequences of events.
LEMMA AppendRises ==
  ASSUME NEW s \in Seq(Event), Rising(s), NEW n \in Nat, UpTo(s, n), n + 1 \in Event
  PROVE  LET w == Append(s, n + 1) IN
         /\ w \in Seq(Event) /\ Len(w) = Len(s) + 1 /\ Rising(w) /\ UpTo(w, n + 1)
         /\ \A i \in DOMAIN w : (i \in DOMAIN s /\ w[i] = s[i]) \/ w[i] = n + 1
<1> DEFINE w == Append(s, n + 1)
<1>1. Len(s) \in Nat /\ DOMAIN s = 1..Len(s) /\ \A i \in DOMAIN s : s[i] \in Nat /\ s[i] <= n
  <2>1. Len(s) \in Nat /\ DOMAIN s = 1..Len(s) /\ \A i \in DOMAIN s : s[i] \in Event OBVIOUS
  <2>2. \A i \in DOMAIN s : s[i] \in Nat BY <2>1, EventsAre
  <2>3. \A i \in DOMAIN s : s[i] <= n BY DEF UpTo
  <2> QED BY <2>1, <2>2, <2>3
<1>2. /\ w \in Seq(Event) /\ Len(w) = Len(s) + 1 /\ \A i \in 1..Len(s) : w[i] = s[i]
      /\ w[Len(s) + 1] = n + 1
  BY AppendProperties
<1> HIDE DEF w
<1>3. DOMAIN w = 1..(Len(s) + 1) BY <1>2
<1>4. \A i \in DOMAIN w : \/ i \in DOMAIN s /\ w[i] = s[i]
                          \/ i = Len(s) + 1 /\ w[i] = n + 1
  BY <1>1, <1>2, <1>3
<1>5. Rising(w)
  <2> SUFFICES ASSUME NEW i \in DOMAIN w, NEW j \in DOMAIN w, i < j PROVE w[i] < w[j] BY DEF Rising
  <2>1. i \in DOMAIN s /\ w[i] = s[i] BY <1>1, <1>3, <1>4
  <2>2. CASE j \in DOMAIN s /\ w[j] = s[j] BY <2>1, <2>2 DEF Rising
  <2>3. CASE w[j] = n + 1 BY <1>1, <2>1, <2>3
  <2> QED BY <1>4, <2>2, <2>3
<1>6. UpTo(w, n + 1)
  <2> SUFFICES ASSUME NEW i \in DOMAIN w PROVE w[i] <= n + 1 BY DEF UpTo
  <2> QED BY <1>1, <1>4
<1> QED BY <1>2, <1>4, <1>5, <1>6 DEF w

LEMMA NewestIs ==
  ASSUME NEW s \in Seq(Event), Rising(s), NEW n \in Nat, UpTo(s, n), NEW m \in Nat
  PROVE  LET w == Newest(s, m) IN w \in Seq(Event) /\ Len(w) <= m /\ Rising(w) /\ UpTo(w, n)
<1> DEFINE k == IF Len(s) < m THEN Len(s) ELSE m
           w == SubSeq(s, Len(s) - k + 1, Len(s))
<1>1. Len(s) \in Nat /\ k \in 0..Len(s) /\ k <= m OBVIOUS
<1>2. Newest(s, m) = w BY DEF Newest
<1> HIDE DEF k
<1>3. /\ w \in Seq(Event) /\ Len(w) = k /\ \A i \in 1..k : w[i] = s[Len(s) - k + i]
  <2>1. Len(s) - k + 1 \in 1..(Len(s) + 1) BY <1>1
  <2>2. \A i \in (Len(s) - k + 1)..Len(s) : s[i] \in Event BY <1>1
  <2>3. /\ w \in Seq(Event)
        /\ Len(w) = IF Len(s) - k + 1 <= Len(s) THEN Len(s) - (Len(s) - k + 1) + 1 ELSE 0
        /\ \A i \in 1..(Len(s) - (Len(s) - k + 1) + 1) : w[i] = s[(Len(s) - k + 1) + i - 1]
    BY <1>1, <2>1, <2>2, SubSeqProperties
  <2> HIDE DEF w
  <2>4. Len(s) - (Len(s) - k + 1) + 1 = k /\ (~(Len(s) - k + 1 <= Len(s)) => k = 0) BY <1>1
  <2>5. \A i \in 1..k : (Len(s) - k + 1) + i - 1 = Len(s) - k + i BY <1>1
  <2> QED BY <2>3, <2>4, <2>5
<1> HIDE DEF w
<1>4. DOMAIN w = 1..k BY <1>1, <1>3
<1>5. \A i \in DOMAIN w : Len(s) - k + i \in DOMAIN s BY <1>1, <1>4
<1>6. Rising(w)
  <2> SUFFICES ASSUME NEW i \in DOMAIN w, NEW j \in DOMAIN w, i < j PROVE w[i] < w[j] BY DEF Rising
  <2>1. Len(s) - k + i < Len(s) - k + j BY <1>1, <1>4
  <2> QED BY <1>3, <1>4, <1>5, <2>1 DEF Rising
<1>7. UpTo(w, n) BY <1>3, <1>4, <1>5 DEF UpTo
<1> QED BY <1>1, <1>2, <1>3, <1>6, <1>7

LEMMA TailRises ==
  ASSUME NEW s \in Seq(Event), s # <<>>, Rising(s), NEW n \in Nat, UpTo(s, n)
  PROVE  /\ Head(s) \in Event /\ Head(s) <= n /\ 1 \in DOMAIN s /\ Head(s) = s[1]
         /\ Tail(s) \in Seq(Event) /\ Rising(Tail(s)) /\ UpTo(Tail(s), n)
         /\ \A i \in DOMAIN Tail(s) : /\ i + 1 \in DOMAIN s /\ Tail(s)[i] = s[i + 1]
                                      /\ Head(s) < Tail(s)[i]
<1> DEFINE w == Tail(s)
<1>1. Len(s) \in Nat \ {0} /\ DOMAIN s = 1..Len(s) BY EmptySeq
<1>2. Head(s) = s[1] /\ w \in Seq(Event) /\ Len(w) = Len(s) - 1 /\ \A i \in 1..Len(w) : w[i] = s[i + 1]
  BY HeadTailProperties
<1> HIDE DEF w
<1>3. DOMAIN w = 1..(Len(s) - 1) BY <1>1, <1>2
<1>4. 1 \in DOMAIN s /\ \A i \in DOMAIN w : i + 1 \in DOMAIN s /\ 1 < i + 1 /\ w[i] = s[i + 1]
  BY <1>1, <1>2, <1>3
<1>5. Head(s) \in Event /\ Head(s) <= n BY <1>2, <1>4 DEF UpTo
<1>6. Rising(w)
  <2> SUFFICES ASSUME NEW i \in DOMAIN w, NEW j \in DOMAIN w, i < j PROVE w[i] < w[j] BY DEF Rising
  <2>1. i + 1 < j + 1 BY <1>1, <1>3
  <2> QED BY <1>4, <2>1 DEF Rising
<1>7. UpTo(w, n) BY <1>4 DEF UpTo
<1>8. \A i \in DOMAIN w : Head(s) < w[i] BY <1>2, <1>4 DEF Rising
<1> QED BY <1>2, <1>4, <1>5, <1>6, <1>7, <1>8 DEF w

LEMMA ReverseFalls ==
  ASSUME NEW s \in Seq(Event), Rising(s), NEW n \in Nat, UpTo(s, n)
  PROVE  LET w == Reverse(s) IN w \in Seq(Event) /\ Len(w) = Len(s) /\ Falling(w) /\ UpTo(w, n)
<1> DEFINE w == Reverse(s)
<1>1. Len(s) \in Nat /\ DOMAIN s = 1..Len(s) OBVIOUS
<1>2. w = [i \in 1..Len(s) |-> s[(Len(s) - i) + 1]] BY DEF Reverse
<1>3. \A i \in 1..Len(s) : (Len(s) - i) + 1 \in DOMAIN s BY <1>1
<1>4. \A i \in 1..Len(s) : s[(Len(s) - i) + 1] \in Event BY <1>1, <1>3
<1> HIDE DEF w
<1>5. w \in Seq(Event) /\ Len(w) = Len(s) /\ DOMAIN w = 1..Len(s) BY <1>1, <1>2, <1>4
<1>6. Falling(w)
  <2> SUFFICES ASSUME NEW i \in DOMAIN w, NEW j \in DOMAIN w, i < j PROVE w[i] > w[j] BY DEF Falling
  <2> DEFINE a == (Len(s) - i) + 1
             b == (Len(s) - j) + 1
  <2>1. a \in DOMAIN s /\ b \in DOMAIN s /\ b < a BY <1>1, <1>5
  <2>2. w[i] = s[a] /\ w[j] = s[b] BY <1>2, <1>5
  <2>3. s[b] < s[a] /\ s[a] \in Nat /\ s[b] \in Nat
    <3>1. \A k \in DOMAIN s : s[k] \in Event OBVIOUS
    <3> HIDE DEF a, b
    <3>2. s[b] < s[a] BY <2>1 DEF Rising
    <3>3. s[a] \in Nat /\ s[b] \in Nat BY <2>1, <3>1, EventsAre
    <3> QED BY <3>2, <3>3
  <2> QED BY <2>2, <2>3
<1>7. UpTo(w, n)
  <2> SUFFICES ASSUME NEW i \in DOMAIN w PROVE w[i] <= n BY DEF UpTo
  <2> QED BY <1>2, <1>3, <1>5 DEF UpTo
<1> QED BY <1>5, <1>6, <1>7 DEF w

LEMMA NoFeedIs ==
  /\ NoFeed # <<>> /\ Falling(NoFeed)
  /\ \A n \in Nat : UpTo(NoFeed, n)
  /\ \A q \in Seq(Event) : Newer(q, NoFeed) /\ Newer(q, <<>>)
  /\ Falling(<<>>) /\ \A n : UpTo(<<>>, n)
  /\ Rising(<<>>) /\ \A s : Newer(<<>>, s)
<1>1. DOMAIN NoFeed = {1} /\ NoFeed[1] = 0 /\ DOMAIN <<>> = {} BY DEF NoFeed
<1>2. NoFeed # <<>> BY <1>1
<1>3. \A q \in Seq(Event) : Newer(q, NoFeed)
  <2> SUFFICES ASSUME NEW q \in Seq(Event), NEW i \in DOMAIN q PROVE 0 < q[i] BY <1>1 DEF Newer
  <2>1. q[i] \in Event OBVIOUS
  <2>2. q[i] \in Nat \ {0} BY <2>1, EventsAre
  <2> QED BY <2>2
<1>4. \A n \in Nat : UpTo(NoFeed, n) BY <1>1 DEF UpTo
<1>5. Falling(NoFeed) BY <1>1 DEF Falling
<1> HIDE DEF NoFeed
<1> QED BY <1>1, <1>2, <1>3, <1>4, <1>5 DEF Falling, UpTo, Rising, Newer

LEMMA FeedFacts ==
  ASSUME FeedInv
  PROVE  /\ emitted \in Nat /\ emitted <= LastEvent /\ LastEvent \in Nat
         /\ \A k \in DOMAIN feed : feed[k] \in Nat /\ feed[k] <= emitted
         /\ \A t \in Stream : /\ streams[t] \in [phase : {"closed", "connecting", "listening"}, queue : Seq(Event)]
                              /\ streams[t].queue \in Seq(Event)
                              /\ streams[t].phase \in {"closed", "connecting", "listening"}
         /\ \A v \in Visit : visits[v].got \in Seq(Event) /\ visits[v].phase \in {"none", "asked", "sent"}
<1>1. LastEvent \in Nat BY EventsAre
<1>2. emitted \in Nat /\ emitted <= LastEvent BY <1>1 DEF FeedInv, FeedTypes
<1>3. ASSUME NEW k \in DOMAIN feed PROVE feed[k] \in Nat
  <2>1. CASE feed = NoFeed BY <2>1 DEF NoFeed
  <2>2. CASE feed \in Seq(Event)
    <3>1. feed[k] \in Event BY <2>2
    <3> QED BY <3>1, EventsAre
  <2> QED BY <2>1, <2>2 DEF FeedInv, FeedTypes
<1>4. \A k \in DOMAIN feed : feed[k] <= emitted BY DEF FeedInv, FeedOrder, UpTo
<1> QED BY <1>1, <1>2, <1>3, <1>4 DEF FeedInv, FeedTypes

LEMMA EmitKeeps == ASSUME FeedInv, Emit PROVE FeedInv'
<1> DEFINE n == emitted + 1
<1>1. /\ emitted \in Nat /\ emitted <= LastEvent /\ LastEvent \in Nat /\ MaxKept \in Nat
      /\ \A k \in DOMAIN feed : feed[k] \in Nat /\ feed[k] <= emitted
  BY FeedFacts, EventsAre
<1>2. /\ emitted < LastEvent /\ emitted' = n /\ recentEvents' = Newest(Append(recentEvents, n), MaxKept)
      /\ streams' = [t \in Stream |-> IF streams[t].phase = "listening"
                                      THEN [streams[t] EXCEPT !.queue = Append(streams[t].queue, n)]
                                      ELSE streams[t]]
      /\ UNCHANGED <<eventSource, visits, feed, paused, clearing, late>>
  BY DEF Emit
<1>3. n \in Nat /\ n \in Event /\ n \in 0..LastEvent BY <1>1, <1>2 DEF Event
<1>4. \A s : UpTo(s, emitted) /\ (\A i \in DOMAIN s : s[i] \in Nat) => UpTo(s, n) BY <1>1 DEF UpTo
<1>5. \A s \in Seq(Event) : \A i \in DOMAIN s : s[i] \in Nat
  <2>1. \A s \in Seq(Event) : \A i \in DOMAIN s : s[i] \in Event OBVIOUS
  <2> QED BY <2>1, EventsAre
<1>6. recentEvents' \in Seq(Event) /\ Len(recentEvents') <= MaxKept /\ Rising(recentEvents') /\ UpTo(recentEvents', n)
  <2> DEFINE w == Append(recentEvents, n)
  <2>1. recentEvents \in Seq(Event) /\ Rising(recentEvents) /\ UpTo(recentEvents, emitted)
    BY DEF FeedInv, FeedTypes, FeedOrder
  <2>2. w \in Seq(Event) /\ Rising(w) /\ UpTo(w, n) BY <1>1, <1>3, <2>1, AppendRises
  <2>3. recentEvents' = Newest(w, MaxKept) BY <1>2
  <2> HIDE DEF w, n
  <2> QED BY <1>1, <1>3, <2>2, <2>3, NewestIs
<1>7. ASSUME NEW t \in Stream
      PROVE  /\ streams'[t] \in [phase : {"closed", "connecting", "listening"}, queue : Seq(Event)]
             /\ Rising(streams'[t].queue) /\ UpTo(streams'[t].queue, n) /\ Newer(streams'[t].queue, feed)
             /\ streams'[t].phase = streams[t].phase
             /\ streams[t].phase = "closed" => streams'[t] = streams[t]
             /\ streams[t] = Shut => streams'[t] = streams[t]
  <2> DEFINE q == streams[t].queue
             w == Append(q, n)
  <2>1. /\ streams[t] \in [phase : {"closed", "connecting", "listening"}, queue : Seq(Event)]
        /\ q \in Seq(Event) /\ Rising(q) /\ UpTo(q, emitted) /\ Newer(q, feed)
    BY FeedFacts DEF FeedInv, FeedOrder
  <2>2. CASE streams[t].phase = "listening"
    <3>1. streams'[t] = [streams[t] EXCEPT !.queue = w] BY <1>2, <2>2
    <3> HIDE DEF q
    <3>2. /\ w \in Seq(Event) /\ Rising(w) /\ UpTo(w, n)
          /\ \A i \in DOMAIN w : (i \in DOMAIN q /\ w[i] = q[i]) \/ w[i] = n
      BY <1>1, <1>3, <2>1, AppendRises
    <3> HIDE DEF w
    <3>3. Newer(w, feed)
      <4> SUFFICES ASSUME NEW i \in DOMAIN w, NEW k \in DOMAIN feed PROVE feed[k] < w[i] BY DEF Newer
      <4>1. feed[k] < n BY <1>1
      <4>2. CASE i \in DOMAIN q /\ w[i] = q[i] BY <2>1, <4>2 DEF Newer
      <4> QED BY <3>2, <4>1, <4>2
    <3>4. /\ streams'[t] \in [phase : {"closed", "connecting", "listening"}, queue : Seq(Event)]
          /\ streams'[t].queue = w /\ streams'[t].phase = streams[t].phase
      BY <2>1, <3>1, <3>2
    <3>5. streams[t] # Shut BY <2>2 DEF Shut
    <3> QED BY <2>2, <3>2, <3>3, <3>4, <3>5
  <2>3. CASE streams[t].phase # "listening"
    <3>1. streams'[t] = streams[t] BY <1>2, <2>3
    <3>2. UpTo(q, n) BY <1>4, <1>5, <2>1
    <3> QED BY <2>1, <3>1, <3>2
  <2> QED BY <2>2, <2>3
<1>8. ASSUME NEW v \in Visit PROVE UpTo(visits[v].got, n)
  BY <1>4, <1>5, FeedFacts DEF FeedInv, FeedOrder
<1>9. Falling(feed) /\ UpTo(feed, n) BY <1>1, <1>4 DEF FeedInv, FeedOrder
<1>10. FeedTypes'
  <2>1. streams' \in [Stream -> [phase : {"closed", "connecting", "listening"}, queue : Seq(Event)]]
    <3>1. DOMAIN streams' = Stream /\ streams' = [t \in Stream |-> streams'[t]] BY <1>2
    <3> QED BY <1>7, <3>1
  <2> QED BY <1>2, <1>3, <1>6, <2>1 DEF FeedInv, FeedTypes
<1>11. FeedOrder' BY <1>2, <1>6, <1>7, <1>8, <1>9 DEF FeedInv, FeedOrder
<1>12. OneStream'
  <2>1. ASSUME NEW t \in Stream, streams'[t] # Shut PROVE streams[t] # Shut BY <1>7, <2>1
  <2> QED BY <1>2, <1>7, <2>1 DEF FeedInv, OneStream
<1> QED BY <1>10, <1>11, <1>12 DEF FeedInv

LEMMA QuietFeedKeeps ==
  ASSUME FeedInv, UNCHANGED <<emitted, streams, eventSource, feed, late>>,
         paused' \in BOOLEAN, clearing' \in BOOLEAN, recentEvents' \in {recentEvents, <<>>},
         visits' \in [Visit -> [phase : {"none", "asked", "sent"}, got : Seq(Event)]],
         \A v \in Visit : visits'[v] = visits[v] \/ (visits[v] # Quiet /\ visits'[v].got = recentEvents)
  PROVE  FeedInv'
<1>1. <<>> \in Seq(Event) /\ Len(<<>>) <= MaxKept BY EventsAre
<1>2. recentEvents' \in Seq(Event) /\ Len(recentEvents') <= MaxKept BY <1>1 DEF FeedInv, FeedTypes
<1>3. \A v \in Visit : Len(visits'[v].got) <= MaxKept BY DEF FeedInv, FeedTypes
<1>4. FeedTypes' BY <1>2, <1>3 DEF FeedInv, FeedTypes
<1>5. FeedOrder' BY NoFeedIs DEF FeedInv, FeedOrder
<1>6. OneStream' BY DEF FeedInv, OneStream
<1> QED BY <1>4, <1>5, <1>6 DEF FeedInv

LEMMA OpenFeedKeeps == ASSUME FeedInv, NEW v \in Visit, OpenFeed(v) PROVE FeedInv'
<1>1. /\ feed = NoFeed /\ feed' = <<>> /\ visits' = [visits EXCEPT ![v].phase = "asked"]
      /\ UNCHANGED <<emitted, recentEvents, streams, eventSource, paused, clearing, late>>
  BY DEF OpenFeed
<1>2. /\ visits' \in [Visit -> [phase : {"none", "asked", "sent"}, got : Seq(Event)]]
      /\ \A u \in Visit : visits'[u].got = visits[u].got
  BY <1>1 DEF FeedInv, FeedTypes
<1>3. <<>> \in Seq(Event) /\ Len(<<>>) = 0 /\ MaxShown \in Nat BY EventsAre
<1>4. FeedTypes' BY <1>1, <1>2, <1>3 DEF FeedInv, FeedTypes
<1>5. \A t \in Stream : Newer(streams[t].queue, <<>>) BY FeedFacts, NoFeedIs
<1>6. FeedOrder' BY <1>1, <1>2, <1>5, NoFeedIs DEF FeedInv, FeedOrder
<1>7. OneStream' BY <1>1, NoFeedIs DEF FeedInv, OneStream
<1> QED BY <1>4, <1>6, <1>7 DEF FeedInv

LEMMA RecentCameKeeps == ASSUME FeedInv, NEW v \in Visit, RecentCame(v) PROVE FeedInv'
<1> DEFINE got == visits[v].got
<1>1. /\ visits[v].phase = "sent" /\ visits' = [visits EXCEPT ![v] = Quiet]
      /\ UNCHANGED <<emitted, recentEvents, paused, clearing, late>>
  BY DEF RecentCame
<1>2. /\ visits' \in [Visit -> [phase : {"none", "asked", "sent"}, got : Seq(Event)]]
      /\ \A u \in Visit : visits'[u] = visits[u] \/ (visits'[u] = Quiet /\ visits'[u].got = <<>>)
  BY <1>1 DEF FeedInv, FeedTypes, Quiet
<1>3. /\ <<>> \in Seq(Event) /\ Len(<<>>) = 0 /\ MaxShown \in Nat /\ MaxKept \in Nat /\ MaxShown >= MaxKept
  BY EventsAre
<1>4. /\ \A u \in Visit : Len(visits'[u].got) <= MaxKept
      /\ \A u \in Visit : Rising(visits'[u].got) /\ UpTo(visits'[u].got, emitted')
  BY <1>1, <1>2, <1>3, NoFeedIs DEF FeedInv, FeedTypes, FeedOrder
<1>5. got \in Seq(Event) /\ Len(got) <= MaxKept /\ Rising(got) /\ UpTo(got, emitted) /\ emitted \in Nat
  BY FeedFacts DEF FeedInv, FeedTypes, FeedOrder
<1>6. visits[v] # Quiet BY <1>1 DEF Quiet
<1>7. CASE UNCHANGED <<streams, eventSource, feed>>
  <2>1. FeedTypes' BY <1>1, <1>2, <1>4, <1>7 DEF FeedInv, FeedTypes
  <2>2. FeedOrder' BY <1>1, <1>4, <1>7 DEF FeedInv, FeedOrder
  <2>3. OneStream' BY <1>1, <1>2, <1>7 DEF FeedInv, OneStream
  <2> QED BY <2>1, <2>2, <2>3 DEF FeedInv
<1>8. CASE /\ ~(feed = NoFeed /\ got # <<>>)
           /\ feed' = IF got = <<>> THEN feed ELSE Reverse(got)
           /\ \E t \in Stream : /\ streams[t] = Shut \/ Closed[t] = Shut
                                /\ streams' = [Closed EXCEPT ![t] = [phase |-> "connecting", queue |-> <<>>]]
                                /\ eventSource' = t
  <2>1. PICK t \in Stream : /\ streams' = [Closed EXCEPT ![t] = [phase |-> "connecting", queue |-> <<>>]]
                            /\ eventSource' = t
    BY <1>8
  <2>2. Shut \in [phase : {"closed", "connecting", "listening"}, queue : Seq(Event)] /\ Shut.queue = <<>>
    BY <1>3 DEF Shut
  <2>3. ASSUME NEW u \in Stream, u # eventSource PROVE streams[u] = Shut
    BY <2>3 DEF FeedInv, OneStream
  <2>4. \A u \in Stream : Closed[u] = Shut BY <2>3 DEF Closed
  <2>5. /\ DOMAIN Closed = Stream
        /\ \A u \in Stream : streams'[u] = IF u = t THEN [phase |-> "connecting", queue |-> <<>>] ELSE Shut
    BY <2>1, <2>4 DEF Closed
  <2>6. streams' \in [Stream -> [phase : {"closed", "connecting", "listening"}, queue : Seq(Event)]]
    <3>1. streams' = [u \in Stream |-> streams'[u]] BY <2>1, <2>5
    <3>2. \A u \in Stream : streams'[u] \in [phase : {"closed", "connecting", "listening"}, queue : Seq(Event)]
      BY <1>3, <2>2, <2>5
    <3> QED BY <3>1, <3>2
  <2>7. \A u \in Stream : streams'[u].queue = <<>> BY <2>2, <2>5
  <2>8. /\ feed' = feed \/ (feed' \in Seq(Event) /\ Len(feed') <= MaxShown)
        /\ Falling(feed') /\ UpTo(feed', emitted)
    <3>1. CASE got = <<>> BY <1>8, <3>1 DEF FeedInv, FeedOrder
    <3>2. CASE got # <<>>
      <4>1. feed' = Reverse(got) BY <1>8, <3>2
      <4>2. /\ Reverse(got) \in Seq(Event) /\ Len(Reverse(got)) = Len(got)
            /\ Falling(Reverse(got)) /\ UpTo(Reverse(got), emitted)
        BY <1>5, ReverseFalls
      <4>3. Len(got) \in Nat BY <1>5
      <4> HIDE DEF got
      <4>4. Len(Reverse(got)) <= MaxShown BY <1>3, <1>5, <4>2, <4>3
      <4> QED BY <4>1, <4>2, <4>4
    <3> QED BY <3>1, <3>2
  <2>9. /\ feed' = NoFeed \/ (feed' \in Seq(Event) /\ Len(feed') <= MaxShown)
        /\ \A u \in Stream : /\ Rising(streams'[u].queue) /\ UpTo(streams'[u].queue, emitted')
                             /\ Newer(streams'[u].queue, feed')
        /\ Falling(feed') /\ UpTo(feed', emitted')
    BY <1>1, <2>7, <2>8, NoFeedIs DEF FeedInv, FeedTypes
  <2>10. feed' # NoFeed \/ (late /\ feed = NoFeed)
    <3>1. CASE got = <<>>
      <4>1. feed' = feed BY <1>8, <3>1
      <4> QED BY <1>6, <4>1 DEF FeedInv, OneStream
    <3>2. CASE got # <<>>
      <4>1. feed' = Reverse(got) BY <1>8, <3>2
      <4>2. Reverse(got) \in Seq(Event) BY <1>5, ReverseFalls
      <4>3. NoFeed \notin Seq(Event)
        <5>1. ASSUME NoFeed \in Seq(Event) PROVE FALSE
          <6>1. NoFeed[1] \in Event BY <5>1 DEF NoFeed
          <6>2. NoFeed[1] = 0 BY DEF NoFeed
          <6>3. 0 \in Nat \ {0} BY <6>1, <6>2, EventsAre
          <6> QED BY <6>3
        <5> QED BY <5>1
      <4> QED BY <4>1, <4>2, <4>3
    <3> QED BY <3>1, <3>2
  <2>11. FeedTypes' BY <1>1, <1>2, <1>4, <2>1, <2>6, <2>9 DEF FeedInv, FeedTypes
  <2>12. FeedOrder' BY <1>1, <1>4, <2>9 DEF FeedInv, FeedOrder
  <2>13. OneStream'
    <3>1. \A u \in Stream : streams'[u] # Shut => u = eventSource' /\ (feed' # NoFeed \/ late')
      BY <1>1, <2>1, <2>5, <2>10
    <3>2. feed' = NoFeed => \A u \in Visit : visits'[u] = Quiet \/ late' BY <1>1, <2>10
    <3>3. \A u \in Stream : streams'[u].phase = "closed" => streams'[u] = Shut BY <2>5
    <3> QED BY <3>1, <3>2, <3>3 DEF OneStream
  <2> QED BY <2>11, <2>12, <2>13 DEF FeedInv
<1> QED BY <1>7, <1>8 DEF RecentCame

\* A stream connects or breaks: what was on its way may be lost.
LEMMA StreamKeeps == ASSUME FeedInv, NEW t \in Stream, Connects(t) \/ Breaks(t) PROVE FeedInv'
<1>1. /\ streams[t].phase # "closed" /\ UNCHANGED <<emitted, recentEvents, eventSource, visits, feed, paused, clearing, late>>
      /\ \/ streams' = [streams EXCEPT ![t].phase = "listening"]
         \/ streams' = [streams EXCEPT ![t] = [phase |-> "connecting", queue |-> <<>>]]
  BY DEF Connects, Breaks
<1>2. <<>> \in Seq(Event) BY EventsAre
<1>3. streams \in [Stream -> [phase : {"closed", "connecting", "listening"}, queue : Seq(Event)]]
  BY DEF FeedInv, FeedTypes
<1>4. /\ streams' \in [Stream -> [phase : {"closed", "connecting", "listening"}, queue : Seq(Event)]]
      /\ \A u \in Stream : streams'[u].queue \in {streams[u].queue, <<>>}
      /\ \A u \in Stream : u # t => streams'[u] = streams[u]
      /\ streams'[t].phase # "closed"
  <2>1. CASE streams' = [streams EXCEPT ![t].phase = "listening"] BY <1>3, <2>1
  <2>2. CASE streams' = [streams EXCEPT ![t] = [phase |-> "connecting", queue |-> <<>>]]
    BY <1>2, <1>3, <2>2
  <2> QED BY <1>1, <2>1, <2>2
<1>5. streams[t] # Shut BY <1>1 DEF Shut
<1>6. FeedTypes' BY <1>1, <1>4 DEF FeedInv, FeedTypes
<1>7. FeedOrder'
  <2>1. ASSUME NEW u \in Stream
        PROVE  /\ Rising(streams'[u].queue) /\ UpTo(streams'[u].queue, emitted)
               /\ Newer(streams'[u].queue, feed)
    BY <1>4, NoFeedIs DEF FeedInv, FeedOrder
  <2> QED BY <1>1, <2>1 DEF FeedInv, FeedOrder
<1>8. OneStream' BY <1>1, <1>4, <1>5 DEF FeedInv, OneStream
<1> QED BY <1>6, <1>7, <1>8 DEF FeedInv

LEMMA DeliversKeeps == ASSUME FeedInv, NEW t \in Stream, Delivers(t) PROVE FeedInv'
<1> DEFINE q == streams[t].queue
           items == <<Head(q)>> \o feed
<1>1. /\ q # <<>> /\ streams' = [streams EXCEPT ![t].queue = Tail(q)]
      /\ feed' = (IF paused \/ feed = NoFeed THEN feed
                  ELSE IF Len(items) > MaxShown THEN SubSeq(items, 1, MaxShown) ELSE items)
      /\ UNCHANGED <<emitted, recentEvents, eventSource, visits, paused, clearing, late>>
  BY DEF Delivers, FeedInv, FeedTypes
<1>2. /\ streams[t] \in [phase : {"closed", "connecting", "listening"}, queue : Seq(Event)]
      /\ q \in Seq(Event) /\ Rising(q) /\ UpTo(q, emitted) /\ Newer(q, feed) /\ emitted \in Nat
      /\ MaxShown \in Nat
      /\ \A k \in DOMAIN feed : feed[k] \in Nat /\ feed[k] <= emitted
  BY FeedFacts, EventsAre DEF FeedInv, FeedOrder
<1> HIDE DEF q
<1>3. /\ Head(q) \in Event /\ Head(q) <= emitted /\ 1 \in DOMAIN q /\ Head(q) = q[1]
      /\ Tail(q) \in Seq(Event) /\ Rising(Tail(q)) /\ UpTo(Tail(q), emitted)
      /\ \A i \in DOMAIN Tail(q) : /\ i + 1 \in DOMAIN q /\ Tail(q)[i] = q[i + 1]
                                   /\ Head(q) < Tail(q)[i]
  BY <1>1, <1>2, TailRises
<1>4. /\ streams' \in [Stream -> [phase : {"closed", "connecting", "listening"}, queue : Seq(Event)]]
      /\ streams'[t].queue = Tail(q) /\ streams'[t].phase = streams[t].phase
      /\ \A u \in Stream : u # t => streams'[u] = streams[u]
  <2> DEFINE Queued == [phase : {"closed", "connecting", "listening"}, queue : Seq(Event)]
             rest == [streams[t] EXCEPT !.queue = Tail(q)]
  <2>1. streams \in [Stream -> Queued] BY DEF FeedInv, FeedTypes
  <2>2. streams' = [streams EXCEPT ![t] = rest] BY <1>1
  <2>3. rest \in Queued /\ rest.queue = Tail(q) /\ rest.phase = streams[t].phase BY <1>3, <2>1
  <2> HIDE DEF Queued, rest
  <2>4. streams' \in [Stream -> Queued] /\ streams'[t] = rest BY <2>1, <2>2, <2>3
  <2>5. \A u \in Stream : u # t => streams'[u] = streams[u] BY <2>1, <2>2
  <2> QED BY <2>3, <2>4, <2>5 DEF Queued
<1>5. streams[t] # Shut BY <1>1 DEF Shut, q
<1>6. t = eventSource /\ streams[t].phase # "closed" BY <1>5 DEF FeedInv, OneStream
<1>7. Newer(Tail(q), feed) BY <1>2, <1>3 DEF Newer
<1>8. ASSUME feed # NoFeed, ~paused
      PROVE  /\ feed' \in Seq(Event) /\ Len(feed') <= MaxShown /\ feed' # NoFeed
             /\ Falling(feed') /\ UpTo(feed', emitted) /\ Newer(Tail(q), feed')
  <2>1. feed \in Seq(Event) /\ Len(feed) <= MaxShown /\ Falling(feed) BY <1>8 DEF FeedInv, FeedTypes, FeedOrder
  <2>2. <<Head(q)>> \in Seq(Event) /\ Len(<<Head(q)>>) = 1 /\ <<Head(q)>>[1] = Head(q) BY <1>3
  <2>3. /\ items \in Seq(Event) /\ Len(items) = Len(<<Head(q)>>) + Len(feed)
        /\ \A k \in 1..(Len(<<Head(q)>>) + Len(feed)) :
             items[k] = IF k <= Len(<<Head(q)>>) THEN <<Head(q)>>[k] ELSE feed[k - Len(<<Head(q)>>)]
    BY <2>1, <2>2, ConcatProperties
  <2>4. Len(feed) \in Nat /\ DOMAIN feed = 1..Len(feed) BY <2>1
  <2> HIDE DEF items
  <2>5. /\ Len(items) = Len(feed) + 1 /\ items[1] = Head(q)
        /\ \A k \in 2..(Len(feed) + 1) : k - 1 \in DOMAIN feed /\ items[k] = feed[k - 1]
    BY <2>2, <2>3, <2>4
  <2> DEFINE n == IF Len(items) > MaxShown THEN MaxShown ELSE Len(items)
  <2>6. /\ feed' \in Seq(Event) /\ Len(feed') = n /\ n <= MaxShown /\ n <= Len(feed) + 1
        /\ \A k \in 1..n : feed'[k] = items[k]
    <3>1. CASE Len(items) > MaxShown
      <4>1. feed' = SubSeq(items, 1, MaxShown) BY <1>1, <1>8, <3>1 DEF items
      <4>2. \A k \in 1..MaxShown : items[k] \in Event BY <1>2, <2>3, <2>4, <2>5, <3>1
      <4>3. feed' \in Seq(Event) /\ Len(feed') = MaxShown /\ \A k \in 1..MaxShown : feed'[k] = items[k]
        BY <1>2, <4>1, <4>2, SubSeqProperties
      <4> QED BY <1>2, <2>4, <2>5, <3>1, <4>3
    <3>2. CASE ~(Len(items) > MaxShown)
      <4>1. feed' = items BY <1>1, <1>8, <3>2 DEF items
      <4> QED BY <1>2, <2>3, <2>4, <2>5, <3>2, <4>1
    <3> QED BY <3>1, <3>2
  <2>7. n \in Nat BY <1>2, <2>4, <2>5
  <2> HIDE DEF n
  <2>8. DOMAIN feed' = 1..n BY <2>6, <2>7
  <2>9. ASSUME NEW k \in DOMAIN feed'
        PROVE  \/ k = 1 /\ feed'[k] = Head(q)
               \/ k - 1 \in DOMAIN feed /\ feed'[k] = feed[k - 1]
    <3>1. k \in 1..n /\ (k = 1 \/ k \in 2..(Len(feed) + 1)) BY <2>4, <2>6, <2>7, <2>8
    <3> QED BY <2>5, <2>6, <3>1
  <2>10. Falling(feed')
    <3> SUFFICES ASSUME NEW i \in DOMAIN feed', NEW j \in DOMAIN feed', i < j PROVE feed'[i] > feed'[j]
      BY DEF Falling
    <3>1. j # 1 /\ i \in Nat /\ j \in Nat /\ i >= 1 BY <2>7, <2>8
    <3>2. j - 1 \in DOMAIN feed /\ feed'[j] = feed[j - 1] BY <2>9, <3>1
    <3>3. CASE i = 1 /\ feed'[i] = Head(q)
      <4>1. feed[j - 1] < q[1] BY <1>2, <1>3, <3>2 DEF Newer
      <4>2. feed[j - 1] \in Nat /\ q[1] \in Nat
        <5>1. q[1] \in Nat \ {0} BY <1>3, EventsAre
        <5> QED BY <1>2, <3>2, <5>1
      <4> QED BY <1>3, <3>2, <3>3, <4>1, <4>2
    <3>4. CASE i - 1 \in DOMAIN feed /\ feed'[i] = feed[i - 1]
      <4>1. i - 1 < j - 1 BY <3>1
      <4> QED BY <2>1, <3>2, <3>4, <4>1 DEF Falling
    <3> QED BY <2>9, <3>3, <3>4
  <2>11. UpTo(feed', emitted)
    <3> SUFFICES ASSUME NEW k \in DOMAIN feed' PROVE feed'[k] <= emitted BY DEF UpTo
    <3> QED BY <1>2, <1>3, <2>9
  <2>12. Newer(Tail(q), feed')
    <3> SUFFICES ASSUME NEW i \in DOMAIN Tail(q), NEW k \in DOMAIN feed' PROVE feed'[k] < Tail(q)[i]
      BY DEF Newer
    <3>1. CASE feed'[k] = Head(q) BY <1>3, <3>1
    <3>2. CASE k - 1 \in DOMAIN feed /\ feed'[k] = feed[k - 1] BY <1>7, <3>2 DEF Newer
    <3> QED BY <2>9, <3>1, <3>2
  <2>13. feed' # NoFeed
    <3>1. ASSUME feed' = NoFeed PROVE FALSE
      <4>1. 1 \in DOMAIN feed' /\ feed'[1] = 0 BY <3>1 DEF NoFeed
      <4>2. feed'[1] \in Event BY <2>6, <4>1
      <4>3. 0 \in Nat \ {0} BY <4>1, <4>2, EventsAre
      <4> QED BY <4>3
    <3> QED BY <3>1
  <2> QED BY <2>6, <2>10, <2>11, <2>12, <2>13
<1>9. /\ feed' = NoFeed \/ (feed' \in Seq(Event) /\ Len(feed') <= MaxShown)
      /\ Falling(feed') /\ UpTo(feed', emitted) /\ Newer(Tail(q), feed') /\ (feed # NoFeed => feed' # NoFeed)
  <2>1. CASE paused \/ feed = NoFeed
    <3>1. feed' = feed BY <1>1, <2>1
    <3> QED BY <1>7, <3>1 DEF FeedInv, FeedTypes, FeedOrder
  <2>2. CASE ~(paused \/ feed = NoFeed) BY <1>8, <2>2
  <2> QED BY <2>1, <2>2
<1>10. FeedTypes' BY <1>1, <1>4, <1>9 DEF FeedInv, FeedTypes
<1>11. \A u \in Stream : u # t => streams[u].queue = <<>>
  <2>1. \A u \in Stream : u # t => streams[u] = Shut BY <1>6 DEF FeedInv, OneStream
  <2> QED BY <2>1 DEF Shut
<1>12. FeedOrder'
  <2>1. ASSUME NEW u \in Stream
        PROVE  /\ Rising(streams'[u].queue) /\ UpTo(streams'[u].queue, emitted)
               /\ Newer(streams'[u].queue, feed')
    <3>1. CASE u = t BY <1>3, <1>4, <1>9, <3>1
    <3>2. CASE u # t
      <4>1. streams'[u].queue = <<>> BY <1>4, <1>11, <3>2
      <4> QED BY <4>1, NoFeedIs
    <3> QED BY <3>1, <3>2
  <2> QED BY <1>1, <1>9, <2>1 DEF FeedInv, FeedOrder
<1>13. OneStream'
  <2>1. feed' = NoFeed => feed = NoFeed BY <1>9
  <2> QED BY <1>1, <1>4, <1>5, <1>6, <2>1 DEF FeedInv, OneStream
<1> QED BY <1>10, <1>12, <1>13 DEF FeedInv

LEMMA ClearFeedKeeps == ASSUME FeedInv, ClearFeed PROVE FeedInv'
<1>1. /\ feed # NoFeed /\ feed' = <<>> /\ clearing' = TRUE
      /\ UNCHANGED <<emitted, recentEvents, streams, eventSource, visits, paused, late>>
  BY DEF ClearFeed
<1>2. <<>> \in Seq(Event) /\ Len(<<>>) <= MaxShown BY EventsAre
<1>3. clearing' \in BOOLEAN BY <1>1, Zenon
<1>4. FeedTypes' BY <1>1, <1>2, <1>3 DEF FeedInv, FeedTypes
<1>5. \A t \in Stream : Newer(streams[t].queue, <<>>) BY FeedFacts, NoFeedIs
<1>6. FeedOrder' BY <1>1, <1>5, NoFeedIs DEF FeedInv, FeedOrder
<1>7. OneStream' BY <1>1, NoFeedIs DEF FeedInv, OneStream
<1> QED BY <1>4, <1>6, <1>7 DEF FeedInv

LEMMA LeaveFeedKeeps == ASSUME FeedInv, LeaveFeed PROVE FeedInv'
<1>1. /\ feed' = NoFeed /\ streams' = Closed /\ eventSource' = NoStream
      /\ late' = (late \/ \E v \in Visit : visits[v] # Quiet)
      /\ UNCHANGED <<emitted, recentEvents, visits, paused, clearing>>
  BY DEF LeaveFeed
<1>2. late \in BOOLEAN /\ late' \in BOOLEAN
  <2>1. late \in BOOLEAN BY DEF FeedInv, FeedTypes
  <2>2. late' \in BOOLEAN BY <1>1, <2>1, Zenon
  <2> QED BY <2>1, <2>2
<1>3. \A t \in Stream : t # eventSource => streams[t] = Shut BY DEF FeedInv, OneStream
<1>4. \A t \in Stream : streams'[t] = Shut BY <1>1, <1>3 DEF Closed
<1>5. /\ <<>> \in Seq(Event) /\ Shut.queue = <<>>
      /\ Shut \in [phase : {"closed", "connecting", "listening"}, queue : Seq(Event)]
  BY EventsAre DEF Shut
<1>6. streams' \in [Stream -> [phase : {"closed", "connecting", "listening"}, queue : Seq(Event)]]
  <2>1. streams' = [t \in Stream |-> streams'[t]] BY <1>1 DEF Closed
  <2> QED BY <1>4, <1>5, <2>1
<1>7. FeedTypes' BY <1>1, <1>2, <1>6 DEF FeedInv, FeedTypes
<1>8. FeedOrder' BY <1>1, <1>4, <1>5, FeedFacts, NoFeedIs DEF FeedInv, FeedOrder
<1>9. OneStream' BY <1>1, <1>4 DEF OneStream
<1> QED BY <1>7, <1>8, <1>9 DEF FeedInv

LEMMA FeedStart == ASSUME FeedInit PROVE FeedInv
<1>1. /\ <<>> \in Seq(Event) /\ Len(<<>>) <= MaxKept /\ 0 \in 0..LastEvent
      /\ Shut \in [phase : {"closed", "connecting", "listening"}, queue : Seq(Event)]
      /\ Quiet \in [phase : {"none", "asked", "sent"}, got : Seq(Event)]
      /\ Shut.queue = <<>> /\ Quiet.got = <<>>
  BY EventsAre DEF Shut, Quiet
<1>2. /\ \A t \in Stream : streams[t] = Shut
      /\ \A v \in Visit : visits[v] = Quiet
      /\ streams \in [Stream -> [phase : {"closed", "connecting", "listening"}, queue : Seq(Event)]]
      /\ visits \in [Visit -> [phase : {"none", "asked", "sent"}, got : Seq(Event)]]
  BY <1>1 DEF FeedInit
<1>3. FeedTypes BY <1>1, <1>2 DEF FeedInit, FeedTypes
<1>4. FeedOrder BY <1>1, <1>2, NoFeedIs DEF FeedInit, FeedOrder
<1>5. OneStream BY <1>2 DEF OneStream
<1> QED BY <1>3, <1>4, <1>5 DEF FeedInv

LEMMA FeedStep == ASSUME FeedInv, [FeedNext]_feedVars PROVE FeedInv'
<1>1. /\ paused \in BOOLEAN /\ clearing \in BOOLEAN /\ recentEvents \in Seq(Event)
      /\ visits \in [Visit -> [phase : {"none", "asked", "sent"}, got : Seq(Event)]]
  BY DEF FeedInv, FeedTypes
<1>2. CASE UNCHANGED feedVars BY <1>1, <1>2, QuietFeedKeeps DEF feedVars
<1>3. CASE TogglePause
  <2>1. paused' \in BOOLEAN BY <1>1, <1>3 DEF TogglePause
  <2> QED BY <1>1, <1>3, <2>1, QuietFeedKeeps DEF TogglePause
<1>4. CASE ClearedOnServer
  <2>1. clearing' \in BOOLEAN BY <1>4 DEF ClearedOnServer
  <2> QED BY <1>1, <1>4, <2>1, QuietFeedKeeps DEF ClearedOnServer
<1>5. ASSUME NEW v \in Visit, RecentSent(v) PROVE FeedInv'
  <2>1. /\ visits[v].phase = "asked" /\ visits' = [visits EXCEPT ![v] = [phase |-> "sent", got |-> recentEvents]]
        /\ UNCHANGED <<emitted, recentEvents, streams, eventSource, feed, paused, clearing, late>>
    BY <1>5 DEF RecentSent
  <2>2. visits[v] # Quiet BY <2>1 DEF Quiet
  <2>3. /\ visits' \in [Visit -> [phase : {"none", "asked", "sent"}, got : Seq(Event)]]
        /\ \A u \in Visit : visits'[u] = visits[u] \/ (visits[u] # Quiet /\ visits'[u].got = recentEvents)
    BY <1>1, <2>1, <2>2
  <2> QED BY <1>1, <2>1, <2>3, QuietFeedKeeps
<1> QED BY <1>2, <1>3, <1>4, <1>5, EmitKeeps, ClearFeedKeeps, LeaveFeedKeeps, OpenFeedKeeps, RecentCameKeeps,
           StreamKeeps, DeliversKeeps
        DEF FeedNext

\* For any numbers of events, kept and shown ones, streams and visits: the feed shows every
\* event at most once, the newest on top, and one stream is open at most.
THEOREM FeedOrdered == FeedSpec => [](FeedTypeOK /\ FeedIsOrdered)
<1>1. FeedInit => FeedInv BY FeedStart
<1>2. FeedInv /\ [FeedNext]_feedVars => FeedInv' BY FeedStep
<1>3. FeedInv => FeedTypeOK /\ FeedIsOrdered
  <2> SUFFICES ASSUME FeedInv PROVE FeedTypeOK /\ FeedIsOrdered OBVIOUS
  <2>1. \A s \in Seq(Event) : Range(s) \subseteq Event BY DEF Range
  <2>2. {paused, clearing, late} \subseteq BOOLEAN
    <3>1. paused \in BOOLEAN /\ clearing \in BOOLEAN /\ late \in BOOLEAN BY DEF FeedInv, FeedTypes
    <3> QED BY <3>1, Zenon
  <2>3. FeedTypeOK BY <2>1, <2>2, FeedFacts DEF FeedInv, FeedTypes, FeedTypeOK
  <2>4. FeedIsOrdered BY DEF FeedInv, FeedOrder, OneStream, Falling, FeedIsOrdered
  <2> QED BY <2>3, <2>4
<1> QED BY <1>1, <1>2, <1>3, PTL DEF FeedSpec

-----------------------------------------------------------------------------
(* The typing in a chat room.                                              *)

Post == [type : Presence, room : Room, arrived : BOOLEAN]
Says(ps, r) == \E k \in DOMAIN ps : ps[k].room = r /\ ps[k].type = "composing"
Under(ps, r) == \E k \in DOMAIN ps : ps[k].room = r /\ ~ps[k].arrived

\* What holds of room r as long as no request of it was lost or overtaken, for the requests ps
\* without an answer, of which one who was told may be of typing that goes on; saw and last are
\* what the peer saw and what was answered last.
Traced(r, ps, tells, saw, last) ==
  /\ ~tells => ~Says(ps, r)
  /\ ~tells /\ saw = "composing" => Under(ps, r)
  /\ ~Says(ps, r) /\ saw = "composing" =>
       Under(ps, r) \/ (last # "paused" /\ \A k \in DOMAIN ps : ps[k].room # r)
  /\ \A k, m \in DOMAIN ps :
       k < m /\ ps[k].room = r /\ ps[m].room = r /\ ps[k].type = "composing" => ps[m].type = "composing"

Tells(r) == typingIn = r /\ told
TypingTypes ==
  /\ typingIn \in Room \union {NoRoom} /\ startTimer \in Room \union {NoRoom}
  /\ told \in BOOLEAN /\ pauseTimer \in BOOLEAN /\ keepTimer \in BOOLEAN
  /\ sees \in [Room -> Presence] /\ missed \in [Room -> BOOLEAN]
  /\ lastSent \in [Room -> [type : Presence \union {"none"}, fresh : BOOLEAN]]
  /\ posts \in Seq(Post) /\ Len(posts) <= MaxPosts
TypingInv ==
  /\ TypingTypes /\ TypingIsPaused
  /\ \A r \in Room : ~missed[r] => Traced(r, posts, Tells(r), sees[r], lastSent[r].type)

LEMMA PostedIs ==
  ASSUME NEW ps \in Seq(Post), NEW p \in Post
  PROVE  /\ Append(ps, p) \in Seq(Post) /\ Len(Append(ps, p)) = Len(ps) + 1 /\ Len(ps) \in Nat
         /\ DOMAIN ps = 1..Len(ps) /\ DOMAIN Append(ps, p) = 1..(Len(ps) + 1)
         /\ \A k \in DOMAIN ps : k \in DOMAIN Append(ps, p) /\ Append(ps, p)[k] = ps[k]
         /\ Append(ps, p)[Len(ps) + 1] = p
         /\ \A k \in DOMAIN Append(ps, p) : k \in DOMAIN ps \/ k = Len(ps) + 1
<1> DEFINE w == Append(ps, p)
<1>1. /\ w \in Seq(Post) /\ Len(w) = Len(ps) + 1 /\ \A k \in 1..Len(ps) : w[k] = ps[k]
      /\ w[Len(ps) + 1] = p
  BY AppendProperties
<1>2. Len(ps) \in Nat /\ DOMAIN ps = 1..Len(ps) OBVIOUS
<1> HIDE DEF w
<1>3. DOMAIN w = 1..(Len(ps) + 1) BY <1>1
<1> QED BY <1>1, <1>2, <1>3 DEF w

\* A request of another room, or one that says "typing".
LEMMA TracedSaying ==
  ASSUME NEW ps \in Seq(Post), NEW p \in Post, NEW r \in Room, NEW tells \in BOOLEAN, NEW saw, NEW last,
         Traced(r, ps, tells, saw, last), p.room # r \/ (p.type = "composing" /\ tells)
  PROVE  Traced(r, Append(ps, p), tells, saw, last)
<1> DEFINE w == Append(ps, p)
           n == Len(ps) + 1
<1>1. /\ n \in Nat /\ DOMAIN ps = 1..(n - 1) /\ w[n] = p /\ n \in DOMAIN w
      /\ \A k \in DOMAIN ps : k \in DOMAIN w /\ w[k] = ps[k] /\ k < n
      /\ \A k \in DOMAIN w : k \in DOMAIN ps \/ k = n
  <2>1. Len(ps) \in Nat BY PostedIs
  <2> QED BY <2>1, PostedIs
<1> HIDE DEF w, n
<1>2. Under(ps, r) => Under(w, r) BY <1>1 DEF Under
<1>3. Says(ps, r) => Says(w, r) BY <1>1 DEF Says
<1>4. p.room # r => (Says(w, r) => Says(ps, r)) BY <1>1 DEF Says
<1>5. p.room = r => Says(w, r) BY <1>1 DEF Says
<1>6. p.room # r => ((\A k \in DOMAIN ps : ps[k].room # r) => \A k \in DOMAIN w : w[k].room # r) BY <1>1
<1>7. ASSUME NEW k \in DOMAIN w, NEW m \in DOMAIN w,
             k < m, w[k].room = r, w[m].room = r, w[k].type = "composing"
      PROVE  w[m].type = "composing"
  <2>1. CASE m = n BY <1>1, <1>7, <2>1
  <2>2. CASE m # n
    <3>1. m \in DOMAIN ps /\ m < n BY <1>1, <2>2
    <3>2. k \in DOMAIN ps
      <4>1. k # n BY <1>1, <1>7, <3>1
      <4> QED BY <1>1, <4>1
    <3> QED BY <1>1, <1>7, <3>1, <3>2 DEF Traced
  <2> QED BY <2>1, <2>2
<1> QED BY <1>2, <1>3, <1>4, <1>5, <1>6, <1>7 DEF Traced, w

\* The pause is sent when no "typing" is without an answer, or left out when it was the last.
LEMMA TracedPausing ==
  ASSUME NEW ps \in Seq(Post), NEW p \in Post, NEW r \in Room, NEW saw, NEW last,
         p.room = r, p.type = "paused", ~p.arrived, ~Says(ps, r)
  PROVE  Traced(r, Append(ps, p), FALSE, saw, last)
<1> DEFINE w == Append(ps, p)
           n == Len(ps) + 1
<1>1. /\ w[n] = p /\ n \in DOMAIN w
      /\ \A k \in DOMAIN ps : w[k] = ps[k]
      /\ \A k \in DOMAIN w : k \in DOMAIN ps \/ k = n
  <2>1. Len(ps) \in Nat BY PostedIs
  <2> QED BY <2>1, PostedIs
<1> HIDE DEF w, n
<1>2. Under(w, r) BY <1>1 DEF Under
<1>3. ~Says(w, r) BY <1>1 DEF Says
<1> QED BY <1>2, <1>3 DEF Traced, Says, w

LEMMA TracedUnsaid ==
  ASSUME NEW ps \in Seq(Post), NEW r \in Room, NEW saw,
         Traced(r, ps, TRUE, saw, "paused"), ~Says(ps, r)
  PROVE  Traced(r, ps, FALSE, saw, "paused")
BY DEF Traced

LEMMA TracedTelling ==
  ASSUME NEW ps \in Seq(Post), NEW r \in Room, NEW tells \in BOOLEAN, NEW saw, NEW last, NEW now2,
         Traced(r, ps, tells, saw, last), now2 \in {last, "none"}
  PROVE  Traced(r, ps, TRUE, saw, now2) /\ Traced(r, ps, tells, saw, now2)
BY DEF Traced

\* The peer gets a request: of this room, or of another.
LEMMA TracedArriving ==
  ASSUME NEW ps \in Seq(Post), NEW n \in DOMAIN ps, NEW r \in Room, NEW tells \in BOOLEAN, NEW saw, NEW last,
         saw \in Presence, Traced(r, ps, tells, saw, last)
  PROVE  LET w == [ps EXCEPT ![n].arrived = TRUE] IN
         /\ w \in Seq(Post) /\ Len(w) = Len(ps)
         /\ Traced(r, w, tells, IF ps[n].room = r THEN ps[n].type ELSE saw, last)
<1> DEFINE w == [ps EXCEPT ![n].arrived = TRUE]
           new == IF ps[n].room = r THEN ps[n].type ELSE saw
<1>1. Len(ps) \in Nat /\ DOMAIN ps = 1..Len(ps) /\ \A k \in DOMAIN ps : ps[k] \in Post OBVIOUS
<1>2. /\ DOMAIN w = DOMAIN ps
      /\ \A k \in DOMAIN ps : w[k].room = ps[k].room /\ w[k].type = ps[k].type /\ w[k] \in Post
      /\ \A k \in DOMAIN ps : k # n => w[k] = ps[k]
  BY <1>1 DEF Post
<1>3. w = [k \in 1..Len(ps) |-> w[k]] BY <1>1
<1> HIDE DEF w
<1>4. w \in Seq(Post) /\ Len(w) = Len(ps) BY <1>1, <1>2, <1>3
<1>5. Says(w, r) <=> Says(ps, r) BY <1>2 DEF Says
<1>6. ps[n].room # r => (Under(ps, r) => Under(w, r)) BY <1>2 DEF Under
<1>7. CASE ps[n].room # r
  <2>1. new = saw BY <1>7
  <2> HIDE DEF new
  <2>2. Traced(r, w, tells, new, last) BY <1>2, <1>5, <1>6, <1>7, <2>1 DEF Traced
  <2> QED BY <1>4, <2>2 DEF w, new
<1>8. CASE ps[n].room = r
  <2>1. new = ps[n].type /\ ps[n].type \in Presence BY <1>1, <1>8 DEF Post
  <2> HIDE DEF new
  <2>2. CASE new = "composing"
    <3>1. Says(ps, r) BY <1>8, <2>1, <2>2 DEF Says
    <3>2. Traced(r, w, tells, new, last) BY <1>2, <1>5, <3>1 DEF Traced
    <3> QED BY <1>4, <3>2 DEF w, new
  <2>3. CASE new = "paused"
    <3>1. Traced(r, w, tells, new, last) BY <1>2, <1>5, <2>3 DEF Traced
    <3> QED BY <1>4, <3>1 DEF w, new
  <2> QED BY <2>1, <2>2, <2>3 DEF Presence
<1> QED BY <1>7, <1>8

LEMMA RemovedIs ==
  ASSUME NEW ps \in Seq(Post), NEW n \in DOMAIN ps
  PROVE  /\ RemoveAt(ps, n) \in Seq(Post) /\ Len(RemoveAt(ps, n)) = Len(ps) - 1
         /\ \A k \in DOMAIN RemoveAt(ps, n) : RemoveAt(ps, n)[k] = IF k < n THEN ps[k] ELSE ps[k + 1]
<1> DEFINE front == SubSeq(ps, 1, n - 1)
           back == SubSeq(ps, n + 1, Len(ps))
<1>1. Len(ps) \in Nat /\ n \in 1..Len(ps) OBVIOUS
<1>2. front \in Seq(Post) /\ Len(front) = n - 1 /\ \A k \in 1..(n - 1) : front[k] = ps[k] BY <1>1
<1>3. /\ back \in Seq(Post) /\ Len(back) = Len(ps) - n
      /\ \A k \in 1..(Len(ps) - n) : back[k] = ps[n + k]
  BY <1>1
<1> HIDE DEF front, back
<1> DEFINE w == front \o back
<1>4. /\ w \in Seq(Post) /\ Len(w) = Len(front) + Len(back)
      /\ \A k \in 1..(Len(front) + Len(back)) :
           w[k] = IF k <= Len(front) THEN front[k] ELSE back[k - Len(front)]
  BY <1>2, <1>3, ConcatProperties
<1> HIDE DEF w
<1>5. w \in Seq(Post) /\ Len(w) = Len(ps) - 1 BY <1>1, <1>2, <1>3, <1>4
<1>6. ASSUME NEW k \in 1..(Len(ps) - 1) PROVE w[k] = IF k < n THEN ps[k] ELSE ps[k + 1]
  <2>1. CASE k < n
    <3>1. k \in 1..(n - 1) BY <1>1, <2>1
    <3>2. k \in 1..(Len(front) + Len(back)) /\ k <= Len(front) BY <1>1, <1>2, <1>3, <3>1
    <3>3. w[k] = front[k] BY <1>4, <3>2
    <3> QED BY <1>2, <2>1, <3>1, <3>3
  <2>2. CASE ~(k < n)
    <3>1. k \in 1..(Len(front) + Len(back)) /\ ~(k <= Len(front)) /\ k - Len(front) = k - (n - 1)
      BY <1>1, <1>2, <1>3, <2>2
    <3>2. w[k] = back[k - (n - 1)] BY <1>4, <3>1
    <3>3. k - (n - 1) \in 1..(Len(ps) - n) /\ n + (k - (n - 1)) = k + 1 BY <1>1, <2>2
    <3> QED BY <1>3, <2>2, <3>2, <3>3
  <2> QED BY <2>1, <2>2
<1>7. DOMAIN w = 1..(Len(ps) - 1) BY <1>1, <1>5
<1>8. RemoveAt(ps, n) = w BY DEF RemoveAt, w, front, back
<1> QED BY <1>5, <1>6, <1>7, <1>8

\* An answer, in the order of the requests of its room.
LEMMA TracedAnswering ==
  ASSUME NEW ps \in Seq(Post), NEW n \in DOMAIN ps, NEW r \in Room, NEW tells \in BOOLEAN, NEW saw, NEW last,
         Traced(r, ps, tells, saw, last),
         ps[n].room = r => ps[n].arrived /\ \A j \in 1..(n - 1) : ps[j].room # r
  PROVE  Traced(r, RemoveAt(ps, n), tells, saw, IF ps[n].room = r THEN ps[n].type ELSE last)
<1> DEFINE w == RemoveAt(ps, n)
           answered == IF ps[n].room = r THEN ps[n].type ELSE last
           from(k) == IF k < n THEN k ELSE k + 1
<1>1. /\ Len(ps) \in Nat /\ DOMAIN ps = 1..Len(ps) /\ n \in 1..Len(ps)
      /\ w \in Seq(Post) /\ Len(w) = Len(ps) - 1
      /\ \A k \in DOMAIN w : w[k] = IF k < n THEN ps[k] ELSE ps[k + 1]
      /\ \A k \in DOMAIN ps : ps[k] \in Post
  BY RemovedIs
<1> HIDE DEF w
<1>2. DOMAIN w = 1..(Len(ps) - 1) BY <1>1
<1>3. \A k \in DOMAIN w : w[k] = ps[from(k)] /\ from(k) \in DOMAIN ps /\ from(k) # n BY <1>1, <1>2
<1>4. \A k, m \in DOMAIN w : k < m => from(k) < from(m) BY <1>1, <1>2
<1>5. ASSUME NEW k \in DOMAIN ps, k # n PROVE \E m \in DOMAIN w : w[m] = ps[k]
  <2> DEFINE m == IF k < n THEN k ELSE k - 1
  <2>1. m \in DOMAIN w /\ (m < n <=> k < n) /\ (k > n => m + 1 = k) BY <1>1, <1>2, <1>5
  <2>2. w[m] = ps[k] BY <1>1, <1>5, <2>1
  <2> QED BY <2>1, <2>2
<1> HIDE DEF from
<1>6. Says(w, r) => Says(ps, r) BY <1>3 DEF Says
<1>7. Under(ps, r) => Under(w, r)
  <2> SUFFICES ASSUME NEW k \in DOMAIN ps, ps[k].room = r, ~ps[k].arrived PROVE Under(w, r)
    BY DEF Under
  <2>1. k # n OBVIOUS
  <2> QED BY <1>5, <2>1 DEF Under
<1>8. \A k, m \in DOMAIN w :
        k < m /\ w[k].room = r /\ w[m].room = r /\ w[k].type = "composing" => w[m].type = "composing"
  BY <1>3, <1>4 DEF Traced
<1>9. ASSUME ~Says(w, r), saw = "composing"
      PROVE  Under(w, r) \/ (answered # "paused" /\ \A k \in DOMAIN w : w[k].room # r)
  <2>1. CASE ~Says(ps, r)
    <3>1. CASE Under(ps, r) BY <1>7, <3>1
    <3>2. CASE last # "paused" /\ \A k \in DOMAIN ps : ps[k].room # r BY <1>3, <3>2
    <3> QED BY <1>9, <2>1, <3>1, <3>2 DEF Traced
  <2>2. CASE Says(ps, r)
    <3>1. PICK k \in DOMAIN ps : ps[k].room = r /\ ps[k].type = "composing" BY <2>2 DEF Says
    <3>2. k = n
      <4>1. ASSUME k # n PROVE FALSE
        <5>1. PICK m \in DOMAIN w : w[m] = ps[k] BY <1>5, <4>1
        <5> QED BY <1>9, <3>1, <5>1 DEF Says
      <4> QED BY <4>1
    <3>3. answered = "composing" BY <3>1, <3>2
    <3>4. ASSUME NEW j \in DOMAIN w, w[j].room = r PROVE FALSE
      <4>1. ps[from(j)].room = r /\ from(j) \in DOMAIN ps /\ from(j) # n BY <1>3, <3>4
      <4>2. ~(from(j) \in 1..(n - 1)) BY <3>1, <3>2, <4>1
      <4>3. n < from(j) BY <1>1, <4>1, <4>2
      <4>4. ps[from(j)].type = "composing" BY <3>1, <3>2, <4>1, <4>3 DEF Traced
      <4> QED BY <1>3, <1>9, <3>4, <4>4 DEF Says
    <3> QED BY <3>3, <3>4
  <2> QED BY <2>1, <2>2
<1> HIDE DEF answered
<1>10. Traced(r, w, tells, saw, answered) BY <1>6, <1>7, <1>8, <1>9 DEF Traced
<1> QED BY <1>10 DEF w, answered

LEMMA TypingFacts ==
  ASSUME TypingInv
  PROVE  /\ posts \in Seq(Post) /\ Len(posts) \in Nat /\ DOMAIN posts = 1..Len(posts)
         /\ \A k \in DOMAIN posts : /\ posts[k] \in Post /\ posts[k].room \in Room /\ posts[k].type \in Presence
                                    /\ posts[k].arrived \in BOOLEAN
         /\ told \in BOOLEAN /\ NoRoom \notin Room /\ MaxPosts \in Nat
         /\ \A r \in Room : /\ Tells(r) \in BOOLEAN /\ missed[r] \in BOOLEAN /\ sees[r] \in Presence
                            /\ lastSent[r] \in [type : Presence \union {"none"}, fresh : BOOLEAN]
         /\ \A r : Open(r) <=> Says(posts, r)
<1>1. posts \in Seq(Post) BY DEF TypingInv, TypingTypes
<1>2. Len(posts) \in Nat /\ DOMAIN posts = 1..Len(posts) /\ \A k \in DOMAIN posts : posts[k] \in Post BY <1>1
<1>3. \A k \in DOMAIN posts : /\ posts[k].room \in Room /\ posts[k].type \in Presence
                              /\ posts[k].arrived \in BOOLEAN
  BY <1>2 DEF Post
<1>4. told \in BOOLEAN BY DEF TypingInv, TypingTypes
<1>5. \A r : Tells(r) \in BOOLEAN BY Zenon DEF Tells
<1>6. \A r : Open(r) <=> Says(posts, r) BY DEF Open, Says, Range
<1> QED BY <1>1, <1>2, <1>3, <1>4, <1>5, <1>6, TypingAssumption DEF TypingInv, TypingTypes

\* A step that sends nothing and tells no less.
LEMMA TypingStays ==
  ASSUME TypingInv, UNCHANGED <<posts, sees, missed>>, TypingTypes', TypingIsPaused',
         \A r \in Room : /\ Tells(r)' = Tells(r)
                         /\ lastSent'[r].type \in {lastSent[r].type, "none"}
  PROVE  TypingInv'
<1>1. ASSUME NEW r \in Room, ~missed[r]
      PROVE  Traced(r, posts', Tells(r)', sees'[r], lastSent'[r].type)
  <2>1. Traced(r, posts, Tells(r), sees[r], lastSent[r].type) BY <1>1 DEF TypingInv
  <2>2. posts \in Seq(Post) /\ Tells(r) \in BOOLEAN BY TypingFacts
  <2>3. lastSent'[r].type \in {lastSent[r].type, "none"} OBVIOUS
  <2>4. Traced(r, posts, Tells(r), sees[r], lastSent'[r].type) BY <2>1, <2>2, <2>3, TracedTelling
  <2> QED BY <2>4
<1> QED BY <1>1 DEF TypingInv

\* The peer of the room typed in is told, or was just told the same.
LEMMA SayingKeeps ==
  ASSUME TypingInv, typingIn \in Room, Sending("composing", typingIn), told' = TRUE,
         UNCHANGED <<typingIn, lastSent, sees, missed>>, TypingIsPaused',
         startTimer' \in Room \union {NoRoom}, pauseTimer' \in BOOLEAN, keepTimer' \in BOOLEAN
  PROVE  TypingInv'
<1> DEFINE p == [type |-> "composing", room |-> typingIn, arrived |-> FALSE]
<1>1. p \in Post /\ p.room = typingIn /\ p.type = "composing" BY DEF Post, Presence
<1>2. /\ posts \in Seq(Post) /\ \A r \in Room : Tells(r) \in BOOLEAN
      /\ Len(posts) \in Nat /\ Len(posts) <= MaxPosts /\ MaxPosts \in Nat
  BY TypingFacts DEF TypingInv, TypingTypes
<1>3. posts' = posts \/ (Len(posts) < MaxPosts /\ posts' = Append(posts, p)) BY DEF Sending
<1> HIDE DEF p
<1>4. posts' \in Seq(Post) /\ Len(posts') <= MaxPosts
  <2>1. Append(posts, p) \in Seq(Post) /\ Len(Append(posts, p)) = Len(posts) + 1 BY <1>1, <1>2, PostedIs
  <2> QED BY <1>2, <1>3, <2>1
<1>5. told' \in BOOLEAN BY Zenon
<1>6. TypingTypes' BY <1>4, <1>5 DEF TypingInv, TypingTypes
<1>7. ASSUME NEW r \in Room, ~missed[r]
      PROVE  Traced(r, posts', Tells(r)', sees'[r], lastSent'[r].type)
  <2>1. Traced(r, posts, Tells(r), sees[r], lastSent[r].type) BY <1>7 DEF TypingInv
  <2>2. CASE r = typingIn
    <3>1. Tells(r)' = TRUE BY <2>2, Zenon DEF Tells
    <3>2. Traced(r, posts, TRUE, sees[r], lastSent[r].type)
      <4>1. lastSent[r].type \in {lastSent[r].type, "none"} /\ Tells(r) \in BOOLEAN BY <1>2
      <4> QED BY <1>2, <2>1, <4>1, TracedTelling
    <3>3. Traced(r, Append(posts, p), TRUE, sees[r], lastSent[r].type)
      BY <1>1, <1>2, <3>2, TracedSaying
    <3> QED BY <1>3, <3>1, <3>2, <3>3
  <2>3. CASE r # typingIn
    <3>1. Tells(r)' = FALSE /\ Tells(r) = FALSE BY <2>3, Zenon DEF Tells
    <3>2. Traced(r, posts, FALSE, sees[r], lastSent[r].type) BY <2>1, <3>1
    <3>3. Traced(r, Append(posts, p), FALSE, sees[r], lastSent[r].type)
      BY <1>1, <1>2, <2>3, <3>2, TracedSaying
    <3> QED BY <1>3, <3>1, <3>2, <3>3
  <2> QED BY <2>2, <2>3
<1> QED BY <1>6, <1>7 DEF TypingInv

\* The typing in a room ends: its peer is told, if it was told of the typing.
LEMMA PausingKeeps ==
  ASSUME TypingInv, Pausing, told' = FALSE, typingIn' \in Room \union {NoRoom}, typingIn' # typingIn,
         UNCHANGED <<lastSent, sees>>, TypingIsPaused', startTimer' \in Room \union {NoRoom},
         pauseTimer' \in BOOLEAN, keepTimer' \in BOOLEAN
  PROVE  TypingInv'
<1>1. /\ posts \in Seq(Post) /\ \A r \in Room : Tells(r) \in BOOLEAN
      /\ Len(posts) \in Nat /\ Len(posts) <= MaxPosts /\ MaxPosts \in Nat /\ NoRoom \notin Room
      /\ missed \in [Room -> BOOLEAN] /\ typingIn \in Room \union {NoRoom} /\ told \in BOOLEAN
      /\ \A r : Open(r) <=> Says(posts, r)
  BY TypingFacts DEF TypingInv, TypingTypes
<1>2. told' \in BOOLEAN BY Zenon
<1>3. \A r \in Room : Tells(r)' = FALSE BY Zenon DEF Tells
<1>4. CASE ~(typingIn # NoRoom /\ told)
  <2>1. UNCHANGED <<posts, missed>> BY <1>4 DEF Pausing
  <2>2. TypingTypes' BY <1>2, <2>1 DEF TypingInv, TypingTypes
  <2>3. \A r \in Room : Tells(r) = FALSE BY <1>1, <1>4, Zenon DEF Tells
  <2>4. ASSUME NEW r \in Room PROVE lastSent'[r].type \in {lastSent[r].type, "none"} OBVIOUS
  <2> QED BY <1>3, <2>1, <2>2, <2>3, <2>4, TypingStays
<1>5. CASE typingIn # NoRoom /\ told
  <2> DEFINE q == typingIn
             p == [type |-> "paused", room |-> q, arrived |-> FALSE]
             left == Leaves("paused", q)
  <2>1. q \in Room BY <1>1, <1>5
  <2>2. p \in Post /\ p.room = q /\ p.type = "paused" /\ ~p.arrived BY <2>1 DEF Post, Presence
  <2>3. /\ IF left THEN posts' = posts ELSE Len(posts) < MaxPosts /\ posts' = Append(posts, p)
        /\ missed' = [missed EXCEPT ![q] = Open(q) \/ (missed[q] /\ left)]
    BY <1>1, <1>5 DEF Pausing, Sending
  <2>4. /\ missed' \in [Room -> BOOLEAN]
        /\ \A r \in Room : r # q => missed'[r] = missed[r]
        /\ ~missed'[q] => ~Says(posts, q) /\ (left => ~missed[q])
    <3> DEFINE b == Open(q) \/ (missed[q] /\ left)
    <3>1. b \in BOOLEAN BY Zenon
    <3>2. missed' = [missed EXCEPT ![q] = b] BY <2>3
    <3>3. ~b => ~Says(posts, q) /\ (left => ~missed[q]) BY <1>1, Zenon
    <3> HIDE DEF b
    <3>4. missed'[q] = b BY <1>1, <2>1, <3>2
    <3> QED BY <1>1, <2>1, <3>1, <3>2, <3>3, <3>4
  <2>5. left => lastSent[q].type = "paused" BY DEF Leaves
  <2> HIDE DEF left, p
  <2>6. posts' \in Seq(Post) /\ Len(posts') <= MaxPosts
    <3>1. Append(posts, p) \in Seq(Post) /\ Len(Append(posts, p)) = Len(posts) + 1 BY <1>1, <2>2, PostedIs
    <3> QED BY <1>1, <2>3, <3>1
  <2>7. TypingTypes' BY <1>2, <2>4, <2>6 DEF TypingInv, TypingTypes
  <2>8. ASSUME NEW r \in Room, ~missed'[r]
        PROVE  Traced(r, posts', FALSE, sees[r], lastSent[r].type)
    <3>1. CASE r # q
      <4>1. Tells(r) = FALSE BY <3>1, Zenon DEF Tells
      <4>2. Traced(r, posts, FALSE, sees[r], lastSent[r].type) BY <2>4, <2>8, <3>1, <4>1 DEF TypingInv
      <4>3. Traced(r, Append(posts, p), FALSE, sees[r], lastSent[r].type)
        BY <1>1, <2>2, <3>1, <4>2, TracedSaying
      <4> QED BY <2>3, <4>2, <4>3
    <3>2. CASE r = q /\ ~left
      <4>1. posts' = Append(posts, p) BY <2>3, <3>2
      <4>2. ~Says(posts, r) BY <2>4, <2>8, <3>2
      <4> QED BY <1>1, <2>1, <2>2, <3>2, <4>1, <4>2, TracedPausing
    <3>3. CASE r = q /\ left
      <4>1. posts' = posts /\ ~missed[q] /\ ~Says(posts, q) /\ lastSent[q].type = "paused"
        BY <2>3, <2>4, <2>5, <2>8, <3>3
      <4>2. Tells(q) = TRUE BY <1>1, <1>5, Zenon DEF Tells
      <4>3. Traced(q, posts, TRUE, sees[q], "paused") BY <2>1, <4>1, <4>2 DEF TypingInv
      <4>4. Traced(q, posts, FALSE, sees[q], "paused") BY <1>1, <2>1, <4>1, <4>3, TracedUnsaid
      <4> QED BY <3>3, <4>1, <4>4
    <3> QED BY <3>1, <3>2, <3>3
  <2>9. ASSUME NEW r \in Room, ~missed'[r]
        PROVE  Traced(r, posts', Tells(r)', sees'[r], lastSent'[r].type)
    BY <1>3, <2>8, <2>9
  <2> QED BY <2>7, <2>9 DEF TypingInv
<1> QED BY <1>4, <1>5

LEMMA ArrivesKeeps == ASSUME TypingInv, NEW k \in DOMAIN posts, Arrives(k) PROVE TypingInv'
<1> DEFINE q == posts[k].room
           w == [posts EXCEPT ![k].arrived = TRUE]
<1>1. /\ posts' = w /\ sees' = [sees EXCEPT ![q] = posts[k].type]
      /\ UNCHANGED <<typingIn, told, startTimer, pauseTimer, keepTimer, lastSent, missed>>
  BY DEF Arrives, timers
<1>2. /\ posts \in Seq(Post) /\ q \in Room /\ posts[k].type \in Presence
      /\ \A r \in Room : Tells(r) \in BOOLEAN /\ sees[r] \in Presence
  BY TypingFacts
<1>3. \A r \in Room : sees'[r] = IF q = r THEN posts[k].type ELSE sees[r]
  BY <1>1, <1>2 DEF TypingInv, TypingTypes
<1>4. sees' \in [Room -> Presence] BY <1>1, <1>2 DEF TypingInv, TypingTypes
<1>5. \A r \in Room : Tells(r)' = Tells(r) BY <1>1 DEF Tells
<1>6. ASSUME NEW r \in Room, ~missed'[r]
      PROVE  Traced(r, posts', Tells(r)', sees'[r], lastSent'[r].type)
  <2> DEFINE new == IF q = r THEN posts[k].type ELSE sees[r]
  <2>1. Traced(r, posts, Tells(r), sees[r], lastSent[r].type) BY <1>1, <1>6 DEF TypingInv
  <2>2. Tells(r) \in BOOLEAN /\ sees[r] \in Presence BY <1>2
  <2>3. Traced(r, w, Tells(r), new, lastSent[r].type) BY <1>2, <2>1, <2>2, TracedArriving
  <2> HIDE DEF w, new
  <2>4. sees'[r] = new BY <1>3 DEF new
  <2> QED BY <1>1, <1>5, <2>3, <2>4
<1>7. w \in Seq(Post) /\ Len(w) = Len(posts)
  <2>1. /\ Len(posts) \in Nat /\ DOMAIN posts = 1..Len(posts) /\ \A n \in DOMAIN posts : posts[n] \in Post
    BY TypingFacts
  <2>2. \A n \in DOMAIN posts : w[n] \in Post /\ DOMAIN w = DOMAIN posts BY <1>2, <2>1 DEF Post
  <2>3. w = [n \in 1..Len(posts) |-> w[n]] BY <2>1
  <2> HIDE DEF w
  <2> QED BY <2>1, <2>2, <2>3
<1>8. TypingTypes' BY <1>1, <1>4, <1>7 DEF TypingInv, TypingTypes
<1>9. TypingIsPaused' BY <1>1 DEF TypingInv, TypingIsPaused
<1> QED BY <1>6, <1>8, <1>9 DEF TypingInv

\* A request is answered, or gets no answer.
LEMMA AnswersKeep ==
  ASSUME TypingInv, NEW k \in DOMAIN posts, NotAnswered(k) \/ \E fresh \in BOOLEAN : Answered(k, fresh)
  PROVE  TypingInv'
<1> DEFINE q == posts[k].room
           w == RemoveAt(posts, k)
           first == posts[k].arrived /\ ~\E j \in 1..(k - 1) : posts[j].room = q
<1>1. /\ posts \in Seq(Post) /\ q \in Room /\ posts[k].type \in Presence /\ Len(posts) \in Nat
      /\ \A r \in Room : Tells(r) \in BOOLEAN
      /\ missed \in [Room -> BOOLEAN] /\ Len(posts) <= MaxPosts /\ MaxPosts \in Nat
      /\ lastSent \in [Room -> [type : Presence \union {"none"}, fresh : BOOLEAN]]
  BY TypingFacts DEF TypingInv, TypingTypes
<1>2. /\ posts' = w /\ UNCHANGED <<typingIn, told, startTimer, pauseTimer, keepTimer, sees>>
      /\ \/ missed' = [missed EXCEPT ![q] = TRUE] /\ lastSent' = lastSent
         \/ \E fresh \in BOOLEAN :
              /\ lastSent' = [lastSent EXCEPT ![q] = [type |-> posts[k].type, fresh |-> fresh]]
              /\ missed' = IF first THEN missed ELSE [missed EXCEPT ![q] = TRUE]
  BY DEF NotAnswered, Answered, timers
<1>3. w \in Seq(Post) /\ Len(w) = Len(posts) - 1 BY <1>1, RemovedIs
<1>4. TRUE \in BOOLEAN BY Zenon
<1>5. /\ missed' \in [Room -> BOOLEAN]
      /\ \A r \in Room : ~missed'[r] => ~missed[r] /\ (r = q => first)
      /\ lastSent' \in [Room -> [type : Presence \union {"none"}, fresh : BOOLEAN]]
      /\ \A r \in Room : r # q => lastSent'[r] = lastSent[r]
      /\ ~missed'[q] => lastSent'[q].type = posts[k].type
  <2> HIDE DEF first, w
  <2>1. CASE missed' = [missed EXCEPT ![q] = TRUE] /\ lastSent' = lastSent BY <1>1, <1>4, <2>1
  <2>2. ASSUME NEW fresh \in BOOLEAN,
               lastSent' = [lastSent EXCEPT ![q] = [type |-> posts[k].type, fresh |-> fresh]],
               missed' = IF first THEN missed ELSE [missed EXCEPT ![q] = TRUE]
        PROVE  /\ missed' \in [Room -> BOOLEAN]
               /\ \A r \in Room : ~missed'[r] => ~missed[r] /\ (r = q => first)
               /\ lastSent' \in [Room -> [type : Presence \union {"none"}, fresh : BOOLEAN]]
               /\ \A r \in Room : r # q => lastSent'[r] = lastSent[r]
               /\ ~missed'[q] => lastSent'[q].type = posts[k].type
    <3>1. /\ lastSent' \in [Room -> [type : Presence \union {"none"}, fresh : BOOLEAN]]
          /\ \A r \in Room : r # q => lastSent'[r] = lastSent[r]
          /\ lastSent'[q].type = posts[k].type
      BY <1>1, <2>2
    <3>2. CASE first BY <2>2, <3>1, <3>2, <1>1
    <3>3. CASE ~first
      <4>1. missed' = [missed EXCEPT ![q] = TRUE] BY <2>2, <3>3
      <4> QED BY <1>1, <1>4, <3>1, <4>1
    <3> QED BY <3>2, <3>3
  <2> QED BY <1>2, <2>1, <2>2
<1>6. Len(w) <= MaxPosts
  <2> HIDE DEF w
  <2> QED BY <1>1, <1>3
<1>7. TypingTypes' BY <1>2, <1>3, <1>5, <1>6 DEF TypingInv, TypingTypes
<1>8. TypingIsPaused' BY <1>2 DEF TypingInv, TypingIsPaused
<1>9. ASSUME NEW r \in Room, ~missed'[r]
      PROVE  Traced(r, posts', Tells(r)', sees'[r], lastSent'[r].type)
  <2>1. Traced(r, posts, Tells(r), sees[r], lastSent[r].type) BY <1>5, <1>9 DEF TypingInv
  <2>2. Tells(r)' = Tells(r) /\ Tells(r) \in BOOLEAN BY <1>1, <1>2 DEF Tells
  <2> DEFINE last == IF q = r THEN posts[k].type ELSE lastSent[r].type
  <2>3. q = r => posts[k].arrived /\ \A j \in 1..(k - 1) : posts[j].room # r BY <1>5, <1>9
  <2>4. Traced(r, w, Tells(r), sees[r], last) BY <1>1, <2>1, <2>2, <2>3, TracedAnswering
  <2>5. lastSent'[r].type = last BY <1>5, <1>9
  <2> HIDE DEF w, last
  <2> QED BY <1>2, <2>2, <2>4, <2>5
<1> QED BY <1>7, <1>8, <1>9 DEF TypingInv

LEMMA TypingStart == ASSUME TypingInit PROVE TypingInv
<1>1. /\ typingIn = NoRoom /\ told = FALSE /\ startTimer = NoRoom /\ pauseTimer = FALSE /\ keepTimer = FALSE
      /\ posts = <<>>
      /\ \A r \in Room : sees[r] = "paused" /\ missed[r] = FALSE
      /\ sees \in [Room -> Presence] /\ missed \in [Room -> BOOLEAN]
      /\ lastSent \in [Room -> [type : Presence \union {"none"}, fresh : BOOLEAN]]
  <2>1. FALSE \in BOOLEAN BY Zenon
  <2> QED BY <2>1 DEF TypingInit, Presence
<1>2. told \in BOOLEAN /\ pauseTimer \in BOOLEAN /\ keepTimer \in BOOLEAN BY <1>1, Zenon
<1>3. <<>> \in Seq(Post) /\ Len(<<>>) <= MaxPosts /\ DOMAIN <<>> = {} BY TypingAssumption
<1>4. TypingTypes BY <1>1, <1>2, <1>3 DEF TypingTypes
<1>5. TypingIsPaused BY <1>1 DEF TypingIsPaused
<1>6. ASSUME NEW r \in Room PROVE Traced(r, posts, Tells(r), sees[r], lastSent[r].type)
  BY <1>1, <1>3 DEF Traced, Says, Under
<1> QED BY <1>4, <1>5, <1>6 DEF TypingInv

LEMMA TypingStep == ASSUME TypingInv, [TypingNext]_typingVars PROVE TypingInv'
<1> USE DEF timers
<1>1. /\ TypingTypes /\ TypingIsPaused /\ NoRoom \notin Room
      /\ typingIn \in Room \union {NoRoom} /\ startTimer \in Room \union {NoRoom}
      /\ told \in BOOLEAN /\ pauseTimer \in BOOLEAN /\ keepTimer \in BOOLEAN
      /\ lastSent \in [Room -> [type : Presence \union {"none"}, fresh : BOOLEAN]]
  BY TypingAssumption DEF TypingInv, TypingTypes
<1>2. TRUE \in BOOLEAN /\ FALSE \in BOOLEAN BY Zenon
<1>3. CASE UNCHANGED typingVars
  <2>1. TypingTypes' /\ TypingIsPaused' BY <1>1, <1>3 DEF typingVars, TypingTypes, TypingIsPaused
  <2>2. \A r \in Room : Tells(r)' = Tells(r) BY <1>3 DEF typingVars, Tells
  <2> QED BY <1>3, <2>1, <2>2, TypingStays DEF typingVars
<1>4. CASE EndTyping
  <2>1. /\ typingIn # NoRoom /\ Pausing
        /\ typingIn' = NoRoom /\ told' = FALSE /\ startTimer' = NoRoom /\ pauseTimer' = FALSE /\ keepTimer' = FALSE
        /\ UNCHANGED <<lastSent, sees>>
    BY <1>4 DEF EndTyping
  <2>2. TypingIsPaused' BY <2>1 DEF TypingIsPaused
  <2>3. pauseTimer' \in BOOLEAN /\ keepTimer' \in BOOLEAN BY <2>1, Zenon
  <2> QED BY <2>1, <2>2, <2>3, PausingKeeps
<1>5. CASE StartFires
  <2>1. /\ startTimer # NoRoom /\ startTimer' = NoRoom
        /\ UNCHANGED <<typingIn, pauseTimer, lastSent, sees, missed>>
    BY <1>5 DEF StartFires
  <2>2. typingIn = startTimer /\ typingIn \in Room /\ pauseTimer BY <1>1, <2>1 DEF TypingIsPaused
  <2>3. Sending("composing", typingIn) /\ told' = TRUE /\ keepTimer' = TRUE BY <1>5, <2>2 DEF StartFires
  <2>4. TypingIsPaused' BY <1>1, <2>1, <2>2, <2>3 DEF TypingIsPaused
  <2>5. pauseTimer' \in BOOLEAN /\ keepTimer' \in BOOLEAN BY <1>1, <2>1, <2>3, Zenon
  <2> QED BY <2>1, <2>2, <2>3, <2>4, <2>5, SayingKeeps
<1>6. CASE KeepAlive
  <2>1. /\ keepTimer /\ typingIn # NoRoom /\ Sending("composing", typingIn)
        /\ UNCHANGED <<typingIn, told, startTimer, pauseTimer, keepTimer, lastSent, sees, missed>>
    BY <1>6 DEF KeepAlive
  <2>2. typingIn \in Room BY <1>1, <2>1
  <2>3. told' = TRUE BY <1>1, <2>1, Zenon DEF TypingIsPaused
  <2>4. TypingIsPaused' BY <1>1, <2>1 DEF TypingIsPaused
  <2> QED BY <1>1, <2>1, <2>2, <2>3, <2>4, SayingKeeps
<1>7. CASE ForgetSent
  <2>1. /\ lastSent' = [r \in Room |-> [type |-> "none", fresh |-> FALSE]]
        /\ UNCHANGED <<typingIn, told, startTimer, pauseTimer, keepTimer, posts, sees, missed>>
    BY <1>7 DEF ForgetSent
  <2>2. /\ lastSent' \in [Room -> [type : Presence \union {"none"}, fresh : BOOLEAN]]
        /\ \A r \in Room : lastSent'[r].type = "none"
    BY <1>2, <2>1
  <2>3. TypingTypes' BY <1>1, <2>1, <2>2 DEF TypingTypes
  <2>4. TypingIsPaused' BY <1>1, <2>1 DEF TypingIsPaused
  <2>5. \A r \in Room : Tells(r)' = Tells(r) BY <2>1 DEF Tells
  <2> QED BY <2>1, <2>2, <2>3, <2>4, <2>5, TypingStays
<1>8. ASSUME NEW r \in Room, CooldownEnds(r) PROVE TypingInv'
  <2>1. /\ lastSent' = [lastSent EXCEPT ![r].fresh = FALSE]
        /\ UNCHANGED <<typingIn, told, startTimer, pauseTimer, keepTimer, posts, sees, missed>>
    BY <1>8 DEF CooldownEnds
  <2>2. /\ lastSent' \in [Room -> [type : Presence \union {"none"}, fresh : BOOLEAN]]
        /\ \A n \in Room : lastSent'[n].type = lastSent[n].type
    BY <1>1, <1>2, <2>1
  <2>3. TypingTypes' BY <1>1, <2>1, <2>2 DEF TypingTypes
  <2>4. TypingIsPaused' BY <1>1, <2>1 DEF TypingIsPaused
  <2>5. \A n \in Room : Tells(n)' = Tells(n) BY <2>1 DEF Tells
  <2> QED BY <2>1, <2>2, <2>3, <2>4, <2>5, TypingStays
<1>9. ASSUME NEW r \in Room, KeyPressed(r) PROVE TypingInv'
  <2>1. pauseTimer' = TRUE /\ UNCHANGED <<lastSent, sees>> BY <1>9 DEF KeyPressed
  <2>2. pauseTimer' \in BOOLEAN BY <2>1, Zenon
  <2>3. CASE typingIn = r
    <3>1. keepTimer' = (keepTimer \/ told) /\ UNCHANGED <<typingIn, told, startTimer, posts, missed>>
      BY <1>9, <2>3 DEF KeyPressed
    <3>2. keepTimer' \in BOOLEAN BY <3>1, Zenon
    <3>3. TypingTypes' BY <1>1, <2>1, <2>2, <3>1, <3>2 DEF TypingTypes
    <3>4. TypingIsPaused' BY <1>1, <2>1, <2>3, <3>1, Zenon DEF TypingIsPaused
    <3>5. \A n \in Room : Tells(n)' = Tells(n) BY <3>1 DEF Tells
    <3> QED BY <2>1, <3>1, <3>3, <3>4, <3>5, TypingStays
  <2>4. CASE typingIn # r
    <3>1. Pausing /\ typingIn' = r /\ told' = FALSE /\ startTimer' = r /\ keepTimer' = FALSE
      BY <1>9, <2>4 DEF KeyPressed, OtherRoom
    <3>2. TypingIsPaused' BY <1>1, <2>1, <3>1 DEF TypingIsPaused
    <3>3. keepTimer' \in BOOLEAN BY <3>1, Zenon
    <3> QED BY <2>1, <2>2, <2>4, <3>1, <3>2, <3>3, PausingKeeps
  <2> QED BY <2>3, <2>4
<1> QED BY <1>3, <1>4, <1>5, <1>6, <1>7, <1>8, <1>9, ArrivesKeeps, AnswersKeep DEF TypingNext

\* For any number of rooms and of requests under way: where nobody types, and no request is
\* under way, the peer does not see "typing", unless the pause of that room was lost or
\* overtaken, or sent or left out while a "composing" had no answer yet (then it is left with
\* it); and the pause timer runs as long as a room counts as typed in.
THEOREM TypingHasAnEnd == TypingSpec => [](TypingTypeOK /\ TypingEnds)
<1>1. TypingInit => TypingInv BY TypingStart
<1>2. TypingInv /\ [TypingNext]_typingVars => TypingInv' BY TypingStep
<1>3. TypingInv => TypingTypeOK /\ TypingEnds
  <2> SUFFICES ASSUME TypingInv PROVE TypingTypeOK /\ PeerSeesTheEnd /\ TypingIsPaused BY DEF TypingEnds
  <2>1. {told, pauseTimer, keepTimer} \subseteq BOOLEAN
    <3>1. told \in BOOLEAN /\ pauseTimer \in BOOLEAN /\ keepTimer \in BOOLEAN
      BY DEF TypingInv, TypingTypes
    <3> QED BY <3>1, Zenon
  <2>2. Range(posts) \subseteq Post BY TypingFacts DEF Range
  <2>3. TypingTypeOK BY <2>1, <2>2 DEF TypingInv, TypingTypes, TypingTypeOK, Post
  <2>4. ASSUME NEW r \in Room, typingIn # r, sees[r] = "composing", ~missed[r]
        PROVE  \E p \in Range(posts) : p.room = r
    <3>1. Tells(r) = FALSE BY <2>4, Zenon DEF Tells
    <3>2. Under(posts, r) BY <2>4, <3>1 DEF TypingInv, Traced
    <3> QED BY <3>2 DEF Under, Range
  <2> QED BY <2>3, <2>4 DEF TypingInv, PeerSeesTheEnd
<1> QED BY <1>1, <1>2, <1>3, PTL DEF TypingSpec

-----------------------------------------------------------------------------
(* The forms that write a session's webhook URL.                           *)

Fine(f, us) == f.typed \/ f.again \/ f.url = us[f.of]
Busy == {"list", "draw", "fresh", "write"}

\* As long as nothing crossed: a list that is about to be drawn is that of the server, a form
\* that was not typed in nor drawn again has the URL of the server, and a save is alone.
Straight(fs, rs, ls, us) ==
  /\ \A f \in fs : Fine(f, us)
  /\ \A q \in WebRequest : rs[q].kind = "draw" => ls = us
  /\ \A q \in WebRequest : rs[q].kind = "write" =>
       /\ Fine(rs[q].form, us)
       /\ \A g \in fs : g.typed \/ g.again \/ g = rs[q].form
       /\ \A p \in WebRequest \ {q} : rs[p].kind \notin Busy

OnePerPlace(fs) == \A f, g \in fs : f.in = g.in => f = g

WebTypes ==
  /\ page \in BOOLEAN /\ crossed \in BOOLEAN /\ reverted \in BOOLEAN /\ typings \in Url
  /\ listed \in [WebSession -> Url] /\ urls \in [WebSession -> Url] /\ picked \in WebSession
  /\ fields \subseteq Form /\ OnePerPlace(fields)
  /\ requests \in [WebRequest -> WebCall]

WebInv == WebTypes /\ (~crossed => ~reverted /\ Straight(fields, requests, listed, urls))

\* One form in the page and one in the modal are two at most.
LEMMA FewFields ==
  ASSUME NEW fs \in SUBSET Form, OnePerPlace(fs)
  PROVE  /\ IsFiniteSet(fs) /\ Cardinality(fs) \in Nat /\ Cardinality(fs) <= 2
         /\ ~(Cardinality(fs) > 1) => \A f, g \in fs : f = g
<1> DEFINE a == CHOOSE f \in fs : f.in = "page"
           b == CHOOSE f \in fs : f.in = "modal"
<1>1. fs \subseteq {a, b}
  <2> SUFFICES ASSUME NEW f \in fs PROVE f = a \/ f = b OBVIOUS
  <2>1. CASE f.in = "page"
    <3>1. a \in fs /\ a.in = "page" BY <2>1
    <3> HIDE DEF a
    <3> QED BY <2>1, <3>1 DEF OnePerPlace
  <2>2. CASE f.in = "modal"
    <3>1. b \in fs /\ b.in = "modal" BY <2>2
    <3> HIDE DEF b
    <3> QED BY <2>2, <3>1 DEF OnePerPlace
  <2> QED BY <2>1, <2>2 DEF Form
<1> HIDE DEF a, b
<1>2. ASSUME NEW x, NEW y
      PROVE  /\ IsFiniteSet({x, y}) /\ Cardinality({x, y}) \in Nat /\ Cardinality({x, y}) <= 2
             /\ x # y => Cardinality({x, y}) = 2
  <2>1. IsFiniteSet({x}) /\ Cardinality({x}) = 1 BY FS_Singleton
  <2>2. IsFiniteSet({x} \union {y}) /\ (y \notin {x} => Cardinality({x} \union {y}) = Cardinality({x}) + 1)
    BY <2>1, FS_AddElement
  <2>3. {x} \union {y} = {x, y} OBVIOUS
  <2>4. CASE x = y
    <3>1. {x, y} = {x} BY <2>4
    <3> QED BY <2>1, <2>4, <3>1
  <2>5. CASE x # y BY <2>1, <2>2, <2>3, <2>5
  <2> QED BY <2>4, <2>5
<1>3. IsFiniteSet(fs) /\ Cardinality(fs) <= Cardinality({a, b}) BY <1>1, <1>2, FS_Subset
<1>4. Cardinality(fs) \in Nat BY <1>3, FS_CardinalityType
<1>5. Cardinality({a, b}) \in Nat /\ Cardinality({a, b}) <= 2 BY <1>2
<1>6. ASSUME NEW f \in fs, NEW g \in fs, f # g PROVE Cardinality(fs) > 1
  <2>1. {f, g} \subseteq fs /\ Cardinality({f, g}) = 2 BY <1>2, <1>6
  <2>2. Cardinality({f, g}) <= Cardinality(fs) BY <1>3, <2>1, FS_Subset
  <2> QED BY <1>4, <2>1, <2>2
<1> QED BY <1>3, <1>4, <1>5, <1>6

LEMMA WebFacts ==
  ASSUME WebInv
  PROVE  /\ Typings \in Nat
         /\ \A f \in fields : /\ f \in Form /\ f.in \in {"page", "modal"} /\ f.of \in WebSession
                              /\ f.url \in Url
         /\ \A q \in WebRequest :
              /\ requests[q] \in WebCall
              /\ requests[q].kind = "write" => requests[q] = Writes(requests[q].form) /\ requests[q].form \in Form
              /\ requests[q].kind = "fresh" => requests[q].of \in WebSession
<1>1. \A q \in WebRequest : requests[q] \in WebCall BY DEF WebInv, WebTypes
<1>2. ASSUME NEW c \in WebCall
      PROVE  /\ c.kind = "write" => c = Writes(c.form) /\ c.form \in Form
             /\ c.kind = "fresh" => c.of \in WebSession
  <2>1. CASE c \in {Idle, Listing, Drawing} BY <2>1 DEF Idle, Listing, Drawing
  <2>2. CASE c \in [kind : {"fresh", "rotate"}, of : WebSession] BY <2>2
  <2>3. CASE c \in [kind : {"write"}, form : Form]
    <3> HIDE DEF Form
    <3> QED BY <2>3 DEF Writes
  <2> QED BY <2>1, <2>2, <2>3 DEF WebCall
<1> QED BY <1>1, <1>2, WebPageAssumption DEF WebInv, WebTypes, Form

\* What is asked for or over: the request of one slot changes.
LEMMA SlotIs ==
  ASSUME WebInv, NEW q \in WebRequest, NEW c \in WebCall, requests' = [requests EXCEPT ![q] = c]
  PROVE  /\ requests' \in [WebRequest -> WebCall] /\ requests'[q] = c
         /\ \A p \in WebRequest : p # q => requests'[p] = requests[p]
BY DEF WebInv, WebTypes

LEMMA CallsAre ==
  /\ Idle \in WebCall /\ Listing \in WebCall /\ Drawing \in WebCall
  /\ \A s \in WebSession : Asks("fresh", s) \in WebCall /\ Asks("rotate", s) \in WebCall
  /\ \A f \in Form : Writes(f) \in WebCall /\ Writes(f).kind = "write" /\ Writes(f).form = f
  /\ Idle.kind = "none" /\ Listing.kind = "list" /\ Drawing.kind = "draw"
  /\ \A s : Asks("fresh", s).kind = "fresh" /\ Asks("rotate", s).kind = "rotate"
BY DEF WebCall, Idle, Listing, Drawing, Asks, Writes

\* A form takes the place of the one where it is.
LEMMA FormIn ==
  ASSUME WebInv, NEW g \in Form
  PROVE  /\ Without(g.in) \union {g} \subseteq Form /\ OnePerPlace(Without(g.in) \union {g})
         /\ \A f \in Without(g.in) \union {g} : f \in fields \/ f = g
         /\ \A in : Without(in) \subseteq fields /\ OnePerPlace(Without(in))
<1>1. fields \subseteq Form /\ OnePerPlace(fields) BY DEF WebInv, WebTypes
<1> QED BY <1>1 DEF Without, Of, OnePerPlace

LEMMA DrawnIs ==
  ASSUME WebInv, NEW s \in WebSession, NEW again \in BOOLEAN
  PROVE  /\ Drawn(s, again) \in Form /\ Drawn(s, again).in = "page" /\ Drawn(s, again).of = s
         /\ Drawn(s, again).url = listed[s] /\ Drawn(s, again).again = again
<1>1. listed[s] \in Url /\ FALSE \in BOOLEAN
  <2>1. FALSE \in BOOLEAN BY Zenon
  <2> QED BY <2>1 DEF WebInv, WebTypes
<1> QED BY <1>1 DEF Drawn, Form

\* Forms that go, and forms that were typed in or drawn again, leave things straight, as does a
\* request that is over, or that neither reads nor writes a URL.
LEMMA StaysStraight ==
  ASSUME NEW fs, NEW rs, NEW ls, NEW us, Straight(fs, rs, ls, us), NEW gs, NEW ss,
         \A g \in gs : g \in fs \/ g.typed \/ g.again,
         \A p \in WebRequest : ss[p] = rs[p] \/ ss[p].kind \notin Busy
  PROVE  Straight(gs, ss, ls, us)
<1>1. \A g \in gs : Fine(g, us) BY DEF Straight, Fine
<1>2. \A q \in WebRequest : ss[q].kind = "draw" => ls = us BY DEF Straight, Busy
<1>3. ASSUME NEW q \in WebRequest, ss[q].kind = "write"
      PROVE  /\ Fine(ss[q].form, us)
             /\ \A g \in gs : g.typed \/ g.again \/ g = ss[q].form
             /\ \A p \in WebRequest \ {q} : ss[p].kind \notin Busy
  <2>1. ss[q] = rs[q] BY <1>3 DEF Busy
  <2> QED BY <1>3, <2>1 DEF Straight
<1> QED BY <1>1, <1>2, <1>3 DEF Straight

\* Where nothing is being saved it is enough that the forms and the list are right.
LEMMA StraightUnsaved ==
  ASSUME NEW fs, NEW rs, NEW ls, NEW us, \A f \in fs : Fine(f, us),
         \A q \in WebRequest : rs[q].kind # "write" /\ (rs[q].kind = "draw" => ls = us)
  PROVE  Straight(fs, rs, ls, us)
BY DEF Straight

LEMMA CrossingIs ==
  ASSUME WebInv, NEW b \in BOOLEAN, Crossing(b)
  PROVE  crossed' \in BOOLEAN /\ (~crossed' => ~crossed /\ ~b)
<1>1. crossed \in BOOLEAN BY DEF WebInv, WebTypes
<1>2. crossed' = (crossed \/ b) BY DEF Crossing
<1> QED BY <1>1, <1>2, Zenon

LEMMA OpenWebhooksKeeps == ASSUME WebInv, NEW q \in WebRequest, OpenWebhooks(q) PROVE WebInv'
<1>1. /\ page' = TRUE /\ requests[q] = Idle /\ requests' = [requests EXCEPT ![q] = Listing]
      /\ Crossing(Pending({"write"}) # {})
      /\ UNCHANGED <<listed, picked, fields, urls, typings, reverted>>
  BY DEF OpenWebhooks, Asking
<1>2. crossed' \in BOOLEAN /\ (~crossed' => ~crossed /\ ~(Pending({"write"}) # {})) BY <1>1, CrossingIs
<1>3. /\ requests' \in [WebRequest -> WebCall] /\ requests'[q] = Listing
      /\ \A p \in WebRequest : p # q => requests'[p] = requests[p]
  BY <1>1, CallsAre, SlotIs
<1>4. page' \in BOOLEAN BY <1>1, Zenon
<1>5. WebTypes' BY <1>1, <1>2, <1>3, <1>4 DEF WebInv, WebTypes
<1>6. ASSUME ~crossed' PROVE ~reverted' /\ Straight(fields', requests', listed', urls')
  <2>1. ~crossed /\ ~reverted /\ Straight(fields, requests, listed, urls) BY <1>2, <1>6 DEF WebInv
  <2>2. \A p \in WebRequest : requests[p].kind # "write" BY <1>2, <1>6 DEF Pending
  <2>3. \A p \in WebRequest :
          requests'[p].kind # "write" /\ (requests'[p].kind = "draw" => listed = urls)
    BY <1>3, <2>1, <2>2, CallsAre DEF Straight
  <2>4. \A f \in fields : Fine(f, urls) BY <2>1 DEF Straight
  <2> QED BY <1>1, <2>1, <2>3, <2>4, StraightUnsaved
<1> QED BY <1>5, <1>6 DEF WebInv

LEMMA ShowSettingsKeeps ==
  ASSUME WebInv, NEW q \in WebRequest, NEW s \in WebSession, ShowSettings(q, s) PROVE WebInv'
<1>1. /\ requests[q] = Idle /\ requests' = [requests EXCEPT ![q] = Asks("fresh", s)]
      /\ Crossing(Pending({"write"}) # {})
      /\ UNCHANGED <<page, listed, picked, fields, urls, typings, reverted>>
  BY DEF ShowSettings, Asking
<1>2. crossed' \in BOOLEAN /\ (~crossed' => ~crossed /\ ~(Pending({"write"}) # {})) BY <1>1, CrossingIs
<1>3. /\ requests' \in [WebRequest -> WebCall] /\ requests'[q] = Asks("fresh", s)
      /\ \A p \in WebRequest : p # q => requests'[p] = requests[p]
  BY <1>1, CallsAre, SlotIs
<1>4. WebTypes' BY <1>1, <1>2, <1>3 DEF WebInv, WebTypes
<1>5. ASSUME ~crossed' PROVE ~reverted' /\ Straight(fields', requests', listed', urls')
  <2>1. ~crossed /\ ~reverted /\ Straight(fields, requests, listed, urls) BY <1>2, <1>5 DEF WebInv
  <2>2. \A p \in WebRequest : requests[p].kind # "write" BY <1>2, <1>5 DEF Pending
  <2>3. \A p \in WebRequest :
          requests'[p].kind # "write" /\ (requests'[p].kind = "draw" => listed = urls)
    BY <1>3, <2>1, <2>2, CallsAre DEF Straight
  <2>4. \A f \in fields : Fine(f, urls) BY <2>1 DEF Straight
  <2> QED BY <1>1, <2>1, <2>3, <2>4, StraightUnsaved
<1> QED BY <1>4, <1>5 DEF WebInv

\* A list that came without a save under way is that of the server.
LEMMA WebSessionsCameKeeps ==
  ASSUME WebInv, NEW q \in WebRequest, NEW s \in WebSession, WebSessionsCame(q, s) PROVE WebInv'
<1>1. /\ requests[q] = Listing /\ listed' = urls /\ picked' = s
      /\ requests' = [requests EXCEPT ![q] = Drawing]
      /\ UNCHANGED <<page, fields, urls, typings, crossed, reverted>>
  BY DEF WebSessionsCame, Answer
<1>2. /\ requests' \in [WebRequest -> WebCall] /\ requests'[q] = Drawing
      /\ \A p \in WebRequest : p # q => requests'[p] = requests[p]
  BY <1>1, CallsAre, SlotIs
<1>3. WebTypes' BY <1>1, <1>2 DEF WebInv, WebTypes
<1>4. ASSUME ~crossed' PROVE ~reverted' /\ Straight(fields', requests', listed', urls')
  <2>1. ~crossed /\ ~reverted /\ Straight(fields, requests, listed, urls) BY <1>1, <1>4 DEF WebInv
  <2>2. requests[q].kind = "list" BY <1>1, CallsAre
  <2>3. \A p \in WebRequest : requests[p].kind # "write" BY <2>1, <2>2 DEF Straight, Busy
  <2>4. \A p \in WebRequest :
          requests'[p].kind # "write" /\ (requests'[p].kind = "draw" => listed' = urls)
    BY <1>1, <1>2, <2>3, CallsAre
  <2>5. \A f \in fields : Fine(f, urls) BY <2>1 DEF Straight
  <2> QED BY <1>1, <2>1, <2>4, <2>5, StraightUnsaved
<1> QED BY <1>3, <1>4 DEF WebInv

LEMMA WebPageDrawnKeeps == ASSUME WebInv, NEW q \in WebRequest, WebPageDrawn(q) PROVE WebInv'
<1> DEFINE g == Drawn(picked, FALSE)
<1>1. /\ requests[q] = Drawing /\ requests' = [requests EXCEPT ![q] = Idle]
      /\ fields' = Without("page") \union {g}
      /\ Crossing(Of("page") # {})
      /\ UNCHANGED <<page, listed, picked, urls, typings, reverted>>
  BY DEF WebPageDrawn
<1>2. /\ requests' \in [WebRequest -> WebCall] /\ requests'[q] = Idle
      /\ \A p \in WebRequest : p # q => requests'[p] = requests[p]
  BY <1>1, CallsAre, SlotIs
<1>3. crossed' \in BOOLEAN /\ (~crossed' => ~crossed) BY <1>1, CrossingIs
<1>4. g \in Form /\ g.in = "page" /\ g.url = listed[picked] /\ g.of = picked
  <2>1. FALSE \in BOOLEAN /\ picked \in WebSession BY DEF WebInv, WebTypes
  <2> QED BY <2>1, DrawnIs
<1> HIDE DEF g
<1>5. /\ fields' \subseteq Form /\ OnePerPlace(fields') /\ \A f \in fields' : f \in fields \/ f = g
  BY <1>1, <1>4, FormIn
<1>6. WebTypes' BY <1>1, <1>2, <1>3, <1>5 DEF WebInv, WebTypes
<1>7. ASSUME ~crossed' PROVE ~reverted' /\ Straight(fields', requests', listed', urls')
  <2>1. ~crossed /\ ~reverted /\ Straight(fields, requests, listed, urls) BY <1>3, <1>7 DEF WebInv
  <2>2. requests[q].kind = "draw" BY <1>1, CallsAre
  <2>3. listed = urls /\ \A p \in WebRequest : requests[p].kind # "write"
    BY <2>1, <2>2 DEF Straight, Busy
  <2>4. \A p \in WebRequest :
          requests'[p].kind # "write" /\ (requests'[p].kind = "draw" => listed = urls)
    BY <1>2, <2>3, CallsAre
  <2>5. \A f \in fields' : Fine(f, urls) BY <1>4, <1>5, <2>1, <2>3 DEF Straight, Fine
  <2> QED BY <1>1, <2>1, <2>4, <2>5, StraightUnsaved
<1> QED BY <1>6, <1>7 DEF WebInv

LEMMA SettingsCameKeeps ==
  ASSUME WebInv, NEW q \in WebRequest, NEW ok \in BOOLEAN, SettingsCame(q, ok) PROVE WebInv'
<1> DEFINE s == requests[q].of
           g == [in |-> "modal", of |-> s, url |-> urls[s], typed |-> FALSE, again |-> FALSE]
<1>1. /\ requests[q].kind = "fresh" /\ requests' = [requests EXCEPT ![q] = Idle]
      /\ fields' = IF ok THEN Without("modal") \union {g} ELSE fields
      /\ UNCHANGED <<page, listed, picked, urls, typings, crossed, reverted>>
  BY DEF SettingsCame
<1>2. /\ requests' \in [WebRequest -> WebCall] /\ requests'[q] = Idle
      /\ \A p \in WebRequest : p # q => requests'[p] = requests[p]
  BY <1>1, CallsAre, SlotIs
<1>3. s \in WebSession BY <1>1, WebFacts
<1>4. g \in Form /\ g.in = "modal" /\ g.url = urls[g.of]
  <2>1. FALSE \in BOOLEAN BY Zenon
  <2>2. urls[s] \in Url BY <1>3 DEF WebInv, WebTypes
  <2> HIDE DEF s
  <2> QED BY <1>3, <2>1, <2>2 DEF Form
<1> HIDE DEF g, s
<1>5. /\ fields' \subseteq Form /\ OnePerPlace(fields') /\ \A f \in fields' : f \in fields \/ f = g
  <2>1. CASE ok BY <1>1, <1>4, <2>1, FormIn
  <2>2. CASE ~ok BY <1>1, <2>2 DEF WebInv, WebTypes
  <2> QED BY <2>1, <2>2
<1>6. WebTypes' BY <1>1, <1>2, <1>5 DEF WebInv, WebTypes
<1>7. ASSUME ~crossed' PROVE ~reverted' /\ Straight(fields', requests', listed', urls')
  <2>1. ~crossed /\ ~reverted /\ Straight(fields, requests, listed, urls) BY <1>1, <1>7 DEF WebInv
  <2>2. \A p \in WebRequest : requests[p].kind # "write" BY <1>1, <2>1 DEF Straight, Busy
  <2>3. \A p \in WebRequest :
          requests'[p].kind # "write" /\ (requests'[p].kind = "draw" => listed = urls)
    BY <1>2, <2>1, <2>2, CallsAre DEF Straight
  <2>4. \A f \in fields' : Fine(f, urls) BY <1>4, <1>5, <2>1 DEF Straight, Fine
  <2> QED BY <1>1, <2>1, <2>3, <2>4, StraightUnsaved
<1> QED BY <1>6, <1>7 DEF WebInv

\* Forms come only as drawn again or typed in, and no request that reads or writes a URL is
\* new: what was straight still is.
LEMMA QuietWebKeeps ==
  ASSUME WebInv, WebTypes', UNCHANGED <<listed, urls, crossed, reverted>>,
         \A g \in fields' : g \in fields \/ g.typed \/ g.again,
         \A p \in WebRequest : requests'[p] = requests[p] \/ requests'[p].kind \notin Busy
  PROVE  WebInv'
<1>1. ASSUME ~crossed' PROVE ~reverted' /\ Straight(fields', requests', listed', urls')
  <2>1. ~reverted /\ Straight(fields, requests, listed, urls) BY <1>1 DEF WebInv
  <2>2. Straight(fields', requests', listed, urls) BY <2>1, StaysStraight
  <2> QED BY <2>1, <2>2
<1> QED BY <1>1 DEF WebInv

LEMMA LeaveWebhooksKeeps == ASSUME WebInv, LeaveWebhooks PROVE WebInv'
<1>1. /\ page' = FALSE /\ fields' = Without("page")
      /\ UNCHANGED <<listed, picked, requests, urls, typings, crossed, reverted>>
  BY DEF LeaveWebhooks
<1>2. page' \in BOOLEAN BY <1>1, Zenon
<1>3. fields' \subseteq fields /\ OnePerPlace(fields') BY <1>1 DEF Without, WebInv, WebTypes, OnePerPlace
<1>4. WebTypes' BY <1>1, <1>2, <1>3 DEF WebInv, WebTypes
<1> QED BY <1>1, <1>3, <1>4, QuietWebKeeps

LEMMA CloseModalKeeps == ASSUME WebInv, CloseModal PROVE WebInv'
<1>1. /\ fields' = Without("modal")
      /\ UNCHANGED <<page, listed, picked, requests, urls, typings, crossed, reverted>>
  BY DEF CloseModal
<1>2. fields' \subseteq fields /\ OnePerPlace(fields') BY <1>1 DEF Without, WebInv, WebTypes, OnePerPlace
<1>3. WebTypes' BY <1>1, <1>2 DEF WebInv, WebTypes
<1> QED BY <1>1, <1>2, <1>3, QuietWebKeeps

\* A form that is drawn again from the list.
LEMMA DrawnAgain ==
  ASSUME WebInv, NEW s \in WebSession
  PROVE  LET gs == Without("page") \union {Drawn(s, TRUE)} IN
         /\ gs \subseteq Form /\ OnePerPlace(gs) /\ \A g \in gs : g \in fields \/ g.typed \/ g.again
<1> DEFINE g == Drawn(s, TRUE)
<1>1. TRUE \in BOOLEAN BY Zenon
<1>2. g \in Form /\ g.in = "page" /\ g.again = TRUE BY <1>1, DrawnIs
<1> HIDE DEF g
<1>3. /\ Without("page") \union {g} \subseteq Form /\ OnePerPlace(Without("page") \union {g})
      /\ \A f \in Without("page") \union {g} : f \in fields \/ f = g
  BY <1>2, FormIn
<1>4. \A f \in Without("page") \union {g} : f \in fields \/ f.typed \/ f.again BY <1>2, <1>3
<1> QED BY <1>3, <1>4 DEF g

LEMMA PickSessionKeeps == ASSUME WebInv, NEW s \in WebSession, PickSession(s) PROVE WebInv'
<1>1. /\ picked' = s /\ fields' = Without("page") \union {Drawn(s, TRUE)}
      /\ UNCHANGED <<page, listed, requests, urls, typings, crossed, reverted>>
  BY DEF PickSession
<1>2. /\ fields' \subseteq Form /\ OnePerPlace(fields')
      /\ \A g \in fields' : g \in fields \/ g.typed \/ g.again
  BY <1>1, DrawnAgain
<1>3. WebTypes' BY <1>1, <1>2 DEF WebInv, WebTypes
<1> QED BY <1>1, <1>2, <1>3, QuietWebKeeps

LEMMA RotateSecretKeeps == ASSUME WebInv, NEW q \in WebRequest, RotateSecret(q) PROVE WebInv'
<1>1. PICK f \in Of("page") : Asking(q, Asks("rotate", f.of)) BY DEF RotateSecret
<1>2. f \in fields /\ f.of \in WebSession BY WebFacts DEF Of
<1>3. /\ requests' = [requests EXCEPT ![q] = Asks("rotate", f.of)]
      /\ UNCHANGED <<page, listed, picked, fields, urls, typings, crossed, reverted>>
  BY <1>1 DEF RotateSecret, Asking
<1>4. /\ requests' \in [WebRequest -> WebCall] /\ requests'[q] = Asks("rotate", f.of)
      /\ \A p \in WebRequest : p # q => requests'[p] = requests[p]
  BY <1>2, <1>3, CallsAre, SlotIs
<1>5. WebTypes' BY <1>3, <1>4 DEF WebInv, WebTypes
<1>6. requests'[q].kind = "rotate" BY <1>4, CallsAre
<1>7. \A p \in WebRequest : requests'[p] = requests[p] \/ requests'[p].kind \notin Busy
  BY <1>4, <1>6 DEF Busy
<1> QED BY <1>3, <1>5, <1>7, QuietWebKeeps

LEMMA WasRotatedKeeps ==
  ASSUME WebInv, NEW q \in WebRequest, NEW ok \in BOOLEAN, WasRotated(q, ok) PROVE WebInv'
<1> DEFINE again == ok /\ Of("page") # {}
<1>1. /\ requests' = [requests EXCEPT ![q] = Idle]
      /\ fields' = IF again THEN Without("page") \union {Drawn(picked, TRUE)} ELSE fields
      /\ UNCHANGED <<page, listed, picked, urls, typings, crossed, reverted>>
  BY DEF WasRotated
<1>2. /\ requests' \in [WebRequest -> WebCall] /\ requests'[q] = Idle
      /\ \A p \in WebRequest : p # q => requests'[p] = requests[p]
  BY <1>1, CallsAre, SlotIs
<1>3. picked \in WebSession BY DEF WebInv, WebTypes
<1> HIDE DEF again
<1>4. /\ fields' \subseteq Form /\ OnePerPlace(fields')
      /\ \A g \in fields' : g \in fields \/ g.typed \/ g.again
  <2>1. CASE again BY <1>1, <1>3, <2>1, DrawnAgain
  <2>2. CASE ~again BY <1>1, <2>2 DEF WebInv, WebTypes
  <2> QED BY <2>1, <2>2
<1>5. WebTypes' BY <1>1, <1>2, <1>4 DEF WebInv, WebTypes
<1>6. \A p \in WebRequest : requests'[p] = requests[p] \/ requests'[p].kind \notin Busy
  BY <1>2, CallsAre DEF Busy
<1> QED BY <1>1, <1>4, <1>5, <1>6, QuietWebKeeps

LEMMA TypeUrlKeeps == ASSUME WebInv, NEW f \in fields, TypeUrl(f) PROVE WebInv'
<1> DEFINE g == [f EXCEPT !.url = typings + 1, !.typed = TRUE]
<1>1. /\ typings < Typings /\ typings' = typings + 1 /\ fields' = (fields \ {f}) \union {g}
      /\ UNCHANGED <<page, listed, picked, requests, urls, crossed, reverted>>
  BY DEF TypeUrl
<1>2. f \in Form BY WebFacts
<1>3. typings' \in Url
  <2>1. typings \in 0..Typings /\ Typings \in Nat BY WebFacts DEF WebInv, WebTypes, Url
  <2> QED BY <1>1, <2>1 DEF Url
<1>4. g \in Form /\ g.in = f.in /\ g.typed = TRUE
  <2>1. TRUE \in BOOLEAN BY Zenon
  <2>2. typings + 1 \in Url BY <1>1, <1>3
  <2> QED BY <1>2, <2>1, <2>2 DEF Form
<1> HIDE DEF g
<1>5. fields \subseteq Form /\ OnePerPlace(fields) BY DEF WebInv, WebTypes
<1>6. /\ fields' \subseteq Form /\ OnePerPlace(fields')
      /\ \A h \in fields' : h \in fields \/ h.typed \/ h.again
  BY <1>1, <1>4, <1>5 DEF OnePerPlace
<1>7. WebTypes' BY <1>1, <1>3, <1>6 DEF WebInv, WebTypes
<1> QED BY <1>1, <1>6, <1>7, QuietWebKeeps

\* A save that crosses nothing is alone, and the form it sends is the only one.
LEMMA SubmitUrlKeeps ==
  ASSUME WebInv, NEW q \in WebRequest, NEW f \in fields, SubmitUrl(q, f) PROVE WebInv'
<1> DEFINE b == Cardinality(fields) > 1 \/ Pending(Reads \union {"write"}) # {}
<1>1. /\ requests' = [requests EXCEPT ![q] = Writes(f)] /\ Crossing(b)
      /\ UNCHANGED <<page, listed, picked, fields, urls, typings, reverted>>
  BY DEF SubmitUrl, Asking
<1>2. f \in Form BY WebFacts
<1>3. /\ requests' \in [WebRequest -> WebCall] /\ requests'[q] = Writes(f)
      /\ \A p \in WebRequest : p # q => requests'[p] = requests[p]
  BY <1>1, <1>2, CallsAre, SlotIs
<1>4. crossed' \in BOOLEAN /\ (~crossed' => ~crossed /\ ~b)
  <2>1. b \in BOOLEAN OBVIOUS
  <2> HIDE DEF b
  <2> QED BY <1>1, <2>1, CrossingIs
<1>5. WebTypes' BY <1>1, <1>3, <1>4 DEF WebInv, WebTypes
<1>6. ASSUME ~crossed' PROVE ~reverted' /\ Straight(fields', requests', listed', urls')
  <2>1. ~crossed /\ ~b BY <1>4, <1>6
  <2>2. ~reverted /\ Straight(fields, requests, listed, urls) BY <2>1 DEF WebInv
  <2>3. \A p \in WebRequest : requests[p].kind \notin Busy BY <2>1 DEF Pending, Reads, Busy
  <2>4. \A g, h \in fields : g = h
    <3>1. fields \in SUBSET Form /\ OnePerPlace(fields) BY DEF WebInv, WebTypes
    <3> QED BY <2>1, <3>1, FewFields
  <2>5. requests'[q].kind = "write" /\ requests'[q].form = f BY <1>2, <1>3, CallsAre
  <2>6. \A p \in WebRequest : p # q => requests'[p].kind \notin Busy BY <1>3, <2>3
  <2>7. \A p \in WebRequest : requests'[p].kind # "draw"
    BY <2>5, <2>6 DEF Busy
  <2>8. \A p \in WebRequest : requests'[p].kind = "write" => p = q BY <2>6 DEF Busy
  <2>9. \A g \in fields : Fine(g, urls) BY <2>2 DEF Straight
  <2>10. Straight(fields, requests', listed, urls)
    <3>1. Fine(f, urls) /\ \A g \in fields : g = f BY <2>4, <2>9
    <3> QED BY <2>5, <2>6, <2>7, <2>8, <2>9, <3>1 DEF Straight
  <2> QED BY <1>1, <2>2, <2>10
<1> QED BY <1>5, <1>6 DEF WebInv

\* A save that is alone writes what was typed, or what is there: no other form is behind.
LEMMA UrlSavedKeeps ==
  ASSUME WebInv, NEW q \in WebRequest, NEW ok \in BOOLEAN, UrlSaved(q, ok) PROVE WebInv'
<1> DEFINE f == requests[q].form
           back == ok /\ ~f.typed /\ ~f.again /\ urls[f.of] # f.url
           shut == ok /\ f.in = "modal"
<1>1. /\ requests[q].kind = "write" /\ requests' = [requests EXCEPT ![q] = Idle]
      /\ urls' = IF ok THEN [urls EXCEPT ![f.of] = f.url] ELSE urls
      /\ reverted' = (reverted \/ back)
      /\ fields' = IF shut THEN Without("modal") ELSE fields
      /\ UNCHANGED <<page, listed, picked, typings, crossed>>
  BY DEF UrlSaved
<1>2. /\ requests' \in [WebRequest -> WebCall] /\ requests'[q] = Idle
      /\ \A p \in WebRequest : p # q => requests'[p] = requests[p]
  BY <1>1, CallsAre, SlotIs
<1>3. f \in Form BY <1>1, WebFacts
<1>4. f.of \in WebSession /\ f.url \in Url
  <2> HIDE DEF f
  <2> QED BY <1>3 DEF Form
<1>5. reverted' \in BOOLEAN
  <2>1. reverted \in BOOLEAN /\ back \in BOOLEAN BY DEF WebInv, WebTypes
  <2> HIDE DEF back
  <2> QED BY <1>1, <2>1, Zenon
<1>6. fields' \subseteq fields /\ OnePerPlace(fields') /\ fields' \subseteq Form
  <2> HIDE DEF shut
  <2> QED BY <1>1 DEF Without, WebInv, WebTypes, OnePerPlace
<1> HIDE DEF f
<1>7. /\ urls' \in [WebSession -> Url]
      /\ ok => urls'[f.of] = f.url
      /\ \A s \in WebSession : s # f.of \/ ~ok => urls'[s] = urls[s]
  <2>1. urls \in [WebSession -> Url] BY DEF WebInv, WebTypes
  <2> HIDE DEF back, shut
  <2> QED BY <1>1, <1>4, <2>1
<1>8. WebTypes' BY <1>1, <1>2, <1>5, <1>6, <1>7 DEF WebInv, WebTypes
<1>9. ASSUME ~crossed' PROVE ~reverted' /\ Straight(fields', requests', listed', urls')
  <2>1. ~reverted /\ Straight(fields, requests, listed, urls) BY <1>1, <1>9 DEF WebInv
  <2>2. /\ Fine(f, urls)
        /\ \A g \in fields : g.typed \/ g.again \/ g = f
        /\ \A p \in WebRequest \ {q} : requests[p].kind \notin Busy
    BY <1>1, <2>1 DEF Straight, f
  <2>3. ~back BY <2>2 DEF Fine
  <2>4. \A g \in fields : Fine(g, urls) BY <2>1 DEF Straight
  <2>5. \A g \in fields' : Fine(g, urls')
    <3> SUFFICES ASSUME NEW g \in fields' PROVE Fine(g, urls') OBVIOUS
    <3>1. g \in fields /\ g.of \in WebSession BY <1>6, WebFacts
    <3>2. CASE g = f BY <1>7, <2>4, <3>1, <3>2 DEF Fine
    <3>3. CASE g # f BY <2>2, <3>1, <3>3 DEF Fine
    <3> QED BY <3>2, <3>3
  <2>6. \A p \in WebRequest : requests'[p].kind \notin Busy BY <1>2, <2>2, CallsAre DEF Busy
  <2>7. Straight(fields', requests', listed', urls')
    <3>1. \A p \in WebRequest :
            requests'[p].kind # "write" /\ (requests'[p].kind = "draw" => listed' = urls')
      BY <2>6 DEF Busy
    <3> QED BY <2>5, <3>1, StraightUnsaved
  <2>8. ~reverted' BY <1>1, <2>1, <2>3, Zenon
  <2> QED BY <2>7, <2>8
<1> QED BY <1>8, <1>9 DEF WebInv

LEMMA WebPageStart == ASSUME WebPageInit PROVE WebInv
<1>1. page \in BOOLEAN /\ crossed \in BOOLEAN /\ reverted \in BOOLEAN BY Zenon DEF WebPageInit
<1>2. urls \in [WebSession -> Url] /\ listed = urls /\ typings \in Url
  <2>1. 0 \in Url BY WebPageAssumption DEF Url
  <2> QED BY <2>1 DEF WebPageInit
<1>3. requests \in [WebRequest -> WebCall] /\ \A q \in WebRequest : requests[q].kind = "none"
  BY CallsAre DEF WebPageInit
<1>4. fields = {} /\ picked \in WebSession /\ ~reverted BY DEF WebPageInit
<1>5. WebTypes BY <1>1, <1>2, <1>3, <1>4 DEF WebTypes, OnePerPlace
<1>6. Straight(fields, requests, listed, urls) BY <1>3, <1>4 DEF Straight
<1> QED BY <1>4, <1>5, <1>6 DEF WebInv

LEMMA WebPageStep == ASSUME WebInv, [WebPageNext]_webPageVars PROVE WebInv'
<1>1. CASE LeaveWebhooks BY <1>1, LeaveWebhooksKeeps
<1>2. CASE CloseModal BY <1>2, CloseModalKeeps
<1>3. ASSUME NEW s \in WebSession, PickSession(s) PROVE WebInv' BY <1>3, PickSessionKeeps
<1>4. ASSUME NEW f \in fields, TypeUrl(f) PROVE WebInv' BY <1>4, TypeUrlKeeps
<1>5. ASSUME NEW q \in WebRequest, OpenWebhooks(q) \/ WebPageDrawn(q) \/ RotateSecret(q) PROVE WebInv'
  BY <1>5, OpenWebhooksKeeps, WebPageDrawnKeeps, RotateSecretKeeps
<1>6. ASSUME NEW q \in WebRequest, NEW s \in WebSession, WebSessionsCame(q, s) \/ ShowSettings(q, s)
      PROVE WebInv'
  BY <1>6, WebSessionsCameKeeps, ShowSettingsKeeps
<1>7. ASSUME NEW q \in WebRequest, NEW f \in fields, SubmitUrl(q, f) PROVE WebInv' BY <1>7, SubmitUrlKeeps
<1>8. ASSUME NEW q \in WebRequest, NEW ok \in BOOLEAN,
             WasRotated(q, ok) \/ SettingsCame(q, ok) \/ UrlSaved(q, ok)
      PROVE WebInv'
  BY <1>8, WasRotatedKeeps, SettingsCameKeeps, UrlSavedKeeps
<1>9. CASE UNCHANGED webPageVars
  <2>1. UNCHANGED <<page, listed, picked, fields, requests, urls, typings, crossed, reverted>>
    BY <1>9 DEF webPageVars
  <2> QED BY <2>1 DEF WebInv, WebTypes
<1> QED BY <1>1, <1>2, <1>3, <1>4, <1>5, <1>6, <1>7, <1>8, <1>9 DEF WebPageNext

\* Saving a form whose URL was not typed over leaves the session's URL as it is, unless the
\* form was drawn again from an old list or the save crossed a read, a save or the other form:
\* pages/webhooks.js saveWebhook() and pages/sessions.js saveSettings() send every field.
THEOREM WebhookUrlIsKept == WebPageSpec => [](WebPageTypeOK /\ UntouchedUrlIsKept)
<1>1. WebPageInit => WebInv BY WebPageStart
<1>2. WebInv /\ [WebPageNext]_webPageVars => WebInv' BY WebPageStep
<1>3. WebInv => WebPageTypeOK /\ UntouchedUrlIsKept
  <2> SUFFICES ASSUME WebInv PROVE WebPageTypeOK /\ UntouchedUrlIsKept OBVIOUS
  <2>1. WebTypes BY DEF WebInv
  <2>2. page \in BOOLEAN /\ crossed \in BOOLEAN /\ reverted \in BOOLEAN BY <2>1 DEF WebTypes
  <2>3. {page, crossed, reverted} \subseteq BOOLEAN BY <2>2, Zenon
  <2>4. Cardinality(fields) <= 2 BY <2>1, FewFields DEF WebTypes
  <2>5. WebPageTypeOK BY <2>1, <2>3, <2>4 DEF WebTypes, WebPageTypeOK
  <2>6. UntouchedUrlIsKept BY DEF WebInv, UntouchedUrlIsKept
  <2> QED BY <2>5, <2>6
<1> QED BY <1>1, <1>2, <1>3, PTL DEF WebPageSpec

-----------------------------------------------------------------------------
(* The chains of requests of the chat rooms page.                          *)

HasOp(c, op) == \E k \in 1..Len(c) : c[k].op = op
Frees(c) == HasOp(c, "free") /\ ~HasOp(c, "take")
Ends(c) == HasOp(c, "arm") \/ Frees(c)

\* What is left of a function: it takes the text once at most and clears the flag after it,
\* it arms the timer after the page was drawn, and where a chat is removed or cleared it does
\* neither; what opens, fills or clears a room has one.
Sound(c) ==
  /\ \A k \in 1..Len(c) : c[k].op = "take" => \E m \in 1..Len(c) : m > k /\ c[m].op = "free"
  /\ \A k, m \in 1..Len(c) : c[k].op = "take" /\ c[m].op = "take" => k = m
  /\ \A k \in 1..Len(c) : c[k].op = "sessions" => \E m \in 1..Len(c) : m > k /\ c[m].op = "arm"
  /\ \A k, m \in 1..Len(c) : c[k].op \in {"remove", "clear"} => c[m].op \notin {"arm", "free", "take"}
  /\ \A k \in 1..Len(c) : c[k].op \in {"open", "messages", "attach", "clear"} => c[k].room \in Chat

\* The steps a function goes on with when an answer has come: none of them locks, frees or arms.
Onward(p) ==
  /\ p \in Seq(Step)
  /\ \A k \in 1..Len(p) : p[k].op \in {"open", "messages", "read", "attach", "refresh"} /\ p[k].room \in Chat

LEMMA RestIs ==
  ASSUME NEW c \in Seq(Step), c # <<>>, NEW p, Onward(p)
  PROVE  LET d == p \o Tail(c) IN
         /\ d \in Seq(Step) /\ Len(c) \in Nat /\ Len(c) >= 1 /\ Len(p) \in Nat /\ Len(d) = Len(p) + Len(c) - 1
         /\ Head(c) = c[1]
         /\ \A k \in 1..Len(d) : IF k <= Len(p) THEN d[k] = p[k] /\ k \in 1..Len(p)
                                 ELSE d[k] = c[k - Len(p) + 1] /\ k - Len(p) + 1 \in 2..Len(c)
         /\ \A k \in 2..Len(c) : k + Len(p) - 1 \in 1..Len(d) /\ d[k + Len(p) - 1] = c[k] /\ k + Len(p) - 1 > Len(p)
<1> DEFINE t == Tail(c)
           d == p \o t
<1>1. p \in Seq(Step) /\ Len(p) \in Nat /\ Len(c) \in Nat /\ Len(c) >= 1
  <2>1. p \in Seq(Step) BY DEF Onward
  <2>2. Len(c) # 0 BY EmptySeq
  <2> QED BY <2>1, <2>2, LenProperties
<1>2. /\ t \in Seq(Step) /\ Len(t) = Len(c) - 1 /\ Head(c) = c[1]
      /\ \A k \in 1..Len(t) : t[k] = c[k + 1]
  BY HeadTailProperties
<1> HIDE DEF t
<1>3. /\ d \in Seq(Step) /\ Len(d) = Len(p) + Len(t)
      /\ \A k \in 1..Len(p) + Len(t) : d[k] = IF k <= Len(p) THEN p[k] ELSE t[k - Len(p)]
  BY <1>1, <1>2, ConcatProperties
<1> HIDE DEF d
<1>4. ASSUME NEW k \in 1..Len(d)
      PROVE IF k <= Len(p) THEN d[k] = p[k] /\ k \in 1..Len(p)
            ELSE d[k] = c[k - Len(p) + 1] /\ k - Len(p) + 1 \in 2..Len(c)
  <2>1. CASE k <= Len(p)
    <3>1. k \in 1..Len(p) + Len(t) /\ k \in 1..Len(p) BY <1>1, <1>2, <1>3, <2>1
    <3>2. d[k] = p[k] BY <1>3, <2>1, <3>1
    <3> QED BY <2>1, <3>1, <3>2
  <2>2. CASE ~(k <= Len(p))
    <3>1. k - Len(p) \in 1..Len(t) BY <1>1, <1>2, <1>3, <2>2
    <3>2. d[k] = t[k - Len(p)] BY <1>1, <1>2, <1>3, <2>2
    <3>3. t[k - Len(p)] = c[k - Len(p) + 1] BY <1>2, <3>1
    <3> QED BY <1>1, <1>2, <2>2, <3>1, <3>2, <3>3
  <2> QED BY <2>1, <2>2
<1>5. ASSUME NEW k \in 2..Len(c)
      PROVE k + Len(p) - 1 \in 1..Len(d) /\ d[k + Len(p) - 1] = c[k] /\ k + Len(p) - 1 > Len(p)
  <2>1. k + Len(p) - 1 \in 1..Len(d) /\ k + Len(p) - 1 > Len(p) BY <1>1, <1>2, <1>3
  <2>2. d[k + Len(p) - 1] = c[k + Len(p) - 1 - Len(p) + 1] BY <1>1, <1>4, <2>1
  <2>3. k + Len(p) - 1 - Len(p) + 1 = k BY <1>1
  <2> QED BY <2>1, <2>2, <2>3
<1>6. /\ d \in Seq(Step) /\ Len(c) \in Nat /\ Len(c) >= 1 /\ Len(p) \in Nat /\ Len(d) = Len(p) + Len(c) - 1
      /\ Head(c) = c[1]
  BY <1>1, <1>2, <1>3
<1> QED BY <1>4, <1>5, <1>6 DEF d, t

\* A step that ends leaves the rest of its chain, behind what it goes on with.
LEMMA RestEnds ==
  ASSUME NEW c \in Seq(Step), c # <<>>, Sound(c), NEW p, Onward(p)
  PROVE  LET d == p \o Tail(c) IN
         /\ d \in Seq(Step) /\ Sound(d)
         /\ Head(c).op \notin {"take", "arm", "free"} => (Ends(c) => Ends(d))
         /\ Head(c).op \notin {"take", "free"} => (Frees(c) => Frees(d))
         /\ Head(c).op = "take" => Frees(d)
         /\ Head(c).op = "sessions" => Ends(d)
<1> DEFINE d == p \o Tail(c)
           n == Len(p)
<1>1. /\ d \in Seq(Step) /\ Len(c) \in Nat /\ Len(c) >= 1 /\ n \in Nat /\ Len(d) = n + Len(c) - 1
      /\ Head(c) = c[1]
      /\ \A k \in 1..Len(d) : IF k <= n THEN d[k] = p[k] /\ k \in 1..n
                              ELSE d[k] = c[k - n + 1] /\ k - n + 1 \in 2..Len(c)
      /\ \A k \in 2..Len(c) : k + n - 1 \in 1..Len(d) /\ d[k + n - 1] = c[k] /\ k + n - 1 > n
  BY RestIs
<1> HIDE DEF d
<1>2. \A k \in 1..n : p[k].op \in {"open", "messages", "read", "attach", "refresh"} /\ p[k].room \in Chat
  BY DEF Onward
<1> HIDE DEF n
<1> DEFINE Locks == {"take", "sessions", "remove", "clear", "arm", "free"}
<1>3. \A k \in 1..Len(d) : d[k].op \in Locks =>
        d[k] = c[k - n + 1] /\ k - n + 1 \in 2..Len(c) /\ k - n + 1 \in 1..Len(c)
  <2> SUFFICES ASSUME NEW k \in 1..Len(d), d[k].op \in Locks
               PROVE  d[k] = c[k - n + 1] /\ k - n + 1 \in 2..Len(c) /\ k - n + 1 \in 1..Len(c)
    OBVIOUS
  <2>1. ~(k <= n)
    <3> SUFFICES ASSUME k <= n PROVE FALSE OBVIOUS
    <3>1. d[k] = p[k] /\ k \in 1..n BY <1>1
    <3>2. p[k].op \in {"open", "messages", "read", "attach", "refresh"} BY <1>2, <3>1
    <3> QED BY <3>1, <3>2
  <2>2. d[k] = c[k - n + 1] /\ k - n + 1 \in 2..Len(c) BY <1>1, <2>1
  <2> QED BY <1>1, <2>2
<1>4. \A k \in 1..Len(c) : k # 1 => k \in 2..Len(c) BY <1>1
<1>5. ASSUME NEW k \in 1..Len(d), d[k].op = "take"
      PROVE  \E m \in 1..Len(d) : m > k /\ d[m].op = "free"
  <2>1. /\ k - n + 1 \in 2..Len(c) /\ k - n + 1 \in 1..Len(c)
        /\ c[k - n + 1].op = "take"
    BY <1>3, <1>5
  <2>2. PICK m \in 1..Len(c) : m > k - n + 1 /\ c[m].op = "free" BY <1>1, <2>1 DEF Sound
  <2>3. m \in 2..Len(c) BY <1>1, <2>1, <2>2
  <2>4. m + n - 1 \in 1..Len(d) /\ d[m + n - 1].op = "free" BY <1>1, <2>2, <2>3
  <2>5. m + n - 1 > k BY <1>1, <2>1, <2>2
  <2> QED BY <2>4, <2>5
<1>6. ASSUME NEW k \in 1..Len(d), NEW m \in 1..Len(d), d[k].op = "take", d[m].op = "take" PROVE k = m
  <2>1. k - n + 1 \in 1..Len(c) /\ c[k - n + 1].op = "take" BY <1>3, <1>6
  <2>2. m - n + 1 \in 1..Len(c) /\ c[m - n + 1].op = "take" BY <1>3, <1>6
  <2>3. k - n + 1 = m - n + 1 BY <1>1, <2>1, <2>2 DEF Sound
  <2> QED BY <1>1, <2>3
<1>7. ASSUME NEW k \in 1..Len(d), d[k].op = "sessions"
      PROVE  \E m \in 1..Len(d) : m > k /\ d[m].op = "arm"
  <2>1. /\ k - n + 1 \in 2..Len(c) /\ k - n + 1 \in 1..Len(c)
        /\ c[k - n + 1].op = "sessions"
    BY <1>3, <1>7
  <2>2. PICK m \in 1..Len(c) : m > k - n + 1 /\ c[m].op = "arm" BY <1>1, <2>1 DEF Sound
  <2>3. m \in 2..Len(c) BY <1>1, <2>1, <2>2
  <2>4. m + n - 1 \in 1..Len(d) /\ d[m + n - 1].op = "arm" BY <1>1, <2>2, <2>3
  <2>5. m + n - 1 > k BY <1>1, <2>1, <2>2
  <2> QED BY <2>4, <2>5
<1>8. ASSUME NEW k \in 1..Len(d), NEW m \in 1..Len(d), d[k].op \in {"remove", "clear"}
      PROVE  d[m].op \notin {"arm", "free", "take"}
  <2>1. k - n + 1 \in 1..Len(c) /\ c[k - n + 1].op \in {"remove", "clear"} BY <1>3, <1>8
  <2> SUFFICES ASSUME d[m].op \in {"arm", "free", "take"} PROVE FALSE OBVIOUS
  <2>2. m - n + 1 \in 1..Len(c) /\ c[m - n + 1].op \in {"arm", "free", "take"} BY <1>3
  <2> QED BY <1>1, <2>1, <2>2 DEF Sound
<1>9. ASSUME NEW k \in 1..Len(d), d[k].op \in {"open", "messages", "attach", "clear"}
      PROVE  d[k].room \in Chat
  <2>1. CASE k <= n BY <1>1, <1>2, <2>1
  <2>2. CASE ~(k <= n)
    <3>1. d[k] = c[k - n + 1] /\ k - n + 1 \in 2..Len(c) BY <1>1, <2>2
    <3>2. k - n + 1 \in 1..Len(c) BY <1>1, <3>1
    <3> QED BY <1>9, <3>1, <3>2 DEF Sound
  <2> QED BY <2>1, <2>2
<1>10. Sound(d)
  <2> HIDE DEF Locks
  <2> QED BY <1>5, <1>6, <1>7, <1>8, <1>9 DEF Sound
<1>11. \A op : HasOp(c, op) /\ Head(c).op # op => HasOp(d, op)
  <2> SUFFICES ASSUME NEW op, HasOp(c, op), Head(c).op # op PROVE HasOp(d, op) OBVIOUS
  <2>1. PICK k \in 1..Len(c) : c[k].op = op BY DEF HasOp
  <2>2. k \in 2..Len(c) BY <1>1, <1>4, <2>1
  <2> QED BY <1>1, <2>1, <2>2 DEF HasOp
<1>12. HasOp(d, "take") => \E k \in 2..Len(c) : c[k].op = "take"
  <2> SUFFICES ASSUME HasOp(d, "take") PROVE \E k \in 2..Len(c) : c[k].op = "take" OBVIOUS
  <2>1. PICK k \in 1..Len(d) : d[k].op = "take" BY DEF HasOp
  <2> QED BY <1>3, <2>1
<1>13. HasOp(d, "take") => HasOp(c, "take") /\ Head(c).op # "take"
  <2> SUFFICES ASSUME HasOp(d, "take") PROVE HasOp(c, "take") /\ Head(c).op # "take" OBVIOUS
  <2>1. PICK k \in 2..Len(c) : c[k].op = "take" BY <1>12
  <2>2. k \in 1..Len(c) /\ 1 \in 1..Len(c) /\ k # 1 BY <1>1
  <2>3. Head(c).op # "take" BY <1>1, <2>1, <2>2 DEF Sound
  <2> QED BY <2>1, <2>2, <2>3 DEF HasOp
<1>14. ASSUME Head(c).op = "take" PROVE Frees(d)
  <2>1. 1 \in 1..Len(c) /\ c[1].op = "take" BY <1>1, <1>14
  <2>2. HasOp(c, "free") BY <2>1 DEF Sound, HasOp
  <2> QED BY <1>11, <1>13, <1>14, <2>2 DEF Frees
<1>15. ASSUME Head(c).op = "sessions" PROVE Ends(d)
  <2>1. 1 \in 1..Len(c) /\ c[1].op = "sessions" BY <1>1, <1>15
  <2>2. HasOp(c, "arm") BY <2>1 DEF Sound, HasOp
  <2> QED BY <1>11, <1>15, <2>2 DEF Ends
<1>16. Head(c).op \notin {"take", "free"} => (Frees(c) => Frees(d)) BY <1>11, <1>13 DEF Frees
<1>17. Head(c).op \notin {"take", "arm", "free"} => (Ends(c) => Ends(d)) BY <1>11, <1>16 DEF Ends
<1> QED BY <1>1, <1>10, <1>14, <1>15, <1>16, <1>17 DEF d

RestTypes ==
  /\ here \in BOOLEAN /\ session \in BOOLEAN /\ text \in BOOLEAN
  /\ isSending \in BOOLEAN /\ refreshTimer \in BOOLEAN /\ thrown \in BOOLEAN
  /\ selected \in Chat \union {NoChat} /\ shown \in Chat \union {NoChat} /\ listeners \in Seq(Chat)
ChainsSound == chains \in [Slot -> Seq(Step)] /\ \A i \in Slot : Sound(chains[i])
GoesOnRefreshing == session /\ ~thrown => refreshTimer \/ \E i \in Slot : Ends(chains[i])
IsUnlocked == isSending => \E i \in Slot : Frees(chains[i])

RoomsInv == RestTypes /\ ChainsSound /\ GoesOnRefreshing /\ IsUnlocked

LEMMA OpsAre ==
  /\ \A op \in Sync \union {"sessions", "list", "open", "messages", "read", "refresh",
                            "pause", "post", "settle", "remove", "clear"}, r \in Chat \union {NoChat} :
       On(op, r) \in Step
  /\ \A op, r : On(op, r).op = op /\ On(op, r).room = r
BY DEF On, Step

\* Chains of which none takes the text, draws the page, removes or clears a chat are sound, with
\* rooms where they are needed.
LEMMA PlainSound ==
  ASSUME NEW c \in Seq(Step),
         \A k \in 1..Len(c) : /\ c[k].op \notin {"take", "sessions", "remove", "clear"}
                              /\ c[k].op \in {"open", "messages", "attach"} => c[k].room \in Chat
  PROVE  Sound(c)
<1>1. \A k \in 1..Len(c) : c[k].op \in {"open", "messages", "attach", "clear"} => c[k].room \in Chat OBVIOUS
<1> QED BY <1>1 DEF Sound

LEMMA OnwardIs ==
  /\ Onward(<<>>)
  /\ \A r \in Chat : /\ Onward(<<On("open", r)>>) /\ Onward(<<On("messages", r)>>)
                     /\ Onward(<<On("refresh", r)>>)
                     /\ Onward(<<On("read", r), On("attach", r)>>)
<1>1. Onward(<<>>) BY DEF Onward
<1>2. ASSUME NEW r \in Chat, NEW op \in {"open", "messages", "refresh"} PROVE Onward(<<On(op, r)>>)
  <2> DEFINE x == On(op, r)
  <2>1. x \in Step /\ x.op = op /\ x.room = r BY OpsAre
  <2> HIDE DEF x
  <2>2. <<x>> \in Seq(Step) /\ Len(<<x>>) = 1 /\ <<x>>[1] = x BY <2>1
  <2>3. \A k \in 1..Len(<<x>>) : <<x>>[k] = x BY <2>2
  <2>4. Onward(<<x>>) BY <2>1, <2>2, <2>3 DEF Onward
  <2> QED BY <2>4 DEF x
<1>3. ASSUME NEW r \in Chat PROVE Onward(<<On("read", r), On("attach", r)>>)
  <2> DEFINE x == On("read", r)
             y == On("attach", r)
  <2>1. x \in Step /\ x.op = "read" /\ x.room = r /\ y \in Step /\ y.op = "attach" /\ y.room = r
    BY OpsAre DEF Sync
  <2> HIDE DEF x, y
  <2>2. <<x, y>> \in Seq(Step) /\ Len(<<x, y>>) = 2 /\ <<x, y>>[1] = x /\ <<x, y>>[2] = y BY <2>1
  <2>3. \A k \in 1..Len(<<x, y>>) : <<x, y>>[k] = x \/ <<x, y>>[k] = y
    <3>1. \A k \in 1..2 : k = 1 \/ k = 2 OBVIOUS
    <3> QED BY <2>2, <3>1
  <2>4. Onward(<<x, y>>) BY <2>1, <2>2, <2>3 DEF Onward
  <2> QED BY <2>4 DEF x, y
<1> QED BY <1>1, <1>2, <1>3

\* One chain changes.
LEMMA RoomsKeep ==
  ASSUME RoomsInv, NEW i \in Slot, NEW d \in Seq(Step), Sound(d),
         chains' = [chains EXCEPT ![i] = d], RestTypes',
         session' /\ ~thrown' => \/ refreshTimer' \/ Ends(d)
                                 \/ /\ session /\ ~thrown /\ (refreshTimer => refreshTimer')
                                    /\ Ends(chains[i]) => Ends(d),
         isSending' => Frees(d) \/ (isSending /\ (Frees(chains[i]) => Frees(d)))
  PROVE  RoomsInv'
<1>1. /\ chains' \in [Slot -> Seq(Step)] /\ chains'[i] = d
      /\ \A j \in Slot : j # i => chains'[j] = chains[j]
  BY DEF RoomsInv, ChainsSound
<1>2. ChainsSound' BY <1>1 DEF RoomsInv, ChainsSound
<1>3. GoesOnRefreshing'
  <2> SUFFICES ASSUME session', ~thrown', ~refreshTimer' PROVE \E j \in Slot : Ends(chains'[j])
    BY DEF GoesOnRefreshing
  <2>1. CASE Ends(d) BY <1>1, <2>1
  <2>2. CASE ~Ends(d)
    <3>1. session /\ ~thrown /\ ~refreshTimer /\ ~Ends(chains[i]) BY <2>2
    <3>2. PICK j \in Slot : Ends(chains[j]) BY <3>1 DEF RoomsInv, GoesOnRefreshing
    <3>3. j # i BY <3>1, <3>2
    <3> QED BY <1>1, <3>2, <3>3
  <2> QED BY <2>1, <2>2
<1>4. IsUnlocked'
  <2> SUFFICES ASSUME isSending' PROVE \E j \in Slot : Frees(chains'[j]) BY DEF IsUnlocked
  <2>1. CASE Frees(d) BY <1>1, <2>1
  <2>2. CASE ~Frees(d)
    <3>1. isSending /\ ~Frees(chains[i]) BY <2>2
    <3>2. PICK j \in Slot : Frees(chains[j]) BY <3>1 DEF RoomsInv, IsUnlocked
    <3>3. j # i BY <3>1, <3>2
    <3> QED BY <1>1, <3>2, <3>3
  <2> QED BY <2>1, <2>2
<1> QED BY <1>2, <1>3, <1>4 DEF RoomsInv

\* What a chain is at: its head, and its rest behind what it goes on with.
LEMMA ChainAt ==
  ASSUME RoomsInv, NEW i \in Slot, NEW op, At(i, op)
  PROVE  /\ chains[i] \in Seq(Step) /\ chains[i] # <<>> /\ Sound(chains[i]) /\ Head(chains[i]).op = op
         /\ Head(chains[i]).room \in Chat \union {NoChat}
         /\ op \in {"open", "messages", "attach", "clear"} => Head(chains[i]).room \in Chat
<1> DEFINE c == chains[i]
<1>1. c \in Seq(Step) /\ Sound(c) BY DEF RoomsInv, ChainsSound
<1>2. c # <<>> /\ Head(c).op = op BY DEF At
<1> HIDE DEF c
<1>3. Head(c) = c[1] /\ Len(c) \in Nat /\ Len(c) >= 1 /\ c[1] \in Step
  <2>1. Len(c) # 0 /\ Len(c) \in Nat BY <1>1, <1>2, EmptySeq, LenProperties
  <2> QED BY <1>1, <1>2, <2>1, HeadTailProperties, ElementOfSeq
<1>4. c[1].room \in Chat \union {NoChat} BY <1>3 DEF Step
<1>5. op \in {"open", "messages", "attach", "clear"} => c[1].room \in Chat
  <2>1. 1 \in 1..Len(c) /\ c[1].op = op BY <1>2, <1>3
  <2> QED BY <1>1, <2>1 DEF Sound
<1> QED BY <1>1, <1>2, <1>3, <1>4, <1>5 DEF c

\* A step that is over, when what it goes on with neither takes nor frees: the page goes on being
\* refreshed, and nothing more is locked.
LEMMA GoesKeeps ==
  ASSUME RoomsInv, NEW i \in Slot, NEW op, At(i, op), op \notin {"take", "arm", "free", "sessions"},
         NEW p, Onward(p), Goes(i, p), RestTypes',
         UNCHANGED <<session, isSending, refreshTimer, thrown>>
  PROVE  RoomsInv'
<1> DEFINE d == p \o Tail(chains[i])
<1>1. /\ chains[i] \in Seq(Step) /\ chains[i] # <<>> /\ Sound(chains[i]) /\ Head(chains[i]).op = op
  BY ChainAt
<1>2. d \in Seq(Step) /\ Sound(d) /\ (Ends(chains[i]) => Ends(d)) /\ (Frees(chains[i]) => Frees(d))
  BY <1>1, RestEnds
<1>3. chains' = [chains EXCEPT ![i] = d] BY DEF Goes
<1> HIDE DEF d
<1> QED BY <1>2, <1>3, RoomsKeep

\* Where no chain was, one begins: nothing was waiting for what it replaces.
LEMMA BeginsKeeps ==
  ASSUME RoomsInv, NEW i \in Slot, chains[i] = <<>>, NEW d \in Seq(Step), Sound(d),
         chains' = [chains EXCEPT ![i] = d], RestTypes',
         session' /\ ~thrown' => refreshTimer' \/ Ends(d) \/ (session /\ ~thrown /\ (refreshTimer => refreshTimer')),
         isSending' => isSending
  PROVE  RoomsInv'
<1>1. ~Ends(chains[i]) /\ ~Frees(chains[i]) BY DEF Ends, Frees, HasOp
<1> QED BY <1>1, RoomsKeep

\* An exception: a message clears the flag, in its finally block.
LEMMA ThrowsKeeps ==
  ASSUME RoomsInv, NEW i \in Slot, Throws(i), RestTypes', UNCHANGED isSending
  PROVE  RoomsInv'
<1> DEFINE b == Has(i, "free") /\ ~Has(i, "take")
           d == IF b THEN <<Do("free")>> ELSE <<>>
<1>1. chains' = [chains EXCEPT ![i] = d] /\ thrown' = TRUE BY DEF Throws
<1>2. b = Frees(chains[i]) BY DEF Has, Frees, HasOp
<1> HIDE DEF b
<1>3. Do("free") \in Step /\ Do("free").op = "free" BY OpsAre DEF Do, Sync
<1>4. d \in Seq(Step) /\ Sound(d) /\ (b => Frees(d))
  <2>1. CASE b
    <3> DEFINE x == Do("free")
    <3> HIDE DEF x
    <3>1. <<x>> \in Seq(Step) /\ Len(<<x>>) = 1 /\ <<x>>[1] = x /\ x.op = "free" BY <1>3 DEF x
    <3>2. \A k \in 1..Len(<<x>>) : <<x>>[k].op = "free" BY <3>1
    <3>3. Sound(<<x>>) BY <3>1, <3>2, PlainSound
    <3>4. Frees(<<x>>) BY <3>1, <3>2 DEF Frees, HasOp
    <3>5. d = <<x>> BY <2>1 DEF x
    <3> QED BY <3>1, <3>3, <3>4, <3>5
  <2>2. CASE ~b BY <2>2 DEF Sound
  <2> QED BY <2>1, <2>2
<1> HIDE DEF d
<1>5. ~(session' /\ ~thrown') BY <1>1
<1> QED BY <1>1, <1>2, <1>4, <1>5, RoomsKeep

\* Whatever a function goes on with: the rest of its chain, other variables as they were.
LEMMA RestStays ==
  ASSUME RoomsInv, UNCHANGED <<here, session, isSending, refreshTimer, thrown>>,
         selected' \in Chat \union {NoChat},
         \/ UNCHANGED form
         \/ shown' \in Chat \union {NoChat} /\ listeners' \in Seq(Chat) /\ text' \in BOOLEAN
  PROVE  RestTypes'
<1>1. CASE UNCHANGED form BY <1>1 DEF RoomsInv, RestTypes, form
<1>2. CASE shown' \in Chat \union {NoChat} /\ listeners' \in Seq(Chat) /\ text' \in BOOLEAN
  BY <1>2 DEF RoomsInv, RestTypes
<1> QED BY <1>1, <1>2

LEMMA WipedIs == ASSUME Wiped PROVE shown' = NoChat /\ listeners' \in Seq(Chat) /\ text' \in BOOLEAN
<1>1. text' \in BOOLEAN BY Zenon DEF Wiped
<1>2. <<>> \in Seq(Chat) BY EmptySeq
<1> QED BY <1>1, <1>2 DEF Wiped

\* The list has come and is shown, or it has not.
LEMMA RenderKeeps ==
  ASSUME RoomsInv, NEW i \in Slot, NEW op \in {"list", "read"}, At(i, op), NEW found \in SUBSET Chat,
         RenderChatList(i, found) \/ (Goes(i, <<>>) /\ UNCHANGED <<selected, form>>),
         UNCHANGED <<here, session, isSending, refreshTimer, thrown>>
  PROVE  RoomsInv'
<1>1. /\ selected' \in Chat \union {NoChat}
      /\ \/ UNCHANGED form
         \/ shown' \in Chat \union {NoChat} /\ listeners' \in Seq(Chat) /\ text' \in BOOLEAN
      /\ \E p : Onward(p) /\ Goes(i, p)
  <2>1. selected \in Chat \union {NoChat} BY DEF RoomsInv, RestTypes
  <2>2. CASE Goes(i, <<>>) /\ UNCHANGED <<selected, form>> BY <2>1, <2>2, OnwardIs
  <2>3. CASE Goes(i, <<>>) /\ Wiped /\ UNCHANGED selected BY <2>1, <2>3, WipedIs, OnwardIs
  <2>4. ASSUME NEW first \in Chat, selected' = first, Goes(i, <<On("open", first)>>), UNCHANGED form
        PROVE  /\ selected' \in Chat \union {NoChat}
               /\ UNCHANGED form
               /\ \E p : Onward(p) /\ Goes(i, p)
    BY <2>4, OnwardIs
  <2> QED BY <2>2, <2>3, <2>4 DEF RenderChatList
<1>2. RestTypes' BY <1>1, RestStays
<1>3. PICK p : Onward(p) /\ Goes(i, p) BY <1>1
<1> QED BY <1>2, <1>3, GoesKeeps

LEMMA ListsKeep ==
  ASSUME RoomsInv, NEW i \in Slot, ListCame(i) \/ MarkedAsRead(i) PROVE RoomsInv'
<1>1. UNCHANGED <<here, session, isSending, refreshTimer, thrown>> BY DEF ListCame, MarkedAsRead, Others
<1>2. PICK op \in {"list", "read"} : At(i, op) BY DEF ListCame, MarkedAsRead
<1>3. \/ \E found \in SUBSET Chat : RenderChatList(i, found)
      \/ Goes(i, <<>>) /\ UNCHANGED <<selected, form>>
  BY DEF ListCame, MarkedAsRead
<1>4. PICK found \in SUBSET Chat :
        RenderChatList(i, found) \/ (Goes(i, <<>>) /\ UNCHANGED <<selected, form>>)
  <2>1. {} \in SUBSET Chat OBVIOUS
  <2> QED BY <1>3, <2>1
<1> QED BY <1>1, <1>2, <1>4, RenderKeeps

LEMMA OpenedKeeps == ASSUME RoomsInv, NEW i \in Slot, Opened(i) PROVE RoomsInv'
<1> DEFINE r == Head(chains[i]).room
<1>1. At(i, "open") /\ UNCHANGED <<selected, here, session, isSending, refreshTimer, thrown>>
  BY DEF Opened, Others
<1>2. r \in Chat BY <1>1, ChainAt
<1>3. selected' \in Chat \union {NoChat} BY <1>1 DEF RoomsInv, RestTypes
<1>4. CASE session
  <2>1. shown' = r /\ listeners' = <<>> /\ text' = FALSE /\ Goes(i, <<On("messages", r)>>)
    BY <1>4 DEF Opened
  <2>2. shown' \in Chat \union {NoChat} /\ listeners' \in Seq(Chat) /\ text' \in BOOLEAN
    <3>1. text' \in BOOLEAN BY <2>1, Zenon
    <3> HIDE DEF r
    <3> QED BY <1>2, <2>1, <3>1, EmptySeq
  <2>3. RestTypes' BY <1>1, <1>3, <2>2, RestStays
  <2>4. Onward(<<On("messages", r)>>)
    <3> HIDE DEF r
    <3> QED BY <1>2, OnwardIs
  <2> QED BY <1>1, <2>1, <2>3, <2>4, GoesKeeps
<1>5. CASE ~session
  <2>1. Goes(i, <<>>) /\ UNCHANGED form BY <1>5 DEF Opened
  <2>2. RestTypes' BY <1>1, <1>3, <2>1, RestStays
  <2> QED BY <1>1, <2>1, <2>2, OnwardIs, GoesKeeps
<1> QED BY <1>4, <1>5

LEMMA MessagesCameKeeps ==
  ASSUME RoomsInv, NEW i \in Slot, NEW ok \in BOOLEAN, MessagesCame(i, ok) PROVE RoomsInv'
<1> DEFINE r == Head(chains[i]).room
           p == IF ok THEN <<On("read", r), On("attach", r)>> ELSE <<>>
<1>1. /\ At(i, "messages") /\ Goes(i, p)
      /\ UNCHANGED <<selected, form, here, session, isSending, refreshTimer, thrown>>
  BY DEF MessagesCame, Others
<1>2. r \in Chat BY <1>1, ChainAt
<1>3. Onward(p)
  <2> HIDE DEF r
  <2> QED BY <1>2, OnwardIs
<1> HIDE DEF p
<1>4. selected' \in Chat \union {NoChat} BY <1>1 DEF RoomsInv, RestTypes
<1>5. RestTypes' BY <1>1, <1>4, RestStays
<1> QED BY <1>1, <1>3, <1>5, GoesKeeps

LEMMA EndedKeeps ==
  ASSUME RoomsInv, NEW i \in Slot, NEW op \in {"refresh", "pause", "settle"}, Ended(i, op) PROVE RoomsInv'
<1>1. /\ At(i, op) /\ Goes(i, <<>>)
      /\ UNCHANGED <<selected, form, here, session, isSending, refreshTimer, thrown>>
  BY DEF Ended, Others
<1>2. selected' \in Chat \union {NoChat} BY <1>1 DEF RoomsInv, RestTypes
<1>3. RestTypes' BY <1>1, <1>2, RestStays
<1> QED BY <1>1, <1>3, OnwardIs, GoesKeeps

LEMMA LooksKeep == ASSUME RoomsInv, NEW i \in Slot, Look(i) \/ Again(i) PROVE RoomsInv'
<1>1. /\ UNCHANGED <<selected, form, here, session, isSending, refreshTimer, thrown>>
  BY DEF Look, Again
<1>2. PICK op \in {"look", "again"} : At(i, op) BY DEF Look, Again
<1>3. selected \in Chat \union {NoChat} BY DEF RoomsInv, RestTypes
<1>4. \E p : Onward(p) /\ Goes(i, p)
  <2>1. CASE Goes(i, <<>>) BY <2>1, OnwardIs
  <2>2. CASE selected # NoChat /\ Goes(i, <<On("refresh", selected)>>) BY <1>3, <2>2, OnwardIs
  <2>3. CASE selected # NoChat /\ Goes(i, <<On("open", selected)>>) BY <1>3, <2>3, OnwardIs
  <2> QED BY <2>1, <2>2, <2>3 DEF Look, Again
<1>5. PICK p : Onward(p) /\ Goes(i, p) BY <1>4
<1>6. RestTypes' BY <1>1, <1>3, RestStays
<1> QED BY <1>1, <1>2, <1>5, <1>6, GoesKeeps

\* The failed post of a message still clears the flag at its end.
LEMMA PostedKeeps ==
  ASSUME RoomsInv, NEW i \in Slot, NEW ok \in BOOLEAN, Posted(i, ok) PROVE RoomsInv'
<1>1. /\ At(i, "post")
      /\ UNCHANGED <<selected, shown, listeners, here, session, isSending, refreshTimer, thrown>>
  BY DEF Posted, Others
<1>2. selected' \in Chat \union {NoChat} /\ shown' \in Chat \union {NoChat} /\ listeners' \in Seq(Chat)
  BY <1>1 DEF RoomsInv, RestTypes
<1>3. CASE ok
  <2>1. Goes(i, <<>>) /\ UNCHANGED text BY <1>3 DEF Posted
  <2>2. UNCHANGED form BY <1>1, <2>1 DEF form
  <2>3. RestTypes' BY <1>1, <1>2, <2>2, RestStays
  <2> QED BY <1>1, <2>1, <2>3, OnwardIs, GoesKeeps
<1>4. CASE ~ok
  <2> DEFINE x == Do("look")
             y == Do("free")
             d == <<x, y>>
  <2>1. chains' = [chains EXCEPT ![i] = d] /\ text' = (shown # NoChat) BY <1>4 DEF Posted
  <2>2. text' \in BOOLEAN
    <3> DEFINE b == shown # NoChat
    <3>1. b \in BOOLEAN /\ text' = b BY <2>1
    <3> HIDE DEF b
    <3> QED BY <3>1, Zenon
  <2>3. RestTypes' BY <1>1, <1>2, <2>2, RestStays
  <2>4. x \in Step /\ x.op = "look" /\ y \in Step /\ y.op = "free" BY OpsAre DEF Do, Sync
  <2> HIDE DEF x, y
  <2>5. d \in Seq(Step) /\ Len(d) = 2 /\ d[1] = x /\ d[2] = y BY <2>4
  <2>6. \A k \in 1..Len(d) : d[k] = x \/ d[k] = y
    <3>1. \A k \in 1..2 : k = 1 \/ k = 2 OBVIOUS
    <3> QED BY <2>5, <3>1
  <2> HIDE DEF d
  <2>7. Sound(d) BY <2>4, <2>5, <2>6, PlainSound
  <2>8. Frees(d)
    <3>1. 2 \in 1..Len(d) BY <2>5
    <3> QED BY <2>4, <2>5, <2>6, <3>1 DEF Frees, HasOp
  <2>9. Ends(d) BY <2>8 DEF Ends
  <2> QED BY <2>1, <2>3, <2>5, <2>7, <2>8, <2>9, RoomsKeep
<1> QED BY <1>3, <1>4

\* A chat that could not be removed or cleared: the chain that ends was not to arm or to free.
LEMMA CutKeeps ==
  ASSUME RoomsInv, NEW i \in Slot, NEW op \in {"remove", "clear"}, At(i, op),
         chains' = [chains EXCEPT ![i] = <<>>], RestTypes',
         UNCHANGED <<session, isSending, refreshTimer, thrown>>
  PROVE  RoomsInv'
<1> DEFINE c == chains[i]
<1>1. c \in Seq(Step) /\ c # <<>> /\ Sound(c) /\ Head(c).op = op BY ChainAt
<1> HIDE DEF c
<1>2. 1 \in 1..Len(c) /\ c[1].op = op
  <2>1. Len(c) \in Nat /\ Len(c) # 0 /\ Head(c) = c[1] BY <1>1, EmptySeq, LenProperties, HeadTailProperties
  <2> QED BY <1>1, <2>1
<1>3. \A k \in 1..Len(c) : c[k].op \notin {"arm", "free", "take"} BY <1>1, <1>2 DEF Sound
<1>4. ~Ends(c) /\ ~Frees(c) BY <1>3 DEF Ends, Frees, HasOp
<1>5. <<>> \in Seq(Step) /\ Sound(<<>>) BY EmptySeq DEF Sound
<1> QED BY <1>4, <1>5, RoomsKeep DEF c

LEMMA RemovedKeeps ==
  ASSUME RoomsInv, NEW i \in Slot, NEW ok \in BOOLEAN, Removed(i, ok) PROVE RoomsInv'
<1>1. At(i, "remove") /\ UNCHANGED <<form, here, session, isSending, refreshTimer, thrown>>
  BY DEF Removed, Others
<1>2. selected' \in Chat \union {NoChat} BY DEF Removed, RoomsInv, RestTypes
<1>3. RestTypes' BY <1>1, <1>2, RestStays
<1>4. CASE ok
  <2>1. Goes(i, <<>>) BY <1>4 DEF Removed
  <2> QED BY <1>1, <1>3, <2>1, OnwardIs, GoesKeeps
<1>5. CASE ~ok
  <2>1. chains' = [chains EXCEPT ![i] = <<>>] BY <1>5 DEF Removed
  <2> QED BY <1>1, <1>3, <2>1, CutKeeps
<1> QED BY <1>4, <1>5

LEMMA ChatClearedKeeps ==
  ASSUME RoomsInv, NEW i \in Slot, NEW ok \in BOOLEAN, ChatCleared(i, ok) PROVE RoomsInv'
<1>1. At(i, "clear") /\ UNCHANGED <<selected, form, here, session, isSending, refreshTimer, thrown>>
  BY DEF ChatCleared, Others
<1>2. selected' \in Chat \union {NoChat} BY <1>1 DEF RoomsInv, RestTypes
<1>3. RestTypes' BY <1>1, <1>2, RestStays
<1>4. CASE ok
  <2>1. Head(chains[i]).room \in Chat BY <1>1, ChainAt
  <2>2. \E p : Onward(p) /\ Goes(i, p)
    <3>1. CASE Goes(i, <<>>) BY <3>1, OnwardIs
    <3>2. CASE selected = Head(chains[i]).room /\ Goes(i, <<On("open", selected)>>) BY <2>1, <3>2, OnwardIs
    <3> QED BY <1>4, <3>1, <3>2 DEF ChatCleared
  <2>3. PICK p : Onward(p) /\ Goes(i, p) BY <2>2
  <2> QED BY <1>1, <1>3, <2>3, GoesKeeps
<1>5. CASE ~ok
  <2>1. chains' = [chains EXCEPT ![i] = <<>>] BY <1>5 DEF ChatCleared
  <2> QED BY <1>1, <1>3, <2>1, CutKeeps
<1> QED BY <1>4, <1>5

LEMMA NoAnswerKeeps == ASSUME RoomsInv, NEW i \in Slot, NoAnswer(i) PROVE RoomsInv'
<1>1. Throws(i) /\ UNCHANGED <<session, selected, form, here, isSending, refreshTimer>> BY DEF NoAnswer, Others
<1>2. thrown' \in BOOLEAN BY <1>1, Zenon DEF Throws
<1>3. RestTypes' BY <1>1, <1>2 DEF RoomsInv, RestTypes, form
<1> QED BY <1>1, <1>3, ThrowsKeeps

\* What a click starts neither takes the text nor arms.
LEMMA ClickSound ==
  ASSUME NEW x \in Step, x.op \in {"open", "remove", "clear", "list"},
         x.op \in {"open", "clear"} => x.room \in Chat,
         NEW y \in Step, y.op \in {"list", "again"}
  PROVE  /\ <<x>> \in Seq(Step) /\ Sound(<<x>>)
         /\ <<x, y>> \in Seq(Step) /\ Sound(<<x, y>>)
<1>1. ASSUME NEW c \in Seq(Step), \A k \in 1..Len(c) : c[k] = x \/ c[k] = y PROVE Sound(c)
  <2>1. \A k \in 1..Len(c) :
          /\ c[k].op \notin {"take", "sessions", "arm", "free"}
          /\ c[k].op \in {"open", "messages", "attach", "clear"} => c[k].room \in Chat
    BY <1>1
  <2> QED BY <2>1 DEF Sound
<1>2. <<x>> \in Seq(Step) /\ Len(<<x>>) = 1 /\ <<x>>[1] = x OBVIOUS
<1>3. <<x, y>> \in Seq(Step) /\ Len(<<x, y>>) = 2 /\ <<x, y>>[1] = x /\ <<x, y>>[2] = y OBVIOUS
<1>4. \A k \in 1..2 : k = 1 \/ k = 2 OBVIOUS
<1>5. \A k \in 1..1 : k = 1 OBVIOUS
<1>6. \A k \in 1..Len(<<x>>) : <<x>>[k] = x \/ <<x>>[k] = y BY <1>2, <1>5
<1>7. \A k \in 1..Len(<<x, y>>) : <<x, y>>[k] = x \/ <<x, y>>[k] = y BY <1>3, <1>4
<1> QED BY <1>1, <1>2, <1>3, <1>6, <1>7

LEMMA ClicksKeeps ==
  ASSUME RoomsInv, NEW i \in Slot, chains[i] = <<>>, NEW d \in Seq(Step), Sound(d), Clicks(i, d),
         selected' \in Chat \union {NoChat}
  PROVE  RoomsInv'
<1>1. /\ chains' = [chains EXCEPT ![i] = d]
      /\ UNCHANGED <<here, session, form, isSending, refreshTimer, thrown>>
  BY DEF Clicks
<1>2. RestTypes' BY <1>1, RestStays
<1> QED BY <1>1, <1>2, BeginsKeeps

LEMMA UserKeeps ==
  ASSUME RoomsInv, NEW i \in Slot,
         \/ SwitchMode(i) \/ Refresh(i)
         \/ \E r \in Chat : SelectRoom(i, r) \/ ReloadChat(i, r) \/ RemoveChat(i, r) \/ ClearChat(i, r)
  PROVE  RoomsInv'
<1> DEFINE list == Do("list")
           again == Do("again")
<1>1. list \in Step /\ list.op = "list" /\ again \in Step /\ again.op = "again" BY OpsAre DEF Do, Sync
<1>2. \A r \in Chat, op \in {"open", "remove", "clear"} :
        On(op, r) \in Step /\ On(op, r).op = op /\ On(op, r).room = r
  BY OpsAre
<1> HIDE DEF list, again
<1>3. chains[i] = <<>> BY DEF SwitchMode, Refresh, SelectRoom, ReloadChat, RemoveChat, ClearChat, MayClick
<1>4. selected \in Chat \union {NoChat} BY DEF RoomsInv, RestTypes
<1>5. ASSUME SwitchMode(i) PROVE RoomsInv'
  <2>1. Clicks(i, <<list>>) /\ selected' = NoChat BY <1>5 DEF SwitchMode, list
  <2>2. <<list>> \in Seq(Step) /\ Sound(<<list>>) BY <1>1, ClickSound
  <2> QED BY <1>3, <2>1, <2>2, ClicksKeeps
<1>6. ASSUME Refresh(i) PROVE RoomsInv'
  <2>1. Clicks(i, <<list, again>>) /\ selected' = selected BY <1>6 DEF Refresh, list, again
  <2>2. <<list, again>> \in Seq(Step) /\ Sound(<<list, again>>) BY <1>1, ClickSound
  <2> QED BY <1>3, <1>4, <2>1, <2>2, ClicksKeeps
<1>7. ASSUME NEW r \in Chat, SelectRoom(i, r) PROVE RoomsInv'
  <2>1. Clicks(i, <<On("open", r)>>) /\ selected' = r BY <1>7 DEF SelectRoom
  <2>2. <<On("open", r)>> \in Seq(Step) /\ Sound(<<On("open", r)>>) BY <1>1, <1>2, ClickSound
  <2> QED BY <1>3, <2>1, <2>2, ClicksKeeps
<1>8. ASSUME NEW r \in Chat, ReloadChat(i, r) PROVE RoomsInv'
  <2>1. Clicks(i, <<On("open", r), list>>) /\ selected' = r BY <1>8 DEF ReloadChat, list
  <2>2. <<On("open", r), list>> \in Seq(Step) /\ Sound(<<On("open", r), list>>) BY <1>1, <1>2, ClickSound
  <2> QED BY <1>3, <2>1, <2>2, ClicksKeeps
<1>9. ASSUME NEW r \in Chat, RemoveChat(i, r) PROVE RoomsInv'
  <2>1. Clicks(i, <<On("remove", r), list>>) /\ selected' = selected BY <1>9 DEF RemoveChat, list
  <2>2. <<On("remove", r), list>> \in Seq(Step) /\ Sound(<<On("remove", r), list>>)
    BY <1>1, <1>2, ClickSound
  <2> QED BY <1>3, <1>4, <2>1, <2>2, ClicksKeeps
<1>10. ASSUME NEW r \in Chat, ClearChat(i, r) PROVE RoomsInv'
  <2>1. Clicks(i, <<On("clear", r), list>>) /\ selected' = selected BY <1>10 DEF ClearChat, list
  <2>2. <<On("clear", r), list>> \in Seq(Step) /\ Sound(<<On("clear", r), list>>)
    BY <1>1, <1>2, ClickSound
  <2> QED BY <1>3, <1>4, <2>1, <2>2, ClicksKeeps
<1> QED BY <1>5, <1>6, <1>7, <1>8, <1>9, <1>10

\* The page that is opened, and the timer: both end by arming the timer again.
LEMMA RenderingIs == Rendering \in Seq(Step) /\ Sound(Rendering)
<1> DEFINE x == Do("sessions")
           y == Do("list")
           z == Do("arm")
           d == <<x, y, z>>
<1>1. /\ x \in Step /\ x.op = "sessions" /\ y \in Step /\ y.op = "list" /\ z \in Step /\ z.op = "arm"
  BY OpsAre DEF Do, Sync
<1> HIDE DEF x, y, z
<1>2. d \in Seq(Step) /\ Len(d) = 3 /\ d[1] = x /\ d[2] = y /\ d[3] = z BY <1>1
<1>3. \A k \in 1..Len(d) : k = 1 \/ k = 2 \/ k = 3
  <2>1. \A k \in 1..3 : k = 1 \/ k = 2 \/ k = 3 OBVIOUS
  <2> QED BY <1>2, <2>1
<1> HIDE DEF d
<1>4. \A k \in 1..Len(d) : d[k].op \in {"sessions", "list", "arm"} /\ (d[k].op = "sessions" => k = 1)
  BY <1>1, <1>2, <1>3
<1>5. 3 \in 1..Len(d) /\ 3 > 1 /\ d[3].op = "arm" BY <1>1, <1>2
<1>6. Sound(d)
  <2>1. \A k \in 1..Len(d) : d[k].op = "sessions" => \E m \in 1..Len(d) : m > k /\ d[m].op = "arm"
    BY <1>4, <1>5
  <2> QED BY <1>4, <2>1 DEF Sound
<1>7. d = Rendering BY DEF d, x, y, z, Rendering
<1> QED BY <1>2, <1>6, <1>7

LEMMA PollingIs == Polling \in Seq(Step) /\ Sound(Polling) /\ Ends(Polling)
<1> DEFINE x == Do("list")
           y == Do("look")
           z == Do("arm")
           d == <<x, y, z>>
<1>1. x \in Step /\ x.op = "list" /\ y \in Step /\ y.op = "look" /\ z \in Step /\ z.op = "arm"
  BY OpsAre DEF Do, Sync
<1> HIDE DEF x, y, z
<1>2. d \in Seq(Step) /\ Len(d) = 3 /\ d[1] = x /\ d[2] = y /\ d[3] = z BY <1>1
<1>3. \A k \in 1..Len(d) : k = 1 \/ k = 2 \/ k = 3
  <2>1. \A k \in 1..3 : k = 1 \/ k = 2 \/ k = 3 OBVIOUS
  <2> QED BY <1>2, <2>1
<1> HIDE DEF d
<1>4. \A k \in 1..Len(d) : d[k].op \in {"list", "look", "arm"} BY <1>1, <1>2, <1>3
<1>5. 3 \in 1..Len(d) /\ d[3].op = "arm" BY <1>1, <1>2
<1>6. Sound(d) BY <1>2, <1>4, PlainSound
<1>7. Ends(d) BY <1>5 DEF Ends, HasOp
<1>8. d = Polling BY DEF d, x, y, z, Polling
<1> QED BY <1>2, <1>6, <1>7, <1>8

LEMMA NavigateKeeps == ASSUME RoomsInv, NEW i \in Slot, Navigate(i) PROVE RoomsInv'
<1>1. /\ chains[i] = <<>> /\ here' = TRUE /\ chains' = [chains EXCEPT ![i] = Rendering]
      /\ UNCHANGED <<session, selected, form, isSending, refreshTimer, thrown>>
  BY DEF Navigate
<1>2. here' \in BOOLEAN BY <1>1, Zenon
<1>3. RestTypes' BY <1>1, <1>2 DEF RoomsInv, RestTypes, form
<1> QED BY <1>1, <1>3, RenderingIs, BeginsKeeps

LEMMA TimerFiresKeeps == ASSUME RoomsInv, NEW i \in Slot, TimerFires(i) PROVE RoomsInv'
<1>1. /\ chains[i] = <<>> /\ refreshTimer' = FALSE
      /\ chains' = IF session THEN [chains EXCEPT ![i] = Polling] ELSE chains
      /\ UNCHANGED <<here, session, selected, form, isSending, thrown>>
  BY DEF TimerFires
<1>2. refreshTimer' \in BOOLEAN BY <1>1, Zenon
<1>3. RestTypes' BY <1>1, <1>2 DEF RoomsInv, RestTypes, form
<1>4. CASE session
  <2>1. chains' = [chains EXCEPT ![i] = Polling] BY <1>1, <1>4
  <2> QED BY <1>1, <1>3, <2>1, PollingIs, BeginsKeeps
<1>5. CASE ~session
  <2>1. chains' = chains /\ ~session' /\ isSending' = isSending BY <1>1, <1>5
  <2> QED BY <1>3, <2>1 DEF RoomsInv, ChainsSound, GoesOnRefreshing, IsUnlocked
<1> QED BY <1>4, <1>5

LEMMA AloneKeeps ==
  ASSUME RoomsInv, LeavePage \/ DrawnOver \/ RestartPolling \/ Type PROVE RoomsInv'
<1>1. CASE LeavePage
  <2>1. /\ ~here' /\ ~session' /\ selected' = NoChat /\ ~isSending' /\ ~refreshTimer' /\ Wiped
        /\ UNCHANGED <<chains, thrown>>
    BY <1>1 DEF LeavePage
  <2>2. here' \in BOOLEAN /\ session' \in BOOLEAN /\ isSending' \in BOOLEAN /\ refreshTimer' \in BOOLEAN
    BY <1>1, Zenon DEF LeavePage
  <2>3. shown' = NoChat /\ listeners' \in Seq(Chat) /\ text' \in BOOLEAN BY <2>1, WipedIs
  <2>4. RestTypes' BY <2>1, <2>2, <2>3 DEF RoomsInv, RestTypes
  <2> QED BY <2>1, <2>4 DEF RoomsInv, ChainsSound, GoesOnRefreshing, IsUnlocked
<1>2. CASE DrawnOver
  <2>1. Wiped /\ UNCHANGED <<here, session, selected, chains, isSending, refreshTimer, thrown>>
    BY <1>2 DEF DrawnOver
  <2>2. shown' = NoChat /\ listeners' \in Seq(Chat) /\ text' \in BOOLEAN BY <2>1, WipedIs
  <2>3. RestTypes' BY <2>1, <2>2 DEF RoomsInv, RestTypes
  <2> QED BY <2>1, <2>3 DEF RoomsInv, ChainsSound, GoesOnRefreshing, IsUnlocked
<1>3. CASE RestartPolling
  <2>1. /\ refreshTimer' = TRUE
        /\ UNCHANGED <<here, session, selected, form, chains, isSending, thrown>>
    BY <1>3 DEF RestartPolling
  <2>2. refreshTimer' \in BOOLEAN BY <2>1, Zenon
  <2>3. RestTypes' BY <2>1, <2>2 DEF RoomsInv, RestTypes, form
  <2> QED BY <2>1, <2>3 DEF RoomsInv, ChainsSound, GoesOnRefreshing, IsUnlocked
<1>4. CASE Type
  <2>1. /\ text' = TRUE
        /\ UNCHANGED <<here, session, selected, shown, listeners, chains, isSending, refreshTimer, thrown>>
    BY <1>4 DEF Type
  <2>2. text' \in BOOLEAN BY <2>1, Zenon
  <2>3. RestTypes' BY <2>1, <2>2 DEF RoomsInv, RestTypes
  <2> QED BY <2>1, <2>3 DEF RoomsInv, ChainsSound, GoesOnRefreshing, IsUnlocked
<1> QED BY <1>1, <1>2, <1>3, <1>4

\* The text is taken: what is left of the handler clears the flag and arms the timer.
LEMMA TakeTextKeeps == ASSUME RoomsInv, NEW i \in Slot, TakeText(i) PROVE RoomsInv'
<1> DEFINE d == <<>> \o Tail(chains[i])
<1>1. /\ At(i, "take") /\ chains' = [chains EXCEPT ![i] = d]
      /\ text' = FALSE /\ isSending' = TRUE /\ refreshTimer' = FALSE
      /\ UNCHANGED <<here, session, selected, shown, listeners, thrown>>
  BY DEF TakeText, Goes
<1>2. chains[i] \in Seq(Step) /\ chains[i] # <<>> /\ Sound(chains[i]) /\ Head(chains[i]).op = "take"
  BY <1>1, ChainAt
<1>3. d \in Seq(Step) /\ Sound(d) /\ Frees(d) BY <1>2, OnwardIs, RestEnds
<1> HIDE DEF d
<1>4. Ends(d) BY <1>3 DEF Ends
<1>5. text' \in BOOLEAN /\ isSending' \in BOOLEAN /\ refreshTimer' \in BOOLEAN BY <1>1, Zenon
<1>6. RestTypes' BY <1>1, <1>5 DEF RoomsInv, RestTypes
<1> QED BY <1>1, <1>3, <1>4, <1>6, RoomsKeep

LEMMA AttachKeeps == ASSUME RoomsInv, NEW i \in Slot, Attach(i) PROVE RoomsInv'
<1> DEFINE r == Head(chains[i]).room
<1>1. At(i, "attach") /\ UNCHANGED <<here, session, selected, isSending, refreshTimer>> BY DEF Attach
<1>2. CASE shown = NoChat
  <2>1. Throws(i) /\ UNCHANGED form BY <1>2 DEF Attach
  <2>2. thrown' \in BOOLEAN BY <2>1, Zenon DEF Throws
  <2>3. RestTypes' BY <1>1, <2>1, <2>2 DEF RoomsInv, RestTypes, form
  <2> QED BY <1>1, <2>1, <2>3, ThrowsKeeps
<1>3. CASE shown # NoChat
  <2>1. /\ listeners' = Append(listeners, r) /\ text' = FALSE /\ Goes(i, <<>>)
        /\ UNCHANGED <<shown, thrown>>
    BY <1>3 DEF Attach
  <2>2. r \in Chat BY <1>1, ChainAt
  <2> HIDE DEF r
  <2>3. listeners' \in Seq(Chat)
    <3>1. listeners \in Seq(Chat) BY DEF RoomsInv, RestTypes
    <3> QED BY <2>1, <2>2, <3>1, AppendProperties
  <2>4. text' \in BOOLEAN BY <2>1, Zenon
  <2>5. RestTypes' BY <1>1, <2>1, <2>3, <2>4 DEF RoomsInv, RestTypes
  <2> QED BY <1>1, <2>1, <2>5, OnwardIs, GoesKeeps
<1> QED BY <1>2, <1>3

LEMMA ArmKeeps == ASSUME RoomsInv, NEW i \in Slot, Arm(i) PROVE RoomsInv'
<1> DEFINE d == <<>> \o Tail(chains[i])
<1>1. /\ At(i, "arm") /\ chains' = [chains EXCEPT ![i] = d] /\ refreshTimer' = TRUE
      /\ UNCHANGED <<here, session, selected, form, isSending, thrown>>
  BY DEF Arm, Goes
<1>2. chains[i] \in Seq(Step) /\ chains[i] # <<>> /\ Sound(chains[i]) /\ Head(chains[i]).op = "arm"
  BY <1>1, ChainAt
<1>3. d \in Seq(Step) /\ Sound(d) /\ (Frees(chains[i]) => Frees(d)) BY <1>2, OnwardIs, RestEnds
<1> HIDE DEF d
<1>4. refreshTimer' \in BOOLEAN BY <1>1, Zenon
<1>5. RestTypes' BY <1>1, <1>4 DEF RoomsInv, RestTypes, form
<1> QED BY <1>1, <1>3, <1>5, RoomsKeep

LEMMA ReleaseKeeps == ASSUME RoomsInv, NEW i \in Slot, Release(i) PROVE RoomsInv'
<1> DEFINE d == <<>> \o Tail(chains[i])
<1>1. /\ At(i, "free") /\ chains' = [chains EXCEPT ![i] = d] /\ refreshTimer' = TRUE /\ isSending' = FALSE
      /\ UNCHANGED <<here, session, selected, form, thrown>>
  BY DEF Release, Freed, Goes
<1>2. chains[i] \in Seq(Step) /\ chains[i] # <<>> /\ Sound(chains[i]) BY <1>1, ChainAt
<1>3. d \in Seq(Step) /\ Sound(d) BY <1>2, OnwardIs, RestEnds
<1> HIDE DEF d
<1>4. refreshTimer' \in BOOLEAN /\ isSending' \in BOOLEAN BY <1>1, Zenon
<1>5. RestTypes' BY <1>1, <1>4 DEF RoomsInv, RestTypes, form
<1> QED BY <1>1, <1>3, <1>5, RoomsKeep

\* The page is drawn: what is left of render() arms the timer.
LEMMA SessionsCameKeeps == ASSUME RoomsInv, NEW i \in Slot, SessionsCame(i) PROVE RoomsInv'
<1> DEFINE d == <<>> \o Tail(chains[i])
<1>1. /\ At(i, "sessions") /\ chains' = [chains EXCEPT ![i] = d] /\ session' = TRUE
      /\ selected' = NoChat /\ Wiped /\ UNCHANGED <<here, isSending, refreshTimer, thrown>>
  BY DEF SessionsCame, Goes, Others
<1>2. chains[i] \in Seq(Step) /\ chains[i] # <<>> /\ Sound(chains[i]) /\ Head(chains[i]).op = "sessions"
  BY <1>1, ChainAt
<1>3. d \in Seq(Step) /\ Sound(d) /\ Ends(d) /\ (Frees(chains[i]) => Frees(d))
  BY <1>2, OnwardIs, RestEnds
<1> HIDE DEF d
<1>4. session' \in BOOLEAN BY <1>1, Zenon
<1>5. shown' = NoChat /\ listeners' \in Seq(Chat) /\ text' \in BOOLEAN BY <1>1, WipedIs
<1>6. RestTypes' BY <1>1, <1>4, <1>5 DEF RoomsInv, RestTypes
<1> QED BY <1>1, <1>3, <1>6, RoomsKeep

\* A handler takes the text once, before it clears the flag, whether it waits first or not.
LEMMA TakingSound ==
  ASSUME NEW c \in Seq(Step), NEW t \in 1..Len(c), NEW f \in 1..Len(c), t < f,
         c[t].op = "take", c[f].op = "free",
         \A k \in 1..Len(c) : k # t => c[k].op \in {"pause", "read", "post", "list", "settle", "look", "free"}
  PROVE  Sound(c)
<1>1. \A k \in 1..Len(c) : c[k].op = "take" => k = t OBVIOUS
<1>2. \A k \in 1..Len(c) :
        c[k].op \notin {"sessions", "remove", "clear", "open", "messages", "attach"}
  OBVIOUS
<1> QED BY <1>1, <1>2 DEF Sound

LEMMA TakingIs ==
  ASSUME NEW r \in Chat
  PROVE  /\ Taking(r) \in Seq(Step) /\ Sound(Taking(r))
         /\ <<Do("pause")>> \o Taking(r) \in Seq(Step) /\ Sound(<<Do("pause")>> \o Taking(r))
<1> DEFINE x0 == Do("pause")
           x1 == On("take", r)
           x2 == On("read", r)
           x3 == On("post", r)
           x4 == Do("list")
           x5 == Do("settle")
           x6 == Do("look")
           x7 == Do("free")
           d == <<x1, x2, x3, x4, x5, x6, x7>>
           e == <<x0>> \o d
<1>1. /\ x1 \in Step /\ x1.op = "take" /\ x2 \in Step /\ x2.op = "read" /\ x3 \in Step /\ x3.op = "post"
  BY OpsAre DEF Sync
<1>2. /\ x4 \in Step /\ x4.op = "list" /\ x5 \in Step /\ x5.op = "settle"
      /\ x6 \in Step /\ x6.op = "look" /\ x7 \in Step /\ x7.op = "free"
      /\ x0 \in Step /\ x0.op = "pause"
  BY OpsAre DEF Do, Sync
<1>3. d = Taking(r) BY DEF Taking
<1>4. e = <<Do("pause")>> \o Taking(r) BY <1>3
<1> HIDE DEF x0, x1, x2, x3, x4, x5, x6, x7
<1>5. /\ d \in Seq(Step) /\ Len(d) = 7 /\ d[1] = x1 /\ d[2] = x2 /\ d[3] = x3 /\ d[4] = x4
      /\ d[5] = x5 /\ d[6] = x6 /\ d[7] = x7
  BY <1>1, <1>2
<1>6. \A k \in 1..7 : k = 1 \/ k = 2 \/ k = 3 \/ k = 4 \/ k = 5 \/ k = 6 \/ k = 7 OBVIOUS
<1> DEFINE Later == {"pause", "read", "post", "list", "settle", "look", "free"}
<1>7. \A k \in 1..Len(d) : k # 1 => d[k].op \in Later BY <1>1, <1>2, <1>5, <1>6
<1>8. Sound(d)
  <2>1. 1 \in 1..Len(d) /\ 7 \in 1..Len(d) /\ d[1].op = "take" /\ d[7].op = "free" BY <1>1, <1>2, <1>5
  <2>2. 1 < 7 OBVIOUS
  <2> HIDE DEF d
  <2> QED BY <1>5, <1>7, <2>1, <2>2, TakingSound
<1>9. <<x0>> \in Seq(Step) /\ Len(<<x0>>) = 1 /\ <<x0>>[1] = x0 BY <1>2
<1> HIDE DEF d
<1>10. /\ e \in Seq(Step) /\ Len(e) = 1 + 7
       /\ \A k \in 1..(1 + 7) : e[k] = IF k <= 1 THEN <<x0>>[k] ELSE d[k - 1]
  <2> DEFINE y == <<x0>>
  <2>1. y \in Seq(Step) /\ d \in Seq(Step) /\ Len(y) = 1 /\ Len(d) = 7 BY <1>5, <1>9
  <2> HIDE DEF y
  <2>2. /\ y \o d \in Seq(Step) /\ Len(y \o d) = Len(y) + Len(d)
        /\ \A k \in 1..Len(y) + Len(d) : (y \o d)[k] = IF k <= Len(y) THEN y[k] ELSE d[k - Len(y)]
    BY <2>1, ConcatProperties
  <2>3. /\ y \o d \in Seq(Step) /\ Len(y \o d) = 1 + 7
        /\ \A k \in 1..(1 + 7) : (y \o d)[k] = IF k <= 1 THEN y[k] ELSE d[k - 1]
    BY <2>1, <2>2
  <2> QED BY <2>3 DEF y
<1> HIDE DEF e
<1>11. Len(e) = 8 /\ e[1] = x0 /\ \A k \in 2..8 : e[k] = d[k - 1] /\ k - 1 \in 1..7
  <2>1. Len(e) = 8 /\ \A k \in 1..8 : k \in 1..(1 + 7) BY <1>10
  <2>2. 1 \in 1..8 /\ \A k \in 2..8 : k \in 1..8 /\ ~(k <= 1) /\ k - 1 \in 1..7 OBVIOUS
  <2> QED BY <1>9, <1>10, <2>1, <2>2
<1>12. \A k \in 1..Len(e) : k # 2 => e[k].op \in Later
  <2> SUFFICES ASSUME NEW k \in 1..Len(e), k # 2 PROVE e[k].op \in Later OBVIOUS
  <2>1. CASE k = 1 BY <1>2, <1>11, <2>1
  <2>2. CASE k # 1
    <3>1. k \in 2..8 /\ k - 1 \in 1..Len(d) /\ k - 1 # 1 BY <1>5, <1>11, <2>2
    <3>2. e[k] = d[k - 1] /\ d[k - 1].op \in Later BY <1>7, <1>11, <3>1
    <3> QED BY <3>2
  <2> QED BY <2>1, <2>2
<1>13. Sound(e)
  <2>1. 2 \in 2..8 /\ 8 \in 2..8 /\ 2 < 8 /\ 2 - 1 = 1 /\ 8 - 1 = 7 OBVIOUS
  <2>2. e[2] = d[1] /\ e[8] = d[7] BY <1>11, <2>1
  <2>3. 2 \in 1..Len(e) /\ 8 \in 1..Len(e) /\ e[2].op = "take" /\ e[8].op = "free"
    BY <1>1, <1>2, <1>5, <1>11, <2>2
  <2> QED BY <1>10, <1>12, <2>1, <2>3, TakingSound
<1> QED BY <1>3, <1>4, <1>5, <1>8, <1>10, <1>13

\* The handlers of a form begin where no chain was.
LEMMA SubmitKeeps == ASSUME RoomsInv, NEW composing \in BOOLEAN, Submit(composing) PROVE RoomsInv'
<1> DEFINE Which(at, i) == CHOOSE k \in 1..Len(listeners) : at[k] = i
           Chain(at, i) == (IF composing /\ Which(at, i) = 1 THEN <<Do("pause")>> ELSE <<>>)
                           \o Taking(listeners[Which(at, i)])
<1>1. PICK at \in [1..Len(listeners) -> FreeSlots] :
        chains' = [i \in Slot |-> IF i \notin Range(at) THEN chains[i] ELSE Chain(at, i)]
  BY DEF Submit
<1>2. UNCHANGED <<here, session, selected, form, isSending, refreshTimer, thrown>> BY DEF Submit
<1>3. RestTypes' BY <1>2 DEF RoomsInv, RestTypes, form
<1>4. \A i \in Slot : i \in Range(at) => chains[i] = <<>> BY DEF Range, FreeSlots
<1>5. ASSUME NEW i \in Range(at) PROVE Chain(at, i) \in Seq(Step) /\ Sound(Chain(at, i))
  <2> DEFINE k == Which(at, i)
             t == Taking(listeners[k])
  <2>1. \E m \in 1..Len(listeners) : at[m] = i BY DEF Range
  <2>2. k \in 1..Len(listeners) BY <2>1
  <2> HIDE DEF k, Which
  <2>3. listeners[k] \in Chat
    <3>1. listeners \in Seq(Chat) BY DEF RoomsInv, RestTypes
    <3> QED BY <2>2, <3>1, ElementOfSeq
  <2>4. /\ t \in Seq(Step) /\ Sound(t)
        /\ <<Do("pause")>> \o t \in Seq(Step) /\ Sound(<<Do("pause")>> \o t)
    BY <2>3, TakingIs
  <2> HIDE DEF t
  <2>5. <<>> \o t = t BY <2>4, ConcatEmptySeq
  <2>6. Chain(at, i) = IF composing /\ k = 1 THEN <<Do("pause")>> \o t ELSE <<>> \o t BY DEF k, t
  <2> HIDE DEF Chain
  <2> QED BY <2>4, <2>5, <2>6
<1> HIDE DEF Chain, Which
<1>6. ChainsSound' BY <1>1, <1>5 DEF RoomsInv, ChainsSound
<1>7. \A i \in Slot : Ends(chains[i]) \/ Frees(chains[i]) => chains'[i] = chains[i]
  <2> SUFFICES ASSUME NEW i \in Slot, Ends(chains[i]) \/ Frees(chains[i]) PROVE chains'[i] = chains[i]
    OBVIOUS
  <2>1. chains[i] # <<>>
    <3>1. ~Ends(<<>>) /\ ~Frees(<<>>) BY DEF Ends, Frees, HasOp
    <3> QED BY <3>1
  <2>2. i \notin Range(at) BY <1>4, <2>1
  <2> QED BY <1>1, <2>2
<1>8. GoesOnRefreshing' /\ IsUnlocked'
  <2>1. session' = session /\ thrown' = thrown /\ refreshTimer' = refreshTimer /\ isSending' = isSending
    BY <1>2
  <2>2. ASSUME NEW i \in Slot, Ends(chains[i]) PROVE Ends(chains'[i]) BY <1>7, <2>2
  <2>3. ASSUME NEW i \in Slot, Frees(chains[i]) PROVE Frees(chains'[i]) BY <1>7, <2>3
  <2>4. GoesOnRefreshing' BY <2>1, <2>2 DEF RoomsInv, GoesOnRefreshing
  <2>5. IsUnlocked' BY <2>1, <2>3 DEF RoomsInv, IsUnlocked
  <2> QED BY <2>4, <2>5
<1> QED BY <1>3, <1>6, <1>8 DEF RoomsInv

LEMMA RoomsStart == ASSUME RoomsInit PROVE RoomsInv
<1>1. /\ here \in BOOLEAN /\ session \in BOOLEAN /\ text \in BOOLEAN
      /\ isSending \in BOOLEAN /\ refreshTimer \in BOOLEAN /\ thrown \in BOOLEAN
  BY Zenon DEF RoomsInit
<1>2. RestTypes BY <1>1, EmptySeq DEF RoomsInit, RestTypes
<1>3. chains = [i \in Slot |-> <<>>] /\ <<>> \in Seq(Step) BY EmptySeq DEF RoomsInit
<1>4. Sound(<<>>) BY DEF Sound
<1>5. ChainsSound BY <1>3, <1>4 DEF ChainsSound
<1>6. ~session /\ ~isSending BY DEF RoomsInit
<1> QED BY <1>2, <1>5, <1>6 DEF RoomsInv, GoesOnRefreshing, IsUnlocked

LEMMA RoomsStep == ASSUME RoomsInv, [RoomsNext]_roomsVars PROVE RoomsInv'
<1>1. CASE LeavePage \/ DrawnOver \/ RestartPolling \/ Type BY <1>1, AloneKeeps
<1>2. ASSUME NEW composing \in BOOLEAN, Submit(composing) PROVE RoomsInv' BY <1>2, SubmitKeeps
<1>3. ASSUME NEW i \in Slot, Navigate(i) \/ TimerFires(i) \/ TakeText(i) \/ Attach(i) PROVE RoomsInv'
  BY <1>3, NavigateKeeps, TimerFiresKeeps, TakeTextKeeps, AttachKeeps
<1>4. ASSUME NEW i \in Slot,
             \/ SwitchMode(i) \/ Refresh(i)
             \/ \E r \in Chat : SelectRoom(i, r) \/ ReloadChat(i, r) \/ RemoveChat(i, r) \/ ClearChat(i, r)
      PROVE  RoomsInv'
  BY <1>4, UserKeeps
<1>5. ASSUME NEW i \in Slot, Look(i) \/ Again(i) \/ Arm(i) \/ Release(i) PROVE RoomsInv'
  BY <1>5, LooksKeep, ArmKeeps, ReleaseKeeps
<1>6. ASSUME NEW i \in Slot,
             SessionsCame(i) \/ ListCame(i) \/ MarkedAsRead(i) \/ Opened(i) \/ NoAnswer(i)
      PROVE  RoomsInv'
  BY <1>6, SessionsCameKeeps, ListsKeep, OpenedKeeps, NoAnswerKeeps
<1>7. ASSUME NEW i \in Slot, NEW ok \in BOOLEAN,
             MessagesCame(i, ok) \/ Posted(i, ok) \/ Removed(i, ok) \/ ChatCleared(i, ok)
      PROVE  RoomsInv'
  BY <1>7, MessagesCameKeeps, PostedKeeps, RemovedKeeps, ChatClearedKeeps
<1>8. ASSUME NEW i \in Slot, NEW op \in {"refresh", "pause", "settle"}, Ended(i, op) PROVE RoomsInv'
  BY <1>8, EndedKeeps
<1>9. CASE UNCHANGED roomsVars
  <2>1. UNCHANGED <<here, session, selected, shown, listeners, text, chains, isSending, refreshTimer, thrown>>
    BY <1>9 DEF roomsVars
  <2> QED BY <2>1 DEF RoomsInv, RestTypes, ChainsSound, GoesOnRefreshing, IsUnlocked
<1> QED BY <1>1, <1>2, <1>3, <1>4, <1>5, <1>6, <1>7, <1>8, <1>9 DEF RoomsNext

\* The form never stays locked, whatever loads, sends, restarts and unanswered requests overlap:
\* the chain of pages/chatRooms.js that set isSending is on its way to its finally block.  And as
\* long as no request went without an answer (one that did may end the polling), the
\* conversation goes on being refreshed: a chain that stopped the timer is on its way to
\* startPolling().
THEOREM RoomsRecover == RoomsSpec => [](RoomsTypeOK /\ PageRecovers)
<1>1. RoomsInit => RoomsInv BY RoomsStart
<1>2. RoomsInv /\ [RoomsNext]_roomsVars => RoomsInv' BY RoomsStep
<1>3. RoomsInv => RoomsTypeOK /\ PageRecovers
  <2> SUFFICES ASSUME RoomsInv PROVE RoomsTypeOK /\ PageRecovers OBVIOUS
  <2>1. /\ here \in BOOLEAN /\ session \in BOOLEAN /\ text \in BOOLEAN
        /\ isSending \in BOOLEAN /\ refreshTimer \in BOOLEAN /\ thrown \in BOOLEAN
    BY DEF RoomsInv, RestTypes
  <2>2. {here, session, text, isSending, refreshTimer, thrown} \subseteq BOOLEAN BY <2>1, Zenon
  <2>3. \A S : \A s \in Seq(S) : Range(s) \subseteq S BY ElementOfSeq, LenProperties DEF Range
  <2>4. {selected, shown} \subseteq Chat \union {NoChat} /\ listeners \in Seq(Chat)
        /\ \A i \in Slot : chains[i] \in Seq(Step)
    BY DEF RoomsInv, RestTypes, ChainsSound
  <2>5. RoomsTypeOK BY <2>2, <2>3, <2>4 DEF RoomsTypeOK
  <2>6. \A i \in Slot : Ends(chains[i]) = Arms(i)
    BY DEF Ends, Frees, HasOp, Arms, Has
  <2>7. \A i \in Slot : Frees(chains[i]) = (Has(i, "free") /\ ~Has(i, "take"))
    BY DEF Frees, HasOp, Has
  <2>8. PageRecovers BY <2>6, <2>7 DEF RoomsInv, GoesOnRefreshing, IsUnlocked, PageRecovers
  <2> QED BY <2>5, <2>8
<1> QED BY <1>1, <1>2, <1>3, PTL DEF RoomsSpec

-----------------------------------------------------------------------------
(* The pages together: a behaviour of the dashboard is one of each page.   *)

LEMMA EachPage == PagesSpec => RoomsSpec /\ WebPageSpec /\ QrSpec /\ TypingSpec /\ FeedSpec
<1>1. PagesInit => RoomsInit /\ WebPageInit /\ QrInit /\ TypingInit /\ FeedInit BY DEF PagesInit
<1>2. ASSUME [PagesNext]_pagesVars
      PROVE  /\ [RoomsNext]_roomsVars /\ [WebPageNext]_webPageVars /\ [QrNext]_qrVars
             /\ [TypingNext]_typingVars /\ [FeedNext]_feedVars
  <2>1. CASE UNCHANGED pagesVars BY <2>1 DEF pagesVars
  <2>2. CASE PagesNext BY <2>2 DEF PagesNext
  <2> QED BY <1>2, <2>1, <2>2
<1> QED BY <1>1, <1>2, PTL DEF PagesSpec, RoomsSpec, WebPageSpec, QrSpec, TypingSpec, FeedSpec

\* Every variable of every page has its type, whichever page is used: what
\* pages/chatRooms.js, webhooks.js, sessions.js and events.js keep between their steps.
THEOREM PagesTypes == PagesSpec => []PagesTypesOK
<1>1. /\ RoomsTypeOK /\ PageRecovers => RoomsTypeOK
      /\ WebPageTypeOK /\ UntouchedUrlIsKept => WebPageTypeOK
      /\ QrTypeOK /\ QrIsFollowed => QrTypeOK
      /\ TypingTypeOK /\ TypingEnds => TypingTypeOK
      /\ FeedTypeOK /\ FeedIsOrdered => FeedTypeOK
  OBVIOUS
<1>2. RoomsTypeOK /\ WebPageTypeOK /\ QrTypeOK /\ TypingTypeOK /\ FeedTypeOK => PagesTypesOK
  BY DEF PagesTypesOK
<1> QED BY <1>2, EachPage, RoomsRecover, WebhookUrlIsKept, SignInIsFollowed, TypingHasAnEnd,
           FeedOrdered, PTL

\* What the theorem of each page says, with its exceptions, holds of the dashboard as a whole,
\* whichever page is used.
THEOREM PagesKeepTheirWord ==
  PagesSpec => [](PageRecovers /\ UntouchedUrlIsKept /\ QrIsFollowed /\ TypingEnds /\ FeedIsOrdered)
BY EachPage, RoomsRecover, WebhookUrlIsKept, SignInIsFollowed, TypingHasAnEnd, FeedOrdered, PTL

=============================================================================
