------------------------------ MODULE ChatsProofs ------------------------------
(***************************************************************************)
(* Proofs about AgentLoop, AiSettingsPage, InboundRouting, AiMetrics and   *)
(* ReplyRules, for any replies, rounds, attempts and quota, any sessions,  *)
(* conversations, messages, limits and times, carried over to MCChats at   *)
(* the end.                                                                *)
(*                                                                         *)
(* Agent: the requests of a reply are paid for by its rounds, its attempts *)
(* and the one fallback; the quota is the end of the list of all sends,    *)
(* and what was shifted out of it is an hour old.  Page: the last load     *)
(* that was asked for is of the selected session.  Inbound: a message is   *)
(* in one place at a time, in a batch, a queue, a generation or answered.  *)
(* History: a walk over a sequence exists, step by step, and keeps what    *)
(* every step keeps; the first number at which it would not is the step    *)
(* that breaks it.                                                         *)
(* Figures: a sum is the number of pairs below its terms, so a term that   *)
(* grows by one adds one.                                                  *)
(***************************************************************************)
EXTENDS MCChats, SequenceTheorems, FiniteSetTheorems, WellFoundedInduction, TLAPS

-----------------------------------------------------------------------------
(* The agent.                                                              *)

Step == {"idle", "asking", "calling", "sending", "replied", "failed"}
LoopState == [step : Step, round : Nat, attempt : Nat, images : BOOLEAN, dropped : BOOLEAN,
              pending : Seq(Call), owed : Nat, requests : Nat]

\* What a reply may have cost so far: its rounds, its attempts, and the fallback.
Paid(s) == MaxAttempts * s.round + s.attempt + (IF s.dropped THEN MaxAttempts ELSE 0)
LoopFits(s) ==
  /\ s \in LoopState /\ s.round <= MaxRounds /\ s.attempt <= MaxAttempts
  /\ s.owed = Len(s.pending) /\ Len(s.pending) <= MaxCalls /\ s.requests <= Paid(s)
  /\ s.step = "asking" => s.pending = <<>>
  /\ s.step \in {"calling", "sending"} => s.pending # <<>>

\* The quota is the end of the list of sends; what is before it is an hour old.
Gone == Len(sends) - Len(quota)
QuotaIsTheEnd ==
  /\ Gone >= 0
  /\ \A i \in 1..Len(quota) : quota[i] = sends[Gone + i].at
  /\ \A i \in 1..Gone : sends[i].at + Hour <= time

AgentInv ==
  /\ time \in 0..LastTime /\ quota \in Seq(0..LastTime) /\ sends \in Seq([at : 0..LastTime, to : Call])
  /\ loop \in [Reply -> LoopState] /\ \A r \in Reply : LoopFits(loop[r])
  /\ QuotaIsTheEnd /\ SendsKeepTheQuota

\* Among naturals there is a least one.
LEMMA NatLeast ==
  ASSUME NEW T \in SUBSET Nat, T # {}
  PROVE  \E x \in T : \A y \in T : x <= y
<1> DEFINE R == OpToRel(<, Nat)
<1>1. \A x, y \in Nat : y < x => <<y, x>> \in R BY DEF OpToRel
<1>2. IsWellFoundedOn(R, Nat) BY NatLessThanWellFounded
<1> HIDE DEF R
<1>3. PICK x \in T : \A y \in T : ~(<<y, x>> \in R) BY <1>2, WFMin
<1>4. \A y \in T : ~(y < x) BY <1>1, <1>3
<1>5. \A y \in T : y \in Nat /\ x \in Nat /\ ~(y < x) BY <1>4
<1>6. \A y \in T : x <= y BY <1>5
<1> QED BY <1>6

\* The bounds are naturals; rounds cost as much as attempts.
LEMMA AgentBounds ==
  /\ MaxRounds \in Nat /\ MaxAttempts \in Nat /\ MaxPerHour \in Nat /\ Hour \in Nat
  /\ LastTime \in Nat /\ MaxCalls \in Nat /\ MaxAttempts >= 1 /\ MaxPerHour >= 1
BY AgentAssumption

LEMMA Rounds ==
  ASSUME NEW n \in Nat
  PROVE  /\ MaxAttempts * n \in Nat /\ MaxAttempts * (n + 1) = MaxAttempts * n + MaxAttempts
         /\ n <= MaxRounds => MaxAttempts * n <= MaxAttempts * MaxRounds
<1>1. MaxAttempts \in Nat /\ MaxRounds \in Nat BY AgentBounds
<1>2. MaxAttempts * n \in Nat /\ MaxAttempts * (n + 1) = MaxAttempts * n + MaxAttempts BY <1>1
<1>3. n <= MaxRounds => MaxAttempts * n <= MaxAttempts * MaxRounds
  <2> SUFFICES ASSUME n <= MaxRounds PROVE MaxAttempts * n <= MaxAttempts * MaxRounds OBVIOUS
  <2> DEFINE d == MaxRounds - n
  <2>1. d \in Nat /\ MaxRounds = n + d BY <1>1
  <2> HIDE DEF d
  <2>2. MaxAttempts * (n + d) = MaxAttempts * n + MaxAttempts * d BY <1>1, <2>1
  <2>3. MaxAttempts * d \in Nat BY <1>1, <2>1
  <2> QED BY <1>2, <2>1, <2>2, <2>3
<1> QED BY <1>2, <1>3

\* After a tool message that answers one call the reply still fits.
LEMMA ToolMessageFits ==
  ASSUME NEW s, LoopFits(s), s.step \in {"calling", "sending"}
  PROVE  LoopFits(ToolMessage(s))
<1> DEFINE a == [s EXCEPT !.pending = Tail(@), !.owed = @ - 1]
<1>1. /\ s \in LoopState /\ s.round <= MaxRounds /\ s.attempt <= MaxAttempts
      /\ s.owed = Len(s.pending) /\ Len(s.pending) <= MaxCalls /\ s.requests <= Paid(s)
      /\ s.pending # <<>>
  BY DEF LoopFits
<1>2. s.pending \in Seq(Call) /\ s.round \in Nat /\ s.attempt \in Nat /\ s.requests \in Nat
  BY <1>1 DEF LoopState
<1>3. Tail(s.pending) \in Seq(Call) /\ Len(Tail(s.pending)) = Len(s.pending) - 1 /\ Len(s.pending) \in Nat \ {0}
  BY <1>1, <1>2
<1>4. /\ a \in LoopState /\ a.pending = Tail(s.pending) /\ a.owed = Len(s.pending) - 1
      /\ a.round = s.round /\ a.attempt = s.attempt /\ a.requests = s.requests /\ a.dropped = s.dropped
      /\ a.step = s.step
  <2>1. s.owed - 1 \in Nat /\ s.owed = Len(s.pending) BY <1>1, <1>3
  <2> QED BY <1>1, <1>3, <2>1 DEF LoopState
<1> HIDE DEF a
<1>5. Paid(a) = Paid(s) BY <1>4 DEF Paid
<1>6. a.owed = Len(a.pending) /\ Len(a.pending) <= MaxCalls /\ a.requests <= Paid(a)
  BY <1>1, <1>2, <1>3, <1>4, <1>5, AgentBounds
<1>7. LoopFits(NextRound(a))
  <2>1. CASE a.pending # <<>>
    <3> DEFINE b == [a EXCEPT !.step = "calling"]
    <3>1. /\ b \in LoopState /\ b.step = "calling" /\ b.pending = a.pending /\ b.owed = a.owed
          /\ b.round = a.round /\ b.attempt = a.attempt /\ b.requests = a.requests /\ b.dropped = a.dropped
      BY <1>4 DEF LoopState, Step
    <3> HIDE DEF b
    <3>2. Paid(b) = Paid(a) BY <3>1 DEF Paid
    <3>3. LoopFits(b) BY <1>1, <1>4, <1>6, <2>1, <3>1, <3>2 DEF LoopFits
    <3> QED BY <2>1, <3>3 DEF NextRound, b
  <2>2. CASE a.pending = <<>> /\ a.round = MaxRounds
    <3> DEFINE b == [a EXCEPT !.step = "failed"]
    <3>1. /\ b \in LoopState /\ b.step = "failed" /\ b.pending = a.pending /\ b.owed = a.owed
          /\ b.round = a.round /\ b.attempt = a.attempt /\ b.requests = a.requests /\ b.dropped = a.dropped
      BY <1>4 DEF LoopState, Step
    <3> HIDE DEF b
    <3>2. Paid(b) = Paid(a) BY <3>1 DEF Paid
    <3>3. LoopFits(b) BY <1>1, <1>4, <1>6, <3>1, <3>2 DEF LoopFits
    <3> QED BY <2>2, <3>3 DEF NextRound, b
  <2>3. CASE a.pending = <<>> /\ a.round # MaxRounds
    <3> DEFINE b == [a EXCEPT !.step = "asking", !.round = @ + 1, !.attempt = 1, !.requests = @ + 1]
    <3>0. a.requests + 1 \in Nat /\ a.round + 1 \in Nat BY <1>2, <1>4
    <3>1. /\ b \in LoopState /\ b.step = "asking" /\ b.pending = a.pending /\ b.owed = a.owed
          /\ b.round = a.round + 1 /\ b.attempt = 1 /\ b.requests = a.requests + 1 /\ b.dropped = a.dropped
      BY <1>4, <3>0 DEF LoopState, Step
    <3> HIDE DEF b
    <3>2. a.round + 1 <= MaxRounds /\ 1 <= MaxAttempts BY <1>1, <1>2, <1>4, <2>3, AgentBounds
    <3> DEFINE extra == IF a.dropped THEN MaxAttempts ELSE 0
    <3>3. Paid(b) = MaxAttempts * (a.round + 1) + 1 + extra BY <3>1 DEF Paid
    <3>4. Paid(a) = MaxAttempts * a.round + a.attempt + extra BY DEF Paid
    <3>5. extra \in Nat BY AgentBounds
    <3> HIDE DEF extra
    <3>6. MaxAttempts * a.round \in Nat /\ MaxAttempts * (a.round + 1) = MaxAttempts * a.round + MaxAttempts
      BY <1>2, <1>4, Rounds
    <3>7. a.attempt \in Nat /\ a.attempt <= MaxAttempts /\ a.requests \in Nat BY <1>1, <1>2, <1>4
    <3>8. a.requests + 1 <= Paid(b)
      <4> DEFINE x == MaxAttempts * a.round
                 y == MaxAttempts * (a.round + 1)
      <4>1. x \in Nat /\ y = x + MaxAttempts /\ Paid(b) = y + 1 + extra /\ Paid(a) = x + a.attempt + extra
        BY <3>3, <3>4, <3>6
      <4> HIDE DEF x, y
      <4> QED BY <4>1, <3>5, <3>7, <1>6, AgentBounds
    <3>9. LoopFits(b) BY <1>6, <2>3, <3>1, <3>2, <3>8 DEF LoopFits
    <3> QED BY <2>3, <3>9 DEF NextRound, b
  <2> QED BY <2>1, <2>2, <2>3
<1> QED BY <1>7 DEF ToolMessage, a

\* What consumeSendQuota() shifts out is an hour old, and only that; the rest is kept.
LEMMA OldIs ==
  ASSUME quota \in Seq(0..LastTime), time \in Nat
  PROVE  /\ Old \in 0..Len(quota)
         /\ \A i \in 1..Old : quota[i] <= time - Hour
         /\ Recent \in Seq(0..LastTime) /\ Len(Recent) = Len(quota) - Old
         /\ \A i \in 1..Len(Recent) : Recent[i] = quota[Old + i]
<1> DEFINE T == {n \in 0..Len(quota) : n < Len(quota) => quota[n + 1] > time - Hour}
<1>0. Len(quota) \in Nat /\ Hour \in Nat /\ \A i \in 1..Len(quota) : quota[i] \in 0..LastTime /\ quota[i] \in Nat
  BY AgentBounds
<1>1. Len(quota) \in T BY <1>0
<1>2. T \in SUBSET Nat BY <1>0
<1>3. PICK n \in T : \A y \in T : n <= y BY <1>1, <1>2, NatLeast
<1>4. n \in 0..Len(quota) /\ n \in Nat /\ (n < Len(quota) => quota[n + 1] > time - Hour) BY <1>0, <1>3
<1>5. ASSUME NEW i \in 1..n PROVE quota[i] <= time - Hour
  <2>1. i - 1 \in 0..Len(quota) /\ i - 1 < n /\ i - 1 < Len(quota) /\ (i - 1) + 1 = i /\ i \in 1..Len(quota)
    BY <1>0, <1>4
  <2>2. i - 1 \notin T BY <1>2, <1>3, <1>4, <2>1
  <2>3. ~(quota[i] > time - Hour) BY <2>1, <2>2
  <2> QED BY <1>0, <2>1, <2>3
<1> HIDE DEF T
<1>6. /\ Old \in 0..Len(quota) /\ \A i \in 1..Old : quota[i] <= time - Hour
  BY <1>4, <1>5 DEF Old
<1> DEFINE o == Old
<1>7. o \in 0..Len(quota) BY <1>6
<1> HIDE DEF o
<1> DEFINE w == SubSeq(quota, o + 1, Len(quota))
<1>8. /\ w \in Seq(0..LastTime) /\ Len(w) = Len(quota) - o /\ \A i \in 1..Len(w) : w[i] = quota[o + i]
  BY <1>0, <1>7
<1>9. Recent = w BY DEF Recent, o
<1> HIDE DEF w
<1> QED BY <1>6, <1>8, <1>9 DEF o

\* Shifting out what is old leaves the end of the list of sends.
LEMMA RecentIsTheEnd ==
  ASSUME AgentInv, quota' = Recent, sends' = sends, time' = time
  PROVE  quota' \in Seq(0..LastTime) /\ QuotaIsTheEnd'
<1>1. quota \in Seq(0..LastTime) /\ sends \in Seq([at : 0..LastTime, to : Call]) /\ time \in Nat
      /\ Len(quota) \in Nat /\ Len(sends) \in Nat
  BY DEF AgentInv
<1>2. /\ Gone >= 0 /\ Gone \in Int /\ Gone = Len(sends) - Len(quota)
      /\ \A i \in 1..Len(quota) : quota[i] = sends[Gone + i].at
      /\ \A i \in 1..Gone : sends[i].at + Hour <= time
  BY <1>1 DEF AgentInv, QuotaIsTheEnd, Gone
<1>3. /\ Old \in 0..Len(quota) /\ \A i \in 1..Old : quota[i] <= time - Hour
      /\ Recent \in Seq(0..LastTime) /\ Len(Recent) = Len(quota) - Old
      /\ \A i \in 1..Len(Recent) : Recent[i] = quota[Old + i]
  BY <1>1, OldIs
<1> DEFINE o == Old
           g == Gone
<1>4. o \in 0..Len(quota) /\ o \in Nat /\ g \in Nat /\ Len(sends) = g + Len(quota) /\ Hour \in Nat
  BY <1>1, <1>2, <1>3, AgentBounds
<1>5. Gone' = g + o BY <1>1, <1>2, <1>3 DEF Gone
<1>6. ASSUME NEW i \in 1..Len(Recent) PROVE Recent[i] = sends[(g + o) + i].at
  <2>1. o + i \in 1..Len(quota) /\ g + (o + i) = (g + o) + i BY <1>1, <1>3, <1>4
  <2>2. quota[o + i] = sends[g + (o + i)].at BY <1>2, <2>1
  <2> QED BY <1>3, <2>1, <2>2
<1>7. ASSUME NEW i \in 1..(g + o) PROVE sends[i].at + Hour <= time
  <2>1. CASE i \in 1..g BY <1>2, <2>1
  <2>2. CASE i \notin 1..g
    <3> DEFINE j == i - g
    <3>1. j \in 1..o /\ g + j = i /\ j \in 1..Len(quota) BY <1>4, <2>2
    <3> HIDE DEF j
    <3>2. quota[j] = sends[i].at /\ quota[j] <= time - Hour BY <1>2, <1>3, <3>1
    <3>3. quota[j] \in Nat BY <1>1, <3>1, AgentBounds
    <3> QED BY <1>1, <1>4, <3>2, <3>3
  <2> QED BY <2>1, <2>2
<1>8. g + o >= 0 BY <1>4
<1> HIDE DEF o, g
<1> QED BY <1>3, <1>5, <1>6, <1>7, <1>8 DEF QuotaIsTheEnd

\* A send within the quota comes an hour after the one MaxPerHour before it.
LEMMA SendKeepsTheQuota ==
  ASSUME AgentInv, NEW to \in Call, QuotaLeft, Allowlist => to # "other",
         quota' = Append(Recent, time), sends' = Append(sends, [at |-> time, to |-> to]), time' = time
  PROVE  /\ quota' \in Seq(0..LastTime) /\ sends' \in Seq([at : 0..LastTime, to : Call])
         /\ QuotaIsTheEnd' /\ SendsKeepTheQuota'
<1>1. quota \in Seq(0..LastTime) /\ sends \in Seq([at : 0..LastTime, to : Call]) /\ time \in 0..LastTime
      /\ time \in Nat /\ Len(quota) \in Nat /\ Len(sends) \in Nat
  BY AgentBounds DEF AgentInv
<1>2. /\ Gone >= 0 /\ Gone \in Int /\ Gone = Len(sends) - Len(quota)
      /\ \A i \in 1..Len(quota) : quota[i] = sends[Gone + i].at
      /\ \A i \in 1..Gone : sends[i].at + Hour <= time
  BY <1>1 DEF AgentInv, QuotaIsTheEnd, Gone
<1>3. /\ Old \in 0..Len(quota) /\ \A i \in 1..Old : quota[i] <= time - Hour
      /\ Recent \in Seq(0..LastTime) /\ Len(Recent) = Len(quota) - Old
      /\ \A i \in 1..Len(Recent) : Recent[i] = quota[Old + i]
  BY <1>1, OldIs
<1> DEFINE o == Old
           g == Gone
           x == [at |-> time, to |-> to]
           w == Recent
<1>4. o \in 0..Len(quota) /\ o \in Nat /\ g \in Nat /\ Len(sends) = g + Len(quota) /\ Hour \in Nat
      /\ MaxPerHour \in Nat /\ MaxPerHour >= 1
  BY <1>1, <1>2, <1>3, AgentBounds
<1>5. /\ w \in Seq(0..LastTime) /\ Len(w) = Len(quota) - o /\ Len(w) \in Nat /\ Len(w) < MaxPerHour
      /\ \A i \in 1..Len(w) : w[i] = quota[o + i]
  BY <1>1, <1>3 DEF QuotaLeft
<1>6. x \in [at : 0..LastTime, to : Call] /\ x.at = time /\ x.to = to BY <1>1
<1>60. \A i \in 1..g : sends[i].at + Hour <= time BY <1>2
<1>61. \A i \in 1..Len(quota) : quota[i] = sends[g + i].at BY <1>2
<1>62. \A i \in 1..o : quota[i] <= time - Hour BY <1>3
<1>63. Gone' = Len(sends') - Len(quota') BY DEF Gone
<1>64. quota' = Append(w, time) /\ sends' = Append(sends, x) OBVIOUS
<1> HIDE DEF o, g, x, w
<1>7. /\ quota' \in Seq(0..LastTime) /\ Len(quota') = Len(w) + 1 /\ quota'[Len(w) + 1] = time
      /\ \A i \in 1..Len(w) : quota'[i] = w[i]
  BY <1>1, <1>5, <1>64
<1>8. /\ sends' \in Seq([at : 0..LastTime, to : Call]) /\ Len(sends') = Len(sends) + 1
      /\ sends'[Len(sends) + 1] = x /\ \A i \in 1..Len(sends) : sends'[i] = sends[i]
  BY <1>1, <1>6, <1>64
<1>9. Gone' = g + o BY <1>1, <1>4, <1>5, <1>7, <1>8, <1>63
<1>10. ASSUME NEW i \in 1..(g + o) PROVE sends[i].at + Hour <= time
  <2>1. CASE i \in 1..g BY <1>60, <2>1
  <2>2. CASE i \notin 1..g
    <3> DEFINE j == i - g
    <3>1. j \in 1..o /\ g + j = i /\ j \in 1..Len(quota) BY <1>4, <2>2
    <3> HIDE DEF j
    <3>2. quota[j] = sends[i].at /\ quota[j] <= time - Hour BY <1>61, <1>62, <3>1
    <3>3. quota[j] \in Nat BY <1>1, <3>1, AgentBounds
    <3> QED BY <1>1, <1>4, <3>2, <3>3
  <2> QED BY <2>1, <2>2
<1>11. ASSUME NEW i \in 1..(g + o) PROVE sends'[i].at + Hour <= time
  <2>1. i \in 1..Len(sends) BY <1>1, <1>4
  <2> QED BY <1>8, <1>10, <2>1
<1>12. ASSUME NEW i \in 1..Len(quota') PROVE quota'[i] = sends'[(g + o) + i].at
  <2>0. (g + o) + Len(w) = Len(sends) BY <1>1, <1>4, <1>5
  <2>1. CASE i \in 1..Len(w)
    <3>1. o + i \in 1..Len(quota) /\ g + (o + i) = (g + o) + i
      <4>1. i \in Nat /\ i >= 1 /\ i <= Len(quota) - o BY <1>5, <2>1
      <4> QED BY <1>1, <1>4, <4>1
    <3>2. w[i] = quota[o + i] BY <1>5, <2>1
    <3>5. quota[o + i] = sends[g + (o + i)].at
      <4> DEFINE j == o + i
      <4>1. j \in 1..Len(quota) BY <3>1
      <4> HIDE DEF j
      <4>2. quota[j] = sends[g + j].at BY <1>61, <4>1
      <4> QED BY <4>2 DEF j
    <3>3. (g + o) + i \in 1..Len(sends)
      <4>1. i \in Nat /\ i >= 1 /\ i <= Len(w) BY <1>5, <2>1
      <4> QED BY <1>1, <1>4, <1>5, <2>0, <4>1
    <3>4. sends'[(g + o) + i] = sends[(g + o) + i] BY <1>8, <3>3
    <3> QED BY <1>7, <2>1, <3>1, <3>2, <3>4, <3>5
  <2>2. CASE i \notin 1..Len(w)
    <3>1. i = Len(w) + 1
      <4>1. Len(w) \in Nat /\ i \in 1..(Len(w) + 1) BY <1>5, <1>7
      <4> QED BY <2>2, <4>1
    <3>2. (g + o) + i = Len(sends) + 1
      <4>1. g + o \in Int /\ Len(w) \in Nat BY <1>4, <1>5
      <4> HIDE DEF g, o, w
      <4> QED BY <2>0, <3>1, <4>1
    <3> QED BY <1>6, <1>7, <1>8, <3>1, <3>2
  <2> QED BY <2>1, <2>2
<1>13. g + o >= 0 BY <1>4
<1>14. QuotaIsTheEnd' BY <1>9, <1>11, <1>12, <1>13 DEF QuotaIsTheEnd
<1>15. DOMAIN sends = 1..Len(sends) /\ DOMAIN sends' = 1..(Len(sends) + 1) BY <1>1, <1>8
<1>16. ASSUME NEW i \in DOMAIN sends', i + MaxPerHour \in DOMAIN sends'
       PROVE  sends'[i + MaxPerHour].at >= sends'[i].at + Hour
  <2>0. i \in 1..Len(sends) BY <1>1, <1>4, <1>15, <1>16
  <2>1. sends'[i] = sends[i] BY <1>8, <2>0
  <2>2. sends[i].at \in Nat
    <3>1. sends[i] \in [at : 0..LastTime, to : Call] BY <1>1, <2>0, ElementOfSeq
    <3>2. sends[i].at \in 0..LastTime BY <3>1
    <3> QED BY <3>2, AgentBounds
  <2>3. CASE i + MaxPerHour = Len(sends) + 1
    <3>1. i \in 1..(g + o) BY <1>1, <1>4, <1>5, <2>0, <2>3
    <3>2. sends[i].at + Hour <= time BY <1>10, <3>1
    <3>3. sends'[i + MaxPerHour].at = time BY <1>6, <1>8, <2>3
    <3> QED BY <1>1, <1>4, <2>1, <2>2, <3>2, <3>3
  <2>4. CASE i + MaxPerHour # Len(sends) + 1
    <3>1. i + MaxPerHour \in 1..Len(sends) BY <1>1, <1>4, <1>15, <1>16, <2>0, <2>4
    <3>2. sends[i + MaxPerHour].at >= sends[i].at + Hour
      BY <1>15, <2>0, <3>1 DEF AgentInv, SendsKeepTheQuota
    <3>3. sends'[i + MaxPerHour] = sends[i + MaxPerHour] BY <1>8, <3>1
    <3> QED BY <2>1, <3>2, <3>3
  <2> QED BY <2>3, <2>4
<1>17. ASSUME Allowlist, NEW i \in DOMAIN sends' PROVE sends'[i].to # "other"
  <2>1. CASE i = Len(sends) + 1 BY <1>6, <1>8, <1>17, <2>1
  <2>2. CASE i # Len(sends) + 1
    <3>1. i \in 1..Len(sends) BY <1>1, <1>15, <2>2
    <3> QED BY <1>8, <1>15, <1>17, <3>1 DEF AgentInv, SendsKeepTheQuota
  <2> QED BY <2>1, <2>2
<1>18. SendsKeepTheQuota' BY <1>16, <1>17 DEF SendsKeepTheQuota
<1> QED BY <1>7, <1>8, <1>14, <1>18

\* The calls of one answer are a short sequence of them.
LEMMA CallsAre ==
  ASSUME NEW cs \in Calls
  PROVE  cs \in Seq(Call) /\ Len(cs) \in 1..MaxCalls /\ cs # <<>>
<1>1. PICK n \in 1..MaxCalls : cs \in [1..n -> Called] BY DEF Calls
<1>2. n \in Nat /\ n >= 1 /\ n <= MaxCalls BY <1>1, AgentBounds
<1>3. Called \subseteq Call BY AgentAssumption
<1>4. cs \in [1..n -> Call] BY <1>1, <1>3
<1>5. cs \in Seq(Call) /\ Len(cs) = n BY <1>2, <1>4
<1> QED BY <1>2, <1>5

\* A reply goes on to a state that fits: all of them do.
LEMMA BecomesFitting ==
  ASSUME AgentInv, NEW r \in Reply, NEW s, LoopFits(s), Become(r, s)
  PROVE  loop' \in [Reply -> LoopState] /\ \A q \in Reply : LoopFits(loop'[q])
<1>1. loop \in [Reply -> LoopState] /\ s \in LoopState /\ loop' = [loop EXCEPT ![r] = s]
  BY DEF AgentInv, LoopFits, Become
<1>2. loop' \in [Reply -> LoopState] BY <1>1
<1>3. \A q \in Reply : loop'[q] = IF q = r THEN s ELSE loop[q] BY <1>1
<1> QED BY <1>2, <1>3 DEF AgentInv

\* With the quota, the sends and the clock as they were only the replies are looked at.
LEMMA RepliesMove ==
  ASSUME AgentInv, NEW r \in Reply, NEW s, LoopFits(s), Become(r, s), UNCHANGED <<time, quota, sends>>
  PROVE  AgentInv'
<1>1. loop' \in [Reply -> LoopState] /\ \A q \in Reply : LoopFits(loop'[q]) BY BecomesFitting
<1>2. (\A q \in Reply : LoopFits(loop[q]))' BY <1>1
<1>3. QuotaIsTheEnd' /\ SendsKeepTheQuota' BY DEF AgentInv, QuotaIsTheEnd, SendsKeepTheQuota, Gone
<1> QED BY <1>1, <1>3 DEF AgentInv

\* A reply is asked for: one request, paid for by the first attempt.
LEMMA AskFits ==
  ASSUME AgentInv, NEW r \in Reply, NEW b \in BOOLEAN, Ask(r, b)
  PROVE  AgentInv'
<1> DEFINE s == [Idle EXCEPT !.step = "asking", !.attempt = 1, !.requests = 1, !.images = b]
<1>1. /\ s \in LoopState /\ s.step = "asking" /\ s.round = 0 /\ s.attempt = 1 /\ s.dropped = FALSE
      /\ s.pending = <<>> /\ s.owed = 0 /\ s.requests = 1
  <2>1. <<>> \in Seq(Call) BY EmptySeq
  <2> QED BY <2>1 DEF Idle, LoopState, Step
<1>2. Become(r, s) /\ UNCHANGED <<time, quota, sends>> BY DEF Ask
<1> HIDE DEF s
<1>3. MaxAttempts * 0 = 0 BY AgentBounds
<1>4. Paid(s) = 1 BY <1>1, <1>3 DEF Paid
<1>5. LoopFits(s) BY <1>1, <1>4, AgentBounds DEF LoopFits
<1> QED BY <1>2, <1>5, RepliesMove

\* A completion failed: another attempt, the fallback, or the end.
LEMMA CompleteFits ==
  ASSUME AgentInv, NEW r \in Reply, NEW b \in BOOLEAN, Complete(r, b)
  PROVE  AgentInv'
<1> DEFINE s == loop[r]
<1>1. LoopFits(s) /\ s.step = "asking" /\ UNCHANGED <<time, quota, sends>> BY DEF AgentInv, Complete
<1>2. Become(r, IF b /\ s.attempt < MaxAttempts
                THEN [s EXCEPT !.attempt = @ + 1, !.requests = @ + 1] ELSE GaveUp(s))
  BY DEF Complete
<1> HIDE DEF s
<1>3. /\ s \in LoopState /\ s.round <= MaxRounds /\ s.attempt <= MaxAttempts
      /\ s.owed = Len(s.pending) /\ Len(s.pending) <= MaxCalls /\ s.requests <= Paid(s)
      /\ s.pending = <<>> /\ s.attempt \in Nat /\ s.requests \in Nat /\ s.round \in Nat
  BY <1>1 DEF LoopFits, LoopState
<1> DEFINE x == MaxAttempts * s.round
<1>4. x \in Nat BY <1>3, Rounds
<1>5. Paid(s) = x + s.attempt + (IF s.dropped THEN MaxAttempts ELSE 0) BY DEF Paid
<1>6. CASE b /\ s.attempt < MaxAttempts
  <2> DEFINE a == [s EXCEPT !.attempt = @ + 1, !.requests = @ + 1]
  <2>0. s.attempt + 1 \in Nat /\ s.requests + 1 \in Nat BY <1>3
  <2>1. /\ a \in LoopState /\ a.step = s.step /\ a.pending = s.pending /\ a.owed = s.owed /\ a.round = s.round
        /\ a.attempt = s.attempt + 1 /\ a.requests = s.requests + 1 /\ a.dropped = s.dropped
    BY <1>3, <2>0 DEF LoopState
  <2>2. Become(r, a) BY <1>2, <1>6
  <2> HIDE DEF a
  <2>3. Paid(a) = x + (s.attempt + 1) + (IF s.dropped THEN MaxAttempts ELSE 0) BY <2>1 DEF Paid
  <2> HIDE DEF x
  <2>4. a.requests <= Paid(a) /\ a.attempt <= MaxAttempts BY <1>3, <1>4, <1>5, <1>6, <2>1, <2>3, AgentBounds
  <2>5. LoopFits(a) BY <1>1, <1>3, <2>1, <2>4 DEF LoopFits
  <2> QED BY <1>1, <2>2, <2>5, RepliesMove
<1>7. CASE ~(b /\ s.attempt < MaxAttempts) /\ RetryPlain(s)
  <2> DEFINE a == [s EXCEPT !.attempt = 1, !.dropped = TRUE, !.requests = @ + 1]
  <2>0. s.requests + 1 \in Nat /\ s.dropped = FALSE BY <1>3, <1>7 DEF RetryPlain, LoopState
  <2>1. /\ a \in LoopState /\ a.step = s.step /\ a.pending = s.pending /\ a.owed = s.owed /\ a.round = s.round
        /\ a.attempt = 1 /\ a.requests = s.requests + 1 /\ a.dropped = TRUE
    BY <1>3, <2>0 DEF LoopState
  <2>2. Become(r, a) BY <1>2, <1>7 DEF GaveUp
  <2> HIDE DEF a
  <2>3. Paid(a) = x + 1 + MaxAttempts /\ Paid(s) = x + s.attempt + 0 BY <1>5, <2>0, <2>1 DEF Paid
  <2> HIDE DEF x
  <2>4. a.requests <= Paid(a) /\ a.attempt <= MaxAttempts BY <1>3, <1>4, <2>1, <2>3, AgentBounds
  <2>5. LoopFits(a) BY <1>1, <1>3, <2>1, <2>4 DEF LoopFits
  <2> QED BY <1>1, <2>2, <2>5, RepliesMove
<1>8. CASE ~(b /\ s.attempt < MaxAttempts) /\ ~RetryPlain(s)
  <2> DEFINE a == [s EXCEPT !.step = "failed"]
  <2>1. /\ a \in LoopState /\ a.step = "failed" /\ a.pending = s.pending /\ a.owed = s.owed /\ a.round = s.round
        /\ a.attempt = s.attempt /\ a.requests = s.requests /\ a.dropped = s.dropped
    BY <1>3 DEF LoopState, Step
  <2>2. Become(r, a) BY <1>2, <1>8 DEF GaveUp
  <2> HIDE DEF a
  <2>3. Paid(a) = Paid(s) BY <2>1 DEF Paid
  <2>5. LoopFits(a) BY <1>3, <2>1, <2>3 DEF LoopFits
  <2> QED BY <1>1, <2>2, <2>5, RepliesMove
<1> QED BY <1>6, <1>7, <1>8

\* The model answers, or calls tools.
LEMMA AnswerFits ==
  ASSUME AgentInv, NEW r \in Reply, NEW b \in BOOLEAN, PlainAnswer(r, b)
  PROVE  AgentInv'
<1> DEFINE s == loop[r]
           a == [s EXCEPT !.step = IF b THEN "replied" ELSE "failed"]
<1>1. LoopFits(s) /\ s.step = "asking" /\ UNCHANGED <<time, quota, sends>> /\ Become(r, a)
  BY DEF AgentInv, PlainAnswer
<1> HIDE DEF s
<1>2. s \in LoopState BY <1>1 DEF LoopFits
<1>3. /\ a \in LoopState /\ a.step \notin {"asking", "calling", "sending"} /\ a.pending = s.pending
      /\ a.owed = s.owed /\ a.round = s.round
      /\ a.attempt = s.attempt /\ a.requests = s.requests /\ a.dropped = s.dropped
  BY <1>2 DEF LoopState, Step
<1> HIDE DEF a
<1>4. Paid(a) = Paid(s) BY <1>3 DEF Paid
<1>5. LoopFits(a) BY <1>1, <1>3, <1>4 DEF LoopFits
<1> QED BY <1>1, <1>5, RepliesMove

LEMMA CallToolsFits ==
  ASSUME AgentInv, NEW r \in Reply, NEW cs \in Calls, CallTools(r, cs)
  PROVE  AgentInv'
<1> DEFINE s == loop[r]
           a == [s EXCEPT !.step = "calling", !.pending = cs, !.owed = @ + Len(cs)]
<1>1. LoopFits(s) /\ s.step = "asking" /\ UNCHANGED <<time, quota, sends>> /\ Become(r, a)
  BY DEF AgentInv, CallTools
<1> HIDE DEF s
<1>2. s \in LoopState /\ s.pending = <<>> /\ s.owed = Len(s.pending) BY <1>1 DEF LoopFits
<1>3. cs \in Seq(Call) /\ Len(cs) \in Nat /\ Len(cs) <= MaxCalls /\ cs # <<>>
  BY CallsAre, AgentBounds
<1>4. s.owed = 0 /\ s.owed + Len(cs) = Len(cs) BY <1>2, <1>3
<1>5. /\ a \in LoopState /\ a.step = "calling" /\ a.pending = cs /\ a.owed = Len(cs)
      /\ a.round = s.round /\ a.attempt = s.attempt /\ a.requests = s.requests /\ a.dropped = s.dropped
  BY <1>2, <1>3, <1>4 DEF LoopState, Step
<1> HIDE DEF a
<1>6. Paid(a) = Paid(s) BY <1>5 DEF Paid
<1>7. LoopFits(a) BY <1>1, <1>3, <1>5, <1>6 DEF LoopFits
<1> QED BY <1>1, <1>7, RepliesMove

\* The send tool: the quota is consumed, or the tool message says that it is used up.
LEMMA SendToolFits ==
  ASSUME AgentInv, NEW r \in Reply, SendTool(r)
  PROVE  AgentInv'
<1> DEFINE s == loop[r]
           call == Head(s.pending)
<1>1. LoopFits(s) /\ s.step = "calling" /\ Sendable(call) /\ time' = time BY DEF AgentInv, SendTool
<1>2. IF QuotaLeft
      THEN /\ quota' = Consumed(call) /\ sends' = Append(sends, [at |-> time, to |-> call])
           /\ Become(r, [s EXCEPT !.step = "sending"])
      ELSE quota' = Recent /\ Become(r, ToolMessage(s)) /\ sends' = sends
  BY DEF SendTool
<1> HIDE DEF s
<1>3. s \in LoopState /\ s.pending \in Seq(Call) /\ s.pending # <<>> BY <1>1 DEF LoopFits, LoopState
<1>4. call \in Call BY <1>3
<1>5. Allowlist => call # "other" BY <1>1 DEF Sendable
<1> HIDE DEF call
<1>6. time \in 0..LastTime /\ time' \in 0..LastTime BY <1>1 DEF AgentInv
<1>7. CASE QuotaLeft
  <2> DEFINE a == [s EXCEPT !.step = "sending"]
  <2>1. /\ a \in LoopState /\ a.step = "sending" /\ a.pending = s.pending /\ a.owed = s.owed
        /\ a.round = s.round /\ a.attempt = s.attempt /\ a.requests = s.requests /\ a.dropped = s.dropped
    BY <1>3 DEF LoopState, Step
  <2>2. quota' = Append(Recent, time) /\ sends' = Append(sends, [at |-> time, to |-> call]) /\ Become(r, a)
    BY <1>2, <1>7 DEF Consumed
  <2> HIDE DEF a
  <2>3. Paid(a) = Paid(s) BY <2>1 DEF Paid
  <2>4. LoopFits(a) BY <1>1, <1>3, <2>1, <2>3 DEF LoopFits
  <2>5. loop' \in [Reply -> LoopState] /\ \A q \in Reply : LoopFits(loop'[q])
    BY <2>2, <2>4, BecomesFitting
  <2>6. /\ quota' \in Seq(0..LastTime) /\ sends' \in Seq([at : 0..LastTime, to : Call])
        /\ QuotaIsTheEnd' /\ SendsKeepTheQuota'
    BY <1>1, <1>4, <1>5, <1>7, <2>2, SendKeepsTheQuota
  <2>7. (\A q \in Reply : LoopFits(loop[q]))' BY <2>5
  <2> QED BY <1>6, <2>5, <2>6, <2>7 DEF AgentInv
<1>8. CASE ~QuotaLeft
  <2>1. quota' = Recent /\ Become(r, ToolMessage(s)) /\ sends' = sends BY <1>2, <1>8
  <2>2. LoopFits(ToolMessage(s)) BY <1>1, ToolMessageFits
  <2>3. loop' \in [Reply -> LoopState] /\ \A q \in Reply : LoopFits(loop'[q])
    BY <2>1, <2>2, BecomesFitting
  <2>4. quota' \in Seq(0..LastTime) /\ QuotaIsTheEnd' BY <1>1, <2>1, RecentIsTheEnd
  <2>5. SendsKeepTheQuota' BY <2>1 DEF AgentInv, SendsKeepTheQuota
  <2>6. (\A q \in Reply : LoopFits(loop[q]))' BY <2>3
  <2>7. sends' \in Seq([at : 0..LastTime, to : Call]) BY <2>1 DEF AgentInv
  <2> QED BY <1>6, <2>3, <2>4, <2>5, <2>6, <2>7 DEF AgentInv
<1> QED BY <1>7, <1>8

\* Every step of the agent keeps what holds of it.
LEMMA AgentStep ==
  ASSUME AgentInv, [AgentNext]_agentVars
  PROVE  AgentInv'
<1>1. ASSUME UNCHANGED agentVars PROVE AgentInv'
  BY <1>1 DEF agentVars, AgentInv, QuotaIsTheEnd, SendsKeepTheQuota, Gone
<1>2. ASSUME NEW r \in Reply, NEW b \in BOOLEAN, Ask(r, b) \/ Complete(r, b) \/ PlainAnswer(r, b)
      PROVE  AgentInv'
  BY <1>2, AskFits, CompleteFits, AnswerFits
<1>3. ASSUME NEW r \in Reply, NEW cs \in Calls, CallTools(r, cs) PROVE AgentInv'
  BY <1>3, CallToolsFits
<1>4. ASSUME NEW r \in Reply, SendTool(r) PROVE AgentInv' BY <1>4, SendToolFits
<1>5. ASSUME NEW r \in Reply, SendEnds(r) \/ OtherTool(r) PROVE AgentInv'
  <2>1. LoopFits(loop[r]) BY DEF AgentInv
  <2>2. /\ loop[r].step \in {"calling", "sending"} /\ Become(r, ToolMessage(loop[r]))
        /\ UNCHANGED <<time, quota, sends>>
    BY <1>5 DEF SendEnds, OtherTool
  <2>3. LoopFits(ToolMessage(loop[r])) BY <2>1, <2>2, ToolMessageFits
  <2> QED BY <2>2, <2>3, RepliesMove
<1>6. ASSUME AgentTick PROVE AgentInv'
  <2>1. time' = time + 1 /\ time' \in 0..LastTime /\ UNCHANGED <<quota, loop, sends>>
    BY <1>6, AgentBounds DEF AgentTick, AgentInv
  <2>2. sends \in Seq([at : 0..LastTime, to : Call]) /\ time \in Nat /\ Gone \in Int /\ Gone <= Len(sends)
        /\ Len(sends) \in Nat
    BY DEF AgentInv, Gone
  <2>3. ASSUME NEW i \in 1..Gone PROVE sends[i].at + Hour <= time'
    <3>1. i \in 1..Len(sends) BY <2>2
    <3>2. sends[i] \in [at : 0..LastTime, to : Call] BY <2>2, <3>1, ElementOfSeq
    <3>3. sends[i].at \in Nat BY <3>2, AgentBounds
    <3>4. sends[i].at + Hour <= time BY DEF AgentInv, QuotaIsTheEnd
    <3> QED BY <2>1, <2>2, <3>3, <3>4, AgentBounds
  <2>4. Gone' = Gone BY <2>1 DEF Gone
  <2>5. QuotaIsTheEnd' BY <2>1, <2>3, <2>4 DEF QuotaIsTheEnd, AgentInv
  <2>6. SendsKeepTheQuota' BY <2>1 DEF SendsKeepTheQuota, AgentInv
  <2>7. (\A q \in Reply : LoopFits(loop[q]))' BY <2>1 DEF AgentInv
  <2> QED BY <2>1, <2>5, <2>6, <2>7 DEF AgentInv
<1> QED BY <1>1, <1>2, <1>3, <1>4, <1>5, <1>6 DEF AgentNext

LEMMA AgentStarts ==
  ASSUME AgentInit
  PROVE  AgentInv
<1>1. time = 0 /\ quota = <<>> /\ loop = [r \in Reply |-> Idle] /\ sends = <<>> BY DEF AgentInit
<1>2. /\ Idle \in LoopState /\ Idle.step = "idle" /\ Idle.round = 0 /\ Idle.attempt = 0 /\ Idle.owed = 0
      /\ Idle.requests = 0 /\ Idle.pending = <<>> /\ Idle.dropped = FALSE
  <2>1. <<>> \in Seq(Call) BY EmptySeq
  <2> QED BY <2>1 DEF Idle, LoopState, Step
<1>3. MaxAttempts * 0 = 0 BY AgentBounds
<1>4. Paid(Idle) = 0 BY <1>2, <1>3 DEF Paid
<1>5. LoopFits(Idle) BY <1>2, <1>4, AgentBounds DEF LoopFits
<1>6. loop \in [Reply -> LoopState] /\ \A r \in Reply : LoopFits(loop[r]) BY <1>1, <1>2, <1>5
<1>7. /\ quota \in Seq(0..LastTime) /\ sends \in Seq([at : 0..LastTime, to : Call])
      /\ Len(quota) = 0 /\ Len(sends) = 0 /\ DOMAIN sends = {}
  BY <1>1
<1>8. Gone = 0 BY <1>7 DEF Gone
<1>9. QuotaIsTheEnd BY <1>7, <1>8 DEF QuotaIsTheEnd
<1>10. SendsKeepTheQuota BY <1>7 DEF SendsKeepTheQuota
<1>11. time \in 0..LastTime BY <1>1, AgentBounds
<1> QED BY <1>6, <1>7, <1>9, <1>10, <1>11 DEF AgentInv

\* What it means: the type and the bounds.
LEMMA AgentMeans ==
  ASSUME AgentInv
  PROVE  AgentTypeOK /\ AgentIsBounded
<1>1. ASSUME NEW r \in Reply
      PROVE  /\ loop[r].step \in {"idle", "asking", "calling", "sending", "replied", "failed"}
             /\ loop[r].pending \in Seq(Call) /\ loop[r].round \in 0..MaxRounds
             /\ loop[r].attempt \in 0..MaxAttempts /\ loop[r].owed \in 0..MaxCalls * (MaxRounds + 1)
             /\ loop[r].step = "asking" => loop[r].owed = 0
             /\ loop[r].requests <= MaxAttempts * (MaxRounds + 2)
  <2> DEFINE s == loop[r]
  <2>1. LoopFits(s) BY DEF AgentInv
  <2> HIDE DEF s
  <2>2. /\ s \in LoopState /\ s.round <= MaxRounds /\ s.attempt <= MaxAttempts
        /\ s.owed = Len(s.pending) /\ Len(s.pending) <= MaxCalls /\ s.requests <= Paid(s)
        /\ s.step = "asking" => s.pending = <<>>
    BY <2>1 DEF LoopFits
  <2>3. s.step \in Step /\ s.pending \in Seq(Call) /\ s.round \in Nat /\ s.attempt \in Nat /\ s.owed \in Nat
        /\ s.requests \in Nat
    BY <2>2 DEF LoopState
  <2>4. s.owed <= MaxCalls BY <2>2
  <2>5. MaxCalls <= MaxCalls * (MaxRounds + 1) /\ MaxCalls * (MaxRounds + 1) \in Nat
    <3>1. MaxCalls * (MaxRounds + 1) = MaxCalls * MaxRounds + MaxCalls BY AgentBounds
    <3>2. MaxCalls * MaxRounds \in Nat BY AgentBounds
    <3> DEFINE x == MaxCalls * MaxRounds
               y == MaxCalls * (MaxRounds + 1)
    <3>3. x \in Nat /\ y = x + MaxCalls BY <3>1, <3>2
    <3> HIDE DEF x, y
    <3>4. MaxCalls <= y /\ y \in Nat BY <3>3, AgentBounds
    <3> QED BY <3>4 DEF y
  <2> DEFINE x == MaxAttempts * s.round
             y == MaxAttempts * MaxRounds
             z == MaxAttempts * (MaxRounds + 2)
             extra == IF s.dropped THEN MaxAttempts ELSE 0
  <2>6. x \in Nat /\ x <= y BY <2>2, <2>3, Rounds
  <2>7. y \in Nat /\ z = y + 2 * MaxAttempts
    <3>1. MaxRounds \in Nat /\ MaxRounds + 1 \in Nat /\ (MaxRounds + 1) + 1 = MaxRounds + 2 BY AgentBounds
    <3>2. y \in Nat /\ MaxAttempts * (MaxRounds + 1) = y + MaxAttempts BY <3>1, Rounds
    <3>3. MaxAttempts * ((MaxRounds + 1) + 1) = MaxAttempts * (MaxRounds + 1) + MaxAttempts BY <3>1, Rounds
    <3>4. z = MaxAttempts * (MaxRounds + 1) + MaxAttempts BY <3>1, <3>3
    <3> DEFINE v == MaxAttempts * (MaxRounds + 1)
    <3>5. v = y + MaxAttempts /\ z = v + MaxAttempts BY <3>2, <3>4
    <3> HIDE DEF v, y, z
    <3> QED BY <3>2, <3>5, AgentBounds
  <2>8. Paid(s) = x + s.attempt + extra BY DEF Paid
  <2>9. extra \in Nat /\ extra <= MaxAttempts BY AgentBounds
  <2> HIDE DEF x, y, z, extra
  <2>10. s.requests <= z BY <2>2, <2>3, <2>6, <2>7, <2>8, <2>9, AgentBounds
  <2>11. s.step = "asking" => s.owed = 0 BY <2>2
  <2>12. s.owed \in 0..MaxCalls * (MaxRounds + 1) BY <2>3, <2>4, <2>5, AgentBounds
  <2>13. s.round \in 0..MaxRounds /\ s.attempt \in 0..MaxAttempts BY <2>2, <2>3, AgentBounds
  <2> QED BY <2>3, <2>10, <2>11, <2>12, <2>13 DEF s, z, Step
<1>2. AgentTypeOK BY <1>1 DEF AgentInv, AgentTypeOK
<1>3. CallsAreAnswered /\ RequestsAreBounded BY <1>1 DEF CallsAreAnswered, RequestsAreBounded
<1> QED BY <1>2, <1>3 DEF AgentInv, AgentIsBounded

-----------------------------------------------------------------------------
(* The page that sets the AI up.                                           *)

\* The last load of panel p is of session s; what is saved belongs to its session.
LastIs(seq, p, s) == \A k \in Loads(seq, p) : (\A j \in Loads(seq, p) : j <= k) => seq[k].of = s
SavesMatch(seq) ==
  \A k \in DOMAIN seq : seq[k].kind = "save" => seq[k].of \in AiSession /\ seq[k].from = seq[k].of

\* Nothing is still to come for panel p, and it shows what is selected.
Shown(p) == displayed[p] = chosen \/ (p = "metrics" /\ displayed[p] = NoSession)
Follows(p) == LastIs(calls, p, chosen) /\ (Loads(calls, p) = {} => Shown(p))

AiPageInv ==
  /\ calls \in Seq(AiCall) /\ Len(calls) <= MaxOpen /\ drawn \in BOOLEAN /\ hasty \in BOOLEAN
  /\ chosen \in AiSession \union {NoSession} /\ displayed \in [Panel -> AiSession \union {NoSession}]
  /\ marred \in [Panel -> BOOLEAN] /\ kept \in [AiSession -> AiSession \union {NoSession}]
  /\ \A p \in Panel : drawn /\ ~marred[p] => Follows(p)
  /\ ~hasty => SavesMatch(calls) /\ \A s \in AiSession : kept[s] = s

\* What is left of the requests when one was answered.
LEMMA RemovedCallIs ==
  ASSUME NEW ps \in Seq(AiCall), NEW n \in DOMAIN ps
  PROVE  /\ RemoveAt(ps, n) \in Seq(AiCall) /\ Len(RemoveAt(ps, n)) = Len(ps) - 1
         /\ DOMAIN RemoveAt(ps, n) = 1..(Len(ps) - 1)
         /\ \A k \in 1..(Len(ps) - 1) : RemoveAt(ps, n)[k] = IF k < n THEN ps[k] ELSE ps[k + 1]
<1> DEFINE front == SubSeq(ps, 1, n - 1)
           back == SubSeq(ps, n + 1, Len(ps))
<1>1. Len(ps) \in Nat /\ n \in 1..Len(ps) OBVIOUS
<1>2. front \in Seq(AiCall) /\ Len(front) = n - 1 /\ \A k \in 1..(n - 1) : front[k] = ps[k] BY <1>1
<1>3. /\ back \in Seq(AiCall) /\ Len(back) = Len(ps) - n
      /\ \A k \in 1..(Len(ps) - n) : back[k] = ps[n + k]
  BY <1>1
<1> HIDE DEF front, back
<1> DEFINE w == front \o back
<1>4. /\ w \in Seq(AiCall) /\ Len(w) = Len(front) + Len(back)
      /\ \A k \in 1..(Len(front) + Len(back)) :
           w[k] = IF k <= Len(front) THEN front[k] ELSE back[k - Len(front)]
  BY <1>2, <1>3, ConcatProperties
<1> HIDE DEF w
<1>5. w \in Seq(AiCall) /\ Len(w) = Len(ps) - 1 BY <1>1, <1>2, <1>3, <1>4
<1>6. ASSUME NEW k \in 1..(Len(ps) - 1) PROVE w[k] = IF k < n THEN ps[k] ELSE ps[k + 1]
  <2>1. CASE k < n
    <3>1. k \in 1..(n - 1) BY <1>1, <2>1
    <3>2. k \in 1..(Len(front) + Len(back)) /\ k <= Len(front) BY <1>1, <1>2, <1>3, <3>1
    <3>3. w[k] = front[k] BY <1>4, <3>2
    <3> QED BY <1>2, <2>1, <3>1, <3>3
  <2>2. CASE ~(k < n)
    <3>1. k \in 1..(Len(front) + Len(back)) /\ ~(k <= Len(front)) /\ k - Len(front) = k - (n - 1)
      BY <1>1, <1>2, <1>3, <2>2
    <3>2. w[k] = back[k - (n - 1)] BY <1>4, <3>1
    <3>3. k - (n - 1) \in 1..(Len(ps) - n) /\ n + (k - (n - 1)) = k + 1 BY <1>1, <2>2
    <3> QED BY <1>3, <2>2, <3>2, <3>3
  <2> QED BY <2>1, <2>2
<1>7. DOMAIN w = 1..(Len(ps) - 1) BY <1>1, <1>5
<1> QED BY <1>5, <1>6, <1>7 DEF RemoveAt, w, front, back

\* Where a request stood before the answered one was removed, and stands now.
LEMMA RemovedCallFrom ==
  ASSUME NEW ps \in Seq(AiCall), NEW n \in DOMAIN ps, NEW m \in DOMAIN ps, m # n
  PROVE  LET k == IF m < n THEN m ELSE m - 1
         IN k \in DOMAIN RemoveAt(ps, n) /\ RemoveAt(ps, n)[k] = ps[m]
<1> DEFINE k == IF m < n THEN m ELSE m - 1
           w == RemoveAt(ps, n)
<1>1. Len(ps) \in Nat /\ n \in 1..Len(ps) /\ m \in 1..Len(ps) OBVIOUS
<1>2. DOMAIN w = 1..(Len(ps) - 1) /\ \A i \in 1..(Len(ps) - 1) : w[i] = IF i < n THEN ps[i] ELSE ps[i + 1]
  BY RemovedCallIs
<1> HIDE DEF w
<1>3. k \in 1..(Len(ps) - 1) /\ (k < n => k = m) /\ (~(k < n) => k + 1 = m) BY <1>1
<1> HIDE DEF k
<1>4. w[k] = ps[m] BY <1>2, <1>3
<1> QED BY <1>2, <1>3, <1>4 DEF w, k

\* Asking for more: the loads that were open, and behind them those asked for.
LEMMA AskedBehind ==
  ASSUME NEW seq \in Seq(AiCall), NEW asked \in Seq(AiCall), NEW p, NEW s
  PROVE  /\ seq \o asked \in Seq(AiCall)
         /\ Loads(seq \o asked, p) = {} => Loads(seq, p) = {} /\ Loads(asked, p) = {}
         /\ Loads(asked, p) # {} /\ LastIs(asked, p, s) => LastIs(seq \o asked, p, s)
         /\ Loads(asked, p) = {} /\ LastIs(seq, p, s) => LastIs(seq \o asked, p, s)
         /\ SavesMatch(seq) /\ SavesMatch(asked) => SavesMatch(seq \o asked)
<1> DEFINE w == seq \o asked
           n == Len(seq)
           m == Len(asked)
<1>1. /\ w \in Seq(AiCall) /\ Len(w) = n + m /\ n \in Nat /\ m \in Nat
      /\ \A k \in 1..(n + m) : w[k] = IF k <= n THEN seq[k] ELSE asked[k - n]
  BY ConcatProperties
<1>2. DOMAIN seq = 1..n /\ DOMAIN asked = 1..m OBVIOUS
<1> HIDE DEF w, n, m
<1>3. DOMAIN w = 1..(n + m)
  <2>1. DOMAIN w = 1..Len(w) BY <1>1
  <2> QED BY <1>1, <2>1
<1>4. \A k \in 1..n : k \in DOMAIN w /\ w[k] = seq[k] BY <1>1, <1>3
<1>5. ASSUME NEW k \in 1..m PROVE n + k \in DOMAIN w /\ w[n + k] = asked[k]
  <2>1. n + k \in 1..(n + m) /\ ~(n + k <= n) /\ (n + k) - n = k BY <1>1
  <2> QED BY <1>1, <1>3, <2>1
<1>6. ASSUME NEW k \in DOMAIN w
      PROVE  (k \in 1..n /\ w[k] = seq[k]) \/ (k - n \in 1..m /\ w[k] = asked[k - n] /\ k > n)
  <2>1. CASE k <= n BY <1>1, <1>3, <2>1
  <2>2. CASE ~(k <= n) BY <1>1, <1>3, <2>2
  <2> QED BY <2>1, <2>2
<1>7. ASSUME Loads(w, p) = {} PROVE Loads(seq, p) = {} /\ Loads(asked, p) = {}
  <2>1. \A k \in DOMAIN w : w[k].kind # p BY <1>7 DEF Loads
  <2>2. \A k \in 1..n : seq[k].kind # p BY <1>4, <2>1
  <2>3. \A k \in 1..m : asked[k].kind # p BY <1>5, <2>1
  <2> QED BY <1>2, <2>2, <2>3 DEF Loads
<1>8. ASSUME Loads(asked, p) # {}, LastIs(asked, p, s) PROVE LastIs(w, p, s)
  <2>1. PICK i \in 1..m : asked[i].kind = p BY <1>2, <1>8 DEF Loads
  <2>2. n + i \in Loads(w, p) BY <1>5, <2>1 DEF Loads
  <2>3. ASSUME NEW k \in Loads(w, p), \A j \in Loads(w, p) : j <= k PROVE w[k].of = s
    <3>1. k \in DOMAIN w /\ w[k].kind = p /\ n + i <= k BY <2>2, <2>3 DEF Loads
    <3>2. k \in 1..(n + m) /\ ~(k \in 1..n) BY <1>1, <1>3, <3>1
    <3>3. k - n \in 1..m /\ w[k] = asked[k - n] BY <1>6, <3>1, <3>2
    <3> DEFINE h == k - n
    <3>4. h \in 1..m /\ w[k] = asked[h] /\ k = n + h BY <1>1, <3>2, <3>3
    <3> HIDE DEF h
    <3>5. h \in Loads(asked, p) BY <1>2, <3>1, <3>4 DEF Loads
    <3>6. ASSUME NEW j \in Loads(asked, p) PROVE j <= h
      <4>1. j \in 1..m /\ asked[j].kind = p BY <1>2 DEF Loads
      <4>2. n + j \in Loads(w, p) BY <1>5, <4>1 DEF Loads
      <4>3. n + j <= n + h BY <2>3, <3>4, <4>2
      <4> QED BY <1>1, <3>4, <4>1, <4>3
    <3>7. asked[h].of = s BY <1>8, <3>5, <3>6 DEF LastIs
    <3> QED BY <3>4, <3>7
  <2> QED BY <2>3 DEF LastIs
<1>9. ASSUME Loads(asked, p) = {}, LastIs(seq, p, s) PROVE LastIs(w, p, s)
  <2>1. ASSUME NEW k \in Loads(w, p) PROVE k \in Loads(seq, p) /\ w[k] = seq[k]
    <3>1. k \in DOMAIN w /\ w[k].kind = p BY DEF Loads
    <3>2. ~(k - n \in 1..m /\ w[k] = asked[k - n]) BY <1>2, <1>9, <3>1 DEF Loads
    <3>3. k \in 1..n /\ w[k] = seq[k] BY <1>6, <3>1, <3>2
    <3> QED BY <1>2, <3>1, <3>3 DEF Loads
  <2>2. \A k \in Loads(seq, p) : k \in Loads(w, p) BY <1>2, <1>4 DEF Loads
  <2> QED BY <1>9, <2>1, <2>2 DEF LastIs
<1>10. ASSUME SavesMatch(seq), SavesMatch(asked) PROVE SavesMatch(w)
  BY <1>2, <1>6, <1>10 DEF SavesMatch
<1> QED BY <1>1, <1>7, <1>8, <1>9, <1>10 DEF w

\* An answer leaves the other panel's loads, and of its own the last one, unless it was
\* that; without one that was overtaken all loads of a panel are of the same session.
LEMMA AnswerLeaves ==
  ASSUME NEW seq \in Seq(AiCall), NEW k \in DOMAIN seq, NEW p, NEW s, LastIs(seq, p, s),
         \/ seq[k].kind # p
         \/ \A j \in 1..(k - 1) : seq[j].kind = seq[k].kind => seq[j].of = seq[k].of
  PROVE  /\ LastIs(RemoveAt(seq, k), p, s)
         /\ Loads(RemoveAt(seq, k), p) = {} /\ seq[k].kind # p => Loads(seq, p) = {}
         /\ Loads(RemoveAt(seq, k), p) = {} /\ seq[k].kind = p => seq[k].of = s
<1> DEFINE w == RemoveAt(seq, k)
           up(j) == IF j < k THEN j ELSE j + 1
<1>1. /\ w \in Seq(AiCall) /\ DOMAIN w = 1..(Len(seq) - 1)
      /\ \A j \in 1..(Len(seq) - 1) : w[j] = IF j < k THEN seq[j] ELSE seq[j + 1]
  BY RemovedCallIs
<1>2. \A m \in DOMAIN seq : m # k =>
        /\ (IF m < k THEN m ELSE m - 1) \in DOMAIN w /\ w[IF m < k THEN m ELSE m - 1] = seq[m]
  BY RemovedCallFrom
<1>3. Len(seq) \in Nat /\ k \in 1..Len(seq) /\ DOMAIN seq = 1..Len(seq) OBVIOUS
<1> HIDE DEF w
<1>4. ASSUME NEW j \in Loads(w, p)
      PROVE  /\ up(j) \in Loads(seq, p) /\ w[j] = seq[up(j)] /\ up(j) # k
             /\ j \in Nat /\ (up(j) > k => up(j) = j + 1) /\ (up(j) < k => up(j) = j)
  <2>1. j \in 1..(Len(seq) - 1) /\ w[j].kind = p BY <1>1 DEF Loads
  <2>2. up(j) \in 1..Len(seq) /\ up(j) # k /\ j \in Nat /\ (up(j) > k => up(j) = j + 1) /\ (up(j) < k => up(j) = j)
    BY <1>3, <2>1
  <2>3. w[j] = seq[up(j)] BY <1>1, <2>1
  <2> QED BY <1>3, <2>1, <2>2, <2>3 DEF Loads
<1>5. ASSUME NEW m \in Loads(seq, p), m # k
      PROVE  \E j \in Loads(w, p) : up(j) = m /\ j = (IF m < k THEN m ELSE m - 1)
  <2> DEFINE j == IF m < k THEN m ELSE m - 1
  <2>1. m \in 1..Len(seq) /\ seq[m].kind = p BY <1>3 DEF Loads
  <2>2. j \in DOMAIN w /\ w[j] = seq[m] BY <1>2, <1>3, <1>5, <2>1
  <2>3. up(j) = m BY <1>3, <1>5, <2>1
  <2> QED BY <2>1, <2>2, <2>3 DEF Loads
<1>6. ASSUME NEW m \in Loads(w, p), \A j \in Loads(w, p) : j <= m PROVE w[m].of = s
  <2> DEFINE u == up(m)
  <2>1. u \in Loads(seq, p) /\ w[m] = seq[u] /\ u # k /\ m \in Nat /\ (u > k => u = m + 1) /\ (u < k => u = m)
    BY <1>4
  <2> HIDE DEF u
  <2>2. ASSUME NEW n \in Loads(seq, p), n # k PROVE n <= u
    <3>1. n \in 1..Len(seq) /\ u \in 1..Len(seq) BY <1>3, <2>1 DEF Loads
    <3>2. PICK j \in Loads(w, p) : j = (IF n < k THEN n ELSE n - 1) BY <1>5, <2>2
    <3>3. j <= m BY <1>6
    <3> QED BY <1>3, <2>1, <2>2, <3>1, <3>2, <3>3
  <2>3. CASE k \in Loads(seq, p) /\ ~(k <= u)
    <3>1. u \in 1..Len(seq) /\ seq[u].kind = p /\ seq[k].kind = p BY <1>3, <2>1, <2>3 DEF Loads
    <3>2. u \in 1..(k - 1) BY <1>3, <2>3, <3>1
    <3>3. seq[u].of = seq[k].of BY <3>1, <3>2
    <3>4. ASSUME NEW n \in Loads(seq, p) PROVE n <= k
      <4>1. CASE n = k BY <1>3, <4>1
      <4>2. CASE n # k
        <5>1. n <= u /\ n \in 1..Len(seq) BY <1>3, <2>2, <4>2 DEF Loads
        <5> QED BY <1>3, <3>2, <5>1
      <4> QED BY <4>1, <4>2
    <3>5. seq[k].of = s BY <2>3, <3>4 DEF LastIs
    <3> QED BY <2>1, <3>3, <3>5
  <2>4. CASE ~(k \in Loads(seq, p) /\ ~(k <= u))
    <3>1. \A n \in Loads(seq, p) : n <= u BY <2>2, <2>4
    <3>2. seq[u].of = s BY <2>1, <3>1 DEF LastIs
    <3> QED BY <2>1, <3>2
  <2> QED BY <2>3, <2>4
<1>7. ASSUME Loads(w, p) = {} PROVE \A m \in Loads(seq, p) : m = k BY <1>5, <1>7
<1>8. ASSUME Loads(w, p) = {}, seq[k].kind # p PROVE Loads(seq, p) = {}
  <2>1. k \notin Loads(seq, p) BY <1>8 DEF Loads
  <2> QED BY <1>7, <1>8, <2>1
<1>9. ASSUME Loads(w, p) = {}, seq[k].kind = p PROVE seq[k].of = s
  <2>1. k \in Loads(seq, p) BY <1>9 DEF Loads
  <2>2. \A m \in Loads(seq, p) : m <= k BY <1>3, <1>7, <1>9
  <2> QED BY <2>1, <2>2 DEF LastIs
<1> QED BY <1>6, <1>8, <1>9 DEF LastIs, w

\* The answered request may have been a save; the others are as they were.
LEMMA RemovedSavesMatch ==
  ASSUME NEW seq \in Seq(AiCall), NEW k \in DOMAIN seq, SavesMatch(seq)
  PROVE  SavesMatch(RemoveAt(seq, k))
<1> DEFINE w == RemoveAt(seq, k)
<1>1. DOMAIN w = 1..(Len(seq) - 1) /\ \A j \in 1..(Len(seq) - 1) : w[j] = IF j < k THEN seq[j] ELSE seq[j + 1]
  BY RemovedCallIs
<1>2. Len(seq) \in Nat /\ k \in 1..Len(seq) /\ DOMAIN seq = 1..Len(seq) OBVIOUS
<1> HIDE DEF w
<1>3. ASSUME NEW j \in DOMAIN w PROVE \E m \in DOMAIN seq : w[j] = seq[m]
  <2>1. CASE j < k BY <1>1, <1>2, <2>1
  <2>2. CASE ~(j < k)
    <3>1. j + 1 \in DOMAIN seq /\ w[j] = seq[j + 1] BY <1>1, <1>2, <2>2
    <3> QED BY <3>1
  <2> QED BY <2>1, <2>2
<1>4. SavesMatch(w) BY <1>3 DEF SavesMatch
<1> QED BY <1>4 DEF w

\* What is asked for at once: one request, or a load of each panel.
LEMMA OneAsked ==
  ASSUME NEW x \in AiCall
  PROVE  /\ <<x>> \in Seq(AiCall)
         /\ \A p : x.kind # p => Loads(<<x>>, p) = {}
         /\ \A p, s : x.of = s => LastIs(<<x>>, p, s)
         /\ (x.kind = "save" => x.of \in AiSession /\ x.from = x.of) => SavesMatch(<<x>>)
<1> DEFINE w == <<x>>
<1>1. w \in Seq(AiCall) /\ DOMAIN w = {1} /\ w[1] = x OBVIOUS
<1> HIDE DEF w
<1>2. \A p : x.kind # p => Loads(w, p) = {} BY <1>1 DEF Loads
<1>3. \A p, s : x.of = s => LastIs(w, p, s) BY <1>1 DEF Loads, LastIs
<1>4. (x.kind = "save" => x.of \in AiSession /\ x.from = x.of) => SavesMatch(w) BY <1>1 DEF SavesMatch
<1> QED BY <1>1, <1>2, <1>3, <1>4 DEF w

LEMMA BothAsked ==
  ASSUME NEW s \in AiSession
  PROVE  /\ LoadBoth(s) \in Seq(AiCall) /\ SavesMatch(LoadBoth(s))
         /\ \A p \in Panel : Loads(LoadBoth(s), p) # {} /\ LastIs(LoadBoth(s), p, s)
<1> DEFINE x == Asked("config", s)
           y == Asked("metrics", s)
           w == <<x, y>>
<1>1. /\ x \in AiCall /\ x.kind = "config" /\ x.of = s /\ y \in AiCall /\ y.kind = "metrics" /\ y.of = s
  BY DEF Asked, AiCall, Panel
<1> HIDE DEF x, y
<1>2. w \in Seq(AiCall) /\ DOMAIN w = {1, 2} /\ w[1] = x /\ w[2] = y BY <1>1
<1> HIDE DEF w
<1>3. \A k \in DOMAIN w : w[k].of = s /\ w[k].kind # "save" BY <1>1, <1>2
<1>4. SavesMatch(w) BY <1>3 DEF SavesMatch
<1>5. ASSUME NEW p \in Panel PROVE Loads(w, p) # {} /\ LastIs(w, p, s)
  <2>1. LastIs(w, p, s) BY <1>3 DEF LastIs, Loads
  <2>2. CASE p = "config"
    <3>1. 1 \in Loads(w, p) BY <1>1, <1>2, <2>2 DEF Loads
    <3> QED BY <2>1, <3>1
  <2>3. CASE p = "metrics"
    <3>1. 2 \in Loads(w, p) BY <1>1, <1>2, <2>3 DEF Loads
    <3> QED BY <2>1, <3>1
  <2> QED BY <2>2, <2>3 DEF Panel
<1> QED BY <1>2, <1>4, <1>5 DEF LoadBoth, w, x, y

LEMMA NothingAsked ==
  <<>> \in Seq(AiCall) /\ SavesMatch(<<>>) /\ \A p : Loads(<<>>, p) = {}
<1>1. DOMAIN <<>> = {} /\ <<>> \in Seq(AiCall) BY EmptySeq
<1> QED BY <1>1 DEF SavesMatch, Loads

\* After a request a panel follows session s: its load is behind all others, or it was
\* not asked for and followed before.
LEMMA RequestFollows ==
  ASSUME NEW seq \in Seq(AiCall), NEW asked \in Seq(AiCall), Request(seq, asked), marred \in [Panel -> BOOLEAN],
         NEW p \in Panel, NEW s, ~marred'[p], Loads(asked, p) # {} => LastIs(asked, p, s),
         Loads(asked, p) = {} /\ ~marred[p] => LastIs(seq, p, s)
  PROVE  /\ LastIs(calls', p, s)
         /\ Loads(calls', p) = {} => ~marred[p] /\ Loads(asked, p) = {} /\ Loads(seq, p) = {}
<1>1. calls' = seq \o asked /\ marred'[p] = (marred[p] /\ (Loads(seq, p) # {} \/ Loads(asked, p) = {}))
  BY DEF Request
<1>2. Loads(asked, p) = {} => ~marred[p] BY <1>1
<1>3. /\ Loads(seq \o asked, p) = {} => Loads(seq, p) = {} /\ Loads(asked, p) = {}
      /\ Loads(asked, p) # {} /\ LastIs(asked, p, s) => LastIs(seq \o asked, p, s)
      /\ Loads(asked, p) = {} /\ LastIs(seq, p, s) => LastIs(seq \o asked, p, s)
  BY AskedBehind
<1>4. LastIs(calls', p, s) BY <1>1, <1>2, <1>3
<1> QED BY <1>1, <1>2, <1>3, <1>4

\* The types of what a request changes, and the saves among them.
LEMMA RequestTypes ==
  ASSUME NEW seq \in Seq(AiCall), NEW asked \in Seq(AiCall), Request(seq, asked), marred \in [Panel -> BOOLEAN]
  PROVE  /\ calls' \in Seq(AiCall) /\ Len(calls') <= MaxOpen /\ marred' \in [Panel -> BOOLEAN]
         /\ SavesMatch(seq) /\ SavesMatch(asked) => SavesMatch(calls')
<1>1. calls' = seq \o asked /\ Len(seq \o asked) <= MaxOpen BY DEF Request
<1>2. /\ seq \o asked \in Seq(AiCall)
      /\ SavesMatch(seq) /\ SavesMatch(asked) => SavesMatch(seq \o asked)
  BY AskedBehind
<1>3. marred' = [p \in Panel |-> marred[p] /\ (Loads(seq, p) # {} \/ Loads(asked, p) = {})] BY DEF Request
<1>4. \A p \in Panel : (marred[p] /\ (Loads(seq, p) # {} \/ Loads(asked, p) = {})) \in BOOLEAN BY Zenon
<1>5. marred' \in [Panel -> BOOLEAN] BY <1>3, <1>4
<1> QED BY <1>1, <1>2, <1>5

\* The page's invariant after a step, from its parts.
LEMMA PageParts ==
  ASSUME (calls \in Seq(AiCall) /\ Len(calls) <= MaxOpen /\ drawn \in BOOLEAN /\ hasty \in BOOLEAN)',
         (chosen \in AiSession \union {NoSession} /\ displayed \in [Panel -> AiSession \union {NoSession}])',
         (marred \in [Panel -> BOOLEAN] /\ kept \in [AiSession -> AiSession \union {NoSession}])',
         (\A p \in Panel : drawn /\ ~marred[p] => Follows(p))',
         (~hasty => SavesMatch(calls) /\ \A s \in AiSession : kept[s] = s)'
  PROVE  AiPageInv'
BY DEF AiPageInv

\* Opening the page, leaving it and drawing it.
LEMMA OpenPageKeeps ==
  ASSUME AiPageInv, OpenPage
  PROVE  AiPageInv'
<1> DEFINE x == Asked("sessions", NoSession)
<1>1. x \in AiCall /\ x.kind = "sessions" BY DEF Asked, AiCall
<1>2. ~drawn /\ Request(calls, <<x>>) /\ UNCHANGED <<drawn, chosen, displayed, kept, hasty>> BY DEF OpenPage
<1> HIDE DEF x
<1>3. <<x>> \in Seq(AiCall) /\ SavesMatch(<<x>>) BY <1>1, OneAsked
<1>4. /\ calls' \in Seq(AiCall) /\ Len(calls') <= MaxOpen /\ marred' \in [Panel -> BOOLEAN]
      /\ SavesMatch(calls) => SavesMatch(calls')
  BY <1>2, <1>3, RequestTypes DEF AiPageInv
<1>5. (\A p \in Panel : drawn /\ ~marred[p] => Follows(p))' BY <1>2
<1> QED BY <1>2, <1>4, <1>5 DEF AiPageInv

LEMMA LeaveKeeps ==
  ASSUME AiPageInv, LeaveAiPage
  PROVE  AiPageInv'
<1>1. drawn' = FALSE /\ displayed' = [p \in Panel |-> NoSession] /\ UNCHANGED <<chosen, calls, kept, marred, hasty>>
  BY DEF LeaveAiPage
<1>2. (\A p \in Panel : drawn /\ ~marred[p] => Follows(p))' BY <1>1
<1>3. displayed' \in [Panel -> AiSession \union {NoSession}] BY <1>1
<1>4. drawn' \in BOOLEAN BY <1>1
<1> QED BY <1>1, <1>2, <1>3, <1>4 DEF AiPageInv

\* The sessions came, or another one is selected: both panels are asked for.
LEMMA SelectionKeeps ==
  ASSUME AiPageInv, NEW s \in AiSession, NEW seq \in Seq(AiCall), SavesMatch(calls) => SavesMatch(seq),
         Request(seq, LoadBoth(s)), chosen' = s, drawn' \in BOOLEAN,
         displayed' \in [Panel -> AiSession \union {NoSession}], UNCHANGED <<kept, hasty>>
  PROVE  AiPageInv'
<1>1. /\ LoadBoth(s) \in Seq(AiCall) /\ SavesMatch(LoadBoth(s))
      /\ \A p \in Panel : Loads(LoadBoth(s), p) # {} /\ LastIs(LoadBoth(s), p, s)
  BY BothAsked
<1>2. marred \in [Panel -> BOOLEAN] BY DEF AiPageInv
<1>3. /\ calls' \in Seq(AiCall) /\ Len(calls') <= MaxOpen /\ marred' \in [Panel -> BOOLEAN]
      /\ SavesMatch(seq) /\ SavesMatch(LoadBoth(s)) => SavesMatch(calls')
  BY <1>1, <1>2, RequestTypes
<1>4. ASSUME NEW p \in Panel, ~marred'[p]
      PROVE  LastIs(calls', p, s) /\ Loads(calls', p) # {}
  <2>1. Loads(LoadBoth(s), p) # {} /\ LastIs(LoadBoth(s), p, s) BY <1>1
  <2>2. /\ LastIs(calls', p, s)
        /\ Loads(calls', p) = {} => Loads(LoadBoth(s), p) = {}
    BY <1>1, <1>2, <1>4, <2>1, RequestFollows
  <2> QED BY <2>1, <2>2
<1>5. ASSUME NEW p \in Panel, ~marred'[p] PROVE Follows(p)'
  BY <1>4, <1>5 DEF Follows
<1>6. (\A p \in Panel : drawn /\ ~marred[p] => Follows(p))' BY <1>5
<1>7. (~hasty => SavesMatch(calls) /\ \A t \in AiSession : kept[t] = t)' BY <1>1, <1>3 DEF AiPageInv
<1> QED BY <1>3, <1>6, <1>7 DEF AiPageInv

\* A request is answered and perhaps another one made, none of them a load that changes
\* what a panel follows.
LEMMA RequestKeeps ==
  ASSUME AiPageInv, NEW seq \in Seq(AiCall), NEW asked \in Seq(AiCall), Request(seq, asked),
         \A p \in Panel : LastIs(calls, p, chosen) => LastIs(seq, p, chosen),
         \A p \in Panel : Loads(seq, p) = {} => Loads(calls, p) = {},
         \A p \in Panel : LastIs(asked, p, chosen), UNCHANGED <<drawn, chosen, displayed>>,
         kept' \in [AiSession -> AiSession \union {NoSession}], hasty' \in BOOLEAN,
         ~hasty' => SavesMatch(seq) /\ SavesMatch(asked) /\ \A s \in AiSession : kept'[s] = s
  PROVE  AiPageInv'
<1>1. marred \in [Panel -> BOOLEAN] BY DEF AiPageInv
<1>2. /\ calls' \in Seq(AiCall) /\ Len(calls') <= MaxOpen /\ marred' \in [Panel -> BOOLEAN]
      /\ SavesMatch(seq) /\ SavesMatch(asked) => SavesMatch(calls')
  BY <1>1, RequestTypes
<1>3. ASSUME NEW p \in Panel, drawn, ~marred'[p]
      PROVE  LastIs(calls', p, chosen) /\ (Loads(calls', p) = {} => Shown(p))
  <2>1. ~marred[p] => LastIs(calls, p, chosen) /\ (Loads(calls, p) = {} => Shown(p))
    BY <1>3 DEF AiPageInv, Follows
  <2>2. Loads(asked, p) # {} => LastIs(asked, p, chosen) OBVIOUS
  <2>3. Loads(asked, p) = {} /\ ~marred[p] => LastIs(seq, p, chosen) BY <2>1
  <2>4. /\ LastIs(calls', p, chosen)
        /\ Loads(calls', p) = {} => ~marred[p] /\ Loads(asked, p) = {} /\ Loads(seq, p) = {}
    BY <1>1, <1>3, <2>2, <2>3, RequestFollows
  <2> QED BY <2>1, <2>4
<1>4. ASSUME NEW p \in Panel, drawn, ~marred'[p] PROVE Follows(p)'
  <2>1. Shown(p)' <=> Shown(p) BY DEF Shown
  <2> QED BY <1>3, <1>4, <2>1 DEF Follows
<1>5. (\A p \in Panel : drawn /\ ~marred[p] => Follows(p))' BY <1>4
<1>6. (~hasty => SavesMatch(calls) /\ \A t \in AiSession : kept[t] = t)' BY <1>2
<1> QED BY <1>2, <1>5, <1>6 DEF AiPageInv

\* An answer that is no load of a panel leaves the loads of it.
LEMMA OtherAnswer ==
  ASSUME NEW seq \in Seq(AiCall), NEW k \in DOMAIN seq, seq[k].kind \notin Panel
  PROVE  /\ RemoveAt(seq, k) \in Seq(AiCall)
         /\ \A p \in Panel : Loads(RemoveAt(seq, k), p) = {} => Loads(seq, p) = {}
         /\ \A p \in Panel : \A s : LastIs(seq, p, s) => LastIs(RemoveAt(seq, k), p, s)
         /\ SavesMatch(seq) => SavesMatch(RemoveAt(seq, k))
<1> DEFINE w == RemoveAt(seq, k)
<1>1. w \in Seq(AiCall) BY RemovedCallIs
<1>2. ASSUME NEW p \in Panel, Loads(w, p) = {} PROVE Loads(seq, p) = {}
  <2>1. ASSUME NEW m \in Loads(seq, p) PROVE FALSE
    <3>1. m \in DOMAIN seq /\ seq[m].kind = p /\ m # k BY DEF Loads
    <3> DEFINE j == IF m < k THEN m ELSE m - 1
    <3>2. j \in DOMAIN w /\ w[j] = seq[m] BY <3>1, RemovedCallFrom
    <3> QED BY <1>2, <3>1, <3>2 DEF Loads
  <2> QED BY <2>1
<1>3. ASSUME NEW p \in Panel, NEW s, LastIs(seq, p, s) PROVE LastIs(w, p, s)
  <2>1. seq[k].kind # p OBVIOUS
  <2> QED BY <1>3, <2>1, AnswerLeaves
<1>4. SavesMatch(seq) => SavesMatch(w) BY RemovedSavesMatch
<1> QED BY <1>1, <1>2, <1>3, <1>4

LEMMA NoSessionsKeeps ==
  ASSUME AiPageInv, NEW k \in DOMAIN calls, NoSessions(k)
  PROVE  AiPageInv'
<1> DEFINE w == RemoveAt(calls, k)
<1>1. /\ calls[k].kind = "sessions" /\ drawn' = FALSE /\ displayed' = [p \in Panel |-> NoSession]
      /\ Request(w, <<>>) /\ UNCHANGED <<chosen, kept, hasty>> /\ calls \in Seq(AiCall)
  BY DEF NoSessions, AiPageInv
<1>2. w \in Seq(AiCall) /\ (SavesMatch(calls) => SavesMatch(w)) BY <1>1, RemovedCallIs, RemovedSavesMatch
<1> HIDE DEF w
<1>3. <<>> \in Seq(AiCall) /\ SavesMatch(<<>>) BY NothingAsked
<1>4. /\ calls' \in Seq(AiCall) /\ Len(calls') <= MaxOpen /\ marred' \in [Panel -> BOOLEAN]
      /\ SavesMatch(w) => SavesMatch(calls')
  BY <1>1, <1>2, <1>3, RequestTypes DEF AiPageInv
<1>5. (\A p \in Panel : drawn /\ ~marred[p] => Follows(p))' BY <1>1
<1>6. drawn' \in BOOLEAN /\ displayed' \in [Panel -> AiSession \union {NoSession}] BY <1>1
<1> QED BY <1>1, <1>2, <1>4, <1>5, <1>6 DEF AiPageInv

\* A load answers: if it was the last of its panel, the panel shows the selected session.
LEMMA PanelCameKeeps ==
  ASSUME AiPageInv, NEW k \in DOMAIN calls, NEW ok \in BOOLEAN, PanelCame(k, ok)
  PROVE  AiPageInv'
<1> DEFINE w == RemoveAt(calls, k)
           p == calls[k].kind
<1>1. /\ calls \in Seq(AiCall) /\ marred \in [Panel -> BOOLEAN] /\ chosen \in AiSession \union {NoSession}
      /\ displayed \in [Panel -> AiSession \union {NoSession}] /\ Len(calls) <= MaxOpen
  BY DEF AiPageInv
<1>2. /\ p \in Panel /\ calls' = w /\ UNCHANGED <<drawn, chosen, kept, hasty>>
      /\ displayed' = IF drawn /\ (ok \/ p = "metrics")
                      THEN [displayed EXCEPT ![p] = IF ok THEN calls[k].of ELSE NoSession] ELSE displayed
      /\ marred' = [marred EXCEPT ![p] = @ \/ Overtakes(k) \/ (p = "config" /\ ~ok)]
  BY DEF PanelCame
<1>3. calls[k] \in AiCall
  <2>1. k \in 1..Len(calls) BY <1>1
  <2> QED BY <1>1, <2>1, ElementOfSeq
<1>4. calls[k].of \in AiSession \union {NoSession} BY <1>3 DEF AiCall
<1>5. w \in Seq(AiCall) /\ Len(w) = Len(calls) - 1 /\ Len(calls) \in Nat BY <1>1, RemovedCallIs
<1>6. SavesMatch(calls) => SavesMatch(w) BY <1>1, RemovedSavesMatch
<1>7. ASSUME NEW q \in Panel, NEW s, LastIs(calls, q, s), p # q \/ ~Overtakes(k)
      PROVE  /\ LastIs(w, q, s)
             /\ Loads(w, q) = {} /\ p # q => Loads(calls, q) = {}
             /\ Loads(w, q) = {} /\ p = q => calls[k].of = s
  <2>1. p # q \/ \A j \in 1..(k - 1) : calls[j].kind = calls[k].kind => calls[j].of = calls[k].of
    BY <1>7 DEF Overtakes
  <2> QED BY <1>1, <1>7, <2>1, AnswerLeaves
<1> HIDE DEF w, p
<1>8. marred' \in [Panel -> BOOLEAN]
  <2>1. (marred[p] \/ Overtakes(k) \/ (p = "config" /\ ~ok)) \in BOOLEAN BY Zenon
  <2> DEFINE v == marred[p] \/ Overtakes(k) \/ (p = "config" /\ ~ok)
  <2>2. marred' = [marred EXCEPT ![p] = v] /\ v \in BOOLEAN BY <1>2, <2>1
  <2> HIDE DEF v
  <2> QED BY <1>1, <2>2
<1>9. /\ ~marred'[p] => ~marred[p] /\ ~Overtakes(k) /\ ~(p = "config" /\ ~ok)
      /\ \A q \in Panel : q # p => marred'[q] = marred[q]
  BY <1>1, <1>2
<1>10. displayed' \in [Panel -> AiSession \union {NoSession}] BY <1>1, <1>2, <1>4
<1>11. \A q \in Panel : q # p => displayed'[q] = displayed[q] BY <1>1, <1>2
<1>12. ASSUME NEW q \in Panel, drawn, ~marred'[q]
       PROVE  LastIs(w, q, chosen) /\ (Loads(w, q) = {} => Shown(q)')
  <2>1. CASE q # p
    <3>1. ~marred[q] /\ displayed'[q] = displayed[q] BY <1>9, <1>11, <1>12, <2>1
    <3>2. LastIs(calls, q, chosen) /\ (Loads(calls, q) = {} => Shown(q))
      BY <1>12, <3>1 DEF AiPageInv, Follows
    <3>3. LastIs(w, q, chosen) /\ (Loads(w, q) = {} => Loads(calls, q) = {})
      BY <1>7, <2>1, <3>2
    <3>4. Shown(q) => Shown(q)' BY <1>2, <3>1 DEF Shown
    <3> QED BY <3>2, <3>3, <3>4
  <2>2. CASE q = p
    <3>1. ~marred[q] /\ ~Overtakes(k) /\ ~(q = "config" /\ ~ok) BY <1>9, <1>12, <2>2
    <3>2. LastIs(calls, q, chosen) BY <1>12, <3>1 DEF AiPageInv, Follows
    <3>3. LastIs(w, q, chosen) /\ (Loads(w, q) = {} => calls[k].of = chosen) BY <1>7, <2>2, <3>1, <3>2
    <3>4. ok \/ q = "metrics" BY <3>1 DEF Panel
    <3>5. displayed' = [displayed EXCEPT ![q] = IF ok THEN calls[k].of ELSE NoSession]
      BY <1>2, <1>12, <2>2, <3>4
    <3>6. displayed'[q] = IF ok THEN calls[k].of ELSE NoSession BY <1>1, <3>5
    <3>7. calls[k].of = chosen => Shown(q)' BY <1>2, <3>4, <3>6 DEF Shown
    <3> QED BY <3>3, <3>7
  <2> QED BY <2>1, <2>2
<1>13. ASSUME NEW q \in Panel, drawn, ~marred'[q] PROVE Follows(q)'
  BY <1>2, <1>12, <1>13 DEF Follows
<1>14. (\A q \in Panel : drawn /\ ~marred[q] => Follows(q))' BY <1>2, <1>13
<1>15. (~hasty => SavesMatch(calls) /\ \A s \in AiSession : kept[s] = s)' BY <1>2, <1>6 DEF AiPageInv
<1>16. Len(w) <= MaxOpen /\ MaxOpen \in Nat BY <1>1, <1>5, AiPageAssumption
<1> QED BY <1>2, <1>5, <1>8, <1>10, <1>14, <1>15, <1>16 DEF AiPageInv

\* Save is clicked: unless in haste, the form is that of the selected session.
LEMMA SaveKeeps ==
  ASSUME AiPageInv, Save
  PROVE  AiPageInv'
<1> DEFINE x == [kind |-> "save", of |-> chosen, from |-> displayed["config"]]
<1>1. /\ drawn /\ chosen # NoSession /\ Request(calls, <<x>>) /\ UNCHANGED <<drawn, chosen, displayed, kept>>
      /\ hasty' = (hasty \/ Loads(calls, "config") # {} \/ marred["config"])
  BY DEF Save
<1>2. /\ calls \in Seq(AiCall) /\ chosen \in AiSession \union {NoSession}
      /\ displayed \in [Panel -> AiSession \union {NoSession}] /\ "config" \in Panel
  BY DEF AiPageInv, Panel
<1>3. x \in AiCall /\ x.kind = "save" /\ x.of = chosen /\ x.from = displayed["config"] BY <1>2 DEF AiCall
<1> HIDE DEF x
<1>4. <<x>> \in Seq(AiCall) /\ \A p \in Panel : LastIs(<<x>>, p, chosen) BY <1>3, OneAsked
<1>5. hasty' \in BOOLEAN BY <1>1, Zenon
<1>6. ASSUME ~hasty' PROVE SavesMatch(calls) /\ SavesMatch(<<x>>) /\ \A s \in AiSession : kept'[s] = s
  <2>1. ~hasty /\ Loads(calls, "config") = {} /\ ~marred["config"] BY <1>1, <1>6
  <2>2. displayed["config"] = chosen BY <1>1, <1>2, <2>1 DEF AiPageInv, Follows, Shown
  <2>3. SavesMatch(<<x>>) BY <1>1, <1>2, <1>3, <2>2, OneAsked
  <2> QED BY <1>1, <2>1, <2>3 DEF AiPageInv
<1>7. kept' \in [AiSession -> AiSession \union {NoSession}] BY <1>1 DEF AiPageInv
<1> QED BY <1>1, <1>2, <1>4, <1>5, <1>6, <1>7, RequestKeeps

\* It was saved, or refused.
LEMMA SavedKeeps ==
  ASSUME AiPageInv, NEW k \in DOMAIN calls, NEW ok \in BOOLEAN, Saved(k, ok)
  PROVE  AiPageInv'
<1> DEFINE w == RemoveAt(calls, k)
           x == Asked("config", chosen)
<1>1. /\ calls \in Seq(AiCall) /\ chosen \in AiSession \union {NoSession} /\ hasty \in BOOLEAN
      /\ kept \in [AiSession -> AiSession \union {NoSession}]
  BY DEF AiPageInv
<1>2. calls[k].kind = "save" /\ UNCHANGED <<drawn, chosen, displayed, hasty>> /\ calls[k].kind \notin Panel
  BY DEF Saved, Panel
<1>3. /\ w \in Seq(AiCall) /\ \A p \in Panel : Loads(w, p) = {} => Loads(calls, p) = {}
      /\ \A p \in Panel : LastIs(calls, p, chosen) => LastIs(w, p, chosen)
      /\ SavesMatch(calls) => SavesMatch(w)
  BY <1>1, <1>2, OtherAnswer
<1>4. calls[k] \in AiCall
  <2>1. k \in 1..Len(calls) BY <1>1
  <2> QED BY <1>1, <2>1, ElementOfSeq
<1>5. CASE ok
  <2>1. /\ kept' = [kept EXCEPT ![calls[k].of] = IF calls[k].from = NoSession THEN NoSession ELSE kept[calls[k].from]]
        /\ Request(w, <<x>>)
    BY <1>5 DEF Saved
  <2>2. x \in AiCall /\ x.kind # "save" /\ x.of = chosen BY <1>1 DEF Asked, AiCall, Panel
  <2> HIDE DEF x, w
  <2>3. <<x>> \in Seq(AiCall) /\ SavesMatch(<<x>>) /\ \A p \in Panel : LastIs(<<x>>, p, chosen) BY <2>2, OneAsked
  <2>4. calls[k].from \in AiSession \union {NoSession} BY <1>4 DEF AiCall
  <2>5. kept' \in [AiSession -> AiSession \union {NoSession}] BY <1>1, <2>1, <2>4
  <2>6. ASSUME ~hasty' PROVE SavesMatch(w) /\ \A s \in AiSession : kept'[s] = s
    <3>1. SavesMatch(calls) /\ \A s \in AiSession : kept[s] = s BY <1>2, <2>6 DEF AiPageInv
    <3>2. calls[k].of \in AiSession /\ calls[k].from = calls[k].of BY <1>2, <3>1 DEF SavesMatch
    <3>3. calls[k].from # NoSession BY <3>2, AiPageAssumption
    <3>4. kept' = [kept EXCEPT ![calls[k].of] = calls[k].of] BY <2>1, <3>1, <3>2, <3>3
    <3> QED BY <1>1, <1>3, <3>1, <3>4
  <2>7. hasty' \in BOOLEAN BY <1>1, <1>2
  <2> QED BY <1>2, <1>3, <2>1, <2>3, <2>5, <2>6, <2>7, RequestKeeps
<1>6. CASE ~ok
  <2>1. UNCHANGED kept /\ Request(w, <<>>) BY <1>6 DEF Saved
  <2>2. <<>> \in Seq(AiCall) /\ SavesMatch(<<>>) /\ \A p \in Panel : LastIs(<<>>, p, chosen)
    BY NothingAsked DEF LastIs
  <2> HIDE DEF w
  <2>3. ~hasty' => SavesMatch(w) /\ SavesMatch(<<>>) /\ \A s \in AiSession : kept'[s] = s
    BY <1>2, <1>3, <2>1, <2>2 DEF AiPageInv
  <2>4. kept' \in [AiSession -> AiSession \union {NoSession}] /\ hasty' \in BOOLEAN BY <1>1, <1>2, <2>1
  <2> QED BY <1>2, <1>3, <2>1, <2>2, <2>3, <2>4, RequestKeeps
<1> QED BY <1>5, <1>6

\* The metrics are reset.
LEMMA ResetKeeps ==
  ASSUME AiPageInv, ResetMetrics
  PROVE  AiPageInv'
<1> DEFINE x == Asked("reset", NoSession)
<1>1. x \in AiCall /\ x.kind = "reset" BY DEF Asked, AiCall
<1>2. Request(calls, <<x>>) /\ UNCHANGED <<drawn, chosen, displayed, kept, hasty>> BY DEF ResetMetrics
<1> HIDE DEF x
<1>3. <<x>> \in Seq(AiCall) /\ SavesMatch(<<x>>) /\ \A p \in Panel : Loads(<<x>>, p) = {}
  BY <1>1, OneAsked DEF Panel
<1>4. \A p \in Panel : LastIs(<<x>>, p, chosen) BY <1>3 DEF LastIs
<1>5. /\ calls \in Seq(AiCall) /\ kept' \in [AiSession -> AiSession \union {NoSession}] /\ hasty' \in BOOLEAN
      /\ ~hasty' => SavesMatch(calls) /\ \A s \in AiSession : kept'[s] = s
  BY <1>2 DEF AiPageInv
<1> QED BY <1>2, <1>3, <1>4, <1>5, RequestKeeps

LEMMA WasResetKeeps ==
  ASSUME AiPageInv, NEW k \in DOMAIN calls, NEW ok \in BOOLEAN, WasReset(k, ok)
  PROVE  AiPageInv'
<1> DEFINE w == RemoveAt(calls, k)
           x == Asked("metrics", chosen)
           asked == IF ok THEN <<x>> ELSE <<>>
<1>1. /\ calls \in Seq(AiCall) /\ chosen \in AiSession \union {NoSession} /\ hasty \in BOOLEAN
      /\ kept \in [AiSession -> AiSession \union {NoSession}]
  BY DEF AiPageInv
<1>2. /\ calls[k].kind = "reset" /\ UNCHANGED <<drawn, chosen, displayed, kept, hasty>> /\ Request(w, asked)
      /\ calls[k].kind \notin Panel
  BY DEF WasReset, Panel
<1>3. /\ w \in Seq(AiCall) /\ \A p \in Panel : Loads(w, p) = {} => Loads(calls, p) = {}
      /\ \A p \in Panel : LastIs(calls, p, chosen) => LastIs(w, p, chosen)
      /\ SavesMatch(calls) => SavesMatch(w)
  BY <1>1, <1>2, OtherAnswer
<1>4. x \in AiCall /\ x.kind # "save" /\ x.of = chosen BY <1>1 DEF Asked, AiCall, Panel
<1> HIDE DEF x, w
<1>5. <<x>> \in Seq(AiCall) /\ SavesMatch(<<x>>) /\ \A p \in Panel : LastIs(<<x>>, p, chosen) BY <1>4, OneAsked
<1>6. <<>> \in Seq(AiCall) /\ SavesMatch(<<>>) /\ \A p \in Panel : LastIs(<<>>, p, chosen)
  BY NothingAsked DEF LastIs
<1>7. asked \in Seq(AiCall) /\ SavesMatch(asked) /\ \A p \in Panel : LastIs(asked, p, chosen) BY <1>5, <1>6
<1> HIDE DEF asked
<1>8. ~hasty' => SavesMatch(w) /\ SavesMatch(asked) /\ \A s \in AiSession : kept'[s] = s
  BY <1>2, <1>3, <1>7 DEF AiPageInv
<1>9. kept' \in [AiSession -> AiSession \union {NoSession}] /\ hasty' \in BOOLEAN BY <1>1, <1>2
<1> QED BY <1>2, <1>3, <1>7, <1>8, <1>9, RequestKeeps

\* Every step of the page keeps what holds of it.
LEMMA AiPageStep ==
  ASSUME AiPageInv, [AiPageNext]_aiPageVars
  PROVE  AiPageInv'
<1>1. ASSUME UNCHANGED aiPageVars PROVE AiPageInv'
  BY <1>1 DEF aiPageVars, AiPageInv, Follows, Shown
<1>2. ASSUME OpenPage \/ LeaveAiPage \/ Save \/ ResetMetrics PROVE AiPageInv'
  BY <1>2, OpenPageKeeps, LeaveKeeps, SaveKeeps, ResetKeeps
<1>3. ASSUME NEW s \in AiSession, ChangeSession(s) PROVE AiPageInv'
  <2>1. /\ drawn /\ chosen' = s /\ Request(calls, LoadBoth(s)) /\ UNCHANGED <<drawn, displayed, kept, hasty>>
        /\ calls \in Seq(AiCall) /\ drawn' \in BOOLEAN /\ displayed' \in [Panel -> AiSession \union {NoSession}]
    BY <1>3 DEF ChangeSession, AiPageInv
  <2> QED BY <2>1, SelectionKeeps
<1>4. ASSUME NEW k \in DOMAIN calls, NEW s \in AiSession, AiSessionsCame(k, s) PROVE AiPageInv'
  <2>1. /\ drawn' = TRUE /\ chosen' = s /\ Request(RemoveAt(calls, k), LoadBoth(s)) /\ UNCHANGED <<kept, hasty>>
        /\ displayed' = [p \in Panel |-> NoSession] /\ calls \in Seq(AiCall)
    BY <1>4 DEF AiSessionsCame, AiPageInv
  <2>2. RemoveAt(calls, k) \in Seq(AiCall) /\ (SavesMatch(calls) => SavesMatch(RemoveAt(calls, k)))
    BY <2>1, RemovedCallIs, RemovedSavesMatch
  <2>3. drawn' \in BOOLEAN /\ displayed' \in [Panel -> AiSession \union {NoSession}] BY <2>1
  <2> QED BY <2>1, <2>2, <2>3, SelectionKeeps
<1>5. ASSUME NEW k \in DOMAIN calls, NoSessions(k) PROVE AiPageInv' BY <1>5, NoSessionsKeeps
<1>6. ASSUME NEW k \in DOMAIN calls, NEW ok \in BOOLEAN, PanelCame(k, ok) \/ Saved(k, ok) \/ WasReset(k, ok)
      PROVE  AiPageInv'
  BY <1>6, PanelCameKeeps, SavedKeeps, WasResetKeeps
<1> QED BY <1>1, <1>2, <1>3, <1>4, <1>5, <1>6 DEF AiPageNext

LEMMA AiPageStarts ==
  ASSUME AiPageInit
  PROVE  AiPageInv
<1>1. /\ drawn = FALSE /\ chosen = NoSession /\ displayed = [p \in Panel |-> NoSession] /\ calls = <<>>
      /\ kept = [s \in AiSession |-> s] /\ marred = [p \in Panel |-> FALSE] /\ hasty = FALSE
  BY DEF AiPageInit
<1>2. calls \in Seq(AiCall) /\ SavesMatch(calls) /\ Len(calls) = 0 BY <1>1, NothingAsked
<1>3. Len(calls) <= MaxOpen BY <1>2, AiPageAssumption
<1>4. drawn \in BOOLEAN /\ hasty \in BOOLEAN /\ marred \in [Panel -> BOOLEAN] BY <1>1
<1>5. kept \in [AiSession -> AiSession \union {NoSession}] /\ \A s \in AiSession : kept[s] = s BY <1>1
<1> QED BY <1>1, <1>2, <1>3, <1>4, <1>5 DEF AiPageInv

LEMMA AiPageMeans ==
  ASSUME AiPageInv
  PROVE  AiPageTypeOK /\ AiFormIsTheirs
<1>1. Range(calls) \subseteq AiCall
  <2>1. calls \in Seq(AiCall) BY DEF AiPageInv
  <2> QED BY <2>1 DEF Range
<1>2. {drawn, hasty} \subseteq BOOLEAN BY Zenon DEF AiPageInv
<1>3. AiPageTypeOK BY <1>1, <1>2 DEF AiPageInv, AiPageTypeOK
<1>4. FormFollowsSelection BY DEF AiPageInv, Follows, Shown, FormFollowsSelection
<1>5. SettingsStayApart BY DEF AiPageInv, SettingsStayApart
<1> QED BY <1>3, <1>4, <1>5 DEF AiFormIsTheirs

-----------------------------------------------------------------------------
(* Who answers a message.                                                  *)

ChatState == [queue : SUBSET Nat, flushing : SUBSET Nat, pausedUntil : Nat, mutedUntil : Nat,
              strikes : 0..MaxStrikes]
Kept(c) == chat[c].queue \union chat[c].flushing
Moments == {Never} \union 0..LastMoment

InboundTyped ==
  /\ moment \in 0..LastMoment /\ open \in BOOLEAN /\ asks \in 0..MaxAsks
  /\ settings \in [role : RuleRole, failedOnly : BOOLEAN]
  /\ mail \in Seq([conv : Conv, kind : Kind]) /\ Len(mail) <= LastMail
  /\ \A b \in batches : /\ b.step \in {"webhook", "static", "sending"}
                        /\ b.msgs \subseteq 1..Len(mail) /\ b.msgs # {}
  /\ chat \in [Conv -> ChatState] /\ \A c \in Conv : Kept(c) \subseteq 1..Len(mail)
  /\ cooled \in [Conv -> Nat] /\ human \in [Conv -> Moments] /\ own \in [Conv -> Moments]
  /\ promised \in [1..LastMail -> Int] /\ decided \in [Conv -> {Never} \union Nat]

\* A message is in one batch, or in one queue or generation, or answered once.
Held(k) == (\E b \in batches : k \in b.msgs) \/ (\E c \in Conv : k \in Kept(c))
OnePlace ==
  /\ \A a, b \in batches : \A k \in a.msgs : k \in b.msgs => a = b
  /\ \A b \in batches, c \in Conv : \A k \in b.msgs : k \notin Kept(c)
  /\ \A c, d \in Conv : \A k \in Kept(c) : k \in Kept(d) => c = d
  /\ \A c \in Conv : \A k \in chat[c].queue : k \notin chat[c].flushing
  /\ \A x \in answers : ~Held(x[1]) /\ x[1] \in 1..Len(mail)
  /\ OneOwner

\* Rules that are the fallback only, or off, have nothing to do.
RolesAreKept ==
  settings.role \in {"fallback", "off"} =>
    (\A b \in batches : b.step = "webhook") /\ (\A x \in answers : x[2] # "static")

\* What was promised to the humans about a queued message is in the pause, or over.
PromisesAreKept ==
  \A c \in Conv : \A k \in chat[c].queue : promised[k] <= chat[c].pausedUntil \/ promised[k] <= moment

\* The cooldown of the last static reply is in the cache.
CooldownIsKept == \A c \in Conv : decided[c] # Never => cooled[c] >= decided[c] + Cooldown

InboundInv ==
  InboundTyped /\ OnePlace /\ RolesAreKept /\ PromisesAreKept /\ CooldownIsKept

LEMMA InboundBounds ==
  /\ LastMail \in Nat /\ LastMoment \in Nat /\ HumanIdle \in Nat /\ MuteTime \in Nat
  /\ Cooldown \in Nat /\ MaxStrikes \in Nat /\ MaxAsks \in Nat /\ Never \in Int /\ Never < 0
  /\ Never = -HumanIdle - 1
BY InboundAssumption DEF Never

\* The later of two times; the first and the last message of a batch.
LEMMA MaxOfTwo ==
  ASSUME NEW a \in Int, NEW b \in Int
  PROVE  /\ Max({a, b}) \in {a, b} /\ Max({a, b}) >= a /\ Max({a, b}) >= b /\ Max({a, b}) \in Int
         /\ a \in Nat => Max({a, b}) \in Nat
<1>1. \E x \in {a, b} : \A y \in {a, b} : x >= y
  <2>1. CASE a >= b BY <2>1
  <2>2. CASE ~(a >= b) BY <2>2
  <2> QED BY <2>1, <2>2
<1>2. Max({a, b}) \in {a, b} /\ \A y \in {a, b} : Max({a, b}) >= y BY <1>1 DEF Max
<1> DEFINE m == Max({a, b})
<1>3. (m = a \/ m = b) /\ m >= a /\ m >= b BY <1>2
<1> HIDE DEF m
<1>4. m \in Int /\ (a \in Nat => m \in Nat) BY <1>3
<1> QED BY <1>2, <1>3, <1>4 DEF m

LEMMA FirstAndLast ==
  ASSUME NEW n \in Nat, NEW S \in SUBSET (1..n), S # {}
  PROVE  Min(S) \in S /\ Max(S) \in S
<1>1. \A x \in S : x \in Nat /\ x <= n OBVIOUS
<1>2. \E x \in S : \A y \in S : x <= y
  <2>1. S \in SUBSET Nat BY <1>1
  <2> QED BY <2>1, NatLeast
<1>3. \E x \in S : \A y \in S : x >= y
  <2> DEFINE T == {n - x : x \in S}
  <2>0. \A x \in S : n - x \in Nat BY <1>1
  <2>1. T \in SUBSET Nat /\ T # {}
    <3>1. T \in SUBSET Nat BY <2>0
    <3>2. PICK x \in S : TRUE OBVIOUS
    <3>3. n - x \in T BY <3>2
    <3> QED BY <3>1, <3>3
  <2>2. PICK t \in T : \A y \in T : t <= y BY <2>1, NatLeast
  <2>3. PICK x \in S : t = n - x BY <2>2
  <2>4. ASSUME NEW y \in S PROVE x >= y
    <3>1. n - y \in T OBVIOUS
    <3>2. t <= n - y BY <2>2, <3>1
    <3> QED BY <1>1, <2>3, <3>2
  <2> QED BY <2>4
<1>4. Min(S) \in S BY <1>2 DEF Min
<1>5. Max(S) \in S BY <1>3 DEF Max
<1> QED BY <1>4, <1>5

\* A batch goes on with some of its messages, or is dropped.
LEMMA BatchMoves ==
  ASSUME InboundTyped, OnePlace, NEW b \in batches, NEW ks, ks \subseteq b.msgs,
         NEW step, ks # {} => step \in {"webhook", "static", "sending"}, With(b, ks, step)
  PROVE  /\ \A a \in batches' : /\ a.step \in {"webhook", "static", "sending"}
                                /\ a.msgs \subseteq 1..Len(mail) /\ a.msgs # {}
                                /\ a \in batches \/ (a.step = step /\ ks # {})
                                /\ \E o \in batches : a.msgs \subseteq o.msgs
         /\ \A a, o \in batches' : \A k \in a.msgs : k \in o.msgs => a = o
         /\ \A a \in batches' : \A k \in b.msgs : k \notin ks => k \notin a.msgs
<1> DEFINE n == [msgs |-> ks, step |-> step]
<1>1. n.msgs = ks /\ n.step = step OBVIOUS
<1>2. batches' = (batches \ {b}) \union (IF ks = {} THEN {} ELSE {n}) BY DEF With
<1> HIDE DEF n
<1>3. \A a \in batches' : (a \in batches /\ a # b) \/ (a = n /\ ks # {}) BY <1>2
<1>4. b.msgs \subseteq 1..Len(mail) BY DEF InboundTyped
<1>5. ASSUME NEW a \in batches'
      PROVE  /\ a.step \in {"webhook", "static", "sending"} /\ a.msgs \subseteq 1..Len(mail) /\ a.msgs # {}
             /\ a \in batches \/ (a.step = step /\ ks # {})
             /\ \E o \in batches : a.msgs \subseteq o.msgs
  <2>1. CASE a \in batches BY <2>1 DEF InboundTyped
  <2>2. CASE a = n /\ ks # {} BY <1>1, <1>4, <2>2
  <2> QED BY <1>3, <2>1, <2>2
<1>6. \A a, o \in batches : \A k \in a.msgs : k \in o.msgs => a = o BY DEF OnePlace
<1>7. ASSUME NEW a \in batches', NEW o \in batches', NEW k \in a.msgs, k \in o.msgs PROVE a = o
  <2>1. CASE a \in batches /\ a # b /\ o \in batches BY <1>6, <1>7, <2>1
  <2>2. CASE a \in batches /\ a # b /\ o = n
    <3>1. k \in b.msgs BY <1>1, <1>7, <2>2
    <3> QED BY <1>6, <2>2, <3>1
  <2>3. CASE a = n /\ o \in batches /\ o # b
    <3>1. k \in b.msgs BY <1>1, <2>3
    <3> QED BY <1>6, <1>7, <2>3, <3>1
  <2>4. CASE a = n /\ o = n BY <2>4
  <2> QED BY <1>3, <2>1, <2>2, <2>3, <2>4
<1>8. ASSUME NEW a \in batches', NEW k \in b.msgs, k \notin ks PROVE k \notin a.msgs
  <2>1. CASE a \in batches /\ a # b BY <1>6, <2>1
  <2>2. CASE a = n BY <1>1, <1>8, <2>2
  <2> QED BY <1>3, <2>1, <2>2
<1> QED BY <1>5, <1>7, <1>8

\* Nothing has a new place and nothing is answered: one place each, still.
LEMMA PlacesAreLeft ==
  ASSUME OnePlace,
         \A a \in batches' : \E o \in batches : a.msgs \subseteq o.msgs,
         \A a, o \in batches' : \A k \in a.msgs : k \in o.msgs => a = o,
         \A c \in Conv : /\ Kept(c)' \subseteq Kept(c)
                         /\ \A k \in chat'[c].queue : k \notin chat'[c].flushing,
         answers' = answers, mail' = mail
  PROVE  OnePlace'
<1>1. ASSUME NEW k, Held(k)' PROVE Held(k) BY <1>1 DEF Held
<1>2. ASSUME NEW b \in batches', NEW c \in Conv, NEW k \in b.msgs PROVE k \notin Kept(c)'
  BY DEF OnePlace
<1>3. ASSUME NEW c \in Conv, NEW d \in Conv, NEW k \in Kept(c)', k \in Kept(d)' PROVE c = d
  BY <1>3 DEF OnePlace
<1>4. ASSUME NEW x \in answers' PROVE ~Held(x[1])' /\ x[1] \in 1..Len(mail')
  BY <1>1 DEF OnePlace
<1>5. OneOwner' BY DEF OnePlace, OneOwner
<1> QED BY <1>2, <1>3, <1>4, <1>5 DEF OnePlace

\* A message that had a place is answered and leaves it.
LEMMA AnswerTakesThePlace ==
  ASSUME OnePlace, NEW k \in 1..Len(mail), NEW by, Held(k), ~Held(k)',
         \A a \in batches' : \E o \in batches : a.msgs \subseteq o.msgs,
         \A a, o \in batches' : \A i \in a.msgs : i \in o.msgs => a = o,
         \A c \in Conv : /\ Kept(c)' \subseteq Kept(c)
                         /\ \A i \in chat'[c].queue : i \notin chat'[c].flushing,
         answers' = answers \union {<<k, by>>}, mail' = mail
  PROVE  OnePlace'
<1>1. ASSUME NEW i, Held(i)' PROVE Held(i) BY <1>1 DEF Held
<1>2. ASSUME NEW b \in batches', NEW c \in Conv, NEW i \in b.msgs PROVE i \notin Kept(c)'
  BY DEF OnePlace
<1>3. ASSUME NEW c \in Conv, NEW d \in Conv, NEW i \in Kept(c)', i \in Kept(d)' PROVE c = d
  BY <1>3 DEF OnePlace
<1> DEFINE new == <<k, by>>
<1>4. new[1] = k /\ answers' = answers \union {new} OBVIOUS
<1> HIDE DEF new
<1>5. ASSUME NEW x \in answers' PROVE ~Held(x[1])' /\ x[1] \in 1..Len(mail')
  <2>1. CASE x \in answers BY <1>1, <2>1 DEF OnePlace
  <2>2. CASE x = new BY <1>4, <2>2
  <2> QED BY <1>4, <2>1, <2>2
<1>6. ASSUME NEW x \in answers', NEW y \in answers', x[1] = y[1] PROVE x = y
  <2>1. CASE x \in answers /\ y \in answers BY <1>6, <2>1 DEF OnePlace, OneOwner
  <2>2. CASE x \in answers /\ y = new
    <3>1. ~Held(x[1]) BY <2>2 DEF OnePlace
    <3> QED BY <1>4, <1>6, <2>2, <3>1
  <2>3. CASE x = new /\ y \in answers
    <3>1. ~Held(y[1]) BY <2>3 DEF OnePlace
    <3> QED BY <1>4, <1>6, <2>3, <3>1
  <2>4. CASE x = new /\ y = new BY <2>4
  <2> QED BY <1>4, <2>1, <2>2, <2>3, <2>4
<1>7. OneOwner' BY <1>6 DEF OneOwner
<1> QED BY <1>2, <1>3, <1>5, <1>7 DEF OnePlace

\* What a conversation becomes: its pause is prolonged, or it is muted.
LEMMA ChatMoves ==
  ASSUME chat \in [Conv -> ChatState], NEW c \in Conv, NEW s \in ChatState, chat' = [chat EXCEPT ![c] = s]
  PROVE  chat' \in [Conv -> ChatState] /\ chat'[c] = s /\ \A d \in Conv : d # c => chat'[d] = chat[d]
OBVIOUS

LEMMA ChatIs ==
  ASSUME InboundTyped, NEW c \in Conv
  PROVE  /\ chat[c] \in ChatState /\ chat[c].queue \in SUBSET Nat /\ chat[c].flushing \in SUBSET Nat
         /\ chat[c].pausedUntil \in Nat /\ chat[c].mutedUntil \in Nat /\ chat[c].strikes \in 0..MaxStrikes
BY DEF InboundTyped, ChatState

LEMMA PauseIs ==
  ASSUME NEW s \in ChatState, NEW until \in Int
  PROVE  /\ Pause(s, until) \in ChatState
         /\ Pause(s, until).queue = s.queue /\ Pause(s, until).flushing = s.flushing
         /\ Pause(s, until).strikes = s.strikes /\ Pause(s, until).mutedUntil = s.mutedUntil
         /\ Pause(s, until).pausedUntil >= until /\ Pause(s, until).pausedUntil >= s.pausedUntil
<1> DEFINE m == Max({s.pausedUntil, until})
<1>1. s.pausedUntil \in Nat BY DEF ChatState
<1> DEFINE p == s.pausedUntil
<1>10. p \in Nat /\ p \in Int BY <1>1
<1> HIDE DEF p
<1>11. Max({p, until}) \in Nat /\ Max({p, until}) >= until /\ Max({p, until}) >= p
  BY <1>10, MaxOfTwo
<1>2. m \in Nat /\ m >= until /\ m >= s.pausedUntil BY <1>11 DEF p
<1>3. Pause(s, until) = [s EXCEPT !.pausedUntil = m] BY DEF Pause
<1> HIDE DEF m
<1> DEFINE t == [s EXCEPT !.pausedUntil = m]
<1>4. /\ t \in ChatState /\ t.queue = s.queue /\ t.flushing = s.flushing /\ t.strikes = s.strikes
      /\ t.pausedUntil = m /\ t.mutedUntil = s.mutedUntil
  BY <1>2 DEF ChatState
<1> HIDE DEF t
<1> QED BY <1>2, <1>3, <1>4 DEF t

LEMMA BlockedIs ==
  ASSUME InboundTyped, NEW c \in Conv, Blocked(c)
  PROVE  /\ chat' \in [Conv -> ChatState] /\ \A d \in Conv : d # c => chat'[d] = chat[d]
         /\ chat'[c].queue \subseteq chat[c].queue /\ chat'[c].flushing = chat[c].flushing
         /\ chat'[c].pausedUntil = chat[c].pausedUntil
         /\ \/ chat'[c].queue = chat[c].queue /\ chat'[c].mutedUntil = chat[c].mutedUntil
            \/ chat'[c].queue = {} /\ chat'[c].mutedUntil >= chat[c].mutedUntil
<1> DEFINE o == chat[c]
           s == [o EXCEPT !.strikes = @ + 1]
           m == Max({s.mutedUntil, moment + MuteTime})
           t == [s EXCEPT !.mutedUntil = m, !.queue = {}, !.strikes = 0]
<1>1. o \in ChatState /\ o.strikes \in Nat /\ o.mutedUntil \in Nat /\ moment \in Nat
  <2>1. o \in ChatState /\ o.strikes \in 0..MaxStrikes /\ o.mutedUntil \in Nat BY ChatIs
  <2>2. moment \in 0..LastMoment BY DEF InboundTyped
  <2> QED BY <2>1, <2>2, InboundBounds
<1>2. chat' = [chat EXCEPT ![c] = IF s.strikes >= MaxStrikes THEN Mute(s) ELSE s] BY DEF Blocked
<1>3. Mute(s) = t BY DEF Mute
<1>4. chat \in [Conv -> ChatState] BY DEF InboundTyped
<1> HIDE DEF o
<1>5. /\ s.strikes = o.strikes + 1 /\ s.mutedUntil = o.mutedUntil /\ s.queue = o.queue
      /\ s.flushing = o.flushing /\ s.pausedUntil = o.pausedUntil
      /\ s \in [queue : SUBSET Nat, flushing : SUBSET Nat, pausedUntil : Nat, mutedUntil : Nat, strikes : Nat]
  BY <1>1 DEF ChatState
<1> HIDE DEF s
<1>6. m \in Nat /\ m >= o.mutedUntil
  <2> DEFINE p == s.mutedUntil
             q == moment + MuteTime
  <2>1. p \in Nat /\ p \in Int /\ q \in Int BY <1>1, <1>5, InboundBounds
  <2> HIDE DEF p, q
  <2>2. Max({p, q}) \in Nat /\ Max({p, q}) >= p BY <2>1, MaxOfTwo
  <2> QED BY <1>5, <2>2 DEF p, q
<1> HIDE DEF m
<1>7. /\ t \in ChatState /\ t.queue = {} /\ t.flushing = s.flushing /\ t.pausedUntil = s.pausedUntil
      /\ t.mutedUntil = m
  <2>1. 0 \in 0..MaxStrikes BY InboundBounds
  <2> QED BY <1>5, <1>6, <2>1 DEF ChatState
<1> HIDE DEF t
<1>8. CASE s.strikes >= MaxStrikes
  <2>1. chat' = [chat EXCEPT ![c] = t] BY <1>2, <1>3, <1>8
  <2>2. chat' \in [Conv -> ChatState] /\ chat'[c] = t /\ \A d \in Conv : d # c => chat'[d] = chat[d]
    BY <1>4, <1>7, <2>1, ChatMoves
  <2> QED BY <1>5, <1>6, <1>7, <2>2 DEF o
<1>9. CASE ~(s.strikes >= MaxStrikes)
  <2>1. chat' = [chat EXCEPT ![c] = s] BY <1>2, <1>9
  <2>2. s \in ChatState
    <3>1. s.strikes \in Nat /\ s.strikes \in 0..MaxStrikes BY <1>1, <1>5, <1>9, InboundBounds
    <3> QED BY <1>5, <3>1 DEF ChatState
  <2>3. chat' \in [Conv -> ChatState] /\ chat'[c] = s /\ \A d \in Conv : d # c => chat'[d] = chat[d]
    BY <1>4, <2>1, <2>2, ChatMoves
  <2> QED BY <1>5, <2>3 DEF o
<1> QED BY <1>8, <1>9

\* A human who is active wrote a while ago at most, and what that promises is a time.
LEMMA HumanIs ==
  ASSUME InboundTyped, NEW c \in Conv
  PROVE  /\ human[c] \in Int /\ human[c] + HumanIdle \in Int /\ moment \in Nat
         /\ ~HumanActive(c) => human[c] + HumanIdle <= moment
<1>1. human[c] \in Moments /\ moment \in 0..LastMoment BY DEF InboundTyped
<1>2. human[c] \in Int /\ moment \in Nat BY <1>1, InboundBounds DEF Moments
<1>3. ASSUME ~HumanActive(c) PROVE human[c] + HumanIdle <= moment
  <2>1. ~(human[c] >= moment - HumanIdle) BY <1>3 DEF HumanActive
  <2> QED BY <1>2, <2>1, InboundBounds
<1> QED BY <1>2, <1>3, InboundBounds

\* An admitted batch: its conversation is paused for an active human, and it is queued.
LEMMA AdmittedIs ==
  ASSUME InboundTyped, NEW c \in Conv, NEW ks \in SUBSET (1..Len(mail)), Admitted(c, ks)
  PROVE  /\ chat' \in [Conv -> ChatState] /\ \A d \in Conv : d # c => chat'[d] = chat[d]
         /\ chat'[c].queue = (IF open THEN chat[c].queue \union ks ELSE chat[c].queue)
         /\ chat'[c].flushing = chat[c].flushing /\ chat'[c].mutedUntil = chat[c].mutedUntil
         /\ chat'[c].pausedUntil >= chat[c].pausedUntil
         /\ human[c] + HumanIdle <= chat'[c].pausedUntil \/ human[c] + HumanIdle <= moment
         /\ promised' = [k \in 1..LastMail |-> IF k \in ks THEN human[c] + HumanIdle ELSE promised[k]]
<1> DEFINE o == chat[c]
           cleared == [o EXCEPT !.strikes = 0]
           until == human[c] + HumanIdle
           held == IF HumanActive(c) THEN Pause(cleared, until) ELSE cleared
           s == IF open THEN [held EXCEPT !.queue = @ \union ks] ELSE held
<1>1. chat' = [chat EXCEPT ![c] = s] BY DEF Admitted
<1>2. promised' = [k \in 1..LastMail |-> IF k \in ks THEN human[c] + HumanIdle ELSE promised[k]]
  BY DEF Admitted
<1>3. o \in ChatState /\ chat \in [Conv -> ChatState] BY ChatIs DEF InboundTyped
<1>4. until \in Int /\ (~HumanActive(c) => until <= moment) BY HumanIs
<1> HIDE DEF o, until
<1>5. /\ cleared \in ChatState /\ cleared.queue = o.queue /\ cleared.flushing = o.flushing
      /\ cleared.pausedUntil = o.pausedUntil /\ cleared.mutedUntil = o.mutedUntil
  <2>1. 0 \in 0..MaxStrikes BY InboundBounds
  <2> QED BY <1>3, <2>1 DEF ChatState
<1> HIDE DEF cleared
<1>6. /\ held \in ChatState /\ held.queue = o.queue /\ held.flushing = o.flushing
      /\ held.mutedUntil = o.mutedUntil
      /\ held.pausedUntil >= o.pausedUntil /\ (until <= held.pausedUntil \/ until <= moment)
  <2>1. CASE HumanActive(c)
    <3>1. held = Pause(cleared, until) BY <2>1
    <3>2. /\ Pause(cleared, until) \in ChatState
          /\ Pause(cleared, until).queue = cleared.queue /\ Pause(cleared, until).flushing = cleared.flushing
          /\ Pause(cleared, until).pausedUntil >= until /\ Pause(cleared, until).pausedUntil >= cleared.pausedUntil
          /\ Pause(cleared, until).mutedUntil = cleared.mutedUntil
      BY <1>4, <1>5, PauseIs
    <3> DEFINE h == held
    <3>3. h \in ChatState /\ h.queue = o.queue /\ h.flushing = o.flushing
          /\ h.pausedUntil >= until /\ h.pausedUntil >= o.pausedUntil /\ h.mutedUntil = o.mutedUntil
      BY <1>5, <3>1, <3>2
    <3> HIDE DEF h
    <3>4. h.pausedUntil \in Nat BY <3>3 DEF ChatState
    <3>5. until <= h.pausedUntil BY <1>4, <3>3, <3>4
    <3> QED BY <3>3, <3>5 DEF h
  <2>2. CASE ~HumanActive(c)
    <3>1. held = cleared BY <2>2
    <3>2. cleared.pausedUntil \in Nat BY <1>5 DEF ChatState
    <3> QED BY <1>4, <1>5, <2>2, <3>1, <3>2
  <2> QED BY <2>1, <2>2
<1> HIDE DEF held
<1>7. /\ s \in ChatState /\ s.queue = (IF open THEN o.queue \union ks ELSE o.queue)
      /\ s.flushing = o.flushing /\ s.pausedUntil = held.pausedUntil /\ s.mutedUntil = o.mutedUntil
  <2>1. CASE open
    <3>1. ks \in SUBSET Nat /\ held.queue \in SUBSET Nat
      <4>1. Len(mail) \in Nat BY DEF InboundTyped
      <4> QED BY <1>6, <4>1 DEF ChatState
    <3> QED BY <1>6, <2>1, <3>1 DEF ChatState
  <2>2. CASE ~open BY <1>6, <2>2
  <2> QED BY <2>1, <2>2
<1> HIDE DEF s
<1>8. chat' \in [Conv -> ChatState] /\ chat'[c] = s /\ \A d \in Conv : d # c => chat'[d] = chat[d]
  BY <1>1, <1>3, <1>7, ChatMoves
<1> QED BY <1>2, <1>6, <1>7, <1>8 DEF o, until

\* What a step may not do: give the AI what was promised to the humans, or reply again
\* before the cooldown is over.
AsksHumans ==
  \A c \in Conv : chat[c].flushing = {} /\ chat'[c].flushing # {} =>
    \A k \in chat'[c].flushing : promised[k] <= moment
KeepsCooldown ==
  \A c \in Conv : decided'[c] # decided[c] /\ decided[c] # Never /\ decided'[c] # Never =>
    decided'[c] >= decided[c] + Cooldown

\* Promises that were kept stay so when queues lose messages and pauses grow.
LEMMA PromisesStay ==
  ASSUME InboundTyped, PromisesAreKept, moment' \in Nat, moment <= moment', promised' = promised,
         \A c \in Conv : /\ chat'[c].queue \subseteq chat[c].queue /\ chat'[c].pausedUntil \in Nat
                         /\ chat'[c].queue # {} => chat'[c].pausedUntil >= chat[c].pausedUntil
  PROVE  PromisesAreKept'
<1> SUFFICES ASSUME NEW c \in Conv, NEW k \in chat'[c].queue
             PROVE  promised[k] <= chat'[c].pausedUntil \/ promised[k] <= moment'
  BY DEF PromisesAreKept
<1>1. k \in chat[c].queue /\ chat'[c].pausedUntil >= chat[c].pausedUntil /\ chat'[c].pausedUntil \in Nat
  OBVIOUS
<1>2. promised[k] <= chat[c].pausedUntil \/ promised[k] <= moment BY <1>1 DEF PromisesAreKept
<1>3. k \in 1..LastMail
  <2>1. k \in 1..Len(mail) /\ Len(mail) \in Nat /\ Len(mail) <= LastMail BY <1>1 DEF InboundTyped, Kept
  <2> QED BY <2>1, InboundBounds
<1>4. promised[k] \in Int BY <1>3 DEF InboundTyped
<1>5. chat[c].pausedUntil \in Nat /\ moment \in Nat
  <2>1. moment \in 0..LastMoment BY DEF InboundTyped
  <2> QED BY <2>1, ChatIs, InboundBounds
<1> QED BY <1>1, <1>2, <1>4, <1>5

\* A batch of the webhook ended: dropped, blocked, or admitted.
LEMMA TextsAre ==
  ASSUME InboundTyped, NEW b \in batches, Texts(b) # {}
  PROVE  /\ Texts(b) \subseteq b.msgs /\ Texts(b) \in SUBSET (1..Len(mail)) /\ Len(mail) \in Nat
         /\ mail[Max(Texts(b))].conv \in Conv
<1> DEFINE ks == Texts(b)
<1>1. ks \subseteq b.msgs BY DEF Texts
<1>2. b.msgs \subseteq 1..Len(mail) /\ Len(mail) \in Nat BY DEF InboundTyped
<1>3. ks \in SUBSET (1..Len(mail)) BY <1>1, <1>2
<1> HIDE DEF ks
<1>4. ks # {} BY DEF ks
<1>5. Max(ks) \in ks BY <1>2, <1>3, <1>4, FirstAndLast
<1>6. Max(ks) \in 1..Len(mail) BY <1>3, <1>5
<1>7. mail[Max(ks)] \in [conv : Conv, kind : Kind] BY <1>6, ElementOfSeq DEF InboundTyped
<1> QED BY <1>1, <1>2, <1>3, <1>7 DEF ks

LEMMA HandleKeeps ==
  ASSUME InboundInv, NEW b \in batches, NEW failed \in BOOLEAN, Handle(b, failed)
  PROVE  InboundInv' /\ AsksHumans /\ KeepsCooldown
<1> DEFINE ks == Texts(b)
           c == mail[Max(ks)].conv
           attack == \E k \in ks : mail[k].kind = "attack"
<1>1. InboundTyped /\ OnePlace /\ RolesAreKept /\ PromisesAreKept /\ CooldownIsKept BY DEF InboundInv
<1>2. UNCHANGED <<moment, settings, open, own, human, asks, mail, cooled, answers, decided>> /\ b.step = "webhook"
  BY DEF Handle, Rest
<1>3. \/ (ks = {} \/ IsMuted(c)) /\ With(b, {}, "") /\ UNCHANGED <<chat, promised>>
      \/ ks # {} /\ attack /\ With(b, {}, "") /\ Blocked(c) /\ UNCHANGED promised
      \/ /\ ks # {} /\ Admitted(c, ks)
         /\ With(b, IF ~open /\ StaticAnswers(failed) THEN ks ELSE {}, "static")
  BY DEF Handle
<1>4. ks # {} => ks \subseteq b.msgs /\ ks \in SUBSET (1..Len(mail)) /\ c \in Conv BY <1>1, TextsAre
<1> HIDE DEF ks, c, attack
<1>5. moment \in Nat /\ moment' \in Nat BY <1>1, <1>2, InboundBounds DEF InboundTyped
<1>6. CooldownIsKept' BY <1>1, <1>2 DEF CooldownIsKept
<1>7. KeepsCooldown BY <1>2 DEF KeepsCooldown
<1>8. \A d \in Conv : chat[d] \in ChatState /\ chat[d].pausedUntil \in Nat BY <1>1, ChatIs
\* Nothing is queued.
<1>9. ASSUME With(b, {}, ""), promised' = promised, chat' \in [Conv -> ChatState],
             \A d \in Conv : /\ chat'[d].queue \subseteq chat[d].queue
                             /\ chat'[d].flushing = chat[d].flushing
                             /\ chat'[d].pausedUntil = chat[d].pausedUntil
      PROVE  InboundInv' /\ AsksHumans
  <2>1. /\ \A a \in batches' : /\ a.step \in {"webhook", "static", "sending"}
                               /\ a.msgs \subseteq 1..Len(mail) /\ a.msgs # {}
                               /\ a \in batches \/ (a.step = "" /\ {} # {})
                               /\ \E o \in batches : a.msgs \subseteq o.msgs
        /\ \A a, o \in batches' : \A k \in a.msgs : k \in o.msgs => a = o
    BY <1>1, <1>9, BatchMoves
  <2>2. ASSUME NEW d \in Conv
        PROVE  Kept(d)' \subseteq Kept(d) /\ \A k \in chat'[d].queue : k \notin chat'[d].flushing
    <3>1. chat'[d].queue \subseteq chat[d].queue /\ chat'[d].flushing = chat[d].flushing BY <1>9
    <3>2. \A k \in chat[d].queue : k \notin chat[d].flushing BY <1>1 DEF OnePlace
    <3> QED BY <3>1, <3>2 DEF Kept
  <2>3. OnePlace' BY <1>1, <1>2, <2>1, <2>2, PlacesAreLeft
  <2>4. InboundTyped'
    <3>1. \A d \in Conv : Kept(d)' \subseteq 1..Len(mail) BY <1>1, <2>2 DEF InboundTyped
    <3>2. (\A d \in Conv : Kept(d) \subseteq 1..Len(mail))' BY <1>2, <3>1
    <3>3. (\A a \in batches : a.step \in {"webhook", "static", "sending"}
                              /\ a.msgs \subseteq 1..Len(mail) /\ a.msgs # {})'
      BY <1>2, <2>1
    <3> QED BY <1>1, <1>2, <1>9, <3>2, <3>3 DEF InboundTyped
  <2>5. RolesAreKept' BY <1>1, <1>2, <2>1 DEF RolesAreKept
  <2>6. ASSUME NEW d \in Conv
        PROVE  /\ chat'[d].queue \subseteq chat[d].queue /\ chat'[d].pausedUntil \in Nat
               /\ chat'[d].queue # {} => chat'[d].pausedUntil >= chat[d].pausedUntil
    <3>1. chat'[d].pausedUntil = chat[d].pausedUntil /\ chat[d].pausedUntil \in Nat BY <1>8, <1>9
    <3>2. chat'[d].queue \subseteq chat[d].queue BY <1>9
    <3> QED BY <3>1, <3>2
  <2>7. PromisesAreKept'
    <3>1. moment' = moment BY <1>2
    <3>2. moment' \in Nat /\ moment <= moment' BY <1>5, <3>1
    <3>3. promised' = promised BY <1>9
    <3> QED BY <1>1, <2>6, <3>2, <3>3, PromisesStay
  <2>8. AsksHumans BY <1>9 DEF AsksHumans
  <2> QED BY <1>6, <2>3, <2>4, <2>5, <2>7, <2>8 DEF InboundInv
<1>10. CASE With(b, {}, "") /\ UNCHANGED <<chat, promised>>
  <2>1. chat' \in [Conv -> ChatState] BY <1>1, <1>10 DEF InboundTyped
  <2> QED BY <1>7, <1>9, <1>10, <2>1
<1>11. CASE ks # {} /\ With(b, {}, "") /\ Blocked(c) /\ UNCHANGED promised
  <2>1. /\ chat' \in [Conv -> ChatState] /\ \A d \in Conv : d # c => chat'[d] = chat[d]
        /\ chat'[c].queue \subseteq chat[c].queue /\ chat'[c].flushing = chat[c].flushing
        /\ chat'[c].pausedUntil = chat[c].pausedUntil
    BY <1>1, <1>4, <1>11, BlockedIs
  <2>2. \A d \in Conv : /\ chat'[d].queue \subseteq chat[d].queue
                        /\ chat'[d].flushing = chat[d].flushing
                        /\ chat'[d].pausedUntil = chat[d].pausedUntil
    BY <2>1
  <2> QED BY <1>7, <1>9, <1>11, <2>1, <2>2
<1>12. CASE /\ ks # {} /\ Admitted(c, ks)
            /\ With(b, IF ~open /\ StaticAnswers(failed) THEN ks ELSE {}, "static")
  <2> DEFINE left == IF ~open /\ StaticAnswers(failed) THEN ks ELSE {}
  <2>1. /\ chat' \in [Conv -> ChatState] /\ \A d \in Conv : d # c => chat'[d] = chat[d]
        /\ chat'[c].queue = (IF open THEN chat[c].queue \union ks ELSE chat[c].queue)
        /\ chat'[c].flushing = chat[c].flushing
        /\ chat'[c].pausedUntil >= chat[c].pausedUntil
        /\ human[c] + HumanIdle <= chat'[c].pausedUntil \/ human[c] + HumanIdle <= moment
        /\ promised' = [k \in 1..LastMail |-> IF k \in ks THEN human[c] + HumanIdle ELSE promised[k]]
    BY <1>1, <1>4, <1>12, AdmittedIs
  <2>2. left \subseteq b.msgs /\ (left # {} => ~open /\ StaticAnswers(failed)) BY <1>4, <1>12
  <2>3. With(b, left, "static") BY <1>12
  <2>4. open => left = {} OBVIOUS
  <2> HIDE DEF left
  <2>5. /\ \A a \in batches' : /\ a.step \in {"webhook", "static", "sending"}
                               /\ a.msgs \subseteq 1..Len(mail) /\ a.msgs # {}
                               /\ a \in batches \/ (a.step = "static" /\ left # {})
                               /\ \E o \in batches : a.msgs \subseteq o.msgs
        /\ \A a, o \in batches' : \A k \in a.msgs : k \in o.msgs => a = o
        /\ \A a \in batches' : \A k \in b.msgs : k \notin left => k \notin a.msgs
    BY <1>1, <2>2, <2>3, BatchMoves
  <2>6. \A k \in ks : k \in b.msgs /\ k \in 1..LastMail /\ \A d \in Conv : k \notin Kept(d)
    <3>1. Len(mail) \in Nat /\ Len(mail) <= LastMail BY <1>1 DEF InboundTyped
    <3> QED BY <1>1, <1>4, <1>12, <3>1, InboundBounds DEF OnePlace
  <2>7. \A d \in Conv : /\ chat'[d].flushing = chat[d].flushing
                        /\ chat'[d].queue = chat[d].queue \/ (d = c /\ open /\ chat'[d].queue = chat[d].queue \union ks)
    BY <1>4, <1>12, <2>1
  <2>8. \A d \in Conv : \A k \in Kept(d)' : k \in Kept(d) \/ (d = c /\ open /\ k \in ks) BY <2>7 DEF Kept
  <2>9. OnePlace'
    <3>1. CASE ~open
      <4>1. \A d \in Conv : chat'[d].flushing = chat[d].flushing /\ chat'[d].queue = chat[d].queue
        BY <2>7, <3>1
      <4>2. ASSUME NEW d \in Conv
            PROVE  Kept(d)' \subseteq Kept(d) /\ \A k \in chat'[d].queue : k \notin chat'[d].flushing
        BY <1>1, <4>1 DEF OnePlace, Kept
      <4> QED BY <1>1, <1>2, <2>5, <4>2, PlacesAreLeft
    <3>2. CASE open
      <4>1. \A a \in batches' : \A k \in ks : k \notin a.msgs BY <2>4, <2>5, <2>6, <3>2
      <4>2. ASSUME NEW a \in batches', NEW d \in Conv, NEW k \in a.msgs PROVE k \notin Kept(d)'
        <5>1. PICK o \in batches : a.msgs \subseteq o.msgs BY <2>5
        <5>2. k \notin Kept(d) BY <1>1, <5>1 DEF OnePlace
        <5>3. k \notin ks BY <4>1
        <5> QED BY <2>8, <5>2, <5>3
      <4>3. ASSUME NEW d \in Conv, NEW e \in Conv, NEW k \in Kept(d)', k \in Kept(e)' PROVE d = e
        <5>1. CASE k \in ks
          <6>1. \A f \in Conv : k \notin Kept(f) BY <2>6, <5>1
          <6> QED BY <2>8, <4>3, <6>1
        <5>2. CASE k \notin ks
          <6>1. k \in Kept(d) /\ k \in Kept(e) BY <2>8, <4>3, <5>2
          <6> QED BY <1>1, <6>1 DEF OnePlace
        <5> QED BY <5>1, <5>2
      <4>4. ASSUME NEW d \in Conv, NEW k \in chat'[d].queue PROVE k \notin chat'[d].flushing
        <5>1. CASE k \in chat[d].queue BY <1>1, <2>7, <5>1 DEF OnePlace
        <5>2. CASE k \notin chat[d].queue
          <6>1. k \in ks BY <2>7, <4>4, <5>2
          <6>2. k \notin chat[d].flushing BY <2>6, <6>1 DEF Kept
          <6> QED BY <2>7, <6>2
        <5> QED BY <5>1, <5>2
      <4>5. ASSUME NEW k, Held(k)' PROVE Held(k)
        <5>1. CASE \E a \in batches' : k \in a.msgs
          <6>1. PICK a \in batches' : k \in a.msgs BY <5>1
          <6>2. PICK o \in batches : a.msgs \subseteq o.msgs BY <2>5
          <6> QED BY <6>1, <6>2 DEF Held
        <5>2. CASE \E d \in Conv : k \in Kept(d)' BY <2>6, <2>8, <5>2 DEF Held
        <5> QED BY <4>5, <5>1, <5>2 DEF Held
      <4>6. ASSUME NEW x \in answers' PROVE ~Held(x[1])' /\ x[1] \in 1..Len(mail')
        BY <1>1, <1>2, <4>5 DEF OnePlace
      <4>7. OneOwner' BY <1>1, <1>2 DEF OnePlace, OneOwner
      <4> QED BY <2>5, <4>2, <4>3, <4>4, <4>6, <4>7 DEF OnePlace
    <3> QED BY <3>1, <3>2
  <2>10. InboundTyped'
    <3>1. \A d \in Conv : Kept(d)' \subseteq 1..Len(mail) BY <1>1, <1>4, <1>12, <2>8 DEF InboundTyped
    <3>2. (\A d \in Conv : Kept(d) \subseteq 1..Len(mail))' BY <1>2, <3>1
    <3>3. (\A a \in batches : a.step \in {"webhook", "static", "sending"}
                              /\ a.msgs \subseteq 1..Len(mail) /\ a.msgs # {})'
      BY <1>2, <2>5
    <3>4. human[c] + HumanIdle \in Int BY <1>1, <1>4, <1>12, HumanIs
    <3>5. promised' \in [1..LastMail -> Int] BY <1>1, <2>1, <3>4 DEF InboundTyped
    <3> QED BY <1>1, <1>2, <2>1, <3>2, <3>3, <3>5 DEF InboundTyped
  <2>11. RolesAreKept'
    <3>1. settings.role \in {"fallback", "off"} => left = {} BY <2>2 DEF StaticAnswers
    <3> QED BY <1>1, <1>2, <2>5, <3>1 DEF RolesAreKept
  <2>12. ASSUME NEW d \in Conv, NEW k \in chat'[d].queue
         PROVE  promised'[k] <= chat'[d].pausedUntil \/ promised'[k] <= moment'
    <3>1. k \in 1..LastMail
      <4>1. k \in 1..Len(mail') /\ Len(mail') \in Nat /\ Len(mail') <= LastMail
        BY <2>10 DEF InboundTyped, Kept
      <4> QED BY <4>1, InboundBounds
    <3>2. promised'[k] = IF k \in ks THEN human[c] + HumanIdle ELSE promised[k] BY <2>1, <3>1
    <3>3. CASE k \in ks
      <4>1. k \notin chat[d].queue BY <2>6, <3>3 DEF Kept
      <4>2. d = c BY <2>7, <2>12, <4>1
      <4> QED BY <1>2, <2>1, <3>2, <3>3, <4>2
    <3>4. CASE k \notin ks
      <4>1. k \in chat[d].queue BY <2>7, <2>12, <3>4
      <4>2. promised[k] <= chat[d].pausedUntil \/ promised[k] <= moment BY <1>1, <4>1 DEF PromisesAreKept
      <4>3. chat'[d].pausedUntil >= chat[d].pausedUntil
        <5>1. CASE d = c BY <2>1, <5>1
        <5>2. CASE d # c BY <1>8, <2>1, <5>2
        <5> QED BY <5>1, <5>2
      <4>4. chat'[d].pausedUntil \in Nat BY <2>1 DEF ChatState
      <4>5. promised[k] \in Int /\ chat[d].pausedUntil \in Nat BY <1>1, <1>8, <3>1 DEF InboundTyped
      <4> QED BY <1>2, <1>5, <3>2, <3>4, <4>2, <4>3, <4>4, <4>5
    <3> QED BY <3>3, <3>4
  <2>13. PromisesAreKept' BY <2>12 DEF PromisesAreKept
  <2>14. AsksHumans BY <2>7 DEF AsksHumans
  <2> QED BY <1>6, <1>7, <2>9, <2>10, <2>11, <2>13, <2>14 DEF InboundInv
<1> QED BY <1>3, <1>10, <1>11, <1>12

\* With the conversations as they were nobody is given anything.
LEMMA NobodyIsGiven ==
  ASSUME \A c \in Conv : chat'[c].flushing # {} => chat'[c].flushing = chat[c].flushing
  PROVE  AsksHumans
BY DEF AsksHumans

\* New messages come: they have no place yet.
LEMMA ReceiveKeeps ==
  ASSUME InboundInv, NEW ms \in Seq(Message), ms # <<>>, Receive(ms)
  PROVE  InboundInv' /\ AsksHumans /\ KeepsCooldown
<1> DEFINE n == Len(mail)
           new == [msgs |-> n + 1..Len(mail \o ms), step |-> "webhook"]
<1>1. InboundTyped /\ OnePlace /\ RolesAreKept /\ PromisesAreKept /\ CooldownIsKept BY DEF InboundInv
<1>2. /\ mail' = mail \o ms /\ batches' = batches \union {new} /\ n + Len(ms) <= LastMail
      /\ UNCHANGED <<moment, settings, open, own, human, asks, chat, cooled, answers, promised, decided>>
  BY DEF Receive, Rest
<1>3. mail \in Seq(Message) /\ n \in Nat /\ Len(ms) \in Nat \ {0} BY <1>1 DEF InboundTyped, Message
<1>4. mail \o ms \in Seq(Message) /\ Len(mail \o ms) = n + Len(ms) BY <1>3, ConcatProperties
<1>5. new.msgs = (n + 1)..(n + Len(ms)) /\ new.step = "webhook" BY <1>4
<1> HIDE DEF new
<1>6. Len(mail') = n + Len(ms) BY <1>2, <1>4
<1>7. \A k \in new.msgs : k \in 1..Len(mail') /\ k \notin 1..n BY <1>3, <1>5, <1>6
<1>8. new.msgs # {}
  <2>1. n + 1 \in new.msgs BY <1>3, <1>5
  <2> QED BY <2>1
<1>9. 1..n \subseteq 1..Len(mail') BY <1>3, <1>6
<1>10. (\A b \in batches : b.msgs \subseteq 1..n) /\ \A c \in Conv : Kept(c) \subseteq 1..n
  BY <1>1 DEF InboundTyped
<1>11. \A c \in Conv : Kept(c)' = Kept(c) BY <1>2 DEF Kept
<1> HIDE DEF n
<1>12. \A k : Held(k)' => Held(k) \/ k \in new.msgs BY <1>2, <1>11 DEF Held
<1>13. OnePlace'
  <2>1. ASSUME NEW a \in batches', NEW b \in batches', NEW k \in a.msgs, k \in b.msgs PROVE a = b
    <3>1. CASE a \in batches /\ b \in batches BY <1>1, <2>1, <3>1 DEF OnePlace
    <3>2. CASE a \in batches /\ b = new BY <1>7, <1>10, <2>1, <3>2
    <3>3. CASE a = new /\ b \in batches BY <1>7, <1>10, <2>1, <3>3
    <3>4. CASE a = new /\ b = new BY <3>4
    <3> QED BY <1>2, <3>1, <3>2, <3>3, <3>4
  <2>2. ASSUME NEW a \in batches', NEW c \in Conv, NEW k \in a.msgs PROVE k \notin Kept(c)'
    <3>1. CASE a \in batches BY <1>1, <1>11, <3>1 DEF OnePlace
    <3>2. CASE a = new BY <1>7, <1>10, <1>11, <3>2
    <3> QED BY <1>2, <3>1, <3>2
  <2>3. ASSUME NEW c \in Conv, NEW d \in Conv, NEW k \in Kept(c)', k \in Kept(d)' PROVE c = d
    BY <1>1, <1>11, <2>3 DEF OnePlace
  <2>4. ASSUME NEW c \in Conv, NEW k \in chat'[c].queue PROVE k \notin chat'[c].flushing
    BY <1>1, <1>2 DEF OnePlace
  <2>5. ASSUME NEW x \in answers' PROVE ~Held(x[1])' /\ x[1] \in 1..Len(mail')
    <3>1. ~Held(x[1]) /\ x[1] \in 1..n BY <1>1, <1>2 DEF OnePlace, n
    <3> QED BY <1>7, <1>9, <1>12, <3>1
  <2>6. OneOwner' BY <1>1, <1>2 DEF OnePlace, OneOwner
  <2> QED BY <2>1, <2>2, <2>3, <2>4, <2>5, <2>6 DEF OnePlace
<1>14. InboundTyped'
  <2>1. mail' \in Seq([conv : Conv, kind : Kind]) /\ Len(mail') <= LastMail BY <1>2, <1>4, <1>6 DEF Message
  <2>2. (\A b \in batches : /\ b.step \in {"webhook", "static", "sending"}
                            /\ b.msgs \subseteq 1..Len(mail) /\ b.msgs # {})'
    <3>1. ASSUME NEW b \in batches'
          PROVE  b.step \in {"webhook", "static", "sending"} /\ b.msgs \subseteq 1..Len(mail') /\ b.msgs # {}
      <4>1. CASE b \in batches BY <1>1, <1>9, <1>10, <4>1 DEF InboundTyped
      <4>2. CASE b = new BY <1>5, <1>7, <1>8, <4>2
      <4> QED BY <1>2, <4>1, <4>2
    <3> QED BY <3>1
  <2>3. (\A c \in Conv : Kept(c) \subseteq 1..Len(mail))' BY <1>9, <1>10, <1>11
  <2> QED BY <1>1, <1>2, <2>1, <2>2, <2>3 DEF InboundTyped
<1>15. RolesAreKept' BY <1>1, <1>2, <1>5 DEF RolesAreKept
<1>16. PromisesAreKept' BY <1>1, <1>2 DEF PromisesAreKept
<1>17. CooldownIsKept' /\ KeepsCooldown BY <1>1, <1>2 DEF CooldownIsKept, KeepsCooldown
<1>18. AsksHumans BY <1>2, NobodyIsGiven
<1> QED BY <1>13, <1>14, <1>15, <1>16, <1>17, <1>18 DEF InboundInv

\* The batch of a rule: it has a first message, of a conversation.
LEMMA LaterIs ==
  ASSUME InboundTyped, NEW b \in batches
  PROVE  /\ Min(b.msgs) \in b.msgs /\ Later(b) \subseteq b.msgs /\ Min(b.msgs) \notin Later(b)
         /\ Min(b.msgs) \in 1..Len(mail) /\ mail[Min(b.msgs)].conv \in Conv
<1>1. b.msgs \subseteq 1..Len(mail) /\ b.msgs # {} /\ Len(mail) \in Nat BY DEF InboundTyped
<1>2. Min(b.msgs) \in b.msgs BY <1>1, FirstAndLast
<1> DEFINE k == Min(b.msgs)
<1>3. k \in 1..Len(mail) BY <1>1, <1>2
<1> HIDE DEF k
<1>4. mail[k] \in [conv : Conv, kind : Kind] BY <1>3, ElementOfSeq DEF InboundTyped
<1> QED BY <1>2, <1>3, <1>4 DEF Later, k

\* The static rules decide: the cooldown is over, or the message is passed by.
LEMMA DecideKeeps ==
  ASSUME InboundInv, NEW b \in batches, DecideStatic(b)
  PROVE  InboundInv' /\ AsksHumans /\ KeepsCooldown
<1> DEFINE c == mail[Min(b.msgs)].conv
           ks == IF cooled[c] > moment THEN Later(b) ELSE b.msgs
           step == IF cooled[c] > moment THEN "static" ELSE "sending"
<1>1. InboundTyped /\ OnePlace /\ RolesAreKept /\ PromisesAreKept /\ CooldownIsKept BY DEF InboundInv
<1>2. /\ b.step = "static" /\ With(b, ks, step)
      /\ UNCHANGED <<moment, settings, open, own, human, asks, mail, chat, answers, promised>>
  BY DEF DecideStatic, Rest
<1>3. IF cooled[c] > moment THEN UNCHANGED <<cooled, decided>>
      ELSE cooled' = [cooled EXCEPT ![c] = moment + Cooldown] /\ decided' = [decided EXCEPT ![c] = moment]
  BY DEF DecideStatic, MarkNow
<1>4. ks \subseteq b.msgs /\ step \in {"webhook", "static", "sending"} /\ c \in Conv BY <1>1, LaterIs
<1> HIDE DEF c, ks, step
<1>5. /\ \A a \in batches' : /\ a.step \in {"webhook", "static", "sending"}
                             /\ a.msgs \subseteq 1..Len(mail) /\ a.msgs # {}
                             /\ \E o \in batches : a.msgs \subseteq o.msgs
      /\ \A a, o \in batches' : \A k \in a.msgs : k \in o.msgs => a = o
  <2>1. ks \subseteq b.msgs /\ (ks # {} => step \in {"webhook", "static", "sending"}) BY <1>4
  <2>2. InboundTyped /\ OnePlace /\ With(b, ks, step) BY <1>1, <1>2
  <2> QED BY <2>1, <2>2, BatchMoves
<1>6. OnePlace'
  <2>1. ASSUME NEW d \in Conv
        PROVE  Kept(d)' \subseteq Kept(d) /\ \A k \in chat'[d].queue : k \notin chat'[d].flushing
    BY <1>1, <1>2 DEF Kept, OnePlace
  <2> QED BY <1>1, <1>2, <1>5, <2>1, PlacesAreLeft
<1>7. moment \in Nat /\ moment \in Int /\ cooled[c] \in Nat /\ decided[c] \in {Never} \union Nat
  BY <1>1, <1>4, InboundBounds DEF InboundTyped
<1>8. cooled' \in [Conv -> Nat] /\ decided' \in [Conv -> {Never} \union Nat]
  <2>1. moment + Cooldown \in Nat /\ moment \in {Never} \union Nat BY <1>7, InboundBounds
  <2>2. cooled \in [Conv -> Nat] /\ decided \in [Conv -> {Never} \union Nat] BY <1>1 DEF InboundTyped
  <2>3. CASE cooled[c] > moment BY <1>3, <2>2, <2>3
  <2>4. CASE ~(cooled[c] > moment)
    <3>1. cooled' = [cooled EXCEPT ![c] = moment + Cooldown] /\ decided' = [decided EXCEPT ![c] = moment]
      BY <1>3, <2>4
    <3> QED BY <2>1, <2>2, <3>1
  <2> QED BY <2>3, <2>4
<1>9. InboundTyped'
  <2>1. (\A a \in batches : a.step \in {"webhook", "static", "sending"}
                            /\ a.msgs \subseteq 1..Len(mail) /\ a.msgs # {})'
    BY <1>2, <1>5
  <2>2. (\A d \in Conv : Kept(d) \subseteq 1..Len(mail))' BY <1>1, <1>2 DEF InboundTyped, Kept
  <2> QED BY <1>1, <1>2, <1>8, <2>1, <2>2 DEF InboundTyped
<1>10. RolesAreKept' BY <1>1, <1>2 DEF RolesAreKept
<1>11. PromisesAreKept' BY <1>1, <1>2 DEF PromisesAreKept
<1>12. AsksHumans BY <1>2, NobodyIsGiven
<1>13. CooldownIsKept' /\ KeepsCooldown
  <2>1. CASE cooled[c] > moment BY <1>1, <1>3, <2>1 DEF CooldownIsKept, KeepsCooldown
  <2>2. CASE ~(cooled[c] > moment)
    <3>1. /\ cooled'[c] = moment + Cooldown /\ decided'[c] = moment
          /\ \A d \in Conv : d # c => cooled'[d] = cooled[d] /\ decided'[d] = decided[d]
      BY <1>1, <1>3, <1>4, <2>2 DEF InboundTyped
    <3>2. cooled'[c] >= decided'[c] + Cooldown BY <1>7, <3>1, InboundBounds
    <3>3. CooldownIsKept' BY <1>1, <3>1, <3>2 DEF CooldownIsKept
    <3>4. ASSUME decided[c] # Never PROVE decided'[c] >= decided[c] + Cooldown
      <4>1. cooled[c] >= decided[c] + Cooldown BY <1>1, <1>4, <3>4 DEF CooldownIsKept
      <4>2. decided[c] \in Nat /\ cooled[c] <= moment BY <1>7, <2>2, <3>4
      <4> QED BY <1>7, <3>1, <4>1, <4>2, InboundBounds
    <3>5. KeepsCooldown BY <3>1, <3>4 DEF KeepsCooldown
    <3> QED BY <3>3, <3>5
  <2> QED BY <2>1, <2>2
<1> QED BY <1>6, <1>9, <1>10, <1>11, <1>12, <1>13 DEF InboundInv

\* The reply of a rule was sent or not: its message leaves the batch.
LEMMA SendStaticKeeps ==
  ASSUME InboundInv, NEW b \in batches, NEW ok \in BOOLEAN, SendStatic(b, ok)
  PROVE  InboundInv' /\ AsksHumans /\ KeepsCooldown
<1> DEFINE k == Min(b.msgs)
           c == mail[k].conv
           ks == Later(b)
<1>1. InboundTyped /\ OnePlace /\ RolesAreKept /\ PromisesAreKept /\ CooldownIsKept BY DEF InboundInv
<1>2. /\ b.step = "sending" /\ With(b, ks, "static")
      /\ UNCHANGED <<moment, settings, open, human, asks, mail, chat, cooled, promised, decided>>
  BY DEF SendStatic
<1>3. IF ok THEN answers' = answers \union {<<k, "static">>} /\ own' = [own EXCEPT ![c] = moment]
      ELSE UNCHANGED <<answers, own>>
  BY DEF SendStatic, Sent
<1>4. k \in b.msgs /\ ks \subseteq b.msgs /\ k \notin ks /\ k \in 1..Len(mail) /\ c \in Conv BY <1>1, LaterIs
<1> HIDE DEF k, c, ks
<1>5. /\ \A a \in batches' : /\ a.step \in {"webhook", "static", "sending"}
                             /\ a.msgs \subseteq 1..Len(mail) /\ a.msgs # {}
                             /\ \E o \in batches : a.msgs \subseteq o.msgs
      /\ \A a, o \in batches' : \A i \in a.msgs : i \in o.msgs => a = o
      /\ \A a \in batches' : \A i \in b.msgs : i \notin ks => i \notin a.msgs
  BY <1>1, <1>2, <1>4, BatchMoves
<1>6. ASSUME NEW d \in Conv
      PROVE  /\ Kept(d)' = Kept(d) /\ Kept(d)' \subseteq Kept(d)
             /\ \A i \in chat'[d].queue : i \notin chat'[d].flushing
  BY <1>1, <1>2 DEF Kept, OnePlace
<1>7. OnePlace'
  <2>1. CASE ok
    <3>1. Held(k) BY <1>4 DEF Held
    <3>2. \A a \in batches' : k \notin a.msgs BY <1>4, <1>5
    <3>3. \A d \in Conv : k \notin Kept(d) BY <1>1, <1>4 DEF OnePlace
    <3>4. ~Held(k)' BY <1>6, <3>2, <3>3 DEF Held
    <3> QED BY <1>1, <1>2, <1>3, <1>4, <1>5, <1>6, <2>1, <3>1, <3>4, AnswerTakesThePlace
  <2>2. CASE ~ok BY <1>1, <1>2, <1>3, <1>5, <1>6, <2>2, PlacesAreLeft
  <2> QED BY <2>1, <2>2
<1>8. own' \in [Conv -> Moments]
  <2>1. moment \in Moments BY <1>1 DEF InboundTyped, Moments
  <2> QED BY <1>1, <1>3, <2>1 DEF InboundTyped
<1>9. InboundTyped'
  <2>1. (\A a \in batches : a.step \in {"webhook", "static", "sending"}
                            /\ a.msgs \subseteq 1..Len(mail) /\ a.msgs # {})'
    BY <1>2, <1>5
  <2>2. (\A d \in Conv : Kept(d) \subseteq 1..Len(mail))' BY <1>1, <1>2 DEF InboundTyped, Kept
  <2> QED BY <1>1, <1>2, <1>8, <2>1, <2>2 DEF InboundTyped
<1>10. RolesAreKept' BY <1>1, <1>2 DEF RolesAreKept
<1>11. PromisesAreKept' BY <1>1, <1>2 DEF PromisesAreKept
<1>12. CooldownIsKept' /\ KeepsCooldown BY <1>1, <1>2 DEF CooldownIsKept, KeepsCooldown
<1>13. AsksHumans BY <1>2, NobodyIsGiven
<1> QED BY <1>7, <1>9, <1>10, <1>11, <1>12, <1>13 DEF InboundInv

\* A step of one conversation that changes no batch, answers nothing and queues nothing.
LEMMA OneChatMoves ==
  ASSUME InboundInv, NEW c \in Conv, NEW s \in ChatState, chat' = [chat EXCEPT ![c] = s],
         s.queue \union s.flushing \subseteq Kept(c), \A k \in s.queue : k \notin s.flushing,
         UNCHANGED <<batches, mail, settings>>
  PROVE  /\ chat' \in [Conv -> ChatState] /\ \A d \in Conv : d # c => chat'[d] = chat[d]
         /\ chat'[c] = s /\ (\A d \in Conv : Kept(d) \subseteq 1..Len(mail))'
         /\ (\A a \in batches : /\ a.step \in {"webhook", "static", "sending"}
                                /\ a.msgs \subseteq 1..Len(mail) /\ a.msgs # {})'
         /\ \A d \in Conv : Kept(d)' \subseteq Kept(d)
         /\ UNCHANGED answers => OnePlace' /\ RolesAreKept'
<1>1. InboundTyped /\ OnePlace /\ RolesAreKept BY DEF InboundInv
<1>2. chat' \in [Conv -> ChatState] /\ chat'[c] = s /\ \A d \in Conv : d # c => chat'[d] = chat[d]
  BY <1>1, ChatMoves DEF InboundTyped
<1>3. ASSUME NEW d \in Conv
      PROVE  Kept(d)' \subseteq Kept(d) /\ \A k \in chat'[d].queue : k \notin chat'[d].flushing
  <2>1. CASE d = c BY <1>2, <2>1 DEF Kept
  <2>2. CASE d # c
    <3>1. \A k \in chat[d].queue : k \notin chat[d].flushing BY <1>1 DEF OnePlace
    <3> QED BY <1>2, <2>2, <3>1 DEF Kept
  <2> QED BY <2>1, <2>2
<1>4. \A a \in batches' : \E o \in batches : a.msgs \subseteq o.msgs OBVIOUS
<1>5. \A a, o \in batches' : \A k \in a.msgs : k \in o.msgs => a = o BY <1>1 DEF OnePlace
<1>6. UNCHANGED answers => OnePlace' BY <1>1, <1>3, <1>4, <1>5, PlacesAreLeft
<1>7. UNCHANGED answers => RolesAreKept' BY <1>1 DEF RolesAreKept
<1>8. (\A d \in Conv : Kept(d) \subseteq 1..Len(mail))' BY <1>1, <1>3 DEF InboundTyped
<1>9. (\A a \in batches : /\ a.step \in {"webhook", "static", "sending"}
                          /\ a.msgs \subseteq 1..Len(mail) /\ a.msgs # {})'
  BY <1>1 DEF InboundTyped
<1> QED BY <1>2, <1>3, <1>6, <1>7, <1>8, <1>9

\* A queue is flushed when the pause is over, and so is what was promised about it.
LEMMA FlushKeeps ==
  ASSUME InboundInv, NEW c \in Conv, Flush(c)
  PROVE  InboundInv' /\ AsksHumans /\ KeepsCooldown
<1> DEFINE o == chat[c]
           s == [o EXCEPT !.queue = {}, !.flushing = IF open THEN o.queue ELSE {}]
<1>1. InboundTyped /\ OnePlace /\ RolesAreKept /\ PromisesAreKept /\ CooldownIsKept BY DEF InboundInv
<1>2. /\ o.pausedUntil <= moment /\ chat' = [chat EXCEPT ![c] = s] /\ o.flushing = {}
      /\ UNCHANGED <<moment, settings, open, own, human, asks, mail, batches, cooled, answers, promised, decided>>
  BY DEF Flush, Rest
<1>3. o \in ChatState /\ o.queue \in SUBSET Nat /\ o.pausedUntil \in Nat BY <1>1, ChatIs
<1>4. s \in ChatState /\ s.queue = {} /\ s.flushing \subseteq o.queue BY <1>3 DEF ChatState
<1>5. Kept(c) = o.queue \union o.flushing BY DEF Kept
<1> HIDE DEF s, o
<1>6. /\ chat' \in [Conv -> ChatState] /\ \A d \in Conv : d # c => chat'[d] = chat[d]
      /\ chat'[c] = s /\ (\A d \in Conv : Kept(d) \subseteq 1..Len(mail))'
      /\ (\A a \in batches : /\ a.step \in {"webhook", "static", "sending"}
                             /\ a.msgs \subseteq 1..Len(mail) /\ a.msgs # {})'
      /\ OnePlace' /\ RolesAreKept'
  BY <1>2, <1>4, <1>5, OneChatMoves
<1>7. InboundTyped' BY <1>1, <1>2, <1>6 DEF InboundTyped
<1>8. moment \in Nat BY <1>1, InboundBounds DEF InboundTyped
<1>9. PromisesAreKept' BY <1>1, <1>2, <1>4, <1>6 DEF PromisesAreKept
<1>10. ASSUME NEW k \in o.queue PROVE promised[k] <= moment
  <2>1. promised[k] <= o.pausedUntil \/ promised[k] <= moment BY <1>1 DEF PromisesAreKept, o
  <2>2. k \in 1..LastMail
    <3>1. k \in 1..Len(mail) /\ Len(mail) \in Nat /\ Len(mail) <= LastMail BY <1>1 DEF InboundTyped, Kept, o
    <3> QED BY <3>1, InboundBounds
  <2>3. promised[k] \in Int BY <1>1, <2>2 DEF InboundTyped
  <2> QED BY <1>2, <1>3, <1>8, <2>1, <2>3
<1>11. AsksHumans
  <2> SUFFICES ASSUME NEW d \in Conv, chat[d].flushing = {}, chat'[d].flushing # {}, NEW k \in chat'[d].flushing
               PROVE  promised[k] <= moment
    BY DEF AsksHumans
  <2>1. d = c BY <1>6
  <2> QED BY <1>4, <1>6, <1>10, <2>1
<1>12. CooldownIsKept' /\ KeepsCooldown BY <1>1, <1>2 DEF CooldownIsKept, KeepsCooldown
<1> QED BY <1>6, <1>7, <1>9, <1>11, <1>12 DEF InboundInv

\* A generation ends: its last message may be answered, the others are not any more.
LEMMA FlushEndsKeeps ==
  ASSUME InboundInv, NEW c \in Conv, NEW ok \in BOOLEAN, NEW sent \in BOOLEAN, FlushEnds(c, ok, sent)
  PROVE  InboundInv' /\ AsksHumans /\ KeepsCooldown
<1> DEFINE o == chat[c]
           t == [o EXCEPT !.flushing = {}]
           ks == o.flushing
           forgets == t.queue = {} /\ t.pausedUntil <= moment
           s == IF forgets THEN [NoBatch EXCEPT !.strikes = t.strikes] ELSE t
           answered == sent /\ (ok \/ settings.role \in {"fallback", "both"})
           by == IF ok THEN "ai" ELSE "fallback"
           last == Max(ks)
<1>1. InboundTyped /\ OnePlace /\ RolesAreKept /\ PromisesAreKept /\ CooldownIsKept BY DEF InboundInv
<1>2. /\ ks # {} /\ chat' = [chat EXCEPT ![c] = s]
      /\ UNCHANGED <<moment, settings, open, human, asks, mail, batches, cooled, promised, decided>>
  BY DEF FlushEnds
<1>3. IF answered THEN answers' = answers \union {<<last, by>>} /\ own' = [own EXCEPT ![c] = moment]
      ELSE UNCHANGED <<answers, own>>
  BY DEF FlushEnds, Sent
<1>4. /\ o \in ChatState /\ o.queue \in SUBSET Nat /\ o.flushing \in SUBSET Nat
      /\ o.strikes \in 0..MaxStrikes /\ o.pausedUntil \in Nat
  BY <1>1, ChatIs
<1>5. PICK k : k = last /\ k \in ks /\ k \in 1..Len(mail) /\ k \in Kept(c)
  <2>1. ks \in SUBSET (1..Len(mail)) /\ Len(mail) \in Nat BY <1>1 DEF InboundTyped, Kept
  <2>2. Max(ks) \in ks BY <1>2, <2>1, FirstAndLast
  <2> QED BY <2>1, <2>2 DEF Kept
<1>6. t \in ChatState /\ t.queue = o.queue /\ t.flushing = {} /\ t.pausedUntil = o.pausedUntil /\ t.strikes = o.strikes
  BY <1>4 DEF ChatState
<1> HIDE DEF t
<1>7. /\ s \in ChatState /\ s.flushing = {} /\ s.queue = o.queue
      /\ s.queue # {} => s.pausedUntil = o.pausedUntil
  <2>1. CASE forgets
    <3>1. [NoBatch EXCEPT !.strikes = t.strikes] \in ChatState
      BY <1>4, <1>6 DEF NoBatch, ChatState
    <3>2. /\ [NoBatch EXCEPT !.strikes = t.strikes].flushing = {}
          /\ [NoBatch EXCEPT !.strikes = t.strikes].queue = {}
      BY DEF NoBatch
    <3> QED BY <1>6, <2>1, <3>1, <3>2
  <2>2. CASE ~forgets BY <1>6, <2>2
  <2> QED BY <2>1, <2>2
<1>8. Kept(c) = o.queue \union o.flushing BY DEF Kept
<1>9. \A d \in Conv : chat[d] \in ChatState /\ chat[d].pausedUntil \in Nat BY <1>1, ChatIs
<1>10. k \notin o.queue BY <1>1, <1>5 DEF OnePlace
<1> HIDE DEF s, o, last, forgets, answered, by
<1>11. /\ chat' \in [Conv -> ChatState] /\ \A d \in Conv : d # c => chat'[d] = chat[d]
       /\ chat'[c] = s /\ (\A d \in Conv : Kept(d) \subseteq 1..Len(mail))'
       /\ (\A a \in batches : /\ a.step \in {"webhook", "static", "sending"}
                              /\ a.msgs \subseteq 1..Len(mail) /\ a.msgs # {})'
       /\ \A d \in Conv : Kept(d)' \subseteq Kept(d)
       /\ UNCHANGED answers => OnePlace' /\ RolesAreKept'
  BY <1>2, <1>7, <1>8, OneChatMoves
<1>12. OnePlace'
  <2>1. CASE answered
    <3>1. Held(k) BY <1>5 DEF Held
    <3>2. \A a \in batches' : k \notin a.msgs BY <1>1, <1>2, <1>5 DEF OnePlace
    <3>3. ASSUME NEW d \in Conv PROVE k \notin Kept(d)'
      <4>1. CASE d = c BY <1>7, <1>10, <1>11, <4>1 DEF Kept
      <4>2. CASE d # c
        <5>1. k \notin Kept(d) BY <1>1, <1>5, <4>2 DEF OnePlace
        <5> QED BY <1>11, <5>1
      <4> QED BY <4>1, <4>2
    <3>4. ~Held(k)' BY <3>2, <3>3 DEF Held
    <3>5. ASSUME NEW d \in Conv
          PROVE  Kept(d)' \subseteq Kept(d) /\ \A i \in chat'[d].queue : i \notin chat'[d].flushing
      <4>1. CASE d = c BY <1>7, <1>11, <4>1
      <4>2. CASE d # c BY <1>1, <1>11, <4>2 DEF OnePlace
      <4> QED BY <4>1, <4>2
    <3>6. \A a \in batches' : \E e \in batches : a.msgs \subseteq e.msgs BY <1>2
    <3>7. \A a, e \in batches' : \A i \in a.msgs : i \in e.msgs => a = e BY <1>1, <1>2 DEF OnePlace
    <3>8. answers' = answers \union {<<k, by>>} BY <1>3, <1>5, <2>1
    <3> QED BY <1>1, <1>2, <1>5, <3>8, <3>1, <3>4, <3>5, <3>6, <3>7, AnswerTakesThePlace
  <2>2. CASE ~answered BY <1>3, <1>11, <2>2
  <2> QED BY <2>1, <2>2
<1>13. own' \in [Conv -> Moments]
  <2>1. moment \in Moments BY <1>1 DEF InboundTyped, Moments
  <2> QED BY <1>1, <1>3, <2>1 DEF InboundTyped
<1>14. InboundTyped' BY <1>1, <1>2, <1>11, <1>13 DEF InboundTyped
<1>15. RolesAreKept'
  <2>1. CASE answered
    <3> DEFINE x == <<k, by>>
    <3>1. answers' = answers \union {x} /\ x[2] # "static" BY <1>3, <1>5, <2>1 DEF by
    <3> HIDE DEF x
    <3> QED BY <1>1, <1>2, <3>1 DEF RolesAreKept
  <2>2. CASE ~answered BY <1>3, <1>11, <2>2
  <2> QED BY <2>1, <2>2
<1>16. PromisesAreKept'
  <2>1. moment \in Nat /\ moment' = moment BY <1>1, <1>2, InboundBounds DEF InboundTyped
  <2>2. moment' \in Nat /\ moment <= moment' BY <2>1
  <2>3. ASSUME NEW d \in Conv
        PROVE  /\ chat'[d].queue \subseteq chat[d].queue /\ chat'[d].pausedUntil \in Nat
               /\ chat'[d].queue # {} => chat'[d].pausedUntil >= chat[d].pausedUntil
    <3>1. chat'[d].pausedUntil \in Nat BY <1>11 DEF ChatState
    <3>2. chat'[d].queue \subseteq chat[d].queue BY <1>7, <1>11 DEF o
    <3>3. chat'[d].queue # {} => chat'[d].pausedUntil = chat[d].pausedUntil BY <1>7, <1>11 DEF o
    <3> QED BY <1>9, <3>1, <3>2, <3>3
  <2>4. promised' = promised BY <1>2
  <2> QED BY <1>1, <2>2, <2>3, <2>4, PromisesStay
<1>17. AsksHumans
  <2>1. \A d \in Conv : chat'[d].flushing # {} => chat'[d].flushing = chat[d].flushing
    BY <1>7, <1>11
  <2> QED BY <2>1, NobodyIsGiven
<1>18. CooldownIsKept' /\ KeepsCooldown BY <1>1, <1>2 DEF CooldownIsKept, KeepsCooldown
<1> QED BY <1>12, <1>14, <1>15, <1>16, <1>17, <1>18 DEF InboundInv

\* The handoff endpoint: the pause covers what is promised about the queue.
LEMMA HandoffKeeps ==
  ASSUME InboundInv, NEW c \in Conv, Handoff(c)
  PROVE  InboundInv' /\ AsksHumans /\ KeepsCooldown
<1> DEFINE o == chat[c]
           until == moment + HumanIdle
           s == Pause(o, until)
<1>1. InboundTyped /\ OnePlace /\ RolesAreKept /\ PromisesAreKept /\ CooldownIsKept BY DEF InboundInv
<1>2. /\ asks < MaxAsks /\ asks' = asks + 1 /\ chat' = [chat EXCEPT ![c] = s]
      /\ UNCHANGED <<moment, settings, open, human, own, mail, batches, cooled, answers, decided>>
  BY DEF Handoff
<1>3. promised' = [k \in 1..LastMail |->
        IF k \in o.queue THEN Max({promised[k], until}) ELSE promised[k]]
  BY DEF Handoff
<1>4. o \in ChatState /\ o.pausedUntil \in Nat /\ moment \in Nat /\ until \in Int /\ moment <= until
  BY <1>1, ChatIs, InboundBounds DEF InboundTyped
<1>5. /\ s \in ChatState /\ s.queue = o.queue /\ s.flushing = o.flushing
      /\ s.pausedUntil >= until /\ s.pausedUntil >= o.pausedUntil
  BY <1>4, PauseIs
<1>6. s.pausedUntil \in Nat BY <1>5 DEF ChatState
<1>7. Kept(c) = o.queue \union o.flushing /\ \A k \in o.queue : k \notin o.flushing
  BY <1>1 DEF Kept, OnePlace
<1> HIDE DEF s, o, until
<1>8. /\ chat' \in [Conv -> ChatState] /\ \A d \in Conv : d # c => chat'[d] = chat[d]
      /\ chat'[c] = s /\ (\A d \in Conv : Kept(d) \subseteq 1..Len(mail))'
      /\ (\A a \in batches : /\ a.step \in {"webhook", "static", "sending"}
                             /\ a.msgs \subseteq 1..Len(mail) /\ a.msgs # {})'
      /\ OnePlace' /\ RolesAreKept'
  BY <1>2, <1>5, <1>7, OneChatMoves
<1>9. ASSUME NEW k \in 1..LastMail
      PROVE  /\ promised[k] \in Int /\ Max({promised[k], until}) \in {promised[k], until}
             /\ promised'[k] = (IF k \in o.queue THEN Max({promised[k], until}) ELSE promised[k])
  <2> DEFINE p == promised[k]
  <2>1. p \in Int BY <1>1 DEF InboundTyped
  <2> HIDE DEF p
  <2>2. Max({p, until}) \in {p, until} BY <1>4, <2>1, MaxOfTwo
  <2> QED BY <1>3, <2>1, <2>2 DEF p
<1>10. promised' \in [1..LastMail -> Int] BY <1>3, <1>4, <1>9
<1>11. asks' \in 0..MaxAsks BY <1>1, <1>2, InboundBounds DEF InboundTyped
<1>12. InboundTyped' BY <1>1, <1>2, <1>8, <1>10, <1>11 DEF InboundTyped
<1>13. PromisesAreKept'
  <2> SUFFICES ASSUME NEW d \in Conv, NEW k \in chat'[d].queue
               PROVE  promised'[k] <= chat'[d].pausedUntil \/ promised'[k] <= moment'
    BY DEF PromisesAreKept
  <2>1. k \in chat[d].queue BY <1>5, <1>8 DEF o
  <2>2. k \in 1..LastMail
    <3>1. k \in 1..Len(mail) /\ Len(mail) \in Nat /\ Len(mail) <= LastMail BY <1>1, <2>1 DEF InboundTyped, Kept
    <3> QED BY <3>1, InboundBounds
  <2>3. promised[k] <= chat[d].pausedUntil \/ promised[k] <= moment BY <1>1, <2>1 DEF PromisesAreKept
  <2>4. CASE d = c
    <3>1. k \in o.queue /\ chat[d].pausedUntil = o.pausedUntil /\ chat'[d].pausedUntil = s.pausedUntil
      BY <1>8, <2>1, <2>4 DEF o
    <3>2. promised'[k] = promised[k] \/ promised'[k] = until BY <1>9, <2>2, <3>1
    <3>3. promised[k] \in Int BY <1>9, <2>2
    <3>4. promised[k] <= s.pausedUntil BY <1>4, <1>5, <1>6, <2>3, <3>1, <3>3
    <3>5. until <= s.pausedUntil BY <1>4, <1>5, <1>6
    <3> QED BY <3>1, <3>2, <3>4, <3>5
  <2>5. CASE d # c
    <3>1. k \notin o.queue BY <1>1, <2>1, <2>5 DEF OnePlace, Kept, o
    <3>2. promised'[k] = promised[k] BY <1>9, <2>2, <3>1
    <3> QED BY <1>2, <1>8, <2>3, <2>5, <3>2
  <2> QED BY <2>4, <2>5
<1>14. AsksHumans
  <2>1. \A d \in Conv : chat'[d].flushing # {} => chat'[d].flushing = chat[d].flushing
    BY <1>5, <1>8 DEF o
  <2> QED BY <2>1, NobodyIsGiven
<1>15. CooldownIsKept' /\ KeepsCooldown BY <1>1, <1>2 DEF CooldownIsKept, KeepsCooldown
<1> QED BY <1>8, <1>12, <1>13, <1>14, <1>15 DEF InboundInv

\* A human writes, the window moves, time passes: everything keeps its place.
LEMMA OutsideKeeps ==
  ASSUME InboundInv, UNCHANGED <<settings, mail, batches, chat, cooled, own, asks, answers, promised, decided>>,
         moment' \in 0..LastMoment, moment <= moment', open' \in BOOLEAN, human' \in [Conv -> Moments]
  PROVE  InboundInv' /\ AsksHumans /\ KeepsCooldown
<1>1. InboundTyped /\ OnePlace /\ RolesAreKept /\ PromisesAreKept /\ CooldownIsKept BY DEF InboundInv
<1>2. InboundTyped' BY <1>1 DEF InboundTyped, Kept
<1>3. OnePlace' BY <1>1 DEF OnePlace, Held, Kept, OneOwner
<1>4. RolesAreKept' BY <1>1 DEF RolesAreKept
<1>5. CooldownIsKept' /\ KeepsCooldown BY <1>1 DEF CooldownIsKept, KeepsCooldown
<1>6. PromisesAreKept'
  <2>1. moment' \in Nat BY InboundBounds
  <2>2. ASSUME NEW c \in Conv
        PROVE  /\ chat'[c].queue \subseteq chat[c].queue /\ chat'[c].pausedUntil \in Nat
               /\ chat'[c].queue # {} => chat'[c].pausedUntil >= chat[c].pausedUntil
    <3>1. chat[c].pausedUntil \in Nat BY <1>1, ChatIs
    <3> QED BY <3>1
  <2> QED BY <1>1, <2>1, <2>2, PromisesStay
<1>7. AsksHumans BY NobodyIsGiven
<1> QED BY <1>2, <1>3, <1>4, <1>5, <1>6, <1>7 DEF InboundInv

\* A new process starts with what the store's file holds.
LEMMA RestartKeeps ==
  ASSUME InboundInv, InboundRestart
  PROVE  InboundInv' /\ AsksHumans /\ KeepsCooldown
<1>1. InboundTyped /\ OnePlace /\ RolesAreKept /\ PromisesAreKept /\ CooldownIsKept BY DEF InboundInv
<1>2. /\ asks < MaxAsks /\ asks' = asks + 1 /\ batches' = {} /\ chat' = [c \in Conv |-> NoBatch]
      /\ cooled' = [c \in Conv |-> 0] /\ human' = [c \in Conv |-> Max({human[c], own[c]})]
      /\ own' = [c \in Conv |-> Never] /\ decided' = [c \in Conv |-> Never]
      /\ UNCHANGED <<moment, settings, open, mail, answers, promised>>
  BY DEF InboundRestart
<1>3. /\ NoBatch.queue = {} /\ NoBatch.flushing = {} /\ NoBatch \in ChatState
  <2>1. 0 \in 0..MaxStrikes BY InboundBounds
  <2> QED BY <2>1 DEF NoBatch, ChatState
<1>4. \A c \in Conv : Kept(c)' = {} /\ chat'[c].queue = {} /\ chat'[c].flushing = {} BY <1>2, <1>3 DEF Kept
<1>5. human' \in [Conv -> Moments]
  <2>1. ASSUME NEW c \in Conv PROVE Max({human[c], own[c]}) \in Moments
    <3> DEFINE p == human[c]
               q == own[c]
    <3>1. p \in Moments /\ q \in Moments BY <1>1 DEF InboundTyped
    <3> HIDE DEF p, q
    <3>2. p \in Int /\ q \in Int BY <3>1, InboundBounds DEF Moments
    <3>3. Max({p, q}) \in {p, q} BY <3>2, MaxOfTwo
    <3> QED BY <3>1, <3>3 DEF p, q
  <2> QED BY <1>2, <2>1
<1>6. InboundTyped'
  <2>1. asks' \in 0..MaxAsks BY <1>1, <1>2, InboundBounds DEF InboundTyped
  <2>2. chat' \in [Conv -> ChatState] /\ cooled' \in [Conv -> Nat] BY <1>2, <1>3
  <2>3. own' \in [Conv -> Moments] /\ decided' \in [Conv -> {Never} \union Nat] BY <1>2 DEF Moments
  <2>4. (\A c \in Conv : Kept(c) \subseteq 1..Len(mail))' BY <1>4
  <2> QED BY <1>1, <1>2, <1>5, <2>1, <2>2, <2>3, <2>4 DEF InboundTyped
<1>7. OnePlace'
  <2>1. \A k : ~Held(k)' BY <1>2, <1>4 DEF Held
  <2>2. OneOwner' BY <1>1, <1>2 DEF OnePlace, OneOwner
  <2>3. \A x \in answers' : ~Held(x[1])' /\ x[1] \in 1..Len(mail') BY <1>1, <1>2, <2>1 DEF OnePlace
  <2> QED BY <1>2, <1>4, <2>2, <2>3 DEF OnePlace
<1>8. RolesAreKept' BY <1>1, <1>2 DEF RolesAreKept
<1>9. PromisesAreKept' BY <1>4 DEF PromisesAreKept
<1>10. CooldownIsKept' /\ KeepsCooldown BY <1>2 DEF CooldownIsKept, KeepsCooldown
<1>11. AsksHumans BY <1>4, NobodyIsGiven
<1> QED BY <1>6, <1>7, <1>8, <1>9, <1>10, <1>11 DEF InboundInv

\* Every step keeps what holds, and none gives a message to the AI that was promised to
\* the humans, or replies before the cooldown is over.
LEMMA InboundStep ==
  ASSUME InboundInv, [InboundNext]_inboundVars
  PROVE  InboundInv' /\ AsksHumans /\ KeepsCooldown
<1>1. InboundTyped BY DEF InboundInv
<1>2. moment \in 0..LastMoment /\ moment \in Nat /\ open \in BOOLEAN /\ human \in [Conv -> Moments]
  BY <1>1, InboundBounds DEF InboundTyped
<1>3. ASSUME UNCHANGED inboundVars PROVE InboundInv' /\ AsksHumans /\ KeepsCooldown
  <2>1. /\ UNCHANGED <<settings, mail, batches, chat, cooled, own, asks, answers, promised, decided>>
        /\ moment' = moment /\ open' = open /\ human' = human
    BY <1>3 DEF inboundVars
  <2> QED BY <1>2, <2>1, OutsideKeeps
<1>4. ASSUME NEW x \in Message, Receive(<<x>>) PROVE InboundInv' /\ AsksHumans /\ KeepsCooldown
  <2>1. <<x>> \in Seq(Message) /\ <<x>> # <<>> OBVIOUS
  <2> QED BY <1>4, <2>1, ReceiveKeeps
<1>5. ASSUME NEW x \in Message, NEW y \in Message, Receive(<<x, y>>)
      PROVE  InboundInv' /\ AsksHumans /\ KeepsCooldown
  <2>1. <<x, y>> \in Seq(Message) /\ <<x, y>> # <<>> OBVIOUS
  <2> QED BY <1>5, <2>1, ReceiveKeeps
<1>6. ASSUME NEW b \in batches, DecideStatic(b) PROVE InboundInv' /\ AsksHumans /\ KeepsCooldown
  BY <1>6, DecideKeeps
<1>7. ASSUME NEW b \in batches, NEW ok \in BOOLEAN, Handle(b, ok) \/ SendStatic(b, ok)
      PROVE  InboundInv' /\ AsksHumans /\ KeepsCooldown
  BY <1>7, HandleKeeps, SendStaticKeeps
<1>8. ASSUME NEW c \in Conv, Flush(c) PROVE InboundInv' /\ AsksHumans /\ KeepsCooldown
  BY <1>8, FlushKeeps
<1>9. ASSUME NEW c \in Conv, HumanWrites(c) PROVE InboundInv' /\ AsksHumans /\ KeepsCooldown
  <2>1. /\ human' = [human EXCEPT ![c] = moment] /\ moment' = moment /\ open' = open
        /\ UNCHANGED <<settings, mail, batches, chat, cooled, own, asks, answers, promised, decided>>
    BY <1>9 DEF HumanWrites
  <2>2. human' \in [Conv -> Moments] BY <1>2, <2>1 DEF Moments
  <2> QED BY <1>2, <2>1, <2>2, OutsideKeeps
<1>10. ASSUME NEW c \in Conv, Handoff(c) PROVE InboundInv' /\ AsksHumans /\ KeepsCooldown
  BY <1>10, HandoffKeeps
<1>11. ASSUME NEW c \in Conv, NEW ok \in BOOLEAN, NEW sent \in BOOLEAN, FlushEnds(c, ok, sent)
       PROVE  InboundInv' /\ AsksHumans /\ KeepsCooldown
  BY <1>11, FlushEndsKeeps
<1>12. ASSUME WindowMoves PROVE InboundInv' /\ AsksHumans /\ KeepsCooldown
  <2>1. /\ open' \in BOOLEAN /\ moment' = moment /\ human' = human
        /\ UNCHANGED <<settings, mail, batches, chat, cooled, own, asks, answers, promised, decided>>
    BY <1>12 DEF WindowMoves
  <2> QED BY <1>2, <2>1, OutsideKeeps
<1>13. ASSUME InboundTick PROVE InboundInv' /\ AsksHumans /\ KeepsCooldown
  <2>1. /\ moment < LastMoment /\ moment' = moment + 1 /\ open' = open /\ human' = human
        /\ UNCHANGED <<settings, mail, batches, chat, cooled, own, asks, answers, promised, decided>>
    BY <1>13 DEF InboundTick
  <2>2. moment' \in 0..LastMoment /\ moment <= moment' BY <1>2, <2>1, InboundBounds
  <2> QED BY <1>2, <2>1, <2>2, OutsideKeeps
<1>14. ASSUME InboundRestart PROVE InboundInv' /\ AsksHumans /\ KeepsCooldown BY <1>14, RestartKeeps
<1> QED BY <1>3, <1>4, <1>5, <1>6, <1>7, <1>8, <1>9, <1>10, <1>11, <1>12, <1>13, <1>14 DEF InboundNext

LEMMA InboundStarts ==
  ASSUME InboundInit
  PROVE  InboundInv
<1>1. /\ moment = 0 /\ settings \in [role : RuleRole, failedOnly : BOOLEAN] /\ open \in BOOLEAN
      /\ mail = <<>> /\ batches = {} /\ asks = 0 /\ answers = {}
      /\ chat = [c \in Conv |-> NoBatch] /\ cooled = [c \in Conv |-> 0]
      /\ human = [c \in Conv |-> Never] /\ own = [c \in Conv |-> Never]
      /\ promised = [k \in 1..LastMail |-> Never] /\ decided = [c \in Conv |-> Never]
  BY DEF InboundInit
<1>2. /\ NoBatch.queue = {} /\ NoBatch.flushing = {} /\ NoBatch \in ChatState
  <2>1. 0 \in 0..MaxStrikes BY InboundBounds
  <2> QED BY <2>1 DEF NoBatch, ChatState
<1>3. \A c \in Conv : Kept(c) = {} /\ chat[c].queue = {} /\ chat[c].flushing = {} BY <1>1, <1>2 DEF Kept
<1>4. InboundTyped
  <2>1. moment \in 0..LastMoment /\ asks \in 0..MaxAsks BY <1>1, InboundBounds
  <2>2. mail \in Seq([conv : Conv, kind : Kind]) /\ Len(mail) <= LastMail BY <1>1, InboundBounds
  <2>3. chat \in [Conv -> ChatState] /\ cooled \in [Conv -> Nat] BY <1>1, <1>2
  <2>4. /\ human \in [Conv -> Moments] /\ own \in [Conv -> Moments]
        /\ promised \in [1..LastMail -> Int] /\ decided \in [Conv -> {Never} \union Nat]
    BY <1>1, InboundBounds DEF Moments
  <2> QED BY <1>1, <1>3, <2>1, <2>2, <2>3, <2>4 DEF InboundTyped
<1>5. OnePlace BY <1>1, <1>3 DEF OnePlace, OneOwner
<1>6. RolesAreKept BY <1>1 DEF RolesAreKept
<1>7. PromisesAreKept BY <1>3 DEF PromisesAreKept
<1>8. CooldownIsKept BY <1>1 DEF CooldownIsKept
<1> QED BY <1>4, <1>5, <1>6, <1>7, <1>8 DEF InboundInv

LEMMA InboundMeans ==
  ASSUME InboundInv
  PROVE  InboundTypeOK /\ OneOwner /\ FallbackOnlyAfterFailure
<1>1. InboundTyped /\ OnePlace /\ RolesAreKept BY DEF InboundInv
<1>2. Range(mail) \subseteq [conv : Conv, kind : Kind]
  <2>1. mail \in Seq([conv : Conv, kind : Kind]) BY <1>1 DEF InboundTyped
  <2> DEFINE M == [conv : Conv, kind : Kind]
  <2>2. mail \in Seq(M) BY <2>1
  <2> HIDE DEF M
  <2>3. Range(mail) \subseteq M BY <2>2 DEF Range
  <2> QED BY <2>3 DEF M
<1>3. 1..Len(mail) \subseteq 1..LastMail
  <2>1. Len(mail) \in Nat /\ Len(mail) <= LastMail BY <1>1 DEF InboundTyped
  <2> QED BY <2>1, InboundBounds
<1>4. \A c \in Conv : chat[c].queue \union chat[c].flushing \subseteq 1..LastMail
  BY <1>1, <1>3 DEF InboundTyped, Kept
<1>5. \A c \in Conv : chat[c].strikes \in 0..MaxStrikes BY <1>1, ChatIs
<1>6. {human[c] : c \in Conv} \union {own[c] : c \in Conv} \subseteq {Never} \union 0..LastMoment
  BY <1>1 DEF InboundTyped, Moments
<1>7. \A b \in batches : b.step \in {"webhook", "static", "sending"} /\ b.msgs \subseteq 1..LastMail
  BY <1>1, <1>3 DEF InboundTyped
<1>8. InboundTypeOK BY <1>1, <1>2, <1>4, <1>5, <1>6, <1>7 DEF InboundTypeOK, InboundTyped
<1>9. OneOwner /\ FallbackOnlyAfterFailure BY <1>1 DEF OnePlace, RolesAreKept, FallbackOnlyAfterFailure
<1> QED BY <1>8, <1>9

-----------------------------------------------------------------------------
(* The inbox of the handlers.                                              *)

Box == [c \in Conv |-> View(chat[c])]

\* A conversation that moves as the inbox allows, alone, is a move of the inbox.
LEMMA MoveIs ==
  ASSUME NEW c \in Conv, \A d \in Conv : d # c => chat'[d] = chat[d],
         LET s == View(chat[c])
             t == View(chat'[c])
         IN \/ Promise!Held(s, t) \/ Promise!Silenced(s, t) \/ Promise!Served(s, t)
            \/ Promise!Landed(s, t) \/ Promise!Joined(s, t, Decided' \ Decided)
  PROVE  Promise!Move(c)
<1>1. Box[c] = View(chat[c]) /\ Box'[c] = View(chat'[c]) BY DEF Box
<1>2. Box' = [Box EXCEPT ![c] = View(chat'[c])] BY DEF Box
<1> QED BY <1>1, <1>2 DEF Promise!Move, Box

\* Moves of one conversation, or of none, with more decided are steps of the inbox.
LEMMA StepIs ==
  ASSUME Decided \subseteq Decided',
         (\E c \in Conv : Promise!Move(c)) \/ Box' = Box \/ Promise!Reset
  PROVE  Promise!InboxNext
BY DEF Promise!InboxNext, Box

\* What is decided stays so while no batch that waits for its webhook is new, and what
\* comes is no part of it.
LEMMA DecidedGrows ==
  ASSUME InboundTyped, InboundTyped',
         \A k \in 1..Len(mail) : k \in 1..Len(mail') /\ mail'[k] = mail[k],
         \A a \in batches' : a.step = "webhook" => a \in batches \/ a.msgs \cap 1..Len(mail) = {}
  PROVE  Decided \subseteq Decided'
<1> SUFFICES ASSUME NEW k \in Decided PROVE k \in Decided'
  OBVIOUS
<1>1. k \in 1..Len(mail) /\ mail[k].kind # "code" /\ \A b \in batches : b.step = "webhook" => k \notin b.msgs
  BY DEF Decided
<1>2. \A a \in batches' : a.step = "webhook" => k \notin a.msgs BY <1>1
<1> QED BY <1>1, <1>2 DEF Decided

\* Handling the batch b decides about its texts and about no other.
LEMMA HandleDecides ==
  ASSUME InboundInv, InboundTyped', NEW b \in batches, b.step = "webhook", UNCHANGED mail,
         NEW ks, NEW step, step # "webhook", With(b, ks, step)
  PROVE  Decided \subseteq Decided' /\ Decided' \ Decided = Texts(b)
<1>1. InboundTyped /\ OnePlace BY DEF InboundInv
<1>2. batches' = (batches \ {b}) \union (IF ks = {} THEN {} ELSE {[msgs |-> ks, step |-> step]})
  BY DEF With
<1>3. \A a \in batches' : a.step = "webhook" => a \in batches /\ a # b BY <1>2
<1>4. \A a \in batches : a # b => a \in batches' BY <1>2
<1>5. Decided \subseteq Decided' BY <1>1, <1>3, DecidedGrows
<1>6. ASSUME NEW k \in 1..Len(mail), mail[k].kind # "code", k \notin Decided, k \in Decided'
      PROVE  k \in b.msgs
  <2>1. PICK a \in batches : a.step = "webhook" /\ k \in a.msgs BY <1>6 DEF Decided
  <2>2. a \in batches' => k \notin a.msgs BY <1>6, <2>1 DEF Decided
  <2> QED BY <1>4, <2>1, <2>2
<1>7. ASSUME NEW k \in Texts(b) PROVE k \in Decided' /\ k \notin Decided
  <2>1. k \in b.msgs /\ mail[k].kind # "code" /\ k \in 1..Len(mail) BY <1>1 DEF Texts, InboundTyped
  <2>2. k \notin Decided BY <2>1 DEF Decided
  <2>3. \A a \in batches' : a.step = "webhook" => k \notin a.msgs BY <1>1, <1>3, <2>1 DEF OnePlace
  <2> QED BY <2>1, <2>2, <2>3 DEF Decided
<1>8. \A k \in Decided' : k \in 1..Len(mail) /\ mail[k].kind # "code" BY DEF Decided
<1>9. \A k \in Decided' \ Decided : k \in Texts(b) BY <1>6, <1>8 DEF Texts
<1> QED BY <1>5, <1>7, <1>9

\* Handling a batch: nothing for the router, a mute, a pause, or texts for the queue.
LEMMA HandleIsAMove ==
  ASSUME InboundInv, InboundInv', NEW b \in batches, NEW failed \in BOOLEAN, Handle(b, failed)
  PROVE  Promise!InboxNext
<1> DEFINE ks == Texts(b)
           c == mail[Max(ks)].conv
           attack == \E k \in ks : mail[k].kind = "attack"
           later == IF ~open /\ StaticAnswers(failed) THEN ks ELSE {}
<1>1. InboundTyped /\ InboundTyped' BY DEF InboundInv
<1>2. UNCHANGED <<moment, open, mail>> /\ b.step = "webhook" BY DEF Handle, Rest
<1>3. \/ (ks = {} \/ IsMuted(c)) /\ With(b, {}, "") /\ UNCHANGED chat
      \/ ks # {} /\ With(b, {}, "") /\ Blocked(c)
      \/ ks # {} /\ ~IsMuted(c) /\ Admitted(c, ks) /\ With(b, later, "static")
  BY DEF Handle
<1>4. ks # {} => ks \in SUBSET (1..Len(mail)) /\ c \in Conv BY <1>1, TextsAre
<1>5. Decided \subseteq Decided' /\ Decided' \ Decided = ks BY <1>1, <1>2, <1>3, HandleDecides
<1> HIDE DEF ks, c, attack, later
<1>6. ASSUME ks # {}
      PROVE  /\ chat[c] \in ChatState /\ chat[c].pausedUntil \in Nat /\ chat[c].mutedUntil \in Nat
             /\ moment \in Nat
  <2>1. chat \in [Conv -> ChatState] /\ moment \in Nat BY <1>1, InboundBounds DEF InboundTyped
  <2>2. chat[c] \in ChatState BY <1>4, <1>6, <2>1
  <2> QED BY <2>1, <2>2 DEF ChatState
<1>7. CASE UNCHANGED chat
  <2>1. Box' = Box BY <1>7 DEF Box
  <2> QED BY <1>5, <2>1, StepIs
<1>8. CASE ks # {} /\ Blocked(c)
  <2>1. /\ \A d \in Conv : d # c => chat'[d] = chat[d]
        /\ chat'[c].flushing = chat[c].flushing /\ chat'[c].pausedUntil = chat[c].pausedUntil
        /\ \/ chat'[c].queue = chat[c].queue /\ chat'[c].mutedUntil = chat[c].mutedUntil
           \/ chat'[c].queue = {} /\ chat'[c].mutedUntil >= chat[c].mutedUntil
        /\ chat' \in [Conv -> ChatState]
    BY <1>1, <1>4, <1>8, BlockedIs
  <2>2. chat'[c].mutedUntil \in Nat BY <1>4, <1>8, <2>1 DEF ChatState
  <2>3. Promise!Held(View(chat[c]), View(chat'[c])) \/ Promise!Silenced(View(chat[c]), View(chat'[c]))
    <3>1. CASE chat'[c].queue = chat[c].queue /\ chat'[c].mutedUntil = chat[c].mutedUntil
      <4>1. chat[c].pausedUntil <= chat'[c].pausedUntil BY <1>6, <1>8, <2>1
      <4> QED BY <2>1, <3>1, <4>1 DEF Promise!Held, View
    <3>2. CASE chat'[c].queue = {} /\ chat'[c].mutedUntil >= chat[c].mutedUntil
      <4>1. chat[c].mutedUntil <= chat'[c].mutedUntil BY <1>6, <1>8, <2>2, <3>2
      <4> DEFINE v == View(chat[c])
                 w == View(chat'[c])
      <4>2. w = [queue |-> {}, prompt |-> chat[c].flushing,
                 pausedUntil |-> chat[c].pausedUntil, mutedUntil |-> chat'[c].mutedUntil]
        BY <2>1, <3>2 DEF View
      <4>3. v = [queue |-> chat[c].queue, prompt |-> chat[c].flushing,
                 pausedUntil |-> chat[c].pausedUntil, mutedUntil |-> chat[c].mutedUntil]
        BY DEF View
      <4> DEFINE u == [queue |-> chat[c].queue, prompt |-> chat[c].flushing,
                       pausedUntil |-> chat[c].pausedUntil, mutedUntil |-> chat'[c].mutedUntil]
      <4>u. u = [queue |-> chat[c].queue, prompt |-> chat[c].flushing,
                 pausedUntil |-> chat[c].pausedUntil, mutedUntil |-> chat'[c].mutedUntil]
        OBVIOUS
      <4> HIDE DEF v, w, u
      <4>4. w = [v EXCEPT !.mutedUntil = w.mutedUntil, !.queue = {}]
        <5>1. u = [v EXCEPT !.mutedUntil = w.mutedUntil] BY <4>2, <4>3, <4>u
        <5>2. w = [u EXCEPT !.queue = {}] BY <4>2, <4>u
        <5> QED BY <5>1, <5>2
      <4>5. v.mutedUntil <= w.mutedUntil BY <4>1, <4>2, <4>3
      <4>6. Promise!Silenced(v, w) BY <4>4, <4>5 DEF Promise!Silenced
      <4> QED BY <4>6 DEF v, w
    <3> QED BY <2>1, <3>1, <3>2
  <2>4. Promise!Move(c) BY <1>4, <1>8, <2>1, <2>3, MoveIs
  <2> QED BY <1>4, <1>5, <1>8, <2>4, StepIs
<1>9. CASE ks # {} /\ ~IsMuted(c) /\ Admitted(c, ks)
  <2>1. /\ \A d \in Conv : d # c => chat'[d] = chat[d]
        /\ chat'[c].queue = (IF open THEN chat[c].queue \union ks ELSE chat[c].queue)
        /\ chat'[c].flushing = chat[c].flushing /\ chat'[c].mutedUntil = chat[c].mutedUntil
        /\ chat'[c].pausedUntil >= chat[c].pausedUntil
        /\ chat' \in [Conv -> ChatState]
    BY <1>1, <1>4, <1>9, AdmittedIs
  <2>2. chat'[c].pausedUntil \in Nat BY <1>4, <1>9, <2>1 DEF ChatState
  <2>3. chat[c].mutedUntil <= moment BY <1>6, <1>9 DEF IsMuted
  <2> DEFINE s == View(chat[c])
             t == View(chat'[c])
             all == s.queue \union ks
             held == [s EXCEPT !.pausedUntil = t.pausedUntil]
  <2>4. CASE open
    <3>1. t.queue = all /\ t = [held EXCEPT !.queue = all]
      <4>1. chat'[c].queue = chat[c].queue \union ks BY <2>1, <2>4
      <4>2. s.queue = chat[c].queue BY DEF View
      <4>3. all = chat[c].queue \union ks BY <4>2
      <4> HIDE DEF all
      <4>4. t = [queue |-> all, prompt |-> chat[c].flushing,
                 pausedUntil |-> chat'[c].pausedUntil, mutedUntil |-> chat[c].mutedUntil]
        BY <2>1, <4>1, <4>3 DEF View
      <4>5. held = [queue |-> chat[c].queue, prompt |-> chat[c].flushing,
                    pausedUntil |-> chat'[c].pausedUntil, mutedUntil |-> chat[c].mutedUntil]
        BY DEF View
      <4> HIDE DEF s, t, held
      <4> QED BY <4>4, <4>5
    <3>2. Promise!Held(s, held) BY <1>6, <1>9, <2>1, <2>2 DEF Promise!Held, View
    <3>3. all \in (SUBSET (s.queue \union ks)) \ {{}} BY <1>9
    <3>4. s.mutedUntil <= moment BY <2>3 DEF View
    <3> HIDE DEF s, t, all
    <3>5. Promise!Joined(s, t, ks)
      <4>1. \A x \in all, y \in (s.queue \union ks) \ all : y < x BY DEF all
      <4> QED BY <1>9, <3>1, <3>2, <3>3, <3>4, <4>1 DEF Promise!Joined
    <3> QED BY <1>4, <1>5, <1>9, <2>1, <3>5, MoveIs, StepIs DEF s, t
  <2>5. CASE ~open
    <3>1. Promise!Held(s, t) BY <1>6, <1>9, <2>1, <2>2, <2>5 DEF Promise!Held, View
    <3> QED BY <1>4, <1>5, <1>9, <2>1, <3>1, MoveIs, StepIs
  <2> QED BY <2>4, <2>5
<1> QED BY <1>3, <1>7, <1>8, <1>9

\* Flushing a queue serves it.
LEMMA FlushIsAMove ==
  ASSUME InboundInv, InboundInv', NEW c \in Conv, Flush(c)
  PROVE  Promise!InboxNext
<1>1. /\ chat[c].queue # {} /\ chat[c].flushing = {} /\ chat[c].pausedUntil <= moment
      /\ chat' = [chat EXCEPT ![c] = [chat[c] EXCEPT !.queue = {},
                                                     !.flushing = IF open THEN chat[c].queue ELSE {}]]
      /\ UNCHANGED <<open, mail, batches>>
  BY DEF Flush, Rest
<1>2. chat \in [Conv -> ChatState] /\ InboundTyped /\ InboundTyped' BY DEF InboundInv, InboundTyped
<1>3. /\ \A d \in Conv : d # c => chat'[d] = chat[d]
      /\ chat'[c].queue = {} /\ chat'[c].flushing = (IF open THEN chat[c].queue ELSE {})
      /\ chat'[c].pausedUntil = chat[c].pausedUntil /\ chat'[c].mutedUntil = chat[c].mutedUntil
  BY <1>1, <1>2 DEF ChatState
<1>4. Promise!Served(View(chat[c]), View(chat'[c]))
  <2> DEFINE s == View(chat[c])
  <2>1. s.queue = chat[c].queue /\ s.prompt = chat[c].flushing /\ s.pausedUntil = chat[c].pausedUntil
    BY DEF View
  <2>2. View(chat'[c]) = [queue |-> {}, prompt |-> IF open THEN chat[c].queue ELSE {},
                          pausedUntil |-> chat[c].pausedUntil, mutedUntil |-> chat[c].mutedUntil]
    BY <1>3 DEF View
  <2> DEFINE u == [queue |-> {}, prompt |-> chat[c].flushing,
                   pausedUntil |-> chat[c].pausedUntil, mutedUntil |-> chat[c].mutedUntil]
             t == View(chat'[c])
             p == IF open THEN s.queue ELSE {}
  <2>3. /\ s = [queue |-> chat[c].queue, prompt |-> chat[c].flushing,
                pausedUntil |-> chat[c].pausedUntil, mutedUntil |-> chat[c].mutedUntil]
        /\ u = [queue |-> {}, prompt |-> chat[c].flushing,
                pausedUntil |-> chat[c].pausedUntil, mutedUntil |-> chat[c].mutedUntil]
        /\ t = [queue |-> {}, prompt |-> p,
                pausedUntil |-> chat[c].pausedUntil, mutedUntil |-> chat[c].mutedUntil]
    BY <2>1, <2>2 DEF View
  <2>4. t = [s EXCEPT !.queue = {}, !.prompt = p]
    <3> HIDE DEF s, t, u, p
    <3>1. u = [s EXCEPT !.queue = {}] BY <2>3
    <3>2. t = [u EXCEPT !.prompt = p] BY <2>3
    <3> QED BY <3>1, <3>2
  <2> HIDE DEF s
  <2>5. s.queue # {} /\ s.prompt = {} /\ s.pausedUntil <= moment BY <1>1, <2>1
  <2>6. Promise!Served(s, View(chat'[c])) BY <2>4, <2>5 DEF Promise!Served
  <2> QED BY <2>6 DEF s
<1>5. Promise!Move(c) BY <1>3, <1>4, MoveIs
<1>6. Decided' = Decided BY <1>1 DEF Decided
<1> QED BY <1>5, <1>6, StepIs

\* The end of a generation lands it.
LEMMA FlushEndsIsAMove ==
  ASSUME InboundInv, InboundInv', NEW c \in Conv, NEW ok \in BOOLEAN, NEW sent \in BOOLEAN, FlushEnds(c, ok, sent)
  PROVE  Promise!InboxNext
<1> DEFINE rest == [chat[c] EXCEPT !.flushing = {}]
           forgets == rest.queue = {} /\ rest.pausedUntil <= moment
           s == IF forgets THEN [NoBatch EXCEPT !.strikes = rest.strikes] ELSE rest
<1>1. chat[c].flushing # {} /\ chat' = [chat EXCEPT ![c] = s] /\ UNCHANGED <<mail, batches>>
  BY DEF FlushEnds
<1>2. chat \in [Conv -> ChatState] /\ InboundTyped /\ InboundTyped' BY DEF InboundInv, InboundTyped
<1>3. /\ rest.queue = chat[c].queue /\ rest.flushing = {} /\ rest.pausedUntil = chat[c].pausedUntil
      /\ rest.mutedUntil = chat[c].mutedUntil
  BY <1>2 DEF ChatState
<1>4. \A d \in Conv : d # c => chat'[d] = chat[d] BY <1>1, <1>2
<1>5. chat'[c] = s BY <1>1, <1>2
<1>6. View(s) = IF forgets THEN Promise!Empty ELSE View(rest)
  BY DEF View, NoBatch, Promise!Empty
<1>7. View(rest) = [View(chat[c]) EXCEPT !.prompt = {}] BY <1>3 DEF View
<1>8. forgets <=> View(rest).queue = {} /\ View(rest).pausedUntil <= moment BY DEF View
<1>9. View(chat[c]).prompt # {} BY <1>1 DEF View
<1> HIDE DEF s, forgets, rest
<1>10. Promise!Landed(View(chat[c]), View(chat'[c])) BY <1>5, <1>6, <1>7, <1>8, <1>9 DEF Promise!Landed
<1>11. Promise!Move(c) BY <1>4, <1>10, MoveIs
<1>12. Decided' = Decided BY <1>1 DEF Decided
<1> QED BY <1>11, <1>12, StepIs

\* A handoff prolongs the pause.
LEMMA HandoffIsAMove ==
  ASSUME InboundInv, InboundInv', NEW c \in Conv, Handoff(c)
  PROVE  Promise!InboxNext
<1> DEFINE until == moment + HumanIdle
           s == Pause(chat[c], until)
<1>1. chat' = [chat EXCEPT ![c] = s] /\ UNCHANGED <<mail, batches>> BY DEF Handoff
<1>2. chat \in [Conv -> ChatState] /\ InboundTyped /\ chat[c] \in ChatState BY DEF InboundInv, InboundTyped
<1>3. until \in Int BY <1>2, InboundBounds DEF InboundTyped
<1> HIDE DEF until
<1>4. /\ s \in ChatState /\ s.queue = chat[c].queue /\ s.flushing = chat[c].flushing
      /\ s.mutedUntil = chat[c].mutedUntil /\ s.pausedUntil >= chat[c].pausedUntil
  BY <1>2, <1>3, PauseIs
<1> HIDE DEF s
<1>5. chat'[c] = s /\ \A d \in Conv : d # c => chat'[d] = chat[d] BY <1>1, <1>2, <1>4, ChatMoves
<1>6. s.pausedUntil \in Nat /\ chat[c].pausedUntil \in Nat BY <1>2, <1>4 DEF ChatState
<1>7. Promise!Held(View(chat[c]), View(chat'[c])) BY <1>4, <1>5, <1>6 DEF Promise!Held, View
<1>8. Promise!Move(c) BY <1>5, <1>7, MoveIs
<1>9. Decided' = Decided BY <1>1 DEF Decided
<1> QED BY <1>8, <1>9, StepIs

\* What else happens leaves every conversation alone and undoes no decision.
LEMMA NoMove ==
  ASSUME InboundInv, InboundInv', UNCHANGED chat,
         \A k \in 1..Len(mail) : k \in 1..Len(mail') /\ mail'[k] = mail[k],
         \A a \in batches' : a.step = "webhook" => a \in batches \/ a.msgs \cap 1..Len(mail) = {}
  PROVE  Promise!InboxNext
<1>1. Decided \subseteq Decided' BY DecidedGrows DEF InboundInv
<1>2. Box' = Box BY DEF Box
<1> QED BY <1>1, <1>2, StepIs

LEMMA ReceiveIsNoMove ==
  ASSUME InboundInv, InboundInv', NEW ms \in Seq(Message), Receive(ms)
  PROVE  Promise!InboxNext
<1> DEFINE n == Len(mail)
           new == [msgs |-> n + 1..Len(mail \o ms), step |-> "webhook"]
<1>1. mail' = mail \o ms /\ batches' = batches \union {new} /\ UNCHANGED chat BY DEF Receive
<1>2. mail \in Seq(Message) /\ n \in Nat /\ Len(ms) \in Nat BY DEF InboundInv, InboundTyped, Message
<1>3. Len(mail') = n + Len(ms) /\ \A k \in 1..n : mail'[k] = mail[k] BY <1>1, <1>2, ConcatProperties
<1>4. \A k \in 1..n : k \in 1..Len(mail') BY <1>2, <1>3
<1>5. new.msgs \cap 1..n = {} BY <1>2
<1>6. \A a \in batches' : a.step = "webhook" => a \in batches \/ a.msgs \cap 1..n = {} BY <1>1, <1>5
<1> QED BY <1>1, <1>3, <1>4, <1>6, NoMove

LEMMA RestartIsAReset ==
  ASSUME InboundInv, InboundInv', InboundRestart
  PROVE  Promise!InboxNext
<1>1. /\ asks' = asks + 1 /\ batches' = {} /\ mail' = mail
      /\ chat' = [c \in Conv |-> NoBatch]
  BY DEF InboundRestart
<1>2. asks' # asks BY <1>1, InboundBounds DEF InboundInv, InboundTyped
<1>3. Box' = [c \in Conv |-> Promise!Empty] BY <1>1 DEF Box, View, NoBatch, Promise!Empty
<1>4. Promise!Reset BY <1>2, <1>3 DEF Promise!Reset, Box
<1>5. Decided \subseteq Decided' BY <1>1, DecidedGrows DEF InboundInv
<1> QED BY <1>4, <1>5, StepIs

\* Every step of the handlers is one of the inbox.
LEMMA InboxStep ==
  ASSUME InboundInv, InboundInv', [InboundNext]_inboundVars
  PROVE  [Promise!InboxNext]_(Promise!inboxVars)
<1>1. ASSUME UNCHANGED <<mail, batches, chat>> PROVE Promise!InboxNext BY <1>1, NoMove
<1>2. ASSUME NEW x \in Message, Receive(<<x>>) PROVE Promise!InboxNext
  <2>1. <<x>> \in Seq(Message) OBVIOUS
  <2> QED BY <1>2, <2>1, ReceiveIsNoMove
<1>3. ASSUME NEW x \in Message, NEW y \in Message, Receive(<<x, y>>) PROVE Promise!InboxNext
  <2>1. <<x, y>> \in Seq(Message) OBVIOUS
  <2> QED BY <1>3, <2>1, ReceiveIsNoMove
<1>4. ASSUME NEW b \in batches, NEW ks, NEW step, step # "webhook", With(b, ks, step), UNCHANGED <<mail, chat>>
      PROVE  Promise!InboxNext
  <2>1. \A a \in batches' : a.step = "webhook" => a \in batches BY <1>4 DEF With
  <2> QED BY <1>4, <2>1, NoMove
<1>5. ASSUME NEW b \in batches, DecideStatic(b) PROVE Promise!InboxNext
  BY <1>4, <1>5 DEF DecideStatic, Rest
<1>6. ASSUME NEW b \in batches, NEW ok \in BOOLEAN, SendStatic(b, ok) PROVE Promise!InboxNext
  BY <1>4, <1>6 DEF SendStatic
<1>8. ASSUME NEW c \in Conv, HumanWrites(c) PROVE Promise!InboxNext BY <1>1, <1>8 DEF HumanWrites
<1>9. WindowMoves \/ InboundTick \/ UNCHANGED inboundVars => Promise!InboxNext
  BY <1>1 DEF WindowMoves, InboundTick, inboundVars
<1> QED BY <1>2, <1>3, <1>5, <1>6, <1>8, <1>9, HandleIsAMove, FlushIsAMove, FlushEndsIsAMove, HandoffIsAMove,
            RestartIsAReset DEF InboundNext

LEMMA InboxStarts == ASSUME InboundInit PROVE Promise!InboxInit
<1>1. mail = <<>> /\ chat = [c \in Conv |-> NoBatch] BY DEF InboundInit
<1>2. Decided = {} BY <1>1 DEF Decided
<1> QED BY <1>1, <1>2 DEF Promise!InboxInit, View, NoBatch, Promise!Empty

-----------------------------------------------------------------------------
(* The history of the prompt.                                              *)

\* In a finite set with a strict total order the numbers of what comes before an element
\* grow with the order, and every number below the size of the set occurs.
LEMMA RanksPlace ==
  ASSUME NEW S, IsFiniteSet(S), NEW R,
         \A i \in S : <<i, i>> \notin R,
         \A i, j, k \in S : <<i, j>> \in R /\ <<j, k>> \in R => <<i, k>> \in R,
         \A i, j \in S : i # j => <<i, j>> \in R \/ <<j, i>> \in R
  PROVE  /\ \A i \in S : Cardinality({j \in S : <<j, i>> \in R}) \in 0..Cardinality(S) - 1
         /\ \A i, j \in S : <<i, j>> \in R =>
              Cardinality({k \in S : <<k, i>> \in R}) < Cardinality({k \in S : <<k, j>> \in R})
         /\ \A n \in 1..Cardinality(S) : \E i \in S : Cardinality({j \in S : <<j, i>> \in R}) = n - 1
<1> DEFINE below(i) == {j \in S : <<j, i>> \in R}
           size == Cardinality(S)
           rank == [i \in S |-> Cardinality(below(i)) + 1]
<1>1. \A i \in S : IsFiniteSet(below(i)) /\ Cardinality(below(i)) \in Nat
  <2>1. \A i \in S : below(i) \subseteq S OBVIOUS
  <2> HIDE DEF below
  <2>2. \A i \in S : IsFiniteSet(below(i)) BY <2>1, FS_Subset
  <2> QED BY <2>2, FS_CardinalityType
<1>2. size \in Nat BY FS_CardinalityType
<1>3. ASSUME NEW i \in S PROVE Cardinality(below(i)) < size
  <2>1. below(i) \subseteq S /\ i \notin below(i) OBVIOUS
  <2>2. below(i) # S BY <2>1
  <2> HIDE DEF below
  <2> QED BY <1>1, <1>2, <2>1, <2>2, FS_Subset
<1>4. ASSUME NEW i \in S, NEW j \in S, <<i, j>> \in R PROVE Cardinality(below(i)) < Cardinality(below(j))
  <2>1. below(i) \subseteq below(j) BY <1>4
  <2>2. i \in below(j) /\ i \notin below(i) BY <1>4
  <2>3. IsFiniteSet(below(j)) /\ below(i) # below(j) BY <1>1, <2>2
  <2> HIDE DEF below
  <2> QED BY <1>1, <2>1, <2>3, FS_Subset
<1>5. rank \in [S -> 1..size]
  <2>1. \A i \in S : Cardinality(below(i)) + 1 \in 1..size
    <3> HIDE DEF below, size
    <3> QED BY <1>1, <1>2, <1>3
  <2> QED BY <2>1
<1>6. ASSUME NEW i \in S, NEW j \in S, rank[i] = rank[j] PROVE i = j
  <2>1. Cardinality(below(i)) + 1 = Cardinality(below(j)) + 1 BY <1>6
  <2>2. Cardinality(below(i)) = Cardinality(below(j)) BY <1>1, <2>1
  <2> HIDE DEF below, rank
  <2>3. ~(<<i, j>> \in R) BY <1>1, <1>4, <2>2
  <2>4. ~(<<j, i>> \in R) BY <1>1, <1>4, <2>2
  <2> QED BY <2>3, <2>4
<1>7. ASSUME NEW n \in 1..size PROVE \E i \in S : Cardinality(below(i)) = n - 1
  <2> HIDE DEF rank, below
  <2>1. rank \in Injection(S, 1..size) BY <1>5, <1>6, Zenon DEF Injection, IsInjective
  <2>2. IsFiniteSet(1..size) /\ Cardinality(1..size) = size BY <1>2, FS_Interval
  <2>3. rank \in Surjection(S, 1..size) BY <2>1, <2>2, FS_Injection
  <2>4. PICK i \in S : rank[i] = n BY <2>3 DEF Surjection
  <2>5. Cardinality(below(i)) + 1 = n BY <2>4 DEF rank
  <2> QED BY <1>1, <2>5
<1>8. \A i \in S : Cardinality(below(i)) \in 0..size - 1
  <2> HIDE DEF below, size
  <2> QED BY <1>1, <1>2, <1>3
<1> QED BY <1>4, <1>7, <1>8

\* Newer() lists every fresh entry, the times of the list do not grow.
LEMMA NewerIs ==
  ASSUME NEW entries \in Seq(Entry), NEW cutoff \in Times
  PROVE  LET fresh == Newer(entries, cutoff)
         IN /\ fresh \in Seq(Entry) /\ \A k \in DOMAIN fresh : fresh[k].cost > 0
            /\ {fresh[k] : k \in DOMAIN fresh} = {entries[i] : i \in Fresh(entries, cutoff)}
            /\ \A j, k \in DOMAIN fresh : j < k => fresh[j].at >= fresh[k].at
<1> DEFINE S == Fresh(entries, cutoff)
           R == {p \in S \X S : NewerThan(entries, p[1], p[2])}
           below(i) == {j \in S : NewerThan(entries, j, i)}
           place(k) == CHOOSE i \in S : Cardinality(below(i)) = k - 1
           size == Cardinality(S)
           fresh == Newer(entries, cutoff)
<1>1. /\ S \subseteq 1..Len(entries) /\ Len(entries) \in Nat /\ IsFiniteSet(S) /\ size \in Nat
      /\ \A i \in S : entries[i] \in Entry /\ entries[i].cost > 0 /\ entries[i].at \in Nat /\ i \in Nat
  <2>1. S \subseteq 1..Len(entries) /\ Len(entries) \in Nat BY DEF Fresh
  <2>2. IsFiniteSet(1..Len(entries)) BY <2>1, FS_Interval
  <2>3. IsFiniteSet(S) BY <2>1, <2>2, FS_Subset
  <2>4. size \in Nat BY <2>3, FS_CardinalityType
  <2>5. \A i \in S : entries[i] \in Entry /\ entries[i].cost > 0 BY DEF Fresh
  <2>6. \A e \in Entry : e.at \in Nat BY RulesAssumption DEF Entry
  <2> QED BY <2>1, <2>3, <2>4, <2>5, <2>6
<1> DEFINE at == [i \in S |-> entries[i].at]
<1>13. at \in [S -> Nat] /\ S \subseteq Nat BY <1>1
<1>14. \A i, j \in S : NewerThan(entries, i, j) <=> at[i] > at[j] \/ (at[i] = at[j] /\ i > j) BY DEF NewerThan
<1>2. \A i, j \in S : <<i, j>> \in R <=> at[i] > at[j] \/ (at[i] = at[j] /\ i > j) BY <1>14
<1>15. \A i, j \in S : <<i, j>> \in R <=> NewerThan(entries, i, j) BY <1>14
<1>3. /\ \A i \in S : <<i, i>> \notin R
      /\ \A i, j, k \in S : <<i, j>> \in R /\ <<j, k>> \in R => <<i, k>> \in R
      /\ \A i, j \in S : i # j => <<i, j>> \in R \/ <<j, i>> \in R
  <2> HIDE DEF S, R, at
  <2>1. \A i \in S : i \in Nat /\ at[i] \in Nat BY <1>13
  <2>2. \A i \in S : <<i, i>> \notin R BY <1>2, <2>1
  <2>3. ASSUME NEW i \in S, NEW j \in S, NEW k \in S, <<i, j>> \in R, <<j, k>> \in R PROVE <<i, k>> \in R
    BY <1>2, <2>1, <2>3
  <2>4. ASSUME NEW i \in S, NEW j \in S, i # j PROVE <<i, j>> \in R \/ <<j, i>> \in R
    BY <1>2, <2>1, <2>4
  <2> QED BY <2>2, <2>3, <2>4
<1>4. \A i \in S : {j \in S : <<j, i>> \in R} = below(i) BY <1>15
<1>5. /\ \A i \in S : Cardinality(below(i)) \in 0..size - 1
      /\ \A i, j \in S : NewerThan(entries, i, j) => Cardinality(below(i)) < Cardinality(below(j))
      /\ \A n \in 1..size : \E i \in S : Cardinality(below(i)) = n - 1
  <2> HIDE DEF S, R, below
  <2>1. /\ \A i \in S : Cardinality({j \in S : <<j, i>> \in R}) \in 0..Cardinality(S) - 1
        /\ \A i, j \in S : <<i, j>> \in R =>
             Cardinality({k \in S : <<k, i>> \in R}) < Cardinality({k \in S : <<k, j>> \in R})
        /\ \A n \in 1..Cardinality(S) : \E i \in S : Cardinality({j \in S : <<j, i>> \in R}) = n - 1
    BY <1>1, <1>3, RanksPlace
  <2> QED BY <1>4, <1>15, <2>1
<1>6. \A k \in 1..size : place(k) \in S /\ Cardinality(below(place(k))) = k - 1
  <2> HIDE DEF S, below, size
  <2> QED BY <1>5
<1>7. fresh = [k \in 1..size |-> entries[place(k)]] BY DEF Newer
<1>16. \A i \in S : at[i] = entries[i].at OBVIOUS
<1> HIDE DEF S, R, below, place, size, fresh, at
<1>8. \A k \in 1..size : fresh[k] = entries[place(k)] /\ entries[place(k)] \in Entry /\ entries[place(k)].cost > 0
  BY <1>1, <1>6, <1>7
<1>9. fresh \in Seq(Entry) /\ DOMAIN fresh = 1..size
  <2>1. fresh \in [1..size -> Entry] BY <1>7, <1>8
  <2> QED BY <1>1, <2>1
<1>10. \A j, k \in 1..size : j < k => fresh[j].at >= fresh[k].at
  <2> SUFFICES ASSUME NEW j \in 1..size, NEW k \in 1..size, j < k, ~(fresh[j].at >= fresh[k].at) PROVE FALSE
    OBVIOUS
  <2>1. place(j) \in S /\ place(k) \in S /\ fresh[j] = entries[place(j)] /\ fresh[k] = entries[place(k)]
    BY <1>6, <1>8
  <2>2. at[place(k)] \in Nat /\ at[place(j)] \in Nat /\ ~(at[place(j)] >= at[place(k)]) BY <1>13, <1>16, <2>1
  <2>4. NewerThan(entries, place(k), place(j)) BY <1>14, <2>1, <2>2
  <2>3. Cardinality(below(place(k))) < Cardinality(below(place(j))) BY <1>5, <2>1, <2>4
  <2> QED BY <1>1, <1>6, <2>3
<1>11. ASSUME NEW i \in S PROVE \E k \in 1..size : fresh[k] = entries[i]
  <2> DEFINE k == Cardinality(below(i)) + 1
  <2>1. k \in 1..size BY <1>1, <1>5
  <2>2. place(k) \in S /\ Cardinality(below(place(k))) = k - 1 BY <1>6, <2>1
  <2>3. Cardinality(below(place(k))) = Cardinality(below(i)) BY <1>5, <2>2
  <2>4. place(k) = i
    <3>1. ~NewerThan(entries, place(k), i) /\ ~NewerThan(entries, i, place(k)) BY <1>5, <2>2, <2>3
    <3>2. place(k) \in Nat /\ i \in Nat /\ at[place(k)] \in Nat /\ at[i] \in Nat BY <1>13, <2>2
    <3>3. /\ ~(at[place(k)] > at[i] \/ (at[place(k)] = at[i] /\ place(k) > i))
          /\ ~(at[i] > at[place(k)] \/ (at[i] = at[place(k)] /\ i > place(k)))
      BY <1>14, <2>2, <3>1
    <3> QED BY <3>2, <3>3
  <2> QED BY <1>8, <2>1, <2>4
<1>12. {fresh[k] : k \in DOMAIN fresh} = {entries[i] : i \in S}
  <2>1. ASSUME NEW k \in DOMAIN fresh PROVE fresh[k] \in {entries[i] : i \in S}
    <3>1. place(k) \in S /\ fresh[k] = entries[place(k)] BY <1>6, <1>8, <1>9
    <3> QED BY <3>1
  <2>2. ASSUME NEW i \in S PROVE entries[i] \in {fresh[k] : k \in DOMAIN fresh} BY <1>9, <1>11
  <2> QED BY <2>1, <2>2
<1> QED BY <1>8, <1>9, <1>10, <1>12 DEF S, fresh

\* What holds at 0 and, step by step, up to a number, holds for all below it.
LEMMA Climb ==
  ASSUME NEW A, NEW top \in Nat, 0 \in A, \A i \in 0..top - 1 : i \in A => i + 1 \in A
  PROVE  \A i \in 0..top : i \in A
<1> DEFINE T == {i \in 0..top : i \notin A}
<1> SUFFICES ASSUME T # {} PROVE FALSE OBVIOUS
<1>1. T \in SUBSET Nat OBVIOUS
<1> HIDE DEF T
<1>2. PICK x \in T : \A y \in T : x <= y BY <1>1, NatLeast
<1>3. x \in 0..top /\ x \notin A BY DEF T
<1>4. x # 0 BY <1>3
<1>5. x - 1 \in 0..top - 1 /\ x - 1 \in 0..top BY <1>3, <1>4
<1>6. x - 1 \notin T
  <2>1. x \in Nat /\ ~(x <= x - 1) BY <1>3
  <2> QED BY <1>2, <2>1
<1>7. x - 1 \in A BY <1>5, <1>6 DEF T
<1>8. (x - 1) + 1 \in A BY <1>5, <1>7
<1>9. (x - 1) + 1 = x BY <1>3
<1> QED BY <1>3, <1>8, <1>9

\* The walks of n steps over values of T; there is one, whatever a step does.
Walks(n, T, start, step) == {g \in [0..n -> T] : g[0] = start /\ \A i \in 1..n : g[i] = step[i][g[i - 1]]}
LEMMA WalkExists ==
  ASSUME NEW n \in Nat, NEW T, NEW start \in T, NEW step \in [1..n -> [T -> T]]
  PROVE  Walks(n, T, start, step) # {}
<1> DEFINE walks(k) == {g \in [0..k -> T] : g[0] = start /\ \A i \in 1..k : g[i] = step[i][g[i - 1]]}
           A == {k \in 0..n : walks(k) # {}}
<1>1. 0 \in A
  <2> DEFINE g == [i \in 0..0 |-> start]
  <2>1. g \in walks(0) OBVIOUS
  <2> QED BY <2>1
<1>2. ASSUME NEW k \in 0..n - 1, k \in A PROVE k + 1 \in A
  <2>1. PICK g : g \in walks(k) BY <1>2
  <2>2. g \in [0..k -> T] /\ g[0] = start /\ \A i \in 1..k : g[i] = step[i][g[i - 1]] BY <2>1
  <2>3. k + 1 \in 1..n /\ k \in 0..k /\ k + 1 \in 0..n OBVIOUS
  <2> DEFINE h == [i \in 0..k + 1 |-> IF i = k + 1 THEN step[k + 1][g[k]] ELSE g[i]]
  <2>4. step[k + 1][g[k]] \in T BY <2>2, <2>3
  <2>5. \A i \in 0..k + 1 : i = k + 1 \/ i \in 0..k OBVIOUS
  <2>6. h \in [0..k + 1 -> T] BY <2>2, <2>4, <2>5
  <2>7. h[k + 1] = step[k + 1][g[k]] /\ \A i \in 0..k : h[i] = g[i] BY <2>5
  <2>8. h[0] = start BY <2>2, <2>7
  <2>9. ASSUME NEW i \in 1..k + 1 PROVE h[i] = step[i][h[i - 1]]
    <3>1. CASE i = k + 1
      <4>1. i - 1 = k /\ h[k] = g[k] BY <2>7, <3>1
      <4> HIDE DEF h
      <4> QED BY <2>7, <3>1, <4>1
    <3>2. CASE i \in 1..k
      <4>1. i \in 0..k /\ i - 1 \in 0..k BY <3>2
      <4>2. h[i] = g[i] /\ h[i - 1] = g[i - 1] BY <2>7, <4>1
      <4> HIDE DEF h
      <4> QED BY <2>2, <3>2, <4>2
    <3> QED BY <3>1, <3>2
  <2> HIDE DEF h
  <2>10. h \in walks(k + 1) BY <2>6, <2>8, <2>9
  <2> QED BY <2>3, <2>10
<1> HIDE DEF A
<1>3. \A k \in 0..n - 1 : k \in A => k + 1 \in A BY <1>2
<1>4. \A k \in 0..n : k \in A BY <1>1, <1>3, Climb
<1> QED BY <1>4 DEF A, Walks

\* A message cut to the limit.
Cut(e, limits) == [e EXCEPT !.cost = IF limits.chars > 0 THEN Min({@, limits.chars}) ELSE @]
BudgetState == [kept : Seq(Entry), chars : Nat, full : BOOLEAN]

LEMMA MinOfTwo ==
  ASSUME NEW a \in Nat, NEW b \in Nat
  PROVE  Min({a, b}) = IF a <= b THEN a ELSE b
<1>1. \E x \in {a, b} : \A y \in {a, b} : x <= y
  <2>1. CASE a <= b BY <2>1
  <2>2. CASE ~(a <= b) BY <2>2
  <2> QED BY <2>1, <2>2
<1>2. Min({a, b}) \in {a, b} /\ \A y \in {a, b} : Min({a, b}) <= y BY <1>1 DEF Min
<1> DEFINE m == Min({a, b})
<1>3. (m = a \/ m = b) /\ m <= a /\ m <= b BY <1>2
<1> HIDE DEF m
<1>4. m = IF a <= b THEN a ELSE b BY <1>3
<1> QED BY <1>4 DEF m

LEMMA LimitsAre ==
  ASSUME NEW limits \in Limits
  PROVE  limits.messages \in Nat /\ limits.messages > 0 /\ limits.chars \in Nat
<1>1. limits.messages \in 1..MaxEntries /\ MaxEntries \in Nat BY RulesAssumption DEF Limits
<1>2. limits.chars \in CharLimits /\ CharLimits \subseteq Nat BY RulesAssumption DEF Limits
<1>3. limits.messages \in Nat /\ limits.messages > 0 BY <1>1
<1>4. limits.chars \in Nat BY <1>2, Zenon
<1> QED BY <1>3, <1>4

LEMMA CutIs ==
  ASSUME NEW e \in Entry, NEW limits \in Limits
  PROVE  /\ Cut(e, limits) \in Entry /\ Cut(e, limits).cost <= e.cost
         /\ limits.chars > 0 => Cut(e, limits).cost <= limits.chars
         /\ limits.chars = 0 \/ e.cost <= limits.chars => Cut(e, limits) = e
         /\ limits.chars > 0 /\ e.cost > limits.chars => Cut(e, limits).cost = limits.chars
<1>1. limits.chars \in Nat /\ MaxCost \in Nat BY RulesAssumption, LimitsAre
<1>2. e.cost \in 0..MaxCost /\ e.cost \in Nat BY <1>1 DEF Entry
<1> DEFINE c == IF limits.chars > 0 THEN Min({e.cost, limits.chars}) ELSE e.cost
<1>3. Min({e.cost, limits.chars}) = IF e.cost <= limits.chars THEN e.cost ELSE limits.chars BY <1>1, <1>2, MinOfTwo
<1>4. /\ c \in 0..MaxCost /\ c <= e.cost /\ (limits.chars > 0 => c <= limits.chars)
      /\ (limits.chars = 0 \/ e.cost <= limits.chars => c = e.cost)
      /\ (limits.chars > 0 /\ e.cost > limits.chars => c = limits.chars)
  BY <1>1, <1>2, <1>3
<1>5. Cut(e, limits) = [e EXCEPT !.cost = c] BY DEF Cut
<1> HIDE DEF c
<1>6. Cut(e, limits) \in Entry /\ Cut(e, limits).cost = c /\ (c = e.cost => Cut(e, limits) = e) BY <1>4, <1>5 DEF Entry
<1> QED BY <1>4, <1>6

\* One message more has its characters more.
LEMMA TotalGrows ==
  ASSUME NEW fresh \in Seq(Entry)
  PROVE  /\ \A k \in 0..Len(fresh) : Total(SubSeq(fresh, 1, k)) \in Nat
         /\ Total(SubSeq(fresh, 1, 0)) = 0
         /\ \A k \in 0..Len(fresh) - 1 :
              Total(SubSeq(fresh, 1, k + 1)) = Total(SubSeq(fresh, 1, k)) + fresh[k + 1].cost
<1> DEFINE C(k) == Characters(SubSeq(fresh, 1, k))
<1>1. MaxCost \in Nat /\ Len(fresh) \in Nat BY RulesAssumption
<1>2. \A k \in 1..Len(fresh) : fresh[k].cost \in 0..MaxCost
  <2>1. \A k \in 1..Len(fresh) : fresh[k] \in Entry OBVIOUS
  <2> QED BY <2>1 DEF Entry
<1>3. ASSUME NEW k \in 0..Len(fresh)
      PROVE  \A p : p \in C(k) <=> p \in (1..k) \X (1..MaxCost) /\ p[2] <= fresh[p[1]].cost
  <2>1. DOMAIN SubSeq(fresh, 1, k) = 1..k /\ \A i \in 1..k : SubSeq(fresh, 1, k)[i] = fresh[i] BY <1>1
  <2>2. \A p \in (1..k) \X (1..MaxCost) : p[1] \in 1..k OBVIOUS
  <2> QED BY <2>1, <2>2 DEF Characters
<1>4. C(0) = {}
  <2>1. 0 \in 0..Len(fresh) /\ (1..0) \X (1..MaxCost) = {} BY <1>1
  <2> HIDE DEF C
  <2> QED BY <1>3, <2>1
<1>5. ASSUME NEW k \in 0..Len(fresh) - 1, IsFiniteSet(C(k))
      PROVE  IsFiniteSet(C(k + 1)) /\ Cardinality(C(k + 1)) = Cardinality(C(k)) + fresh[k + 1].cost
  <2> DEFINE cost == fresh[k + 1].cost
             one == {k + 1} \X (1..cost)
  <2>1. k + 1 \in 1..Len(fresh) /\ cost \in 0..MaxCost /\ k \in 0..Len(fresh) /\ k + 1 \in 0..Len(fresh) BY <1>1, <1>2
  <2>2. C(k + 1) = C(k) \union one
    <3>1. ASSUME NEW p PROVE p \in C(k + 1) <=> p \in C(k) \/ p \in one
      <4>1. p \in C(k + 1) <=> p \in (1..k + 1) \X (1..MaxCost) /\ p[2] <= fresh[p[1]].cost BY <1>3, <2>1
      <4>2. p \in C(k) <=> p \in (1..k) \X (1..MaxCost) /\ p[2] <= fresh[p[1]].cost BY <1>3, <2>1
      <4>3. p \in one <=> p \in {k + 1} \X (1..MaxCost) /\ p[2] <= fresh[p[1]].cost BY <1>1, <2>1
      <4>4. 1..k + 1 = (1..k) \union {k + 1} BY <2>1
      <4>5. p \in (1..k + 1) \X (1..MaxCost) <=> p \in (1..k) \X (1..MaxCost) \/ p \in {k + 1} \X (1..MaxCost)
        BY <4>4
      <4> HIDE DEF C, one
      <4> QED BY <4>1, <4>2, <4>3, <4>5
    <3> HIDE DEF C, one
    <3> QED BY <3>1
  <2>3. C(k) \intersect one = {}
    <3>1. \A p \in C(k) : p[1] \in 1..k BY <1>3, <2>1
    <3>2. \A p \in one : p[1] = k + 1 OBVIOUS
    <3> HIDE DEF C, one
    <3> QED BY <2>1, <3>1, <3>2
  <2>4. IsFiniteSet(one) /\ Cardinality(one) = cost
    <3> DEFINE f == [i \in 1..cost |-> <<k + 1, i>>]
    <3>2. IsFiniteSet(1..cost) /\ Cardinality(1..cost) = cost
      <4>1. cost \in Nat BY <1>1, <2>1
      <4> HIDE DEF cost
      <4>2. cost - 1 + 1 = cost /\ (1 > cost => cost = 0) BY <4>1
      <4> QED BY <4>1, <4>2, FS_Interval
    <3>4. \A i \in 1..cost : f[i] \in one /\ f[i][2] = i /\ f[i] = <<k + 1, i>> OBVIOUS
    <3>5. ASSUME NEW p \in one PROVE \E i \in 1..cost : f[i] = p
      <4>1. p[2] \in 1..cost /\ p = <<k + 1, p[2]>> OBVIOUS
      <4> QED BY <4>1
    <3>6. f \in [1..cost -> one] OBVIOUS
    <3> HIDE DEF f, one, cost
    <3>7. \A i, j \in 1..cost : f[i] = f[j] => i = j
      <4> SUFFICES ASSUME NEW i \in 1..cost, NEW j \in 1..cost, f[i] = f[j] PROVE i = j OBVIOUS
      <4>1. f[i][2] = i /\ f[j][2] = j BY <3>4
      <4> QED BY <4>1
    <3>1. f \in Bijection(1..cost, one)
      <4>1. f \in Injection(1..cost, one) BY <3>6, <3>7, Zenon DEF Injection, IsInjective
      <4>2. f \in Surjection(1..cost, one) BY <3>6, <3>5, Zenon DEF Surjection
      <4> QED BY <4>1, <4>2 DEF Bijection
    <3>3. ExistsBijection(1..cost, one) BY <3>1 DEF ExistsBijection
    <3> QED BY <3>2, <3>3, FS_Bijection
  <2> HIDE DEF C, one, cost
  <2>5. Cardinality({}) = 0 /\ Cardinality(C(k)) \in Nat BY <1>5, FS_EmptySet, FS_CardinalityType
  <2>6. IsFiniteSet(C(k) \union one) /\ Cardinality(C(k) \union one) = Cardinality(C(k)) + cost - 0
    BY <1>5, <2>3, <2>4, <2>5, FS_Union
  <2>7. cost \in Nat BY <1>1, <2>1
  <2>8. Cardinality(C(k + 1)) = Cardinality(C(k)) + cost
    <3>1. Cardinality(C(k + 1)) = Cardinality(C(k)) + cost - 0 BY <2>2, <2>6
    <3> QED BY <2>5, <2>7, <3>1
  <2>9. IsFiniteSet(C(k + 1)) BY <2>2, <2>6
  <2> QED BY <2>8, <2>9, Zenon DEF cost
<1> DEFINE A == {k \in 0..Len(fresh) : IsFiniteSet(C(k))}
<1>6. 0 \in A BY <1>1, <1>4, FS_EmptySet
<1>7. \A k \in 0..Len(fresh) - 1 : k \in A => k + 1 \in A BY <1>1, <1>5
<1> HIDE DEF C
<1>8. \A k \in 0..Len(fresh) : IsFiniteSet(C(k))
  <2> HIDE DEF A
  <2>1. \A k \in 0..Len(fresh) : k \in A BY <1>1, <1>6, <1>7, Climb
  <2> QED BY <2>1 DEF A
<1>9. \A k \in 0..Len(fresh) : Cardinality(C(k)) \in Nat BY <1>8, FS_CardinalityType
<1>10. \A k \in 0..Len(fresh) : Total(SubSeq(fresh, 1, k)) = Cardinality(C(k)) BY DEF Total, C
<1>11. Cardinality(C(0)) = 0 BY <1>4, FS_EmptySet
<1>12. \A k \in 0..Len(fresh) - 1 : k \in 0..Len(fresh) /\ k + 1 \in 0..Len(fresh) /\ 0 \in 0..Len(fresh) BY <1>1
<1>13. \A k \in 0..Len(fresh) - 1 : Cardinality(C(k + 1)) = Cardinality(C(k)) + fresh[k + 1].cost
  BY <1>5, <1>8, <1>12
<1>14. 0 \in 0..Len(fresh) BY <1>1
<1> QED BY <1>9, <1>10, <1>11, <1>12, <1>13, <1>14

Fits(fresh, limits, k) ==
  /\ k <= limits.messages
  /\ limits.chars = 0 \/ k <= 1 \/ Total(SubSeq(fresh, 1, k)) <= limits.chars

\* What the budget is after k entries.
BudgetAfter(fresh, limits, k, b) ==
  LET n == Len(b.kept)
  IN /\ b \in BudgetState /\ n <= Len(fresh) /\ n <= k /\ Fits(fresh, limits, n)
     /\ \A i \in 1..n : b.kept[i] = IF i = 1 THEN Cut(fresh[1], limits) ELSE fresh[i]
     /\ n = 0 => b.chars = 0
     /\ n = 1 => b.chars = Cut(fresh[1], limits).cost
     /\ n > 1 => /\ b.chars = Total(SubSeq(fresh, 1, n))
                 /\ limits.chars = 0 \/ fresh[1].cost <= limits.chars
     /\ ~b.full => n = k
     /\ b.full => n < k /\ ~Fits(fresh, limits, n + 1)

\* One entry more, three cases.
LEMMA TakeEntryIs ==
  ASSUME NEW b \in BudgetState, NEW e \in Entry, NEW limits \in Limits
  PROVE  LET over == \/ b.full \/ Len(b.kept) >= limits.messages
                     \/ limits.chars > 0 /\ b.kept # <<>> /\ b.chars + e.cost > limits.chars
             took == IF b.kept = <<>> THEN Cut(e, limits) ELSE e
         IN /\ over => TakeEntry(b, e, limits) = [b EXCEPT !.full = TRUE]
            /\ ~over => TakeEntry(b, e, limits) =
                 [kept |-> Append(b.kept, took), chars |-> b.chars + took.cost, full |-> FALSE]
            /\ TakeEntry(b, e, limits) \in BudgetState
<1> DEFINE over == \/ b.full \/ Len(b.kept) >= limits.messages
                   \/ limits.chars > 0 /\ b.kept # <<>> /\ b.chars + e.cost > limits.chars
           took == IF b.kept = <<>> THEN Cut(e, limits) ELSE e
           cost == IF limits.chars > 0 /\ b.kept = <<>> THEN Min({e.cost, limits.chars}) ELSE e.cost
<1>1. took = [e EXCEPT !.cost = cost]
  <2>1. CASE b.kept = <<>> BY <2>1 DEF Cut
  <2>2. CASE b.kept # <<>>
    <3>1. [e EXCEPT !.cost = e.cost] = e BY DEF Entry
    <3> QED BY <2>2, <3>1
  <2> QED BY <2>1, <2>2
<1>2. took \in Entry /\ took.cost = cost /\ cost \in Nat
  <2>1. took \in Entry BY CutIs
  <2>2. took.cost = cost
    <3> HIDE DEF took, cost
    <3> QED BY <1>1 DEF Entry
  <2>3. \A x \in Entry : x.cost \in Nat BY RulesAssumption DEF Entry
  <2> HIDE DEF took, cost
  <2> QED BY <2>1, <2>2, <2>3
<1>3. over => TakeEntry(b, e, limits) = [b EXCEPT !.full = TRUE] BY DEF TakeEntry
<1>4. ~over => TakeEntry(b, e, limits) = [b EXCEPT !.kept = Append(@, [e EXCEPT !.cost = cost]), !.chars = @ + cost]
  BY DEF TakeEntry
<1>5. ~over => b.full = FALSE BY DEF BudgetState
<1> HIDE DEF over, took, cost
<1>6. ~over => TakeEntry(b, e, limits) = [kept |-> Append(b.kept, took), chars |-> b.chars + took.cost, full |-> FALSE]
  BY <1>1, <1>2, <1>4, <1>5 DEF BudgetState
<1>7. TakeEntry(b, e, limits) \in BudgetState
  <2>1. b.kept \in Seq(Entry) /\ b.chars \in Nat BY DEF BudgetState
  <2>2. Append(b.kept, took) \in Seq(Entry) /\ b.chars + took.cost \in Nat BY <1>2, <2>1
  <2>3. CASE over BY <1>3, <2>3 DEF BudgetState
  <2>4. CASE ~over
    <3>1. \A s \in Seq(Entry), c \in Nat : [kept |-> s, chars |-> c, full |-> FALSE] \in BudgetState BY DEF BudgetState
    <3> QED BY <1>6, <2>2, <2>4, <3>1
  <2> QED BY <2>3, <2>4
<1> QED BY <1>3, <1>6, <1>7 DEF over, took

\* Budget() is the walk it is written as.
LEMMA BudgetIs ==
  ASSUME NEW fresh \in Seq(Entry), NEW limits \in Limits
  PROVE  /\ Budget(fresh, limits) \in [0..Len(fresh) -> BudgetState]
         /\ Budget(fresh, limits)[0] = Nothing
         /\ \A n \in 1..Len(fresh) : Budget(fresh, limits)[n] = TakeEntry(Budget(fresh, limits)[n - 1], fresh[n], limits)
<1> DEFINE top == Len(fresh)
           step == [n \in 1..top |-> [b \in BudgetState |-> TakeEntry(b, fresh[n], limits)]]
           body(g) == [n \in 0..top |-> IF n = 0 THEN Nothing ELSE TakeEntry(g[n - 1], fresh[n], limits)]
           F == Budget(fresh, limits)
<1>1. top \in Nat /\ \A n \in 1..top : fresh[n] \in Entry OBVIOUS
<1>2. Nothing \in BudgetState BY DEF Nothing, BudgetState
<1>3. \A n \in 1..top, b \in BudgetState : TakeEntry(b, fresh[n], limits) \in BudgetState BY <1>1, TakeEntryIs
<1>4. step \in [1..top -> [BudgetState -> BudgetState]] BY <1>3
<1>5. \A n \in 1..top, b \in BudgetState : step[n][b] = TakeEntry(b, fresh[n], limits) OBVIOUS
<1> HIDE DEF step
<1>6. PICK g \in [0..top -> BudgetState] : g[0] = Nothing /\ \A i \in 1..top : g[i] = step[i][g[i - 1]]
  <2> HIDE DEF top
  <2>1. Walks(top, BudgetState, Nothing, step) # {} BY <1>1, <1>2, <1>4, WalkExists
  <2> QED BY <2>1 DEF Walks
<1>7. g = body(g)
  <2>1. ASSUME NEW i \in 1..top PROVE g[i] = TakeEntry(g[i - 1], fresh[i], limits)
    <3>1. i - 1 \in 0..top BY <1>1
    <3> QED BY <1>5, <1>6, <3>1
  <2>2. \A n \in 0..top : n = 0 \/ n \in 1..top BY <1>1
  <2>3. \A n \in 0..top : g[n] = IF n = 0 THEN Nothing ELSE TakeEntry(g[n - 1], fresh[n], limits)
    BY <1>6, <2>1, <2>2
  <2> HIDE DEF top
  <2> QED BY <1>6, <2>3
<1>8. F = CHOOSE h : h = body(h) BY DEF Budget
<1>9. F = body(F)
  <2> HIDE DEF body, F
  <2> QED BY <1>7, <1>8
<1> HIDE DEF F
<1>10. F[0] = Nothing /\ \A n \in 1..top : F[n] = TakeEntry(F[n - 1], fresh[n], limits)
  <2>1. 0 \in 0..top BY <1>1
  <2>2. \A n \in 1..top : n \in 0..top /\ n # 0 BY <1>1
  <2>3. \A n \in 0..top : F[n] = IF n = 0 THEN Nothing ELSE TakeEntry(F[n - 1], fresh[n], limits)
    BY <1>9
  <2> HIDE DEF body, top
  <2> QED BY <2>1, <2>2, <2>3
<1>11. DOMAIN F = 0..top /\ F = [n \in 0..top |-> F[n]] BY <1>9
<1> HIDE DEF body
<1>12. \A n \in 0..top : F[n] \in BudgetState
  <2> DEFINE A == {n \in 0..top : F[n] \in BudgetState}
  <2>1. 0 \in A BY <1>1, <1>2, <1>10
  <2>2. ASSUME NEW n \in 0..top - 1, n \in A PROVE n + 1 \in A
    <3>1. n + 1 \in 1..top /\ n + 1 \in 0..top /\ (n + 1) - 1 = n BY <1>1
    <3>2. F[n + 1] = TakeEntry(F[n], fresh[n + 1], limits) BY <1>10, <3>1
    <3>3. F[n] \in BudgetState BY <2>2
    <3> QED BY <1>3, <3>1, <3>2, <3>3
  <2> HIDE DEF A
  <2>3. \A n \in 0..top : n \in A BY <1>1, <2>1, <2>2, Climb
  <2> QED BY <2>3 DEF A
<1>13. F \in [0..top -> BudgetState]
  <2> HIDE DEF top
  <2> QED BY <1>11, <1>12
<1> QED BY <1>10, <1>13 DEF F

\* The budget after every number of entries.
LEMMA BudgetInv ==
  ASSUME NEW fresh \in Seq(Entry), \A k \in 1..Len(fresh) : fresh[k].cost > 0, NEW limits \in Limits
  PROVE  \A k \in 0..Len(fresh) : BudgetAfter(fresh, limits, k, Budget(fresh, limits)[k])
<1> DEFINE F == Budget(fresh, limits)
           top == Len(fresh)
           A == {k \in 0..top : BudgetAfter(fresh, limits, k, F[k])}
           total(k) == Total(SubSeq(fresh, 1, k))
<1>1. top \in Nat /\ \A n \in 1..top : fresh[n] \in Entry OBVIOUS
<1>2. limits.messages \in Nat /\ limits.messages > 0 /\ limits.chars \in Nat BY LimitsAre
<1>3. /\ \A k \in 0..top : total(k) \in Nat
      /\ total(0) = 0 /\ \A k \in 0..top - 1 : total(k + 1) = total(k) + fresh[k + 1].cost
  BY TotalGrows
<1>4. F \in [0..top -> BudgetState] /\ F[0] = Nothing /\ \A n \in 1..top : F[n] = TakeEntry(F[n - 1], fresh[n], limits)
  BY BudgetIs
<1>5. \A n \in 1..top : fresh[n].cost \in Nat /\ fresh[n].cost > 0
  <2>1. \A e \in Entry : e.cost \in Nat BY RulesAssumption DEF Entry
  <2> QED BY <1>1, <2>1
<1> HIDE DEF F, top, total
<1>6. 0 \in A
  <2>1. Nothing.kept = <<>> /\ Nothing.chars = 0 /\ Nothing.full = FALSE /\ Nothing \in BudgetState /\ Len(Nothing.kept) = 0
    BY DEF Nothing, BudgetState
  <2>2. Fits(fresh, limits, 0) BY <1>2 DEF Fits
  <2>3. Len(fresh) \in Nat /\ \A i \in 1..0 : FALSE BY <1>1 DEF top
  <2>4. BudgetAfter(fresh, limits, 0, Nothing) BY <2>1, <2>2, <2>3 DEF BudgetAfter
  <2>5. 0 \in 0..top BY <1>1
  <2> QED BY <1>4, <2>4, <2>5
<1>7. ASSUME NEW k \in 0..top - 1, k \in A PROVE k + 1 \in A
  <2> DEFINE b == F[k]
             e == fresh[k + 1]
             n == Len(b.kept)
             new == F[k + 1]
             over == \/ b.full \/ Len(b.kept) >= limits.messages
                     \/ limits.chars > 0 /\ b.kept # <<>> /\ b.chars + e.cost > limits.chars
             took == IF b.kept = <<>> THEN Cut(e, limits) ELSE e
  <2>1. k + 1 \in 1..top /\ k + 1 \in 0..top /\ k \in 0..top /\ (k + 1) - 1 = k BY <1>1
  <2>2. b \in BudgetState /\ e \in Entry /\ new = TakeEntry(b, e, limits) BY <1>1, <1>4, <2>1
  <2>3. BudgetAfter(fresh, limits, k, b) BY <1>7
  <2>4. b.kept \in Seq(Entry) /\ n \in Nat /\ b.chars \in Nat /\ (b.kept = <<>> <=> n = 0) /\ b.full \in BOOLEAN
    BY <2>2 DEF BudgetState
  <2>5. /\ over => new = [b EXCEPT !.full = TRUE]
        /\ ~over => new = [kept |-> Append(b.kept, took), chars |-> b.chars + took.cost, full |-> FALSE]
        /\ new \in BudgetState
    <3> HIDE DEF b, e, new
    <3> QED BY <2>2, TakeEntryIs, Zenon
  <2>6. e.cost \in Nat /\ e.cost > 0 BY <1>5, <2>1
  <2>7. CASE over
    <3>1. new.kept = b.kept /\ new.chars = b.chars /\ new.full = TRUE BY <2>2, <2>5, <2>7 DEF BudgetState
    <3>2. n < k + 1 /\ n <= top /\ n <= k /\ (~b.full => n = k) BY <2>1, <2>3, <2>4 DEF BudgetAfter, top
    <3>3. ~Fits(fresh, limits, n + 1)
      <4>1. CASE b.full BY <2>3, <4>1 DEF BudgetAfter
      <4>2. CASE ~b.full /\ n >= limits.messages BY <1>2, <2>4, <4>2 DEF Fits
      <4>3. CASE ~b.full /\ limits.chars > 0 /\ b.kept # <<>> /\ b.chars + e.cost > limits.chars
        <5>1. n = k /\ n > 0 BY <2>4, <3>2, <4>3
        <5>2. total(k + 1) = total(k) + e.cost /\ total(k) \in Nat BY <1>3, <2>1
        <5>3. b.chars <= total(k)
          <6>1. CASE n = 1
            <7>1. total(1) = total(0) + fresh[1].cost /\ total(0) = 0
              <8>1. 0 \in 0..top - 1 /\ 0 + 1 = 1 BY <1>1, <2>1
              <8> QED BY <1>3, <8>1
            <7>2. 1 \in 1..top BY <1>1, <2>1
            <7>3. b.chars = Cut(fresh[1], limits).cost BY <2>3, <6>1 DEF BudgetAfter
            <7>4. Cut(fresh[1], limits).cost <= fresh[1].cost BY <1>1, <7>2, CutIs
            <7>5. fresh[1].cost \in Nat BY <1>5, <7>2
            <7> HIDE DEF n, b
            <7> QED BY <5>1, <6>1, <7>1, <7>3, <7>4, <7>5
          <6>2. CASE n > 1
            <7>1. b.chars = total(n) BY <2>3, <6>2 DEF BudgetAfter, total
            <7> HIDE DEF n, b
            <7> QED BY <5>1, <5>2, <7>1
          <6> HIDE DEF b
          <6> QED BY <2>4, <5>1, <6>1, <6>2
        <5>4. ~(total(n + 1) <= limits.chars)
          <6> HIDE DEF n, b, e
          <6> QED BY <1>2, <2>4, <2>6, <4>3, <5>1, <5>2, <5>3
        <5>5. ~(limits.chars = 0) /\ ~(n + 1 <= 1) BY <2>4, <4>3, <5>1
        <5> QED BY <5>4, <5>5 DEF Fits, total
      <4> QED BY <2>7, <4>1, <4>2, <4>3
    <3>4. BudgetAfter(fresh, limits, k + 1, new)
      <4>1. Len(new.kept) = n /\ n <= k + 1 /\ n <= Len(fresh) BY <2>1, <3>1, <3>2 DEF top
      <4>2. /\ Fits(fresh, limits, n)
            /\ \A i \in 1..n : b.kept[i] = IF i = 1 THEN Cut(fresh[1], limits) ELSE fresh[i]
            /\ n = 0 => b.chars = 0
            /\ n = 1 => b.chars = Cut(fresh[1], limits).cost
            /\ n > 1 => /\ b.chars = Total(SubSeq(fresh, 1, n))
                        /\ limits.chars = 0 \/ fresh[1].cost <= limits.chars
        BY <2>3 DEF BudgetAfter
      <4> HIDE DEF new, n, b
      <4> QED BY <2>5, <3>1, <3>2, <3>3, <4>1, <4>2 DEF BudgetAfter
    <3> QED BY <2>1, <3>4
  <2>8. CASE ~over
    <3>1. new.kept = Append(b.kept, took) /\ new.chars = b.chars + took.cost /\ new.full = FALSE BY <2>5, <2>8
    <3>2. n = k /\ n < limits.messages /\ (limits.chars = 0 \/ n = 0 \/ b.chars + e.cost <= limits.chars)
      <4>1. ~b.full /\ n < limits.messages BY <1>2, <2>4, <2>8
      <4>2. limits.chars = 0 \/ n = 0 \/ b.chars + e.cost <= limits.chars BY <1>2, <2>4, <2>6, <2>8
      <4> QED BY <2>3, <4>1, <4>2 DEF BudgetAfter
    <3>3. took = (IF k + 1 = 1 THEN Cut(fresh[1], limits) ELSE fresh[k + 1]) /\ took \in Entry
      <4>1. took \in Entry BY <2>2, CutIs
      <4> HIDE DEF n
      <4> QED BY <2>4, <3>2, <4>1
    <3>4. Len(new.kept) = k + 1 /\ \A i \in 1..k : new.kept[i] = b.kept[i]
      <4> HIDE DEF took, b
      <4> QED BY <2>4, <3>1, <3>2, <3>3
    <3>5. new.kept[k + 1] = took
      <4> HIDE DEF took, b
      <4> QED BY <2>4, <3>1, <3>2, <3>3
    <3>6. \A i \in 1..k + 1 : new.kept[i] = IF i = 1 THEN Cut(fresh[1], limits) ELSE fresh[i]
      <4> SUFFICES ASSUME NEW i \in 1..k + 1 PROVE new.kept[i] = IF i = 1 THEN Cut(fresh[1], limits) ELSE fresh[i]
        OBVIOUS
      <4>1. CASE i = k + 1
        <5> HIDE DEF took, new
        <5> QED BY <3>3, <3>5, <4>1
      <4>2. CASE i \in 1..k
        <5>1. b.kept[i] = IF i = 1 THEN Cut(fresh[1], limits) ELSE fresh[i] BY <2>3, <3>2, <4>2 DEF BudgetAfter
        <5> HIDE DEF took, new, b
        <5> QED BY <3>4, <4>2, <5>1
      <4> QED BY <2>1, <4>1, <4>2
    <3>7. k + 1 = 1 => new.chars = Cut(fresh[1], limits).cost
      <4> SUFFICES ASSUME k + 1 = 1 PROVE new.chars = Cut(fresh[1], limits).cost OBVIOUS
      <4>1. k = 0 /\ n = 0 BY <2>1, <3>2
      <4>2. b.chars = 0 BY <2>3, <4>1 DEF BudgetAfter
      <4>3. took = Cut(fresh[1], limits) BY <3>3, <4>1
      <4>4. \A x \in Entry : x.cost \in Nat BY RulesAssumption DEF Entry
      <4> HIDE DEF took, new, b
      <4> QED BY <3>1, <3>3, <4>2, <4>3, <4>4
    <3>8. k + 1 > 1 => /\ new.chars = total(k + 1)
                       /\ limits.chars = 0 \/ fresh[1].cost <= limits.chars
      <4> SUFFICES ASSUME k + 1 > 1
                   PROVE  new.chars = total(k + 1) /\ (limits.chars = 0 \/ fresh[1].cost <= limits.chars)
        OBVIOUS
      <4>1. k > 0 /\ 1 \in 1..top /\ k \in Nat BY <1>1, <2>1
      <4>2. took = e BY <2>4, <3>2, <4>1
      <4>3. total(k + 1) = total(k) + e.cost BY <1>3, <2>1
      <4>4. b.chars = total(k) /\ (limits.chars = 0 \/ fresh[1].cost <= limits.chars)
        <5>1. CASE k = 1
          <6>1. total(1) = fresh[1].cost
            <7>1. 0 \in 0..top - 1 /\ 0 + 1 = 1 BY <1>1, <2>1
            <7>2. total(1) = 0 + fresh[1].cost BY <1>3, <7>1
            <7> QED BY <1>5, <4>1, <7>2
          <6>2. b.chars = Cut(fresh[1], limits).cost BY <2>3, <3>2, <5>1 DEF BudgetAfter
          <6>3. limits.chars = 0 \/ fresh[1].cost <= limits.chars
            <7> SUFFICES ASSUME limits.chars # 0, ~(fresh[1].cost <= limits.chars) PROVE FALSE OBVIOUS
            <7>1. fresh[1].cost > limits.chars /\ limits.chars > 0 BY <1>2, <1>5, <4>1
            <7>2. b.chars = limits.chars BY <1>1, <4>1, <6>2, <7>1, CutIs
            <7>3. b.chars + e.cost <= limits.chars BY <3>2, <4>1
            <7> HIDE DEF b, e
            <7> QED BY <1>2, <2>6, <7>2, <7>3
          <6>4. Cut(fresh[1], limits) = fresh[1] BY <1>1, <4>1, <6>3, CutIs
          <6> HIDE DEF b
          <6> QED BY <5>1, <6>1, <6>2, <6>3, <6>4
        <5>2. CASE k > 1
          <6>1. n = k /\ n > 1 BY <3>2, <5>2
          <6> QED BY <2>3, <6>1 DEF BudgetAfter, total
        <5> QED BY <4>1, <5>1, <5>2
      <4> HIDE DEF new, b, e, took
      <4> QED BY <3>1, <4>2, <4>3, <4>4
    <3>9. Fits(fresh, limits, k + 1)
      <4>1. k + 1 <= limits.messages BY <1>2, <2>1, <3>2
      <4>2. limits.chars = 0 \/ k + 1 <= 1 \/ total(k + 1) <= limits.chars
        <5> SUFFICES ASSUME limits.chars # 0, k + 1 > 1 PROVE total(k + 1) <= limits.chars BY <2>1
        <5>1. k > 0 BY <2>1
        <5>2. took = e BY <2>4, <3>2, <5>1
        <5>3. new.chars = total(k + 1) BY <3>8
        <5>4. b.chars + e.cost <= limits.chars BY <3>2, <5>1
        <5> HIDE DEF new, b, e, took
        <5> QED BY <3>1, <5>2, <5>3, <5>4
      <4> QED BY <4>1, <4>2 DEF Fits, total
    <3>10. BudgetAfter(fresh, limits, k + 1, new)
      <4>1. k + 1 <= Len(fresh) /\ ~(k + 1 = 0) /\ k + 1 <= k + 1 BY <2>1 DEF top
      <4> HIDE DEF new
      <4> QED BY <2>5, <3>1, <3>4, <3>6, <3>7, <3>8, <3>9, <4>1 DEF BudgetAfter, total
    <3> QED BY <2>1, <3>10
  <2> QED BY <2>7, <2>8
<1> HIDE DEF A
<1>8. \A k \in 0..top : k \in A BY <1>1, <1>6, <1>7, Climb
<1> QED BY <1>8 DEF A, F, top

\* What the history is, for every chat and all limits.
LEMMA HistoryIs ==
  ASSUME NEW entries \in Seq(Entry), NEW limits \in Limits
  PROVE  LET fresh == Newer(entries, limits.cutoff)
             out == SelectHistory(entries, limits)
             n == Len(out)
         IN /\ {fresh[k] : k \in DOMAIN fresh} = {entries[i] : i \in Fresh(entries, limits.cutoff)}
            /\ \A j, k \in DOMAIN fresh : j < k => fresh[j].at >= fresh[k].at
            /\ n <= Len(fresh) /\ Fits(fresh, limits, n) /\ (n < Len(fresh) => ~Fits(fresh, limits, n + 1))
            /\ \A i \in 1..n : out[i] = IF n = 1 THEN Cut(fresh[1], limits) ELSE fresh[n + 1 - i]
<1> DEFINE fresh == Newer(entries, limits.cutoff)
           out == SelectHistory(entries, limits)
           n == Len(out)
           b == Budget(fresh, limits)[Len(fresh)]
<1>1. limits.cutoff \in Times BY DEF Limits
<1>2. /\ fresh \in Seq(Entry) /\ \A k \in DOMAIN fresh : fresh[k].cost > 0
      /\ {fresh[k] : k \in DOMAIN fresh} = {entries[i] : i \in Fresh(entries, limits.cutoff)}
      /\ \A j, k \in DOMAIN fresh : j < k => fresh[j].at >= fresh[k].at
  BY <1>1, NewerIs
<1>3. out = Reverse(b.kept) BY DEF SelectHistory
<1> HIDE DEF fresh
<1>4. Len(fresh) \in Nat /\ DOMAIN fresh = 1..Len(fresh) /\ Len(fresh) \in 0..Len(fresh) BY <1>2
<1>5. BudgetAfter(fresh, limits, Len(fresh), b) BY <1>2, <1>4, BudgetInv
<1> HIDE DEF b, out
<1>6. b.kept \in Seq(Entry) /\ b.full \in BOOLEAN BY <1>5 DEF BudgetAfter, BudgetState
<1>7. n = Len(b.kept) /\ n \in Nat /\ \A i \in 1..n : out[i] = b.kept[n + 1 - i]
  BY <1>3, <1>6 DEF Reverse
<1> HIDE DEF n
<1>8. n <= Len(fresh) /\ Fits(fresh, limits, n) BY <1>5, <1>7 DEF BudgetAfter
<1>9. n < Len(fresh) => ~Fits(fresh, limits, n + 1) BY <1>4, <1>5, <1>6, <1>7 DEF BudgetAfter
<1>10. ASSUME NEW i \in 1..n PROVE out[i] = IF n = 1 THEN Cut(fresh[1], limits) ELSE fresh[n + 1 - i]
  <2>1. n + 1 - i \in 1..n /\ out[i] = b.kept[n + 1 - i] BY <1>7
  <2>2. b.kept[n + 1 - i] = IF n + 1 - i = 1 THEN Cut(fresh[1], limits) ELSE fresh[n + 1 - i]
    BY <1>5, <1>7, <2>1 DEF BudgetAfter
  <2>3. CASE n = 1 BY <2>1, <2>2, <2>3
  <2>4. CASE n # 1
    <3>1. n > 1 /\ 1 \in 1..Len(fresh)
      <4>1. n \in Nat /\ n <= Len(fresh) /\ Len(fresh) \in Nat BY <1>4, <1>7, <1>8
      <4> QED BY <2>4, <4>1
    <3>2. limits.chars = 0 \/ fresh[1].cost <= limits.chars BY <1>5, <1>7, <3>1 DEF BudgetAfter
    <3>3. Cut(fresh[1], limits) = fresh[1] BY <1>2, <3>1, <3>2, CutIs
    <3> QED BY <2>1, <2>2, <2>4, <3>3
  <2> QED BY <2>3, <2>4
<1> QED BY <1>2, <1>8, <1>9, <1>10 DEF fresh, out, n

Turn == [text : Text, fromMe : BOOLEAN]
WalkState == [left : Seq(Turn), pending : Seq(Text)]

\* What the walk has after its first i entries: what is left has its places among the
\* last i, from the last one on, and the rest of them took texts of the batch away, from
\* its end; as long as none is, the last text of the batch was not met.
Stays(asked, e) == e.fromMe \/ \A n \in DOMAIN asked : e.text # asked[n]
Told(asked, e) == ~e.fromMe /\ asked # <<>> /\ e.text = Last(asked)
LeftOf(all, asked, i, left, place) ==
  LET last == Len(all) + 1 - i .. Len(all)
  IN /\ place \in [1..Len(left) -> last]
     /\ \A j, m \in 1..Len(left) : j < m => place[j] > place[m]
     /\ \A m \in 1..Len(left) : left[m] = all[place[m]]
     /\ \A k \in last : Stays(asked, all[k]) => \E m \in 1..Len(left) : place[m] = k
WalkedBack(all, current, i, b) ==
  /\ b \in WalkState
  /\ Len(b.pending) <= Len(current) /\ \A j \in 1..Len(b.pending) : b.pending[j] = current[j]
  /\ Len(b.left) + (Len(current) - Len(b.pending)) = i
  /\ Len(b.pending) = Len(current) => \A k \in Len(all) + 1 - i .. Len(all) : ~Told(current, all[k])
  /\ \E place : LeftOf(all, current, i, b.left, place)

LEMMA TakeOutIs ==
  ASSUME NEW b \in WalkState, NEW e \in Turn
  PROVE  /\ TakeOut(b, e) \in WalkState
         /\ \/ /\ b.pending # <<>> /\ ~e.fromMe /\ e.text = b.pending[Len(b.pending)]
               /\ TakeOut(b, e).left = b.left
               /\ Len(TakeOut(b, e).pending) = Len(b.pending) - 1
               /\ \A j \in 1..Len(b.pending) - 1 : TakeOut(b, e).pending[j] = b.pending[j]
            \/ /\ ~(b.pending # <<>> /\ ~e.fromMe /\ e.text = b.pending[Len(b.pending)])
               /\ TakeOut(b, e).left = Append(b.left, e) /\ TakeOut(b, e).pending = b.pending
<1> DEFINE out == b.pending # <<>> /\ ~e.fromMe /\ e.text = b.pending[Len(b.pending)]
<1>1. b.left \in Seq(Turn) /\ b.pending \in Seq(Text) /\ b = [left |-> b.left, pending |-> b.pending] BY DEF WalkState
<1>2. \A s \in Seq(Turn), p \in Seq(Text) : [left |-> s, pending |-> p] \in WalkState BY DEF WalkState
<1>3. CASE out
  <2>1. TakeOut(b, e) = [b EXCEPT !.pending = Front(@)] BY <1>3 DEF TakeOut, Last
  <2>2. TakeOut(b, e) = [left |-> b.left, pending |-> Front(b.pending)]
    <3> HIDE DEF out
    <3> QED BY <1>1, <2>1
  <2>3. /\ Front(b.pending) \in Seq(Text) /\ Len(Front(b.pending)) = Len(b.pending) - 1
        /\ \A j \in 1..Len(b.pending) - 1 : Front(b.pending)[j] = b.pending[j]
    <3> DEFINE p == b.pending
    <3>1. p \in Seq(Text) /\ p # <<>> BY <1>1, <1>3
    <3> HIDE DEF p
    <3>2. Front(p) = SubSeq(p, 1, Len(p) - 1) /\ Len(p) \in Nat /\ Len(p) > 0 BY <3>1 DEF Front
    <3>3. /\ SubSeq(p, 1, Len(p) - 1) \in Seq(Text) /\ Len(SubSeq(p, 1, Len(p) - 1)) = Len(p) - 1
          /\ \A j \in 1..Len(p) - 1 : SubSeq(p, 1, Len(p) - 1)[j] = p[j]
      <4>1. 1 \in 1..Len(p) + 1 /\ Len(p) - 1 \in 1 - 1 .. Len(p) /\ Len(p) - 1 - 1 + 1 = Len(p) - 1 BY <3>2
      <4> QED BY <3>1, <3>2, <4>1, SubSeqProperties
    <3> QED BY <3>2, <3>3 DEF p
  <2> QED BY <1>1, <1>2, <1>3, <2>2, <2>3
<1>4. CASE ~out
  <2>1. TakeOut(b, e) = [b EXCEPT !.left = Append(@, e)] BY <1>4 DEF TakeOut, Last
  <2>2. TakeOut(b, e) = [left |-> Append(b.left, e), pending |-> b.pending]
    <3> HIDE DEF out
    <3> QED BY <1>1, <2>1
  <2>3. Append(b.left, e) \in Seq(Turn) BY <1>1
  <2> DEFINE t == TakeOut(b, e)
             s == Append(b.left, e)
  <2> HIDE DEF t, s
  <2>5. t = [left |-> s, pending |-> b.pending] /\ s \in Seq(Turn) BY <2>2, <2>3 DEF t, s
  <2>4. t.left = s /\ t.pending = b.pending /\ t \in WalkState BY <1>1, <1>2, <2>5
  <2> QED BY <1>4, <2>4 DEF t, s
<1> QED BY <1>3, <1>4

\* WalkBack() is the walk it is written as.
LEMMA WalkBackIs ==
  ASSUME NEW all \in Seq(Turn), NEW current \in Seq(Text)
  PROVE  LET W == WalkBack(all, current)
         IN /\ W \in [0..Len(all) -> WalkState]
            /\ W[0] = [left |-> <<>>, pending |-> current]
            /\ \A i \in 1..Len(all) : W[i] = TakeOut(W[i - 1], all[Len(all) + 1 - i])
<1> DEFINE top == Len(all)
           start == [left |-> <<>>, pending |-> current]
           step == [i \in 1..top |-> [b \in WalkState |-> TakeOut(b, all[top + 1 - i])]]
           body(g) == [i \in 0..top |-> IF i = 0 THEN start ELSE TakeOut(g[i - 1], all[top + 1 - i])]
           W == WalkBack(all, current)
<1>1. top \in Nat /\ \A i \in 1..top : all[top + 1 - i] \in Turn
  <2>1. \A i \in 1..top : top + 1 - i \in 1..top OBVIOUS
  <2> QED BY <2>1
<1>2. start \in WalkState BY DEF WalkState
<1>3. \A i \in 1..top, b \in WalkState : TakeOut(b, all[top + 1 - i]) \in WalkState BY <1>1, TakeOutIs
<1>4. step \in [1..top -> [WalkState -> WalkState]] BY <1>3
<1>5. \A i \in 1..top, b \in WalkState : step[i][b] = TakeOut(b, all[top + 1 - i]) OBVIOUS
<1> HIDE DEF step, start
<1>6. PICK g \in [0..top -> WalkState] : g[0] = start /\ \A i \in 1..top : g[i] = step[i][g[i - 1]]
  <2> HIDE DEF top
  <2>1. Walks(top, WalkState, start, step) # {} BY <1>1, <1>2, <1>4, WalkExists
  <2> QED BY <2>1 DEF Walks
<1>7. g = body(g)
  <2>1. ASSUME NEW i \in 1..top PROVE g[i] = TakeOut(g[i - 1], all[top + 1 - i])
    <3>1. i - 1 \in 0..top BY <1>1
    <3> QED BY <1>5, <1>6, <3>1
  <2>2. \A n \in 0..top : n = 0 \/ n \in 1..top BY <1>1
  <2>3. \A n \in 0..top : g[n] = IF n = 0 THEN start ELSE TakeOut(g[n - 1], all[top + 1 - n])
    BY <1>6, <2>1, <2>2
  <2> HIDE DEF top
  <2> QED BY <1>6, <2>3
<1>8. W = CHOOSE h : h = body(h) BY DEF WalkBack, start
<1>9. W = body(W)
  <2> HIDE DEF body, W
  <2> QED BY <1>7, <1>8
<1> HIDE DEF W
<1>10. W[0] = start /\ \A n \in 1..top : W[n] = TakeOut(W[n - 1], all[top + 1 - n])
  <2>1. 0 \in 0..top BY <1>1
  <2>2. \A n \in 1..top : n \in 0..top /\ n # 0 BY <1>1
  <2>3. \A n \in 0..top : W[n] = IF n = 0 THEN start ELSE TakeOut(W[n - 1], all[top + 1 - n])
    BY <1>9
  <2> HIDE DEF body, top
  <2> QED BY <2>1, <2>2, <2>3
<1>11. W = [n \in 0..top |-> W[n]] BY <1>9
<1> HIDE DEF body
<1>12. \A n \in 0..top : W[n] \in WalkState
  <2> DEFINE A == {n \in 0..top : W[n] \in WalkState}
  <2>1. 0 \in A BY <1>1, <1>2, <1>10
  <2>2. ASSUME NEW n \in 0..top - 1, n \in A PROVE n + 1 \in A
    <3>1. n + 1 \in 1..top /\ n + 1 \in 0..top /\ (n + 1) - 1 = n BY <1>1
    <3>2. W[n + 1] = TakeOut(W[n], all[top + 1 - (n + 1)]) BY <1>10, <3>1
    <3>3. W[n] \in WalkState BY <2>2
    <3> QED BY <1>3, <3>1, <3>2, <3>3
  <2> HIDE DEF A
  <2>3. \A n \in 0..top - 1 : n \in A => n + 1 \in A BY <2>2
  <2>4. \A n \in 0..top : n \in A BY <1>1, <2>1, <2>3, Climb
  <2> QED BY <2>4 DEF A
<1>13. W \in [0..top -> WalkState]
  <2> HIDE DEF top
  <2> QED BY <1>11, <1>12
<1> QED BY <1>10, <1>13 DEF W, start

\* What the walk has after every number of entries.
LEMMA WalkInv ==
  ASSUME NEW all \in Seq(Turn), NEW current \in Seq(Text)
  PROVE  \A i \in 0..Len(all) : WalkedBack(all, current, i, WalkBack(all, current)[i])
<1> DEFINE W == WalkBack(all, current)
           top == Len(all)
           A == {i \in 0..top : WalkedBack(all, current, i, W[i])}
<1>1. /\ W \in [0..top -> WalkState] /\ W[0] = [left |-> <<>>, pending |-> current]
      /\ \A i \in 1..top : W[i] = TakeOut(W[i - 1], all[top + 1 - i])
  BY WalkBackIs
<1> HIDE DEF W
<1>2. top \in Nat /\ Len(current) \in Nat OBVIOUS
<1>3. 0 \in A
  <2>1. W[0] \in WalkState /\ W[0].left = <<>> /\ W[0].pending = current BY <1>1
  <2>2. LeftOf(all, current, 0, <<>>, <<>>) BY <1>2 DEF LeftOf
  <2>3. top + 1 - 0 .. top = {} BY <1>2
  <2>4. WalkedBack(all, current, 0, W[0]) BY <1>2, <2>1, <2>2, <2>3 DEF WalkedBack
  <2> QED BY <1>2, <2>4
<1>4. ASSUME NEW i \in 0..top - 1, i \in A PROVE i + 1 \in A
  <2> DEFINE b == W[i]
             at == top + 1 - (i + 1)
             e == all[at]
             new == W[i + 1]
  <2>1. i + 1 \in 1..top /\ i + 1 \in 0..top /\ i \in 0..top /\ (i + 1) - 1 = i /\ at \in 1..top /\ at = top - i BY <1>2
  <2>2. b \in WalkState /\ e \in Turn /\ new = TakeOut(b, e) BY <1>1, <2>1
  <2>3. WalkedBack(all, current, i, b) BY <1>4
  <2>4. b.left \in Seq(Turn) /\ b.pending \in Seq(Text) /\ Len(b.left) \in Nat /\ Len(b.pending) \in Nat
        /\ (b.pending # <<>> <=> Len(b.pending) > 0)
    BY <2>2 DEF WalkState
  <2>5. PICK place : LeftOf(all, current, i, b.left, place) BY <2>3 DEF WalkedBack
  <2> DEFINE last == top + 1 - i .. top
             last2 == top + 1 - (i + 1) .. top
  <2>6. last2 = last \union {at} /\ at \notin last /\ \A k \in last : k > at BY <1>2, <2>1
  <2>7. /\ place \in [1..Len(b.left) -> last]
        /\ \A j, m \in 1..Len(b.left) : j < m => place[j] > place[m]
        /\ \A m \in 1..Len(b.left) : b.left[m] = all[place[m]]
        /\ \A k \in last : Stays(current, all[k]) => \E m \in 1..Len(b.left) : place[m] = k
    BY <2>5 DEF LeftOf
  <2>8. new \in WalkState BY <2>2, TakeOutIs
  <2>11. /\ Len(b.pending) <= Len(current) /\ \A j \in 1..Len(b.pending) : b.pending[j] = current[j]
         /\ Len(b.left) + (Len(current) - Len(b.pending)) = i
         /\ Len(b.pending) = Len(current) => \A k \in last : ~Told(current, all[k])
    BY <2>3 DEF WalkedBack
  <2>9. CASE /\ b.pending # <<>> /\ ~e.fromMe /\ e.text = b.pending[Len(b.pending)]
             /\ new.left = b.left
             /\ Len(new.pending) = Len(b.pending) - 1
             /\ \A j \in 1..Len(b.pending) - 1 : new.pending[j] = b.pending[j]
    <3>4. ~Stays(current, e)
      <4>1. Len(b.pending) \in 1..Len(b.pending) /\ Len(b.pending) \in 1..Len(current) BY <1>2, <2>4, <2>9, <2>11
      <4>2. e.text = current[Len(b.pending)] BY <2>9, <2>11, <4>1
      <4> HIDE DEF e, b
      <4> QED BY <2>9, <4>1, <4>2 DEF Stays
    <3>1. LeftOf(all, current, i + 1, new.left, place)
      <4>1. place \in [1..Len(b.left) -> last2]
        <5>1. \A m \in 1..Len(b.left) : place[m] \in last2 BY <2>6, <2>7
        <5> HIDE DEF last, last2
        <5> QED BY <2>7, <5>1
      <4>2. ASSUME NEW k \in last2, Stays(current, all[k]) PROVE \E m \in 1..Len(b.left) : place[m] = k
        <5>1. k # at BY <3>4, <4>2
        <5>2. k \in last
          <6> HIDE DEF last, last2, at
          <6> QED BY <2>6, <5>1
        <5> QED BY <2>7, <4>2, <5>2
      <4> HIDE DEF b, new, last
      <4> QED BY <2>7, <2>9, <4>1, <4>2 DEF LeftOf
    <3>2. /\ Len(new.pending) <= Len(current) /\ Len(new.pending) # Len(current)
          /\ Len(new.left) + (Len(current) - Len(new.pending)) = i + 1
      <4> DEFINE l == Len(b.left)
                 p == Len(b.pending)
                 q == Len(new.pending)
      <4>1. l \in Nat /\ p \in Nat /\ p <= Len(current) /\ l + (Len(current) - p) = i /\ q = p - 1 BY <2>4, <2>9, <2>11
      <4>2. Len(new.left) = l BY <2>9
      <4> HIDE DEF l, p, q
      <4>3. q <= Len(current) /\ q # Len(current) /\ l + (Len(current) - q) = i + 1 BY <1>2, <4>1
      <4> QED BY <4>2, <4>3 DEF q
    <3>3. \A j \in 1..Len(new.pending) : new.pending[j] = current[j]
      <4>1. \A j \in 1..Len(new.pending) : j \in 1..Len(b.pending) - 1 /\ j \in 1..Len(b.pending) BY <2>4, <2>9
      <4> HIDE DEF new, b
      <4> QED BY <2>9, <2>11, <4>1
    <3> HIDE DEF new
    <3>5. WalkedBack(all, current, i + 1, new) BY <2>8, <3>1, <3>2, <3>3 DEF WalkedBack
    <3> QED BY <2>1, <3>5 DEF new
  <2>10. CASE /\ ~(b.pending # <<>> /\ ~e.fromMe /\ e.text = b.pending[Len(b.pending)])
              /\ new.left = Append(b.left, e) /\ new.pending = b.pending
    <3> DEFINE n == Len(b.left)
               place2 == [m \in 1..n + 1 |-> IF m = n + 1 THEN at ELSE place[m]]
    <3>1. n \in Nat /\ \A m \in 1..n + 1 : m = n + 1 \/ m \in 1..n BY <2>4
    <3>2. n + 1 \in 1..n + 1 /\ \A m \in 1..n : m # n + 1 /\ m \in 1..n + 1 BY <3>1
    <3>3. place2[n + 1] = at /\ \A m \in 1..n : place2[m] = place[m] BY <3>2
    <3>4. DOMAIN place2 = 1..n + 1 /\ place2 = [m \in 1..n + 1 |-> place2[m]] OBVIOUS
    <3>5. Len(new.left) = n + 1 /\ new.left[n + 1] = e /\ \A m \in 1..n : new.left[m] = b.left[m]
      <4> HIDE DEF b, e, new
      <4>1. e \in Turn /\ b.left \in Seq(Turn) BY <2>2, <2>4
      <4> QED BY <2>10, <4>1
    <3> HIDE DEF place2
    <3>6. LeftOf(all, current, i + 1, new.left, place2)
      <4>1. \A m \in 1..n : place[m] \in last BY <2>7
      <4>2. place2 \in [1..n + 1 -> last2]
        <5>1. \A m \in 1..n + 1 : place2[m] \in last2
          <6> HIDE DEF last, last2, n, at
          <6> QED BY <2>6, <3>1, <3>3, <4>1
        <5> HIDE DEF last2, n
        <5> QED BY <3>4, <5>1
      <4>3. ASSUME NEW j \in 1..n + 1, NEW m \in 1..n + 1, j < m PROVE place2[j] > place2[m]
        <5>1. j \in 1..n BY <3>1, <4>3
        <5>2. CASE m = n + 1
          <6>1. place2[j] = place[j] /\ place2[m] = at /\ place[j] \in last BY <3>3, <4>1, <5>1, <5>2
          <6> HIDE DEF last, at
          <6> QED BY <2>6, <6>1
        <5>3. CASE m \in 1..n
          <6> HIDE DEF n
          <6> QED BY <2>7, <3>3, <4>3, <5>1, <5>3 DEF n
        <5> QED BY <3>1, <5>2, <5>3
      <4>4. ASSUME NEW m \in 1..n + 1 PROVE new.left[m] = all[place2[m]]
        <5>1. CASE m = n + 1 BY <3>3, <3>5, <5>1
        <5>2. CASE m \in 1..n
          <6>1. new.left[m] = b.left[m] /\ place2[m] = place[m] /\ b.left[m] = all[place[m]] BY <2>7, <3>3, <3>5, <5>2
          <6> QED BY <6>1
        <5> QED BY <3>1, <5>1, <5>2
      <4>5. ASSUME NEW k \in last2, Stays(current, all[k]) PROVE \E m \in 1..n + 1 : place2[m] = k
        <5>1. CASE k = at BY <3>2, <3>3, <5>1
        <5>2. CASE k \in last
          <6>1. PICK m \in 1..n : place[m] = k BY <2>7, <4>5, <5>2
          <6> QED BY <3>2, <3>3, <6>1
        <5> HIDE DEF last, last2, at
        <5> QED BY <2>6, <5>1, <5>2
      <4> HIDE DEF new, n
      <4> QED BY <3>5, <4>2, <4>3, <4>4, <4>5 DEF LeftOf
    <3>7. Len(new.left) + (Len(current) - Len(new.pending)) = i + 1
      <4> DEFINE p == Len(b.pending)
      <4>1. n \in Nat /\ p \in Nat /\ p <= Len(current) /\ n + (Len(current) - p) = i BY <2>4, <2>11
      <4>2. Len(new.left) = n + 1 /\ Len(new.pending) = p BY <2>10, <3>5
      <4> HIDE DEF n, p
      <4>3. (n + 1) + (Len(current) - p) = i + 1 BY <1>2, <4>1
      <4> QED BY <4>2, <4>3
    <3>8. Len(new.pending) <= Len(current) /\ \A j \in 1..Len(new.pending) : new.pending[j] = current[j]
      BY <2>10, <2>11
    <3>9. \E p : LeftOf(all, current, i + 1, new.left, p) BY <3>6
    <3>11. ASSUME Len(new.pending) = Len(current) PROVE \A k \in last2 : ~Told(current, all[k])
      <4>1. Len(b.pending) = Len(current) BY <2>10, <3>11
      <4>2. ASSUME current # <<>> PROVE b.pending # <<>> /\ b.pending[Len(b.pending)] = current[Len(current)]
        <5>1. Len(current) \in 1..Len(current) BY <1>2, <4>2
        <5> QED BY <2>4, <2>11, <4>1, <5>1
      <4>3. ~Told(current, e)
        <5> HIDE DEF b, e
        <5> QED BY <2>10, <4>2 DEF Told, Last
      <4>4. \A k \in last : ~Told(current, all[k]) BY <2>11, <4>1
      <4> HIDE DEF last, last2, at
      <4> QED BY <2>6, <4>3, <4>4 DEF e
    <3>10. WalkedBack(all, current, i + 1, new)
      <4> HIDE DEF new
      <4> QED BY <2>8, <3>7, <3>8, <3>9, <3>11 DEF WalkedBack
    <3> QED BY <2>1, <3>10
  <2>12. \/ /\ b.pending # <<>> /\ ~e.fromMe /\ e.text = b.pending[Len(b.pending)]
            /\ new.left = b.left
            /\ Len(new.pending) = Len(b.pending) - 1
            /\ \A j \in 1..Len(b.pending) - 1 : new.pending[j] = b.pending[j]
         \/ /\ ~(b.pending # <<>> /\ ~e.fromMe /\ e.text = b.pending[Len(b.pending)])
            /\ new.left = Append(b.left, e) /\ new.pending = b.pending
    <3> HIDE DEF b, e, new
    <3> QED BY <2>2, TakeOutIs, Zenon
  <2> QED BY <2>9, <2>10, <2>12
<1> HIDE DEF A
<1>5. \A i \in 0..top - 1 : i \in A => i + 1 \in A BY <1>4
<1>6. \A i \in 0..top : i \in A BY <1>2, <1>3, <1>5, Climb
<1> QED BY <1>6 DEF A, W, top

\* What is left of a chat of which some texts are asked now.
TurnsKept(all, asked) ==
  LET left == BuildHistory(all, asked)
  IN /\ Len(left) >= Len(all) - Len(asked)
     /\ (\E k \in DOMAIN all : Told(asked, all[k])) => Len(left) < Len(all)
     /\ \E place \in [DOMAIN left -> DOMAIN all] :
          /\ \A i, j \in DOMAIN left : i < j => place[i] < place[j]
          /\ \A i \in DOMAIN left : left[i] = all[place[i]]
          /\ \A k \in DOMAIN all : Stays(asked, all[k]) => \E i \in DOMAIN left : place[i] = k

LEMMA LeftIs ==
  ASSUME NEW all \in Seq(Turn), NEW current \in Seq(Text)
  PROVE  TurnsKept(all, current)
<1> DEFINE n == Len(current)
           left == BuildHistory(all, current)
           top == Len(all)
           W == WalkBack(all, current)
           b == W[top]
           size == Len(b.left)
<1>1. n \in Nat OBVIOUS
<1>4. left = Reverse(b.left) BY DEF BuildHistory
<1> HIDE DEF W
<1>5. top \in Nat /\ top \in 0..top /\ DOMAIN all = 1..top OBVIOUS
<1>6. WalkedBack(all, current, top, b) BY <1>5, WalkInv DEF W
<1>7. /\ b \in WalkState /\ b.left \in Seq(Turn) /\ size \in Nat /\ Len(b.pending) \in Nat
      /\ Len(b.pending) <= n /\ size + (n - Len(b.pending)) = top
  BY <1>6 DEF WalkedBack, WalkState
<1>8. (\E k \in 1..top : Told(current, all[k])) => Len(b.pending) # n
  <2>1. top + 1 - top .. top = 1..top BY <1>5
  <2>2. Len(b.pending) = n => \A k \in 1..top : ~Told(current, all[k]) BY <1>6, <2>1 DEF WalkedBack
  <2> QED BY <2>2
<1>10. /\ Len(left) = size /\ DOMAIN left = 1..size
       /\ \A i \in 1..size : size + 1 - i \in 1..size /\ left[i] = b.left[size + 1 - i]
  <2>1. left = [i \in 1..size |-> b.left[(size - i) + 1]] BY <1>4, <1>7 DEF Reverse
  <2>2. \A i \in 1..size : size + 1 - i \in 1..size /\ (size - i) + 1 = size + 1 - i BY <1>7
  <2> DEFINE s == b.left
  <2> HIDE DEF left, s, size
  <2>3. left = [i \in 1..size |-> s[(size - i) + 1]] BY <2>1 DEF s
  <2>4. \A i \in 1..size : left[i] = s[size + 1 - i] BY <2>2, <2>3
  <2>5. left \in [1..size -> Turn]
    <3>1. \A i \in 1..size : s[i] \in Turn BY <1>7 DEF s, size
    <3>2. \A i \in 1..size : s[(size - i) + 1] \in Turn BY <2>2, <3>1
    <3> QED BY <2>3, <3>2
  <2>6. left \in Seq(Turn) /\ Len(left) = size BY <1>7, <2>5
  <2> QED BY <2>2, <2>4, <2>5, <2>6 DEF s
<1> HIDE DEF left
<1>11. Len(left) >= Len(all) - n /\ ((\E k \in DOMAIN all : Told(current, all[k])) => Len(left) < Len(all))
  <2> DEFINE p == Len(b.pending)
             some == \E k \in 1..top : Told(current, all[k])
  <2>1. p \in Nat /\ p <= n /\ size + (n - p) = top /\ (some => p # n) BY <1>7, <1>8
  <2>2. size \in Nat /\ Len(left) = size /\ DOMAIN all = 1..top /\ Len(all) = top BY <1>5, <1>7, <1>10
  <2> HIDE DEF n, size, p, top, some
  <2>3. size >= top - n /\ (some => size < top) BY <1>1, <1>5, <2>1, <2>2
  <2> QED BY <2>2, <2>3 DEF some
<1>12. PICK back : LeftOf(all, current, top, b.left, back) BY <1>6 DEF WalkedBack
<1>13. top + 1 - top .. top = 1..top BY <1>5
<1>14. /\ back \in [1..size -> 1..top]
       /\ \A j, m \in 1..size : j < m => back[j] > back[m]
       /\ \A m \in 1..size : b.left[m] = all[back[m]]
       /\ \A k \in 1..top : Stays(current, all[k]) => \E m \in 1..size : back[m] = k
  BY <1>12, <1>13 DEF LeftOf
<1> DEFINE place == [i \in 1..size |-> back[size + 1 - i]]
<1>15. \A i \in 1..size : place[i] = back[size + 1 - i] OBVIOUS
<1>16. place \in [1..size -> 1..top]
  <2>1. \A i \in 1..size : back[size + 1 - i] \in 1..top BY <1>10, <1>14
  <2> HIDE DEF size, top
  <2> QED BY <2>1
<1> HIDE DEF place
<1>17. ASSUME NEW i \in 1..size, NEW j \in 1..size, i < j PROVE place[i] < place[j]
  <2>1. size + 1 - j \in 1..size /\ size + 1 - i \in 1..size /\ size + 1 - j < size + 1 - i BY <1>7, <1>17
  <2>2. back[size + 1 - j] > back[size + 1 - i] BY <1>14, <2>1
  <2>3. back[size + 1 - j] \in Nat /\ back[size + 1 - i] \in Nat
    <3>1. \A m \in 1..size : back[m] \in 1..top BY <1>14
    <3> HIDE DEF size, top
    <3> QED BY <2>1, <3>1
  <2> HIDE DEF size
  <2> QED BY <1>15, <2>2, <2>3
<1>18. ASSUME NEW i \in 1..size PROVE left[i] = all[place[i]]
  <2>1. size + 1 - i \in 1..size /\ left[i] = b.left[size + 1 - i] BY <1>10
  <2>2. b.left[size + 1 - i] = all[back[size + 1 - i]] BY <1>14, <2>1
  <2> QED BY <1>15, <2>1, <2>2
<1>19. ASSUME NEW k \in 1..top, Stays(current, all[k]) PROVE \E i \in 1..size : place[i] = k
  <2>1. PICK m \in 1..size : back[m] = k BY <1>14, <1>19
  <2>2. size + 1 - m \in 1..size /\ size + 1 - (size + 1 - m) = m BY <1>7
  <2> QED BY <1>15, <2>1, <2>2
<1>20. \E p \in [DOMAIN left -> DOMAIN all] :
         /\ \A i, j \in DOMAIN left : i < j => p[i] < p[j]
         /\ \A i \in DOMAIN left : left[i] = all[p[i]]
         /\ \A k \in DOMAIN all : Stays(current, all[k]) => \E i \in DOMAIN left : p[i] = k
  <2>1. DOMAIN left = 1..size /\ DOMAIN all = 1..top BY <1>5, <1>10
  <2> HIDE DEF size, top
  <2>2. place \in [DOMAIN left -> DOMAIN all] BY <1>16, <2>1
  <2> WITNESS place \in [DOMAIN left -> DOMAIN all]
  <2> QED BY <1>17, <1>18, <1>19, <2>1
<1> QED BY <1>11, <1>20 DEF left, n, TurnsKept

-----------------------------------------------------------------------------
(* The rules.                                                              *)

\* The inputs of every rule.
Sensitivity == {"conservative", "balanced", "aggressive"}
Code == [start : {0, Far}, shape : {0, 1}]
RulesInv ==
  /\ question.rule = "history" => question.entries \in Seq(Entry) /\ question.limits \in Limits
  /\ question.rule = "batch" => question.all \in Seq(Turn) /\ question.current \in Seq(Text)
  /\ question.rule = "window" =>
       question.start \in 0..Minutes - 1 /\ question.end \in 0..Minutes - 1 /\ question.time \in 0..Minutes - 1
  /\ question.rule = "filter" =>
       question \in [rule : {"filter"}, phrases : SUBSET Distance, codes : SUBSET Code, excluded : BOOLEAN,
                     sensitivity : Sensitivity]

LEMMA RulesBounds ==
  MaxEntries \in Nat /\ MaxCost \in Nat /\ Minutes \in Nat /\ Near \in Nat /\ Far \in Nat
BY RulesAssumption

\* What one code adds to the score is little, and so is the most one of them adds.
LEMMA BonusIs ==
  ASSUME NEW phrases \in SUBSET Distance, phrases # {}, NEW c \in Code
  PROVE  Bonus(c, phrases) \in 0..4 /\ (Bonus(c, phrases) # 0 => \E p \in phrases : Beside(c, p))
<1>1. c.shape \in {0, 1} /\ c.start \in Nat BY RulesBounds DEF Code
<1> DEFINE far == {IF c.start > p THEN c.start - p ELSE p - c.start : p \in phrases}
<1>6. Min(far) <= Far => \E p \in phrases : Beside(c, p)
  <2>1. \A p \in phrases : p \in Nat BY RulesBounds DEF Distance
  <2>2. far \in SUBSET Nat /\ far # {} BY <1>1, <2>1
  <2>3. PICK x \in far : \A y \in far : x <= y BY <2>2, NatLeast
  <2>4. Min(far) \in far
    <3> HIDE DEF far
    <3> QED BY <2>3 DEF Min
  <2> DEFINE m == Min(far)
  <2>5. PICK p \in phrases : m = IF c.start > p THEN c.start - p ELSE p - c.start BY <2>4
  <2> HIDE DEF m
  <2>6. m <= Far => c.start - p \in -Far..Far BY <1>1, <2>1, <2>5, RulesBounds
  <2> QED BY <2>6 DEF m, Beside
<1> DEFINE d == Min({IF c.start > p THEN c.start - p ELSE p - c.start : p \in phrases})
<1>2. Bonus(c, phrases) = IF d > Far THEN 0 ELSE 2 + (IF d <= Near THEN 1 ELSE 0) + c.shape BY DEF Bonus
<1>8. d \in Nat
  <2>1. \A p \in phrases : p \in Nat BY RulesBounds DEF Distance
  <2>2. far \in SUBSET Nat /\ far # {} BY <1>1, <2>1
  <2>3. PICK x \in far : \A y \in far : x <= y BY <2>2, NatLeast
  <2> HIDE DEF far
  <2>4. Min(far) \in Nat BY <2>2, <2>3 DEF Min
  <2> QED BY <2>4 DEF far
<1>7. ~(d > Far) => \E p \in phrases : Beside(c, p)
  <2>1. d = Min(far) OBVIOUS
  <2> HIDE DEF d, far
  <2>2. ~(d > Far) => d <= Far BY <1>8, RulesBounds
  <2> QED BY <1>6, <2>1, <2>2
<1> DEFINE bonus == Bonus(c, phrases)
<1> HIDE DEF d, far, bonus
<1>9. /\ bonus \in 0..4 /\ (d > Far => bonus = 0)
  <2>1. bonus = IF d > Far THEN 0 ELSE 2 + (IF d <= Near THEN 1 ELSE 0) + c.shape BY <1>2 DEF bonus
  <2>2. CASE d > Far BY <2>1, <2>2
  <2>3. CASE ~(d > Far) /\ d <= Near BY <1>1, <2>1, <2>3
  <2>4. CASE ~(d > Far) /\ ~(d <= Near) BY <1>1, <2>1, <2>4
  <2> QED BY <2>2, <2>3, <2>4
<1> QED BY <1>7, <1>9 DEF bonus

LEMMA MostOf ==
  ASSUME NEW S \in SUBSET (0..4), S # {}
  PROVE  Max(S) \in S
<1>1. \A x \in S : x \in Nat /\ x <= 4 OBVIOUS
<1> DEFINE T == {4 - x : x \in S}
<1>2. T \in SUBSET Nat /\ T # {}
  <2>1. \A x \in S : 4 - x \in Nat BY <1>1
  <2>2. PICK x \in S : TRUE OBVIOUS
  <2>3. 4 - x \in T BY <2>2
  <2> QED BY <2>1, <2>3
<1>3. PICK t \in T : \A y \in T : t <= y BY <1>2, NatLeast
<1>4. PICK x \in S : t = 4 - x BY <1>3
<1>5. ASSUME NEW y \in S PROVE x >= y
  <2>1. 4 - y \in T OBVIOUS
  <2>2. t <= 4 - y BY <1>3, <2>1
  <2> QED BY <1>1, <1>4, <2>2
<1> QED BY <1>5 DEF Max

\* The score has three parts: the phrases, the best code, and what the exclusion takes.
LEMMA ScoreIs ==
  ASSUME NEW phrases \in SUBSET Distance, phrases # {},
         NEW codes \in SUBSET Code
  PROVE  \E few \in 0..1, best \in 0..4 :
           /\ \A excluded \in BOOLEAN :
                SmartScore(phrases, codes, excluded) = 3 + few + best - (IF excluded THEN 4 ELSE 0)
           /\ best # 0 => \E c \in codes, p \in phrases : Beside(c, p)
<1> DEFINE n == Cardinality(phrases)
           few == Min({n - 1, 1})
           bonuses == {0} \union {Bonus(c, phrases) : c \in codes}
           best == Max(bonuses)
<1>1. n \in Nat /\ n # 0
  <2>1. IsFiniteSet(Distance)
    <3> DEFINE A == {0}
               B == A \union {Near}
               C == B \union {Near + 1}
               D == C \union {Far + 1}
    <3>1. IsFiniteSet(A) BY FS_Singleton
    <3>2. IsFiniteSet(B) BY <3>1, FS_AddElement
    <3>3. IsFiniteSet(C) BY <3>2, FS_AddElement
    <3>4. IsFiniteSet(D) BY <3>3, FS_AddElement
    <3>5. Distance = D BY DEF Distance
    <3> HIDE DEF D
    <3> QED BY <3>4, <3>5
  <2>2. IsFiniteSet(phrases) BY <2>1, FS_Subset
  <2> QED BY <2>2, FS_CardinalityType, FS_EmptySet
<1> HIDE DEF n
<1>2. few \in 0..1
  <2> DEFINE S == {n - 1, 1}
  <2>1. S \in SUBSET Nat /\ S # {} BY <1>1
  <2>2. PICK x \in S : \A y \in S : x <= y BY <2>1, NatLeast
  <2>3. Min(S) \in S /\ \A y \in S : Min(S) <= y BY <2>2 DEF Min
  <2> DEFINE m == Min(S)
  <2>4. (m = n - 1 \/ m = 1) /\ m <= n - 1 /\ m <= 1 BY <2>3
  <2> HIDE DEF m
  <2>5. m \in 0..1 BY <1>1, <2>4
  <2> QED BY <2>5 DEF m
<1>3. best \in 0..4 /\ (best # 0 => \E c \in codes, p \in phrases : Beside(c, p))
  <2>1. \A c \in codes : Bonus(c, phrases) \in 0..4 /\ (Bonus(c, phrases) # 0 => \E p \in phrases : Beside(c, p))
    BY BonusIs
  <2>2. bonuses \in SUBSET (0..4) /\ bonuses # {} BY <2>1
  <2>3. Max(bonuses) \in bonuses
    <3> HIDE DEF bonuses
    <3> QED BY <2>2, MostOf
  <2> DEFINE m == Max(bonuses)
  <2>4. m = 0 \/ \E c \in codes : m = Bonus(c, phrases) BY <2>3
  <2> HIDE DEF m
  <2>5. m # 0 => \E c \in codes, p \in phrases : Beside(c, p) BY <2>1, <2>4
  <2> QED BY <2>2, <2>3, <2>5 DEF m
<1>4. \A excluded \in BOOLEAN :
        SmartScore(phrases, codes, excluded) = 3 + few + best - (IF excluded THEN 4 ELSE 0)
  BY DEF SmartScore, n
<1> HIDE DEF few, best
<1> QED BY <1>2, <1>3, <1>4 DEF n

\* For every day and every start and end: a window and its complement share the day; for
\* every place of phrases and codes: the filter asks for a phrase, and unless it is
\* aggressive for a code near it, and an exclude phrase never helps.
LEMMA RulesMean ==
  ASSUME RulesInv
  PROVE  WindowsPartitionTheDay /\ FilterNeedsACode
<1>1. ASSUME question.rule = "window", question.start # question.end
      PROVE  IsWithinWindow(question.time, question.start, question.end)
               # IsWithinWindow(question.time, question.end, question.start)
  <2> DEFINE s == question.start
             e == question.end
             t == question.time
  <2>1. s \in 0..Minutes - 1 /\ e \in 0..Minutes - 1 /\ t \in 0..Minutes - 1 /\ s # e
    BY <1>1 DEF RulesInv
  <2> HIDE DEF s, e, t
  <2>2. s \in Int /\ e \in Int /\ t \in Int BY <2>1, RulesBounds
  <2>3. IsWithinWindow(t, s, e) <=> ~IsWithinWindow(t, e, s) BY <2>1, <2>2 DEF IsWithinWindow
  <2>4. IsWithinWindow(t, s, e) \in BOOLEAN /\ IsWithinWindow(t, e, s) \in BOOLEAN
    BY Zenon DEF IsWithinWindow
  <2> DEFINE a == IsWithinWindow(t, s, e)
             b == IsWithinWindow(t, e, s)
  <2>5. (a <=> ~b) BY <2>3
  <2> HIDE DEF a, b
  <2>6. a # b BY <2>5, Zenon
  <2> QED BY <2>6 DEF a, b, s, e, t
<1>2. WindowsPartitionTheDay BY <1>1 DEF WindowsPartitionTheDay
<1>3. ASSUME question.rule = "filter", Suppressed(question)
      PROVE  /\ question.phrases # {}
             /\ question.sensitivity # "aggressive" => \E c \in question.codes, p \in question.phrases : Beside(c, p)
             /\ Suppressed([question EXCEPT !.excluded = FALSE])
  <2> DEFINE ps == question.phrases
             cs == question.codes
             x == question.excluded
             v == question.sensitivity
             free == [question EXCEPT !.excluded = FALSE]
             th == Threshold(v)
  <2>1. /\ ps \in SUBSET Distance /\ cs \in SUBSET Code /\ x \in BOOLEAN /\ v \in Sensitivity
        /\ free.phrases = ps /\ free.codes = cs /\ free.excluded = FALSE /\ free.sensitivity = v
    BY <1>3 DEF RulesInv
  <2> HIDE DEF free
  <2>2. SmartScore(ps, cs, x) >= th BY <1>3 DEF Suppressed
  <2>3. th \in {4, 5, 6} /\ (v # "aggressive" => th \in {5, 6}) BY <2>1 DEF Threshold, Sensitivity
  <2>4. ps # {}
    <3> DEFINE score == SmartScore(ps, cs, x)
    <3>1. ps = {} => score = 0 BY DEF SmartScore
    <3> HIDE DEF score, th
    <3> QED BY <2>2, <2>3, <3>1 DEF score
  <2> DEFINE near == \E c \in cs, p \in ps : Beside(c, p)
  <2>5. PICK few \in 0..1, best \in 0..4 :
           /\ \A excluded \in BOOLEAN : SmartScore(ps, cs, excluded) = 3 + few + best - (IF excluded THEN 4 ELSE 0)
           /\ best # 0 => near
    BY <2>1, <2>4, ScoreIs
  <2> DEFINE score == SmartScore(ps, cs, x)
             freely == SmartScore(ps, cs, FALSE)
  <2>6. score = 3 + few + best - (IF x THEN 4 ELSE 0) /\ freely = 3 + few + best
    <3> HIDE DEF ps, cs, x, v, near
    <3>1. score = 3 + few + best - (IF x THEN 4 ELSE 0) BY <2>1, <2>5
    <3>2. freely = 3 + few + best - (IF FALSE THEN 4 ELSE 0) BY <2>5
    <3> HIDE DEF score, freely
    <3> QED BY <3>1, <3>2
  <2> HIDE DEF score, freely, th, near
  <2>7. score >= th /\ score <= 3 + few + best
    <3>1. CASE x BY <2>2, <2>6, <3>1 DEF score
    <3>2. CASE ~x BY <2>2, <2>6, <3>2 DEF score
    <3> QED BY <3>1, <3>2
  <2>8. v # "aggressive" => near
    <3> SUFFICES ASSUME v # "aggressive" PROVE best # 0 BY <2>5
    <3>1. th >= 5 BY <2>3
    <3>2. score \in Int BY <2>1, <2>6
    <3> HIDE DEF v
    <3> QED BY <2>3, <2>7, <3>1, <3>2
  <2>9. freely >= th
    <3>1. score \in Int BY <2>1, <2>6
    <3> QED BY <2>3, <2>6, <2>7, <3>1
  <2>10. Suppressed(free) BY <2>1, <2>9 DEF Suppressed, freely, th
  <2> QED BY <2>4, <2>8, <2>10 DEF near, free
<1>4. FilterNeedsACode BY <1>3 DEF FilterNeedsACode
<1> QED BY <1>2, <1>4

\* For every chat and all limits: the history is as many of the newest messages as fit.
LEMMA HistoryMeans ==
  ASSUME RulesInv
  PROVE  HistoryIsNewestThatFit
<1> SUFFICES ASSUME question.rule = "history" PROVE HistoryIsNewestThatFit BY DEF HistoryIsNewestThatFit
<1>1. question.entries \in Seq(Entry) /\ question.limits \in Limits BY DEF RulesInv
<1> DEFINE entries == question.entries
           limits == question.limits
           fresh == Newer(entries, limits.cutoff)
           out == SelectHistory(entries, limits)
           n == Len(out)
<1>2. /\ {fresh[k] : k \in DOMAIN fresh} = {entries[i] : i \in Fresh(entries, limits.cutoff)}
      /\ \A j, k \in DOMAIN fresh : j < k => fresh[j].at >= fresh[k].at
      /\ n <= Len(fresh) /\ Fits(fresh, limits, n) /\ (n < Len(fresh) => ~Fits(fresh, limits, n + 1))
      /\ \A i \in 1..n : out[i] = IF n = 1 THEN Cut(fresh[1], limits) ELSE fresh[n + 1 - i]
  <2> HIDE DEF entries, limits
  <2> QED BY <1>1, HistoryIs, Zenon DEF entries, limits
<1> QED BY <1>2, Zenon DEF HistoryIsNewestThatFit, Fits, Cut

\* For every chat and batch: only texts that are asked are taken out, in their number.
LEMMA TurnsMean ==
  ASSUME RulesInv
  PROVE  HistoryKeepsTurns
<1> SUFFICES ASSUME question.rule = "batch" PROVE HistoryKeepsTurns BY DEF HistoryKeepsTurns
<1>1. question.all \in Seq(Turn) /\ question.current \in Seq(Text) BY DEF RulesInv
<1> DEFINE all == question.all
           current == question.current
<1>2. TurnsKept(all, current)
  <2>1. all \in Seq(Turn) /\ current \in Seq(Text) BY <1>1
  <2> HIDE DEF all, current
  <2> QED BY <2>1, LeftIs
<1> QED BY <1>2 DEF HistoryKeepsTurns, TurnsKept, Stays, Told

LEMMA SeqsAre ==
  ASSUME NEW S, NEW n \in Nat, NEW s \in SeqsUpTo(S, n)
  PROVE  s \in Seq(S)
<1>1. PICK k \in 0..n : s \in [1..k -> S] BY DEF SeqsUpTo
<1> QED BY <1>1

LEMMA RulesStep ==
  ASSUME RulesInv, [RulesNext]_rulesVars
  PROVE  RulesInv'
<1>1. CASE UNCHANGED rulesVars BY <1>1 DEF rulesVars, RulesInv
<1>2. CASE AskHistory
  <2>1. PICK e \in SeqsUpTo(Entry, MaxEntries), l \in Limits :
          question' = [rule |-> "history", entries |-> e, limits |-> l]
    BY <1>2 DEF AskHistory
  <2>2. question'.rule = "history" /\ question'.entries = e /\ question'.limits = l BY <2>1
  <2>3. e \in Seq(Entry) BY SeqsAre, RulesBounds
  <2> QED BY <2>2, <2>3 DEF RulesInv
<1>3. CASE AskBatch
  <2>1. PICK all \in SeqsUpTo(Turn, MaxEntries), now \in SeqsUpTo(Text, MaxEntries) :
          question' = [rule |-> "batch", all |-> all, current |-> now]
    BY <1>3 DEF AskBatch, Turn
  <2>2. question'.rule = "batch" /\ question'.all = all /\ question'.current = now BY <2>1
  <2>3. all \in Seq(Turn) /\ now \in Seq(Text) BY SeqsAre, RulesBounds
  <2> QED BY <2>2, <2>3 DEF RulesInv
<1>4. CASE AskWindow
  <2>1. PICK s, e, t \in 0..Minutes - 1 : question' = [rule |-> "window", start |-> s, end |-> e, time |-> t]
    BY <1>4 DEF AskWindow
  <2>2. /\ question'.rule = "window" /\ question'.start = s /\ question'.end = e /\ question'.time = t BY <2>1
  <2> QED BY <2>2 DEF RulesInv
<1>5. CASE AskFilter
  <2>1. PICK p \in SUBSET Distance, c \in SUBSET [start : {0, Far}, shape : {0, 1}], x \in BOOLEAN,
             s \in {"conservative", "balanced", "aggressive"} :
          question' = [rule |-> "filter", phrases |-> p, codes |-> c, excluded |-> x, sensitivity |-> s]
    BY <1>5 DEF AskFilter
  <2>2. /\ question'.rule = "filter" /\ question'.phrases = p /\ question'.codes = c
        /\ question'.excluded = x /\ question'.sensitivity = s
    BY <2>1
  <2>3. question' \in [rule : {"filter"}, phrases : SUBSET Distance, codes : SUBSET Code, excluded : BOOLEAN,
                       sensitivity : Sensitivity]
    BY <2>1 DEF Sensitivity, Code
  <2> QED BY <2>2, <2>3 DEF RulesInv
<1> QED BY <1>1, <1>2, <1>3, <1>4, <1>5 DEF RulesNext

-----------------------------------------------------------------------------
(* The figures.                                                            *)

\* What one number adds up to grows with it, whatever the others are.
LEMMA SumGrows ==
  ASSUME NEW S, NEW f \in [S -> Nat], NEW x \in S, IsFiniteSet(Units(f)),
         NEW g, g = [f EXCEPT ![x] = @ + 1]
  PROVE  /\ IsFiniteSet(Units(g)) /\ SumOf(g) = SumOf(f) + 1
         /\ SumOf(f) \in Nat /\ SumOf(g) \in Nat
<1> DEFINE new == <<x, f[x] + 1>>
<1>1. \A p : p \in Units(f) <=> \E y \in S, n \in Nat : p = <<y, n>> /\ 1 <= n /\ n <= f[y]
  <2>1. \A y \in S : f[y] \in Nat OBVIOUS
  <2> QED BY <2>1 DEF Units
<1>2. g \in [S -> Nat] /\ g[x] = f[x] + 1 /\ \A y \in S : y # x => g[y] = f[y] OBVIOUS
<1>3. \A p : p \in Units(g) <=> \E y \in S, n \in Nat : p = <<y, n>> /\ 1 <= n /\ n <= g[y]
  <2>1. \A y \in S : g[y] \in Nat BY <1>2
  <2> QED BY <1>2, <2>1 DEF Units
<1>4. f[x] \in Nat OBVIOUS
<1>5. new \notin Units(f)
  <2> SUFFICES ASSUME new \in Units(f) PROVE FALSE OBVIOUS
  <2>1. PICK y \in S, n \in Nat : new = <<y, n>> /\ 1 <= n /\ n <= f[y] BY <1>1
  <2>2. y = x /\ n = f[x] + 1 BY <2>1
  <2> QED BY <1>4, <2>1, <2>2
<1>6. Units(g) = Units(f) \union {new}
  <2>1. ASSUME NEW p \in Units(g) PROVE p \in Units(f) \union {new}
    <3>1. PICK y \in S, n \in Nat : p = <<y, n>> /\ 1 <= n /\ n <= g[y] BY <1>3
    <3>2. CASE y # x BY <1>1, <1>2, <3>1, <3>2
    <3>3. CASE y = x /\ n <= f[x] BY <1>1, <3>1, <3>3
    <3>4. CASE y = x /\ n = f[x] + 1 BY <3>1, <3>4
    <3> QED BY <1>2, <1>4, <3>1, <3>2, <3>3, <3>4
  <2>2. ASSUME NEW p \in Units(f) PROVE p \in Units(g)
    <3>1. PICK y \in S, n \in Nat : p = <<y, n>> /\ 1 <= n /\ n <= f[y] BY <1>1
    <3>2. n <= g[y] BY <1>2, <1>4, <3>1
    <3> QED BY <1>3, <3>1, <3>2
  <2>3. new \in Units(g)
    <3>1. f[x] + 1 \in Nat /\ 1 <= f[x] + 1 /\ f[x] + 1 <= g[x] BY <1>2, <1>4
    <3> QED BY <1>3, <3>1
  <2> QED BY <2>1, <2>2, <2>3
<1>7. IsFiniteSet(Units(g)) /\ Cardinality(Units(g)) = Cardinality(Units(f)) + 1
  <2> DEFINE us == Units(f)
  <2>1. IsFiniteSet(us) OBVIOUS
  <2>2. Units(g) = us \union {new} /\ new \notin us BY <1>5, <1>6
  <2> HIDE DEF us, new
  <2>3. IsFiniteSet(us \union {new}) /\ Cardinality(us \union {new}) = Cardinality(us) + 1
    BY <2>1, <2>2, FS_AddElement
  <2> QED BY <2>2, <2>3 DEF us
<1>8. Cardinality(Units(f)) \in Nat BY FS_CardinalityType
<1> QED BY <1>7, <1>8 DEF SumOf

\* Nothing adds up to nothing.
LEMMA SumStarts ==
  ASSUME NEW S, NEW f, f = [y \in S |-> 0]
  PROVE  IsFiniteSet(Units(f)) /\ SumOf(f) = 0
<1>1. Units(f) = {} BY DEF Units
<1> QED BY <1>1, FS_EmptySet DEF SumOf

\* The number k of every session, and of every hour.
InSessions(bs, k) == [s \in Sid |-> bs[s][k]]
InHours(hs, k) == [h \in DOMAIN hs |-> hs[h][k]]
Answers == {"ai", "human"}

\* What is added up, of the figures of the process and of the sessions.
AddsUp(cs, bs, hs, hbs, rs) ==
  /\ \A k \in {"ai", "static", "failed", "paused"} : cs[k] = SumOf(InSessions(bs, k))
  /\ cs["human"] + cs["paused"] = SumOf(InSessions(bs, "human"))
  /\ \A s \in Sid, k \in Answers : SumOf(InHours(hbs[s], k)) = bs[s][k]
  /\ SumOf(InHours(hs, "ai")) <= cs["ai"]
  /\ SumOf(InHours(hs, "human")) <= SumOf(InSessions(bs, "human"))
  /\ Len(rs) = Min({MaxRecent, SumOf(cs)})
AddingUp == AddsUp(counters, bySession, hourly, hourlyBySession, recent)

\* Everything that is added up is finite, and the list of recent ones is as long as it may be.
MetricsInv ==
  /\ MetricsTypeOK /\ recent \in Seq([route : Route, session : Sid]) /\ AddingUp
  /\ IsFiniteSet(Units(counters))
  /\ \A k \in Route : IsFiniteSet(Units(InSessions(bySession, k)))
  /\ \A k \in Answers : /\ IsFiniteSet(Units(InHours(hourly, k)))
                        /\ \A s \in Sid : IsFiniteSet(Units(InHours(hourlyBySession[s], k)))

LEMMA MetricsBounds ==
  Hours \in Nat \ {0} /\ MaxRecent \in Nat \ {0} /\ LastDay \in Nat \ {0}
BY MetricsAssumption

LEMMA AddUp ==
  /\ AddingUp <=> AddsUp(counters, bySession, hourly, hourlyBySession, recent)
  /\ AddingUp' <=> AddsUp(counters', bySession', hourly', hourlyBySession', recent')
BY DEF AddingUp

\* So the two scopes agree on what both of them count.
LEMMA MetricsMean ==
  ASSUME MetricsInv
  PROVE  MetricsAddUp
<1>1. AddsUp(counters, bySession, hourly, hourlyBySession, recent) BY AddUp DEF MetricsInv
<1> DEFINE sum(k) == SumOf([s \in Sid |-> bySession[s][k]])
           hours(hs, k) == SumOf([h \in DOMAIN hs |-> hs[h][k]])
<1>2. \A k \in {"ai", "static", "failed", "paused"} : counters[k] = sum(k) BY <1>1 DEF AddsUp, InSessions
<1>3. \A s \in Sid, k \in Answers : hours(hourlyBySession[s], k) = bySession[s][k]
  BY <1>1 DEF AddsUp, InHours
<1>4. \A k \in Answers : SumOf([s \in Sid |-> hours(hourlyBySession[s], k)]) = sum(k)
  <2>1. ASSUME NEW k \in Answers PROVE [s \in Sid |-> hours(hourlyBySession[s], k)] = [s \in Sid |-> bySession[s][k]]
    BY <1>3
  <2> HIDE DEF hours
  <2> QED BY <2>1
<1>5. \A k \in Answers : hours(hourly, k) <= sum(k)
  BY <1>1 DEF AddsUp, InSessions, InHours, Answers
<1>6. Len(recent) = Min({MaxRecent, Decisions(counters)}) BY <1>1 DEF AddsUp, Decisions
<1> HIDE DEF sum, hours
<1>7. \A k \in Answers : hours(hourly, k) <= SumOf([s \in Sid |-> hours(hourlyBySession[s], k)]) BY <1>4, <1>5
<1> QED BY <1>2, <1>3, <1>6, <1>7 DEF MetricsAddUp, Answers, sum, hours

\* An hour that is counted in keeps the figures, and adds to the sum of what is counted.
LEMMA HourCounts ==
  ASSUME NEW hs \in Figures, hour \in 0..Hours - 1, NEW route \in Route,
         \A k \in Answers : IsFiniteSet(Units(InHours(hs, k)))
  PROVE  /\ InHour(hs, route) \in Figures
         /\ \A k \in Answers :
              /\ IsFiniteSet(Units(InHours(InHour(hs, route), k)))
              /\ SumOf(InHours(hs, k)) \in Nat
              /\ SumOf(InHours(InHour(hs, route), k)) =
                   SumOf(InHours(hs, k)) + (IF k = route \/ (k = "human" /\ route = "paused") THEN 1 ELSE 0)
<1> DEFINE D == 0..Hours - 1
           new == InHour(hs, route)
<1>1. /\ DOMAIN hs = D /\ hour \in D /\ \A h \in D : hs[h] \in [ai : Nat, human : Nat]
  BY DEF Figures
<1>2. \A k \in Answers : InHours(hs, k) \in [D -> Nat] /\ \A h \in D : InHours(hs, k)[h] = hs[h][k]
  BY <1>1 DEF InHours, Answers
<1>3. \A k \in Answers : SumOf(InHours(hs, k)) \in Nat BY FS_CardinalityType DEF SumOf
<1>4. CASE route = "ai"
  <2>1. new = [hs EXCEPT ![hour].ai = @ + 1] BY <1>4 DEF InHour
  <2>2. /\ new \in Figures /\ DOMAIN new = D
        /\ \A h \in D : /\ new[h]["human"] = hs[h]["human"]
                        /\ new[h]["ai"] = IF h = hour THEN hs[h]["ai"] + 1 ELSE hs[h]["ai"]
    BY <1>1, <2>1 DEF Figures
  <2> HIDE DEF new
  <2>3. InHours(new, "human") = InHours(hs, "human") BY <1>1, <2>2 DEF InHours
  <2>4. InHours(new, "ai") = [InHours(hs, "ai") EXCEPT ![hour] = @ + 1] BY <1>1, <2>2 DEF InHours
  <2>5. /\ IsFiniteSet(Units(InHours(new, "ai")))
        /\ SumOf(InHours(new, "ai")) = SumOf(InHours(hs, "ai")) + 1
    <3> DEFINE f == InHours(hs, "ai")
               g == InHours(new, "ai")
    <3>1. "ai" \in Answers BY DEF Answers
    <3>2. f \in [D -> Nat] /\ IsFiniteSet(Units(f)) /\ hour \in D BY <1>1, <1>2, <3>1
    <3>3. g = [f EXCEPT ![hour] = @ + 1] BY <2>4
    <3> HIDE DEF f, g, D
    <3>4. IsFiniteSet(Units(g)) /\ SumOf(g) = SumOf(f) + 1 BY <3>2, <3>3, SumGrows
    <3> QED BY <3>4 DEF f, g
  <2> QED BY <1>3, <1>4, <2>2, <2>3, <2>5 DEF new, Answers
<1>5. CASE route \in {"human", "paused"}
  <2>1. new = [hs EXCEPT ![hour].human = @ + 1] BY <1>5 DEF InHour
  <2>2. /\ new \in Figures /\ DOMAIN new = D
        /\ \A h \in D : /\ new[h]["ai"] = hs[h]["ai"]
                        /\ new[h]["human"] = IF h = hour THEN hs[h]["human"] + 1 ELSE hs[h]["human"]
    BY <1>1, <2>1 DEF Figures
  <2> HIDE DEF new
  <2>3. InHours(new, "ai") = InHours(hs, "ai") BY <1>1, <2>2 DEF InHours
  <2>4. InHours(new, "human") = [InHours(hs, "human") EXCEPT ![hour] = @ + 1] BY <1>1, <2>2 DEF InHours
  <2>5. /\ IsFiniteSet(Units(InHours(new, "human")))
        /\ SumOf(InHours(new, "human")) = SumOf(InHours(hs, "human")) + 1
    <3> DEFINE f == InHours(hs, "human")
               g == InHours(new, "human")
    <3>1. "human" \in Answers BY DEF Answers
    <3>2. f \in [D -> Nat] /\ IsFiniteSet(Units(f)) /\ hour \in D BY <1>1, <1>2, <3>1
    <3>3. g = [f EXCEPT ![hour] = @ + 1] BY <2>4
    <3> HIDE DEF f, g, D
    <3>4. IsFiniteSet(Units(g)) /\ SumOf(g) = SumOf(f) + 1 BY <3>2, <3>3, SumGrows
    <3> QED BY <3>4 DEF f, g
  <2> QED BY <1>3, <1>5, <2>2, <2>3, <2>5 DEF new, Answers
<1>6. CASE route \notin {"ai", "human", "paused"}
  <2>1. new = hs BY <1>6 DEF InHour
  <2> HIDE DEF new
  <2> QED BY <1>3, <1>6, <2>1 DEF new, Answers
<1> QED BY <1>4, <1>5, <1>6

LEMMA NoHoursIs ==
  /\ NoHours \in Figures
  /\ \A k \in Answers : IsFiniteSet(Units(InHours(NoHours, k))) /\ SumOf(InHours(NoHours, k)) = 0
<1>1. NoHours \in Figures BY DEF NoHours, Figures
<1>2. \A k \in Answers : InHours(NoHours, k) = [h \in 0..Hours - 1 |-> 0] BY DEF NoHours, InHours, Answers
<1> QED BY <1>1, <1>2, SumStarts

LEMMA ZeroIs ==
  /\ Zero \in [Route -> Nat] /\ \A k \in Route : Zero[k] = 0
  /\ IsFiniteSet(Units(Zero)) /\ SumOf(Zero) = 0
BY SumStarts DEF Zero

\* The least of a limit and a number.
LEMMA LeastOf ==
  ASSUME NEW a \in Nat, NEW b \in Nat
  PROVE  Min({a, b}) = IF a <= b THEN a ELSE b
<1>1. a <= b => Min({a, b}) = a BY DEF Min
<1>2. ~(a <= b) => Min({a, b}) = b BY DEF Min
<1> QED BY <1>1, <1>2

LEMMA MetricsStarts == ASSUME MetricsInit PROVE MetricsInv
<1>1. /\ day = 1 /\ hour = 0 /\ dayKey = 0 /\ counters = Zero /\ hourly = NoHours /\ recent = <<>>
      /\ bySession = [s \in Sid |-> Zero] /\ hourlyBySession = [s \in Sid |-> NoHours]
  BY DEF MetricsInit
<1>2. \A k \in Route : InSessions(bySession, k) = [s \in Sid |-> 0] BY <1>1, ZeroIs DEF InSessions
<1>3. \A k \in Route : IsFiniteSet(Units(InSessions(bySession, k))) /\ SumOf(InSessions(bySession, k)) = 0
  BY <1>2, SumStarts
<1>4. MetricsTypeOK /\ recent \in Seq([route : Route, session : Sid])
  BY <1>1, ZeroIs, NoHoursIs, MetricsBounds DEF MetricsTypeOK
<1>5. Len(recent) = Min({MaxRecent, SumOf(counters)}) BY <1>1, ZeroIs, LeastOf, MetricsBounds
<1>6. AddingUp
  BY <1>1, <1>3, <1>5, ZeroIs, NoHoursIs, AddUp DEF Route, Answers, AddsUp
<1> QED BY <1>1, <1>3, <1>4, <1>6, ZeroIs, NoHoursIs DEF MetricsInv

\* A decision is counted once in each scope.
LEMMA RecordKeeps ==
  ASSUME MetricsInv, NEW s \in Sid, NEW route \in Route, RecordDecision(s, route)
  PROVE  MetricsInv'
<1> DEFINE Row == [route : Route, session : Sid]
<1>1. /\ day \in 1..LastDay /\ hour \in 0..Hours - 1 /\ dayKey \in 0..day
      /\ counters \in [Route -> Nat] /\ bySession \in [Sid -> [Route -> Nat]]
      /\ hourly \in Figures /\ hourlyBySession \in [Sid -> Figures]
      /\ Len(recent) <= MaxRecent /\ recent \in Seq(Row)
      /\ IsFiniteSet(Units(counters))
      /\ \A k \in Route : IsFiniteSet(Units(InSessions(bySession, k)))
      /\ \A k \in Answers : /\ IsFiniteSet(Units(InHours(hourly, k)))
                            /\ \A t \in Sid : IsFiniteSet(Units(InHours(hourlyBySession[t], k)))
  BY DEF MetricsInv, MetricsTypeOK
<1>2. /\ dayKey' = day /\ counters' = [counters EXCEPT ![route] = @ + 1]
      /\ bySession' = [bySession EXCEPT ![s] = InSession(@, route)]
      /\ hourly' = InHour(Today, route)
      /\ hourlyBySession' = [hourlyBySession EXCEPT ![s] = InHour(@, route)]
      /\ recent' = IF Len(Append(recent, [route |-> route, session |-> s])) > MaxRecent
                   THEN Tail(Append(recent, [route |-> route, session |-> s]))
                   ELSE Append(recent, [route |-> route, session |-> s])
      /\ UNCHANGED <<day, hour>>
  BY DEF RecordDecision
<1>3. /\ \A k \in {"ai", "static", "failed", "paused"} : counters[k] = SumOf(InSessions(bySession, k))
      /\ counters["human"] + counters["paused"] = SumOf(InSessions(bySession, "human"))
      /\ \A t \in Sid, k \in Answers : SumOf(InHours(hourlyBySession[t], k)) = bySession[t][k]
      /\ SumOf(InHours(hourly, "ai")) <= counters["ai"]
      /\ SumOf(InHours(hourly, "human")) <= SumOf(InSessions(bySession, "human"))
      /\ Len(recent) = Min({MaxRecent, SumOf(counters)})
  BY AddUp DEF MetricsInv, AddsUp
\* What the session counts.
<1> DEFINE More(k) == IF k = route \/ (k = "human" /\ route = "paused") THEN 1 ELSE 0
<1>4. /\ bySession' \in [Sid -> [Route -> Nat]]
      /\ \A t \in Sid, k \in Route : bySession'[t][k] = bySession[t][k] + (IF t = s THEN More(k) ELSE 0)
  <2>1. /\ InSession(bySession[s], route) \in [Route -> Nat]
        /\ \A k \in Route : InSession(bySession[s], route)[k] = bySession[s][k] + More(k)
    <3>1. bySession[s] \in [Route -> Nat] BY <1>1
    <3>2. CASE route = "paused" BY <3>1, <3>2 DEF InSession, Route
    <3>3. CASE route # "paused" BY <3>1, <3>3 DEF InSession, Route
    <3> QED BY <3>2, <3>3
  <2> HIDE DEF More
  <2>2. \A t \in Sid : bySession'[t] = IF t = s THEN InSession(bySession[s], route) ELSE bySession[t]
    BY <1>1, <1>2
  <2>3. \A t \in Sid, k \in Route : bySession[t][k] \in Nat BY <1>1
  <2>4. \A t \in Sid, k \in Route : bySession'[t][k] = bySession[t][k] + (IF t = s THEN More(k) ELSE 0)
    BY <2>1, <2>2, <2>3
  <2> QED BY <1>1, <1>2, <2>1, <2>4
<1>5. \A k \in Route :
        /\ IsFiniteSet(Units(InSessions(bySession', k))) /\ SumOf(InSessions(bySession, k)) \in Nat
        /\ SumOf(InSessions(bySession', k)) = SumOf(InSessions(bySession, k)) + More(k)
  <2> SUFFICES ASSUME NEW k \in Route
               PROVE  /\ IsFiniteSet(Units(InSessions(bySession', k)))
                      /\ SumOf(InSessions(bySession, k)) \in Nat
                      /\ SumOf(InSessions(bySession', k)) = SumOf(InSessions(bySession, k)) + More(k)
    OBVIOUS
  <2> DEFINE f == InSessions(bySession, k)
             g == InSessions(bySession', k)
  <2>1. f \in [Sid -> Nat] /\ \A t \in Sid : f[t] = bySession[t][k] BY <1>1 DEF InSessions
  <2>2. g = [t \in Sid |-> bySession'[t][k]] BY DEF InSessions
  <2>3. IsFiniteSet(Units(f)) /\ SumOf(f) \in Nat BY <1>1, FS_CardinalityType DEF SumOf
  <2>4. More(k) \in {0, 1} OBVIOUS
  <2> HIDE DEF f, g, More
  <2>5. CASE More(k) = 1
    <3>1. g = [f EXCEPT ![s] = @ + 1]
      <4>1. \A t \in Sid : bySession'[t][k] = IF t = s THEN f[t] + 1 ELSE f[t] BY <1>4, <2>1, <2>5
      <4> QED BY <2>1, <2>2, <4>1
    <3>2. f \in [Sid -> Nat] BY <2>1
    <3>3. IsFiniteSet(Units(g)) /\ SumOf(g) = SumOf(f) + 1 BY <2>3, <3>1, <3>2, SumGrows
    <3> QED BY <2>3, <2>5, <3>3 DEF f, g
  <2>6. CASE More(k) = 0
    <3>1. g = f
      <4>1. \A t \in Sid : bySession'[t][k] = f[t] BY <1>4, <2>1, <2>6
      <4> QED BY <2>1, <2>2, <4>1
    <3> QED BY <2>3, <2>6, <3>1 DEF f, g
  <2> QED BY <2>4, <2>5, <2>6
\* What the process counts.
<1>6. /\ counters' \in [Route -> Nat] /\ \A k \in Route : counters'[k] = counters[k] + (IF k = route THEN 1 ELSE 0)
      /\ IsFiniteSet(Units(counters')) /\ SumOf(counters') = SumOf(counters) + 1 /\ SumOf(counters) \in Nat
  <2> DEFINE f == counters
             g == counters'
  <2>1. f \in [Route -> Nat] /\ IsFiniteSet(Units(f)) /\ g = [f EXCEPT ![route] = @ + 1] BY <1>1, <1>2
  <2>2. IsFiniteSet(Units(g)) /\ SumOf(g) = SumOf(f) + 1 /\ SumOf(f) \in Nat
    <3> HIDE DEF f, g
    <3> QED BY <2>1, SumGrows
  <2>3. /\ g \in [Route -> Nat] /\ \A k \in Route : g[k] = f[k] + (IF k = route THEN 1 ELSE 0)
    <3> HIDE DEF f, g
    <3>1. \A k \in Route : f[k] \in Nat BY <2>1
    <3> QED BY <2>1, <3>1
  <2> QED BY <2>2, <2>3
<1>7. /\ Today \in Figures
      /\ \A k \in Answers : /\ IsFiniteSet(Units(InHours(Today, k))) /\ SumOf(InHours(Today, k)) \in Nat
                            /\ SumOf(InHours(Today, k)) <= SumOf(InHours(hourly, k))
  <2>1. \A k \in Answers : SumOf(InHours(hourly, k)) \in Nat BY <1>1, FS_CardinalityType DEF SumOf
  <2>2. CASE dayKey = day BY <1>1, <2>1, <2>2 DEF Today
  <2>3. CASE dayKey # day BY <2>1, <2>3, NoHoursIs DEF Today
  <2> QED BY <2>2, <2>3
<1>8. /\ hourly' \in Figures
      /\ \A k \in Answers : /\ IsFiniteSet(Units(InHours(hourly', k)))
                            /\ SumOf(InHours(hourly', k)) = SumOf(InHours(Today, k)) + More(k)
  BY <1>1, <1>2, <1>7, HourCounts
<1>9. /\ hourlyBySession' \in [Sid -> Figures]
      /\ \A k \in Answers, t \in Sid :
           /\ IsFiniteSet(Units(InHours(hourlyBySession'[t], k)))
           /\ SumOf(InHours(hourlyBySession'[t], k)) = bySession'[t][k]
  <2>1. /\ InHour(hourlyBySession[s], route) \in Figures
        /\ \A k \in Answers :
             /\ IsFiniteSet(Units(InHours(InHour(hourlyBySession[s], route), k)))
             /\ SumOf(InHours(InHour(hourlyBySession[s], route), k))
                  = SumOf(InHours(hourlyBySession[s], k)) + More(k)
    BY <1>1, HourCounts
  <2>2. \A t \in Sid : hourlyBySession'[t] =
          IF t = s THEN InHour(hourlyBySession[s], route) ELSE hourlyBySession[t]
    BY <1>1, <1>2
  <2>3. \A k \in Answers : k \in Route BY DEF Answers, Route
  <2>4. \A k \in Answers, t \in Sid : bySession'[t][k] = bySession[t][k] + (IF t = s THEN More(k) ELSE 0)
    BY <1>4, <2>3
  <2>5. \A k \in Answers, t \in Sid : bySession[t][k] \in Nat BY <1>1, <2>3
  <2> HIDE DEF More
  <2>6. hourlyBySession' \in [Sid -> Figures] BY <1>1, <1>2, <2>1
  <2>7. ASSUME NEW k \in Answers, NEW t \in Sid
        PROVE  /\ IsFiniteSet(Units(InHours(hourlyBySession'[t], k)))
               /\ SumOf(InHours(hourlyBySession'[t], k)) = bySession'[t][k]
    <3>1. CASE t = s BY <1>3, <2>1, <2>2, <2>4, <3>1
    <3>2. CASE t # s
      <4>1. bySession'[t][k] = bySession[t][k] /\ hourlyBySession'[t] = hourlyBySession[t]
        BY <2>2, <2>4, <2>5, <3>2
      <4> QED BY <1>1, <1>3, <4>1
    <3> QED BY <3>1, <3>2
  <2> QED BY <2>6, <2>7
\* The list.
<1>10. /\ recent' \in Seq(Row)
       /\ Len(recent') = IF Len(recent) + 1 > MaxRecent THEN Len(recent) ELSE Len(recent) + 1
  <2> DEFINE row == [route |-> route, session |-> s]
             all == Append(recent, row)
  <2>1. row \in Row OBVIOUS
  <2> HIDE DEF row
  <2>2. all \in Seq(Row) /\ Len(all) = Len(recent) + 1 /\ all # <<>>
    <3> HIDE DEF Row
    <3>1. recent \in Seq(Row) /\ row \in Row BY <1>1, <2>1
    <3>2. all \in Seq(Row) /\ Len(all) = Len(recent) + 1 /\ Len(recent) \in Nat BY <3>1, AppendProperties
    <3>3. Len(all) # 0 BY <3>2
    <3> QED BY <3>2, <3>3
  <2>3. Len(recent) \in Nat BY <1>1
  <2>4. Tail(all) \in Seq(Row) /\ Len(Tail(all)) = Len(recent)
    <3> HIDE DEF all
    <3>1. Tail(all) \in Seq(Row) /\ Len(Tail(all)) = Len(all) - 1 BY <2>2, HeadTailProperties
    <3> QED BY <2>2, <2>3, <3>1
  <2>5. recent' = IF Len(all) > MaxRecent THEN Tail(all) ELSE all BY <1>2 DEF row
  <2> HIDE DEF all
  <2> QED BY <2>2, <2>4, <2>5
<1>11. Len(recent') <= MaxRecent /\ Len(recent') = Min({MaxRecent, SumOf(counters')})
  <2> DEFINE n == SumOf(counters)
             m == SumOf(counters')
  <2>1. n \in Nat /\ m = n + 1 /\ MaxRecent \in Nat \ {0} /\ Len(recent) \in Nat BY <1>1, <1>6, MetricsBounds
  <2>2. Len(recent) = IF MaxRecent <= n THEN MaxRecent ELSE n BY <1>3, <2>1, LeastOf
  <2> HIDE DEF n, m
  <2>3. m \in Nat BY <2>1
  <2>4. Min({MaxRecent, m}) = IF MaxRecent <= m THEN MaxRecent ELSE m BY <2>1, <2>3, LeastOf
  <2>5. Len(recent') = IF MaxRecent <= m THEN MaxRecent ELSE m BY <1>10, <2>1, <2>2
  <2> QED BY <2>1, <2>3, <2>4, <2>5 DEF m
<1>12. MetricsTypeOK'
  <2>1. \A i \in DOMAIN recent' : recent'[i] \in Row
    <3> HIDE DEF Row
    <3> QED BY <1>10
  <2>2. day' \in 1..LastDay /\ hour' \in 0..Hours - 1 /\ dayKey' \in 0..day' BY <1>1, <1>2
  <2>3. /\ counters' \in [Route -> Nat] /\ bySession' \in [Sid -> [Route -> Nat]]
        /\ hourly' \in Figures /\ hourlyBySession' \in [Sid -> Figures] /\ Len(recent') <= MaxRecent
    BY <1>4, <1>6, <1>8, <1>9, <1>11
  <2> QED BY <2>1, <2>2, <2>3 DEF MetricsTypeOK
<1>13. /\ \A k \in {"ai", "static", "failed", "paused"} : counters'[k] = SumOf(InSessions(bySession', k))
       /\ counters'["human"] + counters'["paused"] = SumOf(InSessions(bySession', "human"))
  <2>1. ASSUME NEW k \in {"ai", "static", "failed", "paused"}
        PROVE  counters'[k] = SumOf(InSessions(bySession', k))
    <3>1. k \in Route /\ k # "human" BY DEF Route
    <3>2. More(k) = IF k = route THEN 1 ELSE 0 BY <3>1
    <3> HIDE DEF More
    <3> QED BY <1>3, <1>5, <1>6, <3>1, <3>2
  <2>2. counters'["human"] + counters'["paused"] = SumOf(InSessions(bySession', "human"))
    <3>1. "human" \in Route /\ "paused" \in Route BY DEF Route
    <3>2. /\ counters["human"] \in Nat /\ counters["paused"] \in Nat
          /\ counters'["human"] = counters["human"] + (IF "human" = route THEN 1 ELSE 0)
          /\ counters'["paused"] = counters["paused"] + (IF "paused" = route THEN 1 ELSE 0)
          /\ SumOf(InSessions(bySession', "human")) = counters["human"] + counters["paused"] + More("human")
      BY <1>1, <1>3, <1>5, <1>6, <3>1
    <3>3. More("human") = IF route \in {"human", "paused"} THEN 1 ELSE 0 OBVIOUS
    <3> HIDE DEF More
    <3> QED BY <3>2, <3>3
  <2> QED BY <2>1, <2>2
<1>14. /\ SumOf(InHours(hourly', "ai")) <= counters'["ai"]
       /\ SumOf(InHours(hourly', "human")) <= SumOf(InSessions(bySession', "human"))
  <2>1. "ai" \in Answers /\ "human" \in Answers /\ "ai" \in Route /\ "human" \in Route BY DEF Answers, Route
  <2>2. \A k \in Answers : SumOf(InHours(hourly, k)) \in Nat BY <1>1, FS_CardinalityType DEF SumOf
  <2>3. More("ai") = IF route = "ai" THEN 1 ELSE 0 OBVIOUS
  <2>4. More("human") \in {0, 1} OBVIOUS
  <2> HIDE DEF More
  <2>5. counters["ai"] \in Nat /\ counters'["ai"] = counters["ai"] + More("ai") BY <1>1, <1>6, <2>1, <2>3
  <2>6. SumOf(InHours(hourly', "ai")) <= counters'["ai"]
    <3>1. /\ SumOf(InHours(hourly', "ai")) = SumOf(InHours(Today, "ai")) + More("ai")
          /\ SumOf(InHours(Today, "ai")) <= SumOf(InHours(hourly, "ai"))
          /\ SumOf(InHours(Today, "ai")) \in Nat
      BY <1>7, <1>8, <2>1
    <3> QED BY <1>3, <2>1, <2>2, <2>3, <2>5, <3>1
  <2>7. SumOf(InHours(hourly', "human")) <= SumOf(InSessions(bySession', "human"))
    <3>1. /\ SumOf(InHours(hourly', "human")) = SumOf(InHours(Today, "human")) + More("human")
          /\ SumOf(InHours(Today, "human")) <= SumOf(InHours(hourly, "human"))
          /\ SumOf(InHours(Today, "human")) \in Nat
          /\ SumOf(InSessions(bySession', "human")) = SumOf(InSessions(bySession, "human")) + More("human")
          /\ SumOf(InSessions(bySession, "human")) \in Nat
      BY <1>5, <1>7, <1>8, <2>1
    <3> QED BY <1>3, <2>1, <2>2, <2>4, <3>1
  <2> QED BY <2>6, <2>7
<1>15. AddingUp' BY <1>9, <1>11, <1>13, <1>14, AddUp DEF AddsUp
<1> QED BY <1>5, <1>6, <1>8, <1>9, <1>10, <1>12, <1>15 DEF MetricsInv

\* Where only the hours of the process are emptied, nothing else changes.
LEMMA LookKeeps ==
  ASSUME MetricsInv, hourly' = NoHours, dayKey' = day,
         UNCHANGED <<day, hour, counters, bySession, hourlyBySession, recent>>
  PROVE  MetricsInv'
<1>1. MetricsTypeOK /\ dayKey' \in 0..day' BY DEF MetricsInv, MetricsTypeOK
<1>2. AddsUp(counters, bySession, hourly, hourlyBySession, recent) BY AddUp DEF MetricsInv
<1>3. /\ "ai" \in Answers /\ "human" \in Answers
      /\ \A k \in Answers : SumOf(InHours(hourly, k)) \in Nat
  BY FS_CardinalityType DEF MetricsInv, SumOf, Answers
<1>4. SumOf(InSessions(bySession, "human")) \in Nat /\ counters["ai"] \in Nat
  BY <1>1, FS_CardinalityType DEF MetricsInv, MetricsTypeOK, SumOf, Route
<1>5. AddsUp(counters', bySession', hourly', hourlyBySession', recent')
  BY <1>2, <1>3, <1>4, NoHoursIs DEF AddsUp
<1>6. MetricsTypeOK' BY <1>1, NoHoursIs DEF MetricsTypeOK
<1> QED BY <1>5, <1>6, AddUp, NoHoursIs DEF MetricsInv

LEMMA MetricsStep ==
  ASSUME MetricsInv, [MetricsNext]_metricsVars
  PROVE  MetricsInv'
<1>1. ASSUME NEW s \in Sid, NEW route \in Route, RecordDecision(s, route) PROVE MetricsInv'
  BY <1>1, RecordKeeps
<1>2. CASE GetAiMetrics BY <1>2, LookKeeps DEF GetAiMetrics
<1>3. CASE ResetAiMetrics
  <2>1. /\ counters' = Zero /\ hourly' = NoHours /\ recent' = <<>>
        /\ bySession' = [s \in Sid |-> Zero] /\ hourlyBySession' = [s \in Sid |-> NoHours]
        /\ UNCHANGED <<day, hour, dayKey>>
    BY <1>3 DEF ResetAiMetrics
  <2>2. \A k \in Route : IsFiniteSet(Units(InSessions(bySession', k))) /\ SumOf(InSessions(bySession', k)) = 0
    <3>1. \A k \in Route : InSessions(bySession', k) = [s \in Sid |-> 0] BY <2>1, ZeroIs DEF InSessions
    <3> QED BY <3>1, SumStarts
  <2>3. MetricsTypeOK' /\ recent' \in Seq([route : Route, session : Sid])
    BY <2>1, ZeroIs, NoHoursIs, MetricsBounds DEF MetricsInv, MetricsTypeOK
  <2>4. Len(recent') = Min({MaxRecent, SumOf(counters')}) BY <2>1, ZeroIs, LeastOf, MetricsBounds
  <2>5. AddingUp' BY <2>1, <2>2, <2>4, ZeroIs, NoHoursIs, AddUp DEF Route, Answers, AddsUp
  <2> QED BY <2>1, <2>2, <2>3, <2>5, ZeroIs, NoHoursIs DEF MetricsInv
<1>4. ASSUME NEW b \in BOOLEAN, HourPasses(b) PROVE MetricsInv'
  <2>1. /\ hour' = (hour + 1) % Hours /\ (day' = day \/ (day < LastDay /\ day' = day + 1))
        /\ UNCHANGED <<dayKey, counters, bySession, hourly, hourlyBySession, recent>>
    BY <1>4 DEF HourPasses
  <2>2. hour' \in 0..Hours - 1
    <3>1. hour \in Nat /\ Hours \in Nat \ {0} BY MetricsBounds DEF MetricsInv, MetricsTypeOK
    <3> QED BY <2>1, <3>1
  <2>3. MetricsTypeOK'
    <3>1. day \in 1..LastDay /\ dayKey \in 0..day /\ LastDay \in Nat
      BY MetricsBounds DEF MetricsInv, MetricsTypeOK
    <3>2. day' \in 1..LastDay /\ dayKey' \in 0..day' BY <2>1, <3>1
    <3> QED BY <2>1, <2>2, <3>2 DEF MetricsInv, MetricsTypeOK
  <2> QED BY <2>1, <2>3, AddUp DEF MetricsInv
<1>5. CASE UNCHANGED metricsVars BY <1>5, AddUp DEF metricsVars, MetricsInv, MetricsTypeOK
<1> QED BY <1>1, <1>2, <1>3, <1>4, <1>5 DEF MetricsNext

-----------------------------------------------------------------------------
(* The instance of the runs.                                               *)

\* A behaviour of the composition is one of each module, in which all but one stutter.
LEMMA AllBehave == ChatsSpec => InboundSpec /\ AgentSpec /\ RulesSpec /\ MetricsSpec /\ AiPageSpec
<1>1. ChatsInit => InboundInit /\ AgentInit /\ RulesInit /\ MetricsInit /\ AiPageInit BY DEF ChatsInit
<1>2. [ChatsNext]_chatsVars =>
        /\ [InboundNext]_inboundVars /\ [AgentNext]_agentVars /\ [RulesNext]_rulesVars
        /\ [MetricsNext]_metricsVars /\ [AiPageNext]_aiPageVars
  BY DEF ChatsNext, chatsVars
<1> QED BY <1>1, <1>2, PTL DEF ChatsSpec, InboundSpec, AgentSpec, RulesSpec, MetricsSpec, AiPageSpec

LEMMA AgentAlways == AgentSpec => []AgentInv
BY AgentStarts, AgentStep, PTL DEF AgentSpec

LEMMA AiPageAlways == AiPageSpec => []AiPageInv
BY AiPageStarts, AiPageStep, PTL DEF AiPageSpec

LEMMA MetricsAlways == MetricsSpec => []MetricsInv
BY MetricsStarts, MetricsStep, PTL DEF MetricsSpec

LEMMA InboundAlways == InboundSpec => []InboundInv
BY InboundStarts, InboundStep, PTL DEF InboundSpec

\* For any rounds, attempts, quota and number of replies at once: the provider is never sent
\* a call without its answer, a reply costs a bounded number of requests, and any MaxPerHour
\* sends of the session are followed by none within the hour of the first of them.
THEOREM AgentBounded == ChatsSpec => []AgentIsBounded
BY AllBehave, AgentAlways, AgentMeans, PTL

\* For any sessions and any number of open requests: with nothing to come the form shows the
\* selected session, unless answers overtook each other or a load failed, and a session whose
\* form was there when Save was clicked keeps its own settings.
THEOREM AiFormKept == ChatsSpec => []AiFormIsTheirs
BY AllBehave, AiPageAlways, AiPageMeans, PTL

\* For any conversations, batches, roles and times: a message has one owner, by whatever its
\* role allows, the AI is not asked while its conversation is promised to the humans (a reply
\* it is writing when the promise is made may still be sent), and static replies are decided a
\* cooldown apart.
THEOREM AnswersGoverned == ChatsSpec => AnswersAreGoverned
<1>1. InboundSpec => [](OneOwner /\ FallbackOnlyAfterFailure) BY InboundAlways, InboundMeans, PTL
<1>2. InboundInv /\ [InboundNext]_inboundVars =>
        [\A c \in Conv : chat[c].flushing = {} /\ chat'[c].flushing # {} =>
           \A k \in chat'[c].flushing : promised[k] <= moment]_inboundVars
  BY InboundStep DEF AsksHumans
<1>3. InboundInv /\ [InboundNext]_inboundVars =>
        [\A c \in Conv : decided'[c] # decided[c] /\ decided[c] # Never /\ decided'[c] # Never =>
           decided'[c] >= decided[c] + Cooldown]_inboundVars
  BY InboundStep DEF KeepsCooldown
<1>4. InboundSpec => HumansComeFirst BY <1>2, InboundAlways, PTL DEF InboundSpec, HumansComeFirst
<1>5. InboundSpec => StaticIsRationed BY <1>3, InboundAlways, PTL DEF InboundSpec, StaticIsRationed
<1> QED BY <1>1, <1>4, <1>5, AllBehave, PTL DEF AnswersAreGoverned

\* For any conversations, batches, delays and calls: the handlers of a session use their
\* router as the inbox that ConversationRouter implements (RouterIsTheirInbox), so what
\* they count on is what it does.
THEOREM HandlersInbox == ChatsSpec => HandlersUseAnInbox
<1>1. InboundInv /\ InboundInv' /\ [InboundNext]_inboundVars => [Promise!InboxNext]_(Promise!inboxVars)
  BY InboxStep
<1> QED BY <1>1, InboxStarts, InboundAlways, AllBehave, PTL
        DEF InboundSpec, HandlersUseAnInbox, Promise!InboxSpec

\* For every day, window, place of phrases and codes and every sensitivity: two opposite
\* windows share the day, and the filter suppresses nothing without a phrase, nothing without
\* a code near one unless it is aggressive, and nothing more for an exclude phrase.
THEOREM RulesExact == ChatsSpec => [](WindowsPartitionTheDay /\ FilterNeedsACode)
<1>1. RulesInit => RulesInv BY DEF RulesInit, RulesInv
<1> QED BY <1>1, RulesStep, RulesMean, AllBehave, PTL DEF RulesSpec

\* For every chat, all limits and every batch: the history is as many of the newest messages
\* as both limits allow, in their order; only texts of the contact that are asked now are
\* taken out before, no more than are asked, and at least one where the last of them is
\* stored as it is asked (that all of them are is not so); with the window, the filter and
\* the figures that the process and its sessions both count.
THEOREM RulesAndFigures == ChatsSpec => []RulesAndFiguresHold
<1>1. RulesInit => RulesInv BY DEF RulesInit, RulesInv
<1>2. RulesInv => RulesMeetTheirReference BY RulesMean, HistoryMeans, TurnsMean DEF RulesMeetTheirReference
<1>3. MetricsInv => MetricsAddUp BY MetricsMean
<1>4. RulesMeetTheirReference /\ MetricsAddUp => RulesAndFiguresHold BY DEF RulesAndFiguresHold
<1> QED BY <1>1, <1>2, <1>3, <1>4, RulesStep, MetricsAlways, AllBehave, PTL DEF RulesSpec

\* For any sessions, hours of a day and length of the list: the answers, static replies,
\* failures and pauses of the sessions add up to those of the process (what is "human" is
\* counted differently and not compared), the hours of a session to its own figures, and the
\* hours of the process to no more than theirs, whichever days, resets and looks lie between
\* the decisions; the list of recent ones is as long as it may be.
THEOREM FiguresAddUp == ChatsSpec => []MetricsAddUp
<1>1. MetricsInv => MetricsAddUp BY MetricsMean
<1> QED BY <1>1, MetricsAlways, AllBehave, PTL

\* Every variable of the routing, of the agent, of the figures and of the page keeps its type, whichever of
\* them moves.
THEOREM ChatsTypes == ChatsSpec => []ChatsTypesOK
<1>1. InboundTypeOK /\ AgentTypeOK /\ MetricsTypeOK /\ AiPageTypeOK => ChatsTypesOK BY DEF ChatsTypesOK
<1>2. MetricsInv => MetricsTypeOK BY DEF MetricsInv
<1> QED BY <1>1, <1>2, AllBehave, InboundAlways, InboundMeans, AgentAlways, AgentMeans,
           MetricsAlways, AiPageAlways, AiPageMeans, PTL

=============================================================================
