------------------------------- MODULE JobsProofs -------------------------------
(***************************************************************************)
(* Proofs about BroadcastQueue for any number of jobs and messages, any    *)
(* size of the map, any delays and batches, carried over to MCJobs, with   *)
(* those of DeadLettersProofs, at the end.                                 *)
(*                                                                         *)
(* Between two awaits the loop stands at one message with everything       *)
(* before it settled; the times at which it sleeps and pauses keep the     *)
(* distance of its sends.                                                  *)
(***************************************************************************)
EXTENDS MCJobs, DeadLettersProofs

-----------------------------------------------------------------------------
(* Broadcast jobs.                                                         *)

\* The distance between the sends of messages k - 1 and k of a job: it may send k at time t.
Gap(k) == IF k % BatchSize = 0 THEN BatchPause ELSE 0
MaySend(s, k, t) ==
  k > 1 /\ (k - 1 \in s.sent \/ k - 1 \in s.invalid) =>
    \E d \in Delays : t >= s.handledAt + d + Gap(k - 1)

\* The loop of job j with the record s, time t and the registration check b: what was tried,
\* sent and found wrong, what is settled at each await, and when it goes on.
Settled(j, s) ==
  /\ s.sent \cap s.errors = {} /\ s.sent \cup s.errors = 1..s.progress
  /\ s.tries \subseteq 1..s.i /\ s.i <= TotalOf[j] /\ s.progress <= s.i
  /\ s.stopAt >= 0 => s.i <= s.stopAt /\ (s.status = "cancelled" \/ s.at = "over")
Awaits(s, t, b) ==
  /\ s.at = "prechecking" => s.i = 0 /\ b
  /\ s.at \in {"checking", "sending"} => s.i >= 1 /\ s.progress = s.i - 1
  /\ s.at \in {"prechecking", "sleeping", "pausing"} => s.progress = s.i /\ s.i < s.total
  /\ s.at = "checking" => ~b /\ MaySend(s, s.i, t)
  /\ s.at = "sending" => s.i \notin s.invalid
  /\ s.at = "sleeping" => \E d \in Delays : s.wakeAt >= s.handledAt + d
  /\ s.at = "pausing" => \E d \in Delays : s.wakeAt >= s.handledAt + d + BatchPause
Looping(j, s, t, b) ==
  /\ Settled(j, s) /\ Awaits(s, t, b)
  /\ s.at = "none" => s.status = "pending" /\ s.i = 0
  /\ s.at \notin {"none", "over"} => s.status \in {"running", "cancelled"}
  /\ s.at = "over" => s.status \notin {"running", "pending"}
  /\ s.at # "none" => s.total = TotalOf[j]
  /\ ~b => s.invalid = {}
  /\ s.invalid # {} => s.at # "none"

JobsInv == BroadcastTypeOK /\ \A j \in Job : Looping(j, job[j], now, batchCheck)

\* Stands between two messages: everything up to message s.i is settled.
Between(j, s) ==
  /\ s \in JobRecord /\ Settled(j, s) /\ s.progress = s.i /\ s.total = TotalOf[j]
  /\ s.at # "over" /\ s.status \in {"running", "cancelled"}
  /\ ~batchCheck => s.invalid = {}

LEMMA FieldsAre ==
  ASSUME NEW s \in JobRecord
  PROVE  /\ s.i \in Nat /\ s.checked \in Nat /\ s.invalid \in SUBSET Nat /\ s.total \in Nat
         /\ s.progress \in Nat /\ s.errors \in SUBSET Nat /\ s.wakeAt \in Nat /\ s.createdAt \in Nat
         /\ s.place \in Nat /\ s.tries \in SUBSET Nat /\ s.sent \in SUBSET Nat
         /\ s.handledAt \in Nat /\ s.stopAt \in Nat \cup {-1}
BY DEF JobRecord

\* The end of the loop.
LEMMA FinishedIs ==
  ASSUME NEW j \in Job, NEW s, Between(j, s)
  PROVE  /\ Finished(s) \in JobRecord /\ Looping(j, Finished(s), now, batchCheck)
         /\ Finished(s).tries = s.tries
<1> DEFINE r == Finished(s)
<1>1. /\ r \in JobRecord /\ r.at = "over" /\ r.status \in {"failed", "completed"} /\ r.i = s.i
      /\ r.sent = s.sent /\ r.errors = s.errors /\ r.progress = s.progress /\ r.tries = s.tries
      /\ r.stopAt = s.stopAt /\ r.total = s.total /\ r.invalid = s.invalid
  <2> DEFINE v == IF Cardinality(s.errors) = s.total THEN "failed" ELSE "completed"
  <2>1. r = [s EXCEPT !.at = "over", !.status = v] BY DEF Finished
  <2>2. v \in {"failed", "completed"} OBVIOUS
  <2> HIDE DEF v
  <2> QED BY <2>1, <2>2 DEF JobRecord, At, Between
<1> HIDE DEF r
<1>2. Settled(j, r) BY <1>1 DEF Settled, Between
<1>3. Awaits(r, now, batchCheck) BY <1>1 DEF Awaits
<1>4. Looping(j, r, now, batchCheck) BY <1>1, <1>2, <1>3 DEF Looping, Between
<1> QED BY <1>1, <1>4 DEF r

\* The delay behind message s.i.
LEMMA SleptIs ==
  ASSUME NEW j \in Job, NEW s, NEW d \in Delays, now \in Nat, Between(j, s)
  PROVE  /\ Slept(s, d) \in JobRecord /\ Looping(j, Slept(s, d), now, batchCheck)
         /\ Slept(s, d).tries = s.tries
<1>1. CASE s.i = s.total
  <2>1. Slept(s, d) = Finished(s) BY <1>1 DEF Slept
  <2> QED BY <2>1, FinishedIs
<1>2. CASE s.i # s.total
  <2> DEFINE r == [s EXCEPT !.at = "sleeping", !.wakeAt = now + d, !.handledAt = now]
  <2>1. now + d \in Nat BY BroadcastAssumption
  <2>2. /\ r \in JobRecord /\ r.at = "sleeping" /\ r.status = s.status /\ r.i = s.i
        /\ r.sent = s.sent /\ r.errors = s.errors /\ r.progress = s.progress /\ r.tries = s.tries
        /\ r.stopAt = s.stopAt /\ r.total = s.total /\ r.invalid = s.invalid
        /\ r.wakeAt = now + d /\ r.handledAt = now
    BY <2>1 DEF JobRecord, At, Between
  <2>3. Slept(s, d) = r BY <1>2 DEF Slept
  <2> HIDE DEF r
  <2>4. Settled(j, r) BY <2>2 DEF Settled, Between
  <2>5. s.i < s.total
    <3>1. s.i \in Nat /\ s.total \in Nat /\ s.i <= s.total BY FieldsAre DEF Between, Settled
    <3> QED BY <1>2, <3>1
  <2>6. Awaits(r, now, batchCheck) BY <2>1, <2>2, <2>5 DEF Awaits, Between
  <2>7. Looping(j, r, now, batchCheck) BY <2>2, <2>4, <2>6 DEF Looping, Between
  <2> QED BY <2>2, <2>3, <2>7
<1> QED BY <1>1, <1>2

\* Message s.i is found wrong, all before it being settled.
LEMMA WithErrorIs ==
  ASSUME NEW j \in Job, NEW s \in JobRecord, Settled(j, s), s.i >= 1, s.progress = s.i - 1
  PROVE  LET r == WithError(s) IN
         /\ r \in JobRecord /\ Settled(j, r) /\ r.progress = s.i /\ r.i = s.i /\ s.i \in r.errors
         /\ r.at = s.at /\ r.status = s.status /\ r.total = s.total /\ r.tries = s.tries
         /\ r.invalid = s.invalid /\ r.sent = s.sent
<1> DEFINE r == WithError(s)
<1>1. s.i \in Nat /\ s.errors \cup {s.i} \in SUBSET Nat BY FieldsAre
<1>2. /\ r \in JobRecord /\ r.at = s.at /\ r.status = s.status /\ r.i = s.i
      /\ r.sent = s.sent /\ r.errors = s.errors \cup {s.i} /\ r.progress = s.i /\ r.tries = s.tries
      /\ r.stopAt = s.stopAt /\ r.total = s.total /\ r.invalid = s.invalid
  BY <1>1 DEF JobRecord, WithError
<1> HIDE DEF r
<1>3. s.sent \cap s.errors = {} /\ s.sent \cup s.errors = 1..(s.i - 1) BY DEF Settled
<1>4. s.i \notin s.sent BY <1>1, <1>3
<1>5. r.sent \cap r.errors = {} BY <1>2, <1>3, <1>4
<1>6. r.sent \cup r.errors = 1..s.i
  <2>1. r.sent \cup r.errors = 1..(s.i - 1) \cup {s.i} BY <1>2, <1>3
  <2>2. 1..(s.i - 1) \cup {s.i} = 1..s.i BY <1>1
  <2> QED BY <2>1, <2>2
<1>7. Settled(j, r) BY <1>1, <1>2, <1>5, <1>6 DEF Settled
<1> QED BY <1>2, <1>7 DEF r

\* The top of the loop for the message behind the settled ones.
LEMMA TurnIs ==
  ASSUME NEW j \in Job, NEW s, NEW d \in Delays, now \in Nat, batchCheck \in BOOLEAN,
         Between(j, s), MaySend(s, s.i + 1, now)
  PROVE  LET r == Turn(s, s.i + 1, d) IN
         /\ r \in JobRecord /\ Looping(j, r, now, batchCheck)
         /\ r.tries \subseteq s.tries \cup {s.i + 1}
<1> DEFINE k == s.i + 1
<1>1. s \in JobRecord /\ s.i \in Nat /\ k \in Nat /\ s.total \in Nat /\ s.tries \cup {k} \in SUBSET Nat
  BY FieldsAre DEF Between
<1>2. CASE k > s.total
  <2>1. Turn(s, k, d) = Finished(s) BY <1>2 DEF Turn
  <2> QED BY <2>1, FinishedIs
<1>3. CASE ~(k > s.total) /\ s.status = "cancelled"
  <2> DEFINE r == [s EXCEPT !.at = "over"]
  <2>1. Turn(s, k, d) = r BY <1>3 DEF Turn
  <2>2. /\ r \in JobRecord /\ r.at = "over" /\ r.status = "cancelled" /\ r.i = s.i
        /\ r.sent = s.sent /\ r.errors = s.errors /\ r.progress = s.progress /\ r.tries = s.tries
        /\ r.stopAt = s.stopAt /\ r.total = s.total /\ r.invalid = s.invalid
    BY <1>1, <1>3 DEF JobRecord, At
  <2> HIDE DEF r
  <2>3. Settled(j, r) BY <2>2 DEF Settled, Between
  <2>4. Awaits(r, now, batchCheck) BY <2>2 DEF Awaits
  <2>5. Looping(j, r, now, batchCheck) BY <2>2, <2>3, <2>4 DEF Looping, Between
  <2> QED BY <2>1, <2>2, <2>5
<1>4. CASE k <= s.total /\ s.status # "cancelled"
  <2>1. ~(s.stopAt >= 0) BY <1>4 DEF Between, Settled
  <2>2. s.tries \subseteq 1..s.i /\ k \in 1..k /\ s.tries \subseteq 1..k /\ s.tries \cup {k} \subseteq 1..k
    BY <1>1 DEF Between, Settled
  <2>3. k <= TotalOf[j] /\ s.progress <= k /\ s.progress = k - 1 BY <1>1, <1>4 DEF Between
  <2>4. s.sent \cap s.errors = {} /\ s.sent \cup s.errors = 1..s.progress BY DEF Between, Settled
  <2>5. ~(k > s.total) BY <1>1, <1>4
  <2>6. CASE ~batchCheck
    <3> DEFINE r == [s EXCEPT !.i = k, !.at = "checking"]
    <3>1. Turn(s, k, d) = r BY <1>4, <2>5, <2>6 DEF Turn
    <3>2. /\ r \in JobRecord /\ r.at = "checking" /\ r.status = s.status /\ r.i = k
          /\ r.sent = s.sent /\ r.errors = s.errors /\ r.progress = s.progress /\ r.tries = s.tries
          /\ r.stopAt = s.stopAt /\ r.total = s.total /\ r.invalid = s.invalid
          /\ r.handledAt = s.handledAt
      <4> HIDE DEF k
      <4> QED BY <1>1 DEF JobRecord, At
    <3> HIDE DEF r
    <3>3. MaySend(r, k, now) BY <3>2 DEF MaySend
    <3>4. k >= 1 BY <1>1
    <3> HIDE DEF k
    <3>5. Settled(j, r) BY <2>1, <2>2, <2>3, <2>4, <3>2 DEF Settled
    <3>6. Awaits(r, now, batchCheck) BY <2>3, <2>6, <3>2, <3>3, <3>4 DEF Awaits
    <3>7. Looping(j, r, now, batchCheck) BY <3>2, <3>5, <3>6 DEF Looping, Between
    <3>8. r.tries \subseteq s.tries \cup {k} BY <3>2
    <3> QED BY <3>1, <3>2, <3>7, <3>8 DEF k
  <2>7. CASE batchCheck /\ k \in s.invalid
    <3> DEFINE q == [s EXCEPT !.i = k]
    <3>1. Turn(s, k, d) = Slept(WithError(q), d) BY <1>4, <2>5, <2>7 DEF Turn
    <3>2. /\ q \in JobRecord /\ q.at = s.at /\ q.status = s.status /\ q.i = k
          /\ q.sent = s.sent /\ q.errors = s.errors /\ q.progress = s.progress /\ q.tries = s.tries
          /\ q.stopAt = s.stopAt /\ q.total = s.total /\ q.invalid = s.invalid
      <4> HIDE DEF k
      <4> QED BY <1>1 DEF JobRecord
    <3> HIDE DEF q
    <3>3. k >= 1 BY <1>1
    <3> HIDE DEF k
    <3>4. Settled(j, q) BY <2>1, <2>2, <2>3, <2>4, <3>2 DEF Settled
    <3> DEFINE e == WithError(q)
    <3>5. /\ e \in JobRecord /\ Settled(j, e) /\ e.progress = q.i /\ e.i = q.i
          /\ e.at = q.at /\ e.status = q.status /\ e.total = q.total /\ e.tries = q.tries
          /\ e.invalid = q.invalid
      BY <2>3, <3>2, <3>3, <3>4, WithErrorIs
    <3> HIDE DEF e
    <3>6. Between(j, e) BY <3>2, <3>5 DEF Between
    <3>7. /\ Slept(e, d) \in JobRecord /\ Looping(j, Slept(e, d), now, batchCheck)
          /\ Slept(e, d).tries = e.tries
      BY <3>6, SleptIs
    <3> QED BY <3>1, <3>2, <3>5, <3>7 DEF e, k
  <2>8. CASE batchCheck /\ k \notin s.invalid
    <3> DEFINE r == [s EXCEPT !.i = k, !.at = "sending", !.tries = s.tries \cup {k}]
    <3>1. Turn(s, k, d) = r BY <1>4, <2>5, <2>8 DEF Turn
    <3>2. /\ r \in JobRecord /\ r.at = "sending" /\ r.status = s.status /\ r.i = k
          /\ r.sent = s.sent /\ r.errors = s.errors /\ r.progress = s.progress
          /\ r.tries = s.tries \cup {k}
          /\ r.stopAt = s.stopAt /\ r.total = s.total /\ r.invalid = s.invalid
      <4> HIDE DEF k
      <4> QED BY <1>1 DEF JobRecord, At
    <3> HIDE DEF r
    <3>3. k >= 1 BY <1>1
    <3> HIDE DEF k
    <3>4. Settled(j, r) BY <2>1, <2>2, <2>3, <2>4, <3>2 DEF Settled
    <3>5. Awaits(r, now, batchCheck) BY <2>3, <2>8, <3>2, <3>3 DEF Awaits
    <3>6. Looping(j, r, now, batchCheck) BY <3>2, <3>4, <3>5, <2>8 DEF Looping, Between
    <3>7. r.tries \subseteq s.tries \cup {k} BY <3>2
    <3> QED BY <3>1, <3>2, <3>6, <3>7 DEF k
  <2> QED BY <2>6, <2>7, <2>8
<1> QED BY <1>1, <1>2, <1>3, <1>4

\* Whatever a step hands to sendMessage is handed over in time.
Paced == \A j \in Job : \A k \in job'[j].tries \ job[j].tries : MaySend(job[j], k, now)

LEMMA JobsAre ==
  ASSUME JobsInv, NEW j \in Job
  PROVE  /\ now \in Nat /\ batchCheck \in BOOLEAN /\ made \in Nat /\ jobs \subseteq Job
         /\ job \in [Job -> JobRecord] /\ job[j] \in JobRecord
         /\ Looping(j, job[j], now, batchCheck) /\ Settled(j, job[j])
         /\ Awaits(job[j], now, batchCheck)
BY DEF JobsInv, BroadcastTypeOK, Looping

\* The loop of one job goes on.
LEMMA JobGoesOn ==
  ASSUME JobsInv, NEW j \in Job, NEW r \in JobRecord, job' = [job EXCEPT ![j] = r],
         UNCHANGED <<now, batchCheck>>, jobs' \subseteq Job, made' \in Nat,
         Looping(j, r, now, batchCheck),
         \A k \in r.tries \ job[j].tries : MaySend(job[j], k, now)
  PROVE  JobsInv' /\ Paced
<1>1. job \in [Job -> JobRecord] /\ now \in Nat /\ batchCheck \in BOOLEAN BY JobsAre
<1>2. /\ job' \in [Job -> JobRecord]
      /\ \A n \in Job : job'[n] = IF n = j THEN r ELSE job[n]
  BY <1>1
<1>3. ASSUME NEW n \in Job PROVE Looping(n, job'[n], now', batchCheck')
  BY <1>2, JobsAre
<1>4. \A n \in Job : job'[n].i <= TotalOf[n] /\ job'[n].progress <= job'[n].i
  BY <1>3 DEF Looping, Settled
<1>5. BroadcastTypeOK' BY <1>1, <1>2, <1>4 DEF BroadcastTypeOK
<1>6. Paced BY <1>2 DEF Paced
<1> QED BY <1>3, <1>5, <1>6 DEF JobsInv

LEMMA PrecheckedKeeps ==
  ASSUME JobsInv, NEW j \in Job, NEW unknown \in SUBSET (1..TotalOf[j]), NEW d \in Delays,
         Prechecked(j, unknown, d)
  PROVE  JobsInv' /\ Paced
<1> DEFINE o == job[j]
           s == [o EXCEPT !.invalid = o.invalid \cup unknown, !.checked = ChunkEnd(j)]
<1>1. /\ now \in Nat /\ batchCheck \in BOOLEAN /\ made \in Nat /\ jobs \subseteq Job
      /\ o \in JobRecord /\ Looping(j, o, now, batchCheck) /\ Settled(j, o) /\ Awaits(o, now, batchCheck)
  BY JobsAre
<1>2. o.i \in Nat /\ o.invalid \in SUBSET Nat /\ o.total \in Nat /\ o.tries \in SUBSET Nat
      /\ o.checked \in Nat
  BY <1>1, FieldsAre
<1>3. /\ o.at = "prechecking" /\ UNCHANGED <<now, batchCheck, jobs, made>>
      /\ job' = [job EXCEPT ![j] = IF s.checked < s.total THEN s ELSE Turn(s, 1, d)]
  BY <1>1 DEF Prechecked
<1>4. ChunkEnd(j) \in Nat
  <2>1. TotalOf[j] \in Nat /\ CheckChunk \in Nat BY BroadcastAssumption
  <2> HIDE DEF s
  <2> QED BY <1>2, <2>1 DEF ChunkEnd
<1>5. unknown \in SUBSET Nat
  <2>1. TotalOf[j] \in Nat BY BroadcastAssumption
  <2> QED BY <2>1
<1>6. o.invalid \cup unknown \in SUBSET Nat BY <1>2, <1>5
<1>7. /\ s \in JobRecord /\ s.at = "prechecking" /\ s.status = o.status /\ s.i = o.i
      /\ s.sent = o.sent /\ s.errors = o.errors /\ s.progress = o.progress /\ s.tries = o.tries
      /\ s.stopAt = o.stopAt /\ s.total = o.total
  <2> HIDE DEF o
  <2> QED BY <1>1, <1>3, <1>4, <1>6 DEF JobRecord, At
<1> HIDE DEF s
<1>8. batchCheck /\ o.i = 0 /\ o.progress = 0 /\ o.status \in {"running", "cancelled"} /\ o.total = TotalOf[j]
      /\ o.i < o.total
  BY <1>1, <1>3 DEF Looping, Awaits
<1> HIDE DEF o
<1>9. Settled(j, s) BY <1>1, <1>7, <1>3 DEF Settled
<1>10. Looping(j, s, now, batchCheck)
  <2>1. Awaits(s, now, batchCheck) BY <1>7, <1>8 DEF Awaits
  <2> QED BY <1>7, <1>8, <1>9, <2>1 DEF Looping
<1>11. Between(j, s) BY <1>7, <1>8, <1>9 DEF Between
<1>12. MaySend(s, s.i + 1, now) BY <1>7, <1>8 DEF MaySend
<1>13. /\ Turn(s, s.i + 1, d) \in JobRecord /\ Looping(j, Turn(s, s.i + 1, d), now, batchCheck)
       /\ Turn(s, s.i + 1, d).tries \subseteq s.tries \cup {s.i + 1}
  BY <1>1, <1>11, <1>12, TurnIs
<1>14. s.i + 1 = 1 BY <1>7, <1>8
<1>15. CASE job' = [job EXCEPT ![j] = s]
  <2>1. \A k \in s.tries \ job[j].tries : MaySend(job[j], k, now) BY <1>7 DEF o
  <2> QED BY <1>1, <1>3, <1>7, <1>10, <1>15, <2>1, JobGoesOn
<1>16. CASE job' = [job EXCEPT ![j] = Turn(s, 1, d)]
  <2> DEFINE r == Turn(s, 1, d)
  <2>1. r \in JobRecord /\ Looping(j, r, now, batchCheck) /\ r.tries \subseteq s.tries \cup {1}
    BY <1>13, <1>14
  <2> HIDE DEF r
  <2>2. \A k \in r.tries \ job[j].tries : MaySend(job[j], k, now)
    BY <1>7, <2>1 DEF o, MaySend
  <2> QED BY <1>1, <1>3, <1>16, <2>1, <2>2, JobGoesOn DEF r
<1> QED BY <1>3, <1>15, <1>16

LEMMA CheckedKeeps ==
  ASSUME JobsInv, NEW j \in Job, NEW exists \in BOOLEAN, NEW d \in Delays, Checked(j, exists, d)
  PROVE  JobsInv' /\ Paced
<1> DEFINE s == job[j]
           r == [s EXCEPT !.at = "sending", !.tries = s.tries \cup {s.i}]
           e == WithError(s)
<1>1. /\ now \in Nat /\ batchCheck \in BOOLEAN /\ made \in Nat /\ jobs \subseteq Job
      /\ s \in JobRecord /\ Looping(j, s, now, batchCheck) /\ Settled(j, s) /\ Awaits(s, now, batchCheck)
  BY JobsAre
<1>2. s.i \in Nat /\ s.tries \cup {s.i} \in SUBSET Nat /\ s.invalid \in SUBSET Nat BY <1>1, FieldsAre
<1>3. /\ s.at = "checking" /\ UNCHANGED <<now, batchCheck, jobs, made>>
      /\ job' = [job EXCEPT ![j] = IF exists THEN r ELSE Slept(e, d)]
  BY DEF Checked
<1>4. /\ s.i >= 1 /\ s.progress = s.i - 1 /\ ~batchCheck /\ MaySend(s, s.i, now) /\ s.invalid = {}
      /\ s.status \in {"running", "cancelled"} /\ s.total = TotalOf[j]
  BY <1>1, <1>3 DEF Looping, Awaits
<1>5. CASE exists
  <2>1. /\ r \in JobRecord /\ r.at = "sending" /\ r.status = s.status /\ r.i = s.i
        /\ r.sent = s.sent /\ r.errors = s.errors /\ r.progress = s.progress
        /\ r.tries = s.tries \cup {s.i}
        /\ r.stopAt = s.stopAt /\ r.total = s.total /\ r.invalid = s.invalid
    <3> HIDE DEF s
    <3> QED BY <1>1, <1>2 DEF JobRecord, At
  <2>2. job' = [job EXCEPT ![j] = r] BY <1>3, <1>5
  <2> HIDE DEF r
  <2>3. \A k \in r.tries \ job[j].tries : MaySend(job[j], k, now) BY <1>4, <2>1
  <2> HIDE DEF s
  <2>4. s.i \in 1..s.i /\ s.tries \cup {s.i} \subseteq 1..s.i BY <1>1, <1>2, <1>4 DEF Settled
  <2>5. Settled(j, r) BY <1>1, <1>3, <2>1, <2>4 DEF Settled
  <2>6. Awaits(r, now, batchCheck) BY <1>4, <2>1 DEF Awaits
  <2>7. Looping(j, r, now, batchCheck) BY <1>4, <2>1, <2>5, <2>6 DEF Looping
  <2> QED BY <1>1, <1>3, <2>1, <2>2, <2>3, <2>7, JobGoesOn
<1>6. CASE ~exists
  <2>1. /\ e \in JobRecord /\ Settled(j, e) /\ e.progress = s.i /\ e.i = s.i
        /\ e.at = s.at /\ e.status = s.status /\ e.total = s.total /\ e.tries = s.tries
        /\ e.invalid = s.invalid
    BY <1>1, <1>4, WithErrorIs
  <2> HIDE DEF e
  <2>2. Between(j, e) BY <1>3, <1>4, <2>1 DEF Between
  <2> DEFINE q == Slept(e, d)
  <2>3. q \in JobRecord /\ Looping(j, q, now, batchCheck) /\ q.tries = e.tries
    BY <1>1, <2>2, SleptIs
  <2>4. job' = [job EXCEPT ![j] = q] BY <1>3, <1>6
  <2> HIDE DEF q
  <2>5. \A k \in q.tries \ job[j].tries : MaySend(job[j], k, now) BY <2>1, <2>3
  <2> QED BY <1>1, <1>3, <2>3, <2>4, <2>5, JobGoesOn
<1> QED BY <1>5, <1>6

LEMMA SendSettledKeeps ==
  ASSUME JobsInv, NEW j \in Job, NEW ok \in BOOLEAN, NEW d \in Delays, SendSettled(j, ok, d)
  PROVE  JobsInv' /\ Paced
<1> DEFINE s == job[j]
           x == [s EXCEPT !.progress = s.i, !.sent = s.sent \cup {s.i}]
           e == WithError(s)
<1>1. /\ now \in Nat /\ batchCheck \in BOOLEAN /\ made \in Nat /\ jobs \subseteq Job
      /\ s \in JobRecord /\ Looping(j, s, now, batchCheck) /\ Settled(j, s) /\ Awaits(s, now, batchCheck)
  BY JobsAre
<1>2. s.i \in Nat /\ s.sent \cup {s.i} \in SUBSET Nat BY <1>1, FieldsAre
<1>3. /\ s.at = "sending" /\ UNCHANGED <<now, batchCheck, jobs, made>>
      /\ job' = [job EXCEPT ![j] = IF ok THEN Slept(x, d) ELSE Caught(s, d)]
  BY DEF SendSettled
<1>4. /\ s.i >= 1 /\ s.progress = s.i - 1 /\ s.i \notin s.invalid /\ (~batchCheck => s.invalid = {})
      /\ s.status \in {"running", "cancelled"} /\ s.total = TotalOf[j]
  BY <1>1, <1>3 DEF Looping, Awaits
<1>5. CASE ok
  <2>1. /\ x \in JobRecord /\ x.at = "sending" /\ x.status = s.status /\ x.i = s.i
        /\ x.sent = s.sent \cup {s.i} /\ x.errors = s.errors /\ x.progress = s.i
        /\ x.tries = s.tries /\ x.stopAt = s.stopAt /\ x.total = s.total /\ x.invalid = s.invalid
    <3> HIDE DEF s
    <3> QED BY <1>1, <1>2, <1>3 DEF JobRecord
  <2> DEFINE q == Slept(x, d)
  <2>2. job' = [job EXCEPT ![j] = q] BY <1>3, <1>5
  <2> HIDE DEF x
  <2>3. Settled(j, x)
    <3>1. s.sent \cap s.errors = {} /\ s.sent \cup s.errors = 1..(s.i - 1) BY <1>1, <1>4 DEF Settled
    <3>2. s.i \notin s.errors BY <1>2, <3>1
    <3>3. x.sent \cap x.errors = {} BY <2>1, <3>1, <3>2
    <3>4. x.sent \cup x.errors = 1..(s.i - 1) \cup {s.i} BY <2>1, <3>1
    <3>5. 1..(s.i - 1) \cup {s.i} = 1..s.i BY <1>2, <1>4
    <3>6. x.sent \cup x.errors = 1..x.progress BY <2>1, <3>4, <3>5
    <3> HIDE DEF s
    <3> QED BY <1>1, <1>2, <1>3, <2>1, <3>3, <3>6 DEF Settled
  <2>4. Between(j, x) BY <1>4, <2>1, <2>3 DEF Between
  <2>5. q \in JobRecord /\ Looping(j, q, now, batchCheck) /\ q.tries = x.tries BY <1>1, <2>4, SleptIs
  <2> HIDE DEF q
  <2>6. \A k \in q.tries \ job[j].tries : MaySend(job[j], k, now) BY <2>1, <2>5
  <2> QED BY <1>1, <1>3, <2>2, <2>5, <2>6, JobGoesOn
<1>6. CASE ~ok
  <2> DEFINE q == Turn(e, s.i + 1, d)
  <2>1. /\ e \in JobRecord /\ Settled(j, e) /\ e.progress = s.i /\ e.i = s.i /\ s.i \in e.errors
        /\ e.at = s.at /\ e.status = s.status /\ e.total = s.total /\ e.tries = s.tries
        /\ e.invalid = s.invalid /\ e.sent = s.sent
    BY <1>1, <1>4, WithErrorIs
  <2>2. job' = [job EXCEPT ![j] = q] BY <1>3, <1>6 DEF Caught
  <2> HIDE DEF e
  <2>3. Between(j, e) BY <1>3, <1>4, <2>1 DEF Between
  <2>4. s.i \notin s.sent BY <2>1 DEF Settled
  <2>5. (s.i + 1) - 1 = s.i BY <1>2
  <2>6. MaySend(e, s.i + 1, now) /\ MaySend(s, s.i + 1, now) BY <1>4, <2>1, <2>4, <2>5 DEF MaySend
  <2>7. q \in JobRecord /\ Looping(j, q, now, batchCheck) /\ q.tries \subseteq e.tries \cup {s.i + 1}
    BY <1>1, <2>1, <2>3, <2>6, TurnIs
  <2> HIDE DEF q
  <2>8. \A k \in q.tries \ job[j].tries : MaySend(job[j], k, now) BY <2>1, <2>6, <2>7
  <2> QED BY <1>1, <1>3, <2>2, <2>7, <2>8, JobGoesOn
<1> QED BY <1>5, <1>6

LEMMA WakeKeeps ==
  ASSUME JobsInv, NEW j \in Job, NEW d \in Delays, Wake(j, d)
  PROVE  JobsInv' /\ Paced
<1> DEFINE s == job[j]
           r == [s EXCEPT !.at = "pausing", !.wakeAt = now + BatchPause]
           q == Turn(s, s.i + 1, d)
<1>1. /\ now \in Nat /\ batchCheck \in BOOLEAN /\ made \in Nat /\ jobs \subseteq Job
      /\ s \in JobRecord /\ Looping(j, s, now, batchCheck) /\ Settled(j, s) /\ Awaits(s, now, batchCheck)
  BY JobsAre
<1>2. s.i \in Nat /\ s.wakeAt \in Nat /\ s.handledAt \in Nat BY <1>1, FieldsAre
<1>3. /\ s.at \in {"sleeping", "pausing"} /\ now >= s.wakeAt /\ UNCHANGED <<now, batchCheck, jobs, made>>
      /\ job' = [job EXCEPT ![j] = Rested(s, d)]
  BY <1>1 DEF Wake
<1>4. /\ s.progress = s.i /\ s.i < s.total /\ (~batchCheck => s.invalid = {})
      /\ s.status \in {"running", "cancelled"} /\ s.total = TotalOf[j]
      /\ s.at = "sleeping" => \E w \in Delays : s.wakeAt >= s.handledAt + w
      /\ s.at = "pausing" => \E w \in Delays : s.wakeAt >= s.handledAt + w + BatchPause
  BY <1>1, <1>3 DEF Looping, Awaits
<1>5. BatchPause \in Nat /\ Delays \subseteq Nat BY BroadcastAssumption
<1>6. CASE s.at = "sleeping" /\ s.i % BatchSize = 0
  <2>1. Rested(s, d) = r BY <1>6 DEF Rested
  <2>2. now + BatchPause \in Nat BY <1>1, <1>5
  <2>3. /\ r \in JobRecord /\ r.at = "pausing" /\ r.status = s.status /\ r.i = s.i
        /\ r.sent = s.sent /\ r.errors = s.errors /\ r.progress = s.progress /\ r.tries = s.tries
        /\ r.stopAt = s.stopAt /\ r.total = s.total /\ r.invalid = s.invalid
        /\ r.wakeAt = now + BatchPause /\ r.handledAt = s.handledAt
    <3> HIDE DEF s
    <3> QED BY <1>1, <2>2 DEF JobRecord, At
  <2>4. job' = [job EXCEPT ![j] = r] BY <1>3, <2>1
  <2> HIDE DEF r
  <2>5. \E w \in Delays : r.wakeAt >= r.handledAt + w + BatchPause
    <3>1. PICK w \in Delays : s.wakeAt >= s.handledAt + w BY <1>4, <1>6
    <3>2. w \in Nat BY <1>5
    <3> HIDE DEF s
    <3>3. now + BatchPause >= s.handledAt + w + BatchPause BY <1>1, <1>2, <1>3, <1>5, <3>1, <3>2
    <3> QED BY <2>3, <3>3
  <2>6. Settled(j, r) BY <1>1, <1>3, <2>3 DEF Settled
  <2>7. Awaits(r, now, batchCheck) BY <1>4, <2>3, <2>5 DEF Awaits
  <2>8. Looping(j, r, now, batchCheck) BY <1>4, <2>3, <2>6, <2>7 DEF Looping
  <2>9. \A k \in r.tries \ job[j].tries : MaySend(job[j], k, now) BY <2>3
  <2> QED BY <1>1, <1>3, <2>3, <2>4, <2>8, <2>9, JobGoesOn
<1>7. CASE ~(s.at = "sleeping" /\ s.i % BatchSize = 0)
  <2>1. Rested(s, d) = q BY <1>7 DEF Rested
  <2>2. Between(j, s) BY <1>1, <1>3, <1>4 DEF Between
  <2>3. (s.i + 1) - 1 = s.i BY <1>2
  <2>4. \E w \in Delays : now >= s.handledAt + w + Gap(s.i)
    <3>1. CASE s.at = "sleeping"
      <4>1. PICK w \in Delays : s.wakeAt >= s.handledAt + w BY <1>4, <3>1
      <4>2. w \in Nat /\ Gap(s.i) = 0 BY <1>5, <1>7, <3>1 DEF Gap
      <4> HIDE DEF s
      <4>3. now >= s.handledAt + w + Gap(s.i) BY <1>1, <1>2, <1>3, <4>1, <4>2
      <4> QED BY <4>3
    <3>2. CASE s.at = "pausing"
      <4>1. PICK w \in Delays : s.wakeAt >= s.handledAt + w + BatchPause BY <1>4, <3>2
      <4>2. w \in Nat /\ Gap(s.i) \in {0, BatchPause} BY <1>5 DEF Gap
      <4> HIDE DEF s
      <4>3. now >= s.handledAt + w + Gap(s.i) BY <1>1, <1>2, <1>3, <1>5, <4>1, <4>2
      <4> QED BY <4>3
    <3> QED BY <1>3, <3>1, <3>2
  <2>5. MaySend(s, s.i + 1, now) BY <2>3, <2>4 DEF MaySend
  <2>6. q \in JobRecord /\ Looping(j, q, now, batchCheck) /\ q.tries \subseteq s.tries \cup {s.i + 1}
    BY <1>1, <2>2, <2>5, TurnIs
  <2>7. job' = [job EXCEPT ![j] = q] BY <1>3, <2>1
  <2> HIDE DEF q
  <2>8. \A k \in q.tries \ job[j].tries : MaySend(job[j], k, now) BY <2>5, <2>6
  <2> QED BY <1>1, <1>3, <2>6, <2>7, <2>8, JobGoesOn
<1> QED BY <1>6, <1>7

LEMMA CancelKeeps ==
  ASSUME JobsInv, NEW j \in Job, CancelBroadcastJob(j)
  PROVE  JobsInv' /\ Paced
<1> DEFINE s == job[j]
           r == [s EXCEPT !.status = "cancelled", !.stopAt = s.i]
<1>1. /\ now \in Nat /\ batchCheck \in BOOLEAN /\ made \in Nat /\ jobs \subseteq Job
      /\ job \in [Job -> JobRecord]
      /\ s \in JobRecord /\ Looping(j, s, now, batchCheck) /\ Settled(j, s) /\ Awaits(s, now, batchCheck)
  BY JobsAre
<1>2. s.i \in Nat BY <1>1, FieldsAre
<1>3. s.status = "running" /\ UNCHANGED <<now, batchCheck, jobs, made>> BY DEF CancelBroadcastJob
<1>4. job' = [job EXCEPT ![j] = r] BY <1>1 DEF CancelBroadcastJob
<1>5. s.at \notin {"none", "over"} BY <1>1, <1>3 DEF Looping
<1>6. /\ r \in JobRecord /\ r.at = s.at /\ r.status = "cancelled" /\ r.i = s.i
      /\ r.sent = s.sent /\ r.errors = s.errors /\ r.progress = s.progress /\ r.tries = s.tries
      /\ r.stopAt = s.i /\ r.total = s.total /\ r.invalid = s.invalid
      /\ r.wakeAt = s.wakeAt /\ r.handledAt = s.handledAt
  <2> HIDE DEF s
  <2> QED BY <1>1, <1>2 DEF JobRecord
<1> HIDE DEF r
<1>7. Settled(j, r) BY <1>1, <1>2, <1>6 DEF Settled
<1>8. Awaits(r, now, batchCheck) BY <1>1, <1>6 DEF Awaits, MaySend
<1>9. Looping(j, r, now, batchCheck) BY <1>1, <1>5, <1>6, <1>7, <1>8 DEF Looping
<1>10. \A k \in r.tries \ job[j].tries : MaySend(job[j], k, now) BY <1>6
<1> QED BY <1>1, <1>3, <1>4, <1>6, <1>9, <1>10, JobGoesOn

LEMMA CreateKeeps ==
  ASSUME JobsInv, NEW j \in Job, NEW exists \in BOOLEAN, NEW d \in Delays,
         CreateBroadcastJob(j, exists, d)
  PROVE  JobsInv' /\ Paced
<1> DEFINE s == [Fresh EXCEPT !.createdAt = now, !.place = made, !.total = TotalOf[j],
                              !.status = "running"]
           gone == [s EXCEPT !.at = "over", !.status = "failed"]
           check == [s EXCEPT !.at = "prechecking"]
<1>1. /\ now \in Nat /\ batchCheck \in BOOLEAN /\ made \in Nat /\ jobs \subseteq Job
      /\ Looping(j, job[j], now, batchCheck)
      /\ TotalOf[j] \in Nat \ {0}
  BY JobsAre, BroadcastAssumption
<1>2. /\ UNCHANGED <<now, batchCheck>> /\ jobs' = CleanedUp \cup {j} /\ made' = made + 1
      /\ job' = [job EXCEPT ![j] = IF ~exists THEN gone ELSE IF batchCheck THEN check ELSE Turn(s, 1, d)]
  BY DEF CreateBroadcastJob
<1>3. jobs' \subseteq Job /\ made' \in Nat BY <1>1, <1>2 DEF CleanedUp, Young
<1>4. /\ s \in JobRecord /\ s.at = "none" /\ s.status = "running" /\ s.i = 0 /\ s.progress = 0
      /\ s.sent = {} /\ s.errors = {} /\ s.tries = {} /\ s.invalid = {} /\ s.stopAt = -1
      /\ s.total = TotalOf[j]
  BY <1>1 DEF Fresh, JobRecord, At
<1> HIDE DEF s
<1>5. Settled(j, s)
  <2>1. 1..0 = {} OBVIOUS
  <2> QED BY <1>1, <1>4, <2>1 DEF Settled
<1>6. \A r : \A k \in r.tries \ job[j].tries : k = 1 => MaySend(job[j], k, now) BY DEF MaySend
<1>7. CASE job' = [job EXCEPT ![j] = gone]
  <2>1. /\ gone \in JobRecord /\ gone.at = "over" /\ gone.status = "failed" /\ gone.i = 0
        /\ gone.sent = s.sent /\ gone.errors = s.errors /\ gone.progress = 0
        /\ gone.tries = {} /\ gone.stopAt = -1 /\ gone.total = s.total /\ gone.invalid = {}
    BY <1>4 DEF JobRecord, At
  <2> HIDE DEF gone
  <2>2. Settled(j, gone) BY <1>4, <1>5, <2>1 DEF Settled
  <2>3. Looping(j, gone, now, batchCheck) BY <1>4, <2>1, <2>2 DEF Looping, Awaits
  <2>4. \A k \in gone.tries \ job[j].tries : MaySend(job[j], k, now) BY <2>1
  <2> QED BY <1>2, <1>3, <1>7, <2>1, <2>3, <2>4, JobGoesOn
<1>8. CASE batchCheck /\ job' = [job EXCEPT ![j] = check]
  <2>1. /\ check \in JobRecord /\ check.at = "prechecking" /\ check.status = "running" /\ check.i = 0
        /\ check.sent = s.sent /\ check.errors = s.errors /\ check.progress = 0
        /\ check.tries = {} /\ check.stopAt = -1 /\ check.total = s.total /\ check.invalid = {}
    BY <1>4 DEF JobRecord, At
  <2> HIDE DEF check
  <2>2. Settled(j, check) BY <1>4, <1>5, <2>1 DEF Settled
  <2>3. 0 < TotalOf[j] BY <1>1
  <2>4. Awaits(check, now, batchCheck) BY <1>4, <1>8, <2>1, <2>3 DEF Awaits
  <2>5. Looping(j, check, now, batchCheck) BY <1>4, <2>1, <2>2, <2>4 DEF Looping
  <2>6. \A k \in check.tries \ job[j].tries : MaySend(job[j], k, now) BY <2>1
  <2> QED BY <1>2, <1>3, <1>8, <2>1, <2>5, <2>6, JobGoesOn
<1>9. CASE job' = [job EXCEPT ![j] = Turn(s, 1, d)]
  <2> DEFINE r == Turn(s, 1, d)
  <2>1. Between(j, s) BY <1>4, <1>5 DEF Between
  <2>2. MaySend(s, s.i + 1, now) /\ s.i + 1 = 1 BY <1>4 DEF MaySend
  <2>3. r \in JobRecord /\ Looping(j, r, now, batchCheck) /\ r.tries \subseteq s.tries \cup {1}
    BY <1>1, <2>1, <2>2, TurnIs
  <2>4. job' = [job EXCEPT ![j] = r] BY <1>9
  <2> HIDE DEF r
  <2>5. \A k \in r.tries \ job[j].tries : MaySend(job[j], k, now) BY <1>4, <1>6, <2>3
  <2> QED BY <1>2, <1>3, <2>3, <2>4, <2>5, JobGoesOn
<1> QED BY <1>2, <1>7, <1>8, <1>9

LEMMA JobsStart == ASSUME Init PROVE JobsInv
<1>1. /\ now = 0 /\ batchCheck \in BOOLEAN /\ jobs = {} /\ made = 0
      /\ \A j \in Job : job[j] = Fresh
      /\ job = [j \in Job |-> Fresh]
  BY DEF Init
<1>2. /\ Fresh \in JobRecord /\ Fresh.at = "none" /\ Fresh.status = "pending" /\ Fresh.i = 0
      /\ Fresh.progress = 0 /\ Fresh.sent = {} /\ Fresh.errors = {} /\ Fresh.tries = {}
      /\ Fresh.invalid = {} /\ Fresh.stopAt = -1
  BY DEF Fresh, JobRecord, At
<1>3. job \in [Job -> JobRecord] BY <1>1, <1>2
<1>4. ASSUME NEW j \in Job PROVE Looping(j, Fresh, 0, batchCheck) /\ 0 <= TotalOf[j]
  <2>1. 1..0 = {} /\ TotalOf[j] \in Nat /\ ~(-1 >= 0) BY BroadcastAssumption
  <2>2. Settled(j, Fresh) BY <1>2, <2>1 DEF Settled
  <2>3. Awaits(Fresh, 0, batchCheck) BY <1>2 DEF Awaits
  <2> QED BY <1>2, <2>1, <2>2, <2>3 DEF Looping
<1>5. BroadcastTypeOK BY <1>1, <1>2, <1>3, <1>4 DEF BroadcastTypeOK
<1>6. \A j \in Job : Looping(j, job[j], now, batchCheck) BY <1>1, <1>4
<1> QED BY <1>5, <1>6 DEF JobsInv

\* Time passes, and the map is cleaned: the loops stay where they are.
LEMMA LoopsStay ==
  ASSUME JobsInv, UNCHANGED <<batchCheck, job, made>>, jobs' \subseteq Job, now' \in {now, now + 1}
  PROVE  JobsInv' /\ Paced
<1>1. now \in Nat /\ now' \in Nat /\ now' >= now BY JobsAre DEF JobsInv, BroadcastTypeOK
<1>2. ASSUME NEW j \in Job PROVE Looping(j, job[j], now', batchCheck)
  <2> DEFINE s == job[j]
  <2>1. /\ s \in JobRecord /\ Looping(j, s, now, batchCheck) /\ Settled(j, s)
        /\ Awaits(s, now, batchCheck)
    BY JobsAre
  <2> HIDE DEF s
  <2>2. ASSUME NEW k \in Nat, MaySend(s, k, now) PROVE MaySend(s, k, now')
    <3> SUFFICES ASSUME k > 1 /\ (k - 1 \in s.sent \/ k - 1 \in s.invalid)
                 PROVE  \E d \in Delays : now' >= s.handledAt + d + Gap(k - 1)
      BY DEF MaySend
    <3>1. PICK d \in Delays : now >= s.handledAt + d + Gap(k - 1) BY <2>2 DEF MaySend
    <3>2. s.handledAt \in Nat /\ d \in Nat /\ Gap(k - 1) \in Nat
      BY <2>1, FieldsAre, BroadcastAssumption DEF Gap
    <3>3. now' >= s.handledAt + d + Gap(k - 1) BY <1>1, <3>1, <3>2
    <3> QED BY <3>3
  <2>3. s.i \in Nat BY <2>1, FieldsAre
  <2>4. Awaits(s, now', batchCheck) BY <2>1, <2>2, <2>3 DEF Awaits
  <2>5. Looping(j, s, now', batchCheck) BY <2>1, <2>4 DEF Looping
  <2> QED BY <2>5 DEF s
<1>3. BroadcastTypeOK' BY <1>1 DEF JobsInv, BroadcastTypeOK
<1>4. \A j \in Job : Looping(j, job'[j], now', batchCheck') BY <1>2
<1>5. Paced BY DEF Paced
<1> QED BY <1>3, <1>4, <1>5 DEF JobsInv

LEMMA JobsStep == ASSUME JobsInv, [Next]_vars PROVE JobsInv' /\ Paced
<1>1. ASSUME NEW j \in Job, NEW exists \in BOOLEAN, NEW d \in Delays, CreateBroadcastJob(j, exists, d)
      PROVE  JobsInv' /\ Paced
  BY <1>1, CreateKeeps
<1>2. ASSUME NEW j \in Job, NEW d \in Delays, NEW unknown \in SUBSET (1..TotalOf[j]),
             Prechecked(j, unknown, d)
      PROVE  JobsInv' /\ Paced
  BY <1>2, PrecheckedKeeps
<1>3. ASSUME NEW j \in Job, NEW d \in Delays, NEW yes \in BOOLEAN, Checked(j, yes, d)
      PROVE  JobsInv' /\ Paced
  BY <1>3, CheckedKeeps
<1>4. ASSUME NEW j \in Job, NEW d \in Delays, NEW yes \in BOOLEAN, SendSettled(j, yes, d)
      PROVE  JobsInv' /\ Paced
  BY <1>4, SendSettledKeeps
<1>5. ASSUME NEW j \in Job, NEW d \in Delays, Wake(j, d) PROVE JobsInv' /\ Paced
  BY <1>5, WakeKeeps
<1>6. ASSUME NEW j \in Job, CancelBroadcastJob(j) PROVE JobsInv' /\ Paced
  BY <1>6, CancelKeeps
<1>7. jobs \subseteq Job BY DEF JobsInv, BroadcastTypeOK
<1>8. CASE CleanUpOldJobs
  <2>1. jobs' \subseteq Job /\ UNCHANGED <<now, batchCheck, job, made>>
    BY <1>7, <1>8 DEF CleanUpOldJobs, CleanedUp, Young
  <2> QED BY <2>1, LoopsStay
<1>9. CASE Tick BY <1>7, <1>9, LoopsStay DEF Tick
<1>10. CASE UNCHANGED vars BY <1>7, <1>10, LoopsStay DEF vars
<1> QED BY <1>1, <1>2, <1>3, <1>4, <1>5, <1>6, <1>8, <1>9, <1>10 DEF Next, Step

LEMMA JobsAlways == Spec => []JobsInv
<1>1. Init => JobsInv BY JobsStart
<1>2. JobsInv /\ [Next]_vars => JobsInv' BY JobsStep
<1> QED BY <1>1, <1>2, PTL DEF Spec

\* A job never tries a message beyond the one it is at, nor, once cancelled, goes on.
LEMMA JobsImply == ASSUME JobsInv PROVE BroadcastTypeOK /\ JobsAreHonest
<1>1. ASSUME NEW j \in Job, job[j].stopAt >= 0, NEW k \in job[j].tries PROVE k <= job[j].stopAt
  <2> DEFINE s == job[j]
  <2>1. s \in JobRecord /\ Settled(j, s) BY JobsAre
  <2>2. s.i \in Nat /\ s.stopAt \in Int BY <2>1, FieldsAre
  <2>3. k \in 1..s.i /\ s.i <= s.stopAt BY <1>1, <2>1 DEF Settled
  <2> HIDE DEF s
  <2>4. k <= s.stopAt BY <2>2, <2>3
  <2> QED BY <2>4 DEF s
<1>2. CancelStops BY <1>1 DEF CancelStops
<1>3. ProgressIsHonest BY JobsAre DEF ProgressIsHonest, Settled
<1> QED BY <1>2, <1>3 DEF JobsInv, JobsAreHonest

\* For every job and every interleaving of the loops with cancellations and clean-up: no
\* message behind the one in progress is sent once a cancellation was accepted, and what a
\* client reads of the progress is what was sent and what failed.
THEOREM JobsHonest == Spec => [](BroadcastTypeOK /\ JobsAreHonest)
<1>1. JobsInv => BroadcastTypeOK /\ JobsAreHonest BY JobsImply
<1> QED BY <1>1, JobsAlways, PTL

\* For any delays, batch size and pause: behind a message that did not throw the next is sent
\* only after a configured delay, and behind the last of a batch also the batch pause.
THEOREM SendsPaced == Spec => SendsArePaced
<1>1. JobsInv /\ [Next]_vars =>
        [\A j \in Job : \A k \in job'[j].tries \ job[j].tries :
           k > 1 /\ (k - 1 \in job[j].sent \/ k - 1 \in job[j].invalid) =>
             \E d \in Delays : now >= job[j].handledAt + d
                                       + (IF (k - 1) % BatchSize = 0 THEN BatchPause ELSE 0)]_vars
  BY JobsStep DEF Paced, MaySend, Gap
<1> QED BY <1>1, JobsAlways, PTL DEF Spec, SendsArePaced

-----------------------------------------------------------------------------
(* The map of jobs.                                                        *)

\* The map holds finitely many jobs, so its clean-up can count them.
LEMMA MapStep ==
  ASSUME JobsInv, IsFiniteSet(jobs), [Next]_vars
  PROVE  /\ IsFiniteSet(jobs')
         /\ jobs' # jobs => \/ jobs' = CleanedUp
                            \/ \E j \in Job : job[j].at = "none" /\ jobs' = CleanedUp \cup {j}
<1>1. CleanedUp \subseteq jobs BY DEF CleanedUp, Young
<1>2. IsFiniteSet(CleanedUp) BY <1>1, FS_Subset
<1>3. CASE jobs' = jobs BY <1>3
<1>4. CASE jobs' = CleanedUp BY <1>2, <1>4
<1>5. CASE \E j \in Job : job[j].at = "none" /\ jobs' = CleanedUp \cup {j}
  <2>1. PICK j \in Job : jobs' = CleanedUp \cup {j} BY <1>5
  <2>2. IsFiniteSet(CleanedUp \cup {j}) BY <1>2, FS_AddElement
  <2> QED BY <1>5, <2>1, <2>2
<1>6. \/ jobs' = jobs \/ jobs' = CleanedUp
      \/ \E j \in Job : job[j].at = "none" /\ jobs' = CleanedUp \cup {j}
  BY DEF Next, Step, CreateBroadcastJob, Prechecked, Checked, SendSettled, Wake,
         CancelBroadcastJob, CleanUpOldJobs, Tick, vars
<1> QED BY <1>3, <1>4, <1>5, <1>6

\* Before is transitive: it compares pairs of numbers.
LEMMA BeforeIsTransitive ==
  ASSUME JobsInv, NEW i \in Job, NEW j \in Job, NEW k \in Job, Before(i, j), Before(j, k)
  PROVE  Before(i, k)
<1>1. \A n \in Job : job[n].createdAt \in Nat /\ job[n].place \in Nat BY JobsAre, FieldsAre
<1> QED BY <1>1 DEF Before

\* What clean-up removes has ended; it is too old, or older than all that stays and has ended,
\* and then the map is over its limit.
LEMMA RemovedWell ==
  ASSUME JobsInv, IsFiniteSet(jobs), NEW j \in jobs, j \notin CleanedUp
  PROVE  /\ ~Active(j)
         /\ \/ now - job[j].createdAt > MaxAge
            \/ /\ Cardinality(jobs) > MaxJobs
               /\ \A k \in CleanedUp : Before(k, j) => Active(k)
<1>1. /\ jobs \subseteq Job /\ now \in Nat /\ job[j].createdAt \in Nat /\ MaxAge \in Nat /\ MaxJobs \in Nat
  BY JobsAre, FieldsAre, BroadcastAssumption DEF JobsInv, BroadcastTypeOK
<1>2. CASE j \notin Young BY <1>1, <1>2 DEF Young
<1>3. CASE j \in Young
  <2> DEFINE ended == {x \in Young : ~Active(x)}
             first(n) == {x \in ended : Before(x, n)}
             over == Cardinality(Young) - MaxJobs
  <2>1. OldestEnded(Young) = {x \in ended : Cardinality(first(x)) < over} BY DEF OldestEnded
  <2>2. Young \subseteq jobs /\ CleanedUp = Young \ OldestEnded(Young) BY DEF Young, CleanedUp
  <2>3. j \in ended /\ Cardinality(first(j)) < over BY <1>3, <2>1, <2>2
  <2>4. /\ IsFiniteSet(Young) /\ Cardinality(Young) \in Nat /\ Cardinality(jobs) \in Nat
        /\ Cardinality(Young) <= Cardinality(jobs)
    BY <2>2, FS_Subset, FS_CardinalityType
  <2>5. \A n \in Job : IsFiniteSet(first(n)) /\ Cardinality(first(n)) \in Nat
    <3>1. \A n : first(n) \subseteq Young OBVIOUS
    <3> HIDE DEF first
    <3> QED BY <2>4, <3>1, FS_Subset, FS_CardinalityType
  <2>6. ~Active(j) BY <2>3
  <2>7. Cardinality(jobs) > MaxJobs
    <3>1. j \in Job /\ over = Cardinality(Young) - MaxJobs BY <1>1
    <3> HIDE DEF first, over, ended
    <3>2. Cardinality(first(j)) \in Nat BY <2>5, <3>1
    <3> QED BY <1>1, <2>3, <2>4, <3>1, <3>2
  <2>8. ASSUME NEW k \in CleanedUp, Before(k, j), ~Active(k) PROVE FALSE
    <3>1. k \in ended /\ j \in Job /\ k \in Job BY <1>1, <2>2, <2>8
    <3>2. \A x \in ended : Before(x, k) => Before(x, j)
      BY <1>1, <2>2, <2>8, <3>1, BeforeIsTransitive
    <3>3. first(k) \subseteq first(j) BY <3>2
    <3> DEFINE small == first(k)
               large == first(j)
    <3>4. /\ IsFiniteSet(large) /\ Cardinality(large) \in Nat /\ Cardinality(small) \in Nat
          /\ small \subseteq large
      BY <2>5, <3>1, <3>3
    <3> HIDE DEF small, large
    <3>5. Cardinality(small) <= Cardinality(large) BY <3>4, FS_Subset
    <3>6. over \in Int /\ Cardinality(large) < over BY <1>1, <2>3, <2>4 DEF large
    <3> HIDE DEF over
    <3>7. Cardinality(small) < over BY <3>4, <3>5, <3>6
    <3>8. k \in OldestEnded(Young) BY <2>1, <3>1, <3>7 DEF small
    <3> QED BY <2>2, <2>8, <3>8
  <2> QED BY <2>6, <2>7, <2>8
<1> QED BY <1>2, <1>3

Removal ==
  \A j \in jobs \ jobs' :
    /\ ~Active(j)
    /\ \/ now - job[j].createdAt > MaxAge
       \/ /\ Cardinality(jobs) > MaxJobs
          /\ \A k \in jobs' \cap jobs : Before(k, j) => Active(k)

LEMMA MapLoses == ASSUME JobsInv, IsFiniteSet(jobs), [Next]_vars PROVE Removal
<1> SUFFICES ASSUME NEW j \in jobs \ jobs'
             PROVE  /\ ~Active(j)
                    /\ \/ now - job[j].createdAt > MaxAge
                       \/ /\ Cardinality(jobs) > MaxJobs
                          /\ \A k \in jobs' \cap jobs : Before(k, j) => Active(k)
  BY DEF Removal
<1>1. \/ jobs' = CleanedUp
      \/ \E n \in Job : job[n].at = "none" /\ jobs' = CleanedUp \cup {n}
  BY MapStep
<1>2. j \notin CleanedUp BY <1>1
<1>3. \A k \in jobs' : k \in CleanedUp \/ Active(k)
  <2>1. ASSUME NEW n \in Job, job[n].at = "none" PROVE Active(n)
    BY <2>1, JobsAre DEF Looping, Active
  <2> QED BY <1>1, <2>1
<1> QED BY <1>2, <1>3, RemovedWell

\* For any number of jobs and any limits: a job leaves the map only when it has ended or was
\* cancelled, and because it is too old or the map is full and no older ended one is kept.
THEOREM RemovalsHaveReasons == Spec => RemovedForAReason
<1>1. Init => IsFiniteSet(jobs) BY FS_EmptySet DEF Init
<1>2. JobsInv /\ IsFiniteSet(jobs) /\ [Next]_vars => IsFiniteSet(jobs)' BY MapStep
<1>3. JobsInv /\ IsFiniteSet(jobs) /\ [Next]_vars =>
        [\A j \in jobs \ jobs' :
           /\ ~Active(j)
           /\ \/ now - job[j].createdAt > MaxAge
              \/ /\ Cardinality(jobs) > MaxJobs
                 /\ \A k \in jobs' \cap jobs : Before(k, j) => Active(k)]_vars
  BY MapLoses DEF Removal
<1> QED BY <1>1, <1>2, <1>3, JobsAlways, PTL DEF Spec, RemovedForAReason

-----------------------------------------------------------------------------
(* The instance of the runs.                                               *)

\* A behaviour of the composition is one of both modules, in which one of them stutters.
LEMMA BothBehave == JobsSpec => LettersSpec /\ Spec
<1>1. JobsInit => LettersInit /\ Init BY DEF JobsInit
<1>2. [JobsNext]_jobsVars => [LettersNext]_letterVars /\ [Next]_vars
  BY DEF JobsNext, jobsVars
<1> QED BY <1>1, <1>2, PTL DEF JobsSpec, LettersSpec, Spec

\* Every variable of the dead letters and of the broadcast jobs keeps its type, whichever of the
\* two moves.
THEOREM JobsTypes == JobsSpec => []JobsTypesOK
<1>1. (LettersTypeOK /\ LettersAreSound) /\ (BroadcastTypeOK /\ JobsAreHonest) => JobsTypesOK
  BY DEF JobsTypesOK
<1> QED BY <1>1, BothBehave, LettersSound, JobsHonest, PTL

\* For any letters, requests and jobs: what was accepted leaves for the reasons of the code.
THEOREM NothingIsLost == JobsSpec => NothingVanishes
BY BothBehave, LettersLeave, RemovalsHaveReasons, PTL DEF NothingVanishes

=============================================================================
