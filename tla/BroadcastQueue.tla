----------------------------- MODULE BroadcastQueue -----------------------------
(***************************************************************************)
(* Bulk sending: src/services/broadcastQueue.ts.                           *)
(*                                                                         *)
(* A job is one asynchronous loop over its messages.  It is split at its   *)
(* awaits (registration checks, send, delay, batch pause); between them    *)
(* the job may be cancelled, other jobs run, and clean-up may remove jobs  *)
(* from the map.  The loop holds its job object whatever becomes of the    *)
(* map.  Receivers, payloads and logs are left out; a message is its       *)
(* index, counted from 1.                                                  *)
(***************************************************************************)
EXTENDS Integers, FiniteSets

CONSTANTS
  Job,         \* jobs that may be created
  TotalOf,     \* messages of each job (the schema wants one at least)
  BatchSize,   \* config.broadcast.batchSize
  Delays,      \* values of nextDelayMs()
  BatchPause,  \* config.broadcast.batchPauseMs
  CheckChunk,  \* config.broadcast.checkWaBatchSize
  MaxAge,      \* MAX_JOB_AGE_MS
  MaxJobs,     \* MAX_JOBS
  MaxTime      \* bound: the clock stops here unless a job sleeps

ASSUME BroadcastAssumption ==
  /\ TotalOf \in [Job -> Nat \ {0}]
  /\ BatchSize \in Nat \ {0} /\ CheckChunk \in Nat
  /\ Delays \subseteq Nat /\ Delays # {} /\ BatchPause \in Nat
  /\ MaxAge \in Nat /\ MaxJobs \in Nat /\ MaxTime \in Nat

VARIABLES
  now,         \* Date.now()
  batchCheck,  \* config.broadcast.batchCheckWa
  jobs,        \* the keys of the Map
  job,         \* the job objects and the state of their loops
  made         \* history: jobs so far

vars == <<now, batchCheck, jobs, job, made>>

At == {"none", "prechecking", "checking", "sending", "sleeping", "pausing", "over"}

\* i: the message the loop is at, 0 before the first.  place: its place in the
\* order of insertion.  History: tries, the messages handed to sendMessage; sent,
\* those it resolved for; handledAt, when message i was done with; stopAt, i when
\* the job was cancelled, -1 before.
Fresh == [status |-> "pending", at |-> "none", i |-> 0, checked |-> 0, invalid |-> {},
          total |-> 0, progress |-> 0, errors |-> {}, wakeAt |-> 0, createdAt |-> 0, place |-> 0,
          tries |-> {}, sent |-> {}, handledAt |-> 0, stopAt |-> -1]

JobRecord == [status : {"pending", "running", "completed", "cancelled", "failed"},
              at : At, i : Nat, checked : Nat, invalid : SUBSET Nat, total : Nat,
              progress : Nat, errors : SUBSET Nat, wakeAt : Nat, createdAt : Nat, place : Nat,
              tries : SUBSET Nat, sent : SUBSET Nat, handledAt : Nat, stopAt : Nat \cup {-1}]

BroadcastTypeOK ==
  /\ now \in Nat /\ batchCheck \in BOOLEAN /\ made \in Nat
  /\ jobs \subseteq Job
  /\ job \in [Job -> JobRecord]
  /\ \A j \in Job : job[j].i <= TotalOf[j] /\ job[j].progress <= job[j].i

Init ==
  /\ now = 0
  /\ batchCheck \in BOOLEAN
  /\ jobs = {} /\ made = 0
  /\ job = [j \in Job |-> Fresh]

-----------------------------------------------------------------------------
(* Clean-up of the map.                                                    *)

Active(j) == job[j].status \in {"running", "pending"}

\* The order of sort((a, b) => a.createdAt - b.createdAt), which is stable.
Before(k, j) ==
  \/ job[k].createdAt < job[j].createdAt
  \/ job[k].createdAt = job[j].createdAt /\ job[k].place < job[j].place

\* slice(0, jobs.size - MAX_JOBS) of the ended jobs among q: the oldest.
OldestEnded(q) ==
  LET ended == {j \in q : ~Active(j)} IN
  {j \in ended : Cardinality({k \in ended : Before(k, j)}) < Cardinality(q) - MaxJobs}

\* cleanupOldJobs(): ended jobs that are too old, then the oldest ended jobs
\* beyond MAX_JOBS.
Young == {j \in jobs : Active(j) \/ now - job[j].createdAt <= MaxAge}
CleanedUp == Young \ OldestEnded(Young)

-----------------------------------------------------------------------------
(* The loop, as the record of a job after the synchronous code up to the   *)
(* next await.                                                             *)

\* Past the last message.
Finished(s) ==
  [s EXCEPT !.at = "over",
            !.status = IF Cardinality(s.errors) = s.total THEN "failed" ELSE "completed"]

\* Message s.i is done with: delay before the next, if there is one.
Slept(s, d) ==
  IF s.i = s.total THEN Finished(s)
  ELSE [s EXCEPT !.at = "sleeping", !.wakeAt = now + d, !.handledAt = now]

WithError(s) == [s EXCEPT !.errors = @ \cup {s.i}, !.progress = s.i]

\* The top of the loop for message k.  (Variants: nobody looks at the status; the
\* loop goes one message too far.)
Uncancellable(s, k, d) ==
  IF k > s.total THEN Finished(s)
  ELSE IF ~batchCheck THEN [s EXCEPT !.i = k, !.at = "checking"]
  ELSE IF k \in s.invalid THEN Slept(WithError([s EXCEPT !.i = k]), d)
  ELSE [s EXCEPT !.i = k, !.at = "sending", !.tries = @ \cup {k}]
OneTooFar(s, k, d) ==
  IF k > s.total + 1 THEN Finished(s)
  ELSE IF s.status = "cancelled" THEN [s EXCEPT !.at = "over"]
  ELSE [s EXCEPT !.i = k, !.at = "checking"]
Turn(s, k, d) ==
  IF k > s.total THEN Finished(s)
  ELSE IF s.status = "cancelled" THEN [s EXCEPT !.at = "over"]
  ELSE IF ~batchCheck THEN [s EXCEPT !.i = k, !.at = "checking"]
  ELSE IF k \in s.invalid THEN Slept(WithError([s EXCEPT !.i = k]), d)
  ELSE [s EXCEPT !.i = k, !.at = "sending", !.tries = @ \cup {k}]

\* The catch block: no delay before the next message.
Caught(s, d) == Turn(WithError(s), s.i + 1, d)

\* After the delay that follows message s.i.  (Variant: no batch pause.)
Unpaused(s, d) == Turn(s, s.i + 1, d)
Rested(s, d) ==
  IF s.at = "sleeping" /\ s.i % BatchSize = 0
  THEN [s EXCEPT !.at = "pausing", !.wakeAt = now + BatchPause]
  ELSE Turn(s, s.i + 1, d)

-----------------------------------------------------------------------------

\* POST /chats/:sessionId/send-bulk.  Without a session the loop throws at once.
CreateBroadcastJob(j, exists, d) ==
  LET s == [Fresh EXCEPT !.createdAt = now, !.place = made, !.total = TotalOf[j],
                         !.status = "running"] IN
  /\ job[j].at = "none" /\ now <= MaxTime
  /\ jobs' = CleanedUp \cup {j} /\ made' = made + 1
  /\ job' = [job EXCEPT ![j] =
       IF ~exists THEN [s EXCEPT !.at = "over", !.status = "failed"]
       ELSE IF batchCheck THEN [s EXCEPT !.at = "prechecking"]
       ELSE Turn(s, 1, d)]
  /\ UNCHANGED <<now, batchCheck>>

\* The last message of the chunk whose registration is checked.  (Variant: the
\* next chunk starts where this one did.)
StuckChunk(j) == job[j].checked
ChunkEnd(j) ==
  LET end == job[j].checked + (IF CheckChunk > 0 THEN CheckChunk ELSE 50)
  IN IF end < TotalOf[j] THEN end ELSE TotalOf[j]

\* checkOnWhatsAppBatch() of one chunk settles: `unknown' are not registered.
Prechecked(j, unknown, d) ==
  LET s == [job[j] EXCEPT !.invalid = @ \cup unknown, !.checked = ChunkEnd(j)]
  IN /\ job[j].at = "prechecking"
     /\ unknown \subseteq (job[j].checked + 1)..ChunkEnd(j)
     /\ job' = [job EXCEPT ![j] = IF s.checked < s.total THEN s ELSE Turn(s, 1, d)]
     /\ UNCHANGED <<now, batchCheck, jobs, made>>

\* isOnWhatsApp() settles; it never throws.
Checked(j, exists, d) ==
  LET s == job[j] IN
  /\ s.at = "checking"
  /\ job' = [job EXCEPT ![j] =
       IF exists THEN [s EXCEPT !.at = "sending", !.tries = @ \cup {s.i}]
       ELSE Slept(WithError(s), d)]
  /\ UNCHANGED <<now, batchCheck, jobs, made>>

\* sendMessage() resolves or throws; it throws at once when the session that
\* the loop got at its start is closed by now.
SendSettled(j, ok, d) ==
  LET s == job[j] IN
  /\ s.at = "sending"
  /\ job' = [job EXCEPT ![j] =
       IF ok THEN Slept([s EXCEPT !.progress = s.i, !.sent = @ \cup {s.i}], d)
       ELSE Caught(s, d)]
  /\ UNCHANGED <<now, batchCheck, jobs, made>>

\* asyncSleep() ends.
Wake(j, d) ==
  /\ job[j].at \in {"sleeping", "pausing"} /\ now >= job[j].wakeAt
  /\ job' = [job EXCEPT ![j] = Rested(@, d)]
  /\ UNCHANGED <<now, batchCheck, jobs, made>>

\* DELETE /chats/:sessionId/broadcast/:jobId
CancelBroadcastJob(j) ==
  /\ j \in jobs /\ job[j].status = "running"
  /\ job' = [job EXCEPT ![j].status = "cancelled", ![j].stopAt = job[j].i]
  /\ UNCHANGED <<now, batchCheck, jobs, made>>

\* setInterval(cleanupOldJobs)
CleanUpOldJobs ==
  /\ jobs' = CleanedUp
  /\ UNCHANGED <<now, batchCheck, job, made>>

Tick ==
  /\ now < MaxTime \/ \E j \in Job : job[j].at \in {"sleeping", "pausing"} /\ now < job[j].wakeAt
  /\ now' = now + 1
  /\ UNCHANGED <<batchCheck, jobs, job, made>>

Step(j) == \E d \in Delays :
  \/ \E unknown \in SUBSET (1..TotalOf[j]) : Prechecked(j, unknown, d)
  \/ \E yes \in BOOLEAN : Checked(j, yes, d) \/ SendSettled(j, yes, d)
  \/ Wake(j, d)

Next ==
  \/ \E j \in Job : \/ \E exists \in BOOLEAN, d \in Delays : CreateBroadcastJob(j, exists, d)
                    \/ Step(j)
                    \/ CancelBroadcastJob(j)
  \/ CleanUpOldJobs
  \/ Tick

Spec == Init /\ [][Next]_vars

\* Timers fire, and the queries and sends of a socket time out.
FairSpec == Spec /\ WF_vars(Tick) /\ \A j \in Job : WF_vars(Step(j))

-----------------------------------------------------------------------------
(* Properties.                                                             *)

\* Once the cancellation of a job was accepted, no message behind the one in
\* progress is sent, whichever await the loop was at.
CancelStops == \A j \in Job : job[j].stopAt >= 0 => \A k \in job[j].tries : k <= job[j].stopAt

\* The record a client polls is true: every message up to `progress' was either
\* sent or is in `errors', never both, and no later one is.
ProgressIsHonest ==
  \A j \in Job : /\ job[j].sent \cap job[j].errors = {}
                 /\ job[j].sent \cup job[j].errors = 1..job[j].progress

\* What a client reads and asks of a job is what the job does.
JobsAreHonest == CancelStops /\ ProgressIsHonest

\* Behind a message that did not throw, the next is sent only after a delay
\* of the configured ones, and behind the last of a batch also the batch pause.
SendsArePaced ==
  [][\A j \in Job : \A k \in job'[j].tries \ job[j].tries :
       k > 1 /\ (k - 1 \in job[j].sent \/ k - 1 \in job[j].invalid) =>
         \E d \in Delays : now >= job[j].handledAt + d
                                   + (IF (k - 1) % BatchSize = 0 THEN BatchPause ELSE 0)]_vars

\* A job leaves the map only when it has ended or was cancelled, and because it
\* is too old or the map is over its limit and no older ended job is kept: a
\* running job can always be polled and cancelled.
RemovedForAReason ==
  [][\A j \in jobs \ jobs' :
       /\ ~Active(j)
       /\ \/ now - job[j].createdAt > MaxAge
          \/ /\ Cardinality(jobs) > MaxJobs
             /\ \A k \in jobs' \cap jobs : Before(k, j) => Active(k)]_vars

\* Every job ends, cancelled or not, also when all its sends fail.
JobsEnd == \A j \in Job : job[j].at # "none" ~> job[j].at = "over"
=============================================================================
