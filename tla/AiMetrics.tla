------------------------------- MODULE AiMetrics --------------------------------
(***************************************************************************)
(* The counters of src/services/aiMetrics.ts: every decision is counted    *)
(* for the process and for its session, per hour, and kept in a short list *)
(* of recent ones.  A session that was asked for but never counted has     *)
(* counters of its own, all zero.                                          *)
(***************************************************************************)
EXTENDS Integers, Sequences, FiniteSets, FiniteSetsExt

CONSTANTS
  Sid,       \* sessions
  Hours,         \* hours of a day
  MaxRecent,     \* MAX_RECENT
  MaxDecisions,  \* bound: decisions since the last reset
  LastDay        \* bound: days

ASSUME MetricsAssumption == {Hours, MaxRecent, MaxDecisions, LastDay} \subseteq Nat \ {0}

Route == {"ai", "static", "human", "paused", "failed"}   \* failed: also blocked and muted
Zero == [k \in Route |-> 0]
NoHours == [h \in 0..Hours - 1 |-> [ai |-> 0, human |-> 0]]

VARIABLES
  day, hour,        \* the UTC day, and the hour in Asia/Jakarta
  dayKey,           \* the day of the last ensureDay()
  counters,         \* of the process
  bySession,        \* of the sessions
  hourly,           \* of the process, today
  hourlyBySession,  \* of the sessions, since the reset
  recent            \* the last decisions: route and session

metricsVars == <<day, hour, dayKey, counters, bySession, hourly, hourlyBySession, recent>>

MetricsInit ==
  /\ day = 1 /\ hour = 0 /\ dayKey = 0 /\ counters = Zero /\ hourly = NoHours /\ recent = <<>>
  /\ bySession = [s \in Sid |-> Zero] /\ hourlyBySession = [s \in Sid |-> NoHours]

\* ensureDay(): a new day empties the hours of the process.
Today == IF dayKey = day THEN hourly ELSE NoHours

\* What a decision adds: the session counts what was paused as human as well.
InSession(c, route) ==
  IF route = "paused" THEN [c EXCEPT !["human"] = @ + 1, !["paused"] = @ + 1]
  ELSE [c EXCEPT ![route] = @ + 1]
InHour(hs, route) ==
  CASE route = "ai" -> [hs EXCEPT ![hour].ai = @ + 1]
    [] route \in {"human", "paused"} -> [hs EXCEPT ![hour].human = @ + 1]
    [] OTHER -> hs

\* The sum of the numbers f[x]: how many pairs <<x, n>> there are with n up to f[x].
Units(f) == UNION {{x} \X (1..f[x]) : x \in DOMAIN f}
SumOf(f) == Cardinality(Units(f))
Decisions(c) == SumOf(c)

RecordDecision(s, route) ==
  /\ Decisions(counters) < MaxDecisions /\ dayKey' = day
  /\ counters' = [counters EXCEPT ![route] = @ + 1]
  /\ bySession' = [bySession EXCEPT ![s] = InSession(@, route)]
  /\ hourly' = InHour(Today, route)
  /\ hourlyBySession' = [hourlyBySession EXCEPT ![s] = InHour(@, route)]
  /\ recent' = LET all == Append(recent, [route |-> route, session |-> s])
               IN IF Len(all) > MaxRecent THEN Tail(all) ELSE all
  /\ UNCHANGED <<day, hour>>

\* getAiMetrics(): looking at the numbers on a new day empties the hours too.
GetAiMetrics ==
  /\ dayKey # day /\ dayKey' = day /\ hourly' = NoHours
  /\ UNCHANGED <<day, hour, counters, bySession, hourlyBySession, recent>>

ResetAiMetrics ==
  /\ counters' = Zero /\ hourly' = NoHours /\ recent' = <<>>
  /\ bySession' = [s \in Sid |-> Zero] /\ hourlyBySession' = [s \in Sid |-> NoHours]
  /\ UNCHANGED <<day, hour, dayKey>>

\* An hour passes; the UTC day begins at any hour of the zone.
HourPasses(newDay) ==
  /\ hour' = (hour + 1) % Hours
  /\ IF newDay THEN day < LastDay /\ day' = day + 1 ELSE UNCHANGED day
  /\ UNCHANGED <<dayKey, counters, bySession, hourly, hourlyBySession, recent>>

MetricsNext ==
  \/ \E s \in Sid, route \in Route : RecordDecision(s, route)
  \/ \E b \in BOOLEAN : HourPasses(b)
  \/ GetAiMetrics \/ ResetAiMetrics

MetricsSpec == MetricsInit /\ [][MetricsNext]_metricsVars

-----------------------------------------------------------------------------
Figures == [0..Hours - 1 -> [ai : Nat, human : Nat]]

\* Days and hours are some, the figures are numbers, and the list keeps its limit.
MetricsTypeOK ==
  /\ day \in 1..LastDay /\ hour \in 0..Hours - 1 /\ dayKey \in 0..day
  /\ counters \in [Route -> Nat] /\ bySession \in [Sid -> [Route -> Nat]]
  /\ hourly \in Figures /\ hourlyBySession \in [Sid -> Figures]
  /\ Len(recent) <= MaxRecent
  /\ \A i \in DOMAIN recent : recent[i] \in [route : Route, session : Sid]

\* The answers, static replies, failures and pauses of the sessions add up to those of
\* the process, whichever days, resets and looks lie between the decisions; the hours
\* of a session hold every answer and every hand-over of it, those of the process no
\* more than those of the sessions together; and the list of recent ones is as long as
\* it may be.  ("human" is not compared between the scopes: the process counts what
\* was paused apart, a session counts it as human too.)
MetricsAddUp ==
  LET sum(k) == SumOf([s \in Sid |-> bySession[s][k]])
      hours(hs, k) == SumOf([h \in DOMAIN hs |-> hs[h][k]])
  IN /\ \A k \in {"ai", "static", "failed", "paused"} : counters[k] = sum(k)
     /\ \A s \in Sid : hours(hourlyBySession[s], "ai") = bySession[s]["ai"]
     /\ \A s \in Sid : hours(hourlyBySession[s], "human") = bySession[s]["human"]
     /\ \A k \in {"ai", "human"} :
          hours(hourly, k) <= SumOf([s \in Sid |-> hours(hourlyBySession[s], k)])
     /\ Len(recent) = Min({MaxRecent, Decisions(counters)})
=============================================================================
