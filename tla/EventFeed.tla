-------------------------------- MODULE EventFeed --------------------------------
(***************************************************************************)
(* The feed of events of the dashboard: the bus of src/dashboard/          *)
(* eventBus.ts keeps the last ones and hands each to the streams that      *)
(* listen, src/dashboard/api.ts, and the events page, src/dashboard-ui/js/ *)
(* pages/events.js, draws the kept ones first and then opens a stream.     *)
(* Events are numbered in the order they are emitted.                      *)
(***************************************************************************)
EXTENDS Naturals, Sequences, SequencesExt

CONSTANTS
  LastEvent,  \* bound: events emitted
  MaxKept,    \* maxRecent
  MaxShown,   \* items the page keeps
  Stream,     \* bound: streams not yet closed
  NoStream,
  Visit       \* bound: visits of the page with a request under way

ASSUME FeedAssumption ==
  /\ {LastEvent, MaxKept, MaxShown} \subseteq Nat /\ MaxShown >= MaxKept /\ MaxKept > 0
  /\ NoStream \notin Stream

Event == 1..LastEvent
NoFeed == <<0>>

VARIABLES
  emitted,      \* the number of the last event
  recentEvents,
  streams,      \* of each stream: how far it is, the events on their way to the page
  eventSource,  \* the page's stream
  visits,       \* of each visit: how far render() is, the kept events it was sent
  feed,         \* the items of the page, NoFeed when another page is shown
  paused,
  clearing,     \* is a request to clear the kept events under way
  late          \* history: the page was left while render() waited

feedVars == <<emitted, recentEvents, streams, eventSource, visits, feed, paused, clearing, late>>

Shut == [phase |-> "closed", queue |-> <<>>]
Quiet == [phase |-> "none", got |-> <<>>]

FeedTypeOK ==
  /\ emitted \in 0..LastEvent /\ Range(recentEvents) \subseteq Event /\ Len(recentEvents) <= MaxKept
  /\ \A t \in Stream : /\ streams[t].phase \in {"closed", "connecting", "listening"}
                       /\ Range(streams[t].queue) \subseteq Event
  /\ eventSource \in Stream \union {NoStream} /\ {paused, clearing, late} \subseteq BOOLEAN
  /\ \A v \in Visit : visits[v].phase \in {"none", "asked", "sent"} /\ Range(visits[v].got) \subseteq Event
  /\ feed = NoFeed \/ (Range(feed) \subseteq Event /\ Len(feed) <= MaxShown)

FeedInit ==
  /\ emitted = 0 /\ recentEvents = <<>> /\ streams = [t \in Stream |-> Shut] /\ eventSource = NoStream
  /\ visits = [v \in Visit |-> Quiet] /\ feed = NoFeed /\ paused = FALSE /\ clearing = FALSE /\ late = FALSE

-----------------------------------------------------------------------------
\* The last n.  (Variant: one more is kept.)
OneMoreKept(s, n) == SubSeq(s, Len(s) - (IF Len(s) <= n THEN Len(s) ELSE n + 1) + 1, Len(s))
Newest(s, n) == SubSeq(s, Len(s) - (IF Len(s) < n THEN Len(s) ELSE n) + 1, Len(s))

\* EventBus.emit(): the event is kept, and written to every stream that listens.
Emit ==
  /\ emitted < LastEvent /\ emitted' = emitted + 1
  /\ recentEvents' = Newest(Append(recentEvents, emitted'), MaxKept)
  /\ streams' = [t \in Stream |-> IF streams[t].phase = "listening"
                                  THEN [streams[t] EXCEPT !.queue = Append(@, emitted')] ELSE streams[t]]
  /\ UNCHANGED <<eventSource, visits, feed, paused, clearing, late>>

\* The page is opened: an empty feed, and the kept events are asked for.
OpenFeed(v) ==
  /\ feed = NoFeed /\ visits[v] = Quiet /\ feed' = <<>>
  /\ visits' = [visits EXCEPT ![v].phase = "asked"]
  /\ UNCHANGED <<emitted, recentEvents, streams, eventSource, paused, clearing, late>>
RecentSent(v) ==
  /\ visits[v].phase = "asked" /\ visits' = [visits EXCEPT ![v] = [phase |-> "sent", got |-> recentEvents]]
  /\ UNCHANGED <<emitted, recentEvents, streams, eventSource, feed, paused, clearing, late>>

\* startSSE(): the page's stream is closed and another one opened.
\* (Variant: the one before goes on.)
GoesOn == streams
Closed == [t \in Stream |-> IF t = eventSource THEN Shut ELSE streams[t]]

\* The answer, the newest event on top; without a feed to draw into it ends in an
\* exception unless there is nothing to draw.
RecentCame(v) ==
  /\ visits[v].phase = "sent" /\ visits' = [visits EXCEPT ![v] = Quiet]
  /\ IF feed = NoFeed /\ visits[v].got # <<>> THEN UNCHANGED <<streams, eventSource, feed>>
     ELSE /\ feed' = IF visits[v].got = <<>> THEN feed ELSE Reverse(visits[v].got)
          /\ \E t \in Stream :
               /\ streams[t] = Shut \/ Closed[t] = Shut
               /\ streams' = [Closed EXCEPT ![t] = [phase |-> "connecting", queue |-> <<>>]]
               /\ eventSource' = t
  /\ UNCHANGED <<emitted, recentEvents, paused, clearing, late>>

\* A stream gets through, breaks (what was on its way is lost, and it tries again), or
\* delivers an event.
Connects(t) ==
  /\ streams[t].phase = "connecting" /\ streams' = [streams EXCEPT ![t].phase = "listening"]
  /\ UNCHANGED <<emitted, recentEvents, eventSource, visits, feed, paused, clearing, late>>
Breaks(t) ==
  /\ streams[t].phase = "listening"
  /\ streams' = [streams EXCEPT ![t] = [phase |-> "connecting", queue |-> <<>>]]
  /\ UNCHANGED <<emitted, recentEvents, eventSource, visits, feed, paused, clearing, late>>
Delivers(t) ==
  /\ streams[t].queue # <<>> /\ streams' = [streams EXCEPT ![t].queue = Tail(@)]
  /\ LET items == <<Head(streams[t].queue)>> \o feed
     IN feed' = IF paused \/ feed = NoFeed THEN feed
                ELSE IF Len(items) > MaxShown THEN SubSeq(items, 1, MaxShown) ELSE items
  /\ UNCHANGED <<emitted, recentEvents, eventSource, visits, paused, clearing, late>>

\* The buttons, and another page.
TogglePause ==
  /\ feed # NoFeed /\ paused' = ~paused
  /\ UNCHANGED <<emitted, recentEvents, streams, eventSource, visits, feed, clearing, late>>
ClearFeed ==
  /\ feed # NoFeed /\ feed' = <<>> /\ clearing' = TRUE
  /\ UNCHANGED <<emitted, recentEvents, streams, eventSource, visits, paused, late>>
ClearedOnServer ==
  /\ clearing /\ clearing' = FALSE /\ recentEvents' = <<>>
  /\ UNCHANGED <<emitted, streams, eventSource, visits, feed, paused, late>>
LeaveFeed ==
  /\ feed # NoFeed /\ feed' = NoFeed /\ streams' = Closed /\ eventSource' = NoStream
  /\ late' = (late \/ \E v \in Visit : visits[v] # Quiet)
  /\ UNCHANGED <<emitted, recentEvents, visits, paused, clearing>>

FeedNext ==
  \/ Emit \/ TogglePause \/ ClearFeed \/ ClearedOnServer \/ LeaveFeed
  \/ \E v \in Visit : OpenFeed(v) \/ RecentSent(v) \/ RecentCame(v)
  \/ \E t \in Stream : Connects(t) \/ Breaks(t) \/ Delivers(t)
FeedSpec == FeedInit /\ [][FeedNext]_feedVars

-----------------------------------------------------------------------------
\* The feed shows every event at most once, the newest on top: where the kept events
\* end and the stream begins, over lost streams, overlapping visits and clearings.  At
\* most one stream is open, the one the page can close, and none when another page is
\* shown, unless this one was left while it waited for the kept events.
FeedIsOrdered ==
  /\ feed # NoFeed => \A i, j \in DOMAIN feed : i < j => feed[i] > feed[j]
  /\ \A t \in Stream : streams[t] # Shut => t = eventSource /\ (feed # NoFeed \/ late)
=============================================================================
