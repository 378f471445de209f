----------------------------- MODULE AiSettingsPage -----------------------------
(***************************************************************************)
(* The AI page of the dashboard, src/dashboard-ui/js/pages/ai.js, and the  *)
(* handlers behind it.  One form and one panel of metrics are filled by    *)
(* whatever load answers; Save writes what the form shows to the session   *)
(* that is selected when it is clicked.  Of a form only the session whose  *)
(* settings it shows is kept, not which of its fields were typed over.     *)
(***************************************************************************)
EXTENDS Naturals, Sequences, SequencesExt, FiniteSets

CONSTANTS
  AiSession,
  NoSession,
  MaxOpen     \* bound: requests without an answer at a time

ASSUME AiPageAssumption == NoSession \notin AiSession /\ MaxOpen \in Nat

Panel == {"config", "metrics"}
\* A request: of the sessions, of one panel of a session, of a save of the settings of
\* "from" to the session "of", of a reset of the metrics.
AiCall == [kind : Panel \union {"sessions", "save", "reset"},
         of : AiSession \union {NoSession}, from : AiSession \union {NoSession}]
Asked(k, s) == [kind |-> k, of |-> s, from |-> NoSession]

VARIABLES
  drawn,       \* are the form and the panel in the page
  chosen,      \* state.sessionId
  displayed,   \* the session whose data each panel shows, NoSession without any
  calls,       \* the requests without an answer, in the order they were made
  kept,        \* of each session: the session whose settings it has
  marred,      \* history: since the panel had last no load open, its loads overtook each other or one failed
  hasty        \* history: Save was clicked while the form was not that of the selected session

aiPageVars == <<drawn, chosen, displayed, calls, kept, marred, hasty>>

AiPageTypeOK ==
  /\ {drawn, hasty} \subseteq BOOLEAN /\ chosen \in AiSession \union {NoSession}
  /\ displayed \in [Panel -> AiSession \union {NoSession}] /\ marred \in [Panel -> BOOLEAN]
  /\ Range(calls) \subseteq AiCall /\ Len(calls) <= MaxOpen
  /\ kept \in [AiSession -> AiSession \union {NoSession}]

AiPageInit ==
  /\ drawn = FALSE /\ chosen = NoSession /\ displayed = [p \in Panel |-> NoSession]
  /\ calls = <<>> /\ kept = [s \in AiSession |-> s]
  /\ marred = [p \in Panel |-> FALSE] /\ hasty = FALSE

-----------------------------------------------------------------------------
Loads(seq, p) == {k \in DOMAIN seq : seq[k].kind = p}

\* What is asked for goes behind what has no answer yet.
Request(open, asked) ==
  /\ Len(open \o asked) <= MaxOpen /\ calls' = open \o asked
  /\ marred' = [p \in Panel |-> marred[p] /\ (Loads(open, p) # {} \/ Loads(asked, p) = {})]

\* The selection changed: loadConfig() and loadMetrics(), neither awaited.
\* (Variant: only the metrics are loaded.)
MetricsOnly(s) == <<Asked("metrics", s)>>
LoadBoth(s) == <<Asked("config", s), Asked("metrics", s)>>

\* App.navigate() to the page and away from it: render() draws what it asked for even
\* if the user has left, over whatever page is there then.
OpenPage ==
  /\ ~drawn /\ Request(calls, <<Asked("sessions", NoSession)>>)
  /\ UNCHANGED <<drawn, chosen, displayed, kept, hasty>>
LeaveAiPage ==
  /\ drawn /\ drawn' = FALSE /\ displayed' = [p \in Panel |-> NoSession]
  /\ UNCHANGED <<chosen, calls, kept, marred, hasty>>

\* The sessions have come: an empty form is drawn and both panels are loaded.
AiSessionsCame(k, s) ==
  /\ calls[k].kind = "sessions" /\ drawn' = TRUE /\ chosen' = s
  /\ displayed' = [p \in Panel |-> NoSession] /\ Request(RemoveAt(calls, k), LoadBoth(s))
  /\ UNCHANGED <<kept, hasty>>
\* There are none, or the request fails.
NoSessions(k) ==
  /\ calls[k].kind = "sessions" /\ drawn' = FALSE /\ displayed' = [p \in Panel |-> NoSession]
  /\ Request(RemoveAt(calls, k), <<>>) /\ UNCHANGED <<chosen, kept, hasty>>

\* Another session is selected, or the page refreshed.
ChangeSession(s) ==
  /\ drawn /\ chosen' = s /\ Request(calls, LoadBoth(s)) /\ UNCHANGED <<drawn, displayed, kept, hasty>>

\* A load answers: the panel shows its session, selected or not.  The settings stay as
\* they are when there is no answer with data; the metrics give way to a notice.
Overtakes(k) == \E j \in 1..(k - 1) : calls[j].kind = calls[k].kind /\ calls[j].of # calls[k].of
PanelCame(k, ok) ==
  LET p == calls[k].kind IN
  /\ p \in Panel
  /\ displayed' = IF drawn /\ (ok \/ p = "metrics")
                  THEN [displayed EXCEPT ![p] = IF ok THEN calls[k].of ELSE NoSession] ELSE displayed
  /\ calls' = RemoveAt(calls, k)
  /\ marred' = [marred EXCEPT ![p] = @ \/ Overtakes(k) \/ (p = "config" /\ ~ok)]
  /\ UNCHANGED <<drawn, chosen, kept, hasty>>

\* Save: the fields, whatever session they are of, for the selected one.
Save ==
  /\ drawn /\ chosen # NoSession
  /\ Request(calls, <<[kind |-> "save", of |-> chosen, from |-> displayed["config"]]>>)
  /\ hasty' = (hasty \/ Loads(calls, "config") # {} \/ marred["config"])
  /\ UNCHANGED <<drawn, chosen, displayed, kept>>

\* PATCH /ai-config: what is not valid, or of a session that is not open, is refused;
\* else the form is loaded again for the session that is selected by now.
Saved(k, ok) ==
  /\ calls[k].kind = "save"
  /\ IF ok THEN /\ kept' = [kept EXCEPT ![calls[k].of] =
                     IF calls[k].from = NoSession THEN NoSession ELSE kept[calls[k].from]]
                /\ Request(RemoveAt(calls, k), <<Asked("config", chosen)>>)
     ELSE UNCHANGED kept /\ Request(RemoveAt(calls, k), <<>>)
  /\ UNCHANGED <<drawn, chosen, displayed, hasty>>

\* The counters are reset, and the panel loaded again.
ResetMetrics ==
  /\ drawn /\ Request(calls, <<Asked("reset", NoSession)>>)
  /\ UNCHANGED <<drawn, chosen, displayed, kept, hasty>>
WasReset(k, ok) ==
  /\ calls[k].kind = "reset" /\ Request(RemoveAt(calls, k), IF ok THEN <<Asked("metrics", chosen)>> ELSE <<>>)
  /\ UNCHANGED <<drawn, chosen, displayed, kept, hasty>>

AiPageNext ==
  \/ OpenPage \/ LeaveAiPage \/ Save \/ ResetMetrics
  \/ \E s \in AiSession : ChangeSession(s)
  \/ \E k \in DOMAIN calls :
       \/ \E s \in AiSession : AiSessionsCame(k, s)
       \/ NoSessions(k)
       \/ \E ok \in BOOLEAN : PanelCame(k, ok) \/ Saved(k, ok) \/ WasReset(k, ok)
AiPageSpec == AiPageInit /\ [][AiPageNext]_aiPageVars

-----------------------------------------------------------------------------
\* When nothing that was asked for is still to come, the form shows the selected
\* session and the panel its metrics or nothing, unless the answers overtook each other
\* or the settings could not be loaded: every way to another session, to a new form and
\* back to the old one asks for the right data last.
FormFollowsSelection ==
  \A p \in Panel :
    drawn /\ Loads(calls, p) = {} /\ ~marred[p] =>
      displayed[p] = chosen \/ (p = "metrics" /\ displayed[p] = NoSession)

\* A session keeps its own settings, and never those of another or an empty form's,
\* unless somebody saved before the form of the selected session had come: the page
\* does not lock Save meanwhile, and does not look at whose settings it shows.
SettingsStayApart == ~hasty => \A s \in AiSession : kept[s] = s

AiFormIsTheirs == FormFollowsSelection /\ SettingsStayApart
=============================================================================
