------------------------------ MODULE WebhooksPage ------------------------------
(***************************************************************************)
(* The two forms of the dashboard that write a session's webhook URL: that *)
(* of the webhooks page, src/dashboard-ui/js/pages/webhooks.js, drawn from *)
(* the list of sessions it read when it was opened, and the settings modal *)
(* of pages/sessions.js, drawn from a list read for it; with the handlers  *)
(* of src/dashboard/api.ts behind them.  Both forms send every field, the  *)
(* URL among them, whichever was typed over.  A URL is the number of the   *)
(* entry it was typed as; the secret and the choice of events are left out.*)
(***************************************************************************)
EXTENDS Naturals, FiniteSets

CONSTANTS
  WebSession,
  Typings,    \* bound: URLs typed
  WebRequest  \* bound: requests without an answer at a time

ASSUME WebPageAssumption == Typings \in Nat

Url == 0..Typings

VARIABLES
  page,      \* the page in the application: is it the webhooks page
  listed,    \* webhookSessions: the URL of each session when the list was read
  picked,    \* selectedWebhookSessionId
  fields,    \* the form of the page and that of the modal: a set of at most one field each
  requests,  \* the requests without an answer, by their slot
  urls,      \* webhookUrl of each session, on the server
  typings,   \* how many URLs were typed
  crossed,   \* history: a save was under way while a list was read or the other form existed, or two were
  reverted   \* history: a URL nobody had typed, not drawn again from the old list, took a newer one's place

webPageVars == <<page, listed, picked, fields, requests, urls, typings, crossed, reverted>>

\* A form: where it is, of which session, its URL, whether that was typed since the form
\* was drawn, and whether it was drawn again from the list of an earlier moment.
Form == [in : {"page", "modal"}, of : WebSession, url : Url, typed : BOOLEAN, again : BOOLEAN]
Idle == [kind |-> "none"]
Listing == [kind |-> "list"]
Drawing == [kind |-> "draw"]
Asks(kind, s) == [kind |-> kind, of |-> s]
Writes(f) == [kind |-> "write", form |-> f]
WebCall == {Idle, Listing, Drawing} \union [kind : {"fresh", "rotate"}, of : WebSession]
           \union [kind : {"write"}, form : Form]

WebPageTypeOK ==
  /\ {page, crossed, reverted} \subseteq BOOLEAN /\ typings \in Url
  /\ listed \in [WebSession -> Url] /\ urls \in [WebSession -> Url] /\ picked \in WebSession
  /\ fields \subseteq Form /\ Cardinality(fields) <= 2
  /\ requests \in [WebRequest -> WebCall]

WebPageInit ==
  /\ page = FALSE /\ urls = [s \in WebSession |-> 0] /\ listed = urls /\ picked \in WebSession
  /\ fields = {} /\ requests = [q \in WebRequest |-> Idle] /\ typings = 0
  /\ crossed = FALSE /\ reverted = FALSE

-----------------------------------------------------------------------------
Of(in) == {f \in fields : f.in = in}
Without(in) == fields \ Of(in)
Pending(kinds) == {q \in WebRequest : requests[q].kind \in kinds}
Reads == {"list", "draw", "fresh"}

Asking(q, call) == requests[q] = Idle /\ requests' = [requests EXCEPT ![q] = call]
Crossing(b) == crossed' = (crossed \/ b)

\* App.navigate() to the page: render() awaits the sessions, then the logs and the meta
\* data, while what is shown stays, and draws even if the user has left; App.navigate()
\* to another page, which draws over this one.
OpenWebhooks(q) ==
  /\ ~page /\ page' = TRUE /\ Asking(q, Listing) /\ Crossing(Pending({"write"}) # {})
  /\ UNCHANGED <<listed, picked, fields, urls, typings, reverted>>
LeaveWebhooks ==
  /\ page \/ Of("page") # {}
  /\ page' = FALSE /\ fields' = Without("page")
  /\ UNCHANGED <<listed, picked, requests, urls, typings, crossed, reverted>>

\* getSessions() answers, and the selected session is chosen from it.
\* (Variant: the list of the last visit is good enough.)
LastVisit == listed
Answer == urls
WebSessionsCame(q, s) ==
  /\ requests[q] = Listing /\ listed' = Answer /\ picked' = s
  /\ requests' = [requests EXCEPT ![q] = Drawing]
  /\ UNCHANGED <<page, fields, urls, typings, crossed, reverted>>

Drawn(s, again) == [in |-> "page", of |-> s, url |-> listed[s], typed |-> FALSE, again |-> again]
WebPageDrawn(q) ==
  /\ requests[q] = Drawing /\ requests' = [requests EXCEPT ![q] = Idle]
  /\ fields' = Without("page") \union {Drawn(picked, FALSE)}
  /\ Crossing(Of("page") # {})
  /\ UNCHANGED <<page, listed, picked, urls, typings, reverted>>

\* Another session is selected: renderWebhookConfig() draws it from the list.
PickSession(s) ==
  /\ Of("page") # {} /\ s # picked /\ picked' = s
  /\ fields' = Without("page") \union {Drawn(s, TRUE)}
  /\ UNCHANGED <<page, listed, requests, urls, typings, crossed, reverted>>

\* The secret is rotated: the list learns of the new one and the form is drawn again
\* from it, what was typed or saved meanwhile is not.
RotateSecret(q) ==
  /\ \E f \in Of("page") : Asking(q, Asks("rotate", f.of))
  /\ UNCHANGED <<page, listed, picked, fields, urls, typings, crossed, reverted>>
WasRotated(q, ok) ==
  /\ requests[q].kind = "rotate" /\ requests' = [requests EXCEPT ![q] = Idle]
  /\ fields' = IF ok /\ Of("page") # {} THEN Without("page") \union {Drawn(picked, TRUE)} ELSE fields
  /\ UNCHANGED <<page, listed, picked, urls, typings, crossed, reverted>>

\* The settings modal of a session, from a list read for it; it is closed by a save.
ShowSettings(q, s) ==
  /\ ~page /\ Of("modal") = {} /\ Asking(q, Asks("fresh", s)) /\ Crossing(Pending({"write"}) # {})
  /\ UNCHANGED <<page, listed, picked, fields, urls, typings, reverted>>
SettingsCame(q, ok) ==
  /\ requests[q].kind = "fresh" /\ requests' = [requests EXCEPT ![q] = Idle]
  /\ fields' = IF ok THEN Without("modal") \union
                       {[in |-> "modal", of |-> requests[q].of, url |-> urls[requests[q].of],
                         typed |-> FALSE, again |-> FALSE]}
               ELSE fields
  /\ UNCHANGED <<page, listed, picked, urls, typings, crossed, reverted>>
CloseModal ==
  /\ Of("modal") # {} /\ fields' = Without("modal")
  /\ UNCHANGED <<page, listed, picked, requests, urls, typings, crossed, reverted>>

\* A URL is typed; a form is sent.
TypeUrl(f) ==
  /\ f \in fields /\ typings < Typings /\ typings' = typings + 1
  /\ fields' = (fields \ {f}) \union {[f EXCEPT !.url = typings + 1, !.typed = TRUE]}
  /\ UNCHANGED <<page, listed, picked, requests, urls, crossed, reverted>>
SubmitUrl(q, f) ==
  /\ f \in fields /\ Asking(q, Writes(f))
  /\ Crossing(Cardinality(fields) > 1 \/ Pending(Reads \union {"write"}) # {})
  /\ UNCHANGED <<page, listed, picked, fields, urls, typings, reverted>>

\* PUT /webhook and PATCH /settings write every field; the list of the webhooks page
\* does not learn of it.
UrlSaved(q, ok) ==
  LET f == requests[q].form IN
  /\ requests[q].kind = "write" /\ requests' = [requests EXCEPT ![q] = Idle]
  /\ urls' = IF ok THEN [urls EXCEPT ![f.of] = f.url] ELSE urls
  /\ reverted' = (reverted \/ (ok /\ ~f.typed /\ ~f.again /\ urls[f.of] # f.url))
  /\ fields' = IF ok /\ f.in = "modal" THEN Without("modal") ELSE fields
  /\ UNCHANGED <<page, listed, picked, typings, crossed>>

WebPageNext ==
  \/ LeaveWebhooks \/ CloseModal
  \/ \E s \in WebSession : PickSession(s)
  \/ \E f \in fields : TypeUrl(f)
  \/ \E q \in WebRequest :
       \/ OpenWebhooks(q) \/ WebPageDrawn(q) \/ RotateSecret(q)
       \/ \E s \in WebSession : WebSessionsCame(q, s) \/ ShowSettings(q, s)
       \/ \E f \in fields : SubmitUrl(q, f)
       \/ \E ok \in BOOLEAN : WasRotated(q, ok) \/ SettingsCame(q, ok) \/ UrlSaved(q, ok)
WebPageSpec == WebPageInit /\ [][WebPageNext]_webPageVars

-----------------------------------------------------------------------------
\* Saving a form whose URL was not typed over leaves the session's URL as it is, through
\* any order of visits, modals and saves, with two exceptions: the form was drawn again
\* from the list of the last visit (a session picked, a secret rotated: the list is not
\* told of a save), or a save crossed another one, a read or the other form.
UntouchedUrlIsKept == reverted => crossed
=============================================================================
