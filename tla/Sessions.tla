-------------------------------- MODULE Sessions --------------------------------
(***************************************************************************)
(* The life of WhatsApp sessions: the map of connections and its requests  *)
(* (src/baileys/connectionManager.ts) with connecting, close events,       *)
(* reconnect timers and close() of a connection (src/baileys/              *)
(* connection.ts).                                                         *)
(*                                                                         *)
(* A connection object outlives its place in the map: sockets, timers and  *)
(* suspended calls keep referring to it.  close() forgets its socket but   *)
(* does not end it, and cancels no timer.  Requests, the restore loop of   *)
(* the start-up, timers and close events interleave at every await.        *)
(* Deletions and writes of the auth store take effect when they are        *)
(* issued; options, the message store file and logs are left out.          *)
(***************************************************************************)
EXTENDS Integers, FiniteSets

CONSTANTS
  Session,      \* session ids
  Conn,         \* identities of BaileysConnection objects
  Sock,         \* identities of sockets
  Request,      \* API requests that can be in progress at once
  Boot,         \* the restore loop of the start-up
  None,
  Configs       \* the configurations the process may be started with

\* redis: the auth backend is Redis, not files; maxSessions, maxRetries: the
\* limits of the same name; saved: the sessions that may have been saved; ids,
\* kinds, calls: bounds on the requests, their sessions, kinds and number.
ASSUME SessionsAssumption ==
  /\ None \notin Session \cup Conn \cup Sock /\ Boot \notin Request
  /\ IsFiniteSet(Session) /\ IsFiniteSet(Sock) /\ IsFiniteSet(Request)
  /\ Configs \subseteq [redis : BOOLEAN, maxSessions : Nat, maxRetries : Nat,
       saved : SUBSET Session, ids : SUBSET Session,
       kinds : SUBSET {"create", "reconnect", "delete"}, calls : Nat]

VARIABLES
  connections,  \* the Map: session id -> its connection
  conn,         \* the connection objects
  sock,         \* the sockets: owner and state
  stored,       \* what the auth store holds of each session
  task,         \* requests and the restore loop: where each is
  todo,         \* saved sessions the restore loop has still to connect
  config,       \* the configuration, which never changes
  calls,        \* history: requests so far
  deleted       \* history: sessions deleted and not asked for since

vars == <<connections, conn, sock, stored, task, todo, config, calls, deleted>>
aside == <<config, calls, deleted>>

Task == Request \cup {Boot}

\* timers: pending reconnect timers; auth, dialing: calls of connect() by timers,
\* before and after the auth state is loaded; clearing, saving: calls of close()
\* by close events, at their two awaits.  destroyed: a request has closed it.
\* failed: a timer's connect() has thrown.  restored: it stems from the start-up.
NewConn(id, restored) ==
  [id |-> id, socket |-> None, connected |-> FALSE, retries |-> 0, timers |-> 0,
   authed |-> FALSE, auth |-> 0, dialing |-> 0, clearing |-> 0, saving |-> 0,
   destroyed |-> FALSE, failed |-> FALSE, restored |-> restored]
IdleTask == [kind |-> "none", id |-> None, c |-> None, s |-> None, at |-> "idle"]

SessionsTypeOK ==
  /\ connections \in [Session -> Conn \cup {None}]
  /\ conn \in [Conn -> [id : Session \cup {None}, socket : Sock \cup {None},
       connected : BOOLEAN, retries : 0..config.maxRetries, timers : Nat, authed : BOOLEAN,
       auth : Nat, dialing : Nat, clearing : Nat, saving : Nat,
       destroyed : BOOLEAN, failed : BOOLEAN, restored : BOOLEAN]]
  /\ sock \in [Sock -> [owner : Conn \cup {None}, state : {"gone", "connecting", "open"}]]
  /\ stored \in [Session -> {"nothing", "metadata", "login"}]
  /\ task \in [Task -> [kind : {"none", "create", "reconnect", "delete", "boot"},
       id : Session \cup {None}, c : Conn \cup {None}, s : Sock \cup {None},
       at : {"idle", "loading", "logout", "clearing", "saving", "auth", "dialing",
             "pairing", "erasing"}]]
  /\ config \in Configs /\ todo \subseteq Session /\ calls \in 0..config.calls /\ deleted \subseteq Session

Gone == [owner |-> None, state |-> "gone"]

\* The process starts; any session may have been saved.
Init ==
  /\ connections = [i \in Session |-> None]
  /\ conn = [c \in Conn |-> NewConn(None, FALSE)]
  /\ sock = [s \in Sock |-> Gone]
  /\ config \in Configs
  /\ stored \in {f \in [Session -> {"nothing", "login"}] :
                   \A i \in Session \ config.saved : f[i] = "nothing"}
  /\ task = [t \in Task |-> IdleTask]
  /\ todo = {i \in Session : stored[i] = "login"}
  /\ calls = 0 /\ deleted = {}

-----------------------------------------------------------------------------
(* Helpers.                                                                *)

Listed == {connections[i] : i \in Session} \ {None}
Live(c) == {s \in Sock : sock[s].owner = c}

\* isConnected
IsConnected(c) == conn[c].connected /\ conn[c].socket # None

\* An object nothing refers to.
UnusedConn(c) ==
  /\ c \notin Listed /\ Live(c) = {}
  /\ \A t \in Task : task[t].c # c
  /\ conn[c].timers + conn[c].auth + conn[c].dialing + conn[c].clearing + conn[c].saving = 0
UnusedSock(s) ==
  /\ sock[s] = Gone
  /\ \A c \in Conn : conn[c].socket # s
  /\ \A t \in Task : task[t].s # s

\* close(), from its call to its first await, on the fields x.  With Redis the
\* await of clearState() comes first; then the fields are reset and the store is
\* written.
Clears(x) == config.redis /\ x.authed
Reset(x) == [x EXCEPT !.socket = None, !.connected = FALSE, !.retries = 0]
Forgotten(st, x) == IF Clears(x) THEN [st EXCEPT ![x.id] = "nothing"] ELSE st

\* close() called by a close event.
ClosedByEvent(x) ==
  IF Clears(x) THEN [x EXCEPT !.clearing = @ + 1]
  ELSE [Reset(x) EXCEPT !.saving = @ + 1]

\* close() called by a request.
ClosedByTask(x) == [(IF Clears(x) THEN x ELSE Reset(x)) EXCEPT !.destroyed = TRUE]
CloseStage(x) == IF Clears(x) THEN "clearing" ELSE "saving"

\* onConnectionClose: the map forgets the session, by its id.
Delisted(id) == [connections EXCEPT ![id] = None]

\* The limit, looked at when the new entry is about to be made.
Room(m) == Cardinality({i \in Session : m[i] # None}) < config.maxSessions

\* A new connection for task t, a record of the task, in the map m.
Install(t, r, m) ==
  LET c == CHOOSE n \in Conn : UnusedConn(n) IN
  /\ \E n \in Conn : UnusedConn(n)
  /\ connections' = [m EXCEPT ![r.id] = c]
  /\ conn' = [conn EXCEPT ![c] = NewConn(r.id, r.kind = "boot")]
  /\ task' = [task EXCEPT ![t] = [r EXCEPT !.c = c, !.at = "auth"]]

\* The same if there is room; the request fails if not.
InstallIfRoom(t, r, m) ==
  \/ Room(m) /\ Install(t, r, m)
  \/ ~Room(m) /\ connections' = m /\ task' = [task EXCEPT ![t] = IdleTask] /\ UNCHANGED conn

\* The task r starts to close its connection.
BeginClose(t, r) ==
  /\ conn' = [conn EXCEPT ![r.c] = ClosedByTask(@)]
  /\ stored' = Forgotten(stored, conn[r.c])
  /\ task' = [task EXCEPT ![t] = [r EXCEPT !.at = CloseStage(conn[r.c])]]

Moved(t, at) == [task EXCEPT ![t].at = at]
Ended(t) == [task EXCEPT ![t] = IdleTask]

-----------------------------------------------------------------------------
(* Requests.                                                               *)

\* A request of this kind for session id arrives at a free task.
Arrives(t, kind, id) ==
  /\ t \in Request /\ task[t] = IdleTask
  /\ id \in config.ids /\ kind \in config.kinds /\ calls < config.calls
  /\ calls' = calls + 1

\* createSession() up to its first await; a connected session is left alone.
CreateSession(t, id) ==
  LET r == [IdleTask EXCEPT !.kind = "create", !.id = id, !.c = connections[id]] IN
  /\ Arrives(t, "create", id)
  /\ deleted' = deleted \ {id}
  /\ \/ r.c = None /\ InstallIfRoom(t, r, connections) /\ UNCHANGED stored
     \/ r.c # None /\ ~IsConnected(r.c) /\ BeginClose(t, r) /\ UNCHANGED connections
  /\ UNCHANGED <<sock, todo, config>>

\* reconnectSession() up to the await of the saved sessions.
ReconnectSession(t, id) ==
  /\ Arrives(t, "reconnect", id)
  /\ connections[id] # None => ~IsConnected(connections[id])
  /\ deleted' = deleted \ {id}
  /\ task' = [task EXCEPT ![t] = [@ EXCEPT !.kind = "reconnect", !.id = id,
                                           !.c = connections[id], !.at = "loading"]]
  /\ UNCHANGED <<connections, conn, sock, stored, todo, config>>

\* A file is a saved session once it holds credentials, a Redis hash always.
Saved(id) == stored[id] = "login" \/ (config.redis /\ stored[id] = "metadata")

\* The saved sessions are known, or there is none, or the store fails: the entry
\* read before the await is closed, a saved session gets one, the request fails.
Loaded(t) ==
  LET r == task[t] IN
  /\ r.at = "loading"
  /\ \/ r.c # None /\ BeginClose(t, r) /\ UNCHANGED connections
     \/ r.c = None /\ Saved(r.id) /\ InstallIfRoom(t, r, connections) /\ UNCHANGED stored
     \/ task' = Ended(t) /\ UNCHANGED <<connections, conn, stored>>
  /\ UNCHANGED <<sock, todo, aside>>

\* deleteSession() up to its first await.
DeleteSession(t, id) ==
  LET r == [IdleTask EXCEPT !.kind = "delete", !.id = id, !.c = connections[id]] IN
  /\ Arrives(t, "delete", id)
  /\ \/ /\ r.c = None
        /\ task' = [task EXCEPT ![t] = [r EXCEPT !.at = "erasing"]]
        /\ UNCHANGED <<conn, stored>>
     \/ /\ r.c # None /\ conn[r.c].socket = None
        /\ BeginClose(t, r)
     \/ /\ r.c # None /\ conn[r.c].socket # None
        /\ task' = [task EXCEPT ![t] = [r EXCEPT !.s = conn[r.c].socket, !.at = "logout"]]
        /\ UNCHANGED <<conn, stored>>
  /\ UNCHANGED <<connections, sock, todo, config, deleted>>

\* Whether it throws.  (Variant: it waits for ever.)
LogoutHangs(s) == FALSE
LogoutThrows(s) == sock[s].state # "open"

\* socket.logout() ends an open socket, whose close event closes the connection
\* a first time; on any other socket it throws and the socket stays.
LoggedOut(t) ==
  LET r == task[t] IN
  /\ r.at = "logout"
  /\ \/ /\ sock[r.s].state = "open"
        /\ sock' = [sock EXCEPT ![r.s] = Gone]
        /\ conn' = [conn EXCEPT ![r.c] = ClosedByTask(ClosedByEvent([@ EXCEPT !.connected = FALSE]))]
        /\ stored' = Forgotten(stored, conn[r.c])
        /\ task' = Moved(t, CloseStage(conn[r.c]))
     \/ /\ LogoutThrows(r.s)
        /\ BeginClose(t, r)
        /\ UNCHANGED sock
  /\ UNCHANGED <<connections, todo, aside>>

\* clearState() resolved.
Cleared(t) ==
  /\ task[t].at = "clearing"
  /\ conn' = [conn EXCEPT ![task[t].c] = Reset(@)]
  /\ task' = Moved(t, "saving")
  /\ UNCHANGED <<connections, sock, stored, todo, aside>>

\* The store is written: close() is over, and the request goes on.
Closed(t) ==
  LET r == task[t] IN
  /\ r.at = "saving"
  /\ \/ /\ r.kind = "delete"
        /\ connections' = Delisted(r.id)
        /\ task' = Moved(t, "erasing")
        /\ UNCHANGED conn
     \/ /\ r.kind # "delete"
        /\ InstallIfRoom(t, r, Delisted(r.id))
  /\ UNCHANGED <<sock, stored, todo, aside>>

\* deleteAuthState()
Erased(t) ==
  LET id == task[t].id IN
  /\ task[t].at = "erasing"
  /\ stored' = [stored EXCEPT ![id] = "nothing"]
  /\ deleted' = IF \E u \in Task \ {t} : task[u].id = id THEN deleted ELSE deleted \cup {id}
  /\ task' = Ended(t)
  /\ UNCHANGED <<connections, conn, sock, todo, config, calls>>

\* reconnectSavedSessions(): the next saved session, without a look at the limit.
RestoreNext ==
  /\ task[Boot] = IdleTask
  /\ \E id \in todo :
       /\ Install(Boot, [IdleTask EXCEPT !.kind = "boot", !.id = id], connections)
       /\ todo' = todo \ {id}
  /\ UNCHANGED <<sock, stored, aside>>

-----------------------------------------------------------------------------
(* connect(), called by a task or by a timer.                              *)

WithMetadata(id) == [stored EXCEPT ![id] = IF @ = "nothing" THEN "metadata" ELSE @]

\* useAuthState() settles for a task; if it throws, only a reconnect takes its
\* entry out of the map.
AuthLoaded(t) ==
  LET r == task[t] IN
  /\ r.at = "auth"
  /\ \/ /\ conn' = [conn EXCEPT ![r.c].authed = TRUE]
        /\ stored' = WithMetadata(r.id)
        /\ task' = Moved(t, "dialing")
        /\ UNCHANGED connections
     \/ /\ connections' = IF r.kind = "reconnect" THEN Delisted(r.id) ELSE connections
        /\ task' = Ended(t)
        /\ UNCHANGED <<conn, stored>>
  /\ UNCHANGED <<sock, todo, aside>>

\* A new socket of connection c.
NewSocket(c, s) ==
  /\ UnusedSock(s) /\ s = CHOOSE x \in Sock : UnusedSock(x)
  /\ sock' = [sock EXCEPT ![s] = [owner |-> c, state |-> "connecting"]]

\* makeWASocket(); a request for a pairing code then waits for the first QR.
Dialed(t) ==
  LET r == task[t] IN
  /\ r.at = "dialing"
  /\ \/ \E s \in Sock :
          /\ NewSocket(r.c, s)
          /\ conn' = [conn EXCEPT ![r.c].socket = s]
          /\ \/ task' = Ended(t)
             \/ /\ r.kind = "create" /\ stored[r.id] # "login"
                /\ task' = [task EXCEPT ![t] = [r EXCEPT !.s = s, !.at = "pairing"]]
          /\ UNCHANGED connections
     \/ /\ connections' = Delisted(r.id)
        /\ task' = Ended(t)
        /\ UNCHANGED <<conn, sock>>
  /\ UNCHANGED <<stored, todo, aside>>

\* The QR event arrives and the pairing code is requested.
Paired(t) ==
  /\ task[t].at = "pairing" /\ sock[task[t].s].state = "connecting"
  /\ task' = Ended(t)
  /\ UNCHANGED <<connections, conn, sock, stored, todo, aside>>

\* A reconnect timer calls connect(), which returns at once if there is a socket.
TimerFires(c) ==
  /\ conn[c].timers > 0
  /\ conn' = [conn EXCEPT ![c].timers = @ - 1,
                          ![c].auth = IF conn[c].socket = None THEN @ + 1 ELSE @]
  /\ UNCHANGED <<connections, sock, stored, task, todo, aside>>

\* useAuthState() settles for a timer; if it throws, nothing tries again.
TimerAuthLoaded(c) ==
  /\ conn[c].auth > 0
  /\ \/ /\ conn' = [conn EXCEPT ![c].auth = @ - 1, ![c].dialing = @ + 1, ![c].authed = TRUE]
        /\ stored' = WithMetadata(conn[c].id)
     \/ /\ conn' = [conn EXCEPT ![c].auth = @ - 1, ![c].failed = TRUE]
        /\ UNCHANGED stored
  /\ UNCHANGED <<connections, sock, task, todo, aside>>

TimerDialed(c) ==
  /\ conn[c].dialing > 0
  /\ \/ \E s \in Sock :
          /\ NewSocket(c, s)
          /\ conn' = [conn EXCEPT ![c].dialing = @ - 1, ![c].socket = s]
          /\ UNCHANGED connections
     \/ /\ connections' = Delisted(conn[c].id)
        /\ conn' = [conn EXCEPT ![c].dialing = @ - 1]
        /\ UNCHANGED sock
  /\ UNCHANGED <<stored, task, todo, aside>>

-----------------------------------------------------------------------------
(* Events of sockets: handleConnectionUpdate(), which does not ask whether *)
(* the socket is the connection's present one.                             *)

\* Credentials are saved, if on files the folder is there.
WithLogin(id) ==
  [stored EXCEPT ![id] = IF config.redis \/ @ # "nothing" THEN "login" ELSE @]

\* "open"; the credentials have been saved by then.
Opens(s) ==
  LET c == sock[s].owner IN
  /\ sock[s].state = "connecting"
  /\ sock' = [sock EXCEPT ![s].state = "open"]
  /\ conn' = [conn EXCEPT ![c].connected = TRUE, ![c].retries = 0]
  /\ stored' = WithLogin(conn[c].id)
  /\ UNCHANGED <<connections, task, todo, aside>>

\* The fields of a connection whose close event leads to a reconnect.  (Variants:
\* it also connects at once; its socket is not forgotten.)
RetriedTwice(x) == [x EXCEPT !.retries = @ + 1, !.socket = None, !.timers = @ + 1, !.auth = @ + 1]
RetriedInVain(x) == [x EXCEPT !.retries = @ + 1, !.timers = @ + 1]
Retried(x) == [x EXCEPT !.retries = @ + 1, !.socket = None, !.timers = @ + 1]

\* Whether it does.  (Variant: one attempt too many.)
RetriesOnceMore(x, loggedOut) == ~loggedOut /\ x.retries <= config.maxRetries
Retries(x, loggedOut) == ~loggedOut /\ x.retries < config.maxRetries

\* "close"
Closes(s, loggedOut) ==
  LET c == sock[s].owner
      x == [conn[c] EXCEPT !.connected = FALSE]
  IN /\ sock[s].state # "gone"
     /\ sock' = [sock EXCEPT ![s] = Gone]
     /\ \/ /\ Retries(x, loggedOut)
           /\ conn' = [conn EXCEPT ![c] = Retried(x)]
           /\ UNCHANGED stored
        \/ /\ ~Retries(x, loggedOut)
           /\ conn' = [conn EXCEPT ![c] = ClosedByEvent(x)]
           /\ stored' = Forgotten(stored, x)
     /\ UNCHANGED <<connections, task, todo, aside>>

EventCleared(c) ==
  /\ conn[c].clearing > 0
  /\ conn' = [conn EXCEPT ![c] = [Reset(@) EXCEPT !.clearing = conn[c].clearing - 1,
                                               !.saving = conn[c].saving + 1]]
  /\ UNCHANGED <<connections, sock, stored, task, todo, aside>>

EventClosed(c) ==
  /\ conn[c].saving > 0
  /\ conn' = [conn EXCEPT ![c].saving = @ - 1]
  /\ connections' = Delisted(conn[c].id)
  /\ UNCHANGED <<sock, stored, task, todo, aside>>

-----------------------------------------------------------------------------

TaskStep(t) == Loaded(t) \/ LoggedOut(t) \/ Cleared(t) \/ Closed(t) \/ Erased(t)
               \/ AuthLoaded(t) \/ Dialed(t) \/ Paired(t)
TimerStep(c) == TimerFires(c) \/ TimerAuthLoaded(c) \/ TimerDialed(c)
EventStep(c) == EventCleared(c) \/ EventClosed(c)

Next ==
  \/ \E t \in Request, id \in Session :
       CreateSession(t, id) \/ ReconnectSession(t, id) \/ DeleteSession(t, id)
  \/ \E t \in Task : TaskStep(t)
  \/ RestoreNext
  \/ \E c \in Conn : TimerStep(c) \/ EventStep(c)
  \/ \E s \in Sock : Opens(s) \/ \E loggedOut \in BOOLEAN : Closes(s, loggedOut)

Spec == Init /\ [][Next]_vars

\* Timers fire, and the awaits of the auth store, the version request (which has a
\* default) and the store file settle.
FairSpec ==
  /\ Spec
  /\ \A t \in Task : WF_vars(TaskStep(t))
  /\ WF_vars(RestoreNext)
  /\ \A c \in Conn : WF_vars(TimerStep(c)) /\ WF_vars(EventStep(c))

-----------------------------------------------------------------------------
(* Properties.                                                             *)

\* However requests interleave at their awaits, they never add a session beyond
\* the limit: only what the start-up restored may exceed it.
RequestsKeepTheLimit ==
  Cardinality({i \in Session : connections[i] # None /\ ~conn[connections[i]].restored})
    <= config.maxSessions

\* A connection that no request has closed has one attempt at a time: a pending
\* timer, a call of connect(), or a live socket, never two of them.
OneAttemptAtATime ==
  \A c \in Conn : ~conn[c].destroyed =>
    conn[c].timers + conn[c].auth + conn[c].dialing + Cardinality(Live(c))
      + Cardinality({t \in Task : task[t].c = c /\ task[t].at \in {"auth", "dialing"}}) <= 1

\* However requests, timers and events interleave, no slot is used twice: neither a place
\* among the sessions nor the one attempt of a connection.
SessionsAreSingle == RequestsKeepTheLimit /\ OneAttemptAtATime

\* A connection waiting for its reconnect timer gets a live socket, unless a
\* request closes it, an attempt throws or it leaves the map.
DroppedIsRedialed ==
  \A c \in Conn : conn[c].timers > 0 ~>
    Live(c) # {} \/ conn[c].destroyed \/ conn[c].failed \/ c \notin Listed

\* Every request ends, unless it waits for a QR its socket will not send any more.
RequestsEnd ==
  \A t \in Request : task[t] # IdleTask ~>
    task[t] = IdleTask \/ (task[t].at = "pairing" /\ sock[task[t].s].state # "connecting")

-----------------------------------------------------------------------------
(* What the documentation says and the code does not do.                   *)

\* "reconnect ... never deletes credentials" (README.md:748-749): a request that
\* reconnects a session leaves what is stored of it alone.
ReconnectKeepsLogin ==
  [][\A t \in Request : task'[t].kind = "reconnect" /\ task'[t].at \in {"clearing", "saving"}
       /\ task[t].at = "loading" => stored' = stored]_vars

\* "Deleting a session removes its auth folder, metadata" (README.md:466-467): of a
\* deleted session nothing is stored until somebody asks for it again.
DeletedStaysDeleted == \A id \in deleted : stored[id] = "nothing"
=============================================================================
