----------------------------- MODULE SessionsProofs -----------------------------
(***************************************************************************)
(* Sessions are single: proofs about Sessions for any number of sessions,  *)
(* requests and connections and every configuration.  The two counts, of   *)
(* the places among the sessions and of the attempts of a connection, are  *)
(* kept step by step: a place is taken when there is room, and an attempt  *)
(* only becomes another one (a timer a call of connect(), a call a socket, *)
(* a socket a timer), or the connection was closed by a request.           *)
(***************************************************************************)
EXTENDS Sessions, FiniteSetTheorems, TLAPS

ConnRecord(most) ==
  [id : Session \cup {None}, socket : Sock \cup {None},
   connected : BOOLEAN, retries : 0..most, timers : Nat, authed : BOOLEAN,
   auth : Nat, dialing : Nat, clearing : Nat, saving : Nat,
   destroyed : BOOLEAN, failed : BOOLEAN, restored : BOOLEAN]
SockRecord == [owner : Conn \cup {None}, state : {"gone", "connecting", "open"}]
TaskRecord ==
  [kind : {"none", "create", "reconnect", "delete", "boot"},
   id : Session \cup {None}, c : Conn \cup {None}, s : Sock \cup {None},
   at : {"idle", "loading", "logout", "clearing", "saving", "auth", "dialing",
         "pairing", "erasing"}]

\* A socket has an owner as long as it lives.
SocketsAreOwned == \A s \in Sock : sock[s] = Gone \/ (sock[s].owner \in Conn /\ sock[s].state # "gone")

\* A task that closes or opens a connection has one, and every busy task a session.
Holding == {"logout", "clearing", "saving", "auth", "dialing", "pairing"}
TasksHaveConnections ==
  \A t \in Task : /\ task[t].at \in Holding => task[t].c \in Conn
                  /\ task[t].at # "idle" => task[t].id \in Session

SessionsInv == SessionsTypeOK /\ SocketsAreOwned /\ TasksHaveConnections /\ SessionsAreSingle

\* The places that requests have taken, and the attempts of a connection.
Taken == {i \in Session : connections[i] # None /\ ~conn[connections[i]].restored}
Waiting(x) == x.timers + x.auth + x.dialing
Calls(c) == {t \in Task : task[t].c = c /\ task[t].at \in {"auth", "dialing"}}
Attempts(c) == Waiting(conn[c]) + Cardinality(Live(c)) + Cardinality(Calls(c))

LEMMA AttemptsAre ==
  OneAttemptAtATime <=> \A c \in Conn : ~conn[c].destroyed => Attempts(c) <= 1
BY DEF OneAttemptAtATime, Attempts, Waiting, Calls

LEMMA SessionsState ==
  ASSUME SessionsTypeOK
  PROVE  /\ connections \in [Session -> Conn \cup {None}]
         /\ conn \in [Conn -> ConnRecord(config.maxRetries)] /\ sock \in [Sock -> SockRecord]
         /\ stored \in [Session -> {"nothing", "metadata", "login"}]
         /\ task \in [Task -> TaskRecord] /\ config \in Configs /\ todo \subseteq Session
         /\ calls \in 0..config.calls /\ deleted \subseteq Session
         /\ config.maxRetries \in Nat /\ config.maxSessions \in Nat /\ config.calls \in Nat
         /\ None \notin Conn
BY SessionsAssumption DEF SessionsTypeOK, ConnRecord, SockRecord, TaskRecord

\* Every count is a count of finitely many things.
LEMMA PartsAreFinite ==
  /\ \A S \in SUBSET Sock : IsFiniteSet(S) /\ Cardinality(S) \in Nat
  /\ \A T \in SUBSET Task : IsFiniteSet(T) /\ Cardinality(T) \in Nat
<1>1. IsFiniteSet(Task)
  <2>1. IsFiniteSet(Request) BY SessionsAssumption
  <2> QED BY <2>1, FS_AddElement DEF Task
<1> QED BY <1>1, SessionsAssumption, FS_Subset, FS_CardinalityType

LEMMA CountsAre ==
  ASSUME NEW c \in Conn
  PROVE  /\ IsFiniteSet(Live(c)) /\ Cardinality(Live(c)) \in Nat
         /\ IsFiniteSet(Calls(c)) /\ Cardinality(Calls(c)) \in Nat
         /\ IsFiniteSet(Live(c)') /\ Cardinality(Live(c)') \in Nat
         /\ IsFiniteSet(Calls(c)') /\ Cardinality(Calls(c)') \in Nat
         /\ SessionsTypeOK => Waiting(conn[c]) \in Nat /\ Attempts(c) \in Nat
         /\ SessionsTypeOK' => Waiting(conn'[c]) \in Nat /\ Attempts(c)' \in Nat
<1>1. Live(c) \subseteq Sock /\ Live(c)' \subseteq Sock BY DEF Live
<1>2. Calls(c) \subseteq Task /\ Calls(c)' \subseteq Task BY DEF Calls
<1>3. SessionsTypeOK => Waiting(conn[c]) \in Nat BY SessionsState DEF ConnRecord, Waiting
<1>4. SessionsTypeOK' => Waiting(conn'[c]) \in Nat BY DEF SessionsTypeOK, Waiting
<1> QED BY <1>1, <1>2, <1>3, <1>4, PartsAreFinite DEF Attempts

LEMMA PlacesAreFinite ==
  ASSUME NEW S \in SUBSET Session, NEW T \in SUBSET S
  PROVE  /\ IsFiniteSet(S) /\ Cardinality(S) \in Nat
         /\ IsFiniteSet(T) /\ Cardinality(T) \in Nat /\ Cardinality(T) <= Cardinality(S)
<1>1. IsFiniteSet(S) BY SessionsAssumption, FS_Subset
<1>2. IsFiniteSet(T) BY <1>1, FS_Subset
<1> QED BY <1>1, <1>2, FS_Subset, FS_CardinalityType

\* A step in which the map only forgets and no connection has more attempts than before.
LEMMA NoMoreKeeps ==
  ASSUME SessionsInv, SessionsTypeOK', SocketsAreOwned', TasksHaveConnections', config' = config,
         \A i \in Session : connections'[i] \in {connections[i], None},
         \A c \in Conn : conn'[c].restored = conn[c].restored,
         \A c \in Conn : ~conn'[c].destroyed => ~conn[c].destroyed /\ Attempts(c)' <= Attempts(c)
  PROVE  SessionsInv'
<1>1. SessionsTypeOK /\ SessionsAreSingle BY DEF SessionsInv
<1>2. Taken' \subseteq Taken
  <2> SUFFICES ASSUME NEW i \in Session, connections'[i] # None, ~conn'[connections'[i]].restored
               PROVE  connections[i] # None /\ ~conn[connections[i]].restored
    BY DEF Taken
  <2>1. connections'[i] = connections[i] /\ connections[i] \in Conn BY <1>1, SessionsState
  <2> QED BY <2>1
<1>3. RequestsKeepTheLimit'
  <2>1. Cardinality(Taken) <= config.maxSessions
    BY <1>1 DEF SessionsAreSingle, RequestsKeepTheLimit, Taken
  <2>2. Taken \in SUBSET Session /\ config.maxSessions \in Nat BY <1>1, SessionsState DEF Taken
  <2>3. /\ Cardinality(Taken') \in Nat /\ Cardinality(Taken) \in Nat
        /\ Cardinality(Taken') <= Cardinality(Taken)
    BY <1>2, <2>2, PlacesAreFinite
  <2>4. Cardinality(Taken') <= config'.maxSessions BY <2>1, <2>2, <2>3
  <2> QED BY <2>4 DEF RequestsKeepTheLimit, Taken
<1>4. \A c \in Conn : ~conn'[c].destroyed => Attempts(c)' <= 1
  <2> SUFFICES ASSUME NEW c \in Conn, ~conn'[c].destroyed PROVE Attempts(c)' <= 1
    OBVIOUS
  <2>1. Attempts(c) <= 1 BY <1>1, AttemptsAre DEF SessionsAreSingle
  <2>2. Attempts(c) \in Nat /\ Attempts(c)' \in Nat BY <1>1, CountsAre
  <2> QED BY <2>1, <2>2
<1>5. OneAttemptAtATime' BY <1>4 DEF OneAttemptAtATime, Attempts, Waiting, Calls
<1> QED BY <1>3, <1>5 DEF SessionsInv, SessionsAreSingle

\* One task goes on; the calls of connect() by tasks follow.
LEMMA TaskGoesOn ==
  ASSUME SessionsInv, NEW t \in Task, NEW r \in TaskRecord, task' = [task EXCEPT ![t] = r],
         r.at \in Holding => r.c \in Conn, r.at # "idle" => r.id \in Session
  PROVE  /\ task' \in [Task -> TaskRecord] /\ TasksHaveConnections'
         /\ \A c \in Conn : Calls(c)' = IF r.c = c /\ r.at \in {"auth", "dialing"}
                                        THEN Calls(c) \cup {t} ELSE Calls(c) \ {t}
<1>1. task \in [Task -> TaskRecord] /\ TasksHaveConnections BY SessionsState DEF SessionsInv
<1>2. task' \in [Task -> TaskRecord] /\ \A u \in Task : task'[u] = IF u = t THEN r ELSE task[u]
  BY <1>1
<1>3. TasksHaveConnections' BY <1>1, <1>2 DEF TasksHaveConnections
<1> QED BY <1>2, <1>3 DEF Calls

\* A task goes on, in the same call of connect() or in none, while the map forgets and
\* connections and sockets only lose attempts.
LEMMA TaskKeeps ==
  ASSUME SessionsInv, NEW t \in Task, NEW r \in TaskRecord, task' = [task EXCEPT ![t] = r],
         r.at \in Holding => r.c \in Conn, r.at # "idle" => r.id \in Session,
         r.at \in {"auth", "dialing"} => task[t].at \in {"auth", "dialing"} /\ r.c = task[t].c,
         connections' \in [Session -> Conn \cup {None}],
         \A i \in Session : connections'[i] \in {connections[i], None},
         sock' \in [Sock -> SockRecord], SocketsAreOwned', \A c \in Conn : Live(c)' \subseteq Live(c),
         conn' \in [Conn -> ConnRecord(config.maxRetries)],
         \A c \in Conn : /\ conn'[c].restored = conn[c].restored
                         /\ conn[c].destroyed => conn'[c].destroyed
                         /\ Waiting(conn'[c]) = Waiting(conn[c]),
         stored' \in [Session -> {"nothing", "metadata", "login"}], todo' \subseteq Session,
         config' = config, calls' \in 0..config.calls, deleted' \subseteq Session
  PROVE  SessionsInv'
<1>1. task' \in [Task -> TaskRecord] /\ TasksHaveConnections'
      /\ \A c \in Conn : Calls(c)' = IF r.c = c /\ r.at \in {"auth", "dialing"}
                                     THEN Calls(c) \cup {t} ELSE Calls(c) \ {t}
  BY TaskGoesOn
<1>2. SessionsTypeOK /\ config' \in Configs BY SessionsState DEF SessionsInv
<1>3. SessionsTypeOK' BY <1>1, <1>2 DEF SessionsTypeOK, ConnRecord, SockRecord, TaskRecord
<1>4. ASSUME NEW c \in Conn PROVE Attempts(c)' <= Attempts(c)
  <2>1. Calls(c)' \subseteq Calls(c) BY <1>1 DEF Calls
  <2>2. Cardinality(Calls(c)') <= Cardinality(Calls(c)) BY <2>1, CountsAre, FS_Subset
  <2>3. Cardinality(Live(c)') <= Cardinality(Live(c)) BY CountsAre, FS_Subset
  <2>4. Waiting(conn[c]) \in Nat BY <1>2, CountsAre
  <2> QED BY <2>2, <2>3, <2>4, CountsAre DEF Attempts
<1> QED BY <1>1, <1>2, <1>3, <1>4, NoMoreKeeps

\* A new connection is one that nothing refers to; there was room for it, or it stems
\* from the start-up.
LEMMA InstallKeeps ==
  ASSUME SessionsInv, NEW t \in Task, NEW r \in TaskRecord, r.id \in Session,
         NEW m \in [Session -> Conn \cup {None}], \A i \in Session : m[i] \in {connections[i], None},
         Install(t, r, m), Room(m) \/ r.kind = "boot",
         UNCHANGED <<sock, config>>,
         stored' \in [Session -> {"nothing", "metadata", "login"}], todo' \subseteq Session,
         calls' \in 0..config.calls, deleted' \subseteq Session
  PROVE  SessionsInv'
<1> DEFINE c == CHOOSE n \in Conn : UnusedConn(n)
           x == NewConn(r.id, r.kind = "boot")
           q == [r EXCEPT !.c = c, !.at = "auth"]
<1>1. /\ c \in Conn /\ UnusedConn(c) /\ connections' = [m EXCEPT ![r.id] = c]
      /\ conn' = [conn EXCEPT ![c] = x] /\ task' = [task EXCEPT ![t] = q]
  BY DEF Install
<1> HIDE DEF c
<1>2. /\ connections \in [Session -> Conn \cup {None}] /\ conn \in [Conn -> ConnRecord(config.maxRetries)]
      /\ config \in Configs /\ config.maxRetries \in Nat /\ config.maxSessions \in Nat /\ None \notin Conn
      /\ SessionsTypeOK /\ SessionsAreSingle /\ sock \in [Sock -> SockRecord] /\ SocketsAreOwned
  BY SessionsState DEF SessionsInv
<1>3. /\ x \in ConnRecord(config.maxRetries) /\ Waiting(x) = 0
      /\ x.restored = (r.kind = "boot") /\ x.destroyed = FALSE
  BY <1>2 DEF NewConn, ConnRecord, Waiting
<1>4. q \in TaskRecord /\ q.c = c /\ q.at = "auth" /\ q.id = r.id BY <1>1 DEF TaskRecord
<1> HIDE DEF x, q
<1>5. task' \in [Task -> TaskRecord] /\ TasksHaveConnections'
      /\ \A n \in Conn : Calls(n)' = IF n = c THEN Calls(n) \cup {t} ELSE Calls(n) \ {t}
  BY <1>1, <1>4, TaskGoesOn
<1>6. connections' \in [Session -> Conn \cup {None}] /\ conn' \in [Conn -> ConnRecord(config.maxRetries)]
  BY <1>1, <1>2, <1>3
<1>7. SessionsTypeOK' BY <1>2, <1>5, <1>6 DEF SessionsTypeOK, ConnRecord, SockRecord, TaskRecord
<1>8. SocketsAreOwned' BY <1>2 DEF SocketsAreOwned
<1>9. c \notin Listed /\ Live(c) = {} /\ Calls(c) = {} BY <1>1 DEF UnusedConn, Calls
<1>10. RequestsKeepTheLimit'
  <2>1. \A i \in Session \ {r.id} :
          connections'[i] # None => /\ connections'[i] = connections[i] /\ m[i] = connections[i]
                                    /\ conn'[connections'[i]] = conn[connections[i]]
    <3> SUFFICES ASSUME NEW i \in Session \ {r.id}, connections'[i] # None
                 PROVE  /\ connections'[i] = connections[i] /\ m[i] = connections[i]
                        /\ conn'[connections'[i]] = conn[connections[i]]
      OBVIOUS
    <3>1. connections'[i] = m[i] /\ m[i] = connections[i] /\ connections[i] \in Conn BY <1>1, <1>2
    <3>2. connections[i] # c BY <1>2, <1>9, <3>1 DEF Listed
    <3> QED BY <1>1, <1>2, <3>1, <3>2
  <2>2. connections'[r.id] = c /\ conn'[c] = x BY <1>1, <1>2
  <2>3. Taken \subseteq Session /\ Taken' \subseteq Session /\ Cardinality(Taken) <= config.maxSessions
    BY <1>2 DEF Taken, SessionsAreSingle, RequestsKeepTheLimit
  <2>4. CASE r.kind = "boot"
    <3>1. Taken' \subseteq Taken BY <1>3, <2>1, <2>2, <2>4 DEF Taken
    <3>2. /\ Cardinality(Taken') \in Nat /\ Cardinality(Taken) \in Nat
          /\ Cardinality(Taken') <= Cardinality(Taken)
      BY <2>3, <3>1, PlacesAreFinite
    <3> QED BY <1>2, <2>3, <3>2 DEF RequestsKeepTheLimit, Taken
  <2>5. CASE r.kind # "boot"
    <3> DEFINE full == {i \in Session : m[i] # None}
    <3>1. Cardinality(full) < config.maxSessions BY <2>5 DEF Room
    <3>2. Taken' \subseteq full \cup {r.id} /\ full \cup {r.id} \subseteq Session
      BY <2>1 DEF Taken
    <3>3. full \subseteq Session OBVIOUS
    <3> HIDE DEF full
    <3>4. IsFiniteSet(full) /\ Cardinality(full) \in Nat BY <3>3, PlacesAreFinite
    <3>5. Cardinality(full \cup {r.id}) <= Cardinality(full) + 1
      <4>1. Cardinality(full \cup {r.id}) = IF r.id \in full THEN Cardinality(full) ELSE Cardinality(full) + 1
        BY <3>4, FS_AddElement
      <4> QED BY <3>4, <4>1
    <3>6. /\ Cardinality(Taken') \in Nat /\ Cardinality(full \cup {r.id}) \in Nat
          /\ Cardinality(Taken') <= Cardinality(full \cup {r.id})
      BY <3>2, PlacesAreFinite
    <3>7. Cardinality(Taken') <= config.maxSessions BY <1>2, <3>1, <3>4, <3>5, <3>6
    <3> QED BY <3>7 DEF RequestsKeepTheLimit, Taken
  <2> QED BY <2>4, <2>5
<1>11. ASSUME NEW n \in Conn, ~conn'[n].destroyed PROVE Attempts(n)' <= 1
  <2>1. Live(n)' = Live(n) BY DEF Live
  <2>2. CASE n = c
    <3>1. Calls(n)' = {t} /\ Live(n)' = {} BY <1>5, <1>9, <2>1, <2>2
    <3>2. Waiting(conn'[n]) = 0 BY <1>1, <1>2, <1>3, <2>2
    <3>3. Cardinality({t}) = 1 /\ Cardinality({}) = 0 BY FS_Singleton, FS_EmptySet
    <3>4. Attempts(n)' = Waiting(conn'[n]) + Cardinality(Live(n)') + Cardinality(Calls(n)')
      BY DEF Attempts
    <3> QED BY <3>1, <3>2, <3>3, <3>4
  <2>3. CASE n # c
    <3>1. conn'[n] = conn[n] BY <1>1, <1>2, <2>3
    <3>2. Calls(n)' \subseteq Calls(n) BY <1>5, <2>3
    <3>3. Cardinality(Calls(n)') <= Cardinality(Calls(n)) BY <3>2, CountsAre, FS_Subset
    <3>4. Waiting(conn[n]) \in Nat BY <1>2, CountsAre
    <3>5. Attempts(n) <= 1 BY <1>2, <1>11, <3>1, AttemptsAre DEF SessionsAreSingle
    <3> QED BY <2>1, <3>1, <3>3, <3>4, <3>5, CountsAre DEF Attempts
  <2> QED BY <2>2, <2>3
<1>12. OneAttemptAtATime' BY <1>11 DEF OneAttemptAtATime, Attempts, Waiting, Calls
<1> QED BY <1>5, <1>7, <1>8, <1>10, <1>12 DEF SessionsInv, SessionsAreSingle

\* A step without a task: a connection exchanges one attempt for another.
LEMMA ExchangeKeeps ==
  ASSUME SessionsInv, UNCHANGED <<task, todo, config, calls, deleted>>,
         connections' \in [Session -> Conn \cup {None}],
         \A i \in Session : connections'[i] \in {connections[i], None},
         sock' \in [Sock -> SockRecord], SocketsAreOwned',
         conn' \in [Conn -> ConnRecord(config.maxRetries)],
         stored' \in [Session -> {"nothing", "metadata", "login"}],
         \A c \in Conn : /\ conn'[c].restored = conn[c].restored
                         /\ conn[c].destroyed => conn'[c].destroyed
                         /\ Waiting(conn'[c]) + Cardinality(Live(c)')
                              <= Waiting(conn[c]) + Cardinality(Live(c))
  PROVE  SessionsInv'
<1>1. SessionsTypeOK /\ TasksHaveConnections /\ task \in [Task -> TaskRecord]
      /\ todo \subseteq Session /\ config \in Configs /\ calls \in 0..config.calls /\ deleted \subseteq Session
  BY SessionsState DEF SessionsInv
<1>2. SessionsTypeOK' BY <1>1 DEF SessionsTypeOK, ConnRecord, SockRecord, TaskRecord
<1>3. TasksHaveConnections' BY <1>1 DEF TasksHaveConnections
<1>4. ASSUME NEW c \in Conn PROVE Attempts(c)' <= Attempts(c)
  <2>1. Calls(c)' = Calls(c) BY DEF Calls
  <2>2. Waiting(conn[c]) \in Nat /\ Waiting(conn'[c]) \in Nat BY <1>1, <1>2, CountsAre
  <2> QED BY <2>1, <2>2, CountsAre DEF Attempts
<1> QED BY <1>2, <1>3, <1>4, NoMoreKeeps

\* What the steps make of the fields of a connection.  Alike: no attempt is gained.
Alike(x, y) ==
  y.restored = x.restored /\ (x.destroyed => y.destroyed) /\ Waiting(y) = Waiting(x)

LEMMA FieldsKept ==
  ASSUME NEW n \in Nat, NEW x \in ConnRecord(n)
  PROVE  /\ Reset(x) \in ConnRecord(n) /\ Alike(x, Reset(x))
         /\ [x EXCEPT !.connected = FALSE] \in ConnRecord(n) /\ Alike(x, [x EXCEPT !.connected = FALSE])
         /\ [x EXCEPT !.authed = TRUE] \in ConnRecord(n) /\ Alike(x, [x EXCEPT !.authed = TRUE])
         /\ \A s \in Sock : /\ [x EXCEPT !.socket = s] \in ConnRecord(n)
                            /\ Alike(x, [x EXCEPT !.socket = s])
         /\ [x EXCEPT !.connected = TRUE, !.retries = 0] \in ConnRecord(n)
         /\ Alike(x, [x EXCEPT !.connected = TRUE, !.retries = 0])
<1>1. None \in Sock \cup {None} /\ 0 \in 0..n /\ FALSE \in BOOLEAN /\ TRUE \in BOOLEAN OBVIOUS
<1>2. Reset(x) \in ConnRecord(n) BY <1>1 DEF ConnRecord, Reset
<1>3. Alike(x, Reset(x)) BY DEF ConnRecord, Reset, Alike, Waiting
<1>4. [x EXCEPT !.connected = FALSE] \in ConnRecord(n) /\ [x EXCEPT !.authed = TRUE] \in ConnRecord(n)
  BY <1>1 DEF ConnRecord
<1>5. Alike(x, [x EXCEPT !.connected = FALSE]) /\ Alike(x, [x EXCEPT !.authed = TRUE])
  BY DEF ConnRecord, Alike, Waiting
<1>6. ASSUME NEW s \in Sock
      PROVE  [x EXCEPT !.socket = s] \in ConnRecord(n) /\ Alike(x, [x EXCEPT !.socket = s])
  <2>1. [x EXCEPT !.socket = s] \in ConnRecord(n) BY DEF ConnRecord
  <2>2. Alike(x, [x EXCEPT !.socket = s]) BY DEF ConnRecord, Alike, Waiting
  <2> QED BY <2>1, <2>2
<1>7. [x EXCEPT !.connected = TRUE, !.retries = 0] \in ConnRecord(n) BY <1>1 DEF ConnRecord
<1>8. Alike(x, [x EXCEPT !.connected = TRUE, !.retries = 0]) BY DEF ConnRecord, Alike, Waiting
<1> QED BY <1>2, <1>3, <1>4, <1>5, <1>6, <1>7, <1>8

LEMMA CloseFields ==
  ASSUME NEW n \in Nat, NEW x \in ConnRecord(n)
  PROVE  /\ ClosedByEvent(x) \in ConnRecord(n) /\ Alike(x, ClosedByEvent(x))
         /\ ClosedByTask(x) \in ConnRecord(n) /\ Alike(x, ClosedByTask(x))
<1>1. Reset(x) \in ConnRecord(n) /\ Alike(x, Reset(x)) BY FieldsKept
<1>2. ASSUME NEW y \in ConnRecord(n)
      PROVE  /\ [y EXCEPT !.clearing = @ + 1] \in ConnRecord(n) /\ Alike(y, [y EXCEPT !.clearing = @ + 1])
             /\ [y EXCEPT !.saving = @ + 1] \in ConnRecord(n) /\ Alike(y, [y EXCEPT !.saving = @ + 1])
             /\ [y EXCEPT !.destroyed = TRUE] \in ConnRecord(n) /\ Alike(y, [y EXCEPT !.destroyed = TRUE])
  <2>1. y.clearing + 1 \in Nat /\ y.saving + 1 \in Nat BY DEF ConnRecord
  <2> QED BY <2>1 DEF ConnRecord, Alike, Waiting
<1>3. \A y, z : Alike(x, y) /\ Alike(y, z) => Alike(x, z) BY DEF Alike
<1>4. ClosedByEvent(x) \in ConnRecord(n) /\ Alike(x, ClosedByEvent(x))
  BY <1>1, <1>2, <1>3 DEF ClosedByEvent
<1>5. ClosedByTask(x) \in ConnRecord(n) /\ Alike(x, ClosedByTask(x))
  BY <1>1, <1>2, <1>3 DEF ClosedByTask
<1> QED BY <1>4, <1>5

\* What is stored of a session after it was written or forgotten.
LEMMA StoredStays ==
  ASSUME NEW f \in [Session -> {"nothing", "metadata", "login"}]
  PROVE  /\ \A x : Forgotten(f, x) \in [Session -> {"nothing", "metadata", "login"}]
         /\ \A id : [f EXCEPT ![id] = "nothing"] \in [Session -> {"nothing", "metadata", "login"}]
         /\ f = stored => \A id : WithMetadata(id) \in [Session -> {"nothing", "metadata", "login"}]
         /\ f = stored => \A id : WithLogin(id) \in [Session -> {"nothing", "metadata", "login"}]
<1>1. \A id, v : v \in {"nothing", "metadata", "login"} =>
        [f EXCEPT ![id] = v] \in [Session -> {"nothing", "metadata", "login"}]
  OBVIOUS
<1>2. \A x : Forgotten(f, x) \in [Session -> {"nothing", "metadata", "login"}]
  BY <1>1 DEF Forgotten
<1>3. ASSUME f = stored, NEW id PROVE WithMetadata(id) \in [Session -> {"nothing", "metadata", "login"}]
  BY <1>3 DEF WithMetadata
<1>4. ASSUME f = stored, NEW id PROVE WithLogin(id) \in [Session -> {"nothing", "metadata", "login"}]
  BY <1>4 DEF WithLogin
<1> QED BY <1>1, <1>2, <1>3, <1>4

\* The map forgets a session.
LEMMA MapForgets ==
  ASSUME SessionsTypeOK, NEW id
  PROVE  /\ Delisted(id) \in [Session -> Conn \cup {None}]
         /\ \A i \in Session : Delisted(id)[i] \in {connections[i], None}
BY SessionsState DEF Delisted

\* A socket ends; a new one is made for a connection.
LEMMA SocketGoes ==
  ASSUME SessionsInv, NEW s, sock' = [sock EXCEPT ![s] = Gone]
  PROVE  /\ sock' \in [Sock -> SockRecord] /\ SocketsAreOwned'
         /\ \A c \in Conn : Live(c)' = Live(c) \ {s}
<1>1. sock \in [Sock -> SockRecord] /\ SocketsAreOwned /\ None \notin Conn
  BY SessionsState DEF SessionsInv
<1>2. Gone \in SockRecord /\ Gone.owner = None BY DEF Gone, SockRecord
<1>3. sock' \in [Sock -> SockRecord] /\ \A z \in Sock : sock'[z] = IF z = s THEN Gone ELSE sock[z]
  BY <1>1, <1>2
<1> QED BY <1>1, <1>2, <1>3 DEF SocketsAreOwned, Live

LEMMA SocketComes ==
  ASSUME SessionsInv, NEW c \in Conn, NEW s \in Sock, NewSocket(c, s)
  PROVE  /\ sock' \in [Sock -> SockRecord] /\ SocketsAreOwned'
         /\ \A n \in Conn : Live(n)' = IF n = c THEN Live(n) \cup {s} ELSE Live(n)
         /\ Cardinality(Live(c)') = Cardinality(Live(c)) + 1
<1>1. sock \in [Sock -> SockRecord] /\ SocketsAreOwned /\ None \notin Conn
  BY SessionsState DEF SessionsInv
<1>2. /\ sock[s] = Gone /\ Gone.owner = None
      /\ sock' = [sock EXCEPT ![s] = [owner |-> c, state |-> "connecting"]]
  BY DEF NewSocket, UnusedSock, Gone
<1>3. /\ sock' \in [Sock -> SockRecord]
      /\ \A z \in Sock : sock'[z] = IF z = s THEN [owner |-> c, state |-> "connecting"] ELSE sock[z]
  BY <1>1, <1>2 DEF SockRecord
<1>4. SocketsAreOwned' BY <1>1, <1>3 DEF SocketsAreOwned
<1>5. \A n \in Conn : Live(n)' = IF n = c THEN Live(n) \cup {s} ELSE Live(n)
  BY <1>1, <1>2, <1>3 DEF Live
<1>6. s \notin Live(c) BY <1>1, <1>2 DEF Live
<1>7. Cardinality(Live(c) \cup {s}) = Cardinality(Live(c)) + 1 BY <1>6, CountsAre, FS_AddElement
<1> QED BY <1>3, <1>4, <1>5, <1>7

LEMMA IdleIs == /\ IdleTask \in TaskRecord /\ IdleTask.at = "idle" /\ IdleTask.c = None
                /\ IdleTask.kind = "none" /\ IdleTask.id = None
BY DEF IdleTask, TaskRecord

\* A request that is over, or waits for something that opens no connection.
LEMMA WaitKeeps ==
  ASSUME SessionsInv, NEW t \in Task, NEW r \in TaskRecord, task' = [task EXCEPT ![t] = r],
         r.at \notin {"auth", "dialing"}, r.at \in Holding => r.c \in Conn,
         r.at # "idle" => r.id \in Session,
         connections' \in [Session -> Conn \cup {None}],
         \A i \in Session : connections'[i] \in {connections[i], None},
         stored' \in [Session -> {"nothing", "metadata", "login"}],
         UNCHANGED <<conn, sock, config>>,
         todo' \subseteq Session, calls' \in 0..config.calls, deleted' \subseteq Session
  PROVE  SessionsInv'
<1>1. /\ sock \in [Sock -> SockRecord] /\ SocketsAreOwned
      /\ conn \in [Conn -> ConnRecord(config.maxRetries)]
  BY SessionsState DEF SessionsInv
<1>2. SocketsAreOwned' /\ \A c \in Conn : Live(c)' = Live(c) BY <1>1 DEF SocketsAreOwned, Live
<1> QED BY <1>1, <1>2, TaskKeeps

\* A request that closes a connection.
LEMMA BeginCloseKeeps ==
  ASSUME SessionsInv, NEW t \in Task, NEW r \in TaskRecord, r.c \in Conn, r.id \in Session,
         BeginClose(t, r), UNCHANGED <<connections, sock, todo, config>>,
         calls' \in 0..config.calls, deleted' \subseteq Session
  PROVE  SessionsInv'
<1> DEFINE q == [r EXCEPT !.at = CloseStage(conn[r.c])]
<1>1. /\ SessionsTypeOK /\ sock \in [Sock -> SockRecord] /\ SocketsAreOwned
      /\ conn \in [Conn -> ConnRecord(config.maxRetries)] /\ config.maxRetries \in Nat
      /\ connections \in [Session -> Conn \cup {None}] /\ todo \subseteq Session
      /\ stored \in [Session -> {"nothing", "metadata", "login"}]
  BY SessionsState DEF SessionsInv
<1>2. /\ conn' = [conn EXCEPT ![r.c] = ClosedByTask(conn[r.c])]
      /\ stored' = Forgotten(stored, conn[r.c]) /\ task' = [task EXCEPT ![t] = q]
  BY <1>1 DEF BeginClose
<1>3. conn[r.c] \in ConnRecord(config.maxRetries) BY <1>1
<1>4. /\ ClosedByTask(conn[r.c]) \in ConnRecord(config.maxRetries)
      /\ Alike(conn[r.c], ClosedByTask(conn[r.c]))
  BY <1>1, <1>3, CloseFields
<1>5. /\ conn' \in [Conn -> ConnRecord(config.maxRetries)]
      /\ \A c \in Conn : /\ conn'[c].restored = conn[c].restored
                         /\ conn[c].destroyed => conn'[c].destroyed
                         /\ Waiting(conn'[c]) = Waiting(conn[c])
  BY <1>1, <1>2, <1>4 DEF Alike
<1>6. stored' \in [Session -> {"nothing", "metadata", "login"}] BY <1>1, <1>2, StoredStays
<1>7. q \in TaskRecord /\ q.at \in {"clearing", "saving"} /\ q.c \in Conn /\ q.id \in Session
  BY DEF TaskRecord, CloseStage
<1> HIDE DEF q
<1>8. SocketsAreOwned' /\ \A c \in Conn : Live(c)' = Live(c) BY <1>1 DEF SocketsAreOwned, Live
<1> QED BY <1>1, <1>2, <1>5, <1>6, <1>7, <1>8, TaskKeeps

\* A request that wants a new connection.
LEMMA InstallIfRoomKeeps ==
  ASSUME SessionsInv, NEW t \in Task, NEW r \in TaskRecord, r.id \in Session,
         NEW m \in [Session -> Conn \cup {None}], \A i \in Session : m[i] \in {connections[i], None},
         InstallIfRoom(t, r, m), UNCHANGED <<sock, stored, todo, config>>,
         calls' \in 0..config.calls, deleted' \subseteq Session
  PROVE  SessionsInv'
<1>1. todo \subseteq Session /\ stored \in [Session -> {"nothing", "metadata", "login"}]
  BY SessionsState DEF SessionsInv
<1>2. CASE Room(m) /\ Install(t, r, m) BY <1>1, <1>2, InstallKeeps
<1>3. CASE connections' = m /\ task' = [task EXCEPT ![t] = IdleTask] /\ UNCHANGED conn
  <2>1. IdleTask.at \notin Holding BY IdleIs DEF Holding
  <2> QED BY <1>1, <1>3, <2>1, IdleIs, WaitKeeps
<1> QED BY <1>2, <1>3 DEF InstallIfRoom

-----------------------------------------------------------------------------
(* The steps.                                                              *)

LEMMA SessionsStateIs ==
  ASSUME SessionsInv
  PROVE  /\ SessionsTypeOK /\ SocketsAreOwned /\ TasksHaveConnections
         /\ connections \in [Session -> Conn \cup {None}]
         /\ conn \in [Conn -> ConnRecord(config.maxRetries)] /\ sock \in [Sock -> SockRecord]
         /\ stored \in [Session -> {"nothing", "metadata", "login"}]
         /\ task \in [Task -> TaskRecord] /\ config \in Configs /\ todo \subseteq Session
         /\ calls \in 0..config.calls /\ deleted \subseteq Session
         /\ config.maxRetries \in Nat /\ config.calls \in Nat /\ None \notin Conn
         /\ config.ids \subseteq Session
         /\ \A i \in Session : connections[i] \in {connections[i], None}
         /\ \A c \in Conn : Alike(conn[c], conn[c])
BY SessionsState, SessionsAssumption DEF SessionsInv, Alike

\* Requests up to their first await.
LEMMA RequestsKeep ==
  ASSUME SessionsInv, NEW t \in Request, NEW id \in Session,
         CreateSession(t, id) \/ ReconnectSession(t, id) \/ DeleteSession(t, id)
  PROVE  SessionsInv'
<1>1. t \in Task BY DEF Task
<1>2. /\ SessionsTypeOK /\ connections \in [Session -> Conn \cup {None}]
      /\ stored \in [Session -> {"nothing", "metadata", "login"}] /\ todo \subseteq Session
      /\ calls \in 0..config.calls /\ deleted \subseteq Session /\ config.calls \in Nat
      /\ \A i \in Session : connections[i] \in {connections[i], None}
      /\ conn \in [Conn -> ConnRecord(config.maxRetries)]
  BY SessionsStateIs
<1>3. /\ task[t] = IdleTask /\ calls' \in 0..config.calls
  BY <1>2 DEF CreateSession, ReconnectSession, DeleteSession, Arrives
<1>4. deleted' \subseteq Session /\ UNCHANGED <<sock, todo, config>>
  BY <1>2 DEF CreateSession, ReconnectSession, DeleteSession
<1>5. CASE CreateSession(t, id)
  <2> DEFINE r == [IdleTask EXCEPT !.kind = "create", !.id = id, !.c = connections[id]]
  <2>1. r \in TaskRecord /\ r.id = id /\ r.c = connections[id]
    BY <1>2 DEF IdleTask, TaskRecord
  <2>2. \/ InstallIfRoom(t, r, connections) /\ UNCHANGED stored
        \/ r.c # None /\ BeginClose(t, r) /\ UNCHANGED connections
    BY <1>5 DEF CreateSession
  <2> HIDE DEF r
  <2>3. CASE InstallIfRoom(t, r, connections) /\ UNCHANGED stored
    BY <1>1, <1>2, <1>3, <1>4, <2>1, <2>3, InstallIfRoomKeeps
  <2>4. CASE r.c # None /\ BeginClose(t, r) /\ UNCHANGED connections
    <3>1. r.c \in Conn BY <1>2, <2>1, <2>4
    <3> QED BY <1>1, <1>3, <1>4, <2>1, <2>4, <3>1, BeginCloseKeeps
  <2> QED BY <2>2, <2>3, <2>4
<1>6. CASE ReconnectSession(t, id)
  <2> DEFINE r == [IdleTask EXCEPT !.kind = "reconnect", !.id = id, !.c = connections[id],
                                   !.at = "loading"]
  <2>1. r \in TaskRecord /\ r.id = id /\ r.at = "loading"
    BY <1>2 DEF IdleTask, TaskRecord
  <2>2. task' = [task EXCEPT ![t] = r] /\ UNCHANGED <<connections, conn, stored>>
    BY <1>3, <1>6 DEF ReconnectSession
  <2>3. r.at \notin Holding BY <2>1 DEF Holding
  <2> HIDE DEF r
  <2> QED BY <1>1, <1>2, <1>3, <1>4, <2>1, <2>2, <2>3, WaitKeeps
<1>7. CASE DeleteSession(t, id)
  <2> DEFINE r == [IdleTask EXCEPT !.kind = "delete", !.id = id, !.c = connections[id]]
             away == [r EXCEPT !.at = "erasing"]
             out == [r EXCEPT !.s = conn[r.c].socket, !.at = "logout"]
  <2>1. /\ r \in TaskRecord /\ r.id = id /\ r.c = connections[id]
        /\ away \in TaskRecord /\ away.id = id /\ away.at = "erasing"
    BY <1>2 DEF IdleTask, TaskRecord
  <2>2. UNCHANGED connections BY <1>7 DEF DeleteSession
  <2>3. CASE task' = [task EXCEPT ![t] = away] /\ UNCHANGED <<conn, stored>>
    <3>1. away.at \notin Holding BY <2>1 DEF Holding
    <3> HIDE DEF away
    <3> QED BY <1>1, <1>2, <1>3, <1>4, <2>1, <2>2, <2>3, <3>1, WaitKeeps
  <2>4. CASE r.c # None /\ BeginClose(t, r)
    <3> HIDE DEF r
    <3>1. r.c \in Conn BY <1>2, <2>1, <2>4
    <3> QED BY <1>1, <1>3, <1>4, <2>1, <2>2, <2>4, <3>1, BeginCloseKeeps
  <2>5. CASE r.c # None /\ task' = [task EXCEPT ![t] = out] /\ UNCHANGED <<conn, stored>>
    <3>1. r.c \in Conn BY <1>2, <2>1, <2>5
    <3>2. conn[r.c].socket \in Sock \cup {None} BY <1>2, <3>1 DEF ConnRecord
    <3>3. out \in TaskRecord /\ out.id = id /\ out.at = "logout" /\ out.c = r.c
      BY <2>1, <3>2 DEF TaskRecord
    <3> HIDE DEF out, r
    <3> QED BY <1>1, <1>2, <1>3, <1>4, <2>2, <2>5, <3>1, <3>3, WaitKeeps
  <2> QED BY <1>7, <2>3, <2>4, <2>5 DEF DeleteSession
<1> QED BY <1>5, <1>6, <1>7

\* The awaits of close() and of deleteSession().
LEMMA ClosingKeeps ==
  ASSUME SessionsInv, NEW t \in Task, Loaded(t) \/ Cleared(t) \/ Closed(t) \/ Erased(t) \/ Paired(t)
  PROVE  SessionsInv'
<1> DEFINE r == task[t]
<1>1. /\ SessionsTypeOK /\ connections \in [Session -> Conn \cup {None}]
      /\ stored \in [Session -> {"nothing", "metadata", "login"}] /\ todo \subseteq Session
      /\ calls \in 0..config.calls /\ deleted \subseteq Session /\ config.calls \in Nat
      /\ \A i \in Session : connections[i] \in {connections[i], None}
      /\ conn \in [Conn -> ConnRecord(config.maxRetries)] /\ config.maxRetries \in Nat
      /\ sock \in [Sock -> SockRecord] /\ SocketsAreOwned
      /\ task \in [Task -> TaskRecord] /\ \A c \in Conn : Alike(conn[c], conn[c])
  BY SessionsStateIs
<1>2. /\ r \in TaskRecord /\ (r.at \in Holding => r.c \in Conn) /\ (r.at # "idle" => r.id \in Session)
  BY <1>1, SessionsStateIs DEF TasksHaveConnections
<1>3. r.c \in Conn \cup {None} BY <1>2 DEF TaskRecord
<1>4. IdleTask.at \notin Holding /\ "erasing" \notin Holding BY IdleIs DEF Holding
<1>5. ASSUME NEW at \in {"saving", "erasing"}, r.at \in {"clearing", "saving"}
      PROVE  /\ [r EXCEPT !.at = at] \in TaskRecord /\ [r EXCEPT !.at = at].at = at
             /\ [r EXCEPT !.at = at].id \in Session /\ [r EXCEPT !.at = at].c \in Conn
             /\ Moved(t, at) = [task EXCEPT ![t] = [r EXCEPT !.at = at]]
  <2>1. r.c \in Conn /\ r.id \in Session BY <1>2, <1>5 DEF Holding
  <2> QED BY <1>1, <1>2, <2>1 DEF TaskRecord, Moved
<1>6. CASE Loaded(t)
  <2>1. r.at = "loading" /\ UNCHANGED <<sock, todo, config, calls, deleted>> BY <1>6 DEF Loaded, aside
  <2>2. r.id \in Session BY <1>2, <2>1
  <2>3. CASE r.c # None /\ BeginClose(t, r) /\ UNCHANGED connections
    <3>1. r.c \in Conn BY <1>3, <2>3
    <3> QED BY <1>1, <1>2, <2>1, <2>2, <2>3, <3>1, BeginCloseKeeps
  <2>4. CASE InstallIfRoom(t, r, connections) /\ UNCHANGED stored
    BY <1>1, <1>2, <2>1, <2>2, <2>4, InstallIfRoomKeeps
  <2>5. CASE task' = Ended(t) /\ UNCHANGED <<connections, conn, stored>>
    BY <1>1, <1>4, <2>1, <2>5, IdleIs, WaitKeeps DEF Ended
  <2> QED BY <1>6, <2>3, <2>4, <2>5 DEF Loaded
<1>7. CASE Cleared(t)
  <2> DEFINE q == [r EXCEPT !.at = "saving"]
  <2>1. /\ r.at = "clearing" /\ conn' = [conn EXCEPT ![r.c] = Reset(conn[r.c])] /\ task' = Moved(t, "saving")
        /\ UNCHANGED <<connections, sock, stored, todo, config, calls, deleted>>
    BY <1>1, <1>2, <1>7 DEF Cleared, aside, Holding
  <2>2. q \in TaskRecord /\ q.at = "saving" /\ q.id \in Session /\ q.c \in Conn
        /\ task' = [task EXCEPT ![t] = q]
    BY <1>5, <2>1
  <2>3. r.c \in Conn BY <1>2, <2>1 DEF Holding
  <2> HIDE DEF q
  <2>4. conn[r.c] \in ConnRecord(config.maxRetries) BY <1>1, <2>3
  <2>5. Reset(conn[r.c]) \in ConnRecord(config.maxRetries) /\ Alike(conn[r.c], Reset(conn[r.c]))
    BY <1>1, <2>4, FieldsKept
  <2>6. /\ conn' \in [Conn -> ConnRecord(config.maxRetries)]
        /\ \A c \in Conn : /\ conn'[c].restored = conn[c].restored
                           /\ conn[c].destroyed => conn'[c].destroyed
                           /\ Waiting(conn'[c]) = Waiting(conn[c])
    BY <1>1, <2>1, <2>3, <2>5 DEF Alike
  <2>7. SocketsAreOwned' /\ \A c \in Conn : Live(c)' = Live(c) BY <1>1, <2>1 DEF SocketsAreOwned, Live
  <2> QED BY <1>1, <2>1, <2>2, <2>6, <2>7, TaskKeeps
<1>8. CASE Closed(t)
  <2>1. r.at = "saving" /\ UNCHANGED <<sock, stored, todo, config, calls, deleted>>
    BY <1>8 DEF Closed, aside
  <2>2. r.id \in Session BY <1>2, <2>1
  <2>3. /\ Delisted(r.id) \in [Session -> Conn \cup {None}]
        /\ \A i \in Session : Delisted(r.id)[i] \in {connections[i], None}
    BY <1>1, MapForgets
  <2>4. CASE connections' = Delisted(r.id) /\ task' = Moved(t, "erasing") /\ UNCHANGED conn
    <3> DEFINE q == [r EXCEPT !.at = "erasing"]
    <3>1. q \in TaskRecord /\ q.at = "erasing" /\ q.id \in Session /\ task' = [task EXCEPT ![t] = q]
      BY <1>5, <2>1, <2>4
    <3> HIDE DEF q
    <3> QED BY <1>1, <1>4, <2>1, <2>3, <2>4, <3>1, WaitKeeps
  <2>5. CASE InstallIfRoom(t, r, Delisted(r.id))
    BY <1>1, <1>2, <2>1, <2>2, <2>3, <2>5, InstallIfRoomKeeps
  <2> QED BY <1>8, <2>4, <2>5 DEF Closed
<1>9. CASE Erased(t)
  <2>1. /\ stored' = [stored EXCEPT ![r.id] = "nothing"] /\ task' = [task EXCEPT ![t] = IdleTask]
        /\ UNCHANGED <<connections, conn, sock, todo, config, calls>>
        /\ deleted' \in {deleted, deleted \cup {r.id}} /\ r.at = "erasing"
    BY <1>9 DEF Erased, Ended
  <2>2. r.id \in Session BY <1>2, <2>1
  <2>3. stored' \in [Session -> {"nothing", "metadata", "login"}] BY <1>1, <2>1
  <2>4. deleted' \subseteq Session BY <1>1, <2>1, <2>2
  <2> QED BY <1>1, <1>4, <2>1, <2>3, <2>4, IdleIs, WaitKeeps
<1>10. CASE Paired(t)
  <2>1. task' = [task EXCEPT ![t] = IdleTask]
        /\ UNCHANGED <<connections, conn, sock, stored, todo, config, calls, deleted>>
    BY <1>10 DEF Paired, Ended, aside
  <2> QED BY <1>1, <1>4, <2>1, IdleIs, WaitKeeps
<1> QED BY <1>6, <1>7, <1>8, <1>9, <1>10

\* socket.logout() of a request that deletes a session.
LEMMA LogoutKeeps ==
  ASSUME SessionsInv, NEW t \in Task, LoggedOut(t)
  PROVE  SessionsInv'
<1> DEFINE r == task[t]
<1>1. /\ SessionsTypeOK /\ connections \in [Session -> Conn \cup {None}]
      /\ stored \in [Session -> {"nothing", "metadata", "login"}] /\ todo \subseteq Session
      /\ calls \in 0..config.calls /\ deleted \subseteq Session
      /\ \A i \in Session : connections[i] \in {connections[i], None}
      /\ conn \in [Conn -> ConnRecord(config.maxRetries)] /\ config.maxRetries \in Nat
      /\ task \in [Task -> TaskRecord] /\ TasksHaveConnections
  BY SessionsStateIs
<1>2. /\ r.at = "logout" /\ UNCHANGED <<connections, todo, config, calls, deleted>>
  BY DEF LoggedOut, aside
<1>3. r \in TaskRecord /\ r.c \in Conn /\ r.id \in Session
  BY <1>1, <1>2 DEF TasksHaveConnections, Holding
<1>4. conn[r.c] \in ConnRecord(config.maxRetries) BY <1>1, <1>3
<1>5. CASE BeginClose(t, r) /\ UNCHANGED sock
  BY <1>1, <1>2, <1>3, <1>5, BeginCloseKeeps
<1>6. CASE /\ sock' = [sock EXCEPT ![r.s] = Gone]
           /\ conn' = [conn EXCEPT ![r.c] = ClosedByTask(ClosedByEvent([@ EXCEPT !.connected = FALSE]))]
           /\ stored' = Forgotten(stored, conn[r.c])
           /\ task' = Moved(t, CloseStage(conn[r.c]))
  <2> DEFINE x == [conn[r.c] EXCEPT !.connected = FALSE]
             y == ClosedByEvent(x)
             z == ClosedByTask(y)
             q == [r EXCEPT !.at = CloseStage(conn[r.c])]
  <2>1. x \in ConnRecord(config.maxRetries) /\ Alike(conn[r.c], x) BY <1>1, <1>4, FieldsKept
  <2>2. conn' = [conn EXCEPT ![r.c] = z] BY <1>6
  <2>3. task' = [task EXCEPT ![t] = q] BY <1>6 DEF Moved
  <2>4. q \in TaskRecord /\ q.at \in {"clearing", "saving"} /\ q.c \in Conn /\ q.id \in Session
    BY <1>3 DEF TaskRecord, CloseStage
  <2> HIDE DEF x, q
  <2>5. y \in ConnRecord(config.maxRetries) /\ Alike(x, y) BY <1>1, <2>1, CloseFields
  <2> HIDE DEF y
  <2>6. z \in ConnRecord(config.maxRetries) /\ Alike(y, z) BY <1>1, <2>5, CloseFields
  <2> HIDE DEF z
  <2>7. Alike(conn[r.c], z) BY <2>1, <2>5, <2>6 DEF Alike
  <2>8. /\ conn' \in [Conn -> ConnRecord(config.maxRetries)]
        /\ \A c \in Conn : /\ conn'[c].restored = conn[c].restored
                           /\ conn[c].destroyed => conn'[c].destroyed
                           /\ Waiting(conn'[c]) = Waiting(conn[c])
    BY <1>1, <2>2, <2>6, <2>7 DEF Alike
  <2>9. sock' \in [Sock -> SockRecord] /\ SocketsAreOwned' /\ \A c \in Conn : Live(c)' \subseteq Live(c)
    BY <1>6, SocketGoes
  <2>10. stored' \in [Session -> {"nothing", "metadata", "login"}] BY <1>1, <1>6, StoredStays
  <2> QED BY <1>1, <1>2, <2>3, <2>4, <2>8, <2>9, <2>10, TaskKeeps
<1> QED BY <1>5, <1>6 DEF LoggedOut

\* connect() called by a task.
LEMMA ConnectingKeeps ==
  ASSUME SessionsInv, NEW t \in Task, AuthLoaded(t) \/ Dialed(t)
  PROVE  SessionsInv'
<1> DEFINE r == task[t]
<1>1. /\ SessionsTypeOK /\ connections \in [Session -> Conn \cup {None}]
      /\ stored \in [Session -> {"nothing", "metadata", "login"}] /\ todo \subseteq Session
      /\ calls \in 0..config.calls /\ deleted \subseteq Session
      /\ \A i \in Session : connections[i] \in {connections[i], None}
      /\ conn \in [Conn -> ConnRecord(config.maxRetries)] /\ config.maxRetries \in Nat
      /\ sock \in [Sock -> SockRecord] /\ SocketsAreOwned /\ config \in Configs
      /\ task \in [Task -> TaskRecord] /\ TasksHaveConnections
      /\ \A c \in Conn : Alike(conn[c], conn[c])
  BY SessionsStateIs
<1>2. /\ r.at \in {"auth", "dialing"} /\ UNCHANGED <<todo, config, calls, deleted>>
  BY DEF AuthLoaded, Dialed, aside
<1>3. r \in TaskRecord /\ r.c \in Conn /\ r.id \in Session
  BY <1>1, <1>2 DEF TasksHaveConnections, Holding
<1>4. conn[r.c] \in ConnRecord(config.maxRetries) BY <1>1, <1>3
<1>5. /\ Delisted(r.id) \in [Session -> Conn \cup {None}]
      /\ \A i \in Session : Delisted(r.id)[i] \in {connections[i], None}
  BY <1>1, MapForgets
<1>6. IdleTask.at \notin Holding BY IdleIs DEF Holding
<1>7. CASE AuthLoaded(t)
  <2>1. UNCHANGED sock BY <1>7 DEF AuthLoaded
  <2>2. CASE /\ conn' = [conn EXCEPT ![r.c].authed = TRUE] /\ stored' = WithMetadata(r.id)
             /\ task' = Moved(t, "dialing") /\ UNCHANGED connections
    <3> DEFINE q == [r EXCEPT !.at = "dialing"]
               x == [conn[r.c] EXCEPT !.authed = TRUE]
    <3>1. q \in TaskRecord /\ q.at = "dialing" /\ q.c = r.c /\ q.id = r.id BY <1>3 DEF TaskRecord
    <3>2. task' = [task EXCEPT ![t] = q] BY <2>2 DEF Moved
    <3>3. conn' = [conn EXCEPT ![r.c] = x] BY <1>1, <1>3, <2>2
    <3>4. x \in ConnRecord(config.maxRetries) /\ Alike(conn[r.c], x) BY <1>1, <1>4, FieldsKept
    <3> HIDE DEF q, x
    <3>5. /\ conn' \in [Conn -> ConnRecord(config.maxRetries)]
          /\ \A c \in Conn : /\ conn'[c].restored = conn[c].restored
                             /\ conn[c].destroyed => conn'[c].destroyed
                             /\ Waiting(conn'[c]) = Waiting(conn[c])
      BY <1>1, <3>3, <3>4 DEF Alike
    <3>6. SocketsAreOwned' /\ \A c \in Conn : Live(c)' = Live(c) BY <1>1, <2>1 DEF SocketsAreOwned, Live
    <3>7. stored' \in [Session -> {"nothing", "metadata", "login"}] BY <1>1, <2>2, StoredStays
    <3>8. /\ q.at \in Holding => q.c \in Conn
          /\ q.at # "idle" => q.id \in Session
          /\ q.at \in {"auth", "dialing"} => task[t].at \in {"auth", "dialing"} /\ q.c = task[t].c
      BY <1>2, <1>3, <3>1
    <3>9. /\ connections' \in [Session -> Conn \cup {None}]
          /\ \A i \in Session : connections'[i] \in {connections[i], None}
          /\ sock' \in [Sock -> SockRecord] /\ \A c \in Conn : Live(c)' \subseteq Live(c)
      BY <1>1, <2>1, <2>2, <3>6
    <3> HIDE DEF r
    <3> QED BY <1>1, <1>2, <3>1, <3>2, <3>5, <3>6, <3>7, <3>8, <3>9, TaskKeeps
  <2>3. CASE /\ connections' \in {connections, Delisted(r.id)} /\ task' = Ended(t)
             /\ UNCHANGED <<conn, stored>>
    BY <1>1, <1>2, <1>5, <1>6, <2>1, <2>3, IdleIs, WaitKeeps DEF Ended
  <2>4. connections' = (IF r.kind = "reconnect" THEN Delisted(r.id) ELSE connections)
          => connections' \in {connections, Delisted(r.id)}
    OBVIOUS
  <2> QED BY <1>7, <2>2, <2>3, <2>4 DEF AuthLoaded
<1>8. CASE Dialed(t)
  <2>1. UNCHANGED stored BY <1>8 DEF Dialed
  <2>2. ASSUME NEW s \in Sock, NewSocket(r.c, s), conn' = [conn EXCEPT ![r.c].socket = s],
               UNCHANGED connections,
               NEW q, q \in {IdleTask, [r EXCEPT !.s = s, !.at = "pairing"]},
               task' = [task EXCEPT ![t] = q]
        PROVE  SessionsInv'
    <3> DEFINE x == [conn[r.c] EXCEPT !.socket = s]
    <3>1. /\ q \in TaskRecord /\ q.at \notin {"auth", "dialing"} /\ (q.at \in Holding => q.c \in Conn)
          /\ (q.at # "idle" => q.id \in Session)
      BY <1>3, <1>6, <2>2, IdleIs DEF TaskRecord
    <3>2. /\ task' \in [Task -> TaskRecord] /\ TasksHaveConnections'
          /\ \A c \in Conn : Calls(c)' = Calls(c) \ {t}
      BY <2>2, <3>1, TaskGoesOn
    <3>3. conn' = [conn EXCEPT ![r.c] = x] BY <1>1, <1>3, <2>2
    <3>4. x \in ConnRecord(config.maxRetries) /\ Alike(conn[r.c], x) BY <1>1, <1>4, <2>2, FieldsKept
    <3> HIDE DEF x
    <3>5. /\ conn' \in [Conn -> ConnRecord(config.maxRetries)]
          /\ \A c \in Conn : /\ conn'[c].restored = conn[c].restored
                             /\ conn[c].destroyed => conn'[c].destroyed
                             /\ Waiting(conn'[c]) = Waiting(conn[c])
      BY <1>1, <3>3, <3>4 DEF Alike
    <3>6. /\ sock' \in [Sock -> SockRecord] /\ SocketsAreOwned'
          /\ \A n \in Conn : Live(n)' = IF n = r.c THEN Live(n) \cup {s} ELSE Live(n)
          /\ \A n \in Conn : n = r.c => Cardinality(Live(n)') = Cardinality(Live(n)) + 1
      <4>1. SUFFICES ASSUME NEW c \in Conn, c = r.c
                     PROVE  /\ sock' \in [Sock -> SockRecord] /\ SocketsAreOwned'
                            /\ \A n \in Conn : Live(n)' = IF n = c THEN Live(n) \cup {s} ELSE Live(n)
                            /\ Cardinality(Live(c)') = Cardinality(Live(c)) + 1
        BY <1>3
      <4> QED BY <2>2, <4>1, SocketComes
    <3>7. SessionsTypeOK'
      BY <1>1, <1>2, <2>1, <2>2, <3>2, <3>5, <3>6 DEF SessionsTypeOK, ConnRecord, SockRecord, TaskRecord
    <3>8. ASSUME NEW c \in Conn PROVE Attempts(c)' <= Attempts(c)
      <4>1. Waiting(conn'[c]) = Waiting(conn[c]) /\ Waiting(conn[c]) \in Nat BY <1>1, <3>5, CountsAre
      <4>2. CASE c = r.c
        <5>1. t \in Calls(c) BY <1>2, <4>2 DEF Calls
        <5>2. Cardinality(Calls(c) \ {t}) = Cardinality(Calls(c)) - 1
          BY <5>1, CountsAre, FS_RemoveElement
        <5>3. Cardinality(Calls(c)') = Cardinality(Calls(c)) - 1 BY <3>2, <5>2
        <5>4. Cardinality(Live(c)') = Cardinality(Live(c)) + 1 BY <3>6, <4>2
        <5>5. Cardinality(Live(c)) \in Nat /\ Cardinality(Calls(c)) \in Nat BY CountsAre
        <5>6. /\ Attempts(c) = Waiting(conn[c]) + Cardinality(Live(c)) + Cardinality(Calls(c))
              /\ Attempts(c)' = Waiting(conn'[c]) + Cardinality(Live(c)') + Cardinality(Calls(c)')
          BY DEF Attempts
        <5> HIDE DEF r
        <5> QED BY <4>1, <5>3, <5>4, <5>5, <5>6
      <4>3. CASE c # r.c
        <5>1. Live(c)' = Live(c) /\ Calls(c)' \subseteq Calls(c) BY <3>2, <3>6, <4>3
        <5>2. Cardinality(Calls(c)') <= Cardinality(Calls(c)) BY <5>1, CountsAre, FS_Subset
        <5> QED BY <4>1, <5>1, <5>2, CountsAre DEF Attempts
      <4> QED BY <4>2, <4>3
    <3> QED BY <1>1, <1>2, <2>2, <3>2, <3>5, <3>6, <3>7, <3>8, NoMoreKeeps
  <2>3. CASE connections' = Delisted(r.id) /\ task' = Ended(t) /\ UNCHANGED <<conn, sock>>
    BY <1>1, <1>2, <1>5, <1>6, <2>1, <2>3, IdleIs, WaitKeeps DEF Ended
  <2> QED BY <1>8, <2>2, <2>3 DEF Dialed, Ended
<1> QED BY <1>7, <1>8

\* The restore loop.
LEMMA RestoreKeeps ==
  ASSUME SessionsInv, RestoreNext
  PROVE  SessionsInv'
<1>1. /\ connections \in [Session -> Conn \cup {None}] /\ todo \subseteq Session
      /\ stored \in [Session -> {"nothing", "metadata", "login"}]
      /\ calls \in 0..config.calls /\ deleted \subseteq Session
      /\ \A i \in Session : connections[i] \in {connections[i], None}
  BY SessionsStateIs
<1>2. PICK id \in todo : /\ Install(Boot, [IdleTask EXCEPT !.kind = "boot", !.id = id], connections)
                         /\ todo' = todo \ {id}
  BY DEF RestoreNext
<1> DEFINE r == [IdleTask EXCEPT !.kind = "boot", !.id = id]
<1>3. r \in TaskRecord /\ r.kind = "boot" /\ r.id = id /\ id \in Session
  BY <1>1, <1>2 DEF IdleTask, TaskRecord
<1>4. Install(Boot, r, connections) /\ todo' \subseteq Session /\ Boot \in Task
  BY <1>1, <1>2 DEF Task
<1>5. UNCHANGED <<sock, stored, config, calls, deleted>> BY DEF RestoreNext, aside
<1> HIDE DEF r
<1> QED BY <1>1, <1>3, <1>4, <1>5, InstallKeeps

\* A step of one connection, which exchanges one of its attempts for another.
LEMMA ConnectionKeeps ==
  ASSUME SessionsInv, UNCHANGED <<task, todo, config, calls, deleted>>,
         NEW c \in Conn, NEW y \in ConnRecord(config.maxRetries), conn' = [conn EXCEPT ![c] = y],
         y.restored = conn[c].restored, conn[c].destroyed => y.destroyed,
         connections' \in [Session -> Conn \cup {None}],
         \A i \in Session : connections'[i] \in {connections[i], None},
         sock' \in [Sock -> SockRecord], SocketsAreOwned',
         stored' \in [Session -> {"nothing", "metadata", "login"}],
         \A n \in Conn : n # c => Live(n)' = Live(n),
         Waiting(y) + Cardinality(Live(c)') <= Waiting(conn[c]) + Cardinality(Live(c))
  PROVE  SessionsInv'
<1>1. conn \in [Conn -> ConnRecord(config.maxRetries)] /\ SessionsTypeOK BY SessionsStateIs
<1>2. /\ conn' \in [Conn -> ConnRecord(config.maxRetries)]
      /\ \A n \in Conn : conn'[n] = IF n = c THEN y ELSE conn[n]
  BY <1>1
<1>3. ASSUME NEW n \in Conn
      PROVE  /\ conn'[n].restored = conn[n].restored
             /\ conn[n].destroyed => conn'[n].destroyed
             /\ Waiting(conn'[n]) + Cardinality(Live(n)') <= Waiting(conn[n]) + Cardinality(Live(n))
  <2>1. CASE n = c BY <1>2, <2>1
  <2>2. CASE n # c
    <3>1. Live(n)' = Live(n) /\ conn'[n] = conn[n] BY <1>2, <2>2
    <3>2. Waiting(conn[n]) \in Nat /\ Cardinality(Live(n)) \in Nat BY <1>1, CountsAre
    <3> QED BY <3>1, <3>2
  <2> QED BY <2>1, <2>2
<1> QED BY <1>2, <1>3, ExchangeKeeps

\* connect() called by a timer.
LEMMA TimersKeep ==
  ASSUME SessionsInv, NEW c \in Conn, TimerStep(c)
  PROVE  SessionsInv'
<1>1. /\ SessionsTypeOK /\ connections \in [Session -> Conn \cup {None}]
      /\ stored \in [Session -> {"nothing", "metadata", "login"}]
      /\ \A i \in Session : connections[i] \in {connections[i], None}
      /\ conn \in [Conn -> ConnRecord(config.maxRetries)] /\ config.maxRetries \in Nat
      /\ sock \in [Sock -> SockRecord] /\ SocketsAreOwned
  BY SessionsStateIs
<1> DEFINE x == conn[c]
<1>2. x \in ConnRecord(config.maxRetries) BY <1>1
<1>3. /\ x.timers \in Nat /\ x.auth \in Nat /\ x.dialing \in Nat
      /\ Cardinality(Live(c)) \in Nat /\ Waiting(x) = x.timers + x.auth + x.dialing
  BY <1>2, CountsAre DEF ConnRecord, Waiting
<1>4. UNCHANGED <<task, todo, config, calls, deleted>>
  BY DEF TimerStep, TimerFires, TimerAuthLoaded, TimerDialed, aside
<1>5. sock' = sock => /\ sock' \in [Sock -> SockRecord] /\ SocketsAreOwned'
                      /\ \A n \in Conn : Live(n)' = Live(n)
  BY <1>1 DEF SocketsAreOwned, Live
<1>6. CASE TimerFires(c)
  <2> DEFINE a == IF x.socket = None THEN x.auth + 1 ELSE x.auth
             y == [x EXCEPT !.timers = x.timers - 1, !.auth = a]
  <2>1. /\ conn' = [conn EXCEPT ![c] = y] /\ x.timers > 0
        /\ UNCHANGED <<connections, sock, stored>>
    BY <1>1, <1>6 DEF TimerFires
  <2>2. x.timers - 1 \in Nat /\ a \in Nat /\ a <= x.auth + 1 BY <1>3, <2>1
  <2>3. y \in ConnRecord(config.maxRetries) /\ y.restored = x.restored /\ y.destroyed = x.destroyed
        /\ y.timers = x.timers - 1 /\ y.auth = a /\ y.dialing = x.dialing
    <3> HIDE DEF a, x
    <3> QED BY <1>2, <2>2 DEF ConnRecord
  <2>4. Waiting(y) <= Waiting(x)
    <3> HIDE DEF y
    <3>1. Waiting(y) = x.timers - 1 + a + x.dialing BY <2>3 DEF Waiting
    <3> HIDE DEF a, x
    <3> QED BY <1>3, <2>2, <3>1
  <2> HIDE DEF y
  <2>5. Waiting(y) + Cardinality(Live(c)') <= Waiting(x) + Cardinality(Live(c))
    <3>1. Live(c)' = Live(c) BY <1>5, <2>1
    <3>2. Waiting(y) \in Nat BY <2>3 DEF ConnRecord, Waiting
    <3> QED BY <1>3, <2>4, <3>1, <3>2
  <2> QED BY <1>1, <1>4, <1>5, <2>1, <2>3, <2>5, ConnectionKeeps
<1>7. CASE TimerAuthLoaded(c)
  <2> DEFINE y == [x EXCEPT !.auth = x.auth - 1, !.dialing = x.dialing + 1, !.authed = TRUE]
             z == [x EXCEPT !.auth = x.auth - 1, !.failed = TRUE]
  <2>1. x.auth > 0 /\ UNCHANGED <<connections, sock>> BY <1>7 DEF TimerAuthLoaded
  <2>2. \/ conn' = [conn EXCEPT ![c] = y] /\ stored' = WithMetadata(x.id)
        \/ conn' = [conn EXCEPT ![c] = z] /\ stored' = stored
    BY <1>1, <1>7 DEF TimerAuthLoaded
  <2>3. stored' \in [Session -> {"nothing", "metadata", "login"}] BY <1>1, <2>2, StoredStays
  <2>4. x.auth - 1 \in Nat /\ x.dialing + 1 \in Nat BY <1>3, <2>1
  <2>5. /\ y \in ConnRecord(config.maxRetries) /\ y.restored = x.restored /\ y.destroyed = x.destroyed
        /\ y.timers = x.timers /\ y.auth = x.auth - 1 /\ y.dialing = x.dialing + 1
    <3> HIDE DEF x
    <3> QED BY <1>2, <2>4 DEF ConnRecord
  <2>6. /\ z \in ConnRecord(config.maxRetries) /\ z.restored = x.restored /\ z.destroyed = x.destroyed
        /\ z.timers = x.timers /\ z.auth = x.auth - 1 /\ z.dialing = x.dialing
    <3> HIDE DEF x
    <3> QED BY <1>2, <2>4 DEF ConnRecord
  <2> HIDE DEF y, z
  <2>7. Live(c)' = Live(c) BY <1>5, <2>1
  <2>8. ASSUME NEW w, w \in {y, z}
        PROVE  Waiting(w) + Cardinality(Live(c)') <= Waiting(x) + Cardinality(Live(c))
    <3>1. w.timers = x.timers /\ w.auth = x.auth - 1 /\ w.dialing \in {x.dialing, x.dialing + 1}
      BY <2>5, <2>6, <2>8
    <3> HIDE DEF x
    <3> QED BY <1>3, <2>7, <3>1 DEF Waiting
  <2>9. CASE conn' = [conn EXCEPT ![c] = y]
    BY <1>1, <1>4, <1>5, <2>1, <2>3, <2>5, <2>8, <2>9, ConnectionKeeps
  <2>10. CASE conn' = [conn EXCEPT ![c] = z]
    BY <1>1, <1>4, <1>5, <2>1, <2>3, <2>6, <2>8, <2>10, ConnectionKeeps
  <2> QED BY <2>2, <2>9, <2>10
<1>8. CASE TimerDialed(c)
  <2>1. x.dialing > 0 /\ UNCHANGED stored BY <1>8 DEF TimerDialed
  <2>2. x.dialing - 1 \in Nat BY <1>3, <2>1
  <2>3. ASSUME NEW s \in Sock, NewSocket(c, s),
               conn' = [conn EXCEPT ![c].dialing = @ - 1, ![c].socket = s], UNCHANGED connections
        PROVE  SessionsInv'
    <3> DEFINE y == [x EXCEPT !.dialing = x.dialing - 1, !.socket = s]
    <3>1. conn' = [conn EXCEPT ![c] = y] BY <1>1, <2>3
    <3>2. /\ y \in ConnRecord(config.maxRetries) /\ y.restored = x.restored /\ y.destroyed = x.destroyed
          /\ y.timers = x.timers /\ y.auth = x.auth /\ y.dialing = x.dialing - 1
      <4> HIDE DEF x
      <4> QED BY <1>2, <2>2 DEF ConnRecord
    <3> HIDE DEF y
    <3>3. /\ sock' \in [Sock -> SockRecord] /\ SocketsAreOwned'
          /\ \A n \in Conn : Live(n)' = IF n = c THEN Live(n) \cup {s} ELSE Live(n)
          /\ Cardinality(Live(c)') = Cardinality(Live(c)) + 1
      BY <2>3, SocketComes
    <3>4. Waiting(y) + Cardinality(Live(c)') <= Waiting(x) + Cardinality(Live(c))
      <4> HIDE DEF x
      <4> QED BY <1>3, <3>2, <3>3 DEF Waiting
    <3> QED BY <1>1, <1>4, <2>1, <2>3, <3>1, <3>2, <3>3, <3>4, ConnectionKeeps
  <2>4. CASE /\ connections' = Delisted(conn[c].id) /\ UNCHANGED sock
             /\ conn' = [conn EXCEPT ![c].dialing = @ - 1]
    <3> DEFINE y == [x EXCEPT !.dialing = x.dialing - 1]
    <3>1. conn' = [conn EXCEPT ![c] = y] BY <1>1, <2>4
    <3>2. /\ y \in ConnRecord(config.maxRetries) /\ y.restored = x.restored /\ y.destroyed = x.destroyed
          /\ y.timers = x.timers /\ y.auth = x.auth /\ y.dialing = x.dialing - 1
      <4> HIDE DEF x
      <4> QED BY <1>2, <2>2 DEF ConnRecord
    <3> HIDE DEF y
    <3>3. Live(c)' = Live(c) BY <1>5, <2>4
    <3>4. Waiting(y) + Cardinality(Live(c)') <= Waiting(x) + Cardinality(Live(c))
      <4> HIDE DEF x
      <4> QED BY <1>3, <3>2, <3>3 DEF Waiting
    <3>5. /\ connections' \in [Session -> Conn \cup {None}]
          /\ \A i \in Session : connections'[i] \in {connections[i], None}
      BY <1>1, <2>4, MapForgets
    <3> QED BY <1>1, <1>4, <1>5, <2>1, <2>4, <3>1, <3>2, <3>4, <3>5, ConnectionKeeps
  <2> QED BY <1>8, <2>3, <2>4 DEF TimerDialed
<1> QED BY <1>6, <1>7, <1>8 DEF TimerStep

\* Events of sockets.
LEMMA SocketsKeep ==
  ASSUME SessionsInv, NEW s \in Sock, Opens(s) \/ \E loggedOut \in BOOLEAN : Closes(s, loggedOut)
  PROVE  SessionsInv'
<1>1. /\ SessionsTypeOK /\ connections \in [Session -> Conn \cup {None}]
      /\ stored \in [Session -> {"nothing", "metadata", "login"}]
      /\ \A i \in Session : connections[i] \in {connections[i], None}
      /\ conn \in [Conn -> ConnRecord(config.maxRetries)] /\ config.maxRetries \in Nat
      /\ sock \in [Sock -> SockRecord] /\ SocketsAreOwned /\ None \notin Conn
  BY SessionsStateIs
<1>2. UNCHANGED <<connections, task, todo, config, calls, deleted>>
  BY DEF Opens, Closes, aside
<1>3. sock[s] # Gone BY DEF Opens, Closes, Gone
<1>4. PICK c \in Conn : sock[s].owner = c BY <1>1, <1>3 DEF SocketsAreOwned
<1> DEFINE x == conn[c]
           u == [x EXCEPT !.connected = FALSE]
<1>5. x \in ConnRecord(config.maxRetries) BY <1>1
<1>6. u \in ConnRecord(config.maxRetries) /\ Alike(x, u) BY <1>1, <1>5, FieldsKept
<1>7. Cardinality(Live(c)) \in Nat /\ IsFiniteSet(Live(c)) /\ Waiting(x) \in Nat BY <1>1, CountsAre
<1>8. CASE Opens(s)
  <2> DEFINE y == [x EXCEPT !.connected = TRUE, !.retries = 0]
  <2>1. /\ sock' = [sock EXCEPT ![s].state = "open"]
        /\ conn' = [conn EXCEPT ![c] = y] /\ stored' = WithLogin(conn[c].id)
    BY <1>1, <1>4, <1>8 DEF Opens
  <2>2. y \in ConnRecord(config.maxRetries) /\ Alike(x, y) BY <1>1, <1>5, FieldsKept
  <2> HIDE DEF y
  <2>3. /\ sock' \in [Sock -> SockRecord]
        /\ \A z \in Sock : /\ sock'[z].owner = sock[z].owner
                           /\ z # s => sock'[z] = sock[z]
                           /\ z = s => sock'[z].state = "open"
    <3> DEFINE o == [sock[s] EXCEPT !.state = "open"]
    <3>1. o \in SockRecord /\ o.owner = sock[s].owner /\ o.state = "open" BY <1>1 DEF SockRecord
    <3>2. sock' = [sock EXCEPT ![s] = o] BY <2>1
    <3> HIDE DEF o
    <3> QED BY <1>1, <3>1, <3>2
  <2>4. SocketsAreOwned' BY <1>1, <1>4, <2>3 DEF SocketsAreOwned
  <2>5. \A n \in Conn : Live(n)' = Live(n) BY <2>3 DEF Live
  <2>6. stored' \in [Session -> {"nothing", "metadata", "login"}] BY <1>1, <2>1, StoredStays
  <2>7. Waiting(y) + Cardinality(Live(c)') <= Waiting(x) + Cardinality(Live(c))
    <3>1. Waiting(y) = Waiting(x) /\ Live(c)' = Live(c) BY <2>2, <2>5 DEF Alike
    <3> QED BY <1>7, <3>1
  <2>8. y.restored = x.restored /\ (x.destroyed => y.destroyed) BY <2>2 DEF Alike
  <2> QED BY <1>1, <1>2, <2>1, <2>2, <2>3, <2>4, <2>5, <2>6, <2>7, <2>8, ConnectionKeeps
<1>9. ASSUME NEW loggedOut \in BOOLEAN, Closes(s, loggedOut) PROVE SessionsInv'
  <2>1. /\ sock' = [sock EXCEPT ![s] = Gone]
        /\ \/ /\ u.retries < config.maxRetries
              /\ conn' = [conn EXCEPT ![c] = Retried(u)] /\ stored' = stored
           \/ conn' = [conn EXCEPT ![c] = ClosedByEvent(u)] /\ stored' = Forgotten(stored, u)
    BY <1>4, <1>9 DEF Closes, Retries
  <2>2. /\ sock' \in [Sock -> SockRecord] /\ SocketsAreOwned'
        /\ \A n \in Conn : Live(n)' = Live(n) \ {s}
    BY <2>1, SocketGoes
  <2>3. \A n \in Conn : n # c => Live(n)' = Live(n) BY <1>4, <2>2 DEF Live
  <2>4. s \in Live(c) BY <1>4 DEF Live
  <2>5. Cardinality(Live(c) \ {s}) = Cardinality(Live(c)) - 1 BY <1>7, <2>4, FS_RemoveElement
  <2>6. Cardinality(Live(c)') = Cardinality(Live(c)) - 1 BY <2>2, <2>5
  <2>7. stored' \in [Session -> {"nothing", "metadata", "login"}] BY <1>1, <2>1, StoredStays
  <2>8. CASE u.retries < config.maxRetries /\ conn' = [conn EXCEPT ![c] = Retried(u)]
    <3> DEFINE y == Retried(u)
    <3> HIDE DEF u
    <3>1. /\ u.retries + 1 \in 0..config.maxRetries /\ u.timers + 1 \in Nat
          /\ None \in Sock \cup {None} /\ u.timers \in Nat /\ u.auth \in Nat /\ u.dialing \in Nat
      BY <1>1, <1>6, <2>8 DEF ConnRecord
    <3>2. /\ y \in ConnRecord(config.maxRetries) /\ y.restored = u.restored /\ y.destroyed = u.destroyed
          /\ y.timers = u.timers + 1 /\ y.auth = u.auth /\ y.dialing = u.dialing
      BY <1>6, <3>1 DEF ConnRecord, Retried
    <3> HIDE DEF y, x
    <3>3. Waiting(y) = Waiting(u) + 1 BY <3>1, <3>2 DEF Waiting
    <3>4. Waiting(u) = Waiting(x) BY <1>6 DEF Alike
    <3>5. Waiting(y) + Cardinality(Live(c)') <= Waiting(x) + Cardinality(Live(c))
      BY <1>7, <2>6, <3>3, <3>4
    <3>6. y.restored = x.restored /\ (x.destroyed => y.destroyed) BY <1>6, <3>2 DEF Alike
    <3>7. conn' = [conn EXCEPT ![c] = y] BY <2>8 DEF y
    <3> USE DEF x
    <3> QED BY <1>1, <1>2, <2>2, <2>3, <2>7, <3>2, <3>5, <3>6, <3>7, ConnectionKeeps
  <2>9. CASE conn' = [conn EXCEPT ![c] = ClosedByEvent(u)]
    <3> DEFINE y == ClosedByEvent(u)
    <3> HIDE DEF u
    <3>1. y \in ConnRecord(config.maxRetries) /\ Alike(u, y) BY <1>1, <1>6, CloseFields
    <3>2. conn' = [conn EXCEPT ![c] = y] BY <2>9
    <3> HIDE DEF y
    <3>3. Waiting(y) + Cardinality(Live(c)') <= Waiting(x) + Cardinality(Live(c))
      <4>1. Waiting(y) = Waiting(x) BY <1>6, <3>1 DEF Alike
      <4> HIDE DEF x
      <4> QED BY <1>7, <2>6, <4>1
    <3>4. y.restored = x.restored /\ (x.destroyed => y.destroyed) BY <1>6, <3>1 DEF Alike
    <3> QED BY <1>1, <1>2, <2>2, <2>3, <2>7, <3>1, <3>2, <3>3, <3>4, ConnectionKeeps
  <2> QED BY <2>1, <2>8, <2>9
<1> QED BY <1>8, <1>9

\* The awaits of close() called by a close event.
LEMMA EventsKeep ==
  ASSUME SessionsInv, NEW c \in Conn, EventStep(c)
  PROVE  SessionsInv'
<1>1. /\ SessionsTypeOK /\ connections \in [Session -> Conn \cup {None}]
      /\ stored \in [Session -> {"nothing", "metadata", "login"}]
      /\ \A i \in Session : connections[i] \in {connections[i], None}
      /\ conn \in [Conn -> ConnRecord(config.maxRetries)] /\ config.maxRetries \in Nat
      /\ sock \in [Sock -> SockRecord] /\ SocketsAreOwned
  BY SessionsStateIs
<1> DEFINE x == conn[c]
           w == Reset(x)
<1>2. x \in ConnRecord(config.maxRetries) BY <1>1
<1>3. w \in ConnRecord(config.maxRetries) /\ Alike(x, w) BY <1>1, <1>2, FieldsKept
<1>4. UNCHANGED <<sock, stored, task, todo, config, calls, deleted>>
  BY DEF EventStep, EventCleared, EventClosed, aside
<1>5. SocketsAreOwned' /\ \A n \in Conn : Live(n)' = Live(n) BY <1>1, <1>4 DEF SocketsAreOwned, Live
<1> HIDE DEF w
<1>6. ASSUME NEW y \in ConnRecord(config.maxRetries), Alike(x, y), conn' = [conn EXCEPT ![c] = y],
             connections' \in [Session -> Conn \cup {None}],
             \A i \in Session : connections'[i] \in {connections[i], None}
      PROVE  SessionsInv'
  <2>1. Waiting(x) \in Nat /\ Cardinality(Live(c)) \in Nat BY <1>1, CountsAre
  <2>2. Waiting(y) = Waiting(x) /\ Live(c)' = Live(c) BY <1>5, <1>6 DEF Alike
  <2>3. Waiting(y) + Cardinality(Live(c)') <= Waiting(x) + Cardinality(Live(c)) BY <2>1, <2>2
  <2>4. y.restored = x.restored /\ (x.destroyed => y.destroyed) BY <1>6 DEF Alike
  <2> QED BY <1>1, <1>4, <1>5, <1>6, <2>3, <2>4, ConnectionKeeps
<1>7. CASE EventCleared(c)
  <2> DEFINE y == [w EXCEPT !.clearing = x.clearing - 1, !.saving = x.saving + 1]
  <2>1. /\ x.clearing > 0 /\ UNCHANGED connections /\ conn' = [conn EXCEPT ![c] = y]
    BY <1>1, <1>7 DEF EventCleared, w
  <2>2. x.clearing - 1 \in Nat /\ x.saving + 1 \in Nat BY <1>2, <2>1 DEF ConnRecord
  <2>3. y \in ConnRecord(config.maxRetries)
    <3> HIDE DEF x
    <3> QED BY <1>3, <2>2 DEF ConnRecord
  <2>4. Alike(w, y) BY <1>3 DEF Alike, ConnRecord, Waiting
  <2> HIDE DEF y
  <2>5. Alike(x, y) BY <1>3, <2>4 DEF Alike
  <2> QED BY <1>1, <1>6, <2>1, <2>3, <2>5
<1>8. CASE EventClosed(c)
  <2> DEFINE y == [x EXCEPT !.saving = x.saving - 1]
  <2>1. /\ x.saving > 0 /\ connections' = Delisted(x.id) /\ conn' = [conn EXCEPT ![c] = y]
    BY <1>1, <1>8 DEF EventClosed
  <2>2. x.saving - 1 \in Nat BY <1>2, <2>1 DEF ConnRecord
  <2>3. y \in ConnRecord(config.maxRetries) BY <1>2, <2>2 DEF ConnRecord
  <2>4. Alike(x, y) BY <1>2 DEF Alike, ConnRecord, Waiting
  <2>5. /\ connections' \in [Session -> Conn \cup {None}]
        /\ \A i \in Session : connections'[i] \in {connections[i], None}
    BY <1>1, <2>1, MapForgets
  <2> HIDE DEF y
  <2> QED BY <1>6, <2>1, <2>3, <2>4, <2>5
<1> QED BY <1>7, <1>8 DEF EventStep

-----------------------------------------------------------------------------
(* The theorems.                                                           *)

LEMMA SessionsStart == ASSUME Init PROVE SessionsInv
<1>1. /\ config \in Configs /\ config.maxRetries \in Nat /\ config.maxSessions \in Nat
      /\ config.calls \in Nat /\ None \notin Conn
  BY SessionsAssumption DEF Init
<1>2. /\ connections \in [Session -> Conn \cup {None}] /\ todo \subseteq Session
      /\ stored \in [Session -> {"nothing", "metadata", "login"}]
      /\ calls \in 0..config.calls /\ deleted \subseteq Session
  <2>1. stored \in [Session -> {"nothing", "login"}] BY DEF Init
  <2> QED BY <1>1, <2>1 DEF Init
<1>3. /\ NewConn(None, FALSE) \in ConnRecord(config.maxRetries) /\ Waiting(NewConn(None, FALSE)) = 0
  BY <1>1 DEF NewConn, ConnRecord, Waiting
<1>4. /\ conn \in [Conn -> ConnRecord(config.maxRetries)]
      /\ \A c \in Conn : conn[c] = NewConn(None, FALSE)
  BY <1>3 DEF Init
<1>5. sock \in [Sock -> SockRecord] /\ \A s \in Sock : sock[s] = Gone /\ sock[s].owner = None
  BY DEF Init, Gone, SockRecord
<1>6. task \in [Task -> TaskRecord] /\ \A t \in Task : task[t] = IdleTask BY IdleIs DEF Init
<1>7. SessionsTypeOK
  BY <1>1, <1>2, <1>4, <1>5, <1>6 DEF SessionsTypeOK, ConnRecord, SockRecord, TaskRecord
<1>8. SocketsAreOwned BY <1>5 DEF SocketsAreOwned
<1>9. TasksHaveConnections BY <1>6, IdleIs DEF TasksHaveConnections, Holding
<1>10. Cardinality({}) = 0 BY FS_EmptySet
<1>11. RequestsKeepTheLimit
  <2>1. Taken = {} BY DEF Taken, Init
  <2>2. Cardinality(Taken) <= config.maxSessions BY <1>1, <1>10, <2>1
  <2> QED BY <2>2 DEF RequestsKeepTheLimit, Taken
<1>12. ASSUME NEW c \in Conn PROVE Attempts(c) <= 1
  <2>1. Waiting(conn[c]) = 0 BY <1>3, <1>4
  <2>2. Live(c) = {} BY <1>1, <1>5 DEF Live
  <2>3. Calls(c) = {} BY <1>6, IdleIs DEF Calls
  <2> QED BY <1>10, <2>1, <2>2, <2>3 DEF Attempts
<1>13. OneAttemptAtATime BY <1>12, AttemptsAre
<1> QED BY <1>7, <1>8, <1>9, <1>11, <1>13 DEF SessionsInv, SessionsAreSingle

LEMMA SessionsStep == ASSUME SessionsInv, [Next]_vars PROVE SessionsInv'
<1>1. ASSUME NEW t \in Request, NEW id \in Session,
             CreateSession(t, id) \/ ReconnectSession(t, id) \/ DeleteSession(t, id)
      PROVE  SessionsInv'
  BY <1>1, RequestsKeep
<1>2. ASSUME NEW t \in Task, TaskStep(t) PROVE SessionsInv'
  BY <1>2, ClosingKeeps, LogoutKeeps, ConnectingKeeps DEF TaskStep
<1>3. CASE RestoreNext BY <1>3, RestoreKeeps
<1>4. ASSUME NEW c \in Conn, TimerStep(c) \/ EventStep(c) PROVE SessionsInv'
  BY <1>4, TimersKeep, EventsKeep
<1>5. ASSUME NEW s \in Sock, Opens(s) \/ \E loggedOut \in BOOLEAN : Closes(s, loggedOut)
      PROVE  SessionsInv'
  BY <1>5, SocketsKeep
<1>6. CASE UNCHANGED vars
  <2>1. UNCHANGED <<connections, conn, sock, stored, task, todo, config, calls, deleted>>
    BY <1>6 DEF vars
  <2>2. SessionsTypeOK' BY <2>1 DEF SessionsInv, SessionsTypeOK
  <2>3. SocketsAreOwned' BY <2>1 DEF SessionsInv, SocketsAreOwned
  <2>4. TasksHaveConnections' BY <2>1 DEF SessionsInv, TasksHaveConnections
  <2>5. RequestsKeepTheLimit'
    BY <2>1 DEF SessionsInv, SessionsAreSingle, RequestsKeepTheLimit
  <2>6. OneAttemptAtATime' BY <2>1 DEF SessionsInv, SessionsAreSingle, OneAttemptAtATime, Live
  <2> QED BY <2>2, <2>3, <2>4, <2>5, <2>6 DEF SessionsInv, SessionsAreSingle
<1> QED BY <1>1, <1>2, <1>3, <1>4, <1>5, <1>6 DEF Next

LEMMA SessionsAlways == Spec => []SessionsInv
BY SessionsStart, SessionsStep, PTL DEF Spec

\* Every variable of the session life cycle has its type; in particular the retries of a
\* connection never pass the configured number.
THEOREM SessionsTyped == Spec => []SessionsTypeOK
<1>1. SessionsInv => SessionsTypeOK BY DEF SessionsInv
<1> QED BY <1>1, SessionsAlways, PTL

\* However requests, restarts, timers and close events interleave at their awaits, requests
\* take no more places than the limit, and a connection that no request has closed never
\* has two attempts: two timers, two calls of connect(), two sockets, or one of each.
THEOREM SessionsSingle == Spec => []SessionsAreSingle
<1>1. SessionsInv => SessionsAreSingle BY DEF SessionsInv
<1> QED BY <1>1, SessionsAlways, PTL

=============================================================================
