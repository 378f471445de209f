------------------------------ MODULE AuthBackend ------------------------------
(***************************************************************************)
(* Which store holds the sessions: src/baileys/authState/index.ts and      *)
(* backendRecord.ts, with the start of the process in src/index.ts.  The   *)
(* HTTP server listens before Redis is connected, so the first call of     *)
(* resolveBackend() may be a request's; it may also run while the boot     *)
(* sequence awaits Redis.  A process may die at any moment.                *)
(***************************************************************************)
CONSTANTS
  Configured   \* values of AUTH_STATE_BACKEND an installation is started with

Backend == {"file", "redis"}

ASSUME BackendAssumption == Configured \subseteq Backend \union {"auto"}

VARIABLES
  record,     \* data/auth-state-backend.json
  stored,     \* backends that hold at least one session
  phase,      \* down, connecting (to Redis), checking, serving
  config,     \* the configuration of this process
  available,  \* isRedisAvailable()
  decision,   \* this process's decision
  pending,    \* pendingRecord
  asking,     \* callers of resolveBackend() that await the ids in Redis
  hadRecord,  \* local of assertAuthStateBackendConsistency()
  wrote,      \* history: backends this process wrote sessions to
  overlapped  \* history: two callers of this process awaited the ids at once

authVars ==
  <<record, stored, phase, config, available, decision, pending, asking, hadRecord, wrote,
    overlapped>>

BackendTypeOK ==
  /\ {record, decision, pending} \subseteq Backend \union {"none"}
  /\ stored \subseteq Backend /\ wrote \subseteq Backend
  /\ phase \in {"down", "connecting", "checking", "serving"}
  /\ config \in [backend : Configured, confirmed : BOOLEAN]
  /\ asking \subseteq {"boot", "request"} /\ {available, hadRecord, overlapped} \subseteq BOOLEAN

Fresh ==
  /\ decision' = "none" /\ pending' = "none" /\ asking' = {}
  /\ wrote' = {} /\ overlapped' = FALSE

BackendInit ==
  /\ record = "none" /\ stored \in SUBSET Backend /\ phase = "down"
  /\ config \in [backend : Configured, confirmed : BOOLEAN]
  /\ available = FALSE /\ decision = "none" /\ pending = "none" /\ asking = {}
  /\ hadRecord = FALSE /\ wrote = {} /\ overlapped = FALSE

-----------------------------------------------------------------------------
\* startServer(); Redis is being connected, and a client that connects is already
\* taken for available: its commands wait.
StartServer ==
  /\ phase = "down" /\ phase' = "connecting"
  /\ config' \in [backend : Configured, confirmed : BOOLEAN]
  /\ available' \in BOOLEAN
  /\ Fresh /\ UNCHANGED <<record, stored, hadRecord>>

\* initializeRedis() returns; the boot sequence asks for the backend.
RedisInitialised ==
  /\ phase = "connecting" /\ phase' = "checking"
  /\ available' \in BOOLEAN
  /\ hadRecord' = (record # "none")
  /\ UNCHANGED <<record, stored, config, decision, pending, asking, wrote, overlapped>>

\* process.exit(1) or a crash.
Exit ==
  /\ phase # "down" /\ phase' = "down" /\ available' = FALSE
  /\ Fresh /\ UNCHANGED <<record, stored, config, hadRecord>>

\* What resolveBackend() does when nothing is decided yet.  A recorded backend
\* binds, unless a confirmed configuration names another one; without Redis a
\* recorded or configured Redis is an error.
SwitchAsked == record # "none" /\ config.backend \notin {"auto", record}
Wanted ==
  IF SwitchAsked THEN config.backend
  ELSE IF record # "none" THEN record
  ELSE IF config.backend # "auto" THEN config.backend
  ELSE IF available THEN "ask" ELSE "file"
\* (Variant: a switch needs no confirmation.)
Unconfirmed == Wanted = "redis" /\ ~available
Refused ==
  \/ SwitchAsked /\ ~config.confirmed
  \/ Wanted = "redis" /\ ~available

Decide(b) == decision' = b /\ pending' = IF record = "none" THEN b ELSE pending

Resolve(caller) ==
  /\ phase = "checking" \/ (caller = "request" /\ phase # "down")
  /\ decision = "none" /\ caller \notin asking
  /\ ~Refused
  /\ IF Wanted = "ask"
     THEN /\ asking' = asking \union {caller}
          /\ overlapped' = (overlapped \/ asking # {})
          /\ UNCHANGED <<record, decision, pending>>
     ELSE /\ Decide(Wanted)
          /\ record' = IF SwitchAsked THEN Wanted ELSE record
          /\ UNCHANGED <<asking, overlapped>>
  /\ UNCHANGED <<stored, phase, config, available, hadRecord, wrote>>

\* The boot sequence stops the process when resolveBackend() refuses.
BootRefused ==
  /\ phase = "checking" /\ decision = "none" /\ Refused
  /\ phase' = "down" /\ available' = FALSE
  /\ Fresh /\ UNCHANGED <<record, stored, config, hadRecord>>

\* "auto" on a first run, Redis reachable: files only if just they hold sessions.
Chosen == IF stored = {"file"} THEN "file" ELSE "redis"

\* Commands are answered by a client that has connected.  They may also fail: a
\* request is answered with the error.
IdsFailed ==
  /\ "request" \in asking /\ asking' = asking \ {"request"}
  /\ UNCHANGED <<record, stored, phase, config, available, decision, pending, hadRecord, wrote,
                 overlapped>>

IdsRead(caller) ==
  /\ available /\ phase # "connecting"
  /\ caller \in asking /\ asking' = asking \ {caller}
  /\ decision' = Chosen /\ pending' = Chosen
  /\ UNCHANGED <<record, stored, phase, config, available, hadRecord, wrote, overlapped>>

\* A first explicit choice that disagrees with where the sessions are.
Mismatch ==
  /\ ~hadRecord /\ config.backend # "auto"
  /\ \/ decision = "redis" /\ stored = {"file"}
     \/ decision = "file" /\ stored = {"redis"} /\ available

\* The rest of assertAuthStateBackendConsistency(); "boot" no longer waits.
Checked ==
  /\ phase = "checking" /\ decision # "none" /\ "boot" \notin asking
  /\ IF Mismatch
     THEN phase' = "down" /\ available' = FALSE /\ Fresh /\ UNCHANGED record
     ELSE /\ phase' = "serving"
          /\ record' = IF pending # "none" THEN pending ELSE record
          /\ pending' = "none"
          /\ UNCHANGED <<available, decision, asking, wrote, overlapped>>
  /\ UNCHANGED <<stored, config, hadRecord>>

\* useAuthState() of a request, after its resolveBackend().
WriteSession ==
  /\ phase # "down" /\ decision # "none"
  /\ decision = "redis" => available
  /\ stored' = stored \union {decision} /\ wrote' = wrote \union {decision}
  /\ UNCHANGED <<record, phase, config, available, decision, pending, asking, hadRecord,
                 overlapped>>

\* deleteAuthState() of the last session; its files are always removed too, other
\* sessions' files stay.
DeleteSessions ==
  /\ phase # "down" /\ decision # "none"
  /\ stored' \in {stored \ {decision}, stored \ {decision, "file"}}
  /\ UNCHANGED <<record, phase, config, available, decision, pending, asking, hadRecord, wrote,
                 overlapped>>

BackendNext ==
  \/ StartServer \/ RedisInitialised \/ Exit \/ BootRefused \/ Checked
  \/ \E caller \in {"boot", "request"} : Resolve(caller) \/ IdsRead(caller)
  \/ IdsFailed \/ WriteSession \/ DeleteSessions

BackendSpec == BackendInit /\ [][BackendNext]_authVars

-----------------------------------------------------------------------------
\* Once the checks of the start have passed, the process uses the recorded store,
\* and it writes sessions to one store only.  No early request splits the two:
\* at worst it makes the decision without Redis, and that is what gets recorded.
\* (Two callers that await the ids at once may decide differently.)
BackendIsSticky ==
  ~overlapped =>
    /\ phase = "serving" => decision = record /\ decision # "none"
    /\ wrote # Backend

\* The record only ever moves because somebody confirmed the switch: outages,
\* crashes, refused starts and early requests leave it alone.
RecordMovesByConfirmation ==
  [][record # "none" /\ record' # record =>
       config.confirmed /\ record' = config.backend]_record

\* An installation keeps its store of sessions: one per process, the recorded one,
\* until somebody confirms another.
BackendIsKept == []BackendIsSticky /\ RecordMovesByConfirmation
=============================================================================
