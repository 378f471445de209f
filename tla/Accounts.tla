------------------------------- MODULE Accounts -------------------------------
(***************************************************************************)
(* The accounts of the dashboard, src/dashboard/auth.ts.  Every handler    *)
(* reads the whole user list, changes its copy and writes it back.  Three  *)
(* of them await a password hash in between, so they write a list that may *)
(* be out of date.  A token carries the role its owner had when it was     *)
(* signed and is trusted for a day, whatever the list says meanwhile.      *)
(* Sign-in throttling is in LoginGuard.                                    *)
(***************************************************************************)
EXTENDS Integers

CONSTANTS
  Name,             \* user names, already normalised
  AccountRequest,          \* requests that can wait for a hash at once
  RequireApproval,  \* config.dashboard.registrationRequireApproval
  MaxUsers          \* bound: accounts ever created

ASSUME AccountsAssumption == RequireApproval \in BOOLEAN /\ MaxUsers \in Nat

VARIABLES
  users,    \* USERS_FILE
  nextId,   \* generateId()
  saving,   \* per request: the list it will write and the token it will sign
  tokens    \* tokens in circulation

accountVars == <<users, nextId, saving, tokens>>

Role == {"admin", "manager", "assistant"}
User == [id : Nat, name : Name, role : Role, active : BOOLEAN, all : BOOLEAN]
Token == [sub : Nat, role : Role]
Quiet == [on |-> FALSE, list |-> {}, token |-> {}]

AccountsTypeOK ==
  /\ users \subseteq User /\ nextId \in Nat
  /\ saving \in [AccountRequest -> [on : BOOLEAN, list : SUBSET User, token : SUBSET Token]]
  /\ tokens \subseteq Token

AccountsInit ==
  /\ users = {} /\ nextId = 1 /\ tokens = {}
  /\ saving = [r \in AccountRequest |-> Quiet]

Admins(list) == {u \in list : u.role = "admin"}
\* The payload of a token.  (Variant: the record as it is.)
WholeRecord(u) == u
TokenOf(u) == [sub |-> u.id, role |-> u.role]
AnAdminAsks == \E t \in tokens : t.role = "admin"
NewUser(n, role, active) ==
  [id |-> nextId, name |-> n, role |-> role, active |-> active, all |-> FALSE]
Replace(list, u, v) == (list \ {u}) \union {v}

-----------------------------------------------------------------------------
\* A request begins to hash: the list it will write is its copy, changed.
Hash(r, list, token) ==
  /\ ~saving[r].on
  /\ saving' = [saving EXCEPT ![r] = [on |-> TRUE, list |-> list, token |-> token]]
  /\ UNCHANGED <<users, tokens>>

\* The account a registration adds.  (Variant: an administrator only if the
\* whole server is new, which the first identifier tells.)
FirstEver(n) ==
  NewUser(n, IF nextId = 1 THEN "admin" ELSE "assistant", users = {} \/ ~RequireApproval)
Registered(n) ==
  NewUser(n, IF users = {} THEN "admin" ELSE "assistant", users = {} \/ ~RequireApproval)

\* POST /register up to the await of hashPassword.
Register(r, n) ==
  /\ \A u \in users : u.name # n
  /\ nextId <= MaxUsers
  /\ LET u == Registered(n)
     IN Hash(r, users \union {u}, IF u.active THEN {TokenOf(u)} ELSE {})
  /\ nextId' = nextId + 1

\* POST /users up to the await.
CreateUser(r, n, role) ==
  /\ AnAdminAsks
  /\ \A u \in users : u.name # n
  /\ nextId <= MaxUsers
  /\ Hash(r, users \union {NewUser(n, role, TRUE)}, {})
  /\ nextId' = nextId + 1

\* PUT /password up to the last await: both awaits keep the same copy.  The hash
\* itself is left out: what matters is that the copy is written.
ChangePassword(r, u) ==
  /\ \E t \in tokens : t.sub = u.id
  /\ Hash(r, users, {})
  /\ UNCHANGED nextId

\* The hash is there: saveUsers() and the reply.
Save(r) ==
  /\ saving[r].on
  /\ users' = saving[r].list
  /\ tokens' = tokens \union saving[r].token
  /\ saving' = [saving EXCEPT ![r] = Quiet]
  /\ UNCHANGED nextId

\* POST /login of an active account.  Its record may be out of date by the time
\* the token is signed; signing it earlier makes the same token.
SignIn(u) ==
  /\ u.active
  /\ tokens' = tokens \union {TokenOf(u)}
  /\ UNCHANGED <<users, nextId, saving>>

\* The handlers below read and write in one go.
Write(list) ==
  /\ AnAdminAsks
  /\ users' = list
  /\ UNCHANGED <<nextId, saving, tokens>>

Approve(u) == Write(Replace(users, u, [u EXCEPT !.active = TRUE]))

\* PUT /users/:id/sessions
AssignSessions(u, all) ==
  Write(Replace(users, u, [u EXCEPT !.all = u.role = "manager" /\ all]))

\* Is u the only account with the role admin?
IsLastAdmin(u) == Admins(users) = {u}

\* `if (body.role !== "manager") allSessions = false'.
WithRole(u, role) == [u EXCEPT !.role = role, !.all = @ /\ role = "manager"]

ChangeRole(u, role) ==
  /\ role # "admin" => ~IsLastAdmin(u)
  /\ Write(Replace(users, u, WithRole(u, role)))

\* DELETE /users/:id: never oneself.  The revoked sessions are in Sessions.
DeleteUser(u) ==
  /\ \E t \in tokens : t.role = "admin" /\ t.sub # u.id
  /\ ~IsLastAdmin(u)
  /\ Write(users \ {u})

AccountsNext ==
  \/ \E r \in AccountRequest, n \in Name : Register(r, n)
  \/ \E r \in AccountRequest, n \in Name, role \in Role : CreateUser(r, n, role)
  \/ \E r \in AccountRequest, u \in users : ChangePassword(r, u)
  \/ \E r \in AccountRequest : Save(r)
  \/ \E u \in users : SignIn(u)
  \/ \E u \in users : Approve(u)
  \/ \E u \in users, all \in BOOLEAN : AssignSessions(u, all)
  \/ \E u \in users, role \in Role : ChangeRole(u, role)
  \/ \E u \in users : DeleteUser(u)

AccountsSpec == AccountsInit /\ [][AccountsNext]_accountVars

-----------------------------------------------------------------------------
\* A list that can be governed: somebody is administrator, no two accounts share
\* a name, only managers are granted every session.
Governed(list) ==
  /\ list # {} => Admins(list) # {}
  /\ \A u, v \in list : u.name = v.name => u = v
  /\ \A u \in list : u.all => u.role = "manager"

\* Writes of outdated lists overlap with registrations, role changes and
\* deletions: whatever their order, the list on disk has an administrator, each
\* name once, and no grant of every session outlives the manager role.
AccountsStayGoverned == Governed(users)
=============================================================================
