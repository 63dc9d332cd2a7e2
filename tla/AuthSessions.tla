---------------------------- MODULE AuthSessions ----------------------------
(***************************************************************************)
(* Accounts, sessions and the start of the process: modules/auth,          *)
(* modules/users, middleware/authz and the bootstrap of app.ts.            *)
(*                                                                         *)
(* Accounts are in the store of the process or in Postgres; sessions are   *)
(* always in the store, which may be saved to a file.  With accounts in    *)
(* the store every await resumes before another request is looked at, and  *)
(* a handler runs alone; with Postgres each query is a point where other   *)
(* requests, and the failure of the query, come in.  A request that is     *)
(* refused changes nothing and is left out, a lapsed session excepted.     *)
(*                                                                         *)
(* Emails stand for what is left of them after trim and toLowerCase, and a *)
(* password for all that verify against the same hash.                     *)
(*                                                                         *)
(* A definition called Mutant... is a faulty variant of the one after it;  *)
(* no specification uses it, the mutation checks put it in its place.      *)
(***************************************************************************)
EXTENDS Integers

CONSTANTS
  Slots,         \* requests that may be in the process at the same time
  Boot,          \* the registration of the bootstrap account at the start
  Emails, Passwords, Roles,
  BootEmail, BootPassword,
  MaxUsers,      \* bound: accounts ever created
  MaxSessions    \* bound: sessions ever opened

ASSUME ConstantsAssumption ==
  /\ Boot \notin Slots
  /\ {"OWNER", "USER"} \subseteq Roles
  /\ Roles \subseteq {"OWNER", "ADMIN", "EDITOR", "CONTRIBUTOR", "USER"}
  /\ BootEmail \in Emails /\ BootPassword \in Passwords
  /\ MaxUsers \in Nat /\ MaxSessions \in Nat

VARIABLES
  backend,     \* where usersRepository keeps the accounts: "memory" or "postgres"
  users,       \* the accounts, by id
  sessions,    \* store.authSessions, by id
  lapsed,      \* the sessions whose expiresAt has passed
  saved,       \* the store in the journal file
  calls,       \* what each request in the process is about to do
  bootstrap,   \* what bootstrapAdminPromise has resolved to
  registered,  \* the number of user ids given out
  opened       \* the number of session ids given out

vars == <<backend, users, sessions, lapsed, saved, calls, bootstrap, registered, opened>>

UserRecord == [email : Emails, password : Passwords, role : Roles]

(* login is the account as its login read it, kept for the properties.     *)
SessionRecord == [user : 1..MaxUsers, login : UserRecord, revoked : BOOLEAN]

(* seen: the roles the user had since the request came in.                 *)
CallRecord ==
  [op : {"idle", "bootFind", "bootInsert", "bootLookup"}]
    \cup [op : {"register"}, email : Emails, password : Passwords]
    \cup [op : {"login"}, user : 1..MaxUsers, account : UserRecord]
    \cup [op : {"writePassword"}, user : 1..MaxUsers, password : Passwords]
    \cup [op : {"revokeAll"}, user : 1..MaxUsers]
    \cup [op : {"resolve"}, user : 1..MaxUsers, session : 1..MaxSessions, seen : SUBSET Roles]
    \cup [op : {"handle"}, user : 1..MaxUsers, role : Roles, seen : SUBSET Roles]

Idle == [op |-> "idle"]

-----------------------------------------------------------------------------
(* Scheduling. *)

(* Without a query to wait for, a handler is not interrupted.              *)
MutantRunsAlone(c) == TRUE
RunsAlone(c) == backend = "memory" => \A d \in DOMAIN calls \ {c} : calls[d] = Idle

Begins(c, call) ==
  /\ calls[c] = Idle /\ c # Boot
  /\ RunsAlone(c)
  /\ calls' = [calls EXCEPT ![c] = call]

Continues(c, op) == calls[c].op = op /\ RunsAlone(c)

Ends(c) == calls' = [calls EXCEPT ![c] = Idle]

-----------------------------------------------------------------------------
(* Accounts. *)

ByEmail(email) == {u \in DOMAIN users : users[u].email = email}

Account(email, password, role) == [email |-> email, password |-> password, role |-> role]

Inserted(account) ==
  /\ registered < MaxUsers
  /\ registered' = registered + 1
  /\ users' = [u \in DOMAIN users \cup {registered + 1} |->
                 IF u = registered + 1 THEN account ELSE users[u]]

Register(c, email, password) ==
  /\ ByEmail(email) = {}
  /\ Begins(c, [op |-> "register", email |-> email, password |-> password])
  /\ UNCHANGED <<backend, users, sessions, lapsed, saved, bootstrap, registered, opened>>

CreateUser(c) ==
  /\ Continues(c, "register")
  /\ Inserted(Account(calls[c].email, calls[c].password, "USER"))
  /\ Ends(c)
  /\ UNCHANGED <<backend, sessions, lapsed, saved, bootstrap, opened>>

-----------------------------------------------------------------------------
(* Sessions. *)

Login(c, email, password) ==
  /\ \E u \in ByEmail(email) :
       /\ users[u].password = password
       /\ Begins(c, [op |-> "login", user |-> u, account |-> users[u]])
  /\ UNCHANGED <<backend, users, sessions, lapsed, saved, bootstrap, registered, opened>>

CreateSession(c) ==
  /\ Continues(c, "login")
  /\ opened < MaxSessions
  /\ opened' = opened + 1
  /\ sessions' = [i \in DOMAIN sessions \cup {opened + 1} |->
       IF i = opened + 1
       THEN [user |-> calls[c].user, login |-> calls[c].account, revoked |-> FALSE]
       ELSE sessions[i]]
  /\ Ends(c)
  /\ UNCHANGED <<backend, users, lapsed, saved, bootstrap, registered>>

(* Revocation waits for nothing: logout, and a lapsed session presented.   *)
RevokeSession(c, i) ==
  /\ calls[c] = Idle /\ RunsAlone(c)
  /\ ~sessions[i].revoked
  /\ sessions' = [sessions EXCEPT ![i].revoked = TRUE]
  /\ UNCHANGED <<backend, users, lapsed, saved, calls, bootstrap, registered, opened>>

(* Time passes the expiresAt of a session.                                 *)
Lapse(i) ==
  /\ i \notin lapsed
  /\ lapsed' = lapsed \cup {i}
  /\ UNCHANGED <<backend, users, sessions, saved, calls, bootstrap, registered, opened>>

-----------------------------------------------------------------------------
(* The password bridge. *)

ResetPassword(c, email, password) ==
  /\ \E u \in ByEmail(email) :
       Begins(c, [op |-> "writePassword", user |-> u, password |-> password])
  /\ UNCHANGED <<backend, users, sessions, lapsed, saved, bootstrap, registered, opened>>

UpdatePassword(c) ==
  /\ Continues(c, "writePassword")
  /\ users' = [users EXCEPT ![calls[c].user].password = calls[c].password]
  /\ calls' = [calls EXCEPT ![c] = [op |-> "revokeAll", user |-> calls[c].user]]
  /\ UNCHANGED <<backend, sessions, lapsed, saved, bootstrap, registered, opened>>

MutantSessionsRevoked(u) == sessions
SessionsRevoked(u) ==
  [i \in DOMAIN sessions |-> [sessions[i] EXCEPT !.revoked = @ \/ sessions[i].user = u]]

RevokeAllSessions(c) ==
  /\ Continues(c, "revokeAll")
  /\ sessions' = SessionsRevoked(calls[c].user)
  /\ Ends(c)
  /\ UNCHANGED <<backend, users, lapsed, saved, bootstrap, registered, opened>>

-----------------------------------------------------------------------------
(* Requests under a session. *)

RoleNow(u) == {users[v].role : v \in DOMAIN users \cap {u}}

(* requireSession finds the session and checks it without waiting.         *)
Present(c, i) ==
  /\ ~sessions[i].revoked /\ i \notin lapsed
  /\ Begins(c, [op |-> "resolve", user |-> sessions[i].user, session |-> i,
                seen |-> RoleNow(sessions[i].user)])
  /\ UNCHANGED <<backend, users, sessions, lapsed, saved, bootstrap, registered, opened>>

(* The role that counts is the one of the account now, not at login.       *)
MutantRoleRead(c) == sessions[calls[c].session].login.role
RoleRead(c) == users[calls[c].user].role

ResolvePrincipal(c) ==
  /\ Continues(c, "resolve")
  /\ calls' = [calls EXCEPT ![c] =
       IF calls[c].user \in DOMAIN users
       THEN [op |-> "handle", user |-> calls[c].user, role |-> RoleRead(c), seen |-> calls[c].seen]
       ELSE Idle]
  /\ UNCHANGED <<backend, users, sessions, lapsed, saved, bootstrap, registered, opened>>

(* A handler of the other modules, or a refusal by requireRoles.           *)
Handle(c) ==
  /\ Continues(c, "handle")
  /\ Ends(c)
  /\ UNCHANGED <<backend, users, sessions, lapsed, saved, bootstrap, registered, opened>>

(* Requests under way see the user in one more role.                       *)
Witnessed(u, role) ==
  [d \in DOMAIN calls |->
     IF calls[d].op \in {"resolve", "handle"} /\ calls[d].user = u
     THEN [calls[d] EXCEPT !.seen = @ \cup {role}]
     ELSE calls[d]]

SetRole(c, u, role) ==
  /\ Continues(c, "handle")
  /\ calls[c].role \in {"OWNER", "ADMIN"}
  /\ users' = [users EXCEPT ![u].role = role]
  /\ calls' = [Witnessed(u, role) EXCEPT ![c] = Idle]
  /\ UNCHANGED <<backend, sessions, lapsed, saved, bootstrap, registered, opened>>

-----------------------------------------------------------------------------
(* The bootstrap account, and the life of the process. *)

BootFind ==
  /\ Continues(Boot, "bootFind")
  /\ calls' = [calls EXCEPT ![Boot] =
       [op |-> IF ByEmail(BootEmail) = {} THEN "bootInsert" ELSE "bootLookup"]]
  /\ UNCHANGED <<backend, users, sessions, lapsed, saved, bootstrap, registered, opened>>

BootInsert ==
  /\ Continues(Boot, "bootInsert")
  /\ Inserted(Account(BootEmail, BootPassword, "OWNER"))
  /\ bootstrap' = "ok"
  /\ Ends(Boot)
  /\ UNCHANGED <<backend, sessions, lapsed, saved, opened>>

(* Registration failed: it is as good if the account is there.             *)
MutantLookedUp == "ok"
LookedUp == IF ByEmail(BootEmail) # {} THEN "ok" ELSE "failed"

BootLookup ==
  /\ Continues(Boot, "bootLookup")
  /\ bootstrap' = LookedUp
  /\ Ends(Boot)
  /\ UNCHANGED <<backend, users, sessions, lapsed, saved, registered, opened>>

Waiting == {"register", "login", "writePassword", "revokeAll", "resolve", "handle"}

(* A query, or the way back of its answer, fails.  One that failed before  *)
(* it took effect ends its request here; one that took effect has moved on *)
(* to the next step before.                                                *)
QueryFails(c) ==
  /\ backend = "postgres"
  /\ \/ calls[c].op \in Waiting /\ Ends(c) /\ UNCHANGED bootstrap
     \/ /\ calls[c].op \in {"bootFind", "bootInsert"}
        /\ calls' = [calls EXCEPT ![c] = [op |-> "bootLookup"]]
        /\ UNCHANGED bootstrap
     \/ calls[c].op = "bootLookup" /\ Ends(c) /\ bootstrap' = "failed"
  /\ UNCHANGED <<backend, users, sessions, lapsed, saved, registered, opened>>

Started == [c \in Slots \cup {Boot} |-> IF c = Boot THEN [op |-> "bootFind"] ELSE Idle]

StoreNow == [users |-> IF backend = "memory" THEN users ELSE [u \in {} |-> Idle], sessions |-> sessions]

(* The journal is written between handlers, if there is one.               *)
Save ==
  /\ backend = "memory" => \A c \in DOMAIN calls : calls[c] = Idle
  /\ saved' = StoreNow
  /\ UNCHANGED <<backend, users, sessions, lapsed, calls, bootstrap, registered, opened>>

(* The process ends, at any point, and starts with what the journal holds. *)
Restart ==
  /\ users' = IF backend = "memory" THEN saved.users ELSE users
  /\ sessions' = saved.sessions
  /\ calls' = Started
  /\ bootstrap' = "pending"
  /\ UNCHANGED <<backend, lapsed, saved, registered, opened>>

Init ==
  /\ backend \in {"memory", "postgres"}
  /\ users = [u \in {} |-> Idle] /\ sessions = [i \in {} |-> Idle]
  /\ lapsed = {} /\ registered = 0 /\ opened = 0
  /\ saved = [users |-> users, sessions |-> sessions]
  /\ calls = Started /\ bootstrap = "pending"

Next ==
  \/ \E c \in Slots, email \in Emails, password \in Passwords :
       Register(c, email, password) \/ Login(c, email, password) \/ ResetPassword(c, email, password)
  \/ \E c \in Slots, i \in DOMAIN sessions : RevokeSession(c, i) \/ Present(c, i)
  \/ \E c \in Slots :
       \/ CreateUser(c) \/ CreateSession(c) \/ UpdatePassword(c) \/ RevokeAllSessions(c)
       \/ ResolvePrincipal(c) \/ Handle(c)
  \/ \E c \in Slots, u \in DOMAIN users, role \in Roles : SetRole(c, u, role)
  \/ \E c \in DOMAIN calls : QueryFails(c)
  \/ \E i \in DOMAIN sessions : Lapse(i)
  \/ BootFind \/ BootInsert \/ BootLookup \/ Save \/ Restart

Spec == Init /\ [][Next]_vars

-----------------------------------------------------------------------------
(* Properties. *)

(* Accounts, sessions and calls are well formed, and ids were given out.   *)
TypeOK ==
  /\ backend \in {"memory", "postgres"} /\ bootstrap \in {"pending", "ok", "failed"}
  /\ DOMAIN users \subseteq 1..registered /\ users \in [DOMAIN users -> UserRecord]
  /\ DOMAIN sessions \subseteq 1..opened /\ sessions \in [DOMAIN sessions -> SessionRecord]
  /\ lapsed \subseteq 1..opened
  /\ calls \in [Slots \cup {Boot} -> CallRecord]

(* With accounts in the store no two have the same email, though register  *)
(* looks for the email and inserts in separate steps; with Postgres that   *)
(* is up to the table.                                                     *)
OneAccountPerEmail ==
  backend = "memory" => \A u, v \in DOMAIN users : users[u].email = users[v].email => u = v

(* With accounts in the store, whenever no handler is at work, a session   *)
(* that is not revoked was opened with the password the account has: resets *)
(* leave none behind, not even over a restart from an old journal.         *)
SessionsMatchPassword ==
  (backend = "memory" /\ \A c \in DOMAIN calls : calls[c] = Idle) =>
    \A i \in DOMAIN sessions :
      ~sessions[i].revoked =>
        /\ sessions[i].user \in DOMAIN users
        /\ sessions[i].login.password = users[sessions[i].user].password

(* The role under which a request is handled is one its user had while the *)
(* request was under way, wherever the accounts are and whatever is changed *)
(* in between.                                                             *)
ServedRoleWasHeld ==
  \A c \in DOMAIN calls : calls[c].op = "handle" => calls[c].role \in calls[c].seen

(* When the bootstrap counts as done the account is there, and with        *)
(* accounts in the store it never counts as failed.                        *)
ReadinessIsTruthful ==
  /\ bootstrap = "ok" => ByEmail(BootEmail) # {}
  /\ backend = "memory" => bootstrap # "failed"
=============================================================================
