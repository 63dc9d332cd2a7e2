------------------------ MODULE AuthSessions_proofs ------------------------
(***************************************************************************)
(* Theorems about AuthSessions, for any number of requests at a time, any  *)
(* emails, passwords and roles, and any bounds.                            *)
(***************************************************************************)
EXTENDS AuthSessions, TLAPS

-----------------------------------------------------------------------------
(* The state stays well formed. *)

UsersOK(f, n) == DOMAIN f \subseteq 1..n /\ f \in [DOMAIN f -> UserRecord]
SessionsOK(f, n) == DOMAIN f \subseteq 1..n /\ f \in [DOMAIN f -> SessionRecord]

(* TypeOK, with the bounds of the ids and the journal.                     *)
TypeInv ==
  /\ TypeOK
  /\ registered \in 0..MaxUsers /\ opened \in 0..MaxSessions
  /\ UsersOK(saved.users, registered) /\ SessionsOK(saved.sessions, opened)

(* What a call holds, by what it is about to do.                           *)
LEMMA CallFields ==
  ASSUME NEW k \in CallRecord
  PROVE  /\ k.op = "register" => k.email \in Emails /\ k.password \in Passwords
         /\ k.op = "login" => k.user \in 1..MaxUsers /\ k.account \in UserRecord
         /\ k.op = "writePassword" => k.user \in 1..MaxUsers /\ k.password \in Passwords
         /\ k.op = "revokeAll" => k.user \in 1..MaxUsers
         /\ k.op = "resolve" => k.user \in 1..MaxUsers /\ k.seen \in SUBSET Roles
         /\ k.op = "handle" => k.user \in 1..MaxUsers /\ k.role \in Roles /\ k.seen \in SUBSET Roles
  BY DEF CallRecord

(* What a step may do to the calls.                                        *)
LEMMA CallsStayTyped ==
  ASSUME TypeInv, NEW c \in Slots \cup {Boot}, NEW k \in CallRecord
  PROVE  /\ [calls EXCEPT ![c] = k] \in [Slots \cup {Boot} -> CallRecord]
         /\ Idle \in CallRecord
         /\ Started \in [Slots \cup {Boot} -> CallRecord]
  BY DEF TypeInv, TypeOK, CallRecord, Idle, Started

LEMMA InitTypeInv == Init => TypeInv
  <1> SUFFICES ASSUME Init PROVE TypeInv
    OBVIOUS
  <1>1. Started \in [Slots \cup {Boot} -> CallRecord]
    BY DEF CallRecord, Idle, Started
  <1>2. QED
    BY <1>1, ConstantsAssumption DEF Init, TypeInv, TypeOK, UsersOK, SessionsOK

LEMMA NextTypeInv == TypeInv /\ [Next]_vars => TypeInv'
  <1> SUFFICES ASSUME TypeInv, [Next]_vars PROVE TypeInv'
    OBVIOUS
  <1> USE ConstantsAssumption
  <1>1. ASSUME NEW c \in Slots \cup {Boot}
        PROVE  calls[c] \in CallRecord /\ Idle \in CallRecord
    BY CallsStayTyped DEF TypeInv, TypeOK
  <1>2. ASSUME UNCHANGED <<backend, lapsed, saved, bootstrap, registered, opened, users, sessions>>,
               calls' \in [Slots \cup {Boot} -> CallRecord]
        PROVE  TypeInv'
    BY <1>2 DEF TypeInv, TypeOK, UsersOK, SessionsOK
  <1>3. ASSUME NEW c \in Slots, NEW email \in Emails, NEW password \in Passwords,
               Register(c, email, password)
        PROVE  TypeInv'
    <2> DEFINE k == [op |-> "register", email |-> email, password |-> password]
    <2>1. k \in CallRecord
      BY DEF CallRecord
    <2>2. calls' = [calls EXCEPT ![c] = k]
      BY <1>3 DEF Register, Begins
    <2> HIDE DEF k
    <2>3. QED
      BY <1>2, <1>3, <2>1, <2>2, CallsStayTyped DEF Register
  <1>4. ASSUME NEW c \in Slots, NEW email \in Emails, NEW password \in Passwords,
               Login(c, email, password)
        PROVE  TypeInv'
    <2>1. PICK u \in ByEmail(email) :
            Begins(c, [op |-> "login", user |-> u, account |-> users[u]])
      BY <1>4 DEF Login
    <2> DEFINE k == [op |-> "login", user |-> u, account |-> users[u]]
    <2>2. u \in 1..MaxUsers /\ users[u] \in UserRecord
      BY <2>1 DEF ByEmail, TypeInv, TypeOK
    <2>3. k \in CallRecord
      BY <2>2 DEF CallRecord
    <2>4. calls' = [calls EXCEPT ![c] = k]
      BY <2>1 DEF Begins
    <2> HIDE DEF k
    <2>5. QED
      BY <1>2, <1>4, <2>3, <2>4, CallsStayTyped DEF Login
  <1>5. ASSUME NEW c \in Slots, NEW email \in Emails, NEW password \in Passwords,
               ResetPassword(c, email, password)
        PROVE  TypeInv'
    <2>1. PICK u \in ByEmail(email) :
            Begins(c, [op |-> "writePassword", user |-> u, password |-> password])
      BY <1>5 DEF ResetPassword
    <2> DEFINE k == [op |-> "writePassword", user |-> u, password |-> password]
    <2>2. u \in 1..MaxUsers
      BY <2>1 DEF ByEmail, TypeInv, TypeOK
    <2>3. k \in CallRecord
      BY <2>2 DEF CallRecord
    <2>4. calls' = [calls EXCEPT ![c] = k]
      BY <2>1 DEF Begins
    <2> HIDE DEF k
    <2>5. QED
      BY <1>2, <1>5, <2>3, <2>4, CallsStayTyped DEF ResetPassword
  <1>6. ASSUME NEW c \in Slots, NEW i \in DOMAIN sessions, RevokeSession(c, i) PROVE TypeInv'
    <2>1. SessionsOK(sessions', opened)
      BY <1>6 DEF RevokeSession, TypeInv, TypeOK, SessionsOK, SessionRecord
    <2>2. QED
      BY <1>6, <2>1 DEF RevokeSession, TypeInv, TypeOK, SessionsOK, UsersOK
  <1>7. ASSUME NEW c \in Slots, NEW i \in DOMAIN sessions, Present(c, i) PROVE TypeInv'
    <2> DEFINE k == [op |-> "resolve", user |-> sessions[i].user, session |-> i,
                     seen |-> RoleNow(sessions[i].user)]
    <2>1. sessions[i].user \in 1..MaxUsers /\ i \in 1..MaxSessions
      BY DEF TypeInv, TypeOK, SessionRecord
    <2>2. RoleNow(sessions[i].user) \in SUBSET Roles
      BY DEF RoleNow, TypeInv, TypeOK, UserRecord
    <2>3. k \in CallRecord
      BY <2>1, <2>2 DEF CallRecord
    <2>4. calls' = [calls EXCEPT ![c] = k]
      BY <1>7 DEF Present, Begins
    <2> HIDE DEF k
    <2>5. QED
      BY <1>2, <1>7, <2>3, <2>4, CallsStayTyped DEF Present
  (* A new account, by a registration or the bootstrap. *)
  <1>8. ASSUME NEW c \in Slots \cup {Boot}, NEW email \in Emails, NEW password \in Passwords,
               NEW role \in Roles, Inserted(Account(email, password, role)), Ends(c),
               bootstrap' \in {bootstrap, "ok"}, UNCHANGED <<backend, sessions, lapsed, saved, opened>>
        PROVE  TypeInv'
    <2>1. Account(email, password, role) \in UserRecord
      BY DEF Account, UserRecord
    <2>2. registered' \in 0..MaxUsers /\ registered' = registered + 1
      BY <1>8 DEF Inserted, TypeInv
    <2>3. UsersOK(users', registered')
      BY <1>8, <2>1, <2>2 DEF Inserted, TypeInv, TypeOK, UsersOK
    <2>4. UsersOK(saved.users, registered')
      BY <2>2 DEF TypeInv, UsersOK
    <2>5. calls' \in [Slots \cup {Boot} -> CallRecord]
      BY <1>1, <1>8, CallsStayTyped DEF Ends
    <2>6. QED
      BY <1>8, <2>2, <2>3, <2>4, <2>5 DEF TypeInv, TypeOK, UsersOK, SessionsOK
  <1>9. ASSUME NEW c \in Slots, CreateUser(c) PROVE TypeInv'
    <2>1. calls[c].email \in Emails /\ calls[c].password \in Passwords /\ "USER" \in Roles
      BY <1>1, <1>9, CallFields DEF CreateUser, Continues
    <2>2. QED
      BY <1>8, <1>9, <2>1 DEF CreateUser
  <1>10. ASSUME NEW c \in Slots, CreateSession(c) PROVE TypeInv'
    <2> DEFINE s == [user |-> calls[c].user, login |-> calls[c].account, revoked |-> FALSE]
    <2>1. s \in SessionRecord
      BY <1>1, <1>10, CallFields DEF CreateSession, Continues, SessionRecord
    <2>2. opened' \in 0..MaxSessions /\ opened' = opened + 1
      BY <1>10 DEF CreateSession, TypeInv
    <2>3. sessions' = [i \in DOMAIN sessions \cup {opened + 1} |->
                         IF i = opened + 1 THEN s ELSE sessions[i]]
      BY <1>10 DEF CreateSession
    <2> HIDE DEF s
    <2>4. SessionsOK(sessions', opened')
      BY <2>1, <2>2, <2>3 DEF TypeInv, TypeOK, SessionsOK
    <2>5. SessionsOK(saved.sessions, opened') /\ lapsed \subseteq 1..opened'
      BY <2>2 DEF TypeInv, TypeOK, SessionsOK
    <2>6. calls' \in [Slots \cup {Boot} -> CallRecord]
      BY <1>1, <1>10, CallsStayTyped DEF CreateSession, Ends
    <2>7. QED
      BY <1>10, <2>2, <2>4, <2>5, <2>6 DEF CreateSession, TypeInv, TypeOK, UsersOK, SessionsOK
  <1>11. ASSUME NEW c \in Slots, UpdatePassword(c) PROVE TypeInv'
    <2> DEFINE k == [op |-> "revokeAll", user |-> calls[c].user]
    <2>1. calls[c].user \in 1..MaxUsers /\ calls[c].password \in Passwords
      BY <1>1, <1>11, CallFields DEF UpdatePassword, Continues
    <2>2. k \in CallRecord
      BY <2>1 DEF CallRecord
    <2>3. calls' = [calls EXCEPT ![c] = k]
      BY <1>11 DEF UpdatePassword
    <2> HIDE DEF k
    <2>4. calls' \in [Slots \cup {Boot} -> CallRecord]
      BY <2>2, <2>3, CallsStayTyped
    <2>5. UsersOK(users', registered)
      BY <1>11, <2>1, ZenonT(60) DEF UpdatePassword, TypeInv, TypeOK, UsersOK, UserRecord
    <2>6. QED
      BY <1>11, <2>4, <2>5 DEF UpdatePassword, TypeInv, TypeOK, UsersOK, SessionsOK
  <1>12. ASSUME NEW c \in Slots, RevokeAllSessions(c) PROVE TypeInv'
    <2>1. SessionsOK(sessions', opened)
      BY <1>12, ZenonT(60) DEF RevokeAllSessions, SessionsRevoked, TypeInv, TypeOK, SessionsOK, SessionRecord
    <2>2. calls' \in [Slots \cup {Boot} -> CallRecord]
      BY <1>1, <1>12, CallsStayTyped DEF RevokeAllSessions, Ends
    <2>3. QED
      BY <1>12, <2>1, <2>2 DEF RevokeAllSessions, TypeInv, TypeOK, UsersOK, SessionsOK
  <1>13. ASSUME NEW c \in Slots, ResolvePrincipal(c) PROVE TypeInv'
    <2> DEFINE k == [op |-> "handle", user |-> calls[c].user, role |-> RoleRead(c),
                     seen |-> calls[c].seen]
    <2>1. calls[c].user \in 1..MaxUsers /\ calls[c].seen \in SUBSET Roles
      BY <1>1, <1>13, CallFields DEF ResolvePrincipal, Continues
    <2>2. calls[c].user \in DOMAIN users => k \in CallRecord
      <3>1. calls[c].user \in DOMAIN users => RoleRead(c) \in Roles
        BY DEF RoleRead, TypeInv, TypeOK, UserRecord
      <3>2. QED
        BY <2>1, <3>1 DEF CallRecord
    <2>3. calls' = [calls EXCEPT ![c] = IF calls[c].user \in DOMAIN users THEN k ELSE Idle]
      BY <1>13 DEF ResolvePrincipal
    <2> HIDE DEF k
    <2>4. QED
      BY <1>1, <1>2, <1>13, <2>2, <2>3, CallsStayTyped DEF ResolvePrincipal
  <1>14. ASSUME NEW c \in Slots, Handle(c) PROVE TypeInv'
    BY <1>1, <1>2, <1>14, CallsStayTyped DEF Handle, Ends
  <1>15. ASSUME NEW c \in Slots, NEW u \in DOMAIN users, NEW role \in Roles, SetRole(c, u, role)
         PROVE  TypeInv'
    <2>1. ASSUME NEW d \in Slots \cup {Boot} PROVE Witnessed(u, role)[d] \in CallRecord
      <3>1. calls[d].op = "resolve" => [calls[d] EXCEPT !.seen = @ \cup {role}] \in CallRecord
        BY <1>1 DEF CallRecord
      <3>2. calls[d].op = "handle" => [calls[d] EXCEPT !.seen = @ \cup {role}] \in CallRecord
        BY <1>1 DEF CallRecord
      <3>3. QED
        BY <1>1, <3>1, <3>2 DEF Witnessed, TypeInv, TypeOK
    <2>2. DOMAIN Witnessed(u, role) = Slots \cup {Boot}
      BY DEF Witnessed, TypeInv, TypeOK
    <2>3. calls' \in [Slots \cup {Boot} -> CallRecord]
      <3>1. Witnessed(u, role) \in [Slots \cup {Boot} -> CallRecord]
        BY <2>1, <2>2 DEF Witnessed
      <3>2. QED
        BY <1>1, <1>15, <3>1 DEF SetRole
    <2>4. UsersOK(users', registered)
      BY <1>15 DEF SetRole, TypeInv, TypeOK, UsersOK, UserRecord
    <2>5. QED
      BY <1>15, <2>3, <2>4 DEF SetRole, TypeInv, TypeOK, UsersOK, SessionsOK
  <1>16. ASSUME NEW c \in DOMAIN calls, QueryFails(c) PROVE TypeInv'
    <2>1. c \in Slots \cup {Boot} /\ [op |-> "bootLookup"] \in CallRecord
      BY DEF TypeInv, TypeOK, CallRecord
    <2>2. calls' \in [Slots \cup {Boot} -> CallRecord]
      BY <1>1, <1>16, <2>1, CallsStayTyped DEF QueryFails, Ends
    <2>3. QED
      BY <1>16, <2>2 DEF QueryFails, TypeInv, TypeOK, UsersOK, SessionsOK
  <1>17. ASSUME NEW i \in DOMAIN sessions, Lapse(i) PROVE TypeInv'
    BY <1>17 DEF Lapse, TypeInv, TypeOK, UsersOK, SessionsOK
  <1>18. CASE BootFind
    <2>1. [op |-> "bootInsert"] \in CallRecord /\ [op |-> "bootLookup"] \in CallRecord
      BY DEF CallRecord
    <2>2. calls' \in [Slots \cup {Boot} -> CallRecord]
      BY <1>18, <2>1, CallsStayTyped DEF BootFind
    <2>3. QED
      BY <1>2, <1>18, <2>2 DEF BootFind
  <1>19. CASE BootInsert
    BY <1>8, <1>19 DEF BootInsert
  <1>20. CASE BootLookup
    <2>1. calls' \in [Slots \cup {Boot} -> CallRecord]
      BY <1>1, <1>20, CallsStayTyped DEF BootLookup, Ends
    <2>2. QED
      BY <1>20, <2>1 DEF BootLookup, LookedUp, TypeInv, TypeOK, UsersOK, SessionsOK
  <1>21. CASE Save
    BY <1>21 DEF Save, StoreNow, TypeInv, TypeOK, UsersOK, SessionsOK
  <1>22. CASE Restart
    <2>1. calls' \in [Slots \cup {Boot} -> CallRecord]
      BY <1>1, <1>22, CallsStayTyped DEF Restart
    <2>2. QED
      BY <1>22, <2>1 DEF Restart, TypeInv, TypeOK, UsersOK, SessionsOK
  <1>23. CASE UNCHANGED vars
    BY <1>2, <1>23 DEF vars, TypeInv, TypeOK
  <1>24. QED
    BY <1>3, <1>4, <1>5, <1>6, <1>7, <1>9, <1>10, <1>11, <1>12, <1>13, <1>14, <1>15, <1>16, <1>17,
       <1>18, <1>19, <1>20, <1>21, <1>22, <1>23 DEF Next

(* Accounts, sessions and calls are well formed in every reachable state,  *)
(* whatever fails, lapses or restarts, and no id is made up.               *)
THEOREM AuthTypeCorrect == Spec => []TypeOK
  <1>1. TypeInv => TypeOK
    BY DEF TypeInv
  <1>2. QED
    BY InitTypeInv, NextTypeInv, <1>1, PTL DEF Spec

-----------------------------------------------------------------------------
(* Which accounts the accounts of one moment still are at another.         *)

(* But for a restart, accounts come and change password or role; none goes, *)
(* and none changes its email.                                             *)
AccountsStay ==
  /\ registered <= registered'
  /\ \A u \in DOMAIN users : u \in DOMAIN users' /\ users'[u].email = users[u].email
  /\ \A u \in DOMAIN users' \ DOMAIN users : u > registered /\ u <= registered'

LEMMA AccountsStayPut ==
  ASSUME TypeInv, [Next]_vars, ~Restart
  PROVE  AccountsStay
  <1> USE DEF AccountsStay
  <1>1. users \in [DOMAIN users -> UserRecord] /\ registered \in Nat
    BY ConstantsAssumption DEF TypeInv, TypeOK
  <1>2. ASSUME UNCHANGED <<users, registered>> PROVE AccountsStay
    BY <1>1, <1>2
  <1>3. ASSUME NEW account, Inserted(account) PROVE AccountsStay
    BY <1>1, <1>3 DEF Inserted, TypeInv, TypeOK
  <1>4. ASSUME NEW c \in Slots, UpdatePassword(c) PROVE AccountsStay
    BY <1>1, <1>4 DEF UpdatePassword, UserRecord
  <1>5. ASSUME NEW c \in Slots, NEW u \in DOMAIN users, NEW role \in Roles, SetRole(c, u, role)
        PROVE  AccountsStay
    BY <1>1, <1>5 DEF SetRole, UserRecord
  <1>6. QED
    BY <1>2, <1>3, <1>4, <1>5
       DEF Next, vars, Register, Login, ResetPassword, RevokeSession, Present, CreateUser,
           CreateSession, RevokeAllSessions, ResolvePrincipal, Handle, QueryFails, Lapse, BootFind,
           BootInsert, BootLookup, Save

-----------------------------------------------------------------------------
(* Roles. *)

(* The role a request would read, or has read, is one it has seen; and a   *)
(* user of a session or a call is never an account still to come.          *)
RoleInv ==
  /\ \A i \in DOMAIN sessions : sessions[i].user <= registered
  /\ \A i \in DOMAIN saved.sessions : saved.sessions[i].user <= registered
  /\ \A c \in DOMAIN calls :
       /\ calls[c].op \in {"login", "resolve"} => calls[c].user <= registered
       /\ calls[c].op = "resolve" /\ calls[c].user \in DOMAIN users
            => users[calls[c].user].role \in calls[c].seen
       /\ calls[c].op = "handle" => calls[c].role \in calls[c].seen

(* A call that sees what it would read.                                    *)
Informed(call) ==
  /\ call.op \in {"login", "resolve"} => call.user <= registered
  /\ call.op = "resolve" /\ call.user \in DOMAIN users => users[call.user].role \in call.seen
  /\ call.op = "handle" => call.role \in call.seen

LEMMA NextRoleInv == TypeInv /\ RoleInv /\ [Next]_vars => RoleInv'
  <1> SUFFICES ASSUME TypeInv, RoleInv, [Next]_vars PROVE RoleInv'
    OBVIOUS
  <1> USE ConstantsAssumption
  <1>1. /\ DOMAIN calls = Slots \cup {Boot}
        /\ users \in [DOMAIN users -> UserRecord] /\ DOMAIN users \subseteq 1..registered
        /\ registered \in Nat /\ Idle.op = "idle"
        /\ sessions \in [DOMAIN sessions -> SessionRecord]
    BY DEF TypeInv, TypeOK, Idle
  <1>2. \A c \in DOMAIN calls : Informed(calls[c])
    BY DEF RoleInv, Informed
  (* One call changes, accounts and sessions do not. *)
  <1>3. ASSUME NEW c \in Slots \cup {Boot}, NEW k, Informed(k), calls' = [calls EXCEPT ![c] = k],
               UNCHANGED <<users, sessions, saved, registered>>
        PROVE  RoleInv'
    BY <1>1, <1>2, <1>3 DEF RoleInv, Informed
  <1>4. Informed(Idle) /\ \A op : op \in {"idle", "bootInsert", "bootLookup"} => Informed([op |-> op])
    BY DEF Informed, Idle
  <1>5. ASSUME NEW c \in Slots, NEW email \in Emails, NEW password \in Passwords,
               Register(c, email, password)
        PROVE  RoleInv'
    <2> DEFINE k == [op |-> "register", email |-> email, password |-> password]
    <2>1. Informed(k)
      BY DEF Informed
    <2> HIDE DEF k
    <2>2. calls' = [calls EXCEPT ![c] = k]
      BY <1>5 DEF Register, Begins, k
    <2>3. QED
      BY <1>3, <1>5, <2>1, <2>2 DEF Register
  <1>6. ASSUME NEW c \in Slots, NEW email \in Emails, NEW password \in Passwords,
               Login(c, email, password)
        PROVE  RoleInv'
    <2>1. PICK u \in ByEmail(email) :
            Begins(c, [op |-> "login", user |-> u, account |-> users[u]])
      BY <1>6 DEF Login
    <2> DEFINE k == [op |-> "login", user |-> u, account |-> users[u]]
    <2>2. Informed(k)
      BY <1>1, <2>1 DEF ByEmail, Informed
    <2>3. calls' = [calls EXCEPT ![c] = k]
      BY <2>1 DEF Begins
    <2> HIDE DEF k
    <2>4. QED
      BY <1>3, <1>6, <2>2, <2>3 DEF Login
  <1>7. ASSUME NEW c \in Slots, NEW email \in Emails, NEW password \in Passwords,
               ResetPassword(c, email, password)
        PROVE  RoleInv'
    <2>1. PICK u \in ByEmail(email) :
            Begins(c, [op |-> "writePassword", user |-> u, password |-> password])
      BY <1>7 DEF ResetPassword
    <2> DEFINE k == [op |-> "writePassword", user |-> u, password |-> password]
    <2>2. Informed(k)
      BY DEF Informed
    <2>3. calls' = [calls EXCEPT ![c] = k]
      BY <2>1 DEF Begins
    <2> HIDE DEF k
    <2>4. QED
      BY <1>3, <1>7, <2>2, <2>3 DEF ResetPassword
  <1>8. ASSUME NEW c \in Slots, NEW i \in DOMAIN sessions, RevokeSession(c, i) PROVE RoleInv'
    BY <1>1, <1>8 DEF RevokeSession, RoleInv, SessionRecord
  <1>9. ASSUME NEW c \in Slots, NEW i \in DOMAIN sessions, Present(c, i) PROVE RoleInv'
    <2> DEFINE k == [op |-> "resolve", user |-> sessions[i].user, session |-> i,
                     seen |-> RoleNow(sessions[i].user)]
    <2>1. Informed(k)
      BY DEF Informed, RoleNow, RoleInv
    <2>2. calls' = [calls EXCEPT ![c] = k]
      BY <1>9 DEF Present, Begins
    <2> HIDE DEF k
    <2>3. QED
      BY <1>3, <1>9, <2>1, <2>2 DEF Present
  (* A new account is nobody a request is about. *)
  <1>10. ASSUME NEW c \in Slots \cup {Boot}, NEW account, Inserted(account), Ends(c),
                UNCHANGED <<sessions, saved>>
         PROVE  RoleInv'
    <2>1. /\ registered' = registered + 1
          /\ users' = [u \in DOMAIN users \cup {registered + 1} |->
                         IF u = registered + 1 THEN account ELSE users[u]]
      BY <1>10 DEF Inserted
    <2>2. ASSUME NEW d \in Slots \cup {Boot}, d # c PROVE Informed(calls[d])'
      <3>1. calls'[d] = calls[d]
        BY <1>1, <1>10, <2>2 DEF Ends
      <3>2. calls[d].op \in {"login", "resolve"} => calls[d].user <= registered
        BY <1>1 DEF RoleInv
      <3>3. calls[d].op = "resolve" => calls[d].user \in Nat
        BY <1>1, CallFields DEF TypeInv, TypeOK
      <3>4. QED
        BY <1>1, <1>2, <2>1, <3>1, <3>2, <3>3, CallFields DEF Informed, TypeInv, TypeOK
    <2>3. Informed(calls[c])'
      BY <1>1, <1>4, <1>10 DEF Ends, Informed
    <2>4. (\A i \in DOMAIN sessions : sessions[i].user <= registered)'
      BY <1>1, <1>10, <2>1 DEF RoleInv, SessionRecord
    <2>5. (\A i \in DOMAIN saved.sessions : saved.sessions[i].user <= registered)'
      <3>1. \A i \in DOMAIN saved.sessions : saved.sessions[i].user \in Nat
        BY DEF TypeInv, SessionsOK, SessionRecord
      <3>2. QED
        BY <1>1, <1>10, <2>1, <3>1 DEF RoleInv
    <2>6. DOMAIN calls' = Slots \cup {Boot}
      BY <1>1, <1>10 DEF Ends
    <2>7. QED
      BY <2>2, <2>3, <2>4, <2>5, <2>6 DEF RoleInv, Informed
  <1>11. ASSUME NEW c \in Slots, CreateUser(c) PROVE RoleInv'
    BY <1>10, <1>11 DEF CreateUser
  <1>12. ASSUME NEW c \in Slots, CreateSession(c) PROVE RoleInv'
    <2>1. calls[c].user <= registered
      BY <1>1, <1>12 DEF CreateSession, Continues, RoleInv
    <2>2. (\A i \in DOMAIN sessions : sessions[i].user <= registered)'
      BY <1>12, <2>1 DEF CreateSession, RoleInv
    <2>3. (\A d \in DOMAIN calls : Informed(calls[d]))'
      BY <1>1, <1>2, <1>4, <1>12 DEF CreateSession, Ends, Informed
    <2>4. QED
      BY <1>12, <2>2, <2>3 DEF CreateSession, RoleInv, Informed
  <1>13. ASSUME NEW c \in Slots, UpdatePassword(c) PROVE RoleInv'
    <2> DEFINE k == [op |-> "revokeAll", user |-> calls[c].user]
    <2>1. \A v \in DOMAIN users : users'[v].role = users[v].role
      BY <1>1, <1>13 DEF UpdatePassword, UserRecord
    <2>2. DOMAIN users' = DOMAIN users
      BY <1>13 DEF UpdatePassword
    <2>3. calls' = [calls EXCEPT ![c] = k]
      BY <1>13 DEF UpdatePassword
    <2>4. k.op = "revokeAll"
      OBVIOUS
    <2> HIDE DEF k
    <2>5. (\A d \in DOMAIN calls : Informed(calls[d]))'
      BY <1>1, <1>2, <1>13, <2>1, <2>2, <2>3, <2>4 DEF UpdatePassword, Informed
    <2>6. QED
      BY <1>13, <2>5 DEF UpdatePassword, RoleInv, Informed
  <1>14. ASSUME NEW c \in Slots, RevokeAllSessions(c) PROVE RoleInv'
    <2>1. (\A i \in DOMAIN sessions : sessions[i].user <= registered)'
      BY <1>1, <1>14 DEF RevokeAllSessions, SessionsRevoked, RoleInv, SessionRecord
    <2>2. (\A d \in DOMAIN calls : Informed(calls[d]))'
      BY <1>1, <1>2, <1>4, <1>14 DEF RevokeAllSessions, Ends, Informed
    <2>3. QED
      BY <1>14, <2>1, <2>2 DEF RevokeAllSessions, RoleInv, Informed
  (* What is read was seen. *)
  <1>15. ASSUME NEW c \in Slots, ResolvePrincipal(c) PROVE RoleInv'
    <2> DEFINE k == [op |-> "handle", user |-> calls[c].user, role |-> RoleRead(c),
                     seen |-> calls[c].seen]
    <2>1. calls[c].user \in DOMAIN users => Informed(k)
      BY <1>1, <1>15 DEF ResolvePrincipal, Continues, RoleRead, RoleInv, Informed
    <2>2. calls' = [calls EXCEPT ![c] = IF calls[c].user \in DOMAIN users THEN k ELSE Idle]
      BY <1>15 DEF ResolvePrincipal
    <2> HIDE DEF k
    <2>3. QED
      BY <1>3, <1>4, <1>15, <2>1, <2>2 DEF ResolvePrincipal
  <1>16. ASSUME NEW c \in Slots, Handle(c) PROVE RoleInv'
    BY <1>3, <1>4, <1>16 DEF Handle, Ends
  (* Who waits for the account witnesses the new role. *)
  <1>17. ASSUME NEW c \in Slots, NEW u \in DOMAIN users, NEW role \in Roles, SetRole(c, u, role)
         PROVE  RoleInv'
    <2>1. /\ DOMAIN users' = DOMAIN users
          /\ \A v \in DOMAIN users : users'[v].role = IF v = u THEN role ELSE users[v].role
      BY <1>1, <1>17 DEF SetRole, UserRecord
    <2>2. DOMAIN calls' = Slots \cup {Boot}
      BY <1>1, <1>17 DEF SetRole, Witnessed
    <2>3. ASSUME NEW d \in Slots \cup {Boot}, d # c PROVE Informed(calls[d])'
      <3>1. calls'[d] = Witnessed(u, role)[d]
        BY <1>1, <1>17, <2>3 DEF SetRole, Witnessed
      <3>2. calls[d] \in CallRecord
        BY DEF TypeInv, TypeOK
      <3>3. CASE calls[d].op \in {"resolve", "handle"} /\ calls[d].user = u
        <4>1. calls'[d] = [calls[d] EXCEPT !.seen = calls[d].seen \cup {role}]
          BY <1>1, <3>1, <3>3 DEF Witnessed
        <4>2. calls[d].op = "resolve" =>
                calls'[d].op = "resolve" /\ calls'[d].user = u
                  /\ calls'[d].seen = calls[d].seen \cup {role}
          BY <3>2, <3>3, <4>1 DEF CallRecord
        <4>3. calls[d].op = "handle" =>
                calls'[d].op = "handle" /\ calls'[d].role = calls[d].role
                  /\ calls'[d].seen = calls[d].seen \cup {role}
          BY <3>2, <3>3, <4>1 DEF CallRecord
        <4>4. QED
          BY <1>1, <1>2, <1>17, <2>1, <3>3, <4>2, <4>3 DEF SetRole, Informed
      <3>4. CASE ~(calls[d].op \in {"resolve", "handle"} /\ calls[d].user = u)
        <4>1. calls'[d] = calls[d]
          BY <1>1, <3>1, <3>4 DEF Witnessed
        <4>2. QED
          BY <1>1, <1>2, <1>17, <2>1, <3>4, <4>1 DEF SetRole, Informed
      <3>5. QED
        BY <3>3, <3>4
    <2>4. Informed(calls[c])'
      BY <1>1, <1>4, <1>17 DEF SetRole, Witnessed, Informed
    <2>5. QED
      BY <1>17, <2>2, <2>3, <2>4 DEF SetRole, RoleInv, Informed
  <1>18. ASSUME NEW c \in DOMAIN calls, QueryFails(c) PROVE RoleInv'
    BY <1>1, <1>3, <1>4, <1>18 DEF QueryFails, Ends
  <1>19. ASSUME NEW i \in DOMAIN sessions, Lapse(i) PROVE RoleInv'
    BY <1>19 DEF Lapse, RoleInv
  <1>20. CASE BootFind
    BY <1>3, <1>4, <1>20 DEF BootFind
  <1>21. CASE BootInsert
    BY <1>10, <1>21 DEF BootInsert
  <1>22. CASE BootLookup
    BY <1>3, <1>4, <1>22 DEF BootLookup, Ends
  <1>23. CASE Save
    BY <1>23 DEF Save, StoreNow, RoleInv
  <1>24. CASE Restart
    <2>1. \A c \in Slots \cup {Boot} : Started[c].op \in {"idle", "bootFind"}
      BY DEF Started, Idle
    <2>2. DOMAIN Started = Slots \cup {Boot}
      BY DEF Started
    <2>3. QED
      BY <1>24, <2>1, <2>2 DEF Restart, RoleInv
  <1>25. CASE UNCHANGED vars
    BY <1>25 DEF vars, RoleInv
  <1>26. QED
    BY <1>5, <1>6, <1>7, <1>8, <1>9, <1>11, <1>12, <1>13, <1>14, <1>15, <1>16, <1>17, <1>18, <1>19,
       <1>20, <1>21, <1>22, <1>23, <1>24, <1>25 DEF Next

LEMMA InitRoleInv == Init => RoleInv
  <1> SUFFICES ASSUME Init PROVE RoleInv
    OBVIOUS
  <1>1. \A c \in Slots \cup {Boot} : Started[c].op \in {"idle", "bootFind"}
    BY DEF Started, Idle
  <1>2. DOMAIN Started = Slots \cup {Boot}
    BY DEF Started
  <1>3. QED
    BY <1>1, <1>2 DEF Init, RoleInv

(* Whatever is changed between the queries of a request, it is handled     *)
(* under a role its user had since it came in, with the store as with      *)
(* Postgres, over failures and restarts.                                   *)
THEOREM RolesWereHeld == Spec => []ServedRoleWasHeld
  <1>1. RoleInv => ServedRoleWasHeld
    BY DEF RoleInv, ServedRoleWasHeld
  <1>2. QED
    BY InitTypeInv, NextTypeInv, InitRoleInv, NextRoleInv, <1>1, PTL DEF Spec
-----------------------------------------------------------------------------
(* With accounts in the store, one handler at a time.                      *)

(* The call of a step has the process to itself, before and after it.      *)
Solo(c) == \A d \in DOMAIN calls \ {c} : calls[d] = Idle /\ calls'[d] = Idle

LEMMA StepsRunAlone ==
  ASSUME TypeInv, [Next]_vars, ~Restart, backend = "memory"
  PROVE  /\ DOMAIN calls' = DOMAIN calls
         /\ UNCHANGED calls \/ \E c \in DOMAIN calls : Solo(c)
  <1>1. DOMAIN calls = Slots \cup {Boot} /\ Idle.op = "idle"
    BY DEF TypeInv, TypeOK, Idle
  <1>2. ASSUME NEW c \in Slots \cup {Boot}, NEW k, RunsAlone(c), calls' = [calls EXCEPT ![c] = k]
        PROVE  DOMAIN calls' = DOMAIN calls /\ Solo(c)
    BY <1>1, <1>2 DEF RunsAlone, Solo
  <1>3. ASSUME NEW c \in Slots, NEW u \in DOMAIN users, NEW role \in Roles, SetRole(c, u, role)
        PROVE  DOMAIN calls' = DOMAIN calls /\ Solo(c)
    BY <1>1, <1>3 DEF SetRole, Continues, RunsAlone, Witnessed, Solo
  <1>4. QED
    BY <1>1, <1>2, <1>3, ZenonT(60)
       DEF Next, vars, Register, Login, ResetPassword, RevokeSession, Present, CreateUser,
           CreateSession, UpdatePassword, RevokeAllSessions, ResolvePrincipal, Handle, QueryFails,
           Lapse, BootFind, BootInsert, BootLookup, Save, Begins, Continues, Ends

LEMMA BackendStays == ASSUME [Next]_vars PROVE backend' = backend
  BY DEF Next, vars, Register, Login, ResetPassword, RevokeSession, Present, CreateUser,
         CreateSession, UpdatePassword, RevokeAllSessions, ResolvePrincipal, Handle, SetRole,
         QueryFails, Lapse, BootFind, BootInsert, BootLookup, Save, Restart

(* The process starts with the bootstrap registration alone.               *)
LEMMA StartedFields ==
  /\ DOMAIN Started = Slots \cup {Boot}
  /\ \A c \in Slots \cup {Boot} : Started[c].op \in {"idle", "bootFind"}
  /\ \A c \in Slots \cup {Boot} : Started[c] # Idle => c = Boot
  BY DEF Started, Idle

-----------------------------------------------------------------------------
(* Emails. *)

OneEach(f) == \A u, v \in DOMAIN f : f[u].email = f[v].email => u = v

(* An email that a handler found free is still free when it inserts.       *)
EmailInv ==
  backend = "memory" =>
    /\ OneEach(users) /\ OneEach(saved.users)
    /\ \A c \in DOMAIN calls :
         /\ calls[c].op = "register" => ByEmail(calls[c].email) = {}
         /\ calls[c].op = "bootInsert" => ByEmail(BootEmail) = {}

(* As long as no account comes, an email has the accounts it had.          *)
LEMMA SameEmails ==
  ASSUME AccountsStay, registered' = registered, registered \in Nat, DOMAIN users' \subseteq Nat
  PROVE  DOMAIN users' = DOMAIN users /\ \A e : ByEmail(e)' = ByEmail(e)
  BY DEF AccountsStay, ByEmail

LEMMA NextEmailInv == TypeInv /\ TypeInv' /\ EmailInv /\ [Next]_vars => EmailInv'
  <1> SUFFICES ASSUME TypeInv, TypeInv', EmailInv, [Next]_vars, backend = "memory"
               PROVE  EmailInv'
    BY BackendStays DEF EmailInv
  <1>1. /\ DOMAIN calls = Slots \cup {Boot} /\ Idle.op = "idle"
        /\ registered \in Nat /\ DOMAIN users \subseteq 1..registered /\ DOMAIN users' \subseteq Nat
    BY ConstantsAssumption DEF TypeInv, TypeOK, Idle
  (* Nobody comes: the emails, and who was found free, are what they were. *)
  <1>2. ASSUME ~Restart, registered' = registered, saved'.users \in {saved.users, users},
               \A c \in DOMAIN calls :
                 \/ calls'[c] = calls[c]
                 \/ calls'[c].op \notin {"register", "bootInsert"}
                 \/ calls'[c].op = "register" /\ ByEmail(calls'[c].email) = {}
                 \/ calls'[c].op = "bootInsert" /\ ByEmail(BootEmail) = {}
        PROVE  EmailInv'
    <2>1. AccountsStay
      BY <1>2, AccountsStayPut
    <2>2. DOMAIN users' = DOMAIN users /\ \A e : ByEmail(e)' = ByEmail(e)
      BY <1>1, <1>2, <2>1, SameEmails
    <2>3. OneEach(users)' /\ OneEach(saved.users)'
      BY <1>2, <2>1, <2>2 DEF AccountsStay, OneEach, EmailInv
    <2>4. DOMAIN calls' = DOMAIN calls
      BY <1>1, <1>2, StepsRunAlone
    <2>5. ASSUME NEW c \in DOMAIN calls
          PROVE  (/\ calls[c].op = "register" => ByEmail(calls[c].email) = {}
                  /\ calls[c].op = "bootInsert" => ByEmail(BootEmail) = {})'
      BY <1>2, <2>2 DEF EmailInv, ByEmail
    <2>6. QED
      BY <2>3, <2>4, <2>5 DEF EmailInv
  (* An account comes, alone in the process and with an email found free. *)
  <1>3. ASSUME NEW c \in Slots \cup {Boot}, NEW email, NEW password, NEW role,
               Inserted(Account(email, password, role)), ByEmail(email) = {},
               RunsAlone(c), Ends(c), saved' = saved
        PROVE  EmailInv'
    <2>1. OneEach(users)'
      BY <1>1, <1>3 DEF Inserted, Account, ByEmail, OneEach, EmailInv
    <2>2. DOMAIN calls' = DOMAIN calls /\ \A d \in DOMAIN calls : calls'[d] = Idle
      BY <1>1, <1>3 DEF RunsAlone, Ends
    <2>3. QED
      BY <1>1, <1>3, <2>1, <2>2 DEF EmailInv
  <1>4. ASSUME NEW c \in Slots, CreateUser(c) PROVE EmailInv'
    <2>1. ByEmail(calls[c].email) = {} /\ RunsAlone(c)
      BY <1>1, <1>4 DEF CreateUser, Continues, EmailInv
    <2>2. QED
      BY <1>3, <1>4, <2>1 DEF CreateUser
  <1>5. CASE BootInsert
    <2>1. ByEmail(BootEmail) = {} /\ RunsAlone(Boot)
      BY <1>1, <1>5 DEF BootInsert, Continues, EmailInv
    <2>2. QED
      BY <1>3, <1>5, <2>1 DEF BootInsert
  <1>6. CASE Restart
    BY <1>1, <1>6, StartedFields DEF Restart, EmailInv
  <1>7. ASSUME NEW c \in Slots, NEW email \in Emails, NEW password \in Passwords,
               Register(c, email, password), ~Restart
        PROVE  EmailInv'
    BY <1>1, <1>2, <1>7 DEF Register, Begins
  <1>8. CASE BootFind /\ ~Restart
    BY <1>1, <1>2, <1>8 DEF BootFind
  <1>9. CASE UNCHANGED calls /\ ~Restart /\ registered' = registered
               /\ saved'.users \in {saved.users, users}
    BY <1>2, <1>9
  <1>10. ASSUME NEW c \in Slots \cup {Boot}, NEW k, k.op \notin {"register", "bootInsert"},
                calls' = [calls EXCEPT ![c] = k],
                ~Restart, registered' = registered, saved' = saved
         PROVE  EmailInv'
    BY <1>1, <1>2, <1>10
  <1>11. ASSUME NEW c \in Slots, NEW u \in DOMAIN users, NEW role \in Roles, SetRole(c, u, role),
                ~Restart
         PROVE  EmailInv'
    <2>1. \A d \in DOMAIN calls : calls'[d] = Idle
      BY <1>1, <1>11 DEF SetRole, Continues, RunsAlone, Witnessed
    <2>2. QED
      BY <1>1, <1>2, <1>11, <2>1 DEF SetRole
  <1>12. CASE Save /\ ~Restart
    BY <1>9, <1>12 DEF Save, StoreNow
  <1>13. ASSUME NEW c \in Slots, ~Restart,
                \/ CreateSession(c) \/ UpdatePassword(c) \/ RevokeAllSessions(c)
                \/ ResolvePrincipal(c) \/ Handle(c)
         PROVE  EmailInv'
    BY <1>1, <1>10, <1>13
       DEF CreateSession, UpdatePassword, RevokeAllSessions, ResolvePrincipal, Handle, Ends
  <1>14. ASSUME NEW c \in Slots, NEW email \in Emails, NEW password \in Passwords, ~Restart,
                Login(c, email, password) \/ ResetPassword(c, email, password)
         PROVE  EmailInv'
    BY <1>10, <1>14 DEF Login, ResetPassword, Begins
  <1>15. ASSUME NEW c \in Slots, NEW i \in DOMAIN sessions, ~Restart,
                RevokeSession(c, i) \/ Present(c, i)
         PROVE  EmailInv'
    BY <1>9, <1>10, <1>15 DEF RevokeSession, Present, Begins
  <1>16. CASE BootLookup /\ ~Restart
    BY <1>1, <1>10, <1>16 DEF BootLookup, Ends
  <1>17. ASSUME NEW c \in DOMAIN calls, QueryFails(c) PROVE EmailInv'
    BY <1>17 DEF QueryFails
  <1>18. ASSUME NEW i \in DOMAIN sessions, Lapse(i), ~Restart PROVE EmailInv'
    BY <1>9, <1>18 DEF Lapse
  <1>19. CASE UNCHANGED vars /\ ~Restart
    BY <1>9, <1>19 DEF vars
  <1>20. QED
    BY <1>4, <1>5, <1>6, <1>7, <1>8, <1>11, <1>12, <1>13, <1>14, <1>15, <1>16, <1>17, <1>18, <1>19
       DEF Next

LEMMA InitEmailInv == Init => EmailInv
  BY StartedFields DEF Init, EmailInv, OneEach

(* With accounts in the store no two ever have the same email, however     *)
(* registrations, the bootstrap and restarts follow on each other.         *)
THEOREM EmailsAreUnique == Spec => []OneAccountPerEmail
  <1>1. EmailInv => OneAccountPerEmail
    BY DEF EmailInv, OneEach, OneAccountPerEmail
  <1>2. QED
    BY InitTypeInv, NextTypeInv, InitEmailInv, NextEmailInv, <1>1, PTL DEF Spec
-----------------------------------------------------------------------------
(* Readiness. *)

(* Whoever is about to look the bootstrap account up will find it in the   *)
(* store; with Postgres it may have been somebody's guess.                 *)
ReadyInv ==
  /\ bootstrap = "ok" => ByEmail(BootEmail) # {}
  /\ backend = "memory" =>
       bootstrap # "failed" /\ (calls[Boot].op = "bootLookup" => ByEmail(BootEmail) # {})

LEMMA NextReadyInv == TypeInv /\ ReadyInv /\ [Next]_vars => ReadyInv'
  <1> SUFFICES ASSUME TypeInv, ReadyInv, [Next]_vars PROVE ReadyInv'
    OBVIOUS
  <1>1. DOMAIN calls = Slots \cup {Boot} /\ Boot \notin Slots /\ Idle.op = "idle"
    BY ConstantsAssumption DEF TypeInv, TypeOK, Idle
  <1>2. CASE Restart
    <2>1. Started[Boot].op = "bootFind"
      BY DEF Started
    <2>2. QED
      BY <1>2, <2>1 DEF Restart, ReadyInv
  <1>3. ASSUME ~Restart PROVE ByEmail(BootEmail) # {} => ByEmail(BootEmail)' # {}
    BY <1>3, AccountsStayPut DEF AccountsStay, ByEmail
  (* The step of a request leaves the bootstrap where it is. *)
  <1>4. ASSUME ~Restart, bootstrap' = bootstrap,
               backend = "memory" => calls'[Boot] = calls[Boot] \/ calls'[Boot] = Idle
        PROVE  ReadyInv'
    BY <1>1, <1>3, <1>4, BackendStays DEF ReadyInv
  <1>5. CASE BootFind
    BY <1>1, <1>3, <1>5 DEF BootFind, ReadyInv, ByEmail
  <1>6. CASE BootInsert
    <2>1. registered + 1 \in ByEmail(BootEmail)'
      BY <1>6 DEF BootInsert, Inserted, Account, ByEmail
    <2>2. QED
      BY <1>1, <1>6, <2>1 DEF BootInsert, Ends, ReadyInv
  <1>7. CASE BootLookup
    BY <1>1, <1>7 DEF BootLookup, Continues, LookedUp, Ends, ReadyInv, ByEmail
  <1>8. ASSUME NEW c \in DOMAIN calls, QueryFails(c) PROVE ReadyInv'
    <2>1. bootstrap' = "ok" => bootstrap = "ok"
      BY <1>8 DEF QueryFails
    <2>2. QED
      BY <1>8, <2>1 DEF QueryFails, ReadyInv, ByEmail
  <1>9. ASSUME ~Restart, NEW c \in Slots, NEW u \in DOMAIN users, NEW role \in Roles,
               SetRole(c, u, role)
        PROVE  ReadyInv'
    <2>1. backend = "memory" => calls'[Boot] = Idle
      BY <1>1, <1>9 DEF SetRole, Continues, RunsAlone, Witnessed
    <2>2. QED
      BY <1>4, <1>9, <2>1 DEF SetRole
  <1>10. ASSUME ~Restart, NEW c \in Slots,
                \/ CreateUser(c) \/ CreateSession(c) \/ UpdatePassword(c) \/ RevokeAllSessions(c)
                \/ ResolvePrincipal(c) \/ Handle(c)
         PROVE  ReadyInv'
    BY <1>1, <1>4, <1>10
       DEF CreateUser, CreateSession, UpdatePassword, RevokeAllSessions, ResolvePrincipal, Handle,
           Ends
  <1>11. ASSUME ~Restart, NEW c \in Slots, NEW email \in Emails, NEW password \in Passwords,
                \/ Register(c, email, password) \/ Login(c, email, password)
                \/ ResetPassword(c, email, password)
         PROVE  ReadyInv'
    BY <1>1, <1>4, <1>11 DEF Register, Login, ResetPassword, Begins
  <1>12. ASSUME ~Restart, NEW c \in Slots, NEW i \in DOMAIN sessions,
                RevokeSession(c, i) \/ Present(c, i)
         PROVE  ReadyInv'
    BY <1>1, <1>4, <1>12 DEF RevokeSession, Present, Begins
  <1>13. ASSUME ~Restart, NEW i \in DOMAIN sessions, Lapse(i) PROVE ReadyInv'
    BY <1>4, <1>13 DEF Lapse
  <1>14. CASE (Save \/ UNCHANGED vars) /\ ~Restart
    BY <1>4, <1>14 DEF Save, vars
  <1>15. QED
    BY <1>2, <1>5, <1>6, <1>7, <1>8, <1>9, <1>10, <1>11, <1>12, <1>13, <1>14 DEF Next

LEMMA InitReadyInv == Init => ReadyInv
  <1>1. Started[Boot].op = "bootFind"
    BY DEF Started
  <1>2. QED
    BY <1>1 DEF Init, ReadyInv

(* Whenever the bootstrap counts as done the account is there, though its  *)
(* registration may have failed half-way or lost its answer; and with the  *)
(* store it never counts as failed.                                        *)
THEOREM ReadinessHolds == Spec => []ReadinessIsTruthful
  <1>1. ReadyInv => ReadinessIsTruthful
    BY DEF ReadyInv, ReadinessIsTruthful
  <1>2. QED
    BY InitTypeInv, NextTypeInv, InitReadyInv, NextReadyInv, <1>1, PTL DEF Spec

-----------------------------------------------------------------------------
(* Passwords of sessions. *)

(* The login of a session has the password of the account.                 *)
Fits(s, accounts) ==
  s.user \in DOMAIN accounts /\ s.login.password = accounts[s.user].password

Revoking(u) == \E c \in DOMAIN calls : calls[c].op = "revokeAll" /\ calls[c].user = u

(* An open session fits, unless a reset is about to revoke it; what a      *)
(* login has read is still true; and the journal was written between       *)
(* handlers.                                                               *)
PasswordInv ==
  backend = "memory" =>
    /\ \A i \in DOMAIN saved.sessions :
         ~saved.sessions[i].revoked => Fits(saved.sessions[i], saved.users)
    /\ \A i \in DOMAIN sessions :
         ~sessions[i].revoked =>
           /\ sessions[i].user \in DOMAIN users
           /\ Fits(sessions[i], users) \/ Revoking(sessions[i].user)
    /\ \A c \in DOMAIN calls :
         calls[c].op = "login" =>
           /\ calls[c].user \in DOMAIN users
           /\ calls[c].account.password = users[calls[c].user].password

LEMMA NextPasswordInv == TypeInv /\ TypeInv' /\ PasswordInv /\ [Next]_vars => PasswordInv'
  <1> SUFFICES ASSUME TypeInv, TypeInv', PasswordInv, [Next]_vars, backend = "memory"
               PROVE  PasswordInv'
    BY BackendStays DEF PasswordInv
  <1>1. /\ DOMAIN calls = Slots \cup {Boot} /\ Idle.op = "idle"
        /\ users \in [DOMAIN users -> UserRecord]
        /\ sessions \in [DOMAIN sessions -> SessionRecord]
    BY DEF TypeInv, TypeOK, Idle
  (* Passwords stay, sessions are not opened, nobody was about to revoke   *)
  (* and no login reads anything new.                                      *)
  <1>2. ASSUME saved' = saved,
               \A u \in DOMAIN users :
                 u \in DOMAIN users' /\ users'[u].password = users[u].password,
               sessions' = sessions,
               \A u : Revoking(u) => Revoking(u)',
               \A c \in DOMAIN calls' : calls'[c].op = "login" => calls'[c] = calls[c] /\ c \in DOMAIN calls
        PROVE  PasswordInv'
    BY <1>2 DEF PasswordInv, Fits
  (* One call changes, none of a reset. *)
  <1>3. ASSUME NEW c \in Slots \cup {Boot}, NEW k, RunsAlone(c), calls' = [calls EXCEPT ![c] = k],
               calls[c].op # "revokeAll"
        PROVE  /\ \A u : Revoking(u) => Revoking(u)'
               /\ DOMAIN calls' = DOMAIN calls
               /\ \A d \in DOMAIN calls' \ {c} : calls'[d] = calls[d]
               /\ calls'[c] = k
    BY <1>1, <1>3 DEF Revoking
  <1>4. ASSUME NEW c \in Slots \cup {Boot}, NEW k, RunsAlone(c), calls' = [calls EXCEPT ![c] = k],
               calls[c].op # "revokeAll", k.op # "login", UNCHANGED <<users, sessions, saved>>
        PROVE  PasswordInv'
    BY <1>2, <1>3, <1>4
  <1>5. ASSUME NEW c \in Slots, NEW email \in Emails, NEW password \in Passwords,
               Register(c, email, password) \/ ResetPassword(c, email, password)
        PROVE  PasswordInv'
    BY <1>1, <1>4, <1>5 DEF Register, ResetPassword, Begins
  <1>6. ASSUME NEW c \in Slots, NEW email \in Emails, NEW password \in Passwords,
               Login(c, email, password)
        PROVE  PasswordInv'
    <2>1. PICK u \in ByEmail(email) :
            Begins(c, [op |-> "login", user |-> u, account |-> users[u]])
      BY <1>6 DEF Login
    <2> DEFINE k == [op |-> "login", user |-> u, account |-> users[u]]
    <2>2. u \in DOMAIN users /\ k.user = u /\ k.account = users[u] /\ k.op = "login"
      BY <2>1 DEF ByEmail
    <2>3. calls' = [calls EXCEPT ![c] = k] /\ calls[c].op # "revokeAll" /\ RunsAlone(c)
      BY <1>1, <2>1 DEF Begins
    <2> HIDE DEF k
    <2>4. QED
      BY <1>3, <1>6, <2>2, <2>3 DEF Login, PasswordInv, Fits
  <1>7. ASSUME NEW c \in Slots, NEW i \in DOMAIN sessions, RevokeSession(c, i) PROVE PasswordInv'
    <2>1. /\ DOMAIN sessions' = DOMAIN sessions
          /\ \A n \in DOMAIN sessions :
               /\ sessions'[n].user = sessions[n].user /\ sessions'[n].login = sessions[n].login
               /\ sessions[n].revoked => sessions'[n].revoked
      BY <1>1, <1>7 DEF RevokeSession, SessionRecord
    <2>2. QED
      BY <1>7, <2>1 DEF RevokeSession, PasswordInv, Fits, Revoking
  <1>8. ASSUME NEW c \in Slots, NEW i \in DOMAIN sessions, Present(c, i) PROVE PasswordInv'
    <2> DEFINE k == [op |-> "resolve", user |-> sessions[i].user, session |-> i,
                     seen |-> RoleNow(sessions[i].user)]
    <2>1. k.op = "resolve"
      OBVIOUS
    <2>2. calls' = [calls EXCEPT ![c] = k] /\ calls[c].op # "revokeAll" /\ RunsAlone(c)
      BY <1>1, <1>8 DEF Present, Begins
    <2> HIDE DEF k
    <2>3. QED
      BY <1>4, <1>8, <2>1, <2>2 DEF Present
  <1>9. ASSUME NEW c \in Slots \cup {Boot}, NEW account, Inserted(account), RunsAlone(c), Ends(c),
               calls[c].op # "revokeAll", UNCHANGED <<sessions, saved>>
        PROVE  PasswordInv'
    <2>1. \A u \in DOMAIN users : u \in DOMAIN users' /\ users'[u] = users[u]
      BY <1>9 DEF Inserted, TypeInv, TypeOK
    <2>2. QED
      BY <1>1, <1>2, <1>3, <1>9, <2>1 DEF Ends
  <1>10. ASSUME NEW c \in Slots, CreateUser(c) PROVE PasswordInv'
    BY <1>9, <1>10 DEF CreateUser, Continues
  <1>11. ASSUME NEW c \in Slots, CreateSession(c) PROVE PasswordInv'
    <2> DEFINE s == [user |-> calls[c].user, login |-> calls[c].account, revoked |-> FALSE]
    <2>1. Fits(s, users)
      BY <1>1, <1>11 DEF CreateSession, Continues, PasswordInv, Fits
    <2>2. sessions' = [i \in DOMAIN sessions \cup {opened + 1} |->
                         IF i = opened + 1 THEN s ELSE sessions[i]]
      BY <1>11 DEF CreateSession
    <2> HIDE DEF s
    <2>3. calls[c].op # "revokeAll" /\ RunsAlone(c) /\ calls' = [calls EXCEPT ![c] = Idle]
      BY <1>11 DEF CreateSession, Continues, Ends
    <2>4. \A u : Revoking(u) => Revoking(u)'
      BY <1>3, <2>3
    <2>5. ASSUME NEW i \in DOMAIN sessions', ~sessions'[i].revoked
          PROVE  /\ sessions'[i].user \in DOMAIN users
                 /\ Fits(sessions'[i], users) \/ Revoking(sessions'[i].user)
      BY <2>1, <2>2, <2>5 DEF PasswordInv, Fits
    <2>6. \A d \in DOMAIN calls' : calls'[d].op = "login" => d \in DOMAIN calls /\ calls'[d] = calls[d]
      BY <1>1, <1>3, <2>3
    <2>7. QED
      BY <1>11, <2>4, <2>5, <2>6 DEF CreateSession, PasswordInv
  (* The sessions of the account fit no more, but are about to be revoked. *)
  <1>12. ASSUME NEW c \in Slots, UpdatePassword(c) PROVE PasswordInv'
    <2> DEFINE k == [op |-> "revokeAll", user |-> calls[c].user]
    <2>1. /\ calls[c].op # "revokeAll" /\ RunsAlone(c)
          /\ calls' = [calls EXCEPT ![c] = k]
      BY <1>12 DEF UpdatePassword, Continues
    <2>2. k.op = "revokeAll" /\ k.user = calls[c].user
      OBVIOUS
    <2> HIDE DEF k
    <2>3. /\ \A u : Revoking(u) => Revoking(u)'
          /\ Revoking(calls[c].user)'
      BY <1>1, <1>3, <2>1, <2>2 DEF Revoking
    <2>4. /\ DOMAIN users' = DOMAIN users
          /\ \A u \in DOMAIN users : u # calls[c].user => users'[u] = users[u]
      BY <1>12 DEF UpdatePassword
    <2>5. \A d \in DOMAIN calls' : calls'[d].op # "login"
      BY <1>1, <2>1, <2>2 DEF RunsAlone
    <2>6. QED
      BY <1>12, <2>3, <2>4, <2>5 DEF UpdatePassword, PasswordInv, Fits
  <1>13. ASSUME NEW c \in Slots, RevokeAllSessions(c) PROVE PasswordInv'
    <2>1. /\ DOMAIN sessions' = DOMAIN sessions
          /\ \A i \in DOMAIN sessions :
               /\ sessions'[i].user = sessions[i].user /\ sessions'[i].login = sessions[i].login
               /\ sessions'[i].revoked <=> sessions[i].revoked \/ sessions[i].user = calls[c].user
      BY <1>1, <1>13 DEF RevokeAllSessions, SessionsRevoked, SessionRecord
    <2>2. \A d \in DOMAIN calls : calls'[d] = Idle
      BY <1>1, <1>13 DEF RevokeAllSessions, Continues, RunsAlone, Ends
    <2>3. \A u : Revoking(u) => u = calls[c].user
      BY <1>1, <1>13 DEF RevokeAllSessions, Continues, RunsAlone, Revoking
    <2>4. DOMAIN calls' = DOMAIN calls
      BY <1>13 DEF RevokeAllSessions, Ends
    <2>5. QED
      BY <1>1, <1>13, <2>1, <2>2, <2>3, <2>4 DEF RevokeAllSessions, PasswordInv, Fits
  <1>14. ASSUME NEW c \in Slots, ResolvePrincipal(c) \/ Handle(c) PROVE PasswordInv'
    BY <1>1, <1>4, <1>14 DEF ResolvePrincipal, Handle, Continues, Ends
  <1>15. ASSUME NEW c \in Slots, NEW u \in DOMAIN users, NEW role \in Roles, SetRole(c, u, role)
         PROVE  PasswordInv'
    <2>1. \A v \in DOMAIN users : v \in DOMAIN users' /\ users'[v].password = users[v].password
      BY <1>1, <1>15 DEF SetRole, UserRecord
    <2>2. \A d \in DOMAIN calls : calls[d].op # "revokeAll"
      BY <1>1, <1>15 DEF SetRole, Continues, RunsAlone
    <2>3. DOMAIN calls' = DOMAIN calls /\ \A d \in DOMAIN calls : calls'[d] = Idle
      BY <1>1, <1>15 DEF SetRole, Continues, RunsAlone, Witnessed
    <2>4. QED
      BY <1>1, <1>2, <1>15, <2>1, <2>2, <2>3 DEF SetRole, Revoking
  <1>16. ASSUME NEW c \in DOMAIN calls, QueryFails(c) PROVE PasswordInv'
    BY <1>16 DEF QueryFails
  <1>17. ASSUME NEW i \in DOMAIN sessions, Lapse(i) PROVE PasswordInv'
    BY <1>17 DEF Lapse, PasswordInv, Fits, Revoking
  <1>18. CASE BootFind
    BY <1>4, <1>18 DEF BootFind, Continues
  <1>19. CASE BootInsert
    BY <1>9, <1>19 DEF BootInsert, Continues
  <1>20. CASE BootLookup
    BY <1>1, <1>4, <1>20 DEF BootLookup, Continues, Ends
  <1>21. CASE Save
    <2>1. \A u : ~Revoking(u)
      BY <1>1, <1>21 DEF Save, Revoking
    <2>2. QED
      BY <1>21, <2>1 DEF Save, StoreNow, PasswordInv, Fits, Revoking
  <1>22. CASE Restart
    BY <1>1, <1>22, StartedFields DEF Restart, PasswordInv, Fits, Revoking
  <1>23. CASE UNCHANGED vars
    BY <1>23 DEF vars, PasswordInv, Fits, Revoking
  <1>24. QED
    BY <1>5, <1>6, <1>7, <1>8, <1>10, <1>11, <1>12, <1>13, <1>14, <1>15, <1>16, <1>17, <1>18, <1>19,
       <1>20, <1>21, <1>22, <1>23 DEF Next

LEMMA InitPasswordInv == Init => PasswordInv
  BY StartedFields DEF Init, PasswordInv

(* With accounts in the store, whenever no handler is at work, every open  *)
(* session was opened with the password its account has, through resets,   *)
(* late logins and restarts from old journals.                             *)
THEOREM ResetsLeaveNoSession == Spec => []SessionsMatchPassword
  <1>1. PasswordInv => SessionsMatchPassword
    BY DEF PasswordInv, SessionsMatchPassword, Fits, Revoking, Idle
  <1>2. QED
    BY InitTypeInv, NextTypeInv, InitPasswordInv, NextPasswordInv, <1>1, PTL DEF Spec
=============================================================================
