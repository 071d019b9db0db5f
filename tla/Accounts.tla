------------------------------ MODULE Accounts ------------------------------
(***************************************************************************)
(* Users and their sessions: the handlers of AuthService,                  *)
(* AuthPasswordService, UsersService and AdminUsersService running         *)
(* concurrently.                                                           *)
(*                                                                         *)
(* A session is a row of refresh_tokens.  Its token is a signed JWT that   *)
(* is determined by the user, the role and the second it was signed in, so *)
(* that two tokens of one second are the same token.  The access token     *)
(* that comes with it is not looked up again: it lets a user in, and an    *)
(* administrator administer, whatever became of the row of the user.       *)
(*                                                                         *)
(* A request runs one statement at a time.  Outside the transactions of    *)
(* the administrator's handlers every statement commits by itself, and a   *)
(* request may fail between any two of them.                               *)
(***************************************************************************)
EXTENDS Integers, FiniteSets

CONSTANTS Requests,     \* the calls of one behaviour; each is made once
          Users,        \* people, each with one email address
          Passwords,
          Handlers,     \* the handlers clients call in this instance
          Alone,        \* those of them that clients call only while no other call runs
          EarlierIds,   \* keys of refresh_tokens that may be in use at the start
          MaxClock,     \* the last second of a behaviour
          Lifetime,     \* seconds a refresh token is valid, seven days in the code
          NoUser,       \* no row of users, no entity
          NoPassword,   \* the password of an account of Google
          NoToken,      \* no row of refresh_tokens, no token
          NoCall        \* the call of a request that serves none

AllHandlers == {"signup", "login", "google", "refresh", "logout", "reset",
                "changePassword", "profile", "suspend", "activate", "role"}

ASSUME AccountBounds == /\ MaxClock \in Nat /\ Lifetime \in Nat
                        /\ Handlers \subseteq AllHandlers
                        /\ IsFiniteSet(Users)

VARIABLES
    users,        \* table users
    linked,       \* the users with a row of Google in accounts
    tokens,       \* table refresh_tokens
    audit,        \* the latest records of a user in admin_actions
    clock,        \* the second
    adminAccess,  \* the users holding an access token of an administrator
    pc,           \* the next statement of a request
    call,         \* the handler and the arguments a request serves
    ent,          \* the user a request loaded
    new,          \* the token a request has signed
    cols          \* the columns save() found to differ from the user

tables == <<users, linked, tokens, audit>>
vars   == <<users, linked, tokens, audit, clock, adminAccess, pc, call, ent, new, cols>>

-----------------------------------------------------------------------------
Role     == {"USER", "ADMIN"}
Columns  == {"password", "role", "active"}
TokenIds == Requests \cup EarlierIds      \* a request inserts one row at most

User   == [password : Passwords \cup {NoPassword}, role : Role, active : BOOLEAN]
Token  == [user : Users, role : Role, iat : 0..MaxClock]
Record == [status : {"none", "USER_SUSPENDED", "USER_ACTIVATED"}, role : {"none"} \cup Role]

Call == [op : {"signup", "login", "reset", "changePassword"}, user : Users, password : Passwords]
   \cup [op : {"google"}, user : Users, linked : BOOLEAN]
   \cup [op : {"refresh"}, user : Users, id : TokenIds]
   \cup [op : {"profile", "suspend", "activate"}, user : Users]
   \cup [op : {"role"}, user : Users, role : Role]

ASSUME AccountNulls == /\ NoUser \notin User /\ NoToken \notin Token
                       /\ NoCall \notin Call /\ NoPassword \notin Passwords
                       /\ Requests \cap EarlierIds = {}

PC == {"idle", "done", "user", "create", "link", "purge", "expire", "rotate", "insert",
       "update", "revoke", "count", "select", "save", "commit"}

InFlight == {q \in Requests : pc[q] \notin {"idle", "done"}}

Live     == {id \in TokenIds : tokens[id] # NoToken}
TokensOf(u) == {id \in Live : tokens[id].user = u}

\* Mutant: a token dated by the moment it becomes valid, not the one it is signed.
SignedAhead(u, e) == [user |-> u, role |-> e.role, iat |-> clock + 1]

\* Without a nonce, what is signed depends on the user and the second only.
Signed(u, e) == [user |-> u, role |-> e.role, iat |-> clock]

\* The user a request saves: the one it loaded, with its change assigned.  The
\* name and the picture of "profile" are not columns of the model.
Saved(q) ==
    CASE call[q].op = "changePassword" -> [ent[q] EXCEPT !.password = call[q].password]
      [] call[q].op = "suspend" -> [ent[q] EXCEPT !.active = FALSE]
      [] call[q].op = "activate" -> [ent[q] EXCEPT !.active = TRUE]
      [] call[q].op = "role" -> [ent[q] EXCEPT !.role = call[q].role]
      [] OTHER -> ent[q]

\* TypeORM's save(entity): the columns that differ from the selected row.
Differing(row, e) ==
         (IF row.password # e.password THEN {"password"} ELSE {})
    \cup (IF row.role # e.role THEN {"role"} ELSE {})
    \cup (IF row.active # e.active THEN {"active"} ELSE {})

Patched(row, e, cs) ==
    [row EXCEPT !.password = IF "password" \in cs THEN e.password ELSE @,
                !.role     = IF "role" \in cs THEN e.role ELSE @,
                !.active   = IF "active" \in cs THEN e.active ELSE @]

-----------------------------------------------------------------------------
\* Some people have signed up, one is an administrator, all are active and may
\* hold an access token; sessions of theirs may be left.
Init ==
    /\ users \in [Users -> {NoUser} \cup
                    [password : Passwords \cup {NoPassword}, role : Role, active : {TRUE}]]
    /\ \E u \in Users : users[u] # NoUser /\ users[u].role = "ADMIN"
    /\ linked \in SUBSET {u \in Users : users[u] # NoUser}
    /\ \E earlier \in [EarlierIds -> {NoToken} \cup {t \in Token : t.iat = 0}] :
          tokens = [id \in TokenIds |-> IF id \in EarlierIds THEN earlier[id] ELSE NoToken]
    /\ \A id \in Live : /\ users[tokens[id].user] # NoUser
                        /\ users[tokens[id].user].role = tokens[id].role
                        /\ \A o \in Live : tokens[o].user = tokens[id].user => o = id
    /\ audit = [u \in Users |-> [status |-> "none", role |-> "none"]]
    /\ clock = 0
    /\ adminAccess = {u \in Users : users[u] # NoUser /\ users[u].role = "ADMIN"}
    /\ pc = [q \in Requests |-> "idle"]
    /\ call = [q \in Requests |-> NoCall]
    /\ ent = [q \in Requests |-> NoUser]
    /\ new = [q \in Requests |-> NoToken]
    /\ cols = [q \in Requests |-> {}]

-----------------------------------------------------------------------------
(* The first statement of each handler, a read.  A call refused there       *)
(* changes nothing and is not represented.                                  *)

Start(q, c, e, first) ==
    /\ pc[q] = "idle"
    /\ c.op \in Handlers
    /\ \A o \in InFlight : {c.op, call[o].op} \cap Alone = {}
    /\ pc'   = [pc EXCEPT ![q] = first]
    /\ call' = [call EXCEPT ![q] = c]
    /\ ent'  = [ent EXCEPT ![q] = e]
    /\ UNCHANGED <<tables, clock, adminAccess, new, cols>>

StartSignup(q) == \E u \in Users, p \in Passwords :
    /\ users[u] = NoUser
    /\ Start(q, [op |-> "signup", user |-> u, password |-> p], NoUser, "create")

\* The password is compared with the row that was read, however long that takes.
StartLogin(q) == \E u \in Users, p \in Passwords :
    /\ users[u] # NoUser /\ users[u].active /\ users[u].password = p
    /\ Start(q, [op |-> "login", user |-> u, password |-> p], users[u], "purge")

\* googleLogin: the account of the profile is looked up first.
StartGoogle(q) == \E u \in Users :
    Start(q, [op |-> "google", user |-> u, linked |-> u \in linked], NoUser, "user")

\* The client presents a token; a token without a row is refused.
StartRefresh(q) == \E id \in Live :
    Start(q, [op |-> "refresh", user |-> tokens[id].user, id |-> id], NoUser,
          IF clock > tokens[id].iat + Lifetime THEN "expire" ELSE "user")

\* Mutant: a reset for everyone with an email address.
StartResetAnyone(q) == \E u \in Users, p \in Passwords :
    /\ users[u] # NoUser
    /\ Start(q, [op |-> "reset", user |-> u, password |-> p], users[u], "update")

\* The holder of a verification token resets the password.
StartReset(q) == \E u \in Users, p \in Passwords :
    /\ users[u] # NoUser /\ users[u].password # NoPassword
    /\ Start(q, [op |-> "reset", user |-> u, password |-> p], users[u], "update")

\* The user knows the current password and chooses another.
StartChangePassword(q) == \E u \in Users, p \in Passwords :
    /\ users[u] # NoUser /\ users[u].password \notin {NoPassword, p}
    /\ Start(q, [op |-> "changePassword", user |-> u, password |-> p], users[u], "select")

\* updateProfile; uploadProfileImage too, whose upload to S3 lies between this
\* read and the save.
StartProfile(q) == \E u \in Users :
    /\ users[u] # NoUser
    /\ Start(q, [op |-> "profile", user |-> u], users[u], "select")

\* The guards look at the access token; nobody suspends himself or changes his
\* own role, but a suspended administrator may still activate himself.
Administers(u) == \E a \in adminAccess : a # u

StartSuspend(q) == \E u \in Users :
    /\ Administers(u) /\ users[u] # NoUser /\ users[u].active
    /\ Start(q, [op |-> "suspend", user |-> u], users[u], "select")

StartActivate(q) == \E u \in Users :
    /\ adminAccess # {} /\ users[u] # NoUser /\ ~users[u].active
    /\ Start(q, [op |-> "activate", user |-> u], users[u], "select")

StartRole(q) == \E u \in Users, r \in Role :
    /\ Administers(u) /\ users[u] # NoUser /\ users[u].role # r
    /\ Start(q, [op |-> "role", user |-> u, role |-> r], users[u],
             IF users[u].role = "ADMIN" THEN "count" ELSE "select")

-----------------------------------------------------------------------------
(* The later statements.                                                    *)

\* The answer of a request, or its failure.
Answer(q) ==
    /\ pc'   = [pc EXCEPT ![q] = "done"]
    /\ call' = [call EXCEPT ![q] = NoCall]
    /\ ent'  = [ent EXCEPT ![q] = NoUser]
    /\ new'  = [new EXCEPT ![q] = NoToken]
    /\ cols' = [cols EXCEPT ![q] = {}]

Refused(q) == Answer(q) /\ UNCHANGED <<tables, clock, adminAccess>>

\* A request goes on to its next statement with the user e.
Continue(q, e, following) ==
    /\ pc'  = [pc EXCEPT ![q] = following]
    /\ ent' = [ent EXCEPT ![q] = e]
    /\ UNCHANGED <<linked, audit, clock, adminAccess, call, cols>>

\* What follows once the user is known to be active.
AfterUser(c) == IF c.op = "refresh" THEN "rotate" ELSE IF c.linked THEN "purge" ELSE "link"

\* Mutant: a refresh that does not ask whether the user is active.
FindUserOfToken(q) ==
    LET row == users[call[q].user] IN
    /\ pc[q] = "user"
    /\ IF row # NoUser /\ (row.active \/ call[q].op = "refresh")
       THEN /\ Continue(q, row, AfterUser(call[q]))
            /\ UNCHANGED <<users, tokens, new>>
       ELSE IF row = NoUser /\ call[q].op = "google"
       THEN Continue(q, NoUser, "create") /\ UNCHANGED <<users, tokens, new>>
       ELSE Refused(q)

\* The user of a token, of an account of Google, or of its email address.
FindUser(q) ==
    LET row == users[call[q].user] IN
    /\ pc[q] = "user"
    /\ IF row # NoUser /\ row.active
       THEN /\ Continue(q, row, AfterUser(call[q]))
            /\ UNCHANGED <<users, tokens, new>>
       ELSE IF row = NoUser /\ call[q].op = "google"
       THEN Continue(q, NoUser, "create") /\ UNCHANGED <<users, tokens, new>>
       ELSE Refused(q)

\* The INSERT of a user: the email address is unique.
CreateUser(q) ==
    LET u == call[q].user
        e == [password |-> IF call[q].op = "signup" THEN call[q].password ELSE NoPassword,
              role |-> "USER", active |-> TRUE]
    IN  /\ pc[q] = "create"
        /\ IF users[u] # NoUser
           THEN Refused(q)
           ELSE /\ users' = [users EXCEPT ![u] = e]
                /\ Continue(q, e, "link")
                /\ UNCHANGED <<tokens, new>>

\* The INSERT of the account.  That of Google is unique; that of the email
\* address has no other row to meet, and the token of a signup is signed next.
LinkAccount(q) ==
    LET u == call[q].user
        signup == call[q].op = "signup" IN
    /\ pc[q] = "link"
    /\ IF ~signup /\ u \in linked
       THEN Refused(q)
       ELSE /\ linked' = IF signup THEN linked ELSE linked \cup {u}
            /\ pc' = [pc EXCEPT ![q] = IF signup THEN "insert" ELSE "purge"]
            /\ new' = IF signup THEN [new EXCEPT ![q] = Signed(u, ent[q])] ELSE new
            /\ UNCHANGED <<users, tokens, audit, clock, adminAccess, call, ent, cols>>

Without(ids) == [id \in TokenIds |-> IF id \in ids THEN NoToken ELSE tokens[id]]

\* A login ends the other sessions of the user, and signs a token.
PurgeTokens(q) ==
    LET u == call[q].user IN
    /\ pc[q] = "purge"
    /\ tokens' = Without(TokensOf(u))
    /\ new' = [new EXCEPT ![q] = Signed(u, ent[q])]
    /\ Continue(q, ent[q], "insert")
    /\ UNCHANGED users

\* Mutant: a refresh that leaves the old token.
RotateKeeping(q) ==
    /\ pc[q] = "rotate"
    /\ new' = [new EXCEPT ![q] = Signed(call[q].user, ent[q])]
    /\ Continue(q, ent[q], "insert")
    /\ UNCHANGED <<users, tokens>>

\* A refresh deletes the row it found, if it is still there, and signs a token.
RotateToken(q) ==
    /\ pc[q] = "rotate"
    /\ tokens' = Without({call[q].id})
    /\ new' = [new EXCEPT ![q] = Signed(call[q].user, ent[q])]
    /\ Continue(q, ent[q], "insert")
    /\ UNCHANGED users

\* A token past its lifetime is deleted and refused.
ExpireToken(q) ==
    /\ pc[q] = "expire"
    /\ tokens' = Without({call[q].id})
    /\ Answer(q)
    /\ UNCHANGED <<users, linked, audit, clock, adminAccess>>

\* saveRefreshToken, and the answer with both tokens.  The value is unique.
InsertToken(q) ==
    /\ pc[q] = "insert"
    /\ IF \E id \in Live : tokens[id] = new[q]
       THEN Refused(q)
       ELSE /\ tokens' = [tokens EXCEPT ![q] = new[q]]
            /\ adminAccess' = IF new[q].role = "ADMIN"
                              THEN adminAccess \cup {call[q].user} ELSE adminAccess
            /\ Answer(q)
            /\ UNCHANGED <<users, linked, audit, clock>>

\* logout: the row of the token the client presents, in one statement.
Logout(q) == \E id \in Live :
    /\ pc[q] = "idle" /\ "logout" \in Handlers
    /\ \A o \in InFlight : {"logout", call[o].op} \cap Alone = {}
    /\ tokens' = Without({id})
    /\ Answer(q)
    /\ UNCHANGED <<users, linked, audit, clock, adminAccess>>

\* resetPassword: UPDATE of the hash alone.
UpdatePassword(q) ==
    /\ pc[q] = "update"
    /\ users' = [users EXCEPT ![call[q].user].password = call[q].password]
    /\ Continue(q, ent[q], "revoke")
    /\ UNCHANGED <<tokens, new>>

\* resetPassword: every session of the user ends.
RevokeTokens(q) ==
    /\ pc[q] = "revoke"
    /\ tokens' = Without(TokensOf(call[q].user))
    /\ Answer(q)
    /\ UNCHANGED <<users, linked, audit, clock, adminAccess>>

Admins == {u \in Users : users[u] # NoUser /\ users[u].role = "ADMIN"}

\* changeUserRole: the last administrator keeps the role.
CountAdmins(q) ==
    /\ pc[q] = "count"
    /\ IF Cardinality(Admins) <= 1
       THEN Refused(q)
       ELSE Continue(q, ent[q], "select") /\ UNCHANGED <<users, tokens, new>>

AdminHandlers == {"suspend", "activate", "role"}

\* The SELECT of save(user).
SaveSelect(q) ==
    /\ pc[q] = "select"
    /\ cols' = [cols EXCEPT ![q] = Differing(users[call[q].user], Saved(q))]
    /\ pc' = [pc EXCEPT ![q] = IF call[q].op \in AdminHandlers THEN "commit" ELSE "save"]
    /\ UNCHANGED <<tables, clock, adminAccess, call, ent, new>>

\* The UPDATE of save(user).
SaveUpdate(q) ==
    users' = [users EXCEPT ![call[q].user] = Patched(@, Saved(q), cols[q])]

SaveUser(q) ==
    /\ pc[q] = "save"
    /\ SaveUpdate(q)
    /\ Answer(q)
    /\ UNCHANGED <<linked, tokens, audit, clock, adminAccess>>

\* Mutant: a change of role that is not recorded.
LoggedUnlessRole(q) ==
    [audit EXCEPT ![call[q].user] =
        CASE call[q].op = "suspend"  -> [@ EXCEPT !.status = "USER_SUSPENDED"]
          [] call[q].op = "activate" -> [@ EXCEPT !.status = "USER_ACTIVATED"]
          [] OTHER -> @]

\* createAdminAction: the latest record of its kind.
Logged(q) ==
    [audit EXCEPT ![call[q].user] =
        CASE call[q].op = "suspend"  -> [@ EXCEPT !.status = "USER_SUSPENDED"]
          [] call[q].op = "activate" -> [@ EXCEPT !.status = "USER_ACTIVATED"]
          [] call[q].op = "role"     -> [@ EXCEPT !.role = call[q].role]]

\* The transaction of an administrator's handler.  Its UPDATE locks the user,
\* which no other lock is waited for behind, and the rest of it reads nothing.
CommitDecision(q) ==
    /\ pc[q] = "commit"
    /\ SaveUpdate(q)
    /\ tokens' = IF call[q].op = "suspend" THEN Without(TokensOf(call[q].user)) ELSE tokens
    /\ audit' = Logged(q)
    /\ Answer(q)
    /\ UNCHANGED <<linked, clock, adminAccess>>

\* A statement fails, a transaction is rolled back, or the process ends.
Fail(q) == q \in InFlight /\ Refused(q)

Tick ==
    /\ clock < MaxClock
    /\ clock' = clock + 1
    /\ UNCHANGED <<tables, adminAccess, pc, call, ent, new, cols>>

Begin(q) ==
    \/ StartSignup(q) \/ StartLogin(q) \/ StartGoogle(q) \/ StartRefresh(q)
    \/ StartReset(q) \/ StartChangePassword(q) \/ StartProfile(q)
    \/ StartSuspend(q) \/ StartActivate(q) \/ StartRole(q) \/ Logout(q)

Advance(q) ==
    \/ FindUser(q) \/ CreateUser(q) \/ LinkAccount(q) \/ PurgeTokens(q) \/ RotateToken(q)
    \/ ExpireToken(q) \/ InsertToken(q) \/ UpdatePassword(q) \/ RevokeTokens(q)
    \/ CountAdmins(q) \/ SaveSelect(q) \/ SaveUser(q) \/ CommitDecision(q)

\* A behaviour may end once no request is running.
Quiet == InFlight = {} /\ UNCHANGED vars

Next == (\E q \in Requests : Begin(q) \/ Advance(q) \/ Fail(q)) \/ Tick \/ Quiet

Spec == Init /\ [][Next]_vars

-----------------------------------------------------------------------------
(***************************************************************************)
(* Properties                                                              *)
(***************************************************************************)

\* Every table and request has a value of its kind.
TypeOK ==
    /\ users \in [Users -> User \cup {NoUser}]
    /\ linked \subseteq Users
    /\ tokens \in [TokenIds -> Token \cup {NoToken}]
    /\ audit \in [Users -> Record]
    /\ clock \in 0..MaxClock
    /\ adminAccess \subseteq Users
    /\ pc \in [Requests -> PC]
    /\ call \in [Requests -> Call \cup {NoCall}]
    /\ ent \in [Requests -> User \cup {NoUser}]
    /\ new \in [Requests -> Token \cup {NoToken}]
    /\ cols \in [Requests -> SUBSET Columns]

\* As long as no administrator's decision on a user is on record, no handler
\* that saves a user it read earlier changes the role or the suspension
\* (admin-users.service.ts:141-157, users.service.ts:53,120).
DecisionsAreRecorded ==
    [][\A u \in Users : users[u] # NoUser =>
          /\ audit'[u].role = "none" => users'[u].role = users[u].role
          /\ audit'[u].status = "none" => users'[u].active = users[u].active]_vars

\* An account made by Google never gets a password and one with a password
\* never loses it, whichever stale user is written back and whatever accounts
\* are linked (auth-password.service.ts:49-53, users.service.ts:98-102).
SignInMethodStays ==
    [][\A u \in Users : users[u] # NoUser =>
          (users'[u].password = NoPassword <=> users[u].password = NoPassword)]_vars

Suspended(u) == users[u] # NoUser /\ ~users[u].active

\* A running request loaded the user, who was active then.
SeenActive(u) == \E q \in InFlight : call[q].user = u /\ ent[q] # NoUser /\ ent[q].active

\* The step gives the user a session.
Enters(u) == \E id \in TokenIds :
                 tokens'[id] \notin {tokens[id], NoToken} /\ tokens'[id].user = u

\* A suspended user whom no running request has seen active gets no new
\* session, by whichever way in (auth.service.ts:112,166,175,230).
NoNewSessionOnceSuspended ==
    [][\A u \in Users : Enters(u) /\ Suspended(u) => SeenActive(u)]_vars

\* A suspended user has no session (admin-users.service.ts:145).
SuspendedHasNoSession == \A u \in Users : Suspended(u) => TokensOf(u) = {}

\* A user has one session: a login ends the others, a refresh replaces it
\* (auth.service.ts:135, 235).
OneSessionPerUser == \A u \in Users : Cardinality(TokensOf(u)) <= 1

\* The status and the role of a user are those of the latest decisions on record.
DecisionsStand ==
    \A u \in Users :
        /\ audit[u].status = "USER_SUSPENDED" => ~users[u].active
        /\ audit[u].status = "USER_ACTIVATED" => users[u].active
        /\ audit[u].role # "none" => users[u].role = audit[u].role

\* There is always an administrator (admin-users.service.ts:211-220).
LastAdminStays == Admins # {}
=============================================================================
