-------------------------- MODULE Accounts_proofs --------------------------
(***************************************************************************)
(* Proofs about Accounts, for every number of requests, users, passwords   *)
(* and seconds and every set of handlers.  The inductive invariant says of *)
(* each running request that it is at a statement of its handler, with the *)
(* entity that handler accepts (Local), and that this entity still agrees  *)
(* with its row in what no decision on record has changed (Agrees).  As    *)
(* long as calls do not overlap, the entity is the row (Exact).            *)
(***************************************************************************)
EXTENDS MCAccounts, FiniteSetTheorems, TLAPS

\* The handlers that let a user in, and those that save a user.
Entrances == {"signup", "login", "google", "refresh"}
Savers    == {"changePassword", "profile"} \cup AdminHandlers

\* The handlers with a statement s.
Serves(op, s) ==
    /\ s \in {"create", "link"} => op \in {"signup", "google"}
    /\ s = "user" => op \in {"google", "refresh"}
    /\ s = "purge" => op \in {"login", "google"}
    /\ s \in {"expire", "rotate"} => op = "refresh"
    /\ s = "insert" => op \in Entrances
    /\ s \in {"update", "revoke"} => op = "reset"
    /\ s = "count" => op = "role"
    /\ s = "select" => op \in Savers
    /\ s = "save" => op \in {"changePassword", "profile"}
    /\ s = "commit" => op \in AdminHandlers

\* A request at statement s with call c, entity e and signed token t.
Local(c, e, t, s) ==
    /\ c \in Call
    /\ Serves(c.op, s)
    /\ s \in {"create", "user", "expire"} <=> e = NoUser
    /\ c.op \in Entrances /\ e # NoUser => e.active
    /\ c.op \in {"reset", "changePassword"} => e.password # NoPassword
    /\ s = "insert" => t \in Token /\ t.user = c.user

\* An entity agrees with its row in what no decision on record has changed.
Agrees(c, e) ==
    e # NoUser =>
        /\ users[c.user] # NoUser
        /\ audit[c.user].role = "none" => e.role = users[c.user].role
        /\ audit[c.user].status = "none" => e.active = users[c.user].active
        /\ e.password = NoPassword <=> users[c.user].password = NoPassword

RequestOK(q) == pc[q] \notin {"idle", "done"} =>
                   /\ Local(call[q], ent[q], new[q], pc[q])
                   /\ Agrees(call[q], ent[q])

IInv == TypeOK /\ \A q \in Requests : RequestOK(q)

\* What every step keeps of a row.
RowsKept ==
    \A u \in Users : users[u] # NoUser =>
        /\ users'[u] # NoUser
        /\ audit'[u].role = "none" => audit[u].role = "none" /\ users'[u].role = users[u].role
        /\ audit'[u].status = "none" =>
              audit[u].status = "none" /\ users'[u].active = users[u].active
        /\ users'[u].password = NoPassword <=> users[u].password = NoPassword

-----------------------------------------------------------------------------
(* What the helpers return.                                                 *)

\* The fields of a call, by its handler.
LEMMA CallFields ==
    ASSUME NEW c \in Call
    PROVE  /\ c.op \in AllHandlers
           /\ c.user \in Users
           /\ c.op \in {"signup", "login", "reset", "changePassword"} => c.password \in Passwords
           /\ c.op = "refresh" => c.id \in TokenIds
           /\ c.op = "role" => c.role \in Role
  BY DEF Call, AllHandlers

\* A running request serves a call, with an entity of the table if it has one.
LEMMA Running ==
    ASSUME IInv, NEW q \in Requests, pc[q] \notin {"idle", "done"}
    PROVE  /\ call[q] \in Call /\ call[q].user \in Users
           /\ ent[q] # NoUser => ent[q] \in User /\ users[call[q].user] \in User
           /\ Local(call[q], ent[q], new[q], pc[q])
           /\ Agrees(call[q], ent[q])
<1>1. Local(call[q], ent[q], new[q], pc[q]) /\ Agrees(call[q], ent[q])
  BY DEF IInv, RequestOK
<1>2. call[q] \in Call /\ call[q].user \in Users
  BY <1>1, CallFields DEF Local
<1>3. ent[q] # NoUser => ent[q] \in User /\ users[call[q].user] \in User
  BY <1>1, <1>2 DEF IInv, TypeOK, Agrees
<1> QED BY <1>1, <1>2, <1>3

\* A token is signed for its user, now.
LEMMA SignedTyped ==
    ASSUME TypeOK, NEW u \in Users, NEW e \in User
    PROVE  Signed(u, e) \in Token /\ Signed(u, e).user = u
  BY DEF TypeOK, Signed, Token, User

\* Deleting rows of refresh_tokens leaves a table, with no row that was not there.
LEMMA WithoutTyped ==
    ASSUME TypeOK, NEW ids
    PROVE  /\ Without(ids) \in [TokenIds -> Token \cup {NoToken}]
           /\ \A id \in TokenIds : Without(ids)[id] \in {tokens[id], NoToken}
  BY DEF TypeOK, Without

\* The user a request saves is the one it loaded, but for what the handler decides.
LEMMA SavedTyped ==
    ASSUME IInv, NEW q \in Requests, pc[q] \in {"select", "save", "commit"}
    PROVE  /\ Saved(q) \in User
           /\ call[q].op # "role" => Saved(q).role = ent[q].role
           /\ call[q].op \notin {"suspend", "activate"} => Saved(q).active = ent[q].active
           /\ Saved(q).password = NoPassword <=> ent[q].password = NoPassword
<1>1. /\ call[q] \in Call /\ ent[q] \in User
      /\ call[q].op = "changePassword" => ent[q].password # NoPassword
  BY Running DEF Local
<1>2. CASE call[q].op = "changePassword"
  <2>1. call[q].password \in Passwords /\ call[q].password # NoPassword
    BY <1>1, <1>2, CallFields, AccountNulls
  <2> QED BY <1>1, <1>2, <2>1 DEF Saved, User
<1>3. CASE call[q].op = "role"
  <2>1. call[q].role \in Role
    BY <1>1, <1>3, CallFields
  <2> QED BY <1>1, <1>3, <2>1 DEF Saved, User
<1>4. CASE call[q].op \in {"suspend", "activate"}
  BY <1>1, <1>4 DEF Saved, User
<1>5. CASE call[q].op \notin {"changePassword", "role", "suspend", "activate"}
  BY <1>1, <1>5 DEF Saved
<1> QED BY <1>2, <1>3, <1>4, <1>5

\* save() writes each column of the row, or of the user it saves.
LEMMA PatchedTyped ==
    ASSUME NEW row \in User, NEW e \in User, NEW cs
    PROVE  /\ Patched(row, e, cs) \in User
           /\ Patched(row, e, cs).role \in {row.role, e.role}
           /\ Patched(row, e, cs).active \in {row.active, e.active}
           /\ Patched(row, e, cs).password \in {row.password, e.password}
  BY DEF Patched, User

\* A decision is recorded for its user, and no record is taken back.
LEMMA LoggedTyped ==
    ASSUME IInv, NEW q \in Requests, pc[q] = "commit"
    PROVE  /\ Logged(q) \in [Users -> Record]
           /\ \A u \in Users : /\ Logged(q)[u].role = "none" => audit[u].role = "none"
                               /\ Logged(q)[u].status = "none" => audit[u].status = "none"
                               /\ u # call[q].user => Logged(q)[u] = audit[u]
           /\ call[q].op = "role" => Logged(q)[call[q].user].role # "none"
           /\ call[q].op \in {"suspend", "activate"} => Logged(q)[call[q].user].status # "none"
<1>1. /\ call[q] \in Call /\ call[q].user \in Users
      /\ call[q].op \in AdminHandlers
  BY Running DEF Local, Serves
<1>2. audit \in [Users -> Record]
  BY DEF IInv, TypeOK
<1>3. CASE call[q].op = "role"
  <2>1. call[q].role \in Role
    BY <1>1, <1>3, CallFields
  <2> QED BY <1>1, <1>2, <1>3, <2>1 DEF Logged, Record, Role
<1>4. CASE call[q].op = "suspend"
  BY <1>1, <1>2, <1>4 DEF Logged, Record
<1>5. CASE call[q].op = "activate"
  BY <1>1, <1>2, <1>5 DEF Logged, Record
<1> QED BY <1>1, <1>3, <1>4, <1>5 DEF AdminHandlers

-----------------------------------------------------------------------------
(* Frames: what a step leaves alone.                                        *)

\* The tables and the clock, and the state of the requests, are well-typed.
TablesTyped ==
    /\ users \in [Users -> User \cup {NoUser}]
    /\ linked \subseteq Users
    /\ tokens \in [TokenIds -> Token \cup {NoToken}]
    /\ audit \in [Users -> Record]
    /\ clock \in 0..MaxClock
    /\ adminAccess \subseteq Users

RequestsTyped ==
    /\ pc \in [Requests -> PC]
    /\ call \in [Requests -> Call \cup {NoCall}]
    /\ ent \in [Requests -> User \cup {NoUser}]
    /\ new \in [Requests -> Token \cup {NoToken}]
    /\ cols \in [Requests -> SUBSET Columns]

\* A step that changes neither a user nor a record keeps the rows.
LEMMA RowsUnchanged ==
    ASSUME UNCHANGED <<users, audit>>
    PROVE  RowsKept
  BY DEF RowsKept

\* A step of one request that keeps the rows leaves the other requests as they are.
LEMMA Preserved ==
    ASSUME IInv, NEW q \in Requests, TypeOK', RowsKept, RequestOK(q)',
           \A o \in Requests \ {q} : /\ pc'[o] = pc[o] /\ call'[o] = call[o]
                                     /\ ent'[o] = ent[o] /\ new'[o] = new[o]
    PROVE  IInv'
<1>1. ASSUME NEW o \in Requests \ {q}, pc[o] \notin {"idle", "done"}
      PROVE  /\ Local(call[o], ent[o], new[o], pc[o])'
             /\ Agrees(call[o], ent[o])'
  <2>1. Local(call[o], ent[o], new[o], pc[o]) /\ Agrees(call[o], ent[o])
    BY <1>1 DEF IInv, RequestOK
  <2>2. pc'[o] = pc[o] /\ call'[o] = call[o] /\ ent'[o] = ent[o] /\ new'[o] = new[o]
    BY <1>1
  <2>3. call[o].user \in Users
    BY <2>1, CallFields DEF Local
  <2>4. Agrees(call[o], ent[o])'
    BY <2>1, <2>2, <2>3 DEF Agrees, RowsKept
  <2> QED BY <2>1, <2>2, <2>4 DEF Local, Serves
<1>2. ASSUME NEW o \in Requests \ {q} PROVE RequestOK(o)'
  BY <1>1, <1>2 DEF RequestOK
<1> QED BY <1>2 DEF IInv

\* A request is answered, or fails.
LEMMA AnswerPreserves ==
    ASSUME IInv, NEW q \in Requests, Answer(q), RowsKept, TablesTyped'
    PROVE  IInv'
<1>1. RequestsTyped'
  BY DEF IInv, TypeOK, RequestsTyped, Answer, PC
<1>2. pc'[q] = "done"
  BY DEF IInv, TypeOK, Answer
<1>3. RequestOK(q)'
  BY <1>2 DEF RequestOK
<1>4. \A o \in Requests \ {q} : /\ pc'[o] = pc[o] /\ call'[o] = call[o]
                                /\ ent'[o] = ent[o] /\ new'[o] = new[o]
  BY DEF IInv, TypeOK, Answer
<1>5. TypeOK'
  BY <1>1 DEF TypeOK, TablesTyped, RequestsTyped
<1> QED BY <1>3, <1>4, <1>5, Preserved

\* A call that is refused changes nothing.
LEMMA RefusedPreserves ==
    ASSUME IInv, NEW q \in Requests, Refused(q)
    PROVE  IInv' /\ RowsKept
<1>1. RowsKept
  BY RowsUnchanged DEF Refused, tables
<1>2. TablesTyped'
  BY DEF IInv, TypeOK, TablesTyped, Refused, tables
<1> QED BY <1>1, <1>2, AnswerPreserves DEF Refused

\* A call starts at a statement of its handler, with the row it read.
LEMMA StartPreserves ==
    ASSUME IInv, NEW q \in Requests, NEW c, NEW e, NEW first \in PC \ {"idle", "done"},
           Start(q, c, e, first), Local(c, e, new[q], first),
           e \in {NoUser, users[c.user]}
    PROVE  IInv' /\ RowsKept
<1>1. RowsKept
  BY RowsUnchanged DEF Start, tables
<1>2. c \in Call /\ c.user \in Users
  BY CallFields DEF Local
<1>3. e \in User \cup {NoUser}
  BY <1>2 DEF IInv, TypeOK
<1>4. TypeOK'
  BY <1>2, <1>3 DEF IInv, TypeOK, Start, tables
<1>5. pc'[q] = first /\ call'[q] = c /\ ent'[q] = e /\ new' = new /\ users' = users /\ audit' = audit
  BY DEF IInv, TypeOK, Start, tables
<1>6. Local(call[q], ent[q], new[q], pc[q])'
  BY <1>5 DEF Local, Serves
<1>7. Agrees(call[q], ent[q])'
  BY <1>5 DEF Agrees
<1>8. RequestOK(q)'
  BY <1>6, <1>7 DEF RequestOK
<1>9. \A o \in Requests \ {q} : /\ pc'[o] = pc[o] /\ call'[o] = call[o]
                                /\ ent'[o] = ent[o] /\ new'[o] = new[o]
  BY DEF IInv, TypeOK, Start
<1> QED BY <1>1, <1>4, <1>8, <1>9, Preserved

\* A request goes on to the statement s with the entity e.
LEMMA ContinuePreserves ==
    ASSUME IInv, NEW q \in Requests, NEW e \in User \cup {NoUser}, NEW s \in PC,
           Continue(q, e, s), pc[q] \notin {"idle", "done"}, RowsKept,
           users' \in [Users -> User \cup {NoUser}],
           tokens' \in [TokenIds -> Token \cup {NoToken}],
           new' = new \/ (\E t \in Token : new' = [new EXCEPT ![q] = t]),
           Local(call[q], e, new'[q], s),
           e # NoUser => /\ users'[call[q].user] # NoUser
                         /\ \/ e = ent[q]
                            \/ e = users'[call[q].user]
    PROVE  IInv'
<1>1. TypeOK'
  BY DEF IInv, TypeOK, Continue
<1>2. pc'[q] = s /\ call'[q] = call[q] /\ ent'[q] = e /\ audit' = audit
  BY DEF IInv, TypeOK, Continue
<1>3. Local(call[q], ent[q], new[q], pc[q])'
  BY <1>2 DEF Local, Serves
<1>4. Agrees(call[q], ent[q])'
  <2>1. call[q].user \in Users /\ Agrees(call[q], ent[q])
    BY Running
  <2> QED BY <1>2, <2>1 DEF Agrees, RowsKept
<1>5. RequestOK(q)'
  BY <1>3, <1>4 DEF RequestOK
<1>6. \A o \in Requests \ {q} : /\ pc'[o] = pc[o] /\ call'[o] = call[o]
                                /\ ent'[o] = ent[o] /\ new'[o] = new[o]
  BY DEF IInv, TypeOK, Continue
<1> QED BY <1>1, <1>5, <1>6, Preserved

-----------------------------------------------------------------------------
(* The steps.                                                               *)

\* Every call begins at a statement of its handler.
LEMMA BeginPreserves ==
    ASSUME IInv, NEW q \in Requests, Begin(q)
    PROVE  IInv' /\ RowsKept
<1> USE DEF PC, Local, Serves, Entrances, Savers, AdminHandlers
<1>1. users \in [Users -> User \cup {NoUser}]
  BY DEF IInv, TypeOK
<1>2. CASE StartSignup(q)
  <2>1. PICK u \in Users, p \in Passwords :
           Start(q, [op |-> "signup", user |-> u, password |-> p], NoUser, "create")
    BY <1>2 DEF StartSignup
  <2>2. [op |-> "signup", user |-> u, password |-> p] \in Call
    BY DEF Call
  <2> QED BY <2>1, <2>2, StartPreserves
<1>3. CASE StartLogin(q)
  <2>1. PICK u \in Users, p \in Passwords :
           /\ users[u] # NoUser /\ users[u].active
           /\ Start(q, [op |-> "login", user |-> u, password |-> p], users[u], "purge")
    BY <1>3 DEF StartLogin
  <2>2. [op |-> "login", user |-> u, password |-> p] \in Call
    BY DEF Call
  <2> QED BY <2>1, <2>2, StartPreserves
<1>4. CASE StartGoogle(q)
  <2>1. PICK u \in Users :
           Start(q, [op |-> "google", user |-> u, linked |-> u \in linked], NoUser, "user")
    BY <1>4 DEF StartGoogle
  <2>2. [op |-> "google", user |-> u, linked |-> u \in linked] \in Call
    <3>1. (u \in linked) \in BOOLEAN
      OBVIOUS
    <3> QED BY <3>1 DEF Call
  <2> QED BY <2>1, <2>2, StartPreserves
<1>5. CASE StartRefresh(q)
  <2>1. PICK id \in Live :
           Start(q, [op |-> "refresh", user |-> tokens[id].user, id |-> id], NoUser,
                 IF clock > tokens[id].iat + Lifetime THEN "expire" ELSE "user")
    BY <1>5 DEF StartRefresh
  <2>2. id \in TokenIds /\ tokens[id].user \in Users
    BY DEF Live, IInv, TypeOK, Token
  <2>3. [op |-> "refresh", user |-> tokens[id].user, id |-> id] \in Call
    BY <2>2 DEF Call
  <2>4. CASE clock > tokens[id].iat + Lifetime
    BY <2>1, <2>3, <2>4, StartPreserves
  <2>5. CASE ~(clock > tokens[id].iat + Lifetime)
    BY <2>1, <2>3, <2>5, StartPreserves
  <2> QED BY <2>4, <2>5
<1>6. CASE StartReset(q)
  <2>1. PICK u \in Users, p \in Passwords :
           /\ users[u] # NoUser /\ users[u].password # NoPassword
           /\ Start(q, [op |-> "reset", user |-> u, password |-> p], users[u], "update")
    BY <1>6 DEF StartReset
  <2>2. [op |-> "reset", user |-> u, password |-> p] \in Call
    BY DEF Call
  <2> QED BY <2>1, <2>2, StartPreserves
<1>7. CASE StartChangePassword(q)
  <2>1. PICK u \in Users, p \in Passwords :
           /\ users[u] # NoUser /\ users[u].password # NoPassword
           /\ Start(q, [op |-> "changePassword", user |-> u, password |-> p], users[u], "select")
    BY <1>7 DEF StartChangePassword
  <2>2. [op |-> "changePassword", user |-> u, password |-> p] \in Call
    BY DEF Call
  <2> QED BY <2>1, <2>2, StartPreserves
<1>8. CASE StartProfile(q)
  <2>1. PICK u \in Users :
           users[u] # NoUser /\ Start(q, [op |-> "profile", user |-> u], users[u], "select")
    BY <1>8 DEF StartProfile
  <2>2. [op |-> "profile", user |-> u] \in Call
    BY DEF Call
  <2> QED BY <2>1, <2>2, StartPreserves
<1>9. CASE StartSuspend(q)
  <2>1. PICK u \in Users :
           users[u] # NoUser /\ Start(q, [op |-> "suspend", user |-> u], users[u], "select")
    BY <1>9 DEF StartSuspend
  <2>2. [op |-> "suspend", user |-> u] \in Call
    BY DEF Call
  <2> QED BY <2>1, <2>2, StartPreserves
<1>10. CASE StartActivate(q)
  <2>1. PICK u \in Users :
           users[u] # NoUser /\ Start(q, [op |-> "activate", user |-> u], users[u], "select")
    BY <1>10 DEF StartActivate
  <2>2. [op |-> "activate", user |-> u] \in Call
    BY DEF Call
  <2> QED BY <2>1, <2>2, StartPreserves
<1>11. CASE StartRole(q)
  <2>1. PICK u \in Users, r \in Role, s \in {"count", "select"} :
           users[u] # NoUser /\ Start(q, [op |-> "role", user |-> u, role |-> r], users[u], s)
    BY <1>11 DEF StartRole
  <2>2. [op |-> "role", user |-> u, role |-> r] \in Call
    BY DEF Call
  <2> QED BY <2>1, <2>2, StartPreserves
<1>12. CASE Logout(q)
  <2>1. PICK id \in Live : tokens' = Without({id})
    BY <1>12 DEF Logout
  <2>2. TablesTyped' /\ RowsKept
    BY <1>12, <2>1, WithoutTyped, RowsUnchanged DEF Logout, TablesTyped, IInv, TypeOK
  <2> QED BY <1>12, <2>2, AnswerPreserves DEF Logout
<1> QED
  BY <1>2, <1>3, <1>4, <1>5, <1>6, <1>7, <1>8, <1>9, <1>10, <1>11, <1>12 DEF Begin

\* The user of a call is found, refused, or to be created.
LEMMA FindUserPreserves ==
    ASSUME IInv, NEW q \in Requests, FindUser(q)
    PROVE  IInv' /\ RowsKept
<1> DEFINE row == users[call[q].user]
           s == AfterUser(call[q])
<1>1. /\ call[q].user \in Users /\ Local(call[q], ent[q], new[q], "user")
      /\ call[q].op \in {"google", "refresh"}
  BY Running DEF FindUser, Local, Serves
<1>2. users \in [Users -> User \cup {NoUser}] /\ tokens \in [TokenIds -> Token \cup {NoToken}]
  BY DEF IInv, TypeOK
<1>3. CASE row # NoUser /\ row.active
  <2>1. /\ Continue(q, row, s) /\ UNCHANGED <<users, tokens, new>>
    BY <1>3 DEF FindUser
  <2>2. row \in User
    BY <1>1, <1>2, <1>3
  <2>3. /\ s \in {"rotate", "purge", "link"}
        /\ call[q].op = "refresh" => s = "rotate"
        /\ call[q].op = "google" => s \in {"purge", "link"}
    BY <1>1 DEF AfterUser
  <2>4. Local(call[q], row, new[q], s)
    BY <1>1, <1>3, <2>3 DEF Local, Serves
  <2>5. RowsKept
    BY <2>1, RowsUnchanged DEF Continue
  <2> HIDE DEF s
  <2> QED BY <1>2, <1>3, <2>1, <2>2, <2>3, <2>4, <2>5, ContinuePreserves DEF FindUser, PC
<1>4. CASE row = NoUser /\ call[q].op = "google"
  <2>1. Continue(q, NoUser, "create") /\ UNCHANGED <<users, tokens, new>>
    BY <1>4 DEF FindUser
  <2>2. Local(call[q], NoUser, new[q], "create")
    BY <1>1, <1>4 DEF Local, Serves
  <2>3. RowsKept
    BY <2>1, RowsUnchanged DEF Continue
  <2> QED BY <1>2, <2>1, <2>2, <2>3, ContinuePreserves DEF FindUser, PC
<1>5. CASE ~(row # NoUser /\ row.active) /\ ~(row = NoUser /\ call[q].op = "google")
  BY <1>5, RefusedPreserves DEF FindUser
<1> QED BY <1>3, <1>4, <1>5

\* A new user is active, and the entity is its row.
LEMMA CreateUserPreserves ==
    ASSUME IInv, NEW q \in Requests, CreateUser(q)
    PROVE  IInv' /\ RowsKept
<1> DEFINE u == call[q].user
           e == [password |-> IF call[q].op = "signup" THEN call[q].password ELSE NoPassword,
                 role |-> "USER", active |-> TRUE]
<1>1. /\ call[q] \in Call /\ u \in Users /\ Local(call[q], ent[q], new[q], "create")
      /\ call[q].op \in {"signup", "google"}
  BY Running DEF CreateUser, Local, Serves
<1>2. e \in User /\ e.active
  <2>1. call[q].op = "signup" => call[q].password \in Passwords
    BY <1>1, CallFields
  <2> QED BY <2>1 DEF User, Role
<1> HIDE DEF e
<1>3. CASE users[u] # NoUser
  BY <1>3, RefusedPreserves DEF CreateUser
<1>4. CASE users[u] = NoUser
  <2>1. /\ users' = [users EXCEPT ![u] = e]
        /\ Continue(q, e, "link") /\ UNCHANGED <<tokens, new>>
    BY <1>4 DEF CreateUser, e
  <2>2. /\ users \in [Users -> User \cup {NoUser}]
        /\ tokens \in [TokenIds -> Token \cup {NoToken}]
    BY DEF IInv, TypeOK
  <2>3. RowsKept
    BY <1>4, <2>1, <2>2 DEF RowsKept, Continue
  <2>4. e # NoUser
    BY <1>2, AccountNulls
  <2>5. Local(call[q], e, new[q], "link")
    BY <1>1, <1>2, <2>4 DEF Local, Serves
  <2>6. users'[u] = e /\ users' \in [Users -> User \cup {NoUser}]
    BY <1>1, <1>2, <2>1, <2>2
  <2> QED BY <1>2, <2>1, <2>2, <2>3, <2>4, <2>5, <2>6, ContinuePreserves DEF CreateUser, PC
<1> QED BY <1>3, <1>4

\* An account is inserted, of Google or of the email address.
LEMMA LinkAccountPreserves ==
    ASSUME IInv, NEW q \in Requests, LinkAccount(q)
    PROVE  IInv' /\ RowsKept
<1> DEFINE u == call[q].user
           signup == call[q].op = "signup"
<1>1. /\ call[q].user \in Users /\ Local(call[q], ent[q], new[q], "link")
      /\ call[q].op \in {"signup", "google"} /\ ent[q] \in User
  BY Running DEF LinkAccount, Local, Serves
<1>2. CASE ~signup /\ u \in linked
  BY <1>2, RefusedPreserves DEF LinkAccount
<1>3. CASE signup \/ u \notin linked
  <2>1. /\ linked' = IF signup THEN linked ELSE linked \cup {u}
        /\ pc' = [pc EXCEPT ![q] = IF signup THEN "insert" ELSE "purge"]
        /\ new' = IF signup THEN [new EXCEPT ![q] = Signed(u, ent[q])] ELSE new
        /\ UNCHANGED <<users, tokens, audit, clock, adminAccess, call, ent, cols>>
    BY <1>3 DEF LinkAccount
  <2>2. Signed(u, ent[q]) \in Token /\ Signed(u, ent[q]).user = u
    BY <1>1, SignedTyped DEF IInv
  <2>3. TypeOK'
    BY <1>1, <2>1, <2>2 DEF IInv, TypeOK, PC
  <2>4. RowsKept
    BY <2>1, RowsUnchanged
  <2>5. /\ signup => pc'[q] = "insert" /\ new'[q] = Signed(u, ent[q])
        /\ ~signup => pc'[q] = "purge"
    BY <2>1 DEF IInv, TypeOK
  <2>6. Local(call[q], ent[q], new[q], pc[q])'
    BY <1>1, <2>1, <2>2, <2>5 DEF Local, Serves, Entrances
  <2>7. Agrees(call[q], ent[q])'
    <3>1. Agrees(call[q], ent[q])
      BY Running DEF LinkAccount
    <3> QED BY <2>1, <3>1 DEF Agrees
  <2>8. \A o \in Requests \ {q} : pc'[o] = pc[o] /\ new'[o] = new[o]
    BY <2>1 DEF IInv, TypeOK
  <2> QED BY <2>1, <2>3, <2>4, <2>6, <2>7, <2>8, Preserved DEF RequestOK
<1> QED BY <1>2, <1>3

\* A token is signed, once earlier tokens are deleted.
LEMMA SignPreserves ==
    ASSUME IInv, NEW q \in Requests, PurgeTokens(q) \/ RotateToken(q)
    PROVE  IInv' /\ RowsKept
<1>1. /\ call[q].user \in Users /\ ent[q] \in User
      /\ Local(call[q], ent[q], new[q], pc[q]) /\ Agrees(call[q], ent[q])
      /\ pc[q] \in {"purge", "rotate"}
  BY Running DEF PurgeTokens, RotateToken, Local
<1>2. /\ new' = [new EXCEPT ![q] = Signed(call[q].user, ent[q])]
      /\ Continue(q, ent[q], "insert") /\ UNCHANGED users
      /\ \E ids : tokens' = Without(ids)
  BY DEF PurgeTokens, RotateToken
<1>3. /\ Signed(call[q].user, ent[q]) \in Token
      /\ Signed(call[q].user, ent[q]).user = call[q].user
  BY <1>1, SignedTyped DEF IInv
<1>4. tokens' \in [TokenIds -> Token \cup {NoToken}]
  BY <1>2, WithoutTyped DEF IInv
<1>5. RowsKept
  BY <1>2, RowsUnchanged DEF Continue
<1>6. new'[q] = Signed(call[q].user, ent[q]) /\ users' \in [Users -> User \cup {NoUser}]
  BY <1>2 DEF IInv, TypeOK
<1>7. Local(call[q], ent[q], new'[q], "insert")
  BY <1>1, <1>3, <1>6 DEF Local, Serves, Entrances
<1>8. ent[q] # NoUser /\ users'[call[q].user] # NoUser
  BY <1>1, <1>2 DEF Local, Agrees
<1> QED BY <1>1, <1>2, <1>3, <1>4, <1>5, <1>6, <1>7, <1>8, ContinuePreserves DEF PC

\* The answers that only delete tokens, and the one that inserts one.
LEMMA TokenAnswerPreserves ==
    ASSUME IInv, NEW q \in Requests, ExpireToken(q) \/ InsertToken(q) \/ RevokeTokens(q)
    PROVE  IInv' /\ RowsKept
<1>1. CASE ExpireToken(q) \/ RevokeTokens(q)
  <2>1. /\ \E ids : tokens' = Without(ids)
        /\ Answer(q) /\ UNCHANGED <<users, linked, audit, clock, adminAccess>>
    BY <1>1 DEF ExpireToken, RevokeTokens
  <2>2. TablesTyped'
    BY <2>1, WithoutTyped DEF IInv, TypeOK, TablesTyped
  <2> QED BY <2>1, <2>2, RowsUnchanged, AnswerPreserves
<1>2. CASE InsertToken(q) /\ Refused(q)
  BY <1>2, RefusedPreserves
<1>3. CASE InsertToken(q) /\ ~Refused(q)
  <2>1. new[q] \in Token /\ call[q].user \in Users
    BY <1>3, Running DEF InsertToken, Local
  <2>2. /\ tokens' = [tokens EXCEPT ![q] = new[q]]
        /\ adminAccess' \in {adminAccess, adminAccess \cup {call[q].user}}
        /\ Answer(q) /\ UNCHANGED <<users, linked, audit, clock>>
    BY <1>3 DEF InsertToken
  <2>3. TablesTyped'
    BY <2>1, <2>2 DEF IInv, TypeOK, TablesTyped
  <2> QED BY <2>2, <2>3, RowsUnchanged, AnswerPreserves
<1> QED BY <1>1, <1>2, <1>3

\* A reset changes the password of a user who has one.
LEMMA UpdatePasswordPreserves ==
    ASSUME IInv, NEW q \in Requests, UpdatePassword(q)
    PROVE  IInv' /\ RowsKept
<1> DEFINE u == call[q].user
           row == [users[u] EXCEPT !.password = call[q].password]
<1>1. /\ call[q] \in Call /\ u \in Users /\ ent[q] \in User /\ users[u] \in User
      /\ Local(call[q], ent[q], new[q], "update") /\ Agrees(call[q], ent[q])
      /\ call[q].op = "reset"
  BY Running DEF UpdatePassword, Local, Serves
<1>2. call[q].password \in Passwords
  BY <1>1, CallFields
<1>3. /\ users' = [users EXCEPT ![u] = row]
      /\ Continue(q, ent[q], "revoke") /\ UNCHANGED <<tokens, new>>
  BY DEF UpdatePassword
<1>4. /\ row \in User /\ row.role = users[u].role /\ row.active = users[u].active
      /\ row.password = call[q].password
  BY <1>1, <1>2 DEF User
<1>5. row.password # NoPassword /\ users[u].password # NoPassword
  BY <1>1, <1>2, <1>4, AccountNulls DEF Local, Agrees
<1> HIDE DEF row
<1>6. /\ users \in [Users -> User \cup {NoUser}]
      /\ tokens \in [TokenIds -> Token \cup {NoToken}]
  BY DEF IInv, TypeOK
<1>7. row # NoUser
  BY <1>4, AccountNulls
<1>8. RowsKept
  BY <1>1, <1>3, <1>4, <1>5, <1>6, <1>7 DEF RowsKept, Continue
<1>9. users' \in [Users -> User \cup {NoUser}] /\ users'[u] # NoUser
  BY <1>1, <1>3, <1>4, <1>6, <1>7
<1>10. Local(call[q], ent[q], new[q], "revoke")
  BY <1>1 DEF Local, Serves
<1> QED BY <1>1, <1>3, <1>6, <1>8, <1>9, <1>10, ContinuePreserves DEF UpdatePassword, PC

\* The last administrator is refused, others are saved next.
LEMMA CountAdminsPreserves ==
    ASSUME IInv, NEW q \in Requests, CountAdmins(q)
    PROVE  IInv' /\ RowsKept
<1>1. CASE Refused(q)
  BY <1>1, RefusedPreserves
<1>2. CASE ~Refused(q)
  <2>1. /\ pc[q] = "count" /\ Continue(q, ent[q], "select") /\ UNCHANGED <<users, tokens, new>>
    BY <1>2 DEF CountAdmins
  <2>2. /\ ent[q] \in User /\ Agrees(call[q], ent[q]) /\ ent[q] # NoUser
        /\ Local(call[q], ent[q], new[q], "count") /\ call[q].op = "role"
    BY <2>1, Running DEF Local, Serves
  <2>3. Local(call[q], ent[q], new[q], "select")
    BY <2>2 DEF Local, Serves, Savers, AdminHandlers
  <2>4. /\ users \in [Users -> User \cup {NoUser}]
        /\ tokens \in [TokenIds -> Token \cup {NoToken}]
    BY DEF IInv, TypeOK
  <2>5. RowsKept
    BY <2>1, RowsUnchanged DEF Continue
  <2>6. users[call[q].user] # NoUser
    BY <2>2 DEF Agrees
  <2> QED BY <2>1, <2>2, <2>3, <2>4, <2>5, <2>6, ContinuePreserves DEF PC
<1> QED BY <1>1, <1>2

\* The SELECT of save() fixes the columns, and the UPDATE is next.
LEMMA SaveSelectPreserves ==
    ASSUME IInv, NEW q \in Requests, SaveSelect(q)
    PROVE  IInv' /\ RowsKept
<1> DEFINE D == Differing(users[call[q].user], Saved(q))
           s == IF call[q].op \in AdminHandlers THEN "commit" ELSE "save"
<1>1. /\ cols' = [cols EXCEPT ![q] = D] /\ pc' = [pc EXCEPT ![q] = s]
      /\ UNCHANGED <<tables, clock, adminAccess, call, ent, new>> /\ pc[q] = "select"
  BY DEF SaveSelect
<1>2. D \in SUBSET Columns
  BY DEF Differing, Columns
<1>3. Local(call[q], ent[q], new[q], "select") /\ Agrees(call[q], ent[q])
  BY <1>1, Running
<1>4. s \in {"commit", "save"} /\ Serves(call[q].op, s)
  BY <1>3 DEF Local, Serves, Savers
<1> HIDE DEF D, s
<1>5. TypeOK'
  BY <1>1, <1>2, <1>4 DEF IInv, TypeOK, tables, PC
<1>6. RowsKept
  BY <1>1, RowsUnchanged DEF tables
<1>7. /\ pc'[q] = s
      /\ \A o \in Requests \ {q} : pc'[o] = pc[o]
  BY <1>1 DEF IInv, TypeOK
<1>8. Local(call[q], ent[q], new[q], pc[q])'
  BY <1>1, <1>3, <1>4, <1>7 DEF Local, Serves
<1>9. Agrees(call[q], ent[q])'
  BY <1>1, <1>3 DEF Agrees, tables
<1> QED BY <1>1, <1>5, <1>6, <1>7, <1>8, <1>9, Preserved DEF RequestOK

\* What the UPDATE of save() leaves of the row: each column is that of the row
\* or of the entity, and a stale entity differs only in what is on record.
LEMMA UpdateKeeps ==
    ASSUME IInv, NEW q \in Requests, pc[q] \in {"save", "commit"}, SaveUpdate(q),
           audit' \in [Users -> Record],
           \A u \in Users : /\ audit'[u].role = "none" => audit[u].role = "none"
                            /\ audit'[u].status = "none" => audit[u].status = "none",
           call[q].op = "role" => audit'[call[q].user].role # "none",
           call[q].op \in {"suspend", "activate"} => audit'[call[q].user].status # "none"
    PROVE  users' \in [Users -> User \cup {NoUser}] /\ RowsKept
<1> DEFINE u == call[q].user
           row == Patched(users[u], Saved(q), cols[q])
<1>1. /\ u \in Users /\ ent[q] \in User /\ users[u] \in User
      /\ Agrees(call[q], ent[q]) /\ ent[q] # NoUser
  BY Running DEF Local
<1>2. users' = [users EXCEPT ![u] = row] /\ users \in [Users -> User \cup {NoUser}]
  BY DEF SaveUpdate, IInv, TypeOK
<1>3. Saved(q) \in User
  BY SavedTyped
<1>4. /\ row \in User
      /\ row.role \in {users[u].role, Saved(q).role}
      /\ row.active \in {users[u].active, Saved(q).active}
      /\ row.password \in {users[u].password, Saved(q).password}
  BY <1>1, <1>3, PatchedTyped
<1> HIDE DEF row
<1>5. row # NoUser
  BY <1>4, AccountNulls
<1>6. audit'[u].role = "none" => row.role = users[u].role
  BY <1>1, <1>4, SavedTyped DEF Agrees
<1>7. audit'[u].status = "none" => row.active = users[u].active
  BY <1>1, <1>4, SavedTyped DEF Agrees
<1>8. row.password = NoPassword <=> users[u].password = NoPassword
  BY <1>1, <1>4, SavedTyped DEF Agrees
<1>9. RowsKept
  BY <1>1, <1>2, <1>5, <1>6, <1>7, <1>8 DEF RowsKept
<1> QED BY <1>2, <1>4, <1>9

\* A user is saved.
LEMMA SaveUserPreserves ==
    ASSUME IInv, NEW q \in Requests, SaveUser(q)
    PROVE  IInv' /\ RowsKept
<1>1. call[q].op \in {"changePassword", "profile"} /\ audit \in [Users -> Record]
  BY Running DEF SaveUser, Local, Serves, IInv, TypeOK
<1>2. users' \in [Users -> User \cup {NoUser}] /\ RowsKept
  BY <1>1, UpdateKeeps DEF SaveUser
<1>3. TablesTyped'
  BY <1>2 DEF SaveUser, IInv, TypeOK, TablesTyped
<1> QED BY <1>2, <1>3, AnswerPreserves DEF SaveUser

\* A decision is saved and recorded.
LEMMA CommitDecisionPreserves ==
    ASSUME IInv, NEW q \in Requests, CommitDecision(q)
    PROVE  IInv' /\ RowsKept
<1>1. audit' = Logged(q) /\ SaveUpdate(q) /\ pc[q] = "commit" /\ Answer(q)
  BY DEF CommitDecision
<1>2. users' \in [Users -> User \cup {NoUser}] /\ RowsKept /\ audit' \in [Users -> Record]
  BY <1>1, LoggedTyped, UpdateKeeps
<1>3. tokens' \in [TokenIds -> Token \cup {NoToken}]
  BY WithoutTyped DEF CommitDecision, IInv, TypeOK
<1>4. TablesTyped'
  BY <1>2, <1>3 DEF CommitDecision, IInv, TypeOK, TablesTyped
<1> QED BY <1>1, <1>2, <1>4, AnswerPreserves

\* Every step preserves the invariant and keeps the rows.
LEMMA StepPreserves ==
    ASSUME IInv, [Next]_vars
    PROVE  IInv' /\ RowsKept
<1>1. ASSUME NEW q \in Requests, Begin(q) PROVE IInv' /\ RowsKept
  BY <1>1, BeginPreserves
<1>2. ASSUME NEW q \in Requests, Advance(q) PROVE IInv' /\ RowsKept
  BY <1>2, FindUserPreserves, CreateUserPreserves, LinkAccountPreserves, SignPreserves,
     TokenAnswerPreserves, UpdatePasswordPreserves, CountAdminsPreserves,
     SaveSelectPreserves, SaveUserPreserves, CommitDecisionPreserves DEF Advance
<1>3. ASSUME NEW q \in Requests, Fail(q) PROVE IInv' /\ RowsKept
  BY <1>3, RefusedPreserves DEF Fail
<1>4. CASE Tick
  <2>1. clock' \in 0..MaxClock
    BY <1>4, AccountBounds DEF Tick, IInv, TypeOK
  <2>2. TypeOK' /\ RowsKept
    BY <1>4, <2>1, RowsUnchanged DEF Tick, IInv, TypeOK, tables
  <2>3. ASSUME NEW q \in Requests PROVE RequestOK(q)'
    BY <1>4, <2>3 DEF Tick, IInv, RequestOK, Local, Agrees, tables
  <2> QED BY <2>2, <2>3 DEF IInv
<1>5. CASE UNCHANGED vars
  <2>1. TypeOK' /\ RowsKept
    BY <1>5, RowsUnchanged DEF vars, IInv, TypeOK
  <2>2. ASSUME NEW q \in Requests PROVE RequestOK(q)'
    BY <1>5, <2>2 DEF vars, IInv, RequestOK, Local, Agrees
  <2> QED BY <2>1, <2>2 DEF IInv
<1> QED BY <1>1, <1>2, <1>3, <1>4, <1>5 DEF Next, Quiet

-----------------------------------------------------------------------------
(* The theorems.                                                            *)

\* The invariant holds before the first call.
LEMMA InitIInv == Init => IInv
<1> SUFFICES ASSUME Init PROVE IInv
  OBVIOUS
<1>1. users \in [Users -> User \cup {NoUser}]
  BY DEF Init, User
<1>2. tokens \in [TokenIds -> Token \cup {NoToken}]
  BY DEF Init, TokenIds
<1>3. TypeOK
  BY <1>1, <1>2, AccountBounds DEF Init, TypeOK, Record, PC
<1> QED BY <1>3 DEF Init, IInv, RequestOK

\* The invariant holds in every reachable state.
LEMMA Invariant == Spec => []IInv
<1>1. IInv /\ [Next]_vars => IInv'
  BY StepPreserves
<1> QED BY InitIInv, <1>1, PTL DEF Spec

\* Every reachable state is well-typed: no handler reaches a statement without
\* the entity or the token this statement works on.
THEOREM TypeCorrect == Spec => []TypeOK
<1>1. IInv => TypeOK
  BY DEF IInv
<1> QED BY Invariant, <1>1, PTL

\* The role and the suspension of a user on whom no decision is on record never
\* change, however many stale entities are written back.
THEOREM Recorded == Spec => DecisionsAreRecorded
<1>1. IInv /\ [Next]_vars =>
        [\A u \in Users : users[u] # NoUser =>
            /\ audit'[u].role = "none" => users'[u].role = users[u].role
            /\ audit'[u].status = "none" => users'[u].active = users[u].active]_vars
  BY StepPreserves DEF RowsKept
<1> QED BY Invariant, <1>1, PTL DEF Spec, DecisionsAreRecorded

\* An account of Google never gets a password, and a password is never lost.
THEOREM SignInMethod == Spec => SignInMethodStays
<1>1. IInv /\ [Next]_vars =>
        [\A u \in Users : users[u] # NoUser =>
            (users'[u].password = NoPassword <=> users[u].password = NoPassword)]_vars
  BY StepPreserves DEF RowsKept
<1> QED BY Invariant, <1>1, PTL DEF Spec, SignInMethodStays

\* Only the INSERT of a token adds to refresh_tokens, and only a token of an
\* active user the request has seen.
LEMMA NewToken ==
    ASSUME IInv, [Next]_vars, NEW id \in TokenIds,
           tokens'[id] # NoToken, tokens'[id] # tokens[id]
    PROVE  \E q \in Requests : /\ q \in InFlight /\ call[q].user = tokens'[id].user
                               /\ ent[q] # NoUser /\ ent[q].active
<1>1. ASSUME NEW q \in Requests, Begin(q) PROVE tokens' = tokens \/ \E ids : tokens' = Without(ids)
  BY <1>1 DEF Begin, StartSignup, StartLogin, StartGoogle, StartRefresh, StartReset,
     StartChangePassword, StartProfile, StartSuspend, StartActivate, StartRole, Start,
     Logout, tables
<1>2. ASSUME NEW q \in Requests, Advance(q), ~InsertToken(q)
      PROVE  tokens' = tokens \/ \E ids : tokens' = Without(ids)
  BY <1>2 DEF Advance, FindUser, CreateUser, LinkAccount, PurgeTokens, RotateToken,
     ExpireToken, UpdatePassword, RevokeTokens, CountAdmins, SaveSelect, SaveUser,
     CommitDecision, Refused, tables
<1>3. ASSUME NEW q \in Requests, Fail(q) PROVE tokens' = tokens
  BY <1>3 DEF Fail, Refused, tables
<1>4. Tick \/ UNCHANGED vars => tokens' = tokens
  BY DEF Tick, vars, tables
<1>5. PICK q \in Requests : InsertToken(q)
  BY <1>1, <1>2, <1>3, <1>4, WithoutTyped DEF Next, Quiet, IInv
<1>6. tokens' = tokens \/ tokens' = [tokens EXCEPT ![q] = new[q]]
  BY <1>5 DEF InsertToken, Refused, tables
<1>7. pc[q] = "insert" /\ Local(call[q], ent[q], new[q], "insert")
  BY <1>5, Running DEF InsertToken
<1>8. tokens'[id] = new[q]
  BY <1>6 DEF IInv, TypeOK
<1> QED BY <1>7, <1>8 DEF Local, Serves, InFlight

\* A suspension lasts: a suspended user gets a new session only from a request
\* that saw the user active before.
THEOREM SuspensionLasts == Spec => NoNewSessionOnceSuspended
<1>1. IInv /\ [Next]_vars =>
        [\A u \in Users : Enters(u) /\ Suspended(u) => SeenActive(u)]_vars
  BY NewToken DEF Enters, SeenActive
<1> QED BY Invariant, <1>1, PTL DEF Spec, NoNewSessionOnceSuspended

-----------------------------------------------------------------------------
(* Calls that do not overlap.                                               *)

\* What holds of the tables between two calls.
AccountsOK ==
    /\ SuspendedHasNoSession /\ DecisionsStand /\ LastAdminStays
    /\ \A id \in Live : users[tokens[id].user] # NoUser
    /\ \A id, o \in Live : tokens[id].user = tokens[o].user => id = o
    /\ \A u \in Users : users[u] = NoUser => audit[u].status = "none" /\ audit[u].role = "none"

\* A request that runs alone has its user as it is, has ended the sessions that
\* the one it is about to insert replaces, and takes the role of an administrator
\* only from one of several.
Exact(q) ==
    LET u == call[q].user IN
    /\ ent[q] # NoUser /\ pc[q] # "revoke" => ent[q] = users[u]
    /\ pc[q] = "insert" \/ (pc[q] = "link" /\ call[q].op = "signup") => TokensOf(u) = {}
    /\ pc[q] \in {"user", "rotate"} /\ call[q].op = "refresh" => call[q].id \in TokensOf(u)
    /\ pc[q] \in {"select", "commit"} /\ call[q].op = "role" => Admins \ {u} # {}
    /\ pc[q] \in {"save", "commit"} => cols[q] = Differing(users[u], Saved(q))

\* Of a behaviour whose calls never overlap.
AloneOK ==
    /\ AccountsOK
    /\ \A q, o \in InFlight : q = o
    /\ \A q \in InFlight : Exact(q)

\* Deleting tokens is always right.
LEMMA FewerTokens ==
    ASSUME AccountsOK, UNCHANGED <<users, audit>>,
           \A id \in TokenIds : tokens'[id] \in {tokens[id], NoToken}
    PROVE  AccountsOK' /\ \A u : TokensOf(u)' \subseteq TokensOf(u)
<1>1. \A id \in Live' : id \in Live /\ tokens'[id] = tokens[id]
  BY DEF Live
<1>2. \A u : TokensOf(u)' \subseteq TokensOf(u)
  BY <1>1 DEF TokensOf
<1>3. SuspendedHasNoSession' /\ DecisionsStand' /\ LastAdminStays'
  BY <1>2 DEF AccountsOK, SuspendedHasNoSession, Suspended, DecisionsStand, LastAdminStays, Admins
<1> QED BY <1>1, <1>2, <1>3 DEF AccountsOK

\* A changed row of a user who exists is right when it agrees with the record,
\* a suspension ends the sessions, and an administrator is left.
LEMMA RowWritten ==
    ASSUME TypeOK, AccountsOK, NEW u \in Users, NEW row \in User, users'[u] = row,
           users'[u] # NoUser,
           \A v \in Users \ {u} : users'[v] = users[v],
           \A id \in TokenIds : tokens'[id] \in {tokens[id], NoToken},
           ~row.active => TokensOf(u)' = {},
           \A v \in Users \ {u} : audit'[v] = audit[v],
           audit'[u].status = "USER_SUSPENDED" => ~row.active,
           audit'[u].status = "USER_ACTIVATED" => row.active,
           audit'[u].role # "none" => row.role = audit'[u].role,
           row.role = "ADMIN" \/ Admins \ {u} # {}
    PROVE  AccountsOK'
<1>1. \A id \in Live' : id \in Live /\ tokens'[id] = tokens[id] /\ tokens[id].user \in Users
  BY DEF Live, TypeOK, Token
<1>2. \A v : TokensOf(v)' \subseteq TokensOf(v)
  BY <1>1 DEF TokensOf
<1>3. SuspendedHasNoSession'
  BY <1>2 DEF AccountsOK, SuspendedHasNoSession, Suspended
<1>4. DecisionsStand'
  BY DEF AccountsOK, DecisionsStand
<1>5. LastAdminStays'
  BY DEF AccountsOK, LastAdminStays, Admins
<1>6. \A id \in Live' : users'[tokens'[id].user] # NoUser
  BY <1>1 DEF AccountsOK
<1>7. \A id, o \in Live' : tokens'[id].user = tokens'[o].user => id = o
  BY <1>1 DEF AccountsOK
<1>8. \A v \in Users : users'[v] = NoUser => audit'[v].status = "none" /\ audit'[v].role = "none"
  BY DEF AccountsOK
<1> QED BY <1>3, <1>4, <1>5, <1>6, <1>7, <1>8 DEF AccountsOK

\* The requests other than q stay.
Frame(q) == \A o \in Requests \ {q} : pc'[o] = pc[o]

\* While no other request runs, it is enough that the one that steps is exact.
LEMMA AloneLocal ==
    ASSUME AloneOK, NEW q \in Requests, InFlight \subseteq {q}, Frame(q), AccountsOK',
           pc'[q] \in {"idle", "done"} \/ Exact(q)'
    PROVE  AloneOK'
<1>1. InFlight' \subseteq {q}
  BY DEF InFlight, Frame
<1>2. \A o \in InFlight' : Exact(o)'
  BY <1>1 DEF InFlight
<1> QED BY <1>1, <1>2 DEF AloneOK

\* After the last request has answered, only the tables matter.
LEMMA AloneAnswer ==
    ASSUME IInv, AloneOK, NEW q \in Requests, InFlight \subseteq {q}, Answer(q), AccountsOK'
    PROVE  AloneOK'
<1>1. Frame(q) /\ pc'[q] = "done"
  BY DEF IInv, TypeOK, Answer, Frame
<1> QED BY <1>1, AloneLocal

\* A refusal or a failure between two statements leaves the tables right.
LEMMA AloneRefused ==
    ASSUME IInv, AloneOK, NEW q \in Requests, InFlight \subseteq {q}, Refused(q)
    PROVE  AloneOK'
<1>1. AccountsOK'
  BY FewerTokens DEF Refused, tables, AloneOK
<1> QED BY <1>1, AloneAnswer DEF Refused

\* A call that starts alone has the row it read.
LEMMA AloneStart ==
    ASSUME IInv, AloneOK, InFlight = {}, NEW q \in Requests, NEW c, NEW e, NEW first,
           Start(q, c, e, first), e \in {NoUser, users[c.user]},
           first \notin {"insert", "link", "rotate", "save", "commit"},
           first = "user" /\ c.op = "refresh" => c.id \in TokensOf(c.user),
           first = "select" /\ c.op = "role" => Admins \ {c.user} # {}
    PROVE  AloneOK'
<1>1. UNCHANGED tables
  BY DEF Start
<1>2. Frame(q) /\ pc'[q] = first /\ call'[q] = c /\ ent'[q] = e
  BY DEF IInv, TypeOK, Start, Frame
<1>3. AccountsOK'
  BY <1>1, FewerTokens DEF AloneOK, tables
<1>4. TokensOf(c.user)' = TokensOf(c.user) /\ Admins' = Admins
  BY <1>1 DEF TokensOf, Live, Admins, tables
<1>5. Exact(q)'
  BY <1>1, <1>2, <1>4 DEF Exact, tables
<1> QED BY <1>2, <1>3, <1>5, AloneLocal

\* Every call that begins alone begins exact.
LEMMA AloneBegin ==
    ASSUME IInv, AloneOK, InFlight = {}, NEW q \in Requests, Begin(q)
    PROVE  AloneOK'
<1>1. ASSUME NEW c, NEW e, NEW first, Start(q, c, e, first), e \in {NoUser, users[c.user]},
             first \notin {"insert", "link", "rotate", "save", "commit"},
             c.op \notin {"refresh", "role"}
      PROVE  AloneOK'
  BY <1>1, AloneStart
<1>2. CASE StartSignup(q) \/ StartLogin(q) \/ StartReset(q) \/ StartChangePassword(q)
  <2>1. PICK op \in {"signup", "login", "reset", "changePassword"}, u \in Users, p \in Passwords,
             first \in {"create", "purge", "update", "select"} :
          \/ Start(q, [op |-> op, user |-> u, password |-> p], NoUser, first)
          \/ Start(q, [op |-> op, user |-> u, password |-> p], users[u], first)
    BY <1>2 DEF StartSignup, StartLogin, StartReset, StartChangePassword
  <2> DEFINE c == [op |-> op, user |-> u, password |-> p]
  <2>2. c.op = op /\ c.user = u
    OBVIOUS
  <2>3. Start(q, c, NoUser, first) \/ Start(q, c, users[c.user], first)
    BY <2>1
  <2> HIDE DEF c
  <2> QED BY <1>1, <2>2, <2>3
<1>3. CASE StartGoogle(q)
  <2>1. PICK u \in Users :
          Start(q, [op |-> "google", user |-> u, linked |-> u \in linked], NoUser, "user")
    BY <1>3 DEF StartGoogle
  <2> DEFINE c == [op |-> "google", user |-> u, linked |-> u \in linked]
  <2>2. c.op = "google"
    OBVIOUS
  <2>3. Start(q, c, NoUser, "user")
    BY <2>1
  <2> HIDE DEF c
  <2> QED BY <1>1, <2>2, <2>3
<1>4. CASE StartRefresh(q)
  <2>1. PICK id \in Live, first \in {"expire", "user"} :
          Start(q, [op |-> "refresh", user |-> tokens[id].user, id |-> id], NoUser, first)
    BY <1>4 DEF StartRefresh
  <2> DEFINE c == [op |-> "refresh", user |-> tokens[id].user, id |-> id]
  <2>2. c.op = "refresh" /\ c.id \in TokensOf(c.user)
    BY DEF TokensOf
  <2>3. Start(q, c, NoUser, first)
    BY <2>1
  <2> HIDE DEF c
  <2> QED BY <2>2, <2>3, AloneStart
<1>5. CASE StartProfile(q) \/ StartSuspend(q) \/ StartActivate(q)
  <2>1. PICK op \in {"profile", "suspend", "activate"}, u \in Users :
          Start(q, [op |-> op, user |-> u], users[u], "select")
    BY <1>5 DEF StartProfile, StartSuspend, StartActivate
  <2> DEFINE c == [op |-> op, user |-> u]
  <2>2. c.op = op /\ c.user = u
    OBVIOUS
  <2>3. Start(q, c, users[c.user], "select")
    BY <2>1
  <2> HIDE DEF c
  <2> QED BY <1>1, <2>2, <2>3
<1>6. CASE StartRole(q)
  <2>1. PICK u \in Users, r \in Role, first \in {"count", "select"} :
          /\ Start(q, [op |-> "role", user |-> u, role |-> r], users[u], first)
          /\ first = "select" => users[u].role # "ADMIN"
    BY <1>6 DEF StartRole
  <2> DEFINE c == [op |-> "role", user |-> u, role |-> r]
  <2>2. c.op = "role" /\ c.user = u
    OBVIOUS
  <2>3. first = "select" => Admins \ {u} # {}
    BY <2>1 DEF AloneOK, AccountsOK, LastAdminStays, Admins
  <2>4. Start(q, c, users[c.user], first)
    BY <2>1
  <2> HIDE DEF c
  <2> QED BY <2>2, <2>3, <2>4, AloneStart
<1>7. CASE Logout(q)
  <2>1. PICK ids : tokens' = Without(ids) /\ Answer(q) /\ UNCHANGED <<users, audit>>
    BY <1>7 DEF Logout
  <2>2. \A id \in TokenIds : tokens'[id] \in {tokens[id], NoToken}
    BY <2>1, WithoutTyped DEF IInv
  <2>3. AccountsOK'
    BY <2>1, <2>2, FewerTokens DEF AloneOK
  <2> QED BY <2>1, <2>3, AloneAnswer
<1> QED BY <1>2, <1>3, <1>4, <1>5, <1>6, <1>7 DEF Begin

\* A request that goes on leaves the others alone.
LEMMA ContinueFrame ==
    ASSUME IInv, NEW q \in Requests, NEW e, NEW s, Continue(q, e, s)
    PROVE  /\ Frame(q) /\ pc'[q] = s /\ ent'[q] = e /\ UNCHANGED <<call, cols, audit>>
  BY DEF IInv, TypeOK, Continue, Frame

\* The statements that let a user in, up to the INSERT of the token.
LEMMA AloneFindUser ==
    ASSUME IInv, AloneOK, NEW q \in InFlight, FindUser(q)
    PROVE  AloneOK'
<1>0. /\ q \in Requests /\ InFlight \subseteq {q} /\ Exact(q) /\ pc[q] = "user"
      /\ call[q].op \in {"google", "refresh"}
  BY Running DEF InFlight, AloneOK, FindUser, Local, Serves
<1> DEFINE row == users[call[q].user]
           s == AfterUser(call[q])
<1>1. CASE row # NoUser /\ row.active
  <2>1. Continue(q, row, s) /\ UNCHANGED <<users, tokens, new>>
    BY <1>1 DEF FindUser
  <2>2. /\ Frame(q) /\ pc'[q] = s /\ ent'[q] = row /\ UNCHANGED <<call, cols, audit>>
    BY <1>0, <2>1, ContinueFrame
  <2>3. AccountsOK'
    BY <2>1, <2>2, FewerTokens DEF AloneOK
  <2>4. /\ s \in {"rotate", "purge", "link"}
        /\ s = "link" => call[q].op = "google"
        /\ s = "rotate" => call[q].op = "refresh"
    BY <1>0 DEF AfterUser
  <2>5. TokensOf(call[q].user)' = TokensOf(call[q].user)
    BY <2>1, <2>2 DEF TokensOf, Live
  <2> HIDE DEF s
  <2>6. Exact(q)'
    BY <1>0, <2>1, <2>2, <2>4, <2>5 DEF Exact
  <2> QED BY <1>0, <2>2, <2>3, <2>6, AloneLocal
<1>2. CASE row = NoUser /\ call[q].op = "google"
  <2>1. Continue(q, NoUser, "create") /\ UNCHANGED <<users, tokens, new>>
    BY <1>2 DEF FindUser
  <2>2. /\ Frame(q) /\ pc'[q] = "create" /\ ent'[q] = NoUser /\ UNCHANGED <<call, cols, audit>>
    BY <1>0, <2>1, ContinueFrame
  <2>3. AccountsOK'
    BY <2>1, <2>2, FewerTokens DEF AloneOK
  <2>4. Exact(q)'
    BY <2>1, <2>2 DEF Exact
  <2> QED BY <1>0, <2>2, <2>3, <2>4, AloneLocal
<1>3. CASE Refused(q)
  BY <1>0, <1>3, AloneRefused
<1> QED BY <1>1, <1>2, <1>3 DEF FindUser

\* A new user has no session and no record, and is no administrator.
LEMMA AloneCreateUser ==
    ASSUME IInv, AloneOK, NEW q \in InFlight, CreateUser(q)
    PROVE  AloneOK'
<1> DEFINE u == call[q].user
           e == [password |-> IF call[q].op = "signup" THEN call[q].password ELSE NoPassword,
                 role |-> "USER", active |-> TRUE]
<1>0. /\ q \in Requests /\ InFlight \subseteq {q} /\ pc[q] = "create" /\ u \in Users
      /\ call[q].op \in {"google", "signup"} /\ call[q] \in Call
  BY Running DEF InFlight, AloneOK, CreateUser, Local, Serves
<1>1. CASE users[u] # NoUser
  BY <1>0, <1>1, AloneRefused DEF CreateUser
<1>2. CASE users[u] = NoUser
  <2>1. /\ users' = [users EXCEPT ![u] = e] /\ Continue(q, e, "link")
        /\ UNCHANGED <<tokens, new>>
    BY <1>2 DEF CreateUser
  <2>2. e \in User /\ e.active /\ e # NoUser
    <3>1. call[q].op = "signup" => call[q].password \in Passwords
      BY <1>0, CallFields
    <3>2. e \in User /\ e.active
      BY <1>0, <3>1 DEF User, Role
    <3> QED BY <3>2, AccountNulls
  <2>3. /\ Frame(q) /\ pc'[q] = "link" /\ ent'[q] = e /\ UNCHANGED <<call, cols, audit>>
    BY <1>0, <2>1, ContinueFrame
  <2>4. users'[u] = e /\ \A v \in Users \ {u} : users'[v] = users[v]
    BY <1>0, <2>1 DEF IInv, TypeOK
  <2>5. /\ TokensOf(u) = {} /\ TokensOf(u)' = TokensOf(u)
        /\ audit[u].status = "none" /\ audit[u].role = "none"
    <3>1. UNCHANGED TokensOf(u)
      BY <2>1, <2>3 DEF TokensOf, Live
    <3>2. TokensOf(u) = {}
      BY <1>2 DEF AloneOK, AccountsOK, TokensOf
    <3> QED BY <1>0, <1>2, <3>1, <3>2 DEF AloneOK, AccountsOK
  <2>6. Admins \ {u} # {}
    BY <1>2 DEF AloneOK, AccountsOK, LastAdminStays, Admins
  <2> HIDE DEF e
  <2>7. AccountsOK'
    BY <1>0, <2>1, <2>2, <2>3, <2>4, <2>5, <2>6, RowWritten DEF IInv, AloneOK
  <2>8. Exact(q)'
    BY <2>3, <2>4, <2>5 DEF Exact
  <2> QED BY <1>0, <2>3, <2>7, <2>8, AloneLocal
<1> QED BY <1>1, <1>2

\* The account; the token of a signup is signed for a user without a session.
LEMMA AloneLinkAccount ==
    ASSUME IInv, AloneOK, NEW q \in InFlight, LinkAccount(q)
    PROVE  AloneOK'
<1> DEFINE u == call[q].user
           signup == call[q].op = "signup"
           s == IF signup THEN "insert" ELSE "purge"
<1>0. /\ q \in Requests /\ InFlight \subseteq {q} /\ pc[q] = "link" /\ Exact(q)
  BY DEF InFlight, AloneOK, LinkAccount
<1>1. CASE ~signup /\ u \in linked
  BY <1>0, <1>1, AloneRefused DEF LinkAccount
<1>2. CASE signup \/ u \notin linked
  <2>1. /\ pc' = [pc EXCEPT ![q] = s]
        /\ UNCHANGED <<users, tokens, audit, call, ent, cols>>
    BY <1>2 DEF LinkAccount
  <2>2. Frame(q) /\ pc'[q] = s
    BY <1>0, <2>1 DEF IInv, TypeOK, Frame
  <2>3. AccountsOK'
    BY <2>1, FewerTokens DEF AloneOK
  <2>4. UNCHANGED TokensOf(u)
    BY <2>1 DEF TokensOf, Live
  <2>5. Exact(q)'
    BY <1>0, <2>1, <2>2, <2>4 DEF Exact
  <2> QED BY <1>0, <2>2, <2>3, <2>5, AloneLocal
<1> QED BY <1>1, <1>2

\* Signing a token ends the session it replaces.
LEMMA AloneSign ==
    ASSUME IInv, AloneOK, NEW q \in InFlight, PurgeTokens(q) \/ RotateToken(q)
    PROVE  AloneOK'
<1> DEFINE u == call[q].user
<1>0. /\ q \in Requests /\ InFlight \subseteq {q} /\ Exact(q) /\ ent[q] # NoUser
      /\ pc[q] \in {"purge", "rotate"} /\ (pc[q] = "rotate" => call[q].op = "refresh")
  BY Running DEF InFlight, AloneOK, PurgeTokens, RotateToken, Local, Serves
<1>1. PICK ids : tokens' = Without(ids) /\ TokensOf(u) \subseteq ids
  <2>1. CASE PurgeTokens(q)
    BY <2>1 DEF PurgeTokens
  <2>2. CASE RotateToken(q)
    <3>1. call[q].id \in TokensOf(u)
      BY <1>0, <2>2 DEF RotateToken, Exact
    <3>2. TokensOf(u) \subseteq {call[q].id}
      BY <3>1 DEF AloneOK, AccountsOK, TokensOf
    <3> QED BY <2>2, <3>2 DEF RotateToken
  <2> QED BY <2>1, <2>2
<1>2. /\ Frame(q) /\ pc'[q] = "insert" /\ ent'[q] = ent[q] /\ UNCHANGED <<call, users, audit>>
  BY <1>0, ContinueFrame DEF PurgeTokens, RotateToken
<1>3. \A id \in TokenIds : tokens'[id] \in {tokens[id], NoToken}
  BY <1>1, WithoutTyped DEF IInv
<1>4. AccountsOK'
  BY <1>2, <1>3, FewerTokens DEF AloneOK
<1>5. TokensOf(u)' = {}
  <2>1. \A id \in TokenIds : id \in ids => tokens'[id] = NoToken
    BY <1>1 DEF Without
  <2>2. TokensOf(u)' \subseteq TokensOf(u)
    BY <1>2, <1>3, FewerTokens DEF AloneOK
  <2>3. \A id \in TokensOf(u)' : id \in TokenIds /\ tokens'[id] # NoToken
    BY DEF TokensOf, Live
  <2> QED BY <1>1, <2>1, <2>2, <2>3
<1>6. Exact(q)'
  BY <1>0, <1>2, <1>5 DEF Exact
<1> QED BY <1>0, <1>2, <1>4, <1>6, AloneLocal

\* A token is inserted for an active user without a session.
LEMMA AloneInsertToken ==
    ASSUME IInv, AloneOK, NEW q \in InFlight, InsertToken(q)
    PROVE  AloneOK'
<1> DEFINE u == call[q].user
<1>0. /\ q \in Requests /\ InFlight \subseteq {q} /\ Exact(q) /\ pc[q] = "insert"
      /\ call[q].op \in Entrances /\ ent[q] # NoUser /\ ent[q].active
      /\ u \in Users /\ new[q] \in Token /\ new[q].user = u
  BY Running DEF InFlight, AloneOK, InsertToken, Local, Serves
<1>1. CASE Refused(q)
  BY <1>0, <1>1, AloneRefused
<1>2. CASE /\ tokens' = [tokens EXCEPT ![q] = new[q]] /\ Answer(q) /\ UNCHANGED <<users, audit>>
  <2>1. users[u] # NoUser /\ users[u].active /\ TokensOf(u) = {}
    BY <1>0 DEF Exact
  <2>2. /\ tokens'[q] = new[q] /\ \A id \in TokenIds \ {q} : tokens'[id] = tokens[id]
        /\ q \in TokenIds
    BY <1>0, <1>2 DEF IInv, TypeOK, TokenIds
  <2>3. \A id \in Live' : id = q \/ (id \in Live /\ tokens'[id] = tokens[id])
    BY <2>2 DEF Live
  <2>4. \A id \in Live : tokens[id].user # u
    BY <2>1 DEF TokensOf
  <2>5. SuspendedHasNoSession'
    <3>1. \A v \in Users \ {u} : TokensOf(v)' \subseteq TokensOf(v)
      BY <1>0, <2>2, <2>3 DEF TokensOf
    <3> QED BY <1>2, <2>1, <3>1 DEF AloneOK, AccountsOK, SuspendedHasNoSession, Suspended
  <2>6. DecisionsStand' /\ LastAdminStays'
    BY <1>2 DEF AloneOK, AccountsOK, DecisionsStand, LastAdminStays, Admins
  <2>7. \A id \in Live' : users'[tokens'[id].user] # NoUser
    BY <1>0, <1>2, <2>1, <2>2, <2>3 DEF AloneOK, AccountsOK
  <2>8. \A id, o \in Live' : tokens'[id].user = tokens'[o].user => id = o
    BY <1>0, <2>2, <2>3, <2>4 DEF AloneOK, AccountsOK
  <2>9. AccountsOK'
    BY <1>2, <2>5, <2>6, <2>7, <2>8 DEF AloneOK, AccountsOK
  <2> QED BY <1>0, <1>2, <2>9, AloneAnswer
<1> QED BY <1>1, <1>2 DEF InsertToken

\* Sessions end at the end of a call.
LEMMA AloneRevoke ==
    ASSUME IInv, AloneOK, NEW q \in InFlight, ExpireToken(q) \/ RevokeTokens(q)
    PROVE  AloneOK'
<1>1. PICK ids : tokens' = Without(ids) /\ Answer(q) /\ UNCHANGED <<users, audit>>
  BY DEF ExpireToken, RevokeTokens
<1>2. \A id \in TokenIds : tokens'[id] \in {tokens[id], NoToken}
  BY <1>1, WithoutTyped DEF IInv
<1>3. AccountsOK'
  BY <1>1, <1>2, FewerTokens DEF AloneOK
<1> QED BY <1>1, <1>3, AloneAnswer DEF AloneOK, InFlight

\* A reset touches neither the role nor the suspension.
LEMMA AloneUpdatePassword ==
    ASSUME IInv, AloneOK, NEW q \in InFlight, UpdatePassword(q)
    PROVE  AloneOK'
<1> DEFINE u == call[q].user
<1>0. /\ q \in Requests /\ InFlight \subseteq {q} /\ u \in Users /\ users[u] \in User
      /\ call[q] \in Call /\ call[q].op = "reset"
  BY Running DEF InFlight, AloneOK, UpdatePassword, Local, Serves
<1>1. PICK row : row = [users[u] EXCEPT !.password = call[q].password]
  OBVIOUS
<1>2. /\ row \in User /\ row.active = users[u].active /\ row.role = users[u].role
      /\ row # NoUser /\ users[u] # NoUser
  <2>1. call[q].password \in Passwords
    BY <1>0, CallFields
  <2>2. row \in User /\ row.active = users[u].active /\ row.role = users[u].role
    BY <1>0, <1>1, <2>1 DEF User
  <2> QED BY <1>0, <2>2, AccountNulls
<1>3. /\ Frame(q) /\ pc'[q] = "revoke" /\ UNCHANGED <<call, tokens, audit>>
  BY <1>0, ContinueFrame DEF UpdatePassword
<1>4. users'[u] = row /\ \A v \in Users \ {u} : users'[v] = users[v]
  BY <1>0, <1>1 DEF UpdatePassword, IInv, TypeOK
<1>5. ~row.active => TokensOf(u)' = {}
  BY <1>0, <1>2, <1>3 DEF AloneOK, AccountsOK, SuspendedHasNoSession, Suspended, TokensOf, Live
<1>6. /\ audit'[u].status = "USER_SUSPENDED" => ~row.active
      /\ audit'[u].status = "USER_ACTIVATED" => row.active
      /\ audit'[u].role # "none" => row.role = audit'[u].role
  BY <1>0, <1>2, <1>3 DEF AloneOK, AccountsOK, DecisionsStand
<1>7. row.role = "ADMIN" \/ Admins \ {u} # {}
  BY <1>2 DEF AloneOK, AccountsOK, LastAdminStays, Admins
<1>8. AccountsOK'
  BY <1>0, <1>2, <1>3, <1>4, <1>5, <1>6, <1>7, RowWritten DEF IInv, AloneOK
<1>9. Exact(q)'
  BY <1>3 DEF Exact
<1> QED BY <1>0, <1>3, <1>8, <1>9, AloneLocal

\* The count of administrators is that of the commit.
LEMMA AloneCountAdmins ==
    ASSUME IInv, AloneOK, NEW q \in InFlight, CountAdmins(q)
    PROVE  AloneOK'
<1>0. /\ q \in Requests /\ InFlight \subseteq {q} /\ Exact(q) /\ pc[q] = "count"
      /\ call[q].user \in Users
  BY Running DEF InFlight, AloneOK, CountAdmins
<1>1. CASE Cardinality(Admins) <= 1
  BY <1>0, <1>1, AloneRefused DEF CountAdmins
<1>2. CASE ~(Cardinality(Admins) <= 1)
  <2>1. Continue(q, ent[q], "select") /\ UNCHANGED <<users, tokens>>
    BY <1>2 DEF CountAdmins
  <2>2. Frame(q) /\ pc'[q] = "select" /\ ent'[q] = ent[q] /\ UNCHANGED <<call, audit>>
    BY <1>0, <2>1, ContinueFrame
  <2>3. AccountsOK'
    BY <2>1, <2>2, FewerTokens DEF AloneOK
  <2>4. Admins \ {call[q].user} # {}
    <3>1. SUFFICES ASSUME Admins \subseteq {call[q].user} PROVE FALSE
      OBVIOUS
    <3>2. Admins = {call[q].user}
      BY <3>1 DEF AloneOK, AccountsOK, LastAdminStays
    <3>3. Cardinality(Admins) = 1
      BY <3>2, FS_Singleton
    <3> QED BY <1>2, <3>3
  <2>5. UNCHANGED (Admins \ {call[q].user})
    BY <2>1, <2>2 DEF Admins
  <2>6. Exact(q)'
    BY <1>0, <2>1, <2>2, <2>4, <2>5 DEF Exact
  <2> QED BY <1>0, <2>2, <2>3, <2>6, AloneLocal
<1> QED BY <1>1, <1>2

\* The SELECT of save() reads the row the entity was read from.
LEMMA AloneSaveSelect ==
    ASSUME IInv, AloneOK, NEW q \in InFlight, SaveSelect(q)
    PROVE  AloneOK'
<1>0. q \in Requests /\ InFlight \subseteq {q} /\ Exact(q) /\ pc[q] = "select"
  BY DEF InFlight, AloneOK, SaveSelect
<1>1. /\ cols' = [cols EXCEPT ![q] = Differing(users[call[q].user], Saved(q))]
      /\ pc' = [pc EXCEPT ![q] = IF call[q].op \in AdminHandlers THEN "commit" ELSE "save"]
      /\ UNCHANGED <<users, tokens, audit, call, ent>>
  BY DEF SaveSelect, tables
<1>2. /\ Frame(q) /\ pc'[q] \in {"save", "commit"}
      /\ cols'[q] = Differing(users[call[q].user], Saved(q))
  BY <1>0, <1>1 DEF IInv, TypeOK, Frame
<1>3. AccountsOK'
  BY <1>1, FewerTokens DEF AloneOK
<1>4. UNCHANGED Saved(q) /\ UNCHANGED Admins
  BY <1>1 DEF Saved, Admins
<1>5. Exact(q)'
  BY <1>0, <1>1, <1>2, <1>4 DEF Exact
<1> QED BY <1>0, <1>2, <1>3, <1>5, AloneLocal

\* What an exact request saves becomes the row.
LEMMA SavedWhole ==
    ASSUME IInv, AloneOK, NEW q \in InFlight, pc[q] \in {"save", "commit"}, SaveUpdate(q)
    PROVE  /\ call[q].user \in Users /\ users[call[q].user] \in User /\ Saved(q) \in User
           /\ ent[q] = users[call[q].user] /\ Saved(q) # NoUser
           /\ users'[call[q].user] = Saved(q)
           /\ \A v \in Users \ {call[q].user} : users'[v] = users[v]
<1>0. /\ q \in Requests /\ Exact(q) /\ call[q].user \in Users /\ ent[q] # NoUser
      /\ users[call[q].user] \in User
  BY Running DEF InFlight, AloneOK, Local
<1>1. Saved(q) \in User /\ Saved(q) # NoUser /\ ent[q] = users[call[q].user]
  BY <1>0, SavedTyped, AccountNulls DEF Exact
<1>2. cols[q] = Differing(users[call[q].user], Saved(q))
  BY <1>0 DEF Exact
<1>3. /\ users'[call[q].user] = Patched(users[call[q].user], Saved(q), cols[q])
      /\ \A v \in Users \ {call[q].user} : users'[v] = users[v]
  BY <1>0 DEF SaveUpdate, IInv, TypeOK
<1>4. \A row, e \in User : Patched(row, e, Differing(row, e)) = e
  <2> SUFFICES ASSUME NEW row \in User, NEW e \in User
               PROVE  Patched(row, e, Differing(row, e)) = e
    OBVIOUS
  <2> DEFINE cs == Differing(row, e)
  <2>1. /\ (IF "password" \in cs THEN e.password ELSE row.password) = e.password
        /\ (IF "role" \in cs THEN e.role ELSE row.role) = e.role
        /\ (IF "active" \in cs THEN e.active ELSE row.active) = e.active
    BY DEF Differing
  <2> HIDE DEF cs
  <2>2. Patched(row, e, cs) = [row EXCEPT !.password = e.password, !.role = e.role,
                                          !.active = e.active]
    BY <2>1 DEF Patched, User
  <2> QED BY <2>2 DEF User, cs
<1> QED BY <1>0, <1>1, <1>2, <1>3, <1>4

\* A profile or a password that is saved alone changes neither role nor suspension.
LEMMA AloneSaveUser ==
    ASSUME IInv, AloneOK, NEW q \in InFlight, SaveUser(q)
    PROVE  AloneOK'
<1>0. /\ q \in Requests /\ InFlight \subseteq {q} /\ pc[q] = "save" /\ SaveUpdate(q)
      /\ call[q].op \in {"changePassword", "profile"} /\ Answer(q)
      /\ UNCHANGED <<tokens, audit>>
  BY Running DEF InFlight, AloneOK, SaveUser, Local, Serves
<1>1. PICK u \in Users : u = call[q].user
  BY <1>0, SavedWhole
<1>2. PICK row : row = Saved(q)
  OBVIOUS
<1>3. /\ users[u] \in User /\ row \in User /\ users'[u] = row /\ row # NoUser
      /\ \A v \in Users \ {u} : users'[v] = users[v]
      /\ row.active = users[u].active /\ row.role = users[u].role /\ users[u] # NoUser
  <2>1. Saved(q).role = ent[q].role /\ Saved(q).active = ent[q].active
    BY <1>0, SavedTyped
  <2> QED BY <1>0, <1>1, <1>2, <2>1, SavedWhole, AccountNulls
<1>4. ~row.active => TokensOf(u)' = {}
  BY <1>0, <1>3 DEF AloneOK, AccountsOK, SuspendedHasNoSession, Suspended, TokensOf, Live
<1>5. /\ audit'[u].status = "USER_SUSPENDED" => ~row.active
      /\ audit'[u].status = "USER_ACTIVATED" => row.active
      /\ audit'[u].role # "none" => row.role = audit'[u].role
  BY <1>0, <1>3 DEF AloneOK, AccountsOK, DecisionsStand
<1>6. row.role = "ADMIN" \/ Admins \ {u} # {}
  BY <1>3 DEF AloneOK, AccountsOK, LastAdminStays, Admins
<1>7. AccountsOK'
  BY <1>0, <1>3, <1>4, <1>5, <1>6, RowWritten DEF IInv, AloneOK
<1> QED BY <1>0, <1>7, AloneAnswer

\* The record of a decision says what it wrote.
LEMMA LoggedDecision ==
    ASSUME IInv, NEW q \in Requests, CommitDecision(q), NEW u \in Users, u = call[q].user
    PROVE  /\ \A v \in Users \ {u} : audit'[v] = audit[v]
           /\ call[q].op = "suspend" =>
                 audit'[u].status = "USER_SUSPENDED" /\ audit'[u].role = audit[u].role
           /\ call[q].op = "activate" =>
                 audit'[u].status = "USER_ACTIVATED" /\ audit'[u].role = audit[u].role
           /\ call[q].op = "role" =>
                 audit'[u].status = audit[u].status /\ audit'[u].role = call[q].role
<1>1. audit' = Logged(q) /\ audit \in [Users -> Record]
  BY DEF CommitDecision, IInv, TypeOK
<1>2. /\ \A v \in Users \ {u} : Logged(q)[v] = audit[v]
      /\ call[q].op = "suspend" => Logged(q)[u] = [audit[u] EXCEPT !.status = "USER_SUSPENDED"]
      /\ call[q].op = "activate" => Logged(q)[u] = [audit[u] EXCEPT !.status = "USER_ACTIVATED"]
      /\ call[q].op = "role" => Logged(q)[u] = [audit[u] EXCEPT !.role = call[q].role]
  BY <1>1 DEF Logged
<1>3. audit[u] \in Record
  BY <1>1
<1> QED BY <1>1, <1>2, <1>3 DEF Record

\* A decision alone is what its record says, ends the sessions of a suspended
\* user, and leaves an administrator.
LEMMA AloneCommitDecision ==
    ASSUME IInv, AloneOK, NEW q \in InFlight, CommitDecision(q)
    PROVE  AloneOK'
<1>0. /\ q \in Requests /\ InFlight \subseteq {q} /\ pc[q] = "commit" /\ SaveUpdate(q)
      /\ call[q].op \in {"suspend", "activate", "role"} /\ Answer(q)
      /\ call[q] \in Call /\ Exact(q)
  BY Running DEF InFlight, AloneOK, CommitDecision, Local, Serves, AdminHandlers
<1>1. PICK u \in Users : u = call[q].user
  BY <1>0, SavedWhole
<1>2. PICK row : row = Saved(q)
  OBVIOUS
<1>3. /\ users[u] \in User /\ row \in User /\ users'[u] = row /\ row # NoUser
      /\ \A v \in Users \ {u} : users'[v] = users[v]
      /\ ent[q] = users[u] /\ users[u] # NoUser
  BY <1>0, <1>1, <1>2, SavedWhole, AccountNulls
<1>4. \A v \in Users \ {u} : audit'[v] = audit[v]
  BY <1>0, <1>1, LoggedDecision
<1>5. \A id \in TokenIds : tokens'[id] \in {tokens[id], NoToken}
  BY WithoutTyped DEF IInv, CommitDecision
<1>6. /\ audit[u].status = "USER_SUSPENDED" => ~users[u].active
      /\ audit[u].status = "USER_ACTIVATED" => users[u].active
      /\ audit[u].role # "none" => users[u].role = audit[u].role
      /\ ~users[u].active => TokensOf(u) = {}
  BY <1>3 DEF AloneOK, AccountsOK, DecisionsStand, SuspendedHasNoSession, Suspended
<1>7. CASE call[q].op = "suspend"
  <2>1. ~row.active /\ row.role = users[u].role
    BY <1>2, <1>3, <1>7 DEF Saved, User
  <2>2. audit'[u].status = "USER_SUSPENDED" /\ audit'[u].role = audit[u].role
    BY <1>0, <1>1, <1>7, LoggedDecision
  <2>3. TokensOf(u)' = {}
    <3>1. tokens' = Without(TokensOf(u))
      BY <1>1, <1>7 DEF CommitDecision
    <3> QED BY <3>1 DEF Without, TokensOf, Live
  <2>4. row.role = "ADMIN" \/ Admins \ {u} # {}
    BY <1>3, <2>1 DEF AloneOK, AccountsOK, LastAdminStays, Admins
  <2>5. AccountsOK'
    BY <1>3, <1>4, <1>5, <1>6, <2>1, <2>2, <2>3, <2>4, RowWritten DEF IInv, AloneOK
  <2> QED BY <1>0, <2>5, AloneAnswer
<1>8. CASE call[q].op = "activate"
  <2>1. row.active /\ row.role = users[u].role
    BY <1>2, <1>3, <1>8 DEF Saved, User
  <2>2. audit'[u].status = "USER_ACTIVATED" /\ audit'[u].role = audit[u].role
    BY <1>0, <1>1, <1>8, LoggedDecision
  <2>3. row.role = "ADMIN" \/ Admins \ {u} # {}
    BY <1>3, <2>1 DEF AloneOK, AccountsOK, LastAdminStays, Admins
  <2>4. AccountsOK'
    BY <1>3, <1>4, <1>5, <1>6, <2>1, <2>2, <2>3, RowWritten DEF IInv, AloneOK
  <2> QED BY <1>0, <2>4, AloneAnswer
<1>9. CASE call[q].op = "role"
  <2>0. call[q].role \in Role
    BY <1>0, <1>9, CallFields
  <2>1. row.active = users[u].active /\ row.role = call[q].role
    BY <1>2, <1>3, <1>9, <2>0 DEF Saved, User
  <2>2. audit'[u].status = audit[u].status /\ audit'[u].role = call[q].role
    BY <1>0, <1>1, <1>9, LoggedDecision
  <2>3. Admins \ {u} # {}
    BY <1>0, <1>1, <1>9 DEF Exact
  <2>4. ~row.active => TokensOf(u)' = {}
    <3>1. UNCHANGED tokens
      BY <1>9 DEF CommitDecision
    <3> QED BY <1>6, <2>1, <3>1 DEF TokensOf, Live
  <2>5. AccountsOK'
    BY <1>3, <1>4, <1>5, <1>6, <2>1, <2>2, <2>3, <2>4, RowWritten DEF IInv, AloneOK
  <2> QED BY <1>0, <2>5, AloneAnswer
<1> QED BY <1>0, <1>7, <1>8, <1>9

\* What holds of a behaviour that is watched for overlaps.
Watched == IInv /\ (~overlapped => AloneOK)

\* A step that does not overlap is a step of an exact request, or the first one of
\* a quiet system.
LEMMA WatchedStep ==
    Watched /\ [Next /\ overlapped' = (overlapped \/ Overlaps)]_<<vars, overlapped>> => Watched'
<1> SUFFICES ASSUME Watched, [Next /\ overlapped' = (overlapped \/ Overlaps)]_<<vars, overlapped>>
             PROVE  Watched'
  OBVIOUS
<1>1. IInv'
  <2>1. [Next]_vars
    OBVIOUS
  <2> QED BY <2>1, StepPreserves DEF Watched
<1>2. ASSUME ~overlapped' PROVE AloneOK'
  <2>0. ~overlapped /\ (UNCHANGED vars \/ (Next /\ ~Overlaps))
    <3>1. CASE UNCHANGED <<vars, overlapped>>
      BY <1>2, <3>1
    <3>2. CASE Next /\ overlapped' = (overlapped \/ Overlaps)
      BY <1>2, <3>2
    <3> QED BY <3>1, <3>2
  <2>1. AloneOK /\ IInv
    BY <2>0 DEF Watched
  <2>2. CASE UNCHANGED vars \/ Tick
    <3>1. UNCHANGED <<tables, pc, call, ent, cols>>
      BY <2>2 DEF vars, Tick, tables
    <3>2. AccountsOK'
      BY <2>1, <3>1, FewerTokens DEF AloneOK, tables
    <3>3. /\ InFlight' = InFlight /\ UNCHANGED Admins
          /\ \A u : UNCHANGED TokensOf(u)
          /\ \A q : UNCHANGED Saved(q)
      BY <3>1 DEF tables, InFlight, Admins, TokensOf, Live, Saved
    <3>4. ASSUME NEW q \in InFlight PROVE Exact(q)'
      <4>1. Exact(q)
        BY <2>1, <3>4 DEF AloneOK
      <4> QED BY <3>1, <3>3, <4>1 DEF tables, Exact
    <3> QED BY <2>1, <3>2, <3>3, <3>4 DEF AloneOK
  <2>3. ASSUME NEW q \in Requests, Begin(q), ~Overlaps PROVE AloneOK'
    <3>1. CASE Logout(q)
      <4>1. pc[q] = "idle" /\ pc'[q] # "idle"
        BY <2>1, <3>1 DEF IInv, TypeOK, Logout, Answer
      <4> QED BY <2>1, <2>3, <4>1, AloneBegin DEF Overlaps
    <3>2. CASE \E c, e : \E first \in PC \ {"idle"} : Start(q, c, e, first)
      <4>1. pc[q] = "idle" /\ pc'[q] # "idle"
        BY <2>1, <3>2 DEF IInv, TypeOK, Start
      <4> QED BY <2>1, <2>3, <4>1, AloneBegin DEF Overlaps
    <3> QED BY <2>3, <3>1, <3>2 DEF Begin, StartSignup, StartLogin, StartGoogle, StartRefresh,
          StartReset, StartChangePassword, StartProfile, StartSuspend, StartActivate,
          StartRole, PC
  <2>4. ASSUME NEW q \in Requests, Advance(q) \/ Fail(q) PROVE AloneOK'
    <3>1. q \in InFlight
      BY <2>4 DEF Advance, FindUser, CreateUser, LinkAccount, PurgeTokens, RotateToken,
         ExpireToken, InsertToken, UpdatePassword, RevokeTokens, CountAdmins, SaveSelect,
         SaveUser, CommitDecision, Fail, InFlight
    <3>2. CASE Fail(q)
      BY <2>1, <3>1, <3>2, AloneRefused DEF Fail, AloneOK
    <3> QED BY <2>1, <2>4, <3>1, <3>2, AloneFindUser, AloneCreateUser, AloneLinkAccount, AloneSign,
          AloneInsertToken, AloneRevoke, AloneUpdatePassword, AloneCountAdmins,
          AloneSaveSelect, AloneSaveUser, AloneCommitDecision DEF Advance
  <2> QED BY <2>0, <2>2, <2>3, <2>4 DEF Next, Quiet
<1> QED BY <1>1, <1>2 DEF Watched

\* Tables that are right show at most one session of a user.
LEMMA OneSession ==
    ASSUME AccountsOK
    PROVE  OneSessionPerUser
<1> SUFFICES ASSUME NEW u \in Users PROVE Cardinality(TokensOf(u)) <= 1
  BY DEF OneSessionPerUser
<1>1. CASE TokensOf(u) = {}
  BY <1>1, FS_EmptySet
<1>2. ASSUME NEW id \in TokensOf(u) PROVE Cardinality(TokensOf(u)) <= 1
  <2>1. TokensOf(u) = {id}
    BY <1>2 DEF AccountsOK, TokensOf
  <2> QED BY <2>1, FS_Singleton
<1> QED BY <1>1, <1>2

\* Calls that never overlap, even if they fail between two statements, leave a
\* suspended user without a session and everybody else with one at most, role and
\* status of every user as last decided, and at least one administrator
\* (auth.service.ts:135, 235, admin-users.service.ts:145, 211-239).
THEOREM SoundWithoutOverlap == WatchedSpec => []SoundAlone
<1>1. WatchedInit => Watched
  <2> SUFFICES ASSUME WatchedInit PROVE Watched
    OBVIOUS
  <2>1. Init
    BY DEF WatchedInit
  <2>2. DecisionsStand /\ SuspendedHasNoSession /\ LastAdminStays
    <3>1. \A u \in Users : users[u] # NoUser => users[u].active
      BY <2>1 DEF Init
    <3> QED BY <2>1, <3>1 DEF Init, DecisionsStand, SuspendedHasNoSession, Suspended,
                              LastAdminStays, Admins
  <2>3. AccountsOK
    BY <2>1, <2>2 DEF Init, AccountsOK
  <2>4. InFlight = {}
    BY <2>1 DEF Init, InFlight
  <2> QED BY <2>1, <2>3, <2>4, InitIInv DEF Watched, AloneOK
<1>2. Watched => SoundAlone
  BY OneSession DEF Watched, AloneOK, AccountsOK, SoundAlone
<1> QED BY <1>1, <1>2, WatchedStep, PTL DEF WatchedSpec
=============================================================================
