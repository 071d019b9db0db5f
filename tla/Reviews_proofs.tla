--------------------------- MODULE Reviews_proofs ---------------------------
(***************************************************************************)
(* Proofs about Reviews, for every number of requests, reviews, users and  *)
(* bars and every set of handlers.  The inductive invariant is             *)
(* TypeOK /\ CallsOK: a commit is well-typed only because the request that *)
(* reaches it serves a handler with this statement and still has its       *)
(* entity, which is what CallsOK says.                                     *)
(* The refinement of ReviewBoard is the last theorem.                      *)
(***************************************************************************)
EXTENDS Reviews, ReviewStats_proofs

IInv == TypeOK /\ CallsOK

-----------------------------------------------------------------------------
(* What the helpers return.                                                 *)

\* The fields of a call, by its handler.
LEMMA CallFields ==
    ASSUME NEW c \in Call
    PROVE  /\ c.op \in AllHandlers
           /\ c.op = "create" => c.user \in Users /\ c.bar \in Bars /\ c.rating \in Ratings
           /\ c.op # "create" => c.r \in ReviewIds
           /\ c.op = "update" => c.rating \in Ratings \cup {NoRating}
           /\ c.op \in {"report", "resolve"} => c.user \in Users
           /\ c.op = "resolve" => c.action \in ReportResolution
           /\ c.op = "moderate" => c.status \in ReviewStatus
  BY DEF Call, AllHandlers

\* save() writes a row of the table: it only copies columns of the entity.
LEMMA PatchedTyped ==
    ASSUME NEW row \in ReviewRow, NEW e \in ReviewRow, NEW cs
    PROVE  /\ Patched(row, e, cs) \in ReviewRow
           /\ Patched(row, e, cs).user = row.user
           /\ Patched(row, e, cs).bar = row.bar
           /\ Patched(row, e, cs).status \in {row.status, e.status}
  BY DEF Patched, ReviewRow

\* Releasing locks leaves every lock with a request or with nobody.
LEMMA ReleasedTyped ==
    ASSUME NEW D, NEW lock \in [D -> Requests \cup {NoRequest}], NEW q
    PROVE  /\ Released(lock, q) \in [D -> Requests \cup {NoRequest}]
           /\ \A x \in D, p \in Requests : Released(lock, q)[x] = p => lock[x] = p /\ p # q
  BY NullsAssumption DEF Released

\* The entity a request saves is a row, and has the status it loaded unless the
\* request moderates.
LEMMA EntityTyped ==
    ASSUME IInv, NEW q \in Requests, ent[q] # NoRow
    PROVE  /\ Entity(q) \in ReviewRow
           /\ call[q].op = "update" => Entity(q).status = ent[q].status
           /\ call[q].op = "moderate" => Entity(q).status = call[q].status
<1>1. ent[q] \in ReviewRow /\ call[q] \in Call
  BY NullsAssumption DEF IInv, TypeOK, CallsOK, CallOK
<1>2. CASE call[q].op = "update" /\ call[q].rating # NoRating
  <2>1. call[q].rating \in Ratings
    BY <1>1, <1>2, CallFields
  <2> QED BY <1>1, <1>2, <2>1 DEF Entity, ReviewRow
<1>3. CASE call[q].op = "moderate"
  <2>1. call[q].status \in ReviewStatus
    BY <1>1, <1>3, CallFields
  <2> QED BY <1>1, <1>3, <2>1 DEF Entity, ReviewRow
<1>4. CASE ~(call[q].op = "update" /\ call[q].rating # NoRating) /\ call[q].op # "moderate"
  BY <1>1, <1>4 DEF Entity
<1> QED BY <1>2, <1>3, <1>4

-----------------------------------------------------------------------------
(* The two ways a request enters and leaves a handler.                      *)

\* A call starts at the first statement of its handler, with its entity.
LEMMA StartPreserves ==
    ASSUME IInv, NEW q \in Requests, NEW c \in Call, NEW e \in ReviewRow \cup {NoRow},
           NEW first \in PC \ {"idle", "done"}, Start(q, c, e, first),
           first = "insert" <=> c.op = "create",
           first = "adjust" => c.op = "update" /\ c.rating \in Ratings,
           first = "select" => c.op \in {"update", "moderate"},
           first = "lockReport" => c.op = "resolve",
           first = "photos" => c.op \in {"remove", "adminDelete", "resolve"},
           e # NoRow <=> c.op \in PreRead,
           c.op # "create" => reviews[c.r] # NoRow
    PROVE  IInv'
<1>1. TypeOK'
  BY DEF IInv, TypeOK, TablesOK, Start, tables, locks
<1>2. CallsOK'
  <2> SUFFICES ASSUME NEW p \in Requests PROVE CallOK(p)'
    BY DEF CallsOK
  <2>1. c # NoCall
    BY NullsAssumption
  <2>2. CASE p = q
    <3>1. pc'[p] = first /\ call'[p] = c /\ ent'[p] = e
      BY <2>2 DEF Start, IInv, TypeOK
    <3>2. \A b \in Bars : statsLock[b] # p
      BY <2>2 DEF Start, IInv, CallsOK, CallOK
    <3> QED BY <2>1, <3>1, <3>2 DEF CallOK, Start, tables, locks
  <2>3. CASE p # q
    <3>1. pc'[p] = pc[p] /\ call'[p] = call[p] /\ ent'[p] = ent[p]
      BY <2>3 DEF Start, IInv, TypeOK
    <3> QED BY <3>1 DEF Start, IInv, CallsOK, CallOK, tables, locks
  <2> QED BY <2>2, <2>3
<1> QED BY <1>1, <1>2 DEF IInv

\* The end of a transaction: what is left to show of a commit is that the tables
\* it writes are well-typed and lose no row.
LEMMA FinishPreserves ==
    ASSUME IInv, NEW q \in Requests, Finish(q), TablesOK',
           \A r \in ReviewIds : reviews[r] # NoRow => reviews'[r] # NoRow
    PROVE  IInv'
<1>1. TypeOK'
  <2>1. /\ reviewLock' \in [ReviewIds -> Requests \cup {NoRequest}]
        /\ statsLock' \in [Bars -> Requests \cup {NoRequest}]
        /\ reportLock' \in [ReportKeys -> Requests \cup {NoRequest}]
    BY ReleasedTyped DEF Finish, IInv, TypeOK
  <2>2. /\ DOMAIN photoLock' = DOMAIN photoLock
        /\ photoLock' \in [DOMAIN photoLock -> Requests \cup {NoRequest}]
    <3>1. photoLock \in [DOMAIN photoLock -> Requests \cup {NoRequest}]
      BY DEF IInv, TypeOK
    <3>2. Released(photoLock, q) \in [DOMAIN photoLock -> Requests \cup {NoRequest}]
      BY <3>1, ReleasedTyped
    <3> QED BY <3>2 DEF Finish
  <2> QED BY <2>1, <2>2 DEF IInv, TypeOK, Finish, PC
<1>2. CallsOK'
  <2> SUFFICES ASSUME NEW p \in Requests PROVE CallOK(p)'
    BY DEF CallsOK
  <2>1. \A b \in Bars : statsLock'[b] = p => statsLock[b] = p /\ p # q
    BY ReleasedTyped DEF Finish, IInv, TypeOK
  <2>2. CASE p = q
    <3>1. pc'[p] = "done" /\ call'[p] = NoCall /\ ent'[p] = NoRow
      BY <2>2 DEF Finish, IInv, TypeOK
    <3> QED BY <2>1, <2>2, <3>1 DEF CallOK
  <2>3. CASE p # q
    <3>1. pc'[p] = pc[p] /\ call'[p] = call[p] /\ ent'[p] = ent[p]
      BY <2>3 DEF Finish, IInv, TypeOK
    <3>2. CallOK(p)
      BY DEF IInv, CallsOK
    <3>3. call[p] # NoCall /\ call[p].op # "create" => call[p].r \in ReviewIds
      BY CallFields DEF IInv, TypeOK
    <3> QED BY <2>1, <3>1, <3>2, <3>3 DEF CallOK
  <2> QED BY <2>2, <2>3
<1> QED BY <1>1, <1>2 DEF IInv

\* A transaction that is rolled back leaves the tables as they were.
LEMMA RollbackPreserves ==
    ASSUME IInv, NEW q \in Requests, Rollback(q)
    PROVE  IInv'
<1>1. TablesOK'
  BY DEF IInv, TypeOK, TablesOK, Rollback, tables
<1> QED BY <1>1, FinishPreserves DEF Rollback, tables

-----------------------------------------------------------------------------
(* Every action, in the order of Next.                                      *)

\* Every call begins at a statement of its handler, with the entity it read.
LEMMA BeginPreserves ==
    ASSUME IInv, NEW q \in Requests, Begin(q)
    PROVE  IInv'
<1>0. reviews \in [ReviewIds -> ReviewRow \cup {NoRow}]
  BY DEF IInv, TypeOK, TablesOK
<1> USE DEF PC, PreRead
<1>1. CASE StartCreate(q)
  <2>1. PICK u \in Users, b \in Bars, s \in Ratings :
          Start(q, [op |-> "create", user |-> u, bar |-> b, rating |-> s], NoRow, "insert")
    BY <1>1 DEF StartCreate
  <2>2. [op |-> "create", user |-> u, bar |-> b, rating |-> s] \in Call
    BY DEF Call
  <2> QED BY <2>1, <2>2, StartPreserves
<1>2. CASE StartUpdate(q)
  <2>1. PICK r \in ReviewIds, s \in Ratings \cup {NoRating} :
          /\ Found(r)
          /\ Start(q, [op |-> "update", r |-> r, user |-> reviews[r].user, rating |-> s],
                   reviews[r],
                   IF /\ s \notin {NoRating, reviews[r].rating}
                      /\ reviews[r].status = "PUBLISHED"
                   THEN "adjust" ELSE "select")
    BY <1>2 DEF StartUpdate
  <2>2. reviews[r] \in ReviewRow /\ reviews[r] # NoRow
    BY <1>0, <2>1 DEF Found
  <2>3. [op |-> "update", r |-> r, user |-> reviews[r].user, rating |-> s] \in Call
    BY <2>2 DEF Call, ReviewRow
  <2>4. CASE s \notin {NoRating, reviews[r].rating} /\ reviews[r].status = "PUBLISHED"
    <3>1. s \in Ratings
      BY <2>4
    <3> QED BY <2>1, <2>2, <2>3, <2>4, <3>1, StartPreserves
  <2>5. CASE ~(s \notin {NoRating, reviews[r].rating} /\ reviews[r].status = "PUBLISHED")
    BY <2>1, <2>2, <2>3, <2>5, StartPreserves
  <2> QED BY <2>4, <2>5
<1>3. CASE StartRemove(q) \/ StartAdminDelete(q)
  <2>1. PICK r \in ReviewIds, o \in {"remove", "adminDelete"} :
          Found(r) /\ Start(q, [op |-> o, r |-> r], reviews[r], FirstOfDeletion(r))
    BY <1>3 DEF StartRemove, StartAdminDelete
  <2>2. reviews[r] \in ReviewRow /\ reviews[r] # NoRow
    BY <1>0, <2>1 DEF Found
  <2>3. [op |-> o, r |-> r] \in Call
    BY DEF Call
  <2>4. FirstOfDeletion(r) \in {"photos", "lock"}
    BY DEF FirstOfDeletion
  <2> QED BY <2>1, <2>2, <2>3, <2>4, StartPreserves
<1>4. CASE StartModerate(q)
  <2>1. PICK r \in ReviewIds, s \in ReviewStatus :
          Found(r) /\ Start(q, [op |-> "moderate", r |-> r, status |-> s], reviews[r], "select")
    BY <1>4 DEF StartModerate
  <2>2. reviews[r] \in ReviewRow /\ reviews[r] # NoRow
    BY <1>0, <2>1 DEF Found
  <2>3. [op |-> "moderate", r |-> r, status |-> s] \in Call
    BY DEF Call
  <2> QED BY <2>1, <2>2, <2>3, StartPreserves
<1>5. CASE StartReport(q)
  <2>1. PICK r \in ReviewIds, u \in Users :
          reviews[r] # NoRow /\ Start(q, [op |-> "report", r |-> r, user |-> u], NoRow, "lock")
    BY <1>5 DEF StartReport
  <2>2. [op |-> "report", r |-> r, user |-> u] \in Call
    BY DEF Call
  <2> QED BY <2>1, <2>2, StartPreserves
<1>6. CASE StartResolve(q)
  <2>1. PICK k \in ReportKeys, a \in ReportResolution :
          /\ reviews[k[1]] # NoRow
          /\ Start(q, [op |-> "resolve", r |-> k[1], user |-> k[2], action |-> a],
                   NoRow, "lockReport")
    BY <1>6 DEF StartResolve
  <2>2. k[1] \in ReviewIds /\ k[2] \in Users
    BY DEF ReportKeys
  <2>3. [op |-> "resolve", r |-> k[1], user |-> k[2], action |-> a] \in Call
    BY <2>2 DEF Call
  <2> QED BY <2>1, <2>2, <2>3, StartPreserves
<1> QED BY <1>1, <1>2, <1>3, <1>4, <1>5, <1>6 DEF Begin

\* The statements before the last: they move one request and take one lock.
LEMMA StatementPreserves ==
    ASSUME IInv, NEW q \in Requests,
           AdjustStatement(q) \/ SaveSelect(q) \/ LockReview(q) \/ LockReport(q) \/ LockPhoto(q)
    PROVE  IInv'
<1>0. /\ pc \in [Requests -> PC] /\ CallOK(q) /\ q # NoRequest
      /\ call \in [Requests -> Call \cup {NoCall}]
  BY NullsAssumption DEF IInv, TypeOK, CallsOK
<1>1. CASE AdjustStatement(q)
  <2>1. ent[q] \in ReviewRow /\ ent[q].bar \in Bars /\ call[q] # NoCall
    BY <1>0, <1>1, NullsAssumption DEF AdjustStatement, CallOK, IInv, TypeOK, PreRead, ReviewRow
  <2>2. TypeOK'
    BY <1>1, <2>1 DEF AdjustStatement, IInv, TypeOK, TablesOK, tables, PC
  <2>3. ASSUME NEW p \in Requests PROVE CallOK(p)'
    <3>1. CallOK(p)
      BY DEF IInv, CallsOK
    <3>2. statsLock \in [Bars -> Requests \cup {NoRequest}]
      BY DEF IInv, TypeOK
    <3>3. CASE p = q
      <4>1. pc'[p] = "select" /\ pc[p] = "adjust"
        BY <1>0, <1>1, <3>3 DEF AdjustStatement
      <4> QED BY <1>1, <2>1, <3>1, <3>3, <4>1 DEF AdjustStatement, CallOK, tables
    <3>4. CASE p # q
      <4>1. pc'[p] = pc[p]
        BY <1>0, <1>1, <3>4 DEF AdjustStatement
      <4>2. \A b \in Bars : statsLock'[b] = p => statsLock[b] = p
        BY <1>1, <3>2, <3>4 DEF AdjustStatement
      <4> QED BY <1>1, <3>1, <4>1, <4>2 DEF AdjustStatement, CallOK, tables
    <3> QED BY <3>3, <3>4
  <2> QED BY <2>2, <2>3 DEF IInv, CallsOK
<1>2. CASE SaveSelect(q)
  <2>1. Differing(reviews[call[q].r], Entity(q)) \subseteq Columns
    BY DEF Differing, Columns
  <2>2. TypeOK'
    BY <1>2, <2>1 DEF SaveSelect, IInv, TypeOK, TablesOK, tables, locks, PC
  <2>3. ASSUME NEW p \in Requests PROVE CallOK(p)'
    <3>1. CallOK(p)
      BY DEF IInv, CallsOK
    <3>2. pc[q] = "select" /\ pc' \in [Requests -> PC] /\ pc'[q] = "lock"
      BY <1>0, <1>2, <2>2 DEF SaveSelect, TypeOK
    <3>3. p # q => pc'[p] = pc[p]
      BY <1>0, <1>2 DEF SaveSelect
    <3> QED BY <1>2, <3>1, <3>2, <3>3 DEF SaveSelect, CallOK, tables, locks
  <2> QED BY <2>2, <2>3 DEF IInv, CallsOK
<1>3. CASE LockReview(q)
  <2>1. call[q] # NoCall /\ call[q].op # "create"
    BY <1>0, <1>3, NullsAssumption DEF LockReview, CallOK
  <2>2. call[q].r \in ReviewIds
    BY <1>0, <2>1, CallFields
  <2>3. TypeOK'
    BY <1>3, <2>2 DEF LockReview, IInv, TypeOK, TablesOK, tables, PC
  <2>4. ASSUME NEW p \in Requests PROVE CallOK(p)'
    <3>1. CallOK(p)
      BY DEF IInv, CallsOK
    <3>2. /\ pc[q] = "lock" /\ (p # q => pc'[p] = pc[p])
          /\ pc'[q] = IF DeletesPhotos(q) THEN "photos" ELSE "commit"
      BY <1>0, <1>3 DEF LockReview
    <3>3. pc'[q] = "photos" => call[q].op = "resolve"
      BY <3>2 DEF DeletesPhotos
    <3> QED BY <1>3, <3>1, <3>2, <3>3 DEF LockReview, CallOK, tables
  <2> QED BY <2>3, <2>4 DEF IInv, CallsOK
<1>4. CASE LockReport(q)
  <2>1. CASE Rollback(q)
    BY <2>1, RollbackPreserves
  <2>2. CASE /\ reportLock' = [reportLock EXCEPT ![<<call[q].r, call[q].user>>] = q]
             /\ pc' = [pc EXCEPT ![q] = "lock"]
             /\ UNCHANGED <<tables, reviewLock, statsLock, photoLock, call, ent, cols>>
    <3>1. call[q] # NoCall /\ call[q].op = "resolve"
      BY <1>0, <1>4, NullsAssumption DEF LockReport, CallOK
    <3>2. <<call[q].r, call[q].user>> \in ReportKeys
      BY <1>0, <3>1, CallFields DEF ReportKeys
    <3>3. TypeOK'
      BY <2>2, <3>2 DEF IInv, TypeOK, TablesOK, tables, PC
    <3>4. ASSUME NEW p \in Requests PROVE CallOK(p)'
      <4>1. CallOK(p)
        BY DEF IInv, CallsOK
      <4>2. pc[q] = "lockReport" /\ pc'[q] = "lock" /\ (p # q => pc'[p] = pc[p])
        BY <1>0, <1>4, <2>2 DEF LockReport
      <4> QED BY <2>2, <4>1, <4>2 DEF CallOK, tables
    <3> QED BY <3>3, <3>4 DEF IInv, CallsOK
  <2> QED BY <1>4, <2>1, <2>2 DEF LockReport
<1>5. CASE LockPhoto(q)
  <2>1. PICK k \in DOMAIN photoLock :
          /\ photoLock' = [photoLock EXCEPT ![k] = q]
          /\ pc' = [pc EXCEPT ![q] =
                IF \E x \in PhotoRows(call[q].r) \ {k} : photoLock[x] # q THEN "photos"
                ELSE IF call[q].op = "resolve" THEN "commit" ELSE "lock"]
    BY <1>5 DEF LockPhoto, PhotoRows
  <2>2. /\ pc[q] = "photos" /\ pc'[q] \in {"photos", "lock", "commit"}
        /\ pc' \in [Requests -> PC] /\ \A p \in Requests \ {q} : pc'[p] = pc[p]
        /\ UNCHANGED <<tables, reviewLock, statsLock, reportLock, call, ent, cols>>
    BY <1>0, <1>5, <2>1 DEF LockPhoto, PC
  <2>3. /\ DOMAIN photoLock' = DOMAIN photoLock
        /\ photoLock' \in [DOMAIN photoLock -> Requests \cup {NoRequest}]
    BY <2>1 DEF IInv, TypeOK
  <2>4. TypeOK'
    BY <2>2, <2>3 DEF IInv, TypeOK, TablesOK, tables
  <2>5. ASSUME NEW p \in Requests PROVE CallOK(p)'
    <3>1. CallOK(p)
      BY DEF IInv, CallsOK
    <3> QED BY <2>2, <3>1 DEF CallOK, tables
  <2> QED BY <2>4, <2>5 DEF IInv, CallsOK
<1> QED BY <1>1, <1>2, <1>3, <1>4, <1>5

\* Counting one more action on a review keeps the log a table of counters.
LEMMA LoggedTyped ==
    ASSUME IInv, NEW r \in ReviewIds, NEW t \in AdminActionType
    PROVE  Logged(r, t) \in [ReviewIds -> [AdminActionType -> Nat]]
<1>1. audit \in [ReviewIds -> [AdminActionType -> Nat]]
  BY DEF IInv, TypeOK, TablesOK
<1>2. [audit[r] EXCEPT ![t] = @ + 1] \in [AdminActionType -> Nat]
  <2>1. audit[r] \in [AdminActionType -> Nat]
    BY <1>1
  <2>2. audit[r][t] + 1 \in Nat
    BY <2>1
  <2> QED BY <2>1, <2>2
<1> QED BY <1>1, <1>2 DEF Logged

\* What softRemove and the moderation write are rows, for a loaded entity.
LEMMA SoftRemoveTyped ==
    ASSUME IInv, NEW r \in ReviewIds, reviews[r] # NoRow, NEW e \in ReviewRow, SoftRemove(r, e)
    PROVE  /\ reviews' \in [ReviewIds -> ReviewRow \cup {NoRow}]
           /\ stats' \in [Bars -> StatsRow]
           /\ \A s \in ReviewIds : reviews[s] # NoRow => reviews'[s] # NoRow
<1>1. reviews[r] \in ReviewRow /\ reviews \in [ReviewIds -> ReviewRow \cup {NoRow}]
  BY DEF IInv, TypeOK, TablesOK
<1>2. [reviews[r] EXCEPT !.deleted = TRUE] \in ReviewRow
  BY <1>1 DEF ReviewRow
<1>3. stats' \in [Bars -> StatsRow]
  <2>1. e.bar \in Bars /\ e.rating \in Ratings /\ (e.photoCount > 0) \in BOOLEAN
    BY DEF ReviewRow
  <2>2. DecrementStats(stats[e.bar], e.rating, e.photoCount > 0) \in StatsRow
    BY <2>1, StatsTyped DEF IInv, TypeOK, TablesOK
  <2> QED BY <2>1, <2>2 DEF SoftRemove, SetStats, IInv, TypeOK, TablesOK
<1>4. reviews' = [reviews EXCEPT ![r] = [reviews[r] EXCEPT !.deleted = TRUE]]
  BY DEF SoftRemove
<1> QED BY <1>1, <1>2, <1>3, <1>4, NullsAssumption

\* What a moderation writes is well-typed.
LEMMA ModerateTyped ==
    ASSUME IInv, NEW r \in ReviewIds, NEW e \in ReviewRow, NEW status,
           ModerateReviewWithManager(r, e, status)
    PROVE  /\ stats' \in [Bars -> StatsRow]
           /\ audit' \in [ReviewIds -> [AdminActionType -> Nat]]
<1>1. e.bar \in Bars /\ e.rating \in Ratings /\ (e.photoCount > 0) \in BOOLEAN
  BY DEF ReviewRow
<1>2. stats \in [Bars -> StatsRow]
  BY DEF IInv, TypeOK, TablesOK
<1>3. /\ DecrementStats(stats[e.bar], e.rating, e.photoCount > 0) \in StatsRow
      /\ IncrementStats(stats[e.bar], e.rating, e.photoCount > 0) \in StatsRow
  BY <1>1, <1>2, StatsTyped
<1>4. stats' \in [Bars -> StatsRow]
  BY <1>1, <1>2, <1>3 DEF ModerateReviewWithManager
<1>5. audit' \in [ReviewIds -> [AdminActionType -> Nat]]
  BY LoggedTyped DEF ModerateReviewWithManager, AdminActionType
<1> QED BY <1>4, <1>5

\* What save() writes is a row of the same user and bar.
LEMMA SaveTyped ==
    ASSUME IInv, NEW q \in Requests, NEW r \in ReviewIds, r = call[q].r,
           reviews[r] # NoRow, ent[q] # NoRow, SaveUpdate(q)
    PROVE  /\ reviews' \in [ReviewIds -> ReviewRow \cup {NoRow}]
           /\ reviews' = [reviews EXCEPT ![r] = Patched(reviews[r], Entity(q), cols[q])]
           /\ \A s \in ReviewIds : reviews[s] # NoRow => reviews'[s] # NoRow
<1>1. reviews[r] \in ReviewRow /\ reviews \in [ReviewIds -> ReviewRow \cup {NoRow}]
  BY DEF IInv, TypeOK, TablesOK
<1>2. Patched(reviews[r], Entity(q), cols[q]) \in ReviewRow
  BY <1>1, EntityTyped, PatchedTyped
<1>3. reviews' = [reviews EXCEPT ![r] = Patched(reviews[r], Entity(q), cols[q])]
  BY DEF SaveUpdate
<1> QED BY <1>1, <1>2, <1>3, NullsAssumption

\* The last statements of every transaction.
LEMMA CommitPreserves ==
    ASSUME IInv, NEW q \in Requests,
           \/ CommitCreate(q) \/ CommitUpdate(q) \/ CommitRemove(q) \/ CommitAdminDelete(q)
           \/ CommitModerate(q) \/ CommitReport(q) \/ CommitResolve(q)
    PROVE  IInv'
<1>0. TablesOK /\ CallOK(q) /\ call[q] \in Call \cup {NoCall} /\ pc[q] \in PC
  BY DEF IInv, TypeOK, CallsOK
<1>a. ASSUME NEW o, pc[q] = "commit", call[q].op = o, o # "create"
      PROVE  /\ call[q] \in Call /\ call[q].r \in ReviewIds /\ reviews[call[q].r] \in ReviewRow
             /\ reviews[call[q].r] # NoRow
             /\ o \in PreRead => ent[q] \in ReviewRow /\ ent[q] # NoRow
  <2>1. call[q] \in Call /\ call[q] # NoCall
    BY <1>0, <1>a, NullsAssumption DEF CallOK
  <2>2. call[q].r \in ReviewIds
    BY <1>a, <2>1, CallFields
  <2>3. reviews[call[q].r] \in ReviewRow /\ reviews[call[q].r] # NoRow
    BY <1>0, <1>a, <2>1, <2>2 DEF CallOK, TablesOK
  <2>4. o \in PreRead => ent[q] \in ReviewRow /\ ent[q] # NoRow
    BY <1>0, <1>a, <2>1 DEF CallOK, IInv, TypeOK
  <2> QED BY <2>1, <2>2, <2>3, <2>4
<1>1. CASE CommitCreate(q)
  <2>1. call[q] \in Call /\ call[q].op = "create"
    BY <1>0, <1>1, NullsAssumption DEF CommitCreate, CallOK
  <2>2. PICK r \in ReviewIds :
          /\ reviews[r] = NoRow
          /\ IF Duplicate(reviews, r, call[q].user, call[q].bar)
             THEN Rollback(q)
             ELSE /\ reviews' = [reviews EXCEPT ![r] =
                        [user |-> call[q].user, bar |-> call[q].bar, rating |-> call[q].rating,
                         status |-> "PUBLISHED", photoCount |-> 0, deleted |-> FALSE]]
                  /\ SetStats(call[q].bar,
                              IncrementStats(stats[call[q].bar], call[q].rating, FALSE))
                  /\ UNCHANGED <<reports, audit>>
                  /\ Finish(q)
    BY <1>1 DEF CommitCreate
  <2>3. CASE Duplicate(reviews, r, call[q].user, call[q].bar)
    BY <2>2, <2>3, RollbackPreserves
  <2>4. CASE ~Duplicate(reviews, r, call[q].user, call[q].bar)
    <3>1. call[q].user \in Users /\ call[q].bar \in Bars /\ call[q].rating \in Ratings
      BY <2>1, CallFields
    <3> DEFINE row == [user |-> call[q].user, bar |-> call[q].bar, rating |-> call[q].rating,
                       status |-> "PUBLISHED", photoCount |-> 0, deleted |-> FALSE]
    <3>2. row \in ReviewRow
      BY <3>1, BoundsAssumption DEF ReviewRow, ReviewStatus
    <3>3. IncrementStats(stats[call[q].bar], call[q].rating, FALSE) \in StatsRow
      BY <1>0, <3>1, StatsTyped DEF TablesOK
    <3>4. TablesOK'
      BY <1>0, <2>2, <2>4, <3>1, <3>2, <3>3 DEF TablesOK, SetStats
    <3>5. \A s \in ReviewIds : reviews[s] # NoRow => reviews'[s] # NoRow
      BY <1>0, <2>2, <2>4 DEF TablesOK
    <3> QED BY <2>2, <2>4, <3>4, <3>5, FinishPreserves
  <2> QED BY <2>3, <2>4
<1>2. CASE CommitUpdate(q)
  <2>1. /\ call[q] \in Call /\ call[q].r \in ReviewIds /\ reviews[call[q].r] # NoRow
        /\ ent[q] \in ReviewRow /\ ent[q] # NoRow
    BY <1>2, <1>a DEF CommitUpdate, PreRead
  <2>2. CASE SaveRejected(q)
    BY <1>2, <2>2, RollbackPreserves DEF CommitUpdate
  <2>3. CASE ~SaveRejected(q)
    <3>1. ent[q].bar \in Bars /\ ent[q].rating \in Ratings
      BY <2>1 DEF ReviewRow
    <3>2. stats' \in [Bars -> StatsRow]
      <4>1. CASE statsLock[ent[q].bar] = q
        <5>1. call[q].rating \in Ratings
          BY <1>0, <3>1, <4>1 DEF CallOK
        <5>2. AdjustRating(stats[ent[q].bar], ent[q].rating, call[q].rating) \in StatsRow
          BY <1>0, <3>1, <5>1, StatsTyped DEF TablesOK
        <5> QED BY <1>0, <1>2, <2>3, <3>1, <4>1, <5>2 DEF CommitUpdate, SetStats, TablesOK
      <4>2. CASE statsLock[ent[q].bar] # q
        BY <1>0, <1>2, <2>3, <4>2 DEF CommitUpdate, TablesOK
      <4> QED BY <4>1, <4>2
    <3>3. SaveUpdate(q) /\ UNCHANGED <<reports, audit>> /\ Finish(q)
      BY <1>2, <2>3 DEF CommitUpdate
    <3>4. TablesOK'
      BY <1>0, <2>1, <3>2, <3>3, SaveTyped DEF TablesOK
    <3> QED BY <2>1, <3>3, <3>4, SaveTyped, FinishPreserves
  <2> QED BY <2>2, <2>3
<1>3. CASE CommitRemove(q)
  <2>1. /\ call[q].r \in ReviewIds /\ reviews[call[q].r] # NoRow
        /\ ent[q] \in ReviewRow /\ SoftRemove(call[q].r, ent[q])
    BY <1>3, <1>a DEF CommitRemove, PreRead
  <2>2. TablesOK'
    BY <1>0, <1>3, <2>1, SoftRemoveTyped DEF CommitRemove, TablesOK
  <2> QED BY <1>3, <2>1, <2>2, SoftRemoveTyped, FinishPreserves DEF CommitRemove
<1>4. CASE CommitAdminDelete(q)
  <2>1. /\ call[q].r \in ReviewIds /\ reviews[call[q].r] # NoRow /\ ent[q] \in ReviewRow
        /\ SoftRemove(call[q].r, ent[q])
        /\ audit' = Logged(call[q].r, "REVIEW_DELETED")
    BY <1>4, <1>a DEF CommitAdminDelete, DeleteReviewWithManager, PreRead
  <2>2. TablesOK'
    BY <1>0, <1>4, <2>1, SoftRemoveTyped, LoggedTyped
       DEF CommitAdminDelete, TablesOK, AdminActionType
  <2> QED BY <1>4, <2>1, <2>2, SoftRemoveTyped, FinishPreserves DEF CommitAdminDelete
<1>5. CASE CommitModerate(q)
  <2>1. /\ call[q].r \in ReviewIds /\ reviews[call[q].r] # NoRow
        /\ ent[q] \in ReviewRow /\ ent[q] # NoRow
    BY <1>5, <1>a DEF CommitModerate, PreRead
  <2>2. CASE SaveRejected(q)
    BY <1>5, <2>2, RollbackPreserves DEF CommitModerate
  <2>3. CASE ~SaveRejected(q)
    <3>1. /\ SaveUpdate(q) /\ UNCHANGED reports /\ Finish(q)
          /\ ModerateReviewWithManager(call[q].r, ent[q], call[q].status)
      BY <1>5, <2>3 DEF CommitModerate
    <3>2. TablesOK'
      BY <1>0, <2>1, <3>1, SaveTyped, ModerateTyped DEF TablesOK
    <3> QED BY <2>1, <3>1, <3>2, SaveTyped, FinishPreserves
  <2> QED BY <2>2, <2>3
<1>6. CASE CommitReport(q)
  <2> DEFINE r == call[q].r
             row == reviews[r]
  <2>1. /\ call[q] \in Call /\ r \in ReviewIds /\ row \in ReviewRow /\ row # NoRow
        /\ call[q].user \in Users
    BY <1>6, <1>a, CallFields DEF CommitReport
  <2>2. CASE Refused(q)
    BY <1>6, <2>2, RollbackPreserves DEF CommitReport
  <2>3. CASE ~Refused(q)
    <3>1. reports' \in [ReportKeys -> ReportRow]
      BY <1>0, <1>6, <2>3 DEF CommitReport, TablesOK, ReportRow
    <3>2. /\ reviews' \in [ReviewIds -> ReviewRow \cup {NoRow}]
          /\ stats' \in [Bars -> StatsRow]
          /\ \A s \in ReviewIds : reviews[s] # NoRow => reviews'[s] # NoRow
      <4>1. CASE row.status = "PUBLISHED"
        <5>1. [row EXCEPT !.status = "REPORTED"] \in ReviewRow
          BY <2>1 DEF ReviewRow, ReviewStatus
        <5>2. row.bar \in Bars /\ row.rating \in Ratings /\ (row.photoCount > 0) \in BOOLEAN
          BY <2>1 DEF ReviewRow
        <5>3. DecrementStats(stats[row.bar], row.rating, row.photoCount > 0) \in StatsRow
          BY <1>0, <5>2, StatsTyped DEF TablesOK
        <5>4. /\ reviews' = [reviews EXCEPT ![r] = [row EXCEPT !.status = "REPORTED"]]
              /\ stats' = [stats EXCEPT ![row.bar] =
                             DecrementStats(stats[row.bar], row.rating, row.photoCount > 0)]
          BY <1>6, <2>3, <4>1 DEF CommitReport, SetStats
        <5> QED BY <1>0, <2>1, <5>1, <5>2, <5>3, <5>4, NullsAssumption DEF TablesOK
      <4>2. CASE row.status # "PUBLISHED"
        BY <1>0, <1>6, <2>3, <4>2 DEF CommitReport, TablesOK
      <4> QED BY <4>1, <4>2
    <3>3. UNCHANGED audit /\ Finish(q)
      BY <1>6, <2>3 DEF CommitReport
    <3>4. TablesOK'
      BY <1>0, <3>1, <3>2, <3>3 DEF TablesOK
    <3> QED BY <3>2, <3>3, <3>4, FinishPreserves
  <2> QED BY <2>2, <2>3
<1>7. CASE CommitResolve(q)
  <2> DEFINE r == call[q].r
             row == reviews[r]
             a == call[q].action
  <2>1. /\ call[q] \in Call /\ r \in ReviewIds /\ row \in ReviewRow /\ row # NoRow
        /\ a \in ReportResolution
    BY <1>7, <1>a, CallFields DEF CommitResolve
  <2>2. /\ reports' = [k \in ReportKeys |-> IF k \in Siblings(q) THEN a ELSE reports[k]]
        /\ Finish(q)
    BY <1>7 DEF CommitResolve
  <2>3. reports' \in [ReportKeys -> ReportRow]
    BY <1>0, <2>1, <2>2 DEF TablesOK, ReportRow
  <2>4. /\ reviews' \in [ReviewIds -> ReviewRow \cup {NoRow}]
        /\ stats' \in [Bars -> StatsRow]
        /\ audit' \in [ReviewIds -> [AdminActionType -> Nat]]
        /\ \A s \in ReviewIds : reviews[s] # NoRow => reviews'[s] # NoRow
    <3>1. CASE ~row.deleted /\ a = "DELETED"
      <4>1. SoftRemove(r, row) /\ audit' = Logged(r, "REVIEW_DELETED")
        BY <1>7, <3>1 DEF CommitResolve, DeleteReviewWithManager
      <4> QED BY <2>1, <4>1, SoftRemoveTyped, LoggedTyped DEF AdminActionType
    <3>2. CASE ~row.deleted /\ a # "DELETED" /\ row.status # Target(a)
      <4>1. /\ reviews' = [reviews EXCEPT ![r] = [row EXCEPT !.status = Target(a)]]
            /\ ModerateReviewWithManager(r, row, Target(a))
        BY <1>7, <3>2 DEF CommitResolve
      <4>2. [row EXCEPT !.status = Target(a)] \in ReviewRow
        BY <2>1 DEF ReviewRow, ReviewStatus, Target
      <4> QED BY <1>0, <2>1, <4>1, <4>2, ModerateTyped, NullsAssumption DEF TablesOK
    <3>3. CASE ~(~row.deleted /\ a = "DELETED")
               /\ ~(~row.deleted /\ a # "DELETED" /\ row.status # Target(a))
      <4>1. UNCHANGED <<reviews, stats, audit>>
        BY <1>7, <3>3 DEF CommitResolve
      <4> QED BY <1>0, <4>1 DEF TablesOK
    <3> QED BY <3>1, <3>2, <3>3
  <2>5. TablesOK'
    BY <2>3, <2>4 DEF TablesOK
  <2> QED BY <2>2, <2>4, <2>5, FinishPreserves
<1> QED BY <1>1, <1>2, <1>3, <1>4, <1>5, <1>6, <1>7

-----------------------------------------------------------------------------
\* The invariant holds before the first call.
LEMMA InitIInv == Init => IInv
<1> SUFFICES ASSUME Init PROVE IInv
  OBVIOUS
<1>1. reviews \in [ReviewIds -> ReviewRow \cup {NoRow}]
  BY DEF Init, PublishedRow
<1>2. stats \in [Bars -> StatsRow]
  BY <1>1, ReviewIdsAssumption, RecalculateTyped DEF Init
<1>3. TypeOK
  <2>1. PICK rows \in SUBSET PhotoKeys : photoLock = [k \in rows |-> NoRequest]
    BY DEF Init
  <2> QED BY <1>1, <1>2, <2>1 DEF Init, TypeOK, TablesOK, ReportRow, PC
<1>4. CallsOK
  BY NullsAssumption DEF Init, CallsOK, CallOK
<1> QED BY <1>3, <1>4 DEF IInv

\* A step keeps the types.
LEMMA TypeStep == ASSUME IInv, [Next]_vars PROVE IInv'
<1>1. CASE UNCHANGED vars
  BY <1>1 DEF vars, IInv, TypeOK, TablesOK, CallsOK, CallOK
<1>2. ASSUME NEW q \in Requests, Begin(q) PROVE IInv'
  BY <1>2, BeginPreserves
<1>3. ASSUME NEW q \in Requests, Advance(q) PROVE IInv'
  BY <1>3, StatementPreserves, CommitPreserves, RollbackPreserves DEF Advance, DeadlockAbort
<1> QED BY <1>1, <1>2, <1>3 DEF Next, Quiet

\* Every reachable state is well-typed, for any number of concurrent requests:
\* no interleaving of the handlers drives a column of the aggregate row below
\* zero or leaves a request at a statement its handler does not have.
THEOREM TypeCorrect == Spec => [](TypeOK /\ CallsOK)
<1>1. Init => IInv
  BY InitIInv
<1>2. IInv /\ [Next]_vars => IInv'
  BY TypeStep
<1>3. IInv => TypeOK /\ CallsOK
  BY DEF IInv
<1> QED BY <1>1, <1>2, <1>3, PTL DEF Spec

-----------------------------------------------------------------------------
(* One live review per user and bar.                                        *)

\* The invariant holds in every reachable state.
LEMMA Invariant == Spec => []IInv
<1>1. Spec => [](TypeOK /\ CallsOK)
  BY TypeCorrect
<1>2. TypeOK /\ CallsOK => IInv
  BY DEF IInv
<1> QED BY <1>1, <1>2, PTL

\* A request before its COMMIT, or one that is rolled back, writes no table.
LEMMA NoTableWritten ==
    ASSUME NEW q \in Requests,
           Begin(q) \/ AdjustStatement(q) \/ SaveSelect(q) \/ LockReview(q)
              \/ LockReport(q) \/ LockPhoto(q) \/ DeadlockAbort(q)
    PROVE  UNCHANGED tables
  BY DEF Begin, StartCreate, StartUpdate, StartRemove, StartAdminDelete, StartModerate,
         StartReport, StartResolve, Start, AdjustStatement, SaveSelect, LockReview,
         LockReport, LockPhoto, DeadlockAbort, Rollback, tables

\* A committing request serves a handler on an existing review.
LEMMA CommitTarget ==
    ASSUME IInv, NEW q \in Requests, pc[q] = "commit"
    PROVE  /\ call[q] \in Call /\ call[q].op # "create"
           /\ call[q].r \in ReviewIds
           /\ reviews[call[q].r] \in ReviewRow /\ reviews[call[q].r] # NoRow
           /\ call[q].op \in PreRead => ent[q] \in ReviewRow /\ ent[q] # NoRow
<1>1. CallOK(q) /\ TypeOK /\ TablesOK
  BY DEF IInv, CallsOK, TypeOK
<1>2. call[q] \in Call /\ call[q].op # "create" /\ call[q] # NoCall
  BY <1>1, NullsAssumption DEF CallOK
<1>3. call[q].r \in ReviewIds
  BY <1>2, CallFields
<1> QED BY <1>1, <1>2, <1>3 DEF CallOK, TypeOK, TablesOK

\* Writing one row keeps live reviews unique if the row is deleted or the unique
\* index lets it through.
LEMMA UniqueRowWrite ==
    ASSUME IInv, OneActiveReviewPerBar, NEW r \in ReviewIds, NEW row \in ReviewRow,
           row.deleted \/ ~Duplicate(reviews, r, row.user, row.bar),
           reviews' = [reviews EXCEPT ![r] = row]
    PROVE  OneActiveReviewPerBar'
<1>1. reviews \in [ReviewIds -> ReviewRow \cup {NoRow}]
  BY DEF IInv, TypeOK, TablesOK
<1> SUFFICES ASSUME NEW s \in ReviewIds, NEW t \in ReviewIds, Found(s)', Found(t)',
                    reviews'[s].user = reviews'[t].user, reviews'[s].bar = reviews'[t].bar
             PROVE  s = t
  BY DEF OneActiveReviewPerBar
<1>2. CASE s # r /\ t # r
  BY <1>1, <1>2 DEF OneActiveReviewPerBar, Found
<1>3. CASE s = r
  BY <1>1, <1>3 DEF Duplicate, Found
<1>4. CASE t = r
  BY <1>1, <1>4 DEF Duplicate, Found
<1> QED BY <1>2, <1>3, <1>4

\* A change of the status of a live review, or its deletion, keeps uniqueness.
LEMMA UniqueSameOwner ==
    ASSUME IInv, OneActiveReviewPerBar, NEW r \in ReviewIds, reviews[r] \in ReviewRow,
           reviews[r] # NoRow, NEW row \in ReviewRow, row.user = reviews[r].user,
           row.bar = reviews[r].bar, row.deleted \/ ~reviews[r].deleted,
           reviews' = [reviews EXCEPT ![r] = row]
    PROVE  OneActiveReviewPerBar'
<1>1. CASE row.deleted
  BY <1>1, UniqueRowWrite
<1>2. CASE ~reviews[r].deleted
  <2>1. ~Duplicate(reviews, r, row.user, row.bar)
    BY <1>2 DEF OneActiveReviewPerBar, Duplicate, Found
  <2> QED BY <2>1, UniqueRowWrite
<1> QED BY <1>1, <1>2

\* A user never has two live reviews of a bar: the check of create() outside its
\* transaction can be overtaken, but every write that makes a review live, also
\* a save() that brings a deleted one back, passes the partial unique index.
THEOREM OneActive == Spec => []OneActiveReviewPerBar
<1>1. Init => OneActiveReviewPerBar
  BY DEF Init, OneActiveReviewPerBar, Found, Duplicate
<1>2. IInv /\ OneActiveReviewPerBar /\ [Next]_vars => OneActiveReviewPerBar'
  <2> SUFFICES ASSUME IInv, OneActiveReviewPerBar, [Next]_vars
               PROVE  OneActiveReviewPerBar'
    OBVIOUS
  <2>1. CASE UNCHANGED reviews
    BY <2>1 DEF OneActiveReviewPerBar, Found
  <2>2. ASSUME NEW q \in Requests, CommitCreate(q) PROVE OneActiveReviewPerBar'
    <3>1. CallOK(q) /\ pc[q] = "insert"
      BY <2>2 DEF IInv, CallsOK, CommitCreate
    <3>2. call[q] \in Call /\ call[q].op = "create"
      BY <3>1, NullsAssumption DEF CallOK
    <3>3. call[q].user \in Users /\ call[q].bar \in Bars /\ call[q].rating \in Ratings
      BY <3>2, CallFields
    <3> DEFINE row == [user |-> call[q].user, bar |-> call[q].bar, rating |-> call[q].rating,
                       status |-> "PUBLISHED", photoCount |-> 0, deleted |-> FALSE]
    <3>4. row \in ReviewRow
      BY <3>3, BoundsAssumption DEF ReviewRow, ReviewStatus
    <3>5. PICK r \in ReviewIds :
             \/ UNCHANGED reviews
             \/ /\ ~Duplicate(reviews, r, call[q].user, call[q].bar)
                /\ reviews' = [reviews EXCEPT ![r] = row]
      BY <2>2 DEF CommitCreate, Rollback, tables
    <3>6. CASE reviews' = [reviews EXCEPT ![r] = row]
               /\ ~Duplicate(reviews, r, call[q].user, call[q].bar)
      <4>1. row.user = call[q].user /\ row.bar = call[q].bar
        OBVIOUS
      <4> HIDE DEF row
      <4> QED BY <3>4, <3>6, <4>1, UniqueRowWrite
    <3> QED BY <2>1, <3>5, <3>6
  <2>3. ASSUME NEW q \in Requests, CommitUpdate(q) \/ CommitModerate(q)
        PROVE  OneActiveReviewPerBar'
    <3>1. /\ call[q].r \in ReviewIds /\ reviews[call[q].r] \in ReviewRow
          /\ reviews[call[q].r] # NoRow /\ ent[q] \in ReviewRow /\ ent[q] # NoRow
      BY <2>3, CommitTarget DEF CommitUpdate, CommitModerate, PreRead
    <3>2. CASE SaveRejected(q)
      BY <2>1, <2>3, <3>2 DEF CommitUpdate, CommitModerate, Rollback, tables
    <3>3. CASE ~SaveRejected(q)
      <4> DEFINE row == Patched(reviews[call[q].r], Entity(q), cols[q])
      <4>1. row \in ReviewRow
        BY <3>1, EntityTyped, PatchedTyped
      <4>2. row.deleted \/ ~Duplicate(reviews, call[q].r, row.user, row.bar)
        BY <3>3 DEF SaveRejected
      <4>3. reviews' = [reviews EXCEPT ![call[q].r] = row]
        BY <2>3, <3>3 DEF CommitUpdate, CommitModerate, SaveUpdate
      <4> HIDE DEF row
      <4> QED BY <3>1, <4>1, <4>2, <4>3, UniqueRowWrite
    <3> QED BY <3>2, <3>3
  <2>4. ASSUME NEW q \in Requests, NEW r \in ReviewIds, reviews[r] \in ReviewRow,
               reviews[r] # NoRow,
               reviews' = [reviews EXCEPT ![r].deleted = TRUE]
        PROVE  OneActiveReviewPerBar'
    <3> DEFINE row == [reviews[r] EXCEPT !.deleted = TRUE]
    <3>1. /\ row \in ReviewRow /\ row.deleted
          /\ row.user = reviews[r].user /\ row.bar = reviews[r].bar
      BY <2>4 DEF ReviewRow
    <3>2. reviews' = [reviews EXCEPT ![r] = row]
      BY <2>4
    <3> HIDE DEF row
    <3> QED BY <2>4, <3>1, <3>2, UniqueSameOwner
  <2>5. ASSUME NEW q \in Requests, CommitRemove(q) \/ CommitAdminDelete(q)
        PROVE  OneActiveReviewPerBar'
    <3>1. /\ call[q].r \in ReviewIds /\ reviews[call[q].r] \in ReviewRow
          /\ reviews[call[q].r] # NoRow
          /\ reviews' = [reviews EXCEPT ![call[q].r].deleted = TRUE]
      BY <2>5, CommitTarget
         DEF CommitRemove, CommitAdminDelete, DeleteReviewWithManager, SoftRemove
    <3> QED BY <2>4, <3>1
  <2>6. ASSUME NEW q \in Requests, NEW r \in ReviewIds, reviews[r] \in ReviewRow,
               reviews[r] # NoRow, ~reviews[r].deleted, NEW s \in ReviewStatus,
               reviews' = [reviews EXCEPT ![r].status = s]
        PROVE  OneActiveReviewPerBar'
    <3> DEFINE row == [reviews[r] EXCEPT !.status = s]
    <3>1. /\ row \in ReviewRow
          /\ row.user = reviews[r].user /\ row.bar = reviews[r].bar
      BY <2>6 DEF ReviewRow
    <3>2. reviews' = [reviews EXCEPT ![r] = row]
      BY <2>6
    <3> HIDE DEF row
    <3> QED BY <2>6, <3>1, <3>2, UniqueSameOwner
  <2>7. ASSUME NEW q \in Requests, CommitReport(q) PROVE OneActiveReviewPerBar'
    <3>1. /\ call[q].r \in ReviewIds /\ reviews[call[q].r] \in ReviewRow
          /\ reviews[call[q].r] # NoRow
      BY <2>7, CommitTarget DEF CommitReport
    <3>2. \/ UNCHANGED reviews
          \/ /\ ~reviews[call[q].r].deleted
             /\ reviews' = [reviews EXCEPT ![call[q].r].status = "REPORTED"]
      BY <2>7 DEF CommitReport, Refused, Rollback, tables
    <3> QED BY <2>1, <2>6, <3>1, <3>2 DEF ReviewStatus
  <2>8. ASSUME NEW q \in Requests, CommitResolve(q) PROVE OneActiveReviewPerBar'
    <3>1. /\ call[q].r \in ReviewIds /\ reviews[call[q].r] \in ReviewRow
          /\ reviews[call[q].r] # NoRow
      BY <2>8, CommitTarget DEF CommitResolve
    <3>2. \/ UNCHANGED reviews
          \/ reviews' = [reviews EXCEPT ![call[q].r].deleted = TRUE]
          \/ /\ ~reviews[call[q].r].deleted
             /\ reviews' = [reviews EXCEPT ![call[q].r].status = Target(call[q].action)]
      BY <2>8 DEF CommitResolve, DeleteReviewWithManager, SoftRemove
    <3>3. Target(call[q].action) \in ReviewStatus
      BY DEF Target, ReviewStatus
    <3> QED BY <2>1, <2>4, <2>6, <3>1, <3>2, <3>3
  <2>9. CASE UNCHANGED vars
    BY <2>1, <2>9 DEF vars
  <2> QED BY <2>1, <2>2, <2>3, <2>5, <2>7, <2>8, <2>9, NoTableWritten
          DEF Next, Advance, Quiet, vars, tables
<1> QED BY <1>1, <1>2, Invariant, PTL DEF Spec

-----------------------------------------------------------------------------
(* A HIDDEN review has a record.  A stale entity can write HIDDEN back, so   *)
(* the invariant has to cover the entities still in memory as well.          *)

EntitiesAudited ==
    \A q \in Requests : ent[q] # NoRow /\ ent[q].status = "HIDDEN"
                            => audit[call[q].r]["REVIEW_HIDDEN"] > 0

\* The log of actions only grows.
LEMMA AuditGrows ==
    ASSUME IInv, [Next]_vars, NEW r \in ReviewIds
    PROVE  audit'[r]["REVIEW_HIDDEN"] >= audit[r]["REVIEW_HIDDEN"]
<1>1. audit \in [ReviewIds -> [AdminActionType -> Nat]] /\ "REVIEW_HIDDEN" \in AdminActionType
  BY DEF IInv, TypeOK, TablesOK, AdminActionType
<1>2. audit[r]["REVIEW_HIDDEN"] \in Nat
  <2>1. audit[r] \in [AdminActionType -> Nat]
    BY <1>1
  <2> QED BY <1>1, <2>1
<1>3. CASE UNCHANGED audit
  BY <1>2, <1>3
<1>4. ASSUME NEW s, NEW t \in AdminActionType, audit' = Logged(s, t)
      PROVE  audit'[r]["REVIEW_HIDDEN"] >= audit[r]["REVIEW_HIDDEN"]
  <2>1. audit'[r]["REVIEW_HIDDEN"] \in {audit[r]["REVIEW_HIDDEN"], audit[r]["REVIEW_HIDDEN"] + 1}
    BY <1>1, <1>4 DEF Logged
  <2> QED BY <1>2, <2>1
<1>5. ASSUME NEW q \in Requests, Advance(q)
      PROVE  UNCHANGED audit \/ \E s, t : t \in AdminActionType /\ audit' = Logged(s, t)
  <2>1. CASE CommitCreate(q) \/ CommitUpdate(q) \/ CommitRemove(q) \/ CommitReport(q)
    BY <2>1 DEF CommitCreate, CommitUpdate, CommitRemove, CommitReport, Rollback, tables
  <2>2. CASE CommitAdminDelete(q)
    BY <2>2 DEF CommitAdminDelete, DeleteReviewWithManager, AdminActionType
  <2>3. CASE CommitModerate(q)
    BY <2>3 DEF CommitModerate, ModerateReviewWithManager, AdminActionType, Rollback, tables
  <2>4. CASE CommitResolve(q)
    BY <2>4 DEF CommitResolve, DeleteReviewWithManager, ModerateReviewWithManager,
                AdminActionType
  <2> QED BY <1>5, <2>1, <2>2, <2>3, <2>4, NoTableWritten DEF Advance, tables
<1> QED BY <1>3, <1>4, <1>5, NoTableWritten DEF Next, Quiet, vars, tables

\* Moderating a review to HIDDEN leaves a record of it.
LEMMA HidingLogged ==
    ASSUME IInv, NEW r \in ReviewIds, NEW e,
           ModerateReviewWithManager(r, e, "HIDDEN")
    PROVE  audit'[r]["REVIEW_HIDDEN"] > 0
<1>1. audit \in [ReviewIds -> [AdminActionType -> Nat]] /\ "REVIEW_HIDDEN" \in AdminActionType
  BY DEF IInv, TypeOK, TablesOK, AdminActionType
<1>2. audit[r]["REVIEW_HIDDEN"] \in Nat
  <2>1. audit[r] \in [AdminActionType -> Nat]
    BY <1>1
  <2> QED BY <1>1, <2>1
<1>3. audit' = Logged(r, "REVIEW_HIDDEN")
  BY DEF ModerateReviewWithManager
<1>4. audit'[r]["REVIEW_HIDDEN"] = audit[r]["REVIEW_HIDDEN"] + 1
  BY <1>1, <1>3 DEF Logged
<1> QED BY <1>2, <1>4

\* What a transaction can make HIDDEN: a review that was, one whose entity was,
\* or one it logs as hidden.
LEMMA HiddenWrite ==
    ASSUME IInv, NEW q \in Requests, Advance(q), NEW r \in ReviewIds,
           reviews'[r] # NoRow, reviews'[r].status = "HIDDEN"
    PROVE  \/ reviews[r] # NoRow /\ reviews[r].status = "HIDDEN"
           \/ ent[q] # NoRow /\ ent[q].status = "HIDDEN" /\ call[q].r = r
           \/ audit'[r]["REVIEW_HIDDEN"] > 0
<1>0. reviews \in [ReviewIds -> ReviewRow \cup {NoRow}]
  BY DEF IInv, TypeOK, TablesOK
<1>1. CASE UNCHANGED reviews
  BY <1>1
<1>2. CASE CommitCreate(q)
  <2>1. \/ UNCHANGED reviews
        \/ \E s \in ReviewIds :
             reviews' = [reviews EXCEPT ![s] =
                [user |-> call[q].user, bar |-> call[q].bar, rating |-> call[q].rating,
                 status |-> "PUBLISHED", photoCount |-> 0, deleted |-> FALSE]]
    BY <1>2 DEF CommitCreate, Rollback, tables
  <2> QED BY <1>0, <2>1
<1>3. CASE CommitUpdate(q) \/ CommitModerate(q)
  <2>1. /\ call[q].r \in ReviewIds /\ reviews[call[q].r] \in ReviewRow
        /\ reviews[call[q].r] # NoRow /\ ent[q] \in ReviewRow /\ ent[q] # NoRow
    BY <1>3, CommitTarget DEF CommitUpdate, CommitModerate, PreRead
  <2>2. CASE SaveRejected(q)
    BY <1>1, <1>3, <2>2 DEF CommitUpdate, CommitModerate, Rollback, tables
  <2>3. CASE ~SaveRejected(q)
    <3>1. reviews' = [reviews EXCEPT ![call[q].r] =
                         Patched(reviews[call[q].r], Entity(q), cols[q])]
      BY <1>3, <2>3 DEF CommitUpdate, CommitModerate, SaveUpdate
    <3>2. Patched(reviews[call[q].r], Entity(q), cols[q]).status
             \in {reviews[call[q].r].status, Entity(q).status}
      BY <2>1, EntityTyped, PatchedTyped
    <3>3. CASE r # call[q].r
      BY <1>0, <3>1, <3>3
    <3>4. CASE r = call[q].r /\ Entity(q).status = "HIDDEN"
      <4>1. CASE CommitUpdate(q)
        BY <2>1, <3>4, <4>1, EntityTyped DEF CommitUpdate
      <4>2. CASE CommitModerate(q)
        <5>1. call[q].status = "HIDDEN"
          BY <2>1, <3>4, <4>2, EntityTyped DEF CommitModerate
        <5> QED BY <2>1, <2>3, <3>4, <4>2, <5>1, HidingLogged DEF CommitModerate
      <4> QED BY <1>3, <4>1, <4>2
    <3>5. CASE r = call[q].r /\ Entity(q).status # "HIDDEN"
      BY <1>0, <2>1, <3>1, <3>2, <3>5
    <3> QED BY <3>3, <3>4, <3>5
  <2> QED BY <2>2, <2>3
<1>4. CASE CommitRemove(q) \/ CommitAdminDelete(q)
  <2>1. /\ call[q].r \in ReviewIds
        /\ reviews[call[q].r] \in ReviewRow /\ reviews[call[q].r] # NoRow
        /\ reviews' = [reviews EXCEPT ![call[q].r].deleted = TRUE]
    BY <1>4, CommitTarget DEF CommitRemove, CommitAdminDelete, DeleteReviewWithManager, SoftRemove
  <2> QED BY <1>0, <2>1 DEF ReviewRow
<1>5. CASE CommitReport(q)
  <2>1. \/ UNCHANGED reviews
        \/ reviews' = [reviews EXCEPT ![call[q].r].status = "REPORTED"]
    BY <1>5 DEF CommitReport, Rollback, tables
  <2>2. call[q].r \in ReviewIds /\ reviews[call[q].r] \in ReviewRow
    BY <1>5, CommitTarget DEF CommitReport
  <2> QED BY <1>0, <2>1, <2>2 DEF ReviewRow
<1>6. CASE CommitResolve(q)
  <2> DEFINE t == call[q].r
             s == Target(call[q].action)
  <2>1. t \in ReviewIds /\ reviews[t] \in ReviewRow /\ reviews[t] # NoRow
    BY <1>6, CommitTarget DEF CommitResolve
  <2>2. \/ UNCHANGED reviews
        \/ reviews' = [reviews EXCEPT ![t].deleted = TRUE]
        \/ /\ reviews' = [reviews EXCEPT ![t].status = s]
           /\ ModerateReviewWithManager(t, reviews[t], s)
    BY <1>6 DEF CommitResolve, DeleteReviewWithManager, SoftRemove
  <2>3. CASE reviews' = [reviews EXCEPT ![t].deleted = TRUE]
    BY <1>0, <2>1, <2>3 DEF ReviewRow
  <2>4. CASE /\ reviews' = [reviews EXCEPT ![t].status = s]
             /\ ModerateReviewWithManager(t, reviews[t], s)
    <3>1. CASE r # t
      BY <1>0, <2>4, <3>1
    <3>2. CASE r = t
      <4>1. reviews'[r].status = s
        BY <1>0, <2>1, <2>4, <3>2 DEF ReviewRow
      <4> QED BY <2>1, <2>4, <3>2, <4>1, HidingLogged
    <3> QED BY <3>1, <3>2
  <2> QED BY <1>1, <2>2, <2>3, <2>4
<1> QED BY <1>1, <1>2, <1>3, <1>4, <1>5, <1>6, NoTableWritten DEF Advance, tables

\* The entity of a request after a step: none, the one it had, or, when its
\* handler begins, the row it reads.
LEMMA EntityAfter ==
    ASSUME IInv, [Next]_vars, NEW q \in Requests, ent'[q] # NoRow
    PROVE  \/ ent'[q] = ent[q] /\ call'[q] = call[q]
           \/ /\ call'[q].r \in ReviewIds /\ ent'[q] = reviews[call'[q].r]
              /\ UNCHANGED tables
<1>0. ent \in [Requests -> ReviewRow \cup {NoRow}] /\ call \in [Requests -> Call \cup {NoCall}]
  BY DEF IInv, TypeOK
<1>1. CASE UNCHANGED vars
  BY <1>1 DEF vars
<1>2. ASSUME NEW p \in Requests, Advance(p)
      PROVE  ent'[q] = ent[q] /\ call'[q] = call[q]
  <2>1. Finish(p) \/ UNCHANGED <<ent, call>>
    BY <1>2 DEF Advance, AdjustStatement, SaveSelect, LockReview, LockReport, LockPhoto,
                CommitCreate,
                CommitUpdate, CommitRemove, CommitAdminDelete, CommitModerate,
                CommitReport, CommitResolve, DeadlockAbort, Rollback
  <2>2. CASE Finish(p)
    BY <1>0, <2>2 DEF Finish
  <2> QED BY <2>1, <2>2
<1>3. ASSUME NEW p \in Requests, NEW c, NEW e, NEW first, Start(p, c, e, first),
             e # NoRow => c.r \in ReviewIds /\ e = reviews[c.r]
      PROVE  \/ ent'[q] = ent[q] /\ call'[q] = call[q]
             \/ /\ call'[q].r \in ReviewIds /\ ent'[q] = reviews[call'[q].r]
                /\ UNCHANGED tables
  BY <1>0, <1>3 DEF Start
<1>4. ASSUME NEW p \in Requests, Begin(p)
      PROVE  \E c, e, first : /\ Start(p, c, e, first)
                              /\ e # NoRow => c.r \in ReviewIds /\ e = reviews[c.r]
  <2>1. CASE StartCreate(p)
    BY <2>1 DEF StartCreate
  <2>2. CASE StartUpdate(p)
    <3>1. PICK r \in ReviewIds, s \in Ratings \cup {NoRating} : \E first :
            Start(p, [op |-> "update", r |-> r, user |-> reviews[r].user, rating |-> s],
                  reviews[r], first)
      BY <2>2 DEF StartUpdate
    <3>2. [op |-> "update", r |-> r, user |-> reviews[r].user, rating |-> s].r = r
      OBVIOUS
    <3> QED BY <3>1, <3>2
  <2>3. CASE StartRemove(p) \/ StartAdminDelete(p)
    <3>1. PICK r \in ReviewIds, o \in {"remove", "adminDelete"} :
            Start(p, [op |-> o, r |-> r], reviews[r], FirstOfDeletion(r))
      BY <2>3 DEF StartRemove, StartAdminDelete
    <3>2. [op |-> o, r |-> r].r = r
      OBVIOUS
    <3> QED BY <3>1, <3>2
  <2>4. CASE StartModerate(p)
    <3>1. PICK r \in ReviewIds, s \in ReviewStatus :
            Start(p, [op |-> "moderate", r |-> r, status |-> s], reviews[r], "select")
      BY <2>4 DEF StartModerate
    <3>2. [op |-> "moderate", r |-> r, status |-> s].r = r
      OBVIOUS
    <3> QED BY <3>1, <3>2
  <2>5. CASE StartReport(p) \/ StartResolve(p)
    BY <2>5 DEF StartReport, StartResolve
  <2> QED BY <1>4, <2>1, <2>2, <2>3, <2>4, <2>5 DEF Begin
<1> QED BY <1>1, <1>2, <1>3, <1>4 DEF Next, Quiet

\* No review is HIDDEN without a record in the audit log, whatever stale entities
\* concurrent handlers write back.
THEOREM HiddenAudited == Spec => []HiddenIsAudited
<1> DEFINE Inv == HiddenIsAudited /\ EntitiesAudited
<1>1. Init => Inv
  BY DEF Init, HiddenIsAudited, EntitiesAudited, PublishedRow
<1>2. IInv /\ Inv /\ [Next]_vars => Inv'
  <2> SUFFICES ASSUME IInv, Inv, [Next]_vars PROVE Inv'
    OBVIOUS
  <2>1. \A r \in ReviewIds : audit[r]["REVIEW_HIDDEN"] > 0 => audit'[r]["REVIEW_HIDDEN"] > 0
    <3> SUFFICES ASSUME NEW r \in ReviewIds, audit[r]["REVIEW_HIDDEN"] > 0
                 PROVE  audit'[r]["REVIEW_HIDDEN"] > 0
      OBVIOUS
    <3>1. audit[r] \in [AdminActionType -> Nat] /\ audit'[r] \in [AdminActionType -> Nat]
      <4>1. IInv'
        BY TypeStep
      <4> QED BY <4>1 DEF IInv, TypeOK, TablesOK
    <3>2. audit[r]["REVIEW_HIDDEN"] \in Nat /\ audit'[r]["REVIEW_HIDDEN"] \in Nat
      BY <3>1 DEF AdminActionType
    <3> QED BY <3>2, AuditGrows
  <2>2. ASSUME NEW q \in Requests, ent[q] # NoRow PROVE call[q].r \in ReviewIds
    <3>1. call[q] \in Call /\ call[q].op # "create"
      BY <2>2, NullsAssumption DEF IInv, CallsOK, CallOK, TypeOK, PreRead
    <3> QED BY <3>1, CallFields
  <2>3. HiddenIsAudited'
    <3> SUFFICES ASSUME NEW r \in ReviewIds, reviews'[r] # NoRow, reviews'[r].status = "HIDDEN"
                 PROVE  audit'[r]["REVIEW_HIDDEN"] > 0
      BY DEF HiddenIsAudited
    <3>1. CASE UNCHANGED reviews
      BY <2>1, <3>1 DEF HiddenIsAudited
    <3>2. ASSUME NEW q \in Requests, Advance(q) PROVE audit'[r]["REVIEW_HIDDEN"] > 0
      <4>1. \/ reviews[r] # NoRow /\ reviews[r].status = "HIDDEN"
            \/ ent[q] # NoRow /\ ent[q].status = "HIDDEN" /\ call[q].r = r
            \/ audit'[r]["REVIEW_HIDDEN"] > 0
        BY <3>2, HiddenWrite
      <4> QED BY <2>1, <4>1 DEF HiddenIsAudited, EntitiesAudited
    <3> QED BY <3>1, <3>2, NoTableWritten DEF Next, Quiet, vars, tables
  <2>4. EntitiesAudited'
    <3> SUFFICES ASSUME NEW q \in Requests, ent'[q] # NoRow, ent'[q].status = "HIDDEN"
                 PROVE  audit'[call'[q].r]["REVIEW_HIDDEN"] > 0
      BY DEF EntitiesAudited
    <3>1. CASE ent'[q] = ent[q] /\ call'[q] = call[q]
      BY <2>1, <2>2, <3>1 DEF EntitiesAudited
    <3>2. CASE call'[q].r \in ReviewIds /\ ent'[q] = reviews[call'[q].r] /\ UNCHANGED tables
      BY <2>1, <3>2 DEF HiddenIsAudited, tables
    <3> QED BY <3>1, <3>2, EntityAfter
  <2> QED BY <2>3, <2>4
<1> QED BY <1>1, <1>2, Invariant, PTL DEF Spec

-----------------------------------------------------------------------------
(* Reports.                                                                 *)

\* What the statements of one request do to the reports: all but the commits of
\* submitReport and resolveReport leave them.
LEMMA ReportsWrite ==
    ASSUME IInv, NEW q \in Requests, Advance(q),
           NEW k \in ReportKeys, reports[k] \in ReportResolution
    PROVE  reports'[k] = reports[k]
<1>0. reports \in [ReportKeys -> ReportRow]
  BY DEF IInv, TypeOK, TablesOK
<1>1. CASE CommitReport(q)
  <2>1. CASE Refused(q)
    BY <1>1, <2>1 DEF CommitReport, Rollback, tables
  <2>2. CASE ~Refused(q)
    <3>1. /\ reports[<<call[q].r, call[q].user>>] = "none"
          /\ reports' = [reports EXCEPT ![<<call[q].r, call[q].user>>] = "PENDING"]
      BY <1>1, <2>2 DEF CommitReport, Refused
    <3>2. k # <<call[q].r, call[q].user>>
      BY <3>1 DEF ReportResolution
    <3> QED BY <1>0, <3>1, <3>2
  <2> QED BY <2>1, <2>2
<1>2. CASE CommitResolve(q)
  <2>1. k \notin Siblings(q)
    BY DEF Siblings, ReportResolution
  <2> QED BY <1>2, <2>1 DEF CommitResolve
<1>3. CASE CommitCreate(q)
  BY <1>3 DEF CommitCreate, Rollback, tables
<1>4. CASE CommitUpdate(q) \/ CommitModerate(q)
  BY <1>4 DEF CommitUpdate, CommitModerate, Rollback, tables
<1>5. CASE CommitRemove(q) \/ CommitAdminDelete(q)
  BY <1>5 DEF CommitRemove, CommitAdminDelete
<1> QED BY <1>1, <1>2, <1>3, <1>4, <1>5, NoTableWritten DEF Advance, tables

\* A report is decided once, for every number of administrators, reports and
\* interleavings of their handlers.
THEOREM Resolved == Spec => ResolutionIsFinal
<1>1. ASSUME IInv, [Next]_vars
      PROVE  [\A k \in ReportKeys : reports[k] \in ReportResolution
                                        => reports'[k] = reports[k]]_vars
  <2> SUFFICES ASSUME NEW k \in ReportKeys, reports[k] \in ReportResolution
               PROVE  reports'[k] = reports[k]
    OBVIOUS
  <2>1. ASSUME NEW q \in Requests, Begin(q) PROVE UNCHANGED reports
    BY <2>1, NoTableWritten DEF tables
  <2> QED BY <1>1, <2>1, ReportsWrite DEF Next, Quiet, vars
<1> QED BY <1>1, Invariant, PTL DEF Spec, ResolutionIsFinal

-----------------------------------------------------------------------------
(* The lock order.  Deadlocks are characterised from what a lock says about *)
(* its holder, which is one more inductive invariant.                       *)

\* An aggregate row is held by a rating edit that has passed its first statement,
\* a review by the request about to commit on it or by a resolver that deletes its
\* photos, a report by its resolver, a photo by a request that deletes its review:
\* what the locks say of one request.
HoldsOK(q) ==
    /\ \A b \in Bars : statsLock[b] = q =>
          call[q].op = "update" /\ pc[q] \in {"select", "lock", "commit"}
    /\ \A r \in ReviewIds : reviewLock[r] = q =>
          /\ call[q].r = r
          /\ pc[q] = "commit" \/ (pc[q] = "photos" /\ call[q].op = "resolve")
    /\ \A k \in ReportKeys : reportLock[k] = q =>
          /\ call[q].op = "resolve" /\ pc[q] \in {"lock", "photos", "commit"}
          /\ k = <<call[q].r, call[q].user>>
    /\ \A k \in DOMAIN photoLock : photoLock[k] = q =>
          pc[q] \in {"photos", "lock", "commit"} /\ k[1] = call[q].r

LocksOK == \A q \in Requests : HoldsOK(q)

\* A step of one request gives no lock to another and moves no other.
LEMMA OthersHold ==
    ASSUME LocksOK, NEW p \in Requests, HoldsOK(p)',
           DOMAIN photoLock' = DOMAIN photoLock,
           \A q \in Requests \ {p} :
              /\ pc'[q] = pc[q] /\ call'[q] = call[q]
              /\ \A b \in Bars : statsLock'[b] = q => statsLock[b] = q
              /\ \A r \in ReviewIds : reviewLock'[r] = q => reviewLock[r] = q
              /\ \A k \in ReportKeys : reportLock'[k] = q => reportLock[k] = q
              /\ \A k \in DOMAIN photoLock : photoLock'[k] = q => photoLock[k] = q
    PROVE  LocksOK'
<1>1. ASSUME NEW q \in Requests \ {p} PROVE HoldsOK(q)'
  <2>1. HoldsOK(q)
    BY DEF LocksOK
  <2> QED BY <2>1 DEF HoldsOK
<1> QED BY <1>1 DEF LocksOK

\* A request that is not inside a transaction, or at its first statement, holds
\* no lock.
LEMMA HoldsNothing ==
    ASSUME LocksOK, NEW p \in Requests,
           pc[p] \notin {"select", "lock", "photos", "commit"}
    PROVE  /\ \A b \in Bars : statsLock[b] # p
           /\ \A r \in ReviewIds : reviewLock[r] # p
           /\ \A k \in ReportKeys : reportLock[k] # p
           /\ \A k \in DOMAIN photoLock : photoLock[k] # p
  BY DEF LocksOK, HoldsOK

\* A statement of a request takes one lock, or ends its transaction.
LEMMA LocksPreserved == ASSUME IInv, LocksOK, [Next]_vars PROVE LocksOK'
<1>0. /\ reviewLock \in [ReviewIds -> Requests \cup {NoRequest}]
      /\ statsLock \in [Bars -> Requests \cup {NoRequest}]
      /\ reportLock \in [ReportKeys -> Requests \cup {NoRequest}]
      /\ photoLock \in [DOMAIN photoLock -> Requests \cup {NoRequest}]
      /\ pc \in [Requests -> PC] /\ call \in [Requests -> Call \cup {NoCall}]
  BY DEF IInv, TypeOK
<1>1. CASE UNCHANGED vars
  BY <1>1 DEF vars, LocksOK, HoldsOK
<1>2. ASSUME NEW p \in Requests, Begin(p) PROVE LocksOK'
  <2>1. \E c, e, first : Start(p, c, e, first)
    BY <1>2 DEF Begin, StartCreate, StartUpdate, StartRemove, StartAdminDelete, StartModerate,
                StartReport, StartResolve
  <2>2. /\ pc[p] = "idle" /\ UNCHANGED <<reviewLock, statsLock, reportLock, photoLock>>
        /\ \A q \in Requests \ {p} : pc'[q] = pc[q] /\ call'[q] = call[q]
    BY <1>0, <2>1 DEF Start, locks
  <2>3. HoldsOK(p)'
    BY <2>2, HoldsNothing DEF HoldsOK
  <2> QED BY <2>2, <2>3, OthersHold
<1>3. ASSUME NEW p \in Requests, AdjustStatement(p) PROVE LocksOK'
  <2>1. CallOK(p)
    BY DEF IInv, CallsOK
  <2>2. /\ pc[p] = "adjust" /\ call[p].op = "update"
        /\ pc' = [pc EXCEPT ![p] = "select"]
        /\ UNCHANGED <<call, reviewLock, reportLock, photoLock>>
        /\ \A b \in Bars : statsLock'[b] \in {p, statsLock[b]}
    BY <1>0, <1>3, <2>1 DEF AdjustStatement, CallOK
  <2>3. HoldsOK(p)'
    BY <1>0, <2>2, HoldsNothing DEF HoldsOK
  <2> QED BY <1>0, <2>2, <2>3, OthersHold
<1>4. ASSUME NEW p \in Requests, SaveSelect(p) PROVE LocksOK'
  <2>1. /\ pc[p] = "select" /\ pc'[p] = "lock"
        /\ UNCHANGED <<call, reviewLock, statsLock, reportLock, photoLock>>
        /\ \A q \in Requests \ {p} : pc'[q] = pc[q]
    BY <1>0, <1>4 DEF SaveSelect, locks
  <2>2. HoldsOK(p)'
    BY <2>1 DEF LocksOK, HoldsOK
  <2> QED BY <2>1, <2>2, OthersHold
<1>5. ASSUME NEW p \in Requests, LockReview(p) PROVE LocksOK'
  <2>1. /\ pc[p] = "lock" /\ UNCHANGED <<call, statsLock, reportLock, photoLock>>
        /\ pc' = [pc EXCEPT ![p] = IF DeletesPhotos(p) THEN "photos" ELSE "commit"]
        /\ reviewLock' = [reviewLock EXCEPT ![call[p].r] = p]
    BY <1>5 DEF LockReview
  <2>2. ASSUME NEW r \in ReviewIds
        PROVE  \/ reviewLock'[r] = reviewLock[r]
               \/ reviewLock'[r] = p /\ r = call[p].r
    <3>1. CASE r = call[p].r
      BY <1>0, <2>1, <3>1
    <3>2. CASE r # call[p].r
      BY <1>0, <2>1, <3>2
    <3> QED BY <3>1, <3>2
  <2>3. /\ \A q \in Requests \ {p} : pc'[q] = pc[q]
        /\ pc'[p] = "commit" \/ (pc'[p] = "photos" /\ call[p].op = "resolve")
    BY <1>0, <2>1 DEF DeletesPhotos
  <2>4. HoldsOK(p)
    BY DEF LocksOK
  <2>5. \A r \in ReviewIds : reviewLock[r] # p
    BY <2>1, <2>4 DEF HoldsOK
  <2>6. \A r \in ReviewIds : reviewLock'[r] = p => r = call[p].r
    BY <2>2, <2>5
  <2>7. ASSUME NEW b \in Bars, statsLock[b] = p PROVE call[p].op = "update" /\ pc'[p] = "commit"
    BY <2>3, <2>4, <2>7 DEF HoldsOK
  <2>8. HoldsOK(p)'
    BY <2>1, <2>3, <2>4, <2>6, <2>7 DEF HoldsOK
  <2> QED BY <2>1, <2>2, <2>3, <2>8, OthersHold
<1>6. ASSUME NEW p \in Requests, LockReport(p), ~Rollback(p) PROVE LocksOK'
  <2>1. CallOK(p)
    BY DEF IInv, CallsOK
  <2>2. /\ pc[p] = "lockReport" /\ call[p].op = "resolve"
        /\ pc' = [pc EXCEPT ![p] = "lock"] /\ UNCHANGED <<call, statsLock, reviewLock, photoLock>>
        /\ reportLock' = [reportLock EXCEPT ![<<call[p].r, call[p].user>>] = p]
    BY <1>6, <2>1 DEF LockReport, CallOK
  <2>3. \A k \in ReportKeys : \/ reportLock'[k] = reportLock[k]
                              \/ reportLock'[k] = p /\ k = <<call[p].r, call[p].user>>
    BY <1>0, <2>2
  <2>4. pc'[p] = "lock" /\ \A q \in Requests \ {p} : pc'[q] = pc[q]
    BY <1>0, <2>2
  <2>5. HoldsOK(p)'
    BY <2>2, <2>3, <2>4, HoldsNothing DEF HoldsOK
  <2> QED BY <2>2, <2>3, <2>4, <2>5, OthersHold
<1>7. ASSUME NEW p \in Requests, LockPhoto(p) PROVE LocksOK'
  <2>1. PICK k \in PhotoRows(call[p].r) :
          /\ photoLock' = [photoLock EXCEPT ![k] = p]
          /\ pc' = [pc EXCEPT ![p] =
                IF \E x \in PhotoRows(call[p].r) \ {k} : photoLock[x] # p THEN "photos"
                ELSE IF call[p].op = "resolve" THEN "commit" ELSE "lock"]
    BY <1>7 DEF LockPhoto
  <2>2. /\ pc[p] = "photos" /\ UNCHANGED <<call, statsLock, reviewLock, reportLock>>
        /\ pc'[p] \in {"photos", "lock", "commit"}
        /\ call[p].op = "resolve" => pc'[p] \in {"photos", "commit"}
        /\ \A q \in Requests \ {p} : pc'[q] = pc[q]
    BY <1>0, <1>7, <2>1 DEF LockPhoto
  <2>3. k \in DOMAIN photoLock /\ k[1] = call[p].r
    BY DEF PhotoRows
  <2>4. DOMAIN photoLock' = DOMAIN photoLock
    BY <1>0, <2>1
  <2>5. ASSUME NEW x \in DOMAIN photoLock
        PROVE  photoLock'[x] = photoLock[x] \/ (photoLock'[x] = p /\ x = k)
    <3>1. photoLock' = [photoLock EXCEPT ![k] = p]
      BY <2>1
    <3> QED BY <1>0, <2>3, <3>1
  <2>6. HoldsOK(p)
    BY DEF LocksOK
  <2>7. \A x \in DOMAIN photoLock : photoLock'[x] = p => x[1] = call[p].r
    BY <2>3, <2>5, <2>6 DEF HoldsOK
  <2>8. HoldsOK(p)'
    BY <2>2, <2>4, <2>6, <2>7 DEF HoldsOK
  <2> QED BY <2>2, <2>4, <2>5, <2>8, OthersHold
<1>8. ASSUME NEW p \in Requests, Finish(p) PROVE LocksOK'
  <2>1. /\ \A r \in ReviewIds, q \in Requests :
              reviewLock'[r] = q => reviewLock[r] = q /\ q # p
        /\ \A b \in Bars, q \in Requests : statsLock'[b] = q => statsLock[b] = q /\ q # p
        /\ \A k \in ReportKeys, q \in Requests :
              reportLock'[k] = q => reportLock[k] = q /\ q # p
    BY <1>0, <1>8, ReleasedTyped DEF Finish
  <2>2. \A k \in DOMAIN photoLock, q \in Requests :
              photoLock'[k] = q => photoLock[k] = q /\ q # p
    BY <1>0, <1>8, ReleasedTyped DEF Finish
  <2>3. \A q \in Requests \ {p} : pc'[q] = pc[q] /\ call'[q] = call[q]
    BY <1>0, <1>8 DEF Finish
  <2>4. DOMAIN photoLock' = DOMAIN photoLock
    BY <1>8 DEF Finish, Released
  <2>5. HoldsOK(p)'
    BY <2>1, <2>2, <2>4 DEF HoldsOK
  <2> QED BY <2>1, <2>2, <2>3, <2>4, <2>5, OthersHold
<1>9. ASSUME NEW p \in Requests, Advance(p)
      PROVE  \/ AdjustStatement(p) \/ SaveSelect(p) \/ LockReview(p) \/ LockReport(p)
             \/ LockPhoto(p) \/ Finish(p)
  BY <1>9 DEF Advance, CommitCreate, CommitUpdate, CommitRemove, CommitAdminDelete,
              CommitModerate, CommitReport, CommitResolve, DeadlockAbort, Rollback
<1> QED BY <1>1, <1>2, <1>3, <1>4, <1>5, <1>6, <1>7, <1>8, <1>9 DEF Next, Quiet, Rollback

\* Who waits for whom, by the kind of the lock.
LEMMA WaitsFor ==
    ASSUME IInv, LocksOK, NEW p \in Requests, NEW o \in Blockers(p)
    PROVE  /\ o \in Requests \ {p}
           /\ \/ call[o].op = "update" /\ pc[o] \in {"select", "lock", "commit"}
              \/ pc[p] = "lock" /\ pc[o] \in {"photos", "commit"}
              \/ call[p].op = "resolve" /\ call[o].op = "resolve" /\ call[p].r = call[o].r
              \/ /\ pc[p] = "photos" /\ pc[o] \in {"photos", "lock", "commit"}
                 /\ \E k \in PhotoRows(call[p].r) : photoLock[k] = o
<1>1. o \in Requests \ {p}
  BY DEF Blockers
<1>2. CallOK(p) /\ TypeOK
  BY DEF IInv, CallsOK
<1>3. CASE pc[p] = "adjust" /\ statsLock[ent[p].bar] = o
  <2>1. ent[p] \in ReviewRow
    BY <1>2, <1>3, NullsAssumption DEF CallOK, TypeOK, PreRead
  <2> QED BY <1>1, <1>3, <2>1 DEF LocksOK, HoldsOK, ReviewRow
<1>4. CASE pc[p] = "lock" /\ reviewLock[call[p].r] = o
  <2>1. call[p] \in Call /\ call[p].op # "create"
    BY <1>2, <1>4, NullsAssumption DEF CallOK
  <2> QED BY <1>1, <1>4, <2>1, CallFields DEF LocksOK, HoldsOK
<1>5. CASE pc[p] = "lockReport" /\ reportLock[<<call[p].r, call[p].user>>] = o
  <2>1. call[p] \in Call /\ call[p].op = "resolve"
    BY <1>2, <1>5 DEF CallOK
  <2>2. <<call[p].r, call[p].user>> \in ReportKeys
    BY <2>1, CallFields DEF ReportKeys
  <2>3. call[o].op = "resolve" /\ <<call[p].r, call[p].user>> = <<call[o].r, call[o].user>>
    BY <1>1, <1>5, <2>2 DEF LocksOK, HoldsOK
  <2> QED BY <1>1, <2>1, <2>3
<1>6. CASE NeedsStats(p) /\ statsLock[StatsBar(p)] = o
  <2>1. StatsBar(p) \in Bars
    <3>1. CASE pc[p] = "insert"
      BY <1>2, <3>1, CallFields, NullsAssumption DEF CallOK, StatsBar
    <3>2. CASE pc[p] = "commit"
      BY <3>2, CommitTarget DEF StatsBar, ReviewRow
    <3> QED BY <1>6, <3>1, <3>2 DEF NeedsStats
  <2> QED BY <1>1, <1>6, <2>1 DEF LocksOK, HoldsOK
<1>7. CASE /\ pc[p] = "commit" /\ call[p].op = "resolve"
           /\ \E k \in Siblings(p) : reportLock[k] = o
  <2>1. PICK k \in ReportKeys : k[1] = call[p].r /\ reportLock[k] = o
    BY <1>7 DEF Siblings
  <2>2. call[o].op = "resolve" /\ k = <<call[o].r, call[o].user>>
    BY <1>1, <2>1 DEF LocksOK, HoldsOK
  <2> QED BY <1>1, <1>7, <2>1, <2>2
<1>8. CASE pc[p] = "photos" /\ \E k \in PhotoRows(call[p].r) : photoLock[k] = o
  <2>1. PICK k \in DOMAIN photoLock : k \in PhotoRows(call[p].r) /\ photoLock[k] = o
    BY <1>8 DEF PhotoRows
  <2> QED BY <1>1, <1>8, <2>1 DEF LocksOK, HoldsOK
<1> QED BY <1>1, <1>3, <1>4, <1>5, <1>6, <1>7, <1>8 DEF Blockers

\* An edit waits for nobody between its first statement and its review, nor at
\* its commit.
LEMMA EditsRun ==
    ASSUME NEW p \in Requests, call[p].op = "update", pc[p] \in {"select", "commit"}
    PROVE  Blockers(p) = {}
  BY DEF Blockers, NeedsStats

\* Transactions wait in a circle only around a rating edit, between two resolvers
\* of one review, or around the photos of a review that two requests delete, for
\* every number of requests, reviews, bars and photos.
THEOREM LockOrder == Spec => []OnlyKnownDeadlocks
<1>1. Init => LocksOK
  BY NullsAssumption DEF Init, LocksOK, HoldsOK
<1>2. IInv /\ LocksOK => OnlyKnownDeadlocks
  <2> DEFINE Edits     == \E p \in InFlight : call[p].op = "update" /\ pc[p] = "lock"
             Resolvers == \E p, o \in InFlight :
                             /\ p # o
                             /\ call[p].op = "resolve" /\ call[o].op = "resolve"
                             /\ call[p].r = call[o].r
             Deletions == \E p, o \in InFlight :
                             /\ p # o
                             /\ pc[p] = "photos" /\ pc[o] \in {"photos", "lock"}
                             /\ \E k \in PhotoRows(call[p].r) : photoLock[k] = o
  <2> SUFFICES ASSUME IInv, LocksOK, NEW q \in Requests, Deadlocked(q)
               PROVE  Edits \/ Resolvers \/ Deletions
    BY DEF OnlyKnownDeadlocks
  <2>1. PICK S \in SUBSET InFlight : q \in S /\ \A p \in S : Blockers(p) \cap S # {}
    BY DEF Deadlocked
  <2>2. \A p \in S : p \in Requests /\ p \in InFlight
    BY DEF InFlight
  <2>3. ASSUME NEW p \in S, call[p].op = "update", pc[p] \in {"select", "lock", "commit"}
        PROVE  Edits
    <3>1. pc[p] = "lock"
      BY <2>1, <2>2, <2>3, EditsRun
    <3> QED BY <2>2, <2>3, <3>1
  <2>4. ASSUME NEW p \in S, pc[p] = "commit" PROVE Edits \/ Resolvers
    <3>1. PICK w \in S : w \in Blockers(p)
      BY <2>1
    <3>2. /\ w # p
          /\ \/ call[w].op = "update" /\ pc[w] \in {"select", "lock", "commit"}
             \/ call[p].op = "resolve" /\ call[w].op = "resolve" /\ call[p].r = call[w].r
      BY <2>2, <2>4, <3>1, WaitsFor
    <3> QED BY <2>2, <2>3, <3>2
  <2>5. ASSUME NEW p \in S, pc[p] = "photos" PROVE Edits \/ Resolvers \/ Deletions
    <3>1. PICK w \in S : w \in Blockers(p)
      BY <2>1
    <3>2. /\ w # p
          /\ \/ call[w].op = "update" /\ pc[w] \in {"select", "lock", "commit"}
             \/ call[p].op = "resolve" /\ call[w].op = "resolve" /\ call[p].r = call[w].r
             \/ pc[w] = "commit"
             \/ /\ pc[w] \in {"photos", "lock"}
                /\ \E k \in PhotoRows(call[p].r) : photoLock[k] = w
      BY <2>2, <2>5, <3>1, WaitsFor
    <3> QED BY <2>2, <2>3, <2>4, <2>5, <3>2
  <2>6. PICK o \in S : o \in Blockers(q)
    BY <2>1
  <2>7. /\ o # q
        /\ \/ call[o].op = "update" /\ pc[o] \in {"select", "lock", "commit"}
           \/ pc[o] \in {"photos", "commit"}
           \/ call[q].op = "resolve" /\ call[o].op = "resolve" /\ call[q].r = call[o].r
           \/ pc[q] = "photos"
    BY <2>2, <2>6, WaitsFor
  <2> QED BY <2>1, <2>2, <2>3, <2>4, <2>5, <2>7
<1>3. IInv /\ LocksOK /\ [Next]_vars => LocksOK'
  BY LocksPreserved
<1> QED BY <1>1, <1>2, <1>3, Invariant, PTL DEF Spec

-----------------------------------------------------------------------------
(* The aggregate.  It stays exact while the handlers that load the review   *)
(* before their transaction run alone: then the entity they save is still   *)
(* the row, and what they subtract or add is what the row counts for.       *)

PreReadAlone == Handlers \cap PreRead \subseteq Alone

\* The update changes a rating that is counted.
Adjusts(q) ==
    call[q].rating \notin {NoRating, ent[q].rating} /\ ent[q].status = "PUBLISHED"

\* A request with an entity is alone, its entity is its row, the columns it saves
\* are the changed ones, and it holds the aggregate row if its rating counts.
AloneOK ==
    \A q \in Requests :
        /\ call[q] # NoCall => call[q].op \in Handlers
        /\ ent[q] # NoRow =>
              /\ InFlight = {q}
              /\ ent[q] = reviews[call[q].r] /\ ~ent[q].deleted
              /\ call[q].op \in {"update", "moderate"} /\ pc[q] \in {"lock", "commit"}
                   => cols[q] = Differing(ent[q], Entity(q))
              /\ call[q].op = "update" =>
                   /\ pc[q] = "adjust" => Adjusts(q)
                   /\ pc[q] # "adjust" => (statsLock[ent[q].bar] = q <=> Adjusts(q))

\* A handler that begins alone, or without an entity.
LEMMA AloneStart ==
    ASSUME PreReadAlone, IInv, AloneOK, NEW p \in Requests, NEW c,
           NEW e \in ReviewRow \cup {NoRow}, NEW first,
           Start(p, c, e, first), first \notin {"idle", "done"},
           e # NoRow =>
              /\ c.op \in PreRead /\ e = reviews[c.r] /\ ~e.deleted
              /\ c.op \in {"update", "moderate"} => first \notin {"lock", "commit"}
              /\ c.op = "update" =>
                   (first = "adjust" <=> /\ c.rating \notin {NoRating, e.rating}
                                         /\ e.status = "PUBLISHED")
    PROVE  AloneOK'
<1>0. /\ pc \in [Requests -> PC] /\ call \in [Requests -> Call \cup {NoCall}]
      /\ ent \in [Requests -> ReviewRow \cup {NoRow}]
  BY DEF IInv, TypeOK
<1>1. /\ pc[p] = "idle" /\ c.op \in Handlers /\ UNCHANGED <<reviews, statsLock, cols>>
      /\ \A o \in InFlight : c.op \notin Alone /\ call[o].op \notin Alone
      /\ pc'[p] = first /\ call'[p] = c /\ ent'[p] = e
      /\ \A q \in Requests \ {p} : pc'[q] = pc[q] /\ call'[q] = call[q] /\ ent'[q] = ent[q]
  BY <1>0 DEF Start, tables, locks
<1>2. ASSUME NEW q \in Requests \ {p} PROVE ent[q] = NoRow
  <2>1. SUFFICES ASSUME ent[q] # NoRow PROVE FALSE
    OBVIOUS
  <2>2. call[q].op \in PreRead /\ call[q].op \in Handlers /\ q \in InFlight
    BY <2>1 DEF AloneOK, IInv, CallsOK, CallOK
  <2> QED BY <1>1, <2>2 DEF PreReadAlone
<1>3. ASSUME e # NoRow PROVE InFlight' = {p}
  <2>1. InFlight = {}
    BY <1>1, <1>3 DEF PreReadAlone
  <2> QED BY <1>1, <2>1 DEF InFlight
<1>4. ASSUME NEW b \in Bars PROVE statsLock[b] # p
  BY <1>1 DEF IInv, CallsOK, CallOK
<1>5. ASSUME NEW q \in Requests PROVE call'[q] # NoCall => call'[q].op \in Handlers
  BY <1>1 DEF AloneOK
<1>6. ASSUME NEW q \in Requests, ent'[q] # NoRow
      PROVE  /\ InFlight' = {q}
             /\ ent'[q] = reviews'[call'[q].r] /\ ~ent'[q].deleted
             /\ call'[q].op \in {"update", "moderate"} /\ pc'[q] \in {"lock", "commit"}
                  => cols'[q] = Differing(ent'[q], Entity(q)')
             /\ call'[q].op = "update" =>
                  /\ pc'[q] = "adjust" => Adjusts(q)'
                  /\ pc'[q] # "adjust" => (statsLock'[ent'[q].bar] = q <=> Adjusts(q)')
  <2>1. q = p
    BY <1>1, <1>2, <1>6
  <2>2. e # NoRow /\ e \in ReviewRow /\ e.bar \in Bars
    BY <1>1, <1>6, <2>1 DEF ReviewRow
  <2>3. InFlight' = {q}
    BY <1>3, <2>1, <2>2
  <2>4. ent'[q] = reviews'[call'[q].r] /\ ~ent'[q].deleted
    BY <1>1, <2>1, <2>2
  <2>5. call'[q].op \in {"update", "moderate"} => pc'[q] \notin {"lock", "commit"}
    BY <1>1, <2>1, <2>2
  <2>6. call'[q].op = "update" => (pc'[q] = "adjust" <=> Adjusts(q)')
    BY <1>1, <2>1, <2>2 DEF Adjusts
  <2>7. statsLock'[ent'[q].bar] # q
    BY <1>1, <1>4, <2>1, <2>2
  <2> QED BY <2>3, <2>4, <2>5, <2>6, <2>7
<1> QED BY <1>5, <1>6 DEF AloneOK

LEMMA AloneBegin ==
    ASSUME PreReadAlone, IInv, AloneOK, NEW p \in Requests, Begin(p) PROVE AloneOK'
<1>0. reviews \in [ReviewIds -> ReviewRow \cup {NoRow}]
  BY DEF IInv, TypeOK, TablesOK
<1>1. CASE StartCreate(p)
  <2>1. PICK c : Start(p, c, NoRow, "insert")
    BY <1>1 DEF StartCreate
  <2> QED BY <2>1, AloneStart
<1>2. CASE StartReport(p)
  <2>1. PICK c : Start(p, c, NoRow, "lock")
    BY <1>2 DEF StartReport
  <2> QED BY <2>1, AloneStart
<1>3. CASE StartResolve(p)
  <2>1. PICK c : Start(p, c, NoRow, "lockReport")
    BY <1>3 DEF StartResolve
  <2> QED BY <2>1, AloneStart
<1>4. CASE StartUpdate(p)
  <2>1. PICK r \in ReviewIds, s \in Ratings \cup {NoRating} :
          /\ Found(r)
          /\ Start(p, [op |-> "update", r |-> r, user |-> reviews[r].user, rating |-> s],
                   reviews[r],
                   IF /\ s \notin {NoRating, reviews[r].rating}
                      /\ reviews[r].status = "PUBLISHED"
                   THEN "adjust" ELSE "select")
    BY <1>4 DEF StartUpdate
  <2> DEFINE c == [op |-> "update", r |-> r, user |-> reviews[r].user, rating |-> s]
             first == IF /\ s \notin {NoRating, reviews[r].rating}
                         /\ reviews[r].status = "PUBLISHED"
                      THEN "adjust" ELSE "select"
  <2>2. /\ c.op = "update" /\ c.r = r /\ c.rating = s
        /\ first \notin {"idle", "done", "lock", "commit"}
        /\ first = "adjust" <=> /\ s \notin {NoRating, reviews[r].rating}
                                /\ reviews[r].status = "PUBLISHED"
    OBVIOUS
  <2>3. reviews[r] \in ReviewRow \cup {NoRow} /\ ~reviews[r].deleted
    BY <1>0, <2>1 DEF Found
  <2>4. Start(p, c, reviews[r], first)
    BY <2>1
  <2> HIDE DEF c, first
  <2> QED BY <2>2, <2>3, <2>4, AloneStart DEF PreRead
<1>5. CASE StartModerate(p)
  <2>1. PICK r \in ReviewIds, s \in ReviewStatus :
          /\ Found(r)
          /\ Start(p, [op |-> "moderate", r |-> r, status |-> s], reviews[r], "select")
    BY <1>5 DEF StartModerate
  <2> DEFINE c == [op |-> "moderate", r |-> r, status |-> s]
  <2>2. c.op = "moderate" /\ c.r = r
    OBVIOUS
  <2>3. reviews[r] \in ReviewRow \cup {NoRow} /\ ~reviews[r].deleted
    BY <1>0, <2>1 DEF Found
  <2>4. Start(p, c, reviews[r], "select")
    BY <2>1
  <2> HIDE DEF c
  <2> QED BY <2>2, <2>3, <2>4, AloneStart DEF PreRead
<1>6. CASE StartRemove(p) \/ StartAdminDelete(p)
  <2>1. PICK r \in ReviewIds, o \in {"remove", "adminDelete"} :
          Found(r) /\ Start(p, [op |-> o, r |-> r], reviews[r], FirstOfDeletion(r))
    BY <1>6 DEF StartRemove, StartAdminDelete
  <2> DEFINE c == [op |-> o, r |-> r]
  <2>2. c.op = o /\ c.r = r
    OBVIOUS
  <2>3. reviews[r] \in ReviewRow \cup {NoRow} /\ ~reviews[r].deleted
    BY <1>0, <2>1 DEF Found
  <2>4. Start(p, c, reviews[r], FirstOfDeletion(r))
    BY <2>1
  <2>5. FirstOfDeletion(r) \notin {"idle", "done"}
    BY DEF FirstOfDeletion
  <2> HIDE DEF c
  <2> QED BY <2>2, <2>3, <2>4, <2>5, AloneStart DEF PreRead
<1> QED BY <1>1, <1>2, <1>3, <1>4, <1>5, <1>6 DEF Begin

LEMMA AloneAdvance ==
    ASSUME IInv, AloneOK, NEW p \in Requests, Advance(p) PROVE AloneOK'
<1>0. /\ pc \in [Requests -> PC] /\ call \in [Requests -> Call \cup {NoCall}]
      /\ ent \in [Requests -> ReviewRow \cup {NoRow}]
      /\ statsLock \in [Bars -> Requests \cup {NoRequest}]
      /\ cols \in [Requests -> SUBSET Columns]
  BY DEF IInv, TypeOK
<1>1. p \in InFlight
  BY DEF Advance, AdjustStatement, SaveSelect, LockReview, LockReport, LockPhoto,
                CommitCreate,
         CommitUpdate, CommitRemove, CommitAdminDelete, CommitModerate, CommitReport,
         CommitResolve, DeadlockAbort, Deadlocked, InFlight
<1>2. CASE Finish(p)
  <2>1. /\ call'[p] = NoCall /\ ent'[p] = NoRow
        /\ \A q \in Requests \ {p} : call'[q] = call[q] /\ ent'[q] = ent[q]
    BY <1>0, <1>2 DEF Finish
  <2>2. \A q \in Requests : ent'[q] = NoRow
    BY <1>1, <2>1 DEF AloneOK
  <2>3. \A q \in Requests : call'[q] # NoCall => call'[q].op \in Handlers
    BY <2>1 DEF AloneOK
  <2> QED BY <2>2, <2>3 DEF AloneOK
<1>3. ASSUME UNCHANGED <<reviews, call, ent>>,
             \A q \in Requests \ {p} : pc'[q] = pc[q],
             pc'[p] \in PC \ {"idle", "done", "adjust"},
             ent[p] # NoRow /\ call[p].op \in {"update", "moderate"}
                 /\ pc'[p] \in {"lock", "commit"}
               => cols'[p] = Differing(ent[p], Entity(p)),
             ent[p] # NoRow /\ call[p].op = "update"
               => (statsLock'[ent[p].bar] = p <=> Adjusts(p))
      PROVE  AloneOK'
  <2>1. InFlight' = InFlight
    BY <1>1, <1>3 DEF InFlight
  <2>2. \A q \in Requests : Entity(q)' = Entity(q) /\ Adjusts(q)' = Adjusts(q)
    BY <1>3 DEF Entity, Adjusts
  <2>3. ASSUME NEW q \in Requests, ent[q] # NoRow PROVE q = p
    BY <1>1, <2>3 DEF AloneOK
  <2> QED BY <1>3, <2>1, <2>2, <2>3 DEF AloneOK
<1>4. CASE AdjustStatement(p)
  <2>1. /\ pc[p] = "adjust" /\ UNCHANGED <<reviews, call, ent, cols>>
        /\ pc' = [pc EXCEPT ![p] = "select"]
        /\ statsLock' = [statsLock EXCEPT ![ent[p].bar] = p]
    BY <1>4 DEF AdjustStatement, tables
  <2>2. pc'[p] = "select" /\ \A q \in Requests \ {p} : pc'[q] = pc[q]
    BY <1>0, <2>1
  <2>3. ASSUME ent[p] # NoRow, call[p].op = "update"
        PROVE  statsLock'[ent[p].bar] = p /\ Adjusts(p)
    <3>1. ent[p].bar \in Bars
      BY <1>0, <2>3 DEF ReviewRow
    <3> QED BY <1>0, <2>1, <2>3, <3>1 DEF AloneOK
  <2> QED BY <1>3, <2>1, <2>2, <2>3 DEF PC
<1>5. CASE SaveSelect(p)
  <2>1. /\ pc[p] = "select" /\ UNCHANGED <<reviews, call, ent, statsLock>>
        /\ cols' = [cols EXCEPT ![p] = Differing(reviews[call[p].r], Entity(p))]
        /\ \A q \in Requests \ {p} : pc'[q] = pc[q]
        /\ pc'[p] = "lock"
    BY <1>0, <1>5 DEF SaveSelect, tables, locks
  <2>2. ent[p] # NoRow => /\ cols'[p] = Differing(ent[p], Entity(p))
                          /\ call[p].op = "update"
                               => (statsLock'[ent[p].bar] = p <=> Adjusts(p))
    BY <1>0, <2>1 DEF AloneOK
  <2> QED BY <1>3, <2>1, <2>2 DEF PC
<1>6. CASE LockReview(p)
  <2>1. /\ pc[p] = "lock" /\ UNCHANGED <<reviews, call, ent, cols, statsLock>>
        /\ pc' = [pc EXCEPT ![p] = IF DeletesPhotos(p) THEN "photos" ELSE "commit"]
    BY <1>6 DEF LockReview, tables
  <2>2. pc'[p] \in {"photos", "commit"} /\ \A q \in Requests \ {p} : pc'[q] = pc[q]
    BY <1>0, <2>1
  <2>3. ent[p] # NoRow =>
           /\ call[p].op \in {"update", "moderate"} => cols'[p] = Differing(ent[p], Entity(p))
           /\ call[p].op = "update" => (statsLock'[ent[p].bar] = p <=> Adjusts(p))
    BY <2>1 DEF AloneOK
  <2> QED BY <1>3, <2>1, <2>2, <2>3 DEF PC
<1>7. CASE LockReport(p) /\ ~Rollback(p)
  <2>1. /\ pc[p] = "lockReport" /\ UNCHANGED <<reviews, call, ent, cols, statsLock>>
        /\ pc' = [pc EXCEPT ![p] = "lock"]
    BY <1>7 DEF LockReport, tables
  <2>2. ent[p] = NoRow
    BY <2>1 DEF IInv, CallsOK, CallOK, PreRead
  <2>3. pc'[p] = "lock" /\ \A q \in Requests \ {p} : pc'[q] = pc[q]
    BY <1>0, <2>1
  <2> QED BY <1>3, <2>1, <2>2, <2>3 DEF PC
<1>8. CASE LockPhoto(p)
  <2>1. /\ pc[p] = "photos" /\ UNCHANGED <<reviews, call, ent, cols, statsLock>>
        /\ pc'[p] \in {"photos", "lock", "commit"}
        /\ \A q \in Requests \ {p} : pc'[q] = pc[q]
    BY <1>0, <1>8 DEF LockPhoto, tables
  <2>2. call[p].op \notin {"update", "moderate"}
    BY <2>1 DEF IInv, CallsOK, CallOK
  <2> QED BY <1>3, <2>1, <2>2 DEF PC
<1>9. \/ AdjustStatement(p) \/ SaveSelect(p) \/ LockReview(p) \/ LockReport(p) \/ LockPhoto(p)
      \/ Finish(p)
  BY DEF Advance, CommitCreate, CommitUpdate, CommitRemove, CommitAdminDelete,
         CommitModerate, CommitReport, CommitResolve, DeadlockAbort, Rollback
<1> QED BY <1>2, <1>4, <1>5, <1>6, <1>7, <1>8, <1>9 DEF Rollback

LEMMA AloneStep == ASSUME PreReadAlone, IInv, AloneOK, [Next]_vars PROVE AloneOK'
<1>1. CASE UNCHANGED vars
  BY <1>1 DEF vars, AloneOK, InFlight, Entity, Adjusts
<1> QED BY <1>1, AloneBegin, AloneAdvance DEF Next, Quiet

\* save() of the entity that was loaded from the row writes the entity.
LEMMA PatchedWhole ==
    ASSUME NEW row \in ReviewRow, NEW e \in ReviewRow, e.user = row.user, e.bar = row.bar
    PROVE  Patched(row, e, Differing(row, e)) = e
<1> DEFINE cs == Differing(row, e)
           new == Patched(row, e, cs)
<1>1. /\ "rating" \in cs <=> row.rating # e.rating
      /\ "status" \in cs <=> row.status # e.status
      /\ "photoCount" \in cs <=> row.photoCount # e.photoCount
      /\ "deleted" \in cs <=> row.deleted # e.deleted
  BY DEF Differing
<1> HIDE DEF cs
<1>2. new \in ReviewRow /\ new.user = e.user /\ new.bar = e.bar
  BY PatchedTyped
<1>3. new.rating = e.rating /\ new.status = e.status /\ new.photoCount = e.photoCount
  BY <1>1 DEF Patched, ReviewRow
<1>4. new.deleted = e.deleted
  BY <1>1 DEF Patched, ReviewRow
<1>5. \A x, y \in ReviewRow : x.user = y.user /\ x.bar = y.bar /\ x.rating = y.rating
        /\ x.status = y.status /\ x.photoCount = y.photoCount /\ x.deleted = y.deleted => x = y
  BY DEF ReviewRow
<1> HIDE DEF new
<1>6. new = e
  BY <1>2, <1>3, <1>4, <1>5
<1> QED BY <1>6 DEF new, cs

\* A committing request with an entity, in the words of AloneOK.
LEMMA AloneCommit ==
    ASSUME IInv, AloneOK, NEW q \in Requests, pc[q] = "commit", call[q].op \in PreRead
    PROVE  /\ ent[q] = reviews[call[q].r] /\ ~ent[q].deleted
           /\ ent[q] \in ReviewRow /\ ent[q] # NoRow
           /\ call[q].op \in {"update", "moderate"} =>
                /\ Entity(q) \in ReviewRow /\ ~Entity(q).deleted
                /\ Entity(q).user = ent[q].user /\ Entity(q).bar = ent[q].bar
                /\ Entity(q).photoCount = ent[q].photoCount
                /\ Patched(reviews[call[q].r], Entity(q), cols[q]) = Entity(q)
<1>1. ent[q] \in ReviewRow /\ ent[q] # NoRow
  BY CommitTarget
<1>2. ent[q] = reviews[call[q].r] /\ ~ent[q].deleted
  BY <1>1 DEF AloneOK
<1>3. ASSUME call[q].op \in {"update", "moderate"}
      PROVE  /\ Entity(q) \in ReviewRow /\ ~Entity(q).deleted
             /\ Entity(q).user = ent[q].user /\ Entity(q).bar = ent[q].bar
             /\ Entity(q).photoCount = ent[q].photoCount
             /\ Patched(reviews[call[q].r], Entity(q), cols[q]) = Entity(q)
  <2>1. Entity(q) \in ReviewRow
    BY <1>1, EntityTyped
  <2>2. /\ ~Entity(q).deleted /\ Entity(q).user = ent[q].user /\ Entity(q).bar = ent[q].bar
        /\ Entity(q).photoCount = ent[q].photoCount
    BY <1>1, <1>2 DEF Entity, ReviewRow
  <2>3. cols[q] = Differing(ent[q], Entity(q))
    BY <1>1, <1>3 DEF AloneOK
  <2> QED BY <1>1, <1>2, <2>1, <2>2, <2>3, PatchedWhole
<1> QED BY <1>1, <1>2, <1>3

-----------------------------------------------------------------------------
(* One review changes: the aggregate rows follow if they are changed by what*)
(* the review counts for, before and after.                                 *)

\* A write to one row.
LEMMA RowWrite ==
    ASSUME IInv, NEW r \in ReviewIds, NEW row, reviews' = [reviews EXCEPT ![r] = row]
    PROVE  DifferAt(reviews, reviews', r) /\ reviews'[r] = row
  BY ReviewIdsAssumption DEF IInv, TypeOK, TablesOK, DifferAt

\* A review that starts to count.
LEMMA ExactAdd ==
    ASSUME IInv, StatsExact, NEW r \in ReviewIds, NEW row \in ReviewRow,
           DifferAt(reviews, reviews', r), reviews'[r] = row,
           \A b \in Bars : ~Counts(reviews[r], b),
           row.status = "PUBLISHED", ~row.deleted, row # NoRow,
           stats' = [stats EXCEPT ![row.bar] =
                        IncrementStats(@, row.rating, row.photoCount > 0)]
    PROVE  StatsExact'
<1>0. /\ reviews \in [ReviewIds -> ReviewRow \cup {NoRow}] /\ stats \in [Bars -> StatsRow]
  BY DEF IInv, TypeOK, TablesOK
<1>2. row.bar \in Bars /\ row.rating \in Ratings
  BY DEF ReviewRow
<1> SUFFICES ASSUME NEW b \in Bars PROVE stats'[b] = Recalculate(reviews', b)
  BY DEF StatsExact
<1>3. stats[b] = Recalculate(reviews, b)
  BY DEF StatsExact
<1>4. CASE b = row.bar
  <2>1. Counts(reviews'[r], b)
    BY <1>4 DEF Counts
  <2>2. Recalculate(reviews', b)
          = IncrementStats(Recalculate(reviews, b), reviews'[r].rating,
                           reviews'[r].photoCount > 0)
    <3>1. /\ DifferAt(reviews, reviews', r) /\ reviews'[r].rating \in Ratings
          /\ ~Counts(reviews[r], b)
      BY <1>2
    <3> QED BY <2>1, <3>1, RecalculateAdd
  <2>3. stats'[b] = IncrementStats(stats[b], row.rating, row.photoCount > 0)
    BY <1>0, <1>4
  <2> QED BY <1>3, <2>2, <2>3
<1>5. CASE b # row.bar
  <2>1. ~Counts(reviews'[r], b)
    BY <1>5 DEF Counts
  <2>2. Recalculate(reviews', b) = Recalculate(reviews, b)
    BY <2>1, RecalculateSame
  <2> QED BY <1>0, <1>3, <1>5, <2>2
<1> QED BY <1>4, <1>5

\* A review that ceases to count.
LEMMA ExactDrop ==
    ASSUME IInv, StatsExact, NEW r \in ReviewIds, NEW row \in ReviewRow,
           reviews[r] \in ReviewRow, reviews[r] # NoRow,
           reviews[r].status = "PUBLISHED", ~reviews[r].deleted,
           DifferAt(reviews, reviews', r), reviews'[r] = row,
           \A b \in Bars : ~Counts(row, b),
           stats' = [stats EXCEPT ![reviews[r].bar] =
                        DecrementStats(@, reviews[r].rating, reviews[r].photoCount > 0)]
    PROVE  StatsExact'
<1>0. /\ reviews \in [ReviewIds -> ReviewRow \cup {NoRow}] /\ stats \in [Bars -> StatsRow]
  BY DEF IInv, TypeOK, TablesOK
<1>2. reviews[r].bar \in Bars /\ reviews[r].rating \in Ratings
  BY DEF ReviewRow
<1> SUFFICES ASSUME NEW b \in Bars PROVE stats'[b] = Recalculate(reviews', b)
  BY DEF StatsExact
<1>3. stats[b] = Recalculate(reviews, b)
  BY DEF StatsExact
<1>4. CASE b = reviews[r].bar
  <2>1. Counts(reviews[r], b)
    BY <1>4 DEF Counts
  <2>2. Recalculate(reviews', b)
          = DecrementStats(Recalculate(reviews, b), reviews[r].rating, reviews[r].photoCount > 0)
    BY <1>2, <2>1, RecalculateDrop
  <2> QED BY <1>0, <1>3, <1>4, <2>2
<1>5. CASE b # reviews[r].bar
  <2>1. ~Counts(reviews[r], b)
    BY <1>5 DEF Counts
  <2>2. Recalculate(reviews', b) = Recalculate(reviews, b)
    BY <2>1, RecalculateSame
  <2> QED BY <1>0, <1>3, <1>5, <2>2
<1> QED BY <1>4, <1>5

\* A review that counts neither before nor after.
LEMMA ExactSame ==
    ASSUME IInv, StatsExact, NEW r \in ReviewIds, NEW row \in ReviewRow,
           DifferAt(reviews, reviews', r), reviews'[r] = row, UNCHANGED stats,
           \A b \in Bars : ~Counts(reviews[r], b) /\ ~Counts(row, b)
    PROVE  StatsExact'
<1> SUFFICES ASSUME NEW b \in Bars PROVE stats'[b] = Recalculate(reviews', b)
  BY DEF StatsExact
<1>2. Recalculate(reviews', b) = Recalculate(reviews, b)
  BY RecalculateSame
<1> QED BY <1>2 DEF StatsExact

\* A counted review that gets another rating.
LEMMA ExactRating ==
    ASSUME IInv, StatsExact, NEW r \in ReviewIds, NEW row \in ReviewRow,
           reviews[r] \in ReviewRow, reviews[r] # NoRow, row # NoRow,
           reviews[r].status = "PUBLISHED", ~reviews[r].deleted,
           row.status = "PUBLISHED", ~row.deleted, row.bar = reviews[r].bar,
           row.photoCount = reviews[r].photoCount, row.rating # reviews[r].rating,
           DifferAt(reviews, reviews', r), reviews'[r] = row,
           stats' = [stats EXCEPT ![row.bar] =
                        AdjustRating(stats[row.bar], reviews[r].rating, row.rating)]
    PROVE  StatsExact'
<1>0. /\ reviews \in [ReviewIds -> ReviewRow \cup {NoRow}] /\ stats \in [Bars -> StatsRow]
  BY DEF IInv, TypeOK, TablesOK
<1>2. row.bar \in Bars /\ row.rating \in Ratings /\ reviews[r].rating \in Ratings
  BY DEF ReviewRow
<1> SUFFICES ASSUME NEW b \in Bars PROVE stats'[b] = Recalculate(reviews', b)
  BY DEF StatsExact
<1>3. stats[b] = Recalculate(reviews, b)
  BY DEF StatsExact
<1>4. CASE b = row.bar
  <2>1. Counts(reviews[r], b) /\ Counts(reviews'[r], b)
    BY <1>4 DEF Counts
  <2>2. Recalculate(reviews', b)
          = AdjustRating(Recalculate(reviews, b), reviews[r].rating, reviews'[r].rating)
    <3>1. /\ DifferAt(reviews, reviews', r)
          /\ reviews[r].rating \in Ratings /\ reviews'[r].rating \in Ratings
          /\ reviews'[r].rating # reviews[r].rating
          /\ reviews'[r].photoCount = reviews[r].photoCount
      BY <1>2
    <3> QED BY <2>1, <3>1, RecalculateRating
  <2>3. stats'[b] = AdjustRating(stats[b], reviews[r].rating, row.rating)
    BY <1>0, <1>4
  <2> QED BY <1>3, <2>2, <2>3
<1>5. CASE b # row.bar
  <2>1. ~Counts(reviews[r], b) /\ ~Counts(reviews'[r], b)
    BY <1>5 DEF Counts
  <2>2. Recalculate(reviews', b) = Recalculate(reviews, b)
    BY <2>1, RecalculateSame
  <2> QED BY <1>0, <1>3, <1>5, <2>2
<1> QED BY <1>4, <1>5

\* The deletion of a live review, by whichever handler.
LEMMA ExactRemove ==
    ASSUME IInv, StatsExact, NEW r \in ReviewIds,
           reviews[r] \in ReviewRow, reviews[r] # NoRow, ~reviews[r].deleted,
           SoftRemove(r, reviews[r])
    PROVE  StatsExact'
<1> DEFINE row == [reviews[r] EXCEPT !.deleted = TRUE]
<1>1. row \in ReviewRow /\ row.deleted
  BY DEF ReviewRow
<1>2. reviews' = [reviews EXCEPT ![r] = row]
  BY DEF SoftRemove
<1>3. \A b \in Bars : ~Counts(row, b)
  BY <1>1 DEF Counts
<1> HIDE DEF row
<1>4. CASE reviews[r].status = "PUBLISHED"
  <2>1. stats' = [stats EXCEPT ![reviews[r].bar] =
                     DecrementStats(@, reviews[r].rating, reviews[r].photoCount > 0)]
    BY <1>4 DEF SoftRemove, SetStats
  <2> QED BY <1>1, <1>2, <1>3, <1>4, <2>1, RowWrite, ExactDrop
<1>5. CASE reviews[r].status # "PUBLISHED"
  <2>1. UNCHANGED stats /\ \A b \in Bars : ~Counts(reviews[r], b)
    BY <1>5 DEF SoftRemove, Counts
  <2> QED BY <1>1, <1>2, <1>3, <2>1, RowWrite, ExactSame
<1> QED BY <1>4, <1>5

\* A change of the status of a live review, by whichever handler.
LEMMA ExactModerate ==
    ASSUME IInv, StatsExact, NEW r \in ReviewIds, NEW s \in ReviewStatus,
           reviews[r] \in ReviewRow, reviews[r] # NoRow, ~reviews[r].deleted,
           reviews' = [reviews EXCEPT ![r] = [reviews[r] EXCEPT !.status = s]],
           ModerateReviewWithManager(r, reviews[r], s)
    PROVE  StatsExact'
<1> DEFINE row == [reviews[r] EXCEPT !.status = s]
           was == reviews[r].status = "PUBLISHED"
           will == s = "PUBLISHED"
<1>1. /\ row \in ReviewRow /\ row.status = s /\ ~row.deleted /\ row.bar = reviews[r].bar
      /\ row.rating = reviews[r].rating /\ row.photoCount = reviews[r].photoCount
  BY DEF ReviewRow
<1>2. row # NoRow
  BY <1>1, NullsAssumption
<1>3. reviews' = [reviews EXCEPT ![r] = row]
  OBVIOUS
<1>4. stats' = CASE was /\ ~will ->
                      [stats EXCEPT ![reviews[r].bar] =
                         DecrementStats(@, reviews[r].rating, reviews[r].photoCount > 0)]
                 [] ~was /\ will ->
                      [stats EXCEPT ![reviews[r].bar] =
                         IncrementStats(@, reviews[r].rating, reviews[r].photoCount > 0)]
                 [] OTHER -> stats
  BY DEF ModerateReviewWithManager
<1>5. CASE was /\ will
  <2>1. row = reviews[r]
    BY <1>5 DEF ReviewRow
  <2>2. reviews' = reviews /\ stats' = stats
    BY <1>3, <1>4, <1>5, <2>1 DEF IInv, TypeOK, TablesOK
  <2> QED BY <2>2 DEF StatsExact
<1> HIDE DEF row
<1>6. CASE was /\ ~will
  <2>1. \A b \in Bars : ~Counts(row, b)
    BY <1>1, <1>6 DEF Counts
  <2>2. stats' = [stats EXCEPT ![reviews[r].bar] =
                     DecrementStats(@, reviews[r].rating, reviews[r].photoCount > 0)]
    BY <1>4, <1>6
  <2> QED BY <1>1, <1>3, <1>6, <2>1, <2>2, RowWrite, ExactDrop
<1>7. CASE ~was /\ will
  <2>1. \A b \in Bars : ~Counts(reviews[r], b)
    BY <1>7 DEF Counts
  <2>2. stats' = [stats EXCEPT ![row.bar] = IncrementStats(@, row.rating, row.photoCount > 0)]
    BY <1>1, <1>4, <1>7
  <2> QED BY <1>1, <1>2, <1>3, <1>7, <2>1, <2>2, RowWrite, ExactAdd
<1>8. CASE ~was /\ ~will
  <2>1. \A b \in Bars : ~Counts(reviews[r], b) /\ ~Counts(row, b)
    BY <1>1, <1>8 DEF Counts
  <2>2. UNCHANGED stats
    BY <1>4, <1>8
  <2> QED BY <1>1, <1>3, <2>1, <2>2, RowWrite, ExactSame
<1> QED BY <1>5, <1>6, <1>7, <1>8

\* The commit of an edit.
LEMMA ExactUpdate ==
    ASSUME IInv, AloneOK, StatsExact, NEW q \in Requests, CommitUpdate(q), ~Rollback(q)
    PROVE  StatsExact'
<1> DEFINE r == call[q].r
           e == Entity(q)
<1>1. /\ pc[q] = "commit" /\ call[q].op = "update"
      /\ SaveUpdate(q)
      /\ IF statsLock[ent[q].bar] = q
         THEN SetStats(ent[q].bar, AdjustRating(stats[ent[q].bar], ent[q].rating, call[q].rating))
         ELSE UNCHANGED stats
  BY DEF CommitUpdate
<1>2. /\ ent[q] = reviews[r] /\ ~ent[q].deleted /\ ent[q] \in ReviewRow /\ ent[q] # NoRow
      /\ e \in ReviewRow /\ ~e.deleted /\ e.bar = ent[q].bar
      /\ e.photoCount = ent[q].photoCount
      /\ Patched(reviews[r], e, cols[q]) = e
  BY <1>1, AloneCommit DEF PreRead
<1>3. r \in ReviewIds /\ e # NoRow
  BY <1>1, <1>2, CommitTarget, NullsAssumption
<1>4. reviews' = [reviews EXCEPT ![r] = e]
  BY <1>1, <1>2 DEF SaveUpdate
<1>5. statsLock[ent[q].bar] = q <=> Adjusts(q)
  BY <1>1, <1>2 DEF AloneOK
<1>6. e.status = ent[q].status
  BY <1>1, <1>2, EntityTyped
<1>7. CASE Adjusts(q)
  <2>1. e.rating = call[q].rating
    BY <1>1, <1>2, <1>7 DEF Adjusts, Entity, ReviewRow
  <2>2. stats' = [stats EXCEPT ![e.bar] = AdjustRating(stats[e.bar], reviews[r].rating, e.rating)]
    BY <1>1, <1>2, <1>5, <1>7, <2>1 DEF SetStats
  <2>3. e.rating # reviews[r].rating /\ reviews[r].status = "PUBLISHED"
    BY <1>2, <1>7, <2>1 DEF Adjusts
  <2> HIDE DEF e, r
  <2> QED BY <1>2, <1>3, <1>4, <1>6, <2>2, <2>3, RowWrite, ExactRating
<1>8. CASE ent[q].status # "PUBLISHED"
  <2>1. UNCHANGED stats /\ \A b \in Bars : ~Counts(reviews[r], b) /\ ~Counts(e, b)
    BY <1>1, <1>2, <1>5, <1>6, <1>8 DEF Adjusts, Counts
  <2> HIDE DEF e, r
  <2> QED BY <1>2, <1>3, <1>4, <2>1, RowWrite, ExactSame
<1>9. CASE call[q].rating \in {NoRating, ent[q].rating}
  <2>1. e = reviews[r]
    BY <1>1, <1>2, <1>9 DEF Entity, ReviewRow
  <2>2. reviews' = reviews /\ stats' = stats
    BY <1>1, <1>4, <1>5, <1>9, <2>1 DEF Adjusts, IInv, TypeOK, TablesOK
  <2> QED BY <2>2 DEF StatsExact
<1> QED BY <1>7, <1>8, <1>9 DEF Adjusts

\* One step keeps the aggregate exact.
LEMMA ExactStep ==
    ASSUME IInv, AloneOK, StatsExact, NEW q \in Requests, Advance(q) PROVE StatsExact'
<1>0. reviews \in [ReviewIds -> ReviewRow \cup {NoRow}]
  BY DEF IInv, TypeOK, TablesOK
<1>1. CASE UNCHANGED tables
  BY <1>1 DEF tables, StatsExact
<1>2. CASE CommitCreate(q) /\ ~Rollback(q)
  <2> DEFINE c == call[q]
             row == [user |-> c.user, bar |-> c.bar, rating |-> c.rating,
                     status |-> "PUBLISHED", photoCount |-> 0, deleted |-> FALSE]
  <2>1. PICK r \in ReviewIds :
          /\ reviews[r] = NoRow
          /\ reviews' = [reviews EXCEPT ![r] = row]
          /\ SetStats(c.bar, IncrementStats(stats[c.bar], c.rating, FALSE))
    BY <1>2 DEF CommitCreate
  <2>2. c \in Call /\ c.op = "create"
    BY <1>2, NullsAssumption DEF CommitCreate, IInv, CallsOK, CallOK
  <2>3. row \in ReviewRow
    BY <2>2, CallFields, BoundsAssumption DEF ReviewRow, ReviewStatus
  <2>4. row # NoRow /\ \A b \in Bars : ~Counts(reviews[r], b)
    BY <2>1, <2>3, NullsAssumption DEF Counts
  <2>5. (row.photoCount > 0) = FALSE
    OBVIOUS
  <2>6. stats' = [stats EXCEPT ![row.bar] = IncrementStats(@, row.rating, row.photoCount > 0)]
    BY <2>1, <2>5 DEF SetStats
  <2>7. row.status = "PUBLISHED" /\ ~row.deleted
    OBVIOUS
  <2> HIDE DEF row
  <2> QED BY <2>1, <2>3, <2>4, <2>6, <2>7, RowWrite, ExactAdd
<1>3. CASE CommitUpdate(q) /\ ~Rollback(q)
  BY <1>3, ExactUpdate
<1>4. CASE CommitRemove(q) \/ CommitAdminDelete(q)
  <2>1. pc[q] = "commit" /\ call[q].op \in PreRead /\ SoftRemove(call[q].r, ent[q])
    BY <1>4 DEF CommitRemove, CommitAdminDelete, DeleteReviewWithManager, PreRead
  <2> QED BY <2>1, AloneCommit, CommitTarget, ExactRemove
<1>5. CASE CommitModerate(q) /\ ~Rollback(q)
  <2> DEFINE r == call[q].r
             s == call[q].status
  <2>1. /\ pc[q] = "commit" /\ call[q].op = "moderate" /\ SaveUpdate(q)
        /\ ModerateReviewWithManager(r, ent[q], s)
    BY <1>5 DEF CommitModerate
  <2>2. /\ ent[q] = reviews[r] /\ ~ent[q].deleted /\ ent[q] \in ReviewRow /\ ent[q] # NoRow
        /\ Patched(reviews[r], Entity(q), cols[q]) = Entity(q)
    BY <2>1, AloneCommit DEF PreRead
  <2>3. r \in ReviewIds /\ s \in ReviewStatus
    BY <2>1, CommitTarget, CallFields
  <2>4. Entity(q) = [reviews[r] EXCEPT !.status = s]
    BY <2>1, <2>2 DEF Entity
  <2>5. reviews' = [reviews EXCEPT ![r] = [reviews[r] EXCEPT !.status = s]]
    BY <2>1, <2>2, <2>4 DEF SaveUpdate
  <2> HIDE DEF r, s
  <2> QED BY <2>1, <2>2, <2>3, <2>5, ExactModerate
<1>6. CASE CommitReport(q) /\ ~Rollback(q)
  <2> DEFINE r == call[q].r
             row == [reviews[r] EXCEPT !.status = "REPORTED"]
  <2>1. r \in ReviewIds /\ reviews[r] \in ReviewRow /\ reviews[r] # NoRow
    BY <1>6, CommitTarget DEF CommitReport
  <2>2. ~reviews[r].deleted
    BY <1>6 DEF CommitReport, Refused
  <2>3. CASE reviews[r].status = "PUBLISHED"
    <3>1. /\ reviews' = [reviews EXCEPT ![r] = row]
          /\ SetStats(reviews[r].bar, DecrementStats(stats[reviews[r].bar], reviews[r].rating,
                                                     reviews[r].photoCount > 0))
      BY <1>6, <2>3 DEF CommitReport
    <3>2. row \in ReviewRow /\ row.status = "REPORTED"
      BY <2>1 DEF ReviewRow, ReviewStatus
    <3>3. \A b \in Bars : ~Counts(row, b)
      BY <3>2 DEF Counts
    <3>4. stats' = [stats EXCEPT ![reviews[r].bar] =
                       DecrementStats(@, reviews[r].rating, reviews[r].photoCount > 0)]
      BY <3>1 DEF SetStats
    <3> HIDE DEF row, r
    <3> QED BY <2>1, <2>2, <2>3, <3>1, <3>2, <3>3, <3>4, RowWrite, ExactDrop
  <2>4. CASE reviews[r].status # "PUBLISHED"
    BY <1>6, <2>4 DEF CommitReport, StatsExact
  <2> QED BY <2>3, <2>4
<1>7. CASE CommitResolve(q)
  <2> DEFINE r == call[q].r
             s == Target(call[q].action)
  <2>1. r \in ReviewIds /\ reviews[r] \in ReviewRow /\ reviews[r] # NoRow
    BY <1>7, CommitTarget DEF CommitResolve
  <2>2. \/ ~reviews[r].deleted /\ SoftRemove(r, reviews[r])
        \/ /\ ~reviews[r].deleted
           /\ reviews' = [reviews EXCEPT ![r].status = s]
           /\ ModerateReviewWithManager(r, reviews[r], s)
        \/ UNCHANGED <<reviews, stats>>
    BY <1>7 DEF CommitResolve, DeleteReviewWithManager
  <2>3. s \in ReviewStatus
    BY DEF Target, ReviewStatus
  <2> HIDE DEF r, s
  <2>4. CASE UNCHANGED <<reviews, stats>>
    BY <2>4 DEF StatsExact
  <2> QED BY <2>1, <2>2, <2>3, <2>4, ExactRemove, ExactModerate
<1> QED BY <1>1, <1>2, <1>3, <1>4, <1>5, <1>6, <1>7, NoTableWritten DEF Advance, Rollback

\* While the handlers that read the review before their transaction run alone, the
\* aggregate row of every bar is exact after every step, however many creations,
\* reports and resolutions overlap.
THEOREM AggregateExact == PreReadAlone => (Spec => []StatsExact)
<1> SUFFICES ASSUME PreReadAlone PROVE Spec => []StatsExact
  OBVIOUS
<1>1. Init => AloneOK /\ StatsExact
  BY DEF Init, AloneOK, StatsExact
<1>2. IInv /\ AloneOK /\ StatsExact /\ [Next]_vars => AloneOK' /\ StatsExact'
  <2> SUFFICES ASSUME IInv, AloneOK, StatsExact, [Next]_vars PROVE StatsExact'
    BY AloneStep
  <2>1. CASE UNCHANGED vars
    BY <2>1 DEF vars, StatsExact
  <2>2. ASSUME NEW q \in Requests, Begin(q) PROVE StatsExact'
    BY <2>2, NoTableWritten DEF tables, StatsExact
  <2> QED BY <2>1, <2>2, ExactStep DEF Next, Quiet
<1> QED BY <1>1, <1>2, Invariant, PTL DEF Spec

-----------------------------------------------------------------------------
(* The status REPORTED.                                                     *)

\* A report has its review: the foreign key.
ReportsOK == \A k \in ReportKeys : reports[k] # "none" => reviews[k[1]] # NoRow

\* The commits that leave the reports leave REPORTED where it is.
LEMMA PendingOther ==
    ASSUME IInv, AloneOK, ReportsOK, ReportedIffPending, "moderate" \notin Handlers,
           NEW q \in Requests,
           \/ CommitCreate(q) \/ CommitUpdate(q) \/ CommitRemove(q) \/ CommitAdminDelete(q)
    PROVE  /\ UNCHANGED reports
           /\ \A r \in ReviewIds : reviews[r] # NoRow => reviews'[r] # NoRow
           /\ ReportedIffPending'
<1>0. reviews \in [ReviewIds -> ReviewRow \cup {NoRow}]
  BY DEF IInv, TypeOK, TablesOK
<1>1. CASE UNCHANGED <<reviews, reports>>
  BY <1>1 DEF ReportedIffPending, Found
<1>2. CASE CommitCreate(q) /\ ~Rollback(q)
  <2> DEFINE c == call[q]
             row == [user |-> c.user, bar |-> c.bar, rating |-> c.rating,
                     status |-> "PUBLISHED", photoCount |-> 0, deleted |-> FALSE]
  <2>1. PICK r \in ReviewIds : /\ reviews[r] = NoRow
                               /\ reviews' = [reviews EXCEPT ![r] = row]
                               /\ UNCHANGED reports
    BY <1>2 DEF CommitCreate
  <2>2. c \in Call /\ c.op = "create"
    BY <1>2, NullsAssumption DEF CommitCreate, IInv, CallsOK, CallOK
  <2>3. row \in ReviewRow
    BY <2>2, CallFields, BoundsAssumption DEF ReviewRow, ReviewStatus
  <2>4. row # NoRow /\ row.status # "REPORTED"
    BY <2>3, NullsAssumption
  <2>5. \A u \in Users : reports[<<r, u>>] = "none"
    BY <2>1 DEF ReportsOK, ReportKeys
  <2> HIDE DEF row
  <2> QED BY <1>0, <2>1, <2>4, <2>5 DEF ReportedIffPending, Found
<1>3. CASE CommitUpdate(q) /\ ~Rollback(q)
  <2> DEFINE t == call[q].r
             e == Entity(q)
  <2>1. pc[q] = "commit" /\ call[q].op = "update" /\ SaveUpdate(q) /\ UNCHANGED reports
    BY <1>3 DEF CommitUpdate
  <2>2. /\ ent[q] = reviews[t] /\ ~ent[q].deleted /\ ent[q] \in ReviewRow /\ ent[q] # NoRow
        /\ e \in ReviewRow /\ ~e.deleted
        /\ Patched(reviews[t], e, cols[q]) = e
    BY <2>1, AloneCommit DEF PreRead
  <2>3. t \in ReviewIds /\ e # NoRow /\ e.status = reviews[t].status
    BY <2>1, <2>2, CommitTarget, EntityTyped, NullsAssumption
  <2>4. reviews' = [reviews EXCEPT ![t] = e]
    BY <2>1, <2>2 DEF SaveUpdate
  <2> HIDE DEF t, e
  <2> QED BY <1>0, <2>1, <2>2, <2>3, <2>4 DEF ReportedIffPending, Found
<1>4. CASE CommitRemove(q) \/ CommitAdminDelete(q)
  <2> DEFINE t == call[q].r
             row == [reviews[t] EXCEPT !.deleted = TRUE]
  <2>1. pc[q] = "commit" /\ SoftRemove(t, ent[q]) /\ UNCHANGED reports
    BY <1>4 DEF CommitRemove, CommitAdminDelete, DeleteReviewWithManager
  <2>2. t \in ReviewIds /\ reviews[t] \in ReviewRow
    BY <2>1, CommitTarget
  <2>3. reviews' = [reviews EXCEPT ![t] = row]
    BY <2>1 DEF SoftRemove
  <2>4. row.deleted /\ row # NoRow
    BY <2>2, NullsAssumption DEF ReviewRow
  <2> HIDE DEF t, row
  <2> QED BY <1>0, <2>1, <2>2, <2>3, <2>4 DEF ReportedIffPending, Found
<1> QED BY <1>1, <1>2, <1>3, <1>4 DEF Rollback, tables

\* A report is filed.
LEMMA PendingReport ==
    ASSUME IInv, ReportsOK, ReportedIffPending, NEW q \in Requests,
           CommitReport(q), ~Rollback(q)
    PROVE  ReportsOK' /\ ReportedIffPending'
<1> DEFINE t == call[q].r
           k == <<t, call[q].user>>
<1>0. /\ reviews \in [ReviewIds -> ReviewRow \cup {NoRow}]
      /\ reports \in [ReportKeys -> ReportRow]
  BY DEF IInv, TypeOK, TablesOK
<1>1. /\ t \in ReviewIds /\ reviews[t] \in ReviewRow /\ reviews[t] # NoRow
      /\ call[q] \in Call /\ call[q].op = "report"
  BY CommitTarget DEF CommitReport
<1>2. call[q].user \in Users /\ k \in ReportKeys
  BY <1>1, CallFields DEF ReportKeys
<1>3. /\ ~reviews[t].deleted /\ reviews[t].status # "HIDDEN"
      /\ reports' = [reports EXCEPT ![k] = "PENDING"]
      /\ IF reviews[t].status = "PUBLISHED"
         THEN reviews' = [reviews EXCEPT ![t].status = "REPORTED"]
         ELSE reviews' = reviews
  BY DEF CommitReport, Refused
<1>4. /\ reviews'[t].status = "REPORTED" /\ reviews'[t] # NoRow
      /\ \A r \in ReviewIds \ {t} : reviews'[r] = reviews[r]
  <2>1. CASE reviews[t].status = "PUBLISHED"
    <3> DEFINE row == [reviews[t] EXCEPT !.status = "REPORTED"]
    <3>1. row \in ReviewRow /\ row.status = "REPORTED"
      BY <1>1 DEF ReviewRow, ReviewStatus
    <3>2. row # NoRow
      BY <3>1, NullsAssumption
    <3>3. reviews' = [reviews EXCEPT ![t] = row]
      BY <1>3, <2>1
    <3> HIDE DEF row, t
    <3> QED BY <1>0, <1>1, <3>1, <3>2, <3>3
  <2>2. CASE reviews[t].status # "PUBLISHED"
    BY <1>1, <1>3, <2>2 DEF ReviewRow, ReviewStatus
  <2> QED BY <2>1, <2>2
<1>5. /\ reports'[k] = "PENDING"
      /\ \A r \in ReviewIds \ {t}, u \in Users : reports'[<<r, u>>] = reports[<<r, u>>]
      /\ \A j \in ReportKeys \ {k} : reports'[j] = reports[j]
  BY <1>0, <1>2, <1>3 DEF ReportKeys
<1>6. ReportsOK'
  <2> SUFFICES ASSUME NEW j \in ReportKeys, reports'[j] # "none" PROVE reviews'[j[1]] # NoRow
    BY DEF ReportsOK
  <2>1. j[1] \in ReviewIds
    BY DEF ReportKeys
  <2>2. CASE j = k
    BY <1>4, <2>2
  <2>3. CASE j # k
    BY <1>4, <1>5, <2>1, <2>3 DEF ReportsOK
  <2> QED BY <2>2, <2>3
<1>7. ReportedIffPending'
  <2> SUFFICES ASSUME NEW r \in ReviewIds, reviews'[r] # NoRow, ~reviews'[r].deleted
               PROVE  reviews'[r].status = "REPORTED"
                        <=> \E u \in Users : reports'[<<r, u>>] = "PENDING"
    BY DEF ReportedIffPending, Found
  <2>1. CASE r = t
    BY <1>2, <1>4, <1>5, <2>1
  <2>2. CASE r # t
    BY <1>4, <1>5, <2>2 DEF ReportedIffPending, Found
  <2> QED BY <2>1, <2>2
<1> QED BY <1>6, <1>7

\* The reports of a review are resolved.
LEMMA PendingResolve ==
    ASSUME IInv, ReportsOK, ReportedIffPending, NEW q \in Requests, CommitResolve(q)
    PROVE  ReportsOK' /\ ReportedIffPending'
<1> DEFINE t == call[q].r
           a == call[q].action
<1>0. /\ reviews \in [ReviewIds -> ReviewRow \cup {NoRow}]
      /\ reports \in [ReportKeys -> ReportRow]
  BY DEF IInv, TypeOK, TablesOK
<1>1. /\ t \in ReviewIds /\ reviews[t] \in ReviewRow /\ reviews[t] # NoRow
      /\ call[q] \in Call /\ call[q].op = "resolve"
  BY CommitTarget DEF CommitResolve
<1>2. a \in ReportResolution
  BY <1>1, CallFields
<1>3. /\ \A k \in ReportKeys : k[1] = t => reports'[k] # "PENDING"
      /\ \A k \in ReportKeys : k[1] # t => reports'[k] = reports[k]
      /\ \A k \in ReportKeys : reports'[k] # "none" => reports[k] # "none"
  <2>1. reports' = [k \in ReportKeys |->
                      IF k[1] = t /\ reports[k] = "PENDING" THEN a ELSE reports[k]]
    BY DEF CommitResolve, Siblings
  <2>2. a # "PENDING"
    BY <1>2 DEF ReportResolution
  <2> HIDE DEF a, t
  <2> QED BY <2>1, <2>2
<1>4. /\ reviews'[t] # NoRow
      /\ reviews'[t].deleted \/ reviews'[t].status # "REPORTED"
      /\ \A r \in ReviewIds \ {t} : reviews'[r] = reviews[r]
  <2>1. CASE ~reviews[t].deleted /\ a = "DELETED"
    <3> DEFINE row == [reviews[t] EXCEPT !.deleted = TRUE]
    <3>1. reviews' = [reviews EXCEPT ![t] = row]
      BY <2>1 DEF CommitResolve, DeleteReviewWithManager, SoftRemove
    <3>2. row \in ReviewRow /\ row.deleted
      BY <1>1 DEF ReviewRow
    <3>3. row # NoRow
      BY <3>2, NullsAssumption
    <3> HIDE DEF row, t
    <3> QED BY <1>0, <1>1, <3>1, <3>2, <3>3
  <2>2. CASE ~reviews[t].deleted /\ a # "DELETED" /\ reviews[t].status # Target(a)
    <3> DEFINE row == [reviews[t] EXCEPT !.status = Target(a)]
    <3>1. reviews' = [reviews EXCEPT ![t] = row]
      BY <2>2 DEF CommitResolve
    <3>2. row \in ReviewRow /\ row.status \in {"PUBLISHED", "HIDDEN"}
      BY <1>1 DEF ReviewRow, ReviewStatus, Target
    <3>3. row # NoRow
      BY <3>2, NullsAssumption
    <3> HIDE DEF row, t
    <3> QED BY <1>0, <1>1, <3>1, <3>2, <3>3
  <2>3. CASE reviews[t].deleted \/ (a # "DELETED" /\ reviews[t].status = Target(a))
    <3>1. reviews' = reviews
      BY <2>3 DEF CommitResolve
    <3>2. reviews[t].deleted \/ reviews[t].status # "REPORTED"
      BY <2>3 DEF Target
    <3> QED BY <1>1, <3>1, <3>2
  <2> QED BY <2>1, <2>2, <2>3
<1>5. ReportsOK'
  <2> SUFFICES ASSUME NEW k \in ReportKeys, reports'[k] # "none" PROVE reviews'[k[1]] # NoRow
    BY DEF ReportsOK
  <2>1. k[1] \in ReviewIds /\ reviews[k[1]] # NoRow
    BY <1>3 DEF ReportKeys, ReportsOK
  <2> QED BY <1>4, <2>1
<1>6. ReportedIffPending'
  <2> SUFFICES ASSUME NEW r \in ReviewIds, reviews'[r] # NoRow, ~reviews'[r].deleted
               PROVE  reviews'[r].status = "REPORTED"
                        <=> \E u \in Users : reports'[<<r, u>>] = "PENDING"
    BY DEF ReportedIffPending, Found
  <2>1. \A u \in Users : <<r, u>> \in ReportKeys /\ <<r, u>>[1] = r
    BY DEF ReportKeys
  <2>2. CASE r = t
    BY <1>3, <1>4, <2>1, <2>2
  <2>3. CASE r # t
    BY <1>3, <1>4, <2>1, <2>3 DEF ReportedIffPending, Found
  <2> QED BY <2>2, <2>3
<1> QED BY <1>5, <1>6

\* While administrators act on reports only, and the handlers that read the review
\* before their transaction run alone, a live review is REPORTED exactly as long as
\* one of its reports waits, however many reports and resolutions overlap.
THEOREM ReportedWhilePending ==
    PreReadAlone /\ "moderate" \notin Handlers => (Spec => []ReportedIffPending)
<1> SUFFICES ASSUME PreReadAlone, "moderate" \notin Handlers PROVE Spec => []ReportedIffPending
  OBVIOUS
<1> DEFINE Inv == AloneOK /\ ReportsOK /\ ReportedIffPending
<1>1. Init => Inv
  <2> SUFFICES ASSUME Init PROVE Inv
    OBVIOUS
  <2>1. AloneOK /\ ReportsOK
    BY DEF Init, AloneOK, ReportsOK
  <2>2. \A r \in ReviewIds, u \in Users : reports[<<r, u>>] = "none"
    BY DEF Init, ReportKeys
  <2>3. \A r \in ReviewIds : reviews[r] # NoRow => reviews[r].status = "PUBLISHED"
    BY DEF Init, PublishedRow
  <2> QED BY <2>1, <2>2, <2>3 DEF ReportedIffPending, Found
<1>2. IInv /\ Inv /\ [Next]_vars => Inv'
  <2> SUFFICES ASSUME IInv, Inv, [Next]_vars PROVE ReportsOK' /\ ReportedIffPending'
    BY AloneStep
  <2>1. CASE UNCHANGED tables
    BY <2>1 DEF tables, ReportsOK, ReportedIffPending, Found
  <2>2. ASSUME NEW q \in Requests, Advance(q) PROVE ReportsOK' /\ ReportedIffPending'
    <3>1. CASE CommitReport(q) /\ ~Rollback(q)
      BY <3>1, PendingReport
    <3>2. CASE CommitResolve(q)
      BY <3>2, PendingResolve
    <3>3. CASE \/ CommitCreate(q) \/ CommitUpdate(q) \/ CommitRemove(q) \/ CommitAdminDelete(q)
      <4>1. /\ UNCHANGED reports /\ ReportedIffPending'
            /\ \A r \in ReviewIds : reviews[r] # NoRow => reviews'[r] # NoRow
        BY <3>3, PendingOther
      <4> QED BY <4>1 DEF ReportsOK, ReportKeys
    <3>4. ~CommitModerate(q)
      <4>1. SUFFICES ASSUME CommitModerate(q) PROVE FALSE
        OBVIOUS
      <4>2. call[q] # NoCall /\ call[q].op = "moderate"
        BY <4>1, NullsAssumption DEF CommitModerate, IInv, CallsOK, CallOK
      <4> QED BY <4>2 DEF AloneOK
    <3> QED BY <2>1, <2>2, <3>1, <3>2, <3>3, <3>4, NoTableWritten DEF Advance, Rollback
  <2>3. ASSUME NEW q \in Requests, Begin(q) PROVE UNCHANGED tables
    BY <2>3, NoTableWritten
  <2> QED BY <2>1, <2>2, <2>3 DEF Next, Quiet, vars, tables
<1> QED BY <1>1, <1>2, Invariant, PTL DEF Spec

-----------------------------------------------------------------------------
(* Every call at once.  The board and the scores that the tables show       *)
(* change only at a COMMIT, which is the action of ReviewBoard of its call. *)

\* A resolver that waits for its review has its report, which is still to be
\* decided; a moderation by hand changes the status of the entity.
DecisionsOK ==
    \A q \in Requests :
        /\ call[q] # NoCall /\ call[q].op = "resolve" /\ pc[q] \in {"lock", "photos", "commit"} =>
              /\ reportLock[<<call[q].r, call[q].user>>] = q
              /\ reports[<<call[q].r, call[q].user>>] = "PENDING"
        /\ call[q] # NoCall /\ call[q].op = "moderate" => ent[q].status # call[q].status

\* A report that is locked by another is not written.
LEMMA LockedReportStays ==
    ASSUME IInv, NEW p \in Requests, NEW q \in Requests, p # q, Advance(p),
           NEW k \in ReportKeys, reportLock[k] = q, reports[k] = "PENDING"
    PROVE  reports'[k] = "PENDING"
<1>0. reports \in [ReportKeys -> ReportRow]
  BY DEF IInv, TypeOK, TablesOK
<1>1. CASE CommitReport(p)
  <2>1. CASE Refused(p)
    BY <1>1, <2>1 DEF CommitReport, Rollback, tables
  <2>2. CASE ~Refused(p)
    <3>1. reports' = [reports EXCEPT ![<<call[p].r, call[p].user>>] = "PENDING"]
      BY <1>1, <2>2 DEF CommitReport
    <3> QED BY <1>0, <3>1
  <2> QED BY <2>1, <2>2
<1>2. CASE CommitResolve(p)
  <2>1. pc[p] = "commit" /\ call[p].op = "resolve" /\ Blockers(p) = {}
        /\ reports' = [j \in ReportKeys |-> IF j \in Siblings(p) THEN call[p].action
                                            ELSE reports[j]]
    BY <1>2 DEF CommitResolve
  <2>2. k \notin Siblings(p)
    <3>1. SUFFICES ASSUME k \in Siblings(p) PROVE q \in Blockers(p)
      BY <2>1
    <3> QED BY <2>1, <3>1 DEF Blockers
  <2> QED BY <2>1, <2>2
<1>3. CASE CommitCreate(p)
  BY <1>3 DEF CommitCreate, Rollback, tables
<1>4. CASE CommitUpdate(p) \/ CommitModerate(p)
  BY <1>4 DEF CommitUpdate, CommitModerate, Rollback, tables
<1>5. CASE CommitRemove(p) \/ CommitAdminDelete(p)
  BY <1>5 DEF CommitRemove, CommitAdminDelete
<1> QED BY <1>1, <1>2, <1>3, <1>4, <1>5, NoTableWritten DEF Advance, tables

\* The handlers as they begin.
LEMMA DecisionsBegin ==
    ASSUME IInv, DecisionsOK, NEW p \in Requests, Begin(p) PROVE DecisionsOK'
<1>0. /\ pc \in [Requests -> PC] /\ call \in [Requests -> Call \cup {NoCall}]
      /\ ent \in [Requests -> ReviewRow \cup {NoRow}]
  BY DEF IInv, TypeOK
<1>1. ASSUME NEW c, NEW e, NEW first, Start(p, c, e, first),
             c.op = "resolve" => first = "lockReport",
             c.op = "moderate" => e.status # c.status
      PROVE  DecisionsOK'
  <2>1. /\ pc'[p] = first /\ call'[p] = c /\ ent'[p] = e
        /\ UNCHANGED <<reports, reportLock>>
        /\ \A q \in Requests \ {p} : pc'[q] = pc[q] /\ call'[q] = call[q] /\ ent'[q] = ent[q]
    BY <1>0, <1>1 DEF Start, tables, locks
  <2>2. ASSUME NEW q \in Requests, q # p
        PROVE  /\ call'[q] # NoCall /\ call'[q].op = "resolve" /\ pc'[q] \in {"lock", "photos", "commit"} =>
                     /\ reportLock'[<<call'[q].r, call'[q].user>>] = q
                     /\ reports'[<<call'[q].r, call'[q].user>>] = "PENDING"
               /\ call'[q] # NoCall /\ call'[q].op = "moderate" => ent'[q].status # call'[q].status
    BY <2>1, <2>2 DEF DecisionsOK
  <2> QED BY <1>1, <2>1, <2>2 DEF DecisionsOK
<1>2. CASE StartCreate(p)
  <2>1. PICK u \in Users, b \in Bars, s \in Ratings :
          Start(p, [op |-> "create", user |-> u, bar |-> b, rating |-> s], NoRow, "insert")
    BY <1>2 DEF StartCreate
  <2> QED BY <1>1, <2>1
<1>3. CASE StartReport(p)
  <2>1. PICK r \in ReviewIds, u \in Users :
          Start(p, [op |-> "report", r |-> r, user |-> u], NoRow, "lock")
    BY <1>3 DEF StartReport
  <2> QED BY <1>1, <2>1
<1>6. CASE StartUpdate(p)
  <2>1. PICK r \in ReviewIds, s \in Ratings \cup {NoRating} :
          Start(p, [op |-> "update", r |-> r, user |-> reviews[r].user, rating |-> s],
                reviews[r],
                IF /\ s \notin {NoRating, reviews[r].rating}
                   /\ reviews[r].status = "PUBLISHED"
                THEN "adjust" ELSE "select")
    BY <1>6 DEF StartUpdate
  <2> DEFINE c == [op |-> "update", r |-> r, user |-> reviews[r].user, rating |-> s]
             first == IF /\ s \notin {NoRating, reviews[r].rating}
                         /\ reviews[r].status = "PUBLISHED"
                      THEN "adjust" ELSE "select"
  <2>2. c.op = "update" /\ Start(p, c, reviews[r], first)
    BY <2>1
  <2> HIDE DEF c, first
  <2> QED BY <1>1, <2>2
<1>7. CASE StartRemove(p) \/ StartAdminDelete(p)
  <2>1. PICK r \in ReviewIds, o \in {"remove", "adminDelete"} :
          Start(p, [op |-> o, r |-> r], reviews[r], FirstOfDeletion(r))
    BY <1>7 DEF StartRemove, StartAdminDelete
  <2> DEFINE c == [op |-> o, r |-> r]
  <2>2. c.op = o /\ Start(p, c, reviews[r], FirstOfDeletion(r))
    BY <2>1
  <2> HIDE DEF c
  <2> QED BY <1>1, <2>1, <2>2
<1>4. CASE StartModerate(p)
  <2>1. PICK r \in ReviewIds, s \in ReviewStatus :
          /\ reviews[r].status # s
          /\ Start(p, [op |-> "moderate", r |-> r, status |-> s], reviews[r], "select")
    BY <1>4 DEF StartModerate
  <2> DEFINE c == [op |-> "moderate", r |-> r, status |-> s]
  <2>2. c.op = "moderate" /\ c.status = s /\ Start(p, c, reviews[r], "select")
    BY <2>1
  <2> HIDE DEF c
  <2> QED BY <1>1, <2>1, <2>2
<1>5. CASE StartResolve(p)
  <2>1. PICK c : Start(p, c, NoRow, "lockReport") /\ c.op = "resolve"
    BY <1>5 DEF StartResolve
  <2> QED BY <1>1, <2>1
<1> QED BY <1>2, <1>3, <1>4, <1>5, <1>6, <1>7 DEF Begin

\* The statements and the commits.
LEMMA DecisionsAdvance ==
    ASSUME IInv, DecisionsOK, NEW p \in Requests, Advance(p) PROVE DecisionsOK'
<1>0. /\ pc \in [Requests -> PC] /\ call \in [Requests -> Call \cup {NoCall}]
      /\ ent \in [Requests -> ReviewRow \cup {NoRow}]
      /\ reportLock \in [ReportKeys -> Requests \cup {NoRequest}]
  BY DEF IInv, TypeOK
<1>1. ASSUME NEW q \in Requests, call[q] # NoCall, call[q].op = "resolve"
      PROVE  <<call[q].r, call[q].user>> \in ReportKeys
  BY <1>0, <1>1, CallFields DEF ReportKeys
<1>2. ASSUME NEW q \in Requests \ {p}, call'[q] # NoCall, call'[q].op = "resolve",
             pc'[q] \in {"lock", "photos", "commit"},
             call'[q] = call[q], pc'[q] = pc[q],
             \A k \in ReportKeys : reportLock[k] = q => reportLock'[k] = q
      PROVE  /\ reportLock'[<<call'[q].r, call'[q].user>>] = q
             /\ reports'[<<call'[q].r, call'[q].user>>] = "PENDING"
  BY <1>1, <1>2, LockedReportStays DEF DecisionsOK
<1>3. CASE Finish(p)
  <2>1. /\ call'[p] = NoCall
        /\ \A q \in Requests \ {p} : pc'[q] = pc[q] /\ call'[q] = call[q] /\ ent'[q] = ent[q]
    BY <1>0, <1>3 DEF Finish
  <2>2. \A q \in Requests \ {p}, k \in ReportKeys : reportLock[k] = q => reportLock'[k] = q
    BY <1>0, <1>3 DEF Finish, Released
  <2>3. ASSUME NEW q \in Requests, call'[q] # NoCall
        PROVE  q # p /\ pc'[q] = pc[q] /\ call'[q] = call[q] /\ ent'[q] = ent[q]
    BY <2>1, <2>3
  <2>4. ASSUME NEW q \in Requests, call'[q] # NoCall, call'[q].op = "resolve",
               pc'[q] \in {"lock", "photos", "commit"}
        PROVE  /\ reportLock'[<<call'[q].r, call'[q].user>>] = q
               /\ reports'[<<call'[q].r, call'[q].user>>] = "PENDING"
    BY <1>2, <2>2, <2>3, <2>4
  <2>5. ASSUME NEW q \in Requests, call'[q] # NoCall, call'[q].op = "moderate"
        PROVE  ent'[q].status # call'[q].status
    BY <2>3, <2>5 DEF DecisionsOK
  <2> QED BY <2>4, <2>5 DEF DecisionsOK
<1>4. CASE UNCHANGED tables /\ ~Finish(p)
  <2>1. /\ UNCHANGED <<call, ent, reports>>
        /\ \A q \in Requests \ {p} : pc'[q] = pc[q]
    BY <1>0, <1>4 DEF Advance, AdjustStatement, SaveSelect, LockReview, LockReport, LockPhoto,
                CommitCreate,
         CommitUpdate, CommitRemove, CommitAdminDelete, CommitModerate, CommitReport,
         CommitResolve, DeadlockAbort, Rollback, tables
  <2>2. CASE LockReport(p)
    <3> DEFINE k == <<call[p].r, call[p].user>>
    <3>1. /\ pc[p] = "lockReport" /\ reportLock[k] = NoRequest /\ reports[k] = "PENDING"
          /\ reportLock' = [reportLock EXCEPT ![k] = p]
      BY <1>4, <2>2 DEF LockReport, Rollback
    <3>2. call[p] # NoCall /\ call[p].op = "resolve"
      BY <3>1, NullsAssumption DEF IInv, CallsOK, CallOK
    <3>3. k \in ReportKeys
      BY <1>1, <3>2
    <3> HIDE DEF k
    <3>4. reportLock'[k] = p
      BY <1>0, <3>1, <3>3
    <3>5. \A q \in Requests \ {p}, j \in ReportKeys : reportLock[j] = q => reportLock'[j] = q
      BY <1>0, <3>1, <3>3, NullsAssumption
    <3>6. reports'[k] = "PENDING" /\ ent'[p] = ent[p] /\ call'[p] = call[p]
      BY <2>1, <3>1
    <3> QED BY <1>2, <2>1, <3>2, <3>4, <3>5, <3>6 DEF DecisionsOK, k
  <2>3. CASE ~LockReport(p)
    <3>1. UNCHANGED reportLock /\ (pc'[p] \in {"lock", "photos", "commit"} =>
             pc[p] \in {"lock", "photos", "commit"} \/ call[p].op \in {"update", "moderate"})
      BY <1>0, <1>4, <2>3 DEF Advance, AdjustStatement, SaveSelect, LockReview, LockPhoto, CommitCreate,
           CommitUpdate, CommitRemove, CommitAdminDelete, CommitModerate, CommitReport,
           CommitResolve, DeadlockAbort, Rollback, locks, IInv, CallsOK, CallOK
    <3> QED BY <2>1, <3>1 DEF DecisionsOK
  <2> QED BY <2>2, <2>3
<1>5. UNCHANGED tables \/ Finish(p)
  BY NoTableWritten DEF Advance, CommitCreate, CommitUpdate, CommitRemove,
     CommitAdminDelete, CommitModerate, CommitReport, CommitResolve, Rollback
<1> QED BY <1>3, <1>4, <1>5

\* One step keeps what the deciding handlers rely on.
LEMMA DecisionsStep == ASSUME IInv, DecisionsOK, [Next]_vars PROVE DecisionsOK'
<1>1. CASE UNCHANGED vars
  BY <1>1 DEF vars, DecisionsOK
<1> QED BY <1>1, DecisionsBegin, DecisionsAdvance DEF Next, Quiet

\* What ReviewBoard sees.
Board == [r \in ReviewIds |-> OnBoard(reviews[r])]
Stars == [b \in Bars |-> stats[b].ratingCount]

\* The board shows the live reviews, without the columns nobody is promised.
LEMMA OnBoardFacts ==
    ASSUME NEW row \in ReviewRow \cup {NoRow}
    PROVE  IF row # NoRow /\ ~row.deleted
           THEN /\ OnBoard(row) # NoRow
                /\ OnBoard(row) = [user |-> row.user, bar |-> row.bar,
                                   rating |-> row.rating, status |-> row.status]
           ELSE OnBoard(row) = NoRow
<1>1. CASE row # NoRow /\ ~row.deleted
  <2>1. OnBoard(row) = [user |-> row.user, bar |-> row.bar,
                        rating |-> row.rating, status |-> row.status]
    BY <1>1 DEF OnBoard
  <2>2. OnBoard(row) \in BoardRow
    BY <1>1, <2>1 DEF ReviewRow, BoardRow
  <2> QED BY <1>1, <2>1, <2>2, NullsAssumption
<1>2. CASE ~(row # NoRow /\ ~row.deleted)
  BY <1>2 DEF OnBoard
<1> QED BY <1>1, <1>2

\* What is live on the board is what the find methods find.
LEMMA BoardLive ==
    ASSUME IInv, NEW r \in ReviewIds
    PROVE  /\ Board[r] = OnBoard(reviews[r])
           /\ Promised!Live(r) <=> Found(r)
           /\ Found(r) => /\ Board[r].user = reviews[r].user
                          /\ Board[r].bar = reviews[r].bar
                          /\ Board[r].rating = reviews[r].rating
                          /\ Board[r].status = reviews[r].status
<1>1. Board[r] = OnBoard(reviews[r])
  BY DEF Board
<1>2. reviews[r] \in ReviewRow \cup {NoRow}
  BY DEF IInv, TypeOK, TablesOK
<1>3. Promised!Live(r) <=> OnBoard(reviews[r]) # NoRow
  BY DEF Promised!Live
<1>4. Promised!Live(r) <=> Found(r)
  BY <1>2, <1>3, OnBoardFacts DEF Found
<1>5. ASSUME Found(r)
      PROVE  /\ Board[r].user = reviews[r].user
             /\ Board[r].bar = reviews[r].bar
             /\ Board[r].rating = reviews[r].rating
             /\ Board[r].status = reviews[r].status
  BY <1>1, <1>2, <1>5, OnBoardFacts DEF Found
<1> QED BY <1>1, <1>4, <1>5

\* A write to one row of the table.
LEMMA BoardWrite ==
    ASSUME IInv, NEW r \in ReviewIds, NEW row, reviews' = [reviews EXCEPT ![r] = row]
    PROVE  Board' = [Board EXCEPT ![r] = OnBoard(row)]
<1>1. DOMAIN reviews = ReviewIds
  BY DEF IInv, TypeOK, TablesOK
<1>2. \A x \in ReviewIds : reviews'[x] = IF x = r THEN row ELSE reviews[x]
  BY <1>1
<1>3. \A x \in ReviewIds : OnBoard(reviews'[x]) = IF x = r THEN OnBoard(row) ELSE OnBoard(reviews[x])
  BY <1>2
<1>4. Board' = [x \in ReviewIds |-> OnBoard(reviews'[x])]
  BY DEF Board
<1>5. [Board EXCEPT ![r] = OnBoard(row)]
        = [x \in ReviewIds |-> IF x = r THEN OnBoard(row) ELSE OnBoard(reviews[x])]
  BY DEF Board
<1> QED BY <1>3, <1>4, <1>5

\* A live row that gets another rating or another status.
LEMMA BoardChange ==
    ASSUME IInv, NEW r \in ReviewIds, Found(r), NEW row \in ReviewRow,
           ~row.deleted, row.user = reviews[r].user, row.bar = reviews[r].bar,
           reviews' = [reviews EXCEPT ![r] = row]
    PROVE  /\ row.status = reviews[r].status => Board' = [Board EXCEPT ![r].rating = row.rating]
           /\ row.rating = reviews[r].rating => Board' = [Board EXCEPT ![r].status = row.status]
<1>1. reviews[r] \in ReviewRow \cup {NoRow} /\ reviews[r] # NoRow /\ ~reviews[r].deleted
  BY DEF Found, IInv, TypeOK, TablesOK
<1>2. row # NoRow
  BY NullsAssumption
<1>3. Board[r] = [user |-> reviews[r].user, bar |-> reviews[r].bar,
                  rating |-> reviews[r].rating, status |-> reviews[r].status]
  BY <1>1, OnBoardFacts DEF Board
<1>4. OnBoard(row) = [user |-> reviews[r].user, bar |-> reviews[r].bar,
                      rating |-> row.rating, status |-> row.status]
  BY <1>2, OnBoardFacts
<1>5. Board' = [Board EXCEPT ![r] = OnBoard(row)]
  BY BoardWrite
<1>6. /\ [Board EXCEPT ![r].rating = row.rating]
           = [Board EXCEPT ![r] = [Board[r] EXCEPT !.rating = row.rating]]
      /\ [Board EXCEPT ![r].status = row.status]
           = [Board EXCEPT ![r] = [Board[r] EXCEPT !.status = row.status]]
  OBVIOUS
<1>7. ASSUME row.status = reviews[r].status
      PROVE  [Board[r] EXCEPT !.rating = row.rating] = OnBoard(row)
  BY <1>3, <1>4, <1>7
<1>8. ASSUME row.rating = reviews[r].rating
      PROVE  [Board[r] EXCEPT !.status = row.status] = OnBoard(row)
  BY <1>3, <1>4, <1>8
<1> QED BY <1>5, <1>6, <1>7, <1>8

\* A row that is deleted leaves the board.
LEMMA BoardTake ==
    ASSUME IInv, NEW r \in ReviewIds, reviews[r] \in ReviewRow,
           reviews' = [reviews EXCEPT ![r].deleted = TRUE]
    PROVE  Promised!Take(r)
<1> DEFINE row == [reviews[r] EXCEPT !.deleted = TRUE]
<1>1. row \in ReviewRow /\ row.deleted
  BY DEF ReviewRow
<1>2. reviews' = [reviews EXCEPT ![r] = row]
  OBVIOUS
<1> HIDE DEF row
<1>3. OnBoard(row) = NoRow
  BY <1>1, OnBoardFacts
<1>4. Board' = [Board EXCEPT ![r] = NoRow]
  BY <1>2, <1>3, BoardWrite
<1> QED BY <1>4 DEF Promised!Take, Board

\* ReviewBoard counts as the tables do.
LEMMA SameCardinality == \A S : Promised!Cardinality(S) = Cardinality(S)
  BY DEF Promised!Cardinality, Cardinality

\* The exact aggregate rows have the scores of the board.
LEMMA ScoresShown == ASSUME IInv, StatsExact PROVE Stars = Promised!Score
<1>1. ASSUME NEW b \in Bars, NEW s \in Ratings
      PROVE  stats[b].ratingCount[s] = Cardinality(Promised!Shown(b, s))
  <2>1. stats[b].ratingCount[s] = Cardinality({r \in Counted(reviews, b) : reviews[r].rating = s})
    <3>1. stats[b].ratingCount = Recalculate(reviews, b).ratingCount
      BY DEF StatsExact
    <3>2. Recalculate(reviews, b).ratingCount
            = [x \in Ratings |-> Cardinality({r \in Counted(reviews, b) : reviews[r].rating = x})]
      BY DEF Recalculate
    <3> QED BY <3>1, <3>2
  <2>2. DOMAIN reviews = ReviewIds
    BY DEF IInv, TypeOK, TablesOK
  <2>3. ASSUME NEW r \in ReviewIds
        PROVE  r \in Promised!Shown(b, s) <=> r \in Counted(reviews, b) /\ reviews[r].rating = s
    <3>1. r \in Promised!Shown(b, s) <=>
             Promised!Live(r) /\ Board[r].status = "PUBLISHED" /\ Board[r].bar = b
               /\ Board[r].rating = s
      BY DEF Promised!Shown, Board
    <3> QED BY <2>2, <3>1, BoardLive DEF Counted, Found
  <2>4. /\ Promised!Shown(b, s) \subseteq ReviewIds
        /\ {r \in Counted(reviews, b) : reviews[r].rating = s} \subseteq ReviewIds
    BY <2>2 DEF Promised!Shown, Counted
  <2>5. Promised!Shown(b, s) = {r \in Counted(reviews, b) : reviews[r].rating = s}
    BY <2>3, <2>4
  <2> QED BY <2>1, <2>5
<1>2. ASSUME NEW b \in Bars
      PROVE  stats[b].ratingCount = [s \in Ratings |-> Cardinality(Promised!Shown(b, s))]
  <2>1. stats[b].ratingCount \in [Ratings -> Nat]
    BY DEF IInv, TypeOK, TablesOK, StatsRow
  <2> QED BY <1>1, <2>1
<1>3. Promised!Score = [b \in Bars |-> [s \in Ratings |-> Cardinality(Promised!Shown(b, s))]]
  BY SameCardinality DEF Promised!Score
<1>4. Stars = [b \in Bars |-> stats[b].ratingCount]
  BY DEF Stars
<1> QED BY <1>2, <1>3, <1>4

\* The insert of create, when the unique index lets it through.
LEMMA ActsCreate ==
    ASSUME IInv, NEW q \in Requests, CommitCreate(q), ~Rollback(q)
    PROVE  Promised!Act
<1> DEFINE c == call[q]
           row == [user |-> c.user, bar |-> c.bar, rating |-> c.rating,
                   status |-> "PUBLISHED", photoCount |-> 0, deleted |-> FALSE]
<1>1. PICK r \in ReviewIds :
        /\ reviews[r] = NoRow
        /\ ~Duplicate(reviews, r, c.user, c.bar)
        /\ reviews' = [reviews EXCEPT ![r] = row]
        /\ UNCHANGED <<reports, audit>>
  BY DEF CommitCreate
<1>2. c \in Call /\ c.op = "create"
  BY NullsAssumption DEF CommitCreate, IInv, CallsOK, CallOK
<1>3. c.user \in Users /\ c.bar \in Bars /\ c.rating \in Ratings
  BY <1>2, CallFields
<1>4. row \in ReviewRow /\ ~row.deleted
  BY <1>3, BoundsAssumption DEF ReviewRow, ReviewStatus
<1>5. row # NoRow
  BY <1>4, NullsAssumption
<1>6. [user |-> row.user, bar |-> row.bar, rating |-> row.rating, status |-> row.status]
         = Promised!Review(c.user, c.bar, c.rating)
  BY DEF Promised!Review
<1> HIDE DEF row, c
<1>7. Board' = [Board EXCEPT ![r] = Promised!Review(c.user, c.bar, c.rating)]
  BY <1>1, <1>4, <1>5, <1>6, OnBoardFacts, BoardWrite
<1>8. ~Promised!Live(r)
  BY <1>1, BoardLive DEF Found
<1>9. ~Promised!Has(c.user, c.bar)
  <2>1. SUFFICES ASSUME NEW o \in ReviewIds, Promised!Live(o), Board[o].user = c.user,
                        Board[o].bar = c.bar
                 PROVE  FALSE
    BY DEF Promised!Has, Board
  <2>2. Found(o) /\ reviews[o].user = c.user /\ reviews[o].bar = c.bar
    BY <2>1, BoardLive
  <2> QED BY <1>1, <2>2 DEF Duplicate, Found
<1>10. Promised!Post(r, c.user, c.bar, c.rating)
  BY <1>1, <1>7, <1>8, <1>9 DEF Promised!Post, Board
<1> QED BY <1>3, <1>10 DEF Promised!Act

\* The edit of a review that nobody else can have touched.
LEMMA ActsUpdate ==
    ASSUME IInv, AloneOK, NEW q \in Requests, CommitUpdate(q), ~Rollback(q)
    PROVE  Promised!Act
<1> DEFINE r == call[q].r
           e == Entity(q)
<1>1. /\ pc[q] = "commit" /\ call[q].op = "update" /\ SaveUpdate(q)
      /\ UNCHANGED <<reports, audit>>
  BY DEF CommitUpdate
<1>2. /\ ent[q] = reviews[r] /\ ~ent[q].deleted /\ ent[q] \in ReviewRow /\ ent[q] # NoRow
      /\ e \in ReviewRow /\ ~e.deleted /\ e.user = ent[q].user /\ e.bar = ent[q].bar
      /\ Patched(reviews[r], e, cols[q]) = e
  BY <1>1, AloneCommit DEF PreRead
<1>3. r \in ReviewIds /\ Found(r) /\ e.status = reviews[r].status /\ e.rating \in Ratings
  BY <1>1, <1>2, CommitTarget, EntityTyped DEF Found, ReviewRow
<1>4. reviews' = [reviews EXCEPT ![r] = e]
  BY <1>1, <1>2 DEF SaveUpdate
<1> HIDE DEF e, r
<1>5. Board' = [Board EXCEPT ![r].rating = e.rating]
  BY <1>2, <1>3, <1>4, BoardChange
<1>6. Promised!Live(r)
  BY <1>3, BoardLive
<1>7. Promised!Rate(r, e.rating)
  BY <1>1, <1>5, <1>6 DEF Promised!Rate, Board
<1> QED BY <1>3, <1>7 DEF Promised!Act

\* The deletions of a review that is still there.
LEMMA ActsRemove ==
    ASSUME IInv, AloneOK, NEW q \in Requests, CommitRemove(q) \/ CommitAdminDelete(q)
    PROVE  Promised!Act
<1> DEFINE r == call[q].r
<1>1. /\ pc[q] = "commit" /\ call[q].op \in PreRead
      /\ reviews' = [reviews EXCEPT ![r].deleted = TRUE]
      /\ UNCHANGED reports
  BY DEF CommitRemove, CommitAdminDelete, DeleteReviewWithManager, SoftRemove, PreRead
<1>2. r \in ReviewIds /\ reviews[r] \in ReviewRow /\ Found(r)
  BY <1>1, CommitTarget, AloneCommit DEF Found
<1>3. UNCHANGED audit \/ audit' = [audit EXCEPT ![r]["REVIEW_DELETED"] = @ + 1]
  BY DEF CommitRemove, CommitAdminDelete, DeleteReviewWithManager, Logged
<1> HIDE DEF r
<1>4. Promised!Live(r) /\ Promised!Take(r)
  BY <1>1, <1>2, BoardLive, BoardTake
<1>5. Promised!Remove(r) \/ Promised!AdminDelete(r)
  BY <1>1, <1>3, <1>4 DEF Promised!Remove, Promised!AdminDelete, Promised!Log
<1> QED BY <1>2, <1>5 DEF Promised!Act

\* A change of the status of a live review by an administrator.
LEMMA BoardDecide ==
    ASSUME IInv, NEW r \in ReviewIds, Found(r), NEW s \in ReviewStatus,
           reviews' = [reviews EXCEPT ![r] = [reviews[r] EXCEPT !.status = s]],
           ModerateReviewWithManager(r, reviews[r], s)
    PROVE  Promised!Decide(r, s)
<1> DEFINE row == [reviews[r] EXCEPT !.status = s]
<1>1. reviews[r] \in ReviewRow /\ ~reviews[r].deleted
  BY DEF Found, IInv, TypeOK, TablesOK
<1>2. /\ row \in ReviewRow /\ row.status = s /\ ~row.deleted /\ row.user = reviews[r].user
      /\ row.bar = reviews[r].bar /\ row.rating = reviews[r].rating
  BY <1>1 DEF ReviewRow
<1>3. reviews' = [reviews EXCEPT ![r] = row]
  OBVIOUS
<1>4. audit' = [audit EXCEPT ![r][IF s = "PUBLISHED" THEN "REVIEW_RESTORED"
                                  ELSE "REVIEW_HIDDEN"] = @ + 1]
  BY DEF ModerateReviewWithManager, Logged
<1> HIDE DEF row
<1>5. Board' = [Board EXCEPT ![r].status = s]
  BY <1>2, <1>3, BoardChange
<1> QED BY <1>4, <1>5 DEF Promised!Decide, Promised!SetStatus, Promised!Log, Board

\* Moderation by hand of a review that nobody else can have touched.
LEMMA ActsModerate ==
    ASSUME IInv, AloneOK, DecisionsOK, NEW q \in Requests, CommitModerate(q), ~Rollback(q)
    PROVE  Promised!Act
<1> DEFINE r == call[q].r
           s == call[q].status
<1>1. /\ pc[q] = "commit" /\ call[q].op = "moderate" /\ SaveUpdate(q)
      /\ ModerateReviewWithManager(r, ent[q], s) /\ UNCHANGED reports
  BY DEF CommitModerate
<1>2. /\ ent[q] = reviews[r] /\ ~ent[q].deleted /\ ent[q] \in ReviewRow /\ ent[q] # NoRow
      /\ Patched(reviews[r], Entity(q), cols[q]) = Entity(q)
  BY <1>1, AloneCommit DEF PreRead
<1>3. /\ r \in ReviewIds /\ s \in ReviewStatus /\ Found(r)
      /\ reviews[r].status # s
  <2>1. call[q] \in Call /\ call[q] # NoCall
    BY <1>1, CommitTarget, NullsAssumption
  <2> QED BY <1>1, <1>2, <2>1, CallFields, CommitTarget DEF Found, DecisionsOK
<1>4. Entity(q) = [reviews[r] EXCEPT !.status = s]
  BY <1>1, <1>2 DEF Entity
<1>5. reviews' = [reviews EXCEPT ![r] = [reviews[r] EXCEPT !.status = s]]
  BY <1>1, <1>2, <1>4 DEF SaveUpdate
<1> HIDE DEF r, s
<1>6. Promised!Live(r) /\ Board[r].status # s /\ Promised!Decide(r, s)
  BY <1>1, <1>2, <1>3, <1>5, BoardLive, BoardDecide
<1>7. Promised!Moderate(r, s)
  BY <1>1, <1>6 DEF Promised!Moderate, Board
<1> QED BY <1>3, <1>7 DEF Promised!Act, ReviewStatus

\* A report that is accepted: the review it locked is REPORTED from then on.
LEMMA ActsReport ==
    ASSUME IInv, NEW q \in Requests, CommitReport(q), ~Rollback(q)
    PROVE  Promised!Act
<1> DEFINE r == call[q].r
           u == call[q].user
<1>1. /\ pc[q] = "commit" /\ call[q].op = "report" /\ ~Refused(q)
      /\ reports' = [reports EXCEPT ![<<r, u>>] = "PENDING"]
      /\ IF reviews[r].status = "PUBLISHED"
         THEN reviews' = [reviews EXCEPT ![r].status = "REPORTED"]
         ELSE UNCHANGED reviews
      /\ UNCHANGED audit
  BY DEF CommitReport
<1>2. r \in ReviewIds /\ u \in Users /\ reviews[r] \in ReviewRow /\ reviews[r] # NoRow
  BY <1>1, CommitTarget, CallFields
<1>3. /\ ~reviews[r].deleted /\ reviews[r].status # "HIDDEN" /\ reviews[r].user # u
      /\ reports[<<r, u>>] = "none"
  BY <1>1 DEF Refused
<1> HIDE DEF r, u
<1>4. /\ Found(r) /\ Promised!Live(r) /\ Board[r].status = reviews[r].status
      /\ Board[r].user = reviews[r].user
  BY <1>2, <1>3, BoardLive DEF Found
<1>5. Board' = [Board EXCEPT ![r].status = "REPORTED"]
  <2>1. CASE reviews[r].status = "PUBLISHED"
    <3> DEFINE row == [reviews[r] EXCEPT !.status = "REPORTED"]
    <3>1. /\ row \in ReviewRow /\ ~row.deleted /\ row.user = reviews[r].user
          /\ row.bar = reviews[r].bar /\ row.rating = reviews[r].rating
          /\ row.status = "REPORTED"
      BY <1>2, <1>3 DEF ReviewRow, ReviewStatus
    <3>2. reviews' = [reviews EXCEPT ![r] = row]
      BY <1>1, <2>1
    <3> HIDE DEF row
    <3> QED BY <1>2, <1>4, <3>1, <3>2, BoardChange
  <2>2. CASE reviews[r].status # "PUBLISHED"
    <3>1. reviews[r].status = "REPORTED"
      BY <1>2, <1>3, <2>2 DEF ReviewRow, ReviewStatus
    <3>2. Board' = Board
      BY <1>1, <2>2 DEF Board
    <3>3. Board[r] = [user |-> reviews[r].user, bar |-> reviews[r].bar,
                      rating |-> reviews[r].rating, status |-> reviews[r].status]
      BY <1>2, <1>3, OnBoardFacts DEF Board
    <3>4. [Board[r] EXCEPT !.status = "REPORTED"] = Board[r]
      BY <3>1, <3>3
    <3>5. [Board EXCEPT ![r].status = "REPORTED"] = [Board EXCEPT ![r] = Board[r]]
      BY <3>4
    <3>6. [Board EXCEPT ![r] = Board[r]] = Board
      BY DEF Board
    <3> QED BY <3>2, <3>5, <3>6
  <2> QED BY <2>1, <2>2
<1>6. Promised!Report(r, u)
  BY <1>1, <1>3, <1>4, <1>5 DEF Promised!Report, Promised!SetStatus, Board
<1> QED BY <1>2, <1>6 DEF Promised!Act

\* The decision about a report and all that wait with it.
LEMMA ActsResolve ==
    ASSUME IInv, DecisionsOK, NEW q \in Requests, CommitResolve(q)
    PROVE  Promised!Act
<1> DEFINE r == call[q].r
           u == call[q].user
           a == call[q].action
           s == IF a = "RESTORED" THEN "PUBLISHED" ELSE "HIDDEN"
<1>1. /\ pc[q] = "commit" /\ call[q].op = "resolve"
      /\ CASE ~reviews[r].deleted /\ a = "DELETED" -> DeleteReviewWithManager(r, reviews[r])
           [] ~reviews[r].deleted /\ a # "DELETED" /\ reviews[r].status # s ->
                 /\ reviews' = [reviews EXCEPT ![r].status = s]
                 /\ ModerateReviewWithManager(r, reviews[r], s)
           [] OTHER -> UNCHANGED <<reviews, stats, audit>>
      /\ reports' = [k \in ReportKeys |-> IF k \in Siblings(q) THEN a ELSE reports[k]]
  BY DEF CommitResolve, Target
<1>2. /\ r \in ReviewIds /\ u \in Users /\ a \in ReportResolution
      /\ reviews[r] \in ReviewRow /\ reviews[r] # NoRow
  BY <1>1, CommitTarget, CallFields
<1>3. reports[<<r, u>>] = "PENDING"
  <2>1. call[q] # NoCall
    BY <1>1, CommitTarget, NullsAssumption
  <2> QED BY <1>1, <2>1 DEF DecisionsOK
<1>4. reports' = [k \in ReviewIds \X Users |->
                     IF k[1] = r /\ reports[k] = "PENDING" THEN a ELSE reports[k]]
  BY <1>1 DEF Siblings, ReportKeys
<1>5. s \in ReviewStatus /\ s = IF a = "RESTORED" THEN "PUBLISHED" ELSE "HIDDEN"
  BY DEF ReviewStatus
<1> HIDE DEF r, u, a, s
<1>6. Promised!Live(r) <=> ~reviews[r].deleted
  BY <1>2, BoardLive DEF Found
<1>7. Promised!Live(r) => Board[r].status = reviews[r].status
  BY <1>2, BoardLive
<1>8. CASE ~Promised!Live(r)
  <2>1. UNCHANGED <<Board, audit>>
    BY <1>1, <1>6, <1>8 DEF Board
  <2> QED BY <1>2, <1>3, <1>4, <1>8, <2>1 DEF Promised!Act, Promised!Resolve, Board, ReportResolution
<1>9. CASE Promised!Live(r) /\ a = "DELETED"
  <2>1. /\ reviews' = [reviews EXCEPT ![r].deleted = TRUE]
        /\ audit' = [audit EXCEPT ![r]["REVIEW_DELETED"] = @ + 1]
    BY <1>1, <1>6, <1>9 DEF DeleteReviewWithManager, SoftRemove, Logged
  <2>2. Promised!Take(r) /\ Promised!Log(r, "REVIEW_DELETED")
    BY <1>2, <2>1, BoardTake DEF Promised!Log
  <2>3. Promised!Resolve(r, a)
    BY <1>2, <1>3, <1>4, <1>9, <2>2 DEF Promised!Resolve
  <2> QED BY <1>2, <2>3 DEF Promised!Act, ReportResolution
<1>10. CASE Promised!Live(r) /\ a # "DELETED" /\ Board[r].status # s
  <2>1. /\ reviews' = [reviews EXCEPT ![r].status = s]
        /\ ModerateReviewWithManager(r, reviews[r], s)
    BY <1>1, <1>6, <1>7, <1>10
  <2>2. Promised!Decide(r, s)
    BY <1>2, <1>5, <1>6, <1>10, <2>1, BoardDecide DEF Found
  <2>3. Promised!Resolve(r, a)
    BY <1>2, <1>3, <1>4, <1>5, <1>10, <2>2 DEF Promised!Resolve, Board
  <2> QED BY <1>2, <2>3 DEF Promised!Act, ReportResolution
<1>11. CASE Promised!Live(r) /\ a # "DELETED" /\ Board[r].status = s
  <2>1. UNCHANGED <<Board, audit>>
    BY <1>1, <1>6, <1>7, <1>11 DEF Board
  <2>2. Promised!Resolve(r, a)
    BY <1>2, <1>3, <1>4, <1>5, <1>11, <2>1 DEF Promised!Resolve, Board
  <2> QED BY <1>2, <2>2 DEF Promised!Act, ReportResolution
<1> QED BY <1>8, <1>9, <1>10, <1>11

\* The variables of ReviewBoard.
boardView == <<Board, Stars, reports, audit>>

\* Every step is an action on the board, or does not show on it.
LEMMA ActsStep ==
    ASSUME IInv, AloneOK, DecisionsOK, [Next]_vars
    PROVE  Promised!Act \/ UNCHANGED boardView
<1>1. CASE UNCHANGED tables
  BY <1>1 DEF tables, boardView, Board, Stars
<1>2. ASSUME NEW q \in Requests, Begin(q) PROVE UNCHANGED tables
  BY <1>2, NoTableWritten
<1>3. ASSUME NEW q \in Requests, Advance(q) PROVE UNCHANGED tables \/ Promised!Act
  <2>1. CASE CommitCreate(q) \/ CommitUpdate(q) \/ CommitModerate(q) \/ CommitReport(q)
    BY <2>1, ActsCreate, ActsUpdate, ActsModerate, ActsReport DEF Rollback
  <2>2. CASE CommitRemove(q) \/ CommitAdminDelete(q) \/ CommitResolve(q)
    BY <2>2, ActsRemove, ActsResolve
  <2> QED BY <1>3, <2>1, <2>2, NoTableWritten DEF Advance
<1> QED BY <1>1, <1>2, <1>3 DEF Next, Quiet, vars, tables

\* The tables begin as a board on which every user has one review of a bar.
LEMMA BoardInit == ASSUME Init, IInv, StatsExact PROVE Promised!Init
<1>1. ASSUME NEW r \in ReviewIds
      PROVE  Board[r] \in {Promised!Review(u, b, s) : u \in Users, b \in Bars, s \in Ratings}
                             \cup {NoRow}
  <2>1. CASE reviews[r] = NoRow
    BY <2>1 DEF Board, OnBoard
  <2>2. CASE reviews[r] # NoRow
    <3>1. /\ reviews[r] \in ReviewRow /\ reviews[r].status = "PUBLISHED"
          /\ ~reviews[r].deleted
      BY <2>2 DEF Init, PublishedRow
    <3>2. /\ reviews[r].user \in Users /\ reviews[r].bar \in Bars
          /\ reviews[r].rating \in Ratings
      BY <3>1 DEF ReviewRow
    <3>3. Board[r] = Promised!Review(reviews[r].user, reviews[r].bar, reviews[r].rating)
      BY <2>2, <3>1 DEF Board, OnBoard, Promised!Review
    <3> QED BY <3>2, <3>3
  <2> QED BY <2>1, <2>2
<1>2. ASSUME NEW r \in ReviewIds, NEW o \in ReviewIds, Promised!Live(r), Promised!Live(o),
             Board[r].user = Board[o].user, Board[r].bar = Board[o].bar
      PROVE  r = o
  <2>1. /\ Found(r) /\ Found(o) /\ reviews[r].user = reviews[o].user
        /\ reviews[r].bar = reviews[o].bar
    BY <1>2, BoardLive
  <2> QED BY <2>1 DEF Init, Duplicate, Found
<1>3. Stars = Promised!Score
  BY ScoresShown
<1>4. reports = [k \in ReviewIds \X Users |-> "none"]
  BY DEF Init, ReportKeys
<1>5. audit = [r \in ReviewIds |-> [t \in Promised!Actions |-> 0]]
  BY DEF Init, AdminActionType, Promised!Actions
<1>6. Board \in [ReviewIds -> {Promised!Review(u, b, s) : u \in Users, b \in Bars, s \in Ratings}
                                \cup {NoRow}]
  BY <1>1 DEF Board
<1> QED BY <1>2, <1>3, <1>4, <1>5, <1>6 DEF Promised!Init, Board, Stars

\* While the handlers that read the review before their transaction run alone, the
\* tables are a board on which every call acts at once, at its COMMIT, with a score
\* that is that of the board after every step, however many creations, reports and
\* resolutions overlap.
THEOREM AllAtOnce == PreReadAlone => (Spec => ActsAtOnce)
<1> SUFFICES ASSUME PreReadAlone PROVE Spec => ActsAtOnce
  OBVIOUS
<1> DEFINE Shows == Stars = Promised!Score
<1>1. Init => AloneOK /\ DecisionsOK /\ Promised!Init
  <2> SUFFICES ASSUME Init PROVE AloneOK /\ DecisionsOK /\ Promised!Init
    OBVIOUS
  <2>1. AloneOK /\ DecisionsOK /\ StatsExact
    BY DEF Init, AloneOK, DecisionsOK, StatsExact
  <2> QED BY <2>1, InitIInv, BoardInit
<1>2. IInv /\ AloneOK /\ DecisionsOK /\ [Next]_vars => AloneOK' /\ DecisionsOK'
  BY AloneStep, DecisionsStep
<1>3. Spec => []StatsExact
  BY AggregateExact
<1>4. IInv /\ StatsExact => Shows
  BY ScoresShown
<1>5. IInv /\ AloneOK /\ DecisionsOK /\ [Next]_vars /\ Shows /\ Shows'
        => Promised!Next \/ UNCHANGED boardView
  BY ActsStep DEF Promised!Next, Stars
<1>6. Promised!Spec <=> Promised!Init /\ [][Promised!Next]_boardView
  BY DEF Promised!Spec, Promised!boardVars, boardView, Board, Stars
<1> HIDE DEF Shows
<1> QED BY <1>1, <1>2, <1>3, <1>4, <1>5, <1>6, Invariant, PTL DEF Spec, ActsAtOnce
=============================================================================
