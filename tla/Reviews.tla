------------------------------ MODULE Reviews ------------------------------
(***************************************************************************)
(* Reviews, their reports and the aggregate row of their bar: the handlers *)
(* of ReviewsService, ReviewReportsService and AdminReviewsService running *)
(* concurrently on one PostgreSQL database at READ COMMITTED.              *)
(*                                                                         *)
(* A request is a call of one handler.  It runs one statement at a time,   *)
(* and its state is its position (pc), the call it serves, the entity it   *)
(* loaded before its transaction began, and the columns TypeORM's save     *)
(* found to differ.  The row locks of the database are variables, taken in *)
(* the order the handlers issue their statements and held to the end of    *)
(* the transaction.  The writes of a transaction are applied when it       *)
(* commits: until then nobody else sees them, and no statement of these    *)
(* handlers reads back a row its own transaction changed.                  *)
(***************************************************************************)
EXTENDS ReviewStats

CONSTANTS Requests,     \* the calls of one behaviour; each is made once
          ReviewIds,    \* primary keys of reviews, a pool
          PhotoIds,     \* the photos of a review, a pool
          Users,        \* authors and reporters
          Bars,         \* bars that are APPROVED
          Handlers,     \* the handlers clients call in this instance
          Alone,        \* those of them that clients call only while no other call runs
          PhotoCounts,  \* how many photos a review may have had uploaded
          NoRequest,    \* the holder of a lock nobody holds
          NoCall,       \* the call of a request that serves none
          NoRating      \* an update that leaves the rating out

AllHandlers == {"create", "update", "remove", "report", "resolve", "moderate", "adminDelete"}

ASSUME ReviewIdsAssumption == IsFiniteSet(ReviewIds)
ASSUME HandlersAssumption == Handlers \subseteq AllHandlers
ASSUME BoundsAssumption == PhotoCounts \subseteq 0..5 /\ 0 \in PhotoCounts

VARIABLES
    reviews,      \* table reviews
    stats,        \* table bar_review_stats
    reports,      \* table review_reports, by its unique key (review, reporter)
    audit,        \* table admin_actions: how often an action on a review is logged
    reviewLock,   \* row locks of reviews
    statsLock,    \* row locks of bar_review_stats held across statements
    reportLock,   \* row locks of review_reports
    photoLock,    \* row locks of review_photos; its domain is the rows there are
    pc,           \* the next statement of a request
    call,         \* the handler and the arguments a request serves
    ent,          \* the review entity a request loaded before its transaction
    cols          \* the columns save() found to differ from the entity

tables == <<reviews, stats, reports, audit>>
locks  == <<reviewLock, statsLock, reportLock, photoLock>>
vars   == <<reviews, stats, reports, audit, reviewLock, statsLock, reportLock,
            photoLock, pc, call, ent, cols>>

-----------------------------------------------------------------------------
ReviewStatus     == {"PUBLISHED", "HIDDEN", "REPORTED"}
ReportResolution == {"RESTORED", "HIDDEN", "DELETED"}
AdminActionType  == {"REVIEW_HIDDEN", "REVIEW_RESTORED", "REVIEW_DELETED"}
Columns          == {"rating", "status", "photoCount", "deleted"}
ReportKeys       == ReviewIds \X Users
PhotoKeys        == ReviewIds \X PhotoIds

ReviewRow == [user : Users, bar : Bars, rating : Ratings, status : ReviewStatus,
              photoCount : PhotoCounts, deleted : BOOLEAN]

\* A live review as ReviewBoard has it.
BoardRow == [user : Users, bar : Bars, rating : Ratings, status : ReviewStatus]

OnBoard(row) ==
    IF row # NoRow /\ ~row.deleted
    THEN [user |-> row.user, bar |-> row.bar, rating |-> row.rating, status |-> row.status]
    ELSE NoRow

\* A review as create() and the upload of its photos leave it.
PublishedRow == {row \in ReviewRow : row.status = "PUBLISHED" /\ ~row.deleted}

\* A report is absent, PENDING, or RESOLVED, and then named by its resolution.
ReportRow == {"none", "PENDING"} \cup ReportResolution

Call == [op : {"create"}, user : Users, bar : Bars, rating : Ratings]
   \cup [op : {"update"}, r : ReviewIds, user : Users, rating : Ratings \cup {NoRating}]
   \cup [op : {"remove", "adminDelete"}, r : ReviewIds]
   \cup [op : {"report"}, r : ReviewIds, user : Users]
   \cup [op : {"resolve"}, r : ReviewIds, user : Users, action : ReportResolution]
   \cup [op : {"moderate"}, r : ReviewIds, status : ReviewStatus]

ASSUME NullsAssumption == /\ NoRequest \notin Requests
                          /\ NoRating \notin Ratings
                          /\ NoRow \notin ReviewRow \cup BoardRow
                          /\ NoCall \notin Call

\* The handlers that load the review before their transaction begins.
PreRead == {"update", "remove", "adminDelete", "moderate"}

PC == {"idle", "insert", "adjust", "select", "lockReport", "photos", "lock", "commit", "done"}

InFlight == {q \in Requests : pc[q] \notin {"idle", "done"}}

\* The find methods leave out rows whose deletedAt is set.
Found(r) == reviews[r] # NoRow /\ ~reviews[r].deleted

\* The photos of a review, deleted ones too.  None of these handlers adds one.
PhotoRows(r) == {k \in DOMAIN photoLock : k[1] = r}

\* Mutant: the database without the partial unique index.
NoIndex(rows, r, user, bar) == FALSE

\* uq_reviews_user_bar_active: some other live row has the user and the bar.
Duplicate(rows, r, user, bar) ==
    \E s \in ReviewIds \ {r} : /\ rows[s] # NoRow
                               /\ ~rows[s].deleted
                               /\ rows[s].user = user
                               /\ rows[s].bar = bar

-----------------------------------------------------------------------------
(* TypeORM's save(entity): SELECT the row again, soft-deleted or not, and   *)
(* UPDATE the columns whose value differs from the entity's.  updatedAt,    *)
(* one of them, is not part of the model; see SaveSelect.                   *)

Differing(row, e) ==
         (IF row.rating # e.rating THEN {"rating"} ELSE {})
    \cup (IF row.status # e.status THEN {"status"} ELSE {})
    \cup (IF row.photoCount # e.photoCount THEN {"photoCount"} ELSE {})
    \cup (IF row.deleted # e.deleted THEN {"deleted"} ELSE {})

Patched(row, e, cs) ==
    [row EXCEPT !.rating     = IF "rating" \in cs THEN e.rating ELSE @,
                !.status     = IF "status" \in cs THEN e.status ELSE @,
                !.photoCount = IF "photoCount" \in cs THEN e.photoCount ELSE @,
                !.deleted    = IF "deleted" \in cs THEN e.deleted ELSE @]

\* The entity a request saves: the one it loaded, with its change assigned.
Entity(q) ==
    CASE call[q].op = "update" /\ call[q].rating # NoRating
            -> [ent[q] EXCEPT !.rating = call[q].rating]
      [] call[q].op = "moderate"
            -> [ent[q] EXCEPT !.status = call[q].status]
      [] OTHER -> ent[q]

-----------------------------------------------------------------------------
Init ==
    /\ reviews \in [ReviewIds -> PublishedRow \cup {NoRow}]
    /\ \A r \in ReviewIds : reviews[r] # NoRow =>
          ~Duplicate(reviews, r, reviews[r].user, reviews[r].bar)
    /\ stats = [b \in Bars |-> Recalculate(reviews, b)]
    /\ reports = [k \in ReportKeys |-> "none"]
    /\ audit = [r \in ReviewIds |-> [t \in AdminActionType |-> 0]]
    /\ reviewLock = [r \in ReviewIds |-> NoRequest]
    /\ statsLock  = [b \in Bars |-> NoRequest]
    /\ reportLock = [k \in ReportKeys |-> NoRequest]
    /\ \E rows \in SUBSET PhotoKeys :
          /\ photoLock = [k \in rows |-> NoRequest]
          /\ \A r \in ReviewIds :
                LET n == Cardinality({k \in rows : k[1] = r}) IN
                IF reviews[r] = NoRow THEN n = 0 ELSE reviews[r].photoCount <= n
    /\ pc   = [q \in Requests |-> "idle"]
    /\ call = [q \in Requests |-> NoCall]
    /\ ent  = [q \in Requests |-> NoRow]
    /\ cols = [q \in Requests |-> {}]

-----------------------------------------------------------------------------
(* The first statement of each handler, on its own connection, before the   *)
(* transaction.  A call refused here (400, 403, 404, 409) changes nothing   *)
(* and is not represented.                                                  *)

Start(q, c, e, first) ==
    /\ pc[q] = "idle"
    /\ c.op \in Handlers
    /\ \A o \in InFlight : {c.op, call[o].op} \cap Alone = {}
    /\ pc'   = [pc EXCEPT ![q] = first]
    /\ call' = [call EXCEPT ![q] = c]
    /\ ent'  = [ent EXCEPT ![q] = e]
    /\ UNCHANGED <<tables, locks, cols>>

\* An id of the pool is left for every insert on its way.
IdLeft == Cardinality({q \in InFlight : call[q].op = "create"})
            < Cardinality({r \in ReviewIds : reviews[r] = NoRow})

StartCreate(q) == \E u \in Users, b \in Bars, s \in Ratings :
    /\ IdLeft
    /\ ~\E r \in ReviewIds : Found(r) /\ reviews[r].user = u /\ reviews[r].bar = b
    /\ Start(q, [op |-> "create", user |-> u, bar |-> b, rating |-> s], NoRow, "insert")

StartUpdate(q) == \E r \in ReviewIds, s \in Ratings \cup {NoRating} :
    /\ Found(r)
    /\ Start(q, [op |-> "update", r |-> r, user |-> reviews[r].user, rating |-> s],
             reviews[r],
             IF /\ s \notin {NoRating, reviews[r].rating}
                /\ reviews[r].status = "PUBLISHED"
             THEN "adjust" ELSE "select")

\* Mutant: a deletion that corrects the aggregate before it deletes.
StartRemoveStatsFirst(q) == \E r \in ReviewIds :
    /\ Found(r)
    /\ Start(q, [op |-> "remove", r |-> r], reviews[r],
             IF reviews[r].status = "PUBLISHED" THEN "adjust" ELSE "lock")

\* The first row a deletion locks: a photo, or the review if it has none.
FirstOfDeletion(r) == IF PhotoRows(r) = {} THEN "lock" ELSE "photos"

StartRemove(q) == \E r \in ReviewIds :
    /\ Found(r)
    /\ Start(q, [op |-> "remove", r |-> r], reviews[r], FirstOfDeletion(r))

StartAdminDelete(q) == \E r \in ReviewIds :
    /\ Found(r)
    /\ Start(q, [op |-> "adminDelete", r |-> r], reviews[r], FirstOfDeletion(r))

StartModerate(q) == \E r \in ReviewIds, s \in ReviewStatus :
    /\ Found(r)
    /\ reviews[r].status # s
    /\ Start(q, [op |-> "moderate", r |-> r, status |-> s], reviews[r], "select")

\* submitReport and resolveReport read nothing before their transaction.
StartReport(q) == \E r \in ReviewIds, u \in Users :
    /\ reviews[r] # NoRow
    /\ Start(q, [op |-> "report", r |-> r, user |-> u], NoRow, "lock")

\* The foreign key of a report: its review exists.
StartResolve(q) == \E k \in ReportKeys, a \in ReportResolution :
    /\ reviews[k[1]] # NoRow /\ reports[k] # "none"
    /\ Start(q, [op |-> "resolve", r |-> k[1], user |-> k[2], action |-> a],
             NoRow, "lockReport")

-----------------------------------------------------------------------------
(* Statements inside a transaction that read, or that only take a row lock. *)

\* update: adjustRating locks the aggregate row before the review is saved.
AdjustStatement(q) ==
    LET b == ent[q].bar IN
    /\ pc[q] = "adjust"
    /\ statsLock[b] = NoRequest
    /\ statsLock' = [statsLock EXCEPT ![b] = q]
    /\ pc' = [pc EXCEPT ![q] = "select"]
    /\ UNCHANGED <<tables, reviewLock, reportLock, photoLock, call, ent, cols>>

\* The SELECT of save(review).  An UPDATE always follows: the text of an edit
\* differs, and a review that already has the status a moderation sets has been
\* updated since it was loaded, so its updatedAt differs.
SaveSelect(q) ==
    LET d == Differing(reviews[call[q].r], Entity(q)) IN
    /\ pc[q] = "select"
    /\ cols' = [cols EXCEPT ![q] = d]
    /\ pc' = [pc EXCEPT ![q] = "lock"]
    /\ UNCHANGED <<tables, locks, call, ent>>

\* A deletion marks the photos of its review as deleted with one UPDATE, which
\* locks the rows one by one in no order it states.  The owner's and the
\* administrator's deletion lock the review next; a resolution has locked it.
LockPhoto(q) ==
    /\ pc[q] = "photos"
    /\ \E k \in PhotoRows(call[q].r) :
          /\ photoLock[k] = NoRequest
          /\ photoLock' = [photoLock EXCEPT ![k] = q]
          /\ pc' = [pc EXCEPT ![q] =
                IF \E x \in PhotoRows(call[q].r) \ {k} : photoLock[x] # q THEN "photos"
                ELSE IF call[q].op = "resolve" THEN "commit" ELSE "lock"]
    /\ UNCHANGED <<tables, reviewLock, statsLock, reportLock, call, ent, cols>>

\* Whether a resolution deletes the photos of the review it has locked.
DeletesPhotos(q) == /\ call[q].op = "resolve" /\ call[q].action = "DELETED"
                    /\ ~reviews[call[q].r].deleted
                    /\ PhotoRows(call[q].r) # {}

\* SELECT ... FOR UPDATE of the review, or the UPDATE of its row.
LockReview(q) ==
    LET r == call[q].r IN
    /\ pc[q] = "lock"
    /\ reviewLock[r] = NoRequest
    /\ reviewLock' = [reviewLock EXCEPT ![r] = q]
    /\ pc' = [pc EXCEPT ![q] = IF DeletesPhotos(q) THEN "photos" ELSE "commit"]
    /\ UNCHANGED <<tables, statsLock, reportLock, photoLock, call, ent, cols>>

\* Mutant: a transaction whose end releases nothing.
NeverReleased(lock, q) == lock

\* The commit or the rollback of runInTransaction: every lock is released.
Released(lock, q) ==
    [x \in DOMAIN lock |-> IF lock[x] = q THEN NoRequest ELSE lock[x]]

Finish(q) ==
    /\ reviewLock' = Released(reviewLock, q)
    /\ statsLock'  = Released(statsLock, q)
    /\ reportLock' = Released(reportLock, q)
    /\ photoLock'  = Released(photoLock, q)
    /\ pc'   = [pc EXCEPT ![q] = "done"]
    /\ call' = [call EXCEPT ![q] = NoCall]
    /\ ent'  = [ent EXCEPT ![q] = NoRow]
    /\ cols' = [cols EXCEPT ![q] = {}]

Rollback(q) == Finish(q) /\ UNCHANGED tables

\* resolveReport: SELECT ... FOR UPDATE of the report; 409 unless PENDING.
LockReport(q) ==
    LET k == <<call[q].r, call[q].user>> IN
    /\ pc[q] = "lockReport"
    /\ reportLock[k] = NoRequest
    /\ IF reports[k] = "PENDING"
       THEN /\ reportLock' = [reportLock EXCEPT ![k] = q]
            /\ pc' = [pc EXCEPT ![q] = "lock"]
            /\ UNCHANGED <<tables, reviewLock, statsLock, photoLock, call, ent, cols>>
       ELSE Rollback(q)

-----------------------------------------------------------------------------
(* The last statements of each transaction, and its COMMIT.                 *)

\* Mutant: the report of a hidden review is accepted.
RefusedIfDeleted(q) ==
    LET row == reviews[call[q].r] IN
    \/ row.deleted
    \/ row.user = call[q].user
    \/ reports[<<call[q].r, call[q].user>>] # "none"

\* Mutant: a user may report a review again once the first report is decided.
RefusedWhilePending(q) ==
    LET row == reviews[call[q].r] IN
    \/ row.deleted
    \/ row.status = "HIDDEN"
    \/ row.user = call[q].user
    \/ reports[<<call[q].r, call[q].user>>] = "PENDING"

\* What submitReport decides from the row it has locked.
Refused(q) ==
    LET row == reviews[call[q].r] IN
    \/ row.deleted
    \/ row.status = "HIDDEN"
    \/ row.user = call[q].user
    \/ reports[<<call[q].r, call[q].user>>] # "none"

Target(action) == IF action = "RESTORED" THEN "PUBLISHED" ELSE "HIDDEN"

\* Whether a change of status moves a review into or out of the aggregate.
MovesStats(e, status) == (e.status = "PUBLISHED") # (status = "PUBLISHED")

\* Whether the transaction of q changes the aggregate row with its last
\* statements; an update has done so first, in AdjustStatement.
NeedsStats(q) ==
    LET c == call[q]
        row == reviews[c.r]
    IN  \/ pc[q] = "insert"
        \/ /\ pc[q] = "commit"
           /\ CASE c.op \in {"remove", "adminDelete"} -> ent[q].status = "PUBLISHED"
                [] c.op = "moderate" -> MovesStats(ent[q], c.status)
                [] c.op = "report" -> ~Refused(q) /\ row.status = "PUBLISHED"
                [] c.op = "resolve" ->
                      ~row.deleted /\ IF c.action = "DELETED" THEN row.status = "PUBLISHED"
                                      ELSE MovesStats(row, Target(c.action))
                [] OTHER -> FALSE

StatsBar(q) == IF call[q].op = "create" THEN call[q].bar ELSE reviews[call[q].r].bar

\* Mutant: an update of the resolved report alone.
NoSiblings(q) == {<<call[q].r, call[q].user>>}

\* The PENDING reports resolveReport updates in bulk.
Siblings(q) == {k \in ReportKeys : k[1] = call[q].r /\ reports[k] = "PENDING"}

\* The requests whose locks the next statement of q has to wait for.
Blockers(q) ==
    LET c == call[q] IN
    {p \in Requests \ {q} :
        \/ pc[q] = "adjust" /\ statsLock[ent[q].bar] = p
        \/ pc[q] = "lock" /\ reviewLock[c.r] = p
        \/ pc[q] = "lockReport" /\ reportLock[<<c.r, c.user>>] = p
        \/ pc[q] = "photos" /\ \E k \in PhotoRows(c.r) : photoLock[k] = p
        \/ NeedsStats(q) /\ statsLock[StatsBar(q)] = p
        \/ /\ pc[q] = "commit" /\ c.op = "resolve"
           /\ \E k \in Siblings(q) : reportLock[k] = p}

SetStats(b, st) == stats' = [stats EXCEPT ![b] = st]

Logged(r, t) == [audit EXCEPT ![r][t] = @ + 1]

\* The INSERT of create, its increment; 409 on the unique index.
CommitCreate(q) ==
    LET c == call[q] IN
    /\ pc[q] = "insert"
    /\ Blockers(q) = {}
    /\ \E r \in ReviewIds :
          /\ reviews[r] = NoRow
          /\ IF Duplicate(reviews, r, c.user, c.bar)
             THEN Rollback(q)
             ELSE /\ reviews' = [reviews EXCEPT ![r] =
                        [user |-> c.user, bar |-> c.bar, rating |-> c.rating,
                         status |-> "PUBLISHED", photoCount |-> 0, deleted |-> FALSE]]
                  /\ SetStats(c.bar, IncrementStats(stats[c.bar], c.rating, FALSE))
                  /\ UNCHANGED <<reports, audit>>
                  /\ Finish(q)

\* The UPDATE of a saved entity onto the newest version of its row: it can put
\* back every column, deletedAt too, to what the request read long before.
SaveUpdate(q) ==
    LET r == call[q].r IN
    reviews' = [reviews EXCEPT ![r] = Patched(@, Entity(q), cols[q])]

SaveRejected(q) ==
    LET r   == call[q].r
        row == Patched(reviews[r], Entity(q), cols[q])
    IN  ~row.deleted /\ Duplicate(reviews, r, row.user, row.bar)

CommitUpdate(q) ==
    LET b == ent[q].bar IN
    /\ pc[q] = "commit" /\ call[q].op = "update"
    /\ IF SaveRejected(q)
       THEN Rollback(q)
       ELSE /\ SaveUpdate(q)
            /\ IF statsLock[b] = q
               THEN SetStats(b, AdjustRating(stats[b], ent[q].rating, call[q].rating))
               ELSE UNCHANGED stats
            /\ UNCHANGED <<reports, audit>>
            /\ Finish(q)

\* softRemove and the decrement for a review believed to be PUBLISHED, shared
\* by remove, deleteReviewByAdmin and resolveReport once the photos are marked;
\* e is the loaded entity.
SoftRemove(r, e) ==
    /\ reviews' = [reviews EXCEPT ![r].deleted = TRUE]
    /\ IF e.status = "PUBLISHED"
       THEN SetStats(e.bar, DecrementStats(stats[e.bar], e.rating, e.photoCount > 0))
       ELSE UNCHANGED stats

CommitRemove(q) ==
    /\ pc[q] = "commit" /\ call[q].op = "remove"
    /\ Blockers(q) = {}
    /\ SoftRemove(call[q].r, ent[q])
    /\ UNCHANGED <<reports, audit>>
    /\ Finish(q)

DeleteReviewWithManager(r, e) ==
    /\ SoftRemove(r, e)
    /\ audit' = Logged(r, "REVIEW_DELETED")

CommitAdminDelete(q) ==
    /\ pc[q] = "commit" /\ call[q].op = "adminDelete"
    /\ Blockers(q) = {}
    /\ DeleteReviewWithManager(call[q].r, ent[q])
    /\ UNCHANGED reports
    /\ Finish(q)

\* Mutant: a moderation that records restorations only.
ModerateUnlogged(r, e, status) ==
    /\ stats' = CASE e.status = "PUBLISHED" /\ status # "PUBLISHED" ->
                    [stats EXCEPT ![e.bar] = DecrementStats(@, e.rating, e.photoCount > 0)]
                  [] e.status # "PUBLISHED" /\ status = "PUBLISHED" ->
                    [stats EXCEPT ![e.bar] = IncrementStats(@, e.rating, e.photoCount > 0)]
                  [] OTHER -> stats
    /\ audit' = IF status = "PUBLISHED" THEN Logged(r, "REVIEW_RESTORED") ELSE audit

\* moderateReviewWithManager after its save: the correction of the aggregate
\* from the status the loaded entity had, and the audit record.
ModerateReviewWithManager(r, e, status) ==
    LET was  == e.status = "PUBLISHED"
        will == status = "PUBLISHED"
    IN  /\ stats' = CASE was /\ ~will ->
                        [stats EXCEPT ![e.bar] = DecrementStats(@, e.rating, e.photoCount > 0)]
                      [] ~was /\ will ->
                        [stats EXCEPT ![e.bar] = IncrementStats(@, e.rating, e.photoCount > 0)]
                      [] OTHER -> stats
        /\ audit' = Logged(r, IF will THEN "REVIEW_RESTORED" ELSE "REVIEW_HIDDEN")

CommitModerate(q) ==
    /\ pc[q] = "commit" /\ call[q].op = "moderate"
    /\ Blockers(q) = {}
    /\ IF SaveRejected(q)
       THEN Rollback(q)
       ELSE /\ SaveUpdate(q)
            /\ ModerateReviewWithManager(call[q].r, ent[q], call[q].status)
            /\ UNCHANGED reports
            /\ Finish(q)

\* Mutant: every report takes the review out of the aggregate again.
CommitReportAlways(q) ==
    LET r == call[q].r
        row == reviews[r]
    IN  /\ pc[q] = "commit" /\ call[q].op = "report"
        /\ Blockers(q) = {}
        /\ IF Refused(q)
           THEN Rollback(q)
           ELSE /\ reports' = [reports EXCEPT ![<<r, call[q].user>>] = "PENDING"]
                /\ reviews' = [reviews EXCEPT ![r].status = "REPORTED"]
                /\ SetStats(row.bar, DecrementStats(stats[row.bar], row.rating,
                                                    row.photoCount > 0))
                /\ UNCHANGED audit
                /\ Finish(q)

CommitReport(q) ==
    LET r == call[q].r
        row == reviews[r]
    IN  /\ pc[q] = "commit" /\ call[q].op = "report"
        /\ Blockers(q) = {}
        /\ IF Refused(q)
           THEN Rollback(q)
           ELSE /\ reports' = [reports EXCEPT ![<<r, call[q].user>>] = "PENDING"]
                /\ IF row.status = "PUBLISHED"
                   THEN /\ reviews' = [reviews EXCEPT ![r].status = "REPORTED"]
                        /\ SetStats(row.bar, DecrementStats(stats[row.bar], row.rating,
                                                            row.photoCount > 0))
                   ELSE UNCHANGED <<reviews, stats>>
                /\ UNCHANGED audit
                /\ Finish(q)

\* The moderation chosen by the administrator, skipped for a review that is
\* deleted or already has the status, then all PENDING reports of the review.
CommitResolve(q) ==
    LET r == call[q].r
        a == call[q].action
        row == reviews[r]
    IN  /\ pc[q] = "commit" /\ call[q].op = "resolve"
        /\ Blockers(q) = {}
        /\ CASE ~row.deleted /\ a = "DELETED" -> DeleteReviewWithManager(r, row)
             [] ~row.deleted /\ a # "DELETED" /\ row.status # Target(a) ->
                   /\ reviews' = [reviews EXCEPT ![r].status = Target(a)]
                   /\ ModerateReviewWithManager(r, row, Target(a))
             [] OTHER -> UNCHANGED <<reviews, stats, audit>>
        /\ reports' = [k \in ReportKeys |-> IF k \in Siblings(q) THEN a ELSE reports[k]]
        /\ Finish(q)

-----------------------------------------------------------------------------
(* PostgreSQL breaks a cycle of waiting transactions by aborting one.       *)

Deadlocked(q) ==
    /\ Blockers(q) # {}
    /\ \E S \in SUBSET InFlight :
          /\ q \in S
          /\ \A p \in S : Blockers(p) \cap S # {}
          /\ \A p \in S : \E o \in S : p \in Blockers(o)

DeadlockAbort(q) == Deadlocked(q) /\ Rollback(q)

Begin(q) ==
    \/ StartCreate(q) \/ StartUpdate(q) \/ StartRemove(q) \/ StartAdminDelete(q)
    \/ StartModerate(q) \/ StartReport(q) \/ StartResolve(q)

Advance(q) ==
    \/ AdjustStatement(q) \/ SaveSelect(q) \/ LockReview(q) \/ LockReport(q)
    \/ LockPhoto(q)
    \/ CommitCreate(q) \/ CommitUpdate(q) \/ CommitRemove(q) \/ CommitAdminDelete(q)
    \/ CommitModerate(q) \/ CommitReport(q) \/ CommitResolve(q)
    \/ DeadlockAbort(q)

\* A behaviour may end once no request is running.
Quiet == InFlight = {} /\ UNCHANGED vars

Next == (\E q \in Requests : Begin(q) \/ Advance(q)) \/ Quiet

Spec == Init /\ [][Next]_vars

\* The server keeps running the handlers it has started, and the database
\* grants the locks it can.
FairSpec == Spec /\ \A q \in Requests : WF_vars(Advance(q))

-----------------------------------------------------------------------------
(***************************************************************************)
(* Properties                                                              *)
(***************************************************************************)

\* Every table, lock and request has a value of its kind; in particular the
\* columns of the aggregate row never become negative.
TablesOK ==
    /\ reviews \in [ReviewIds -> ReviewRow \cup {NoRow}]
    /\ stats \in [Bars -> StatsRow]
    /\ reports \in [ReportKeys -> ReportRow]
    /\ audit \in [ReviewIds -> [AdminActionType -> Nat]]

TypeOK ==
    /\ TablesOK
    /\ reviewLock \in [ReviewIds -> Requests \cup {NoRequest}]
    /\ statsLock \in [Bars -> Requests \cup {NoRequest}]
    /\ reportLock \in [ReportKeys -> Requests \cup {NoRequest}]
    /\ DOMAIN photoLock \subseteq PhotoKeys
    /\ photoLock \in [DOMAIN photoLock -> Requests \cup {NoRequest}]
    /\ pc \in [Requests -> PC]
    /\ call \in [Requests -> Call \cup {NoCall}]
    /\ ent \in [Requests -> ReviewRow \cup {NoRow}]
    /\ cols \in [Requests -> SUBSET Columns]

\* A request at a statement serves a handler that has this statement, and holds
\* the entity this handler loads; only an edit of the rating holds an aggregate
\* row.  (The inductive part of the theorems in Reviews_proofs.)
CallOK(q) ==
    /\ pc[q] \in {"idle", "done"} => call[q] = NoCall
    /\ pc[q] \notin {"idle", "done"} => call[q] \in Call
    /\ pc[q] = "insert" <=> call[q] # NoCall /\ call[q].op = "create"
    /\ pc[q] = "adjust" => call[q].op = "update" /\ call[q].rating \in Ratings
    /\ pc[q] = "select" => call[q].op \in {"update", "moderate"}
    /\ pc[q] = "lockReport" => call[q].op = "resolve"
    /\ pc[q] = "photos" => call[q].op \in {"remove", "adminDelete", "resolve"}
    /\ ent[q] # NoRow <=> call[q] # NoCall /\ call[q].op \in PreRead
    /\ call[q] # NoCall /\ call[q].op # "create" => reviews[call[q].r] # NoRow
    /\ \A b \in Bars : statsLock[b] = q =>
          call[q] # NoCall /\ call[q].op = "update" /\ call[q].rating \in Ratings

CallsOK == \A q \in Requests : CallOK(q)

\* A user has at most one live review of a bar, although create() looks for an
\* earlier one outside its transaction and although save() can bring a deleted
\* review back (reviews.service.ts:49-55, reviews.module.ts:32-33).
OneActiveReviewPerBar ==
    \A r, s \in ReviewIds :
        Found(r) /\ Found(s) /\ reviews[r].user = reviews[s].user
                 /\ reviews[r].bar = reviews[s].bar => r = s

\* The aggregate row of a bar counts exactly its PUBLISHED reviews that are not
\* deleted: it is what recalculate() would compute (review-stats.service.ts:139).
StatsExact == \A b \in Bars : stats[b] = Recalculate(reviews, b)

\* While only reports change its status, a live review is REPORTED exactly as
\* long as one of its reports waits for a decision (review-reports.service.ts).
ReportedIffPending ==
    \A r \in ReviewIds : Found(r) =>
        (reviews[r].status = "REPORTED" <=> \E u \in Users : reports[<<r, u>>] = "PENDING")

\* A review is hidden only by an administrator's decision that was logged, and
\* no stale entity written back by a handler hides one without a record
\* (admin-reviews.service.ts:57-102).
HiddenIsAudited ==
    \A r \in ReviewIds : reviews[r] # NoRow /\ reviews[r].status = "HIDDEN"
                            => audit[r]["REVIEW_HIDDEN"] > 0

\* A report is decided once: neither a second administrator nor the bulk update
\* of its siblings changes a resolution (review-reports.service.ts:159,207-217).
ResolutionIsFinal ==
    [][\A k \in ReportKeys : reports[k] \in ReportResolution => reports'[k] = reports[k]]_vars

\* The lock order of the handlers: transactions wait for each other in a circle
\* only around a rating edit, which takes the aggregate row before the review;
\* between two administrators who resolve reports of the same review; or around
\* two deletions of one review, which mark its photos in any order, the owner's
\* before it locks the review and a resolution after (reviews.service.ts:228-235,
\* review-reports.service.ts:164, admin-reviews.service.ts:134-141).
OnlyKnownDeadlocks ==
    \A q \in Requests : Deadlocked(q) =>
        \/ \E p \in InFlight : call[p].op = "update" /\ pc[p] = "lock"
        \/ \E p, o \in InFlight : /\ p # o
                                  /\ call[p].op = "resolve" /\ call[o].op = "resolve"
                                  /\ call[p].r = call[o].r
        \/ \E p, o \in InFlight : /\ p # o
                                  /\ pc[p] = "photos" /\ pc[o] \in {"photos", "lock"}
                                  /\ \E k \in PhotoRows(call[p].r) : photoLock[k] = o

\* The handlers implement a board on which every call acts at once, at its COMMIT
\* and on the newest state, whatever it read before and whichever statements of
\* other calls ran in between (reviews.service.ts:40-246,
\* review-reports.service.ts:35-219, admin-reviews.service.ts:31-164).
Promised == INSTANCE ReviewBoard WITH board <- [r \in ReviewIds |-> OnBoard(reviews[r])],
                                      score <- [b \in Bars |-> stats[b].ratingCount]
ActsAtOnce == Promised!Spec

\* Every request is answered: whatever it waits for is released or broken up.
EveryRequestAnswered == \A q \in Requests : pc[q] \notin {"idle", "done"} ~> pc[q] = "done"
=============================================================================
