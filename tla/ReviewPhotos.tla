---------------------------- MODULE ReviewPhotos ----------------------------
(***************************************************************************)
(* Photos of reviews: uploadPhotos and removePhoto of ReviewPhotosService, *)
(* running concurrently with each other and with the deletion and the      *)
(* report of the review they belong to.                                    *)
(*                                                                         *)
(* An upload reads the review, counts its photos, sends the files to S3    *)
(* and only then begins its transaction, which inserts the rows one by one *)
(* and saves the review it read at first.  The partial unique index on     *)
(* (reviewId, sortOrder) makes an insert wait for a transaction that has   *)
(* inserted, or is deleting, a row with its key, and refuses a key that is *)
(* taken.  As in Reviews, a request runs one statement at a time and the   *)
(* writes of a transaction are applied when it commits.  The row of the    *)
(* review is written by the last statement but one of each transaction,    *)
(* so its lock is part of the commit.                                      *)
(***************************************************************************)
EXTENDS ReviewStats

CONSTANTS Requests,     \* the calls of one behaviour; each is made once
          ReviewIds, Bars,
          Handlers,     \* the handlers clients call in this instance
          Alone,        \* those of them that clients call only while no other call runs
          MaxPhotos,    \* the limit of photos of a review, 5 in the code
          FileCounts,   \* how many files an upload may carry
          PhotoIds,     \* primary keys of review_photos, numbers from a pool
          EarlierIds,   \* those that may be in use at the start
          NoPhoto,      \* the value of a key of review_photos that no row has
          NoCall        \* the call of a request that serves none

AllHandlers == {"upload", "removePhoto", "removeReview", "report"}

ASSUME FiniteTables == IsFiniteSet(ReviewIds) /\ IsFiniteSet(PhotoIds)
ASSUME PhotoBounds == /\ MaxPhotos \in Nat
                      /\ FileCounts \subseteq Nat \ {0}
                      /\ PhotoIds \subseteq Nat /\ EarlierIds \subseteq PhotoIds
                      /\ Handlers \subseteq AllHandlers

VARIABLES
    reviews,      \* table reviews
    stats,        \* table bar_review_stats
    photos,       \* table review_photos
    pc,           \* the next statement of a request, or its answer
    call,         \* the handler and the arguments a request serves
    ent,          \* the review a request loaded first
    existing,     \* the photos an upload counted
    stored,       \* how many of its files S3 has accepted
    next,         \* the loop variable of an upload: how many rows it inserted
    targets,      \* the photo rows the UPDATE of a deletion addresses
    held,         \* rows, with their place, a transaction wrote but not committed
    cols          \* the columns save() found to differ from the review

tables == <<reviews, stats, photos>>
vars   == <<reviews, stats, photos, pc, call, ent, existing, stored, next, targets,
            held, cols>>

-----------------------------------------------------------------------------
ReviewStatus == {"PUBLISHED", "HIDDEN", "REPORTED"}
Columns      == {"status", "photoCount", "deleted"}

Review == [bar : Bars, rating : Ratings, status : ReviewStatus,
           photoCount : Nat, deleted : BOOLEAN]

Photo == [review : ReviewIds, sortOrder : Nat, deleted : BOOLEAN]

Call == [op : {"upload"}, r : ReviewIds, files : FileCounts]
   \cup [op : {"removePhoto"}, r : ReviewIds, p : PhotoIds]
   \cup [op : {"removeReview"}, r : ReviewIds]

ASSUME PhotoNulls == NoPhoto \notin Photo /\ NoCall \notin Call /\ NoRow \notin Review

\* Answers: "done" stands for success and for a refusal without an effect, and
\* "conflict" for the 409 of a violated unique index.
Answers  == {"idle", "done", "conflict"}
PC       == Answers \cup {"count", "store", "find", "snapshot", "photos", "commit"}
InFlight == {q \in Requests : pc[q] \notin Answers}

Uploading(q) == pc[q] \notin Answers /\ call[q].op = "upload"

\* The rows a find of the photos of a review returns.
LivePhotos(r) == {p \in PhotoIds : /\ photos[p] # NoPhoto
                                   /\ photos[p].review = r
                                   /\ ~photos[p].deleted}

\* The places of the partial unique index taken by committed rows.
TakenPlaces(r) == {photos[p].sortOrder : p \in LivePhotos(r)}

HeldRows(q) == {h[1] : h \in held[q]}

\* Places whose owner is not decided yet: another transaction has inserted a
\* row there, or is deleting the one that is there.
UndecidedPlaces(q, r) ==
    UNION {{h[2] : h \in {g \in held[o] : photos[g[1]] = NoPhoto \/ ~photos[g[1]].deleted}} :
              o \in {o \in InFlight \ {q} : call[o].r = r}}

FreeIds == {p \in PhotoIds : photos[p] = NoPhoto /\ \A q \in Requests : p \notin HeldRows(q)}

IsNextId(p) == p \in FreeIds /\ \A o \in FreeIds : p <= o

\* The pool never runs out: each request can find an id for each of its files.
ASSUME PoolSuffices ==
    \A n \in FileCounts : n * Cardinality(Requests) <= Cardinality(PhotoIds \ EarlierIds)

Fits(count, files) == count + files <= MaxPhotos

\* Mutant: a removal that does not count down.
SavedAfterUpload(q) ==
    [ent[q] EXCEPT !.photoCount =
        IF call[q].op = "upload" THEN existing[q] + stored[q] ELSE @]

\* The review a request saves: the one it loaded, with its new photoCount.
Saved(q) ==
    [ent[q] EXCEPT !.photoCount =
        IF call[q].op = "upload" THEN existing[q] + stored[q]
        ELSE IF @ > 0 THEN @ - 1 ELSE 0]

\* TypeORM's save(entity), as in Reviews: the columns that differ are written.
Differing(row, e) ==
         (IF row.status # e.status THEN {"status"} ELSE {})
    \cup (IF row.photoCount # e.photoCount THEN {"photoCount"} ELSE {})
    \cup (IF row.deleted # e.deleted THEN {"deleted"} ELSE {})

Patched(row, e, cs) ==
    [row EXCEPT !.status     = IF "status" \in cs THEN e.status ELSE @,
                !.photoCount = IF "photoCount" \in cs THEN e.photoCount ELSE @,
                !.deleted    = IF "deleted" \in cs THEN e.deleted ELSE @]

-----------------------------------------------------------------------------
\* Earlier uploads have filled the first places of their review, which may have
\* been reported or hidden since.
Init ==
    /\ \E earlier \in [EarlierIds -> {NoPhoto} \cup
                     [review : ReviewIds, sortOrder : 0..(MaxPhotos - 1), deleted : {FALSE}]] :
          photos = [p \in PhotoIds |-> IF p \in EarlierIds THEN earlier[p] ELSE NoPhoto]
    /\ \A r \in ReviewIds : \A p, o \in LivePhotos(r) :
          photos[p].sortOrder = photos[o].sortOrder => p = o
    /\ \A r \in ReviewIds : TakenPlaces(r) = 0..(Cardinality(LivePhotos(r)) - 1)
    /\ reviews \in [ReviewIds -> [bar : Bars, rating : Ratings, status : ReviewStatus,
                                  photoCount : 0..MaxPhotos, deleted : {FALSE}]]
    /\ \A r \in ReviewIds : reviews[r].photoCount = Cardinality(LivePhotos(r))
    /\ stats = [b \in Bars |-> Recalculate(reviews, b)]
    /\ pc = [q \in Requests |-> "idle"]
    /\ call = [q \in Requests |-> NoCall]
    /\ ent = [q \in Requests |-> NoRow]
    /\ existing = [q \in Requests |-> 0]
    /\ stored = [q \in Requests |-> 0]
    /\ next = [q \in Requests |-> 0]
    /\ targets = [q \in Requests |-> {}]
    /\ held = [q \in Requests |-> {}]
    /\ cols = [q \in Requests |-> {}]

-----------------------------------------------------------------------------
(* Statements before the transaction.                                       *)

Start(q, c, first) ==
    /\ pc[q] = "idle"
    /\ c.op \in Handlers
    /\ \A o \in InFlight : {c.op, call[o].op} \cap Alone = {}
    /\ ~reviews[c.r].deleted
    /\ pc'   = [pc EXCEPT ![q] = first]
    /\ call' = [call EXCEPT ![q] = c]
    /\ ent'  = [ent EXCEPT ![q] = reviews[c.r]]
    /\ UNCHANGED <<tables, existing, stored, next, targets, held, cols>>

StartUpload(q) == \E r \in ReviewIds, n \in FileCounts :
    Start(q, [op |-> "upload", r |-> r, files |-> n], "count")

\* The client names a photo it was shown; it may be deleted by now.
StartRemovePhoto(q) == \E p \in PhotoIds :
    /\ photos[p] # NoPhoto
    /\ Start(q, [op |-> "removePhoto", r |-> photos[p].review, p |-> p], "find")

StartRemoveReview(q) == \E r \in ReviewIds :
    Start(q, [op |-> "removeReview", r |-> r], "snapshot")

\* The answer of a request; the end of its transaction, if it had one.
Answer(q, answer) ==
    /\ pc'       = [pc EXCEPT ![q] = answer]
    /\ call'     = [call EXCEPT ![q] = NoCall]
    /\ ent'      = [ent EXCEPT ![q] = NoRow]
    /\ existing' = [existing EXCEPT ![q] = 0]
    /\ stored'   = [stored EXCEPT ![q] = 0]
    /\ next'     = [next EXCEPT ![q] = 0]
    /\ targets'  = [targets EXCEPT ![q] = {}]
    /\ held'     = [held EXCEPT ![q] = {}]
    /\ cols'     = [cols EXCEPT ![q] = {}]

\* uploadPhotos: SELECT count, and the limit.
CountPhotos(q) ==
    LET count == Cardinality(LivePhotos(call[q].r)) IN
    /\ pc[q] = "count"
    /\ IF Fits(count, call[q].files)
       THEN /\ existing' = [existing EXCEPT ![q] = count]
            /\ pc' = [pc EXCEPT ![q] = "store"]
            /\ UNCHANGED <<tables, call, ent, stored, next, targets, held, cols>>
       ELSE Answer(q, "done") /\ UNCHANGED tables

\* Promise.allSettled over the uploads to S3: any of the files may fail, and
\* the request goes on with the others; 400 if none is left.
StoreFiles(q) ==
    /\ pc[q] = "store"
    /\ \E n \in 0..call[q].files :
          IF n > 0
          THEN /\ stored' = [stored EXCEPT ![q] = n]
               /\ pc' = [pc EXCEPT ![q] = "photos"]
               /\ UNCHANGED <<tables, call, ent, existing, next, targets, held, cols>>
          ELSE Answer(q, "done") /\ UNCHANGED tables

\* removePhoto: the photo is looked up after its review; 404 if it is deleted.
FindPhoto(q) ==
    /\ pc[q] = "find"
    /\ IF call[q].p \in LivePhotos(call[q].r)
       THEN /\ targets' = [targets EXCEPT ![q] = {call[q].p}]
            /\ pc' = [pc EXCEPT ![q] = "photos"]
            /\ UNCHANGED <<tables, call, ent, existing, stored, next, held, cols>>
       ELSE Answer(q, "done") /\ UNCHANGED tables

-----------------------------------------------------------------------------
(* Statements inside the transaction.                                       *)

\* The rows UPDATE review_photos ... WHERE reviewId = r sees, deleted ones too.
PhotosOf(r) == {p \in PhotoIds : photos[p] # NoPhoto /\ photos[p].review = r}

\* remove of a review: the snapshot of the bulk UPDATE of its photos.
UpdatePhotos(q) ==
    /\ pc[q] = "snapshot"
    /\ targets' = [targets EXCEPT ![q] = PhotosOf(call[q].r)]
    /\ pc' = [pc EXCEPT ![q] = "photos"]
    /\ UNCHANGED <<tables, call, ent, existing, stored, next, held, cols>>

\* A deletion sets deletedAt of one of its rows, whether it is set or not.
DeletePhoto(q) ==
    /\ pc[q] = "photos" /\ call[q].op # "upload"
    /\ \E p \in targets[q] :
          /\ \A o \in Requests : p \notin HeldRows(o)
          /\ held' = [held EXCEPT ![q] = @ \cup {<<p, photos[p].sortOrder>>}]
    /\ UNCHANGED <<tables, pc, call, ent, existing, stored, next, targets, cols>>

\* Mutant: no unique index, so that a row goes where another one is.
InsertAtTakenPlace(q) ==
    /\ pc[q] = "photos" /\ call[q].op = "upload" /\ next[q] < stored[q]
    /\ \E p \in PhotoIds :
          /\ IsNextId(p)
          /\ held' = [held EXCEPT ![q] = @ \cup {<<p, existing[q] + next[q]>>}]
          /\ next' = [next EXCEPT ![q] = @ + 1]
          /\ UNCHANGED <<tables, pc, call, ent, existing, stored, targets, cols>>

\* Mutant: an index that does not look at rows others have not committed.
InsertWithoutWaiting(q) ==
    LET r     == call[q].r
        place == existing[q] + next[q]
    IN  /\ pc[q] = "photos" /\ call[q].op = "upload" /\ next[q] < stored[q]
        /\ IF place \in TakenPlaces(r)
           THEN Answer(q, "conflict") /\ UNCHANGED tables
           ELSE \E p \in PhotoIds :
                /\ IsNextId(p)
                /\ held' = [held EXCEPT ![q] = @ \cup {<<p, place>>}]
                /\ next' = [next EXCEPT ![q] = @ + 1]
                /\ UNCHANGED <<tables, pc, call, ent, existing, stored, targets, cols>>

\* An upload inserts its next row: it waits while the place is undecided, and
\* a place that is taken ends the transaction with 23505.
InsertPhoto(q) ==
    LET r     == call[q].r
        place == existing[q] + next[q]
    IN  /\ pc[q] = "photos" /\ call[q].op = "upload" /\ next[q] < stored[q]
        /\ place \notin UndecidedPlaces(q, r)
        /\ IF place \in TakenPlaces(r)
           THEN Answer(q, "conflict") /\ UNCHANGED tables
           ELSE \E p \in PhotoIds :
                /\ IsNextId(p)
                /\ held' = [held EXCEPT ![q] = @ \cup {<<p, place>>}]
                /\ next' = [next EXCEPT ![q] = @ + 1]
                /\ UNCHANGED <<tables, pc, call, ent, existing, stored, targets, cols>>

\* The statements on review_photos are over.
PhotosWritten(q) ==
    /\ pc[q] = "photos"
    /\ IF call[q].op = "upload" THEN next[q] = stored[q]
                                ELSE targets[q] = HeldRows(q)

\* The SELECT of manager.save(review), by an upload or a removal of a photo.
SaveSelect(q) ==
    /\ PhotosWritten(q) /\ call[q].op # "removeReview"
    /\ cols' = [cols EXCEPT ![q] = Differing(reviews[call[q].r], Saved(q))]
    /\ pc' = [pc EXCEPT ![q] = "commit"]
    /\ UNCHANGED <<tables, call, ent, existing, stored, next, targets, held>>

SaveReview(q) ==
    reviews' = [reviews EXCEPT ![call[q].r] = Patched(@, Saved(q), cols[q])]

SetStats(b, st) == stats' = [stats EXCEPT ![b] = st]

\* uploadPhotos: the UPDATE of the review, the aggregate, and the COMMIT.
CommitUpload(q) ==
    LET e == ent[q] IN
    /\ pc[q] = "commit" /\ call[q].op = "upload"
    /\ photos' = [p \in PhotoIds |->
                    IF p \in HeldRows(q)
                    THEN [review |-> call[q].r, deleted |-> FALSE,
                          sortOrder |-> (CHOOSE h \in held[q] : h[1] = p)[2]]
                    ELSE photos[p]]
    /\ SaveReview(q)
    /\ IF e.photoCount = 0 /\ Saved(q).photoCount > 0 /\ e.status = "PUBLISHED"
       THEN SetStats(e.bar, AdjustPhotoReviewCount(stats[e.bar], 1))
       ELSE UNCHANGED stats
    /\ Answer(q, "done")

SoftDeleted(rows) ==
    [p \in PhotoIds |-> IF p \in rows THEN [photos[p] EXCEPT !.deleted = TRUE] ELSE photos[p]]

CommitRemovePhoto(q) ==
    LET e == ent[q] IN
    /\ pc[q] = "commit" /\ call[q].op = "removePhoto"
    /\ photos' = SoftDeleted(HeldRows(q))
    /\ SaveReview(q)
    /\ IF Saved(q).photoCount = 0 /\ e.status = "PUBLISHED"
       THEN SetStats(e.bar, AdjustPhotoReviewCount(stats[e.bar], -1))
       ELSE UNCHANGED stats
    /\ Answer(q, "done")

\* remove of a review: softRemove, the decrement, and the COMMIT.
CommitRemoveReview(q) ==
    LET e == ent[q] IN
    /\ PhotosWritten(q) /\ call[q].op = "removeReview"
    /\ photos' = SoftDeleted(HeldRows(q))
    /\ reviews' = [reviews EXCEPT ![call[q].r].deleted = TRUE]
    /\ IF e.status = "PUBLISHED"
       THEN SetStats(e.bar, DecrementStats(stats[e.bar], e.rating, e.photoCount > 0))
       ELSE UNCHANGED stats
    /\ Answer(q, "done")

\* The report of a published review.  Its SELECT ... FOR UPDATE waits for the
\* foreign keys of rows being inserted; nothing it reads is read before the lock.
Report(q) == \E r \in ReviewIds :
    /\ pc[q] = "idle" /\ "report" \in Handlers
    /\ \A o \in InFlight : {"report", call[o].op} \cap Alone = {}
    /\ \A o \in Requests : Uploading(o) /\ call[o].r = r => held[o] = {}
    /\ ~reviews[r].deleted /\ reviews[r].status = "PUBLISHED"
    /\ reviews' = [reviews EXCEPT ![r].status = "REPORTED"]
    /\ SetStats(reviews[r].bar, DecrementStats(stats[reviews[r].bar], reviews[r].rating,
                                               reviews[r].photoCount > 0))
    /\ pc' = [pc EXCEPT ![q] = "done"]
    /\ UNCHANGED <<photos, call, ent, existing, stored, next, targets, held, cols>>

-----------------------------------------------------------------------------
(* The bulk UPDATE of a removal locks the rows of a review in no particular *)
(* order, so that removals can wait for each other in a circle; PostgreSQL  *)
(* aborts one of them.                                                      *)

Blockers(q) ==
    {o \in InFlight \ {q} : /\ pc[q] = "photos" /\ call[q].op # "upload"
                            /\ HeldRows(o) \cap targets[q] # {}}

Stuck(q) ==
    /\ pc[q] = "photos" /\ call[q].op # "upload"
    /\ targets[q] # HeldRows(q)
    /\ targets[q] \ HeldRows(q) \subseteq UNION {HeldRows(o) : o \in Blockers(q)}

Deadlocked(q) ==
    \E S \in SUBSET InFlight :
        /\ q \in S
        /\ \A p \in S : Stuck(p) /\ Blockers(p) \cap S # {}

DeadlockAbort(q) == Deadlocked(q) /\ Answer(q, "done") /\ UNCHANGED tables

Begin(q) == StartUpload(q) \/ StartRemovePhoto(q) \/ StartRemoveReview(q) \/ Report(q)

Advance(q) ==
    \/ CountPhotos(q) \/ StoreFiles(q) \/ FindPhoto(q)
    \/ UpdatePhotos(q) \/ DeletePhoto(q) \/ InsertPhoto(q) \/ SaveSelect(q)
    \/ CommitUpload(q) \/ CommitRemovePhoto(q) \/ CommitRemoveReview(q)
    \/ DeadlockAbort(q)

\* A behaviour may end once no request is running.
Quiet == InFlight = {} /\ UNCHANGED vars

Next == (\E q \in Requests : Begin(q) \/ Advance(q)) \/ Quiet

Spec == Init /\ [][Next]_vars

-----------------------------------------------------------------------------
(***************************************************************************)
(* Properties                                                              *)
(***************************************************************************)

\* Every table and request has a value of its kind.
TypeOK ==
    /\ reviews \in [ReviewIds -> Review]
    /\ stats \in [Bars -> StatsRow]
    /\ photos \in [PhotoIds -> Photo \cup {NoPhoto}]
    /\ pc \in [Requests -> PC]
    /\ call \in [Requests -> Call \cup {NoCall}]
    /\ ent \in [Requests -> Review \cup {NoRow}]
    /\ existing \in [Requests -> Nat]
    /\ stored \in [Requests -> Nat]
    /\ next \in [Requests -> Nat]
    /\ targets \in [Requests -> SUBSET PhotoIds]
    /\ held \in [Requests -> SUBSET (PhotoIds \X Nat)]
    /\ cols \in [Requests -> SUBSET Columns]

\* A review never shows more photos than the limit, although the limit is
\* checked before the files are stored and long before the rows are inserted
\* (review-photos.service.ts:52-60, reviews.module.ts:36-37).
AtMostMaxPhotos == \A r \in ReviewIds : Cardinality(LivePhotos(r)) <= MaxPhotos

\* What the endpoints promise: new photos appear at free places of one review,
\* each at its own, and photos of one review disappear for good, whatever an
\* upload counted before it sent its files (review-photos.service.ts:52-94,
\* reviews.module.ts:36-37; api/reviews.md, sections 1.5 to 1.7).
Promised == INSTANCE PhotoSlots WITH
    slot <- [p \in {o \in PhotoIds : photos[o] # NoPhoto} |->
                [review |-> photos[p].review, place |-> photos[p].sortOrder,
                 shown |-> ~photos[p].deleted]]
FillsFreePlaces == Promised!Spec

\* photoCount of a review that is not deleted is the number of its photos.
PhotoCountExact ==
    \A r \in ReviewIds : ~reviews[r].deleted =>
        reviews[r].photoCount = Cardinality(LivePhotos(r))

\* The aggregate row, photoReviewCount included, is what recalculate() would
\* compute (review-stats.service.ts:139).
StatsExact == \A b \in Bars : stats[b] = Recalculate(reviews, b)

\* The photos of a deleted review are deleted with it.
DeletedReviewHasNoPhotos ==
    \A r \in ReviewIds : reviews[r].deleted => LivePhotos(r) = {}
=============================================================================
