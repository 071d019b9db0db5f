------------------------ MODULE ReviewPhotos_proofs -------------------------
(***************************************************************************)
(* Proofs about ReviewPhotos, for every number of requests, reviews and    *)
(* photos and every limit.  The limit holds because an upload only claims  *)
(* places below it and the index never lets two rows have one place; the   *)
(* inductive invariant says so of committed rows, of the rows each upload  *)
(* has inserted, and of the rows of any two uploads.  The counts are exact *)
(* while calls do not overlap: a request alone has the review as it is.    *)
(***************************************************************************)
EXTENDS MCReviewPhotos, ReviewStats_proofs

Live(p) == photos[p] # NoPhoto /\ ~photos[p].deleted

\* A request at a statement serves a handler that has it, and has its review.
CallOK(q) ==
    /\ pc[q] \in Answers => call[q] = NoCall
    /\ pc[q] \notin Answers => call[q] \in Call /\ ent[q] \in Review
    /\ pc[q] \in {"count", "store"} => call[q].op = "upload"
    /\ pc[q] = "find" => call[q].op = "removePhoto"
    /\ pc[q] = "snapshot" => call[q].op = "removeReview"
    /\ pc[q] = "commit" => call[q].op # "removeReview"
    /\ pc[q] \in Answers \cup {"count", "store", "find", "snapshot"} =>
          held[q] = {} /\ next[q] = 0 /\ targets[q] = {}

\* An upload claims places below the limit; its rows have new keys and places
\* of their own that no visible photo of the review has.
UploadOK(q) ==
    /\ pc[q] = "store" => existing[q] + call[q].files <= MaxPhotos
    /\ pc[q] \in {"photos", "commit"} =>
          next[q] <= stored[q] /\ existing[q] + stored[q] <= MaxPhotos
    /\ \A h \in held[q] :
          /\ photos[h[1]] = NoPhoto
          /\ h[2] < existing[q] + next[q]
          /\ \A p \in PhotoIds : Live(p) /\ photos[p].review = call[q].r
                                    => photos[p].sortOrder # h[2]
          /\ \A g \in held[q] : h[1] = g[1] <=> h[2] = g[2]

\* A deletion addresses and writes rows of its own review.
DeletionOK(q) ==
    /\ \A p \in targets[q] : photos[p] # NoPhoto /\ photos[p].review = call[q].r
    /\ \A h \in held[q] : h[1] \in targets[q]

RequestOK(q) ==
    /\ CallOK(q)
    /\ Uploading(q) => UploadOK(q)
    /\ pc[q] \notin Answers /\ call[q].op # "upload" => DeletionOK(q)

\* The rows of two uploads never share a key, or a place of one review.
Apart(q, o) ==
    Uploading(q) /\ Uploading(o) =>
        \A h \in held[q], g \in held[o] :
            h[1] # g[1] /\ (call[q].r = call[o].r => h[2] # g[2])

\* Visible photos have places below the limit, each its own.
PlacesOK ==
    \A p \in PhotoIds : Live(p) =>
        /\ photos[p].sortOrder < MaxPhotos
        /\ \A o \in PhotoIds : Live(o) /\ photos[o].review = photos[p].review
                                  /\ photos[o].sortOrder = photos[p].sortOrder => o = p

IInv ==
    /\ TypeOK
    /\ PlacesOK
    /\ \A q \in Requests : RequestOK(q)
    /\ \A q, o \in Requests : q # o => Apart(q, o)

-----------------------------------------------------------------------------
(* What the helpers return.                                                 *)

\* The fields of a call, by its handler.
LEMMA CallFields ==
    ASSUME NEW c \in Call
    PROVE  /\ c.op \in {"upload", "removePhoto", "removeReview"}
           /\ c.r \in ReviewIds
           /\ c.op = "upload" => c.files \in Nat
           /\ c.op = "removePhoto" => c.p \in PhotoIds
  BY PhotoBounds DEF Call

\* The number of photos of a review is a number.
LEMMA LivePhotosCounted ==
    ASSUME NEW r
    PROVE  IsFiniteSet(LivePhotos(r)) /\ Cardinality(LivePhotos(r)) \in Nat
<1>1. LivePhotos(r) \subseteq PhotoIds
  BY DEF LivePhotos
<1> QED BY <1>1, FiniteTables, FS_Subset, FS_CardinalityType

\* A running request has its call and its review.
LEMMA Running ==
    ASSUME IInv, NEW q \in Requests, pc[q] \notin Answers
    PROVE  /\ call[q] \in Call /\ ent[q] \in Review
           /\ call[q].r \in ReviewIds /\ reviews[call[q].r] \in Review
           /\ ent[q].bar \in Bars /\ ent[q].rating \in Ratings
           /\ stats[ent[q].bar] \in StatsRow
<1>1. call[q] \in Call /\ ent[q] \in Review
  BY DEF IInv, RequestOK, CallOK
<1>2. ent[q].bar \in Bars /\ ent[q].rating \in Ratings
  BY <1>1 DEF Review
<1> QED BY <1>1, <1>2, CallFields DEF IInv, TypeOK

\* The saved review is a review, and save() writes columns of it only.
LEMMA SavedTyped ==
    ASSUME IInv, NEW q \in Requests, pc[q] \notin Answers
    PROVE  /\ Saved(q) \in Review
           /\ \A row \in Review : \A cs : Patched(row, Saved(q), cs) \in Review
<1>1. existing[q] \in Nat /\ stored[q] \in Nat
  BY DEF IInv, TypeOK
<1>2. ent[q] \in Review
  BY Running
<1>3. Saved(q) \in Review
  BY <1>1, <1>2 DEF Saved, Review
<1> QED BY <1>3 DEF Patched, Review

\* The rows a transaction writes are rows of review_photos.
LEMMA HeldTyped ==
    ASSUME IInv, NEW q \in Requests
    PROVE  /\ HeldRows(q) \subseteq PhotoIds
           /\ \A h \in held[q] : h[1] \in PhotoIds /\ h[2] \in Nat /\ h = <<h[1], h[2]>>
           /\ \A p \in HeldRows(q) : \E h \in held[q] : h[1] = p
  BY DEF IInv, TypeOK, HeldRows

-----------------------------------------------------------------------------
(* Steps that write no photo.                                               *)

\* The state of the requests other than q stays.
Frame(q) ==
    \A o \in Requests \ {q} :
        /\ pc'[o] = pc[o] /\ call'[o] = call[o] /\ ent'[o] = ent[o]
        /\ existing'[o] = existing[o] /\ stored'[o] = stored[o] /\ next'[o] = next[o]
        /\ targets'[o] = targets[o] /\ held'[o] = held[o]

\* While no photo is written and q claims no row, the invariant is that of q.
LEMMA LocalStep ==
    ASSUME IInv, NEW q \in Requests, Frame(q), UNCHANGED photos, TypeOK', RequestOK(q)',
           held'[q] = {} \/ (held'[q] = held[q] /\ pc[q] \notin Answers /\ call'[q] = call[q])
    PROVE  IInv'
<1>1. PlacesOK'
  BY DEF IInv, PlacesOK, Live
<1>2. ASSUME NEW o \in Requests PROVE RequestOK(o)'
  <2>1. CASE o = q
    BY <2>1
  <2>2. CASE o # q
    BY <2>2 DEF IInv, Frame, RequestOK, CallOK, Uploading, UploadOK, DeletionOK, Live
  <2> QED BY <2>1, <2>2
<1>3. ASSUME NEW o \in Requests, NEW a \in Requests, o # a PROVE Apart(o, a)'
  <2>1. Apart(o, a)
    BY <1>3 DEF IInv
  <2>2. CASE o # q /\ a # q
    BY <2>1, <2>2 DEF Frame, Apart, Uploading
  <2>3. CASE held'[q] = {} /\ (o = q \/ a = q)
    BY <2>3 DEF Apart
  <2>4. CASE /\ held'[q] = held[q] /\ pc[q] \notin Answers /\ call'[q] = call[q]
             /\ o = q \/ a = q
    BY <1>3, <2>1, <2>4 DEF Frame, Apart, Uploading
  <2> QED BY <2>2, <2>3, <2>4
<1> QED BY <1>1, <1>2, <1>3 DEF IInv

\* An answered request holds nothing; nobody else notices.
LEMMA AnswerLocal ==
    ASSUME IInv, NEW q \in Requests, NEW answer \in {"done", "conflict"}, Answer(q, answer)
    PROVE  /\ Frame(q) /\ held'[q] = {} /\ RequestOK(q)'
           /\ pc' \in [Requests -> PC]
           /\ call' \in [Requests -> Call \cup {NoCall}]
           /\ ent' \in [Requests -> Review \cup {NoRow}]
           /\ existing' \in [Requests -> Nat]
           /\ stored' \in [Requests -> Nat]
           /\ next' \in [Requests -> Nat]
           /\ targets' \in [Requests -> SUBSET PhotoIds]
           /\ held' \in [Requests -> SUBSET (PhotoIds \X Nat)]
           /\ cols' \in [Requests -> SUBSET Columns]
<1>1. TypeOK
  BY DEF IInv
<1>2. Frame(q)
  BY <1>1 DEF Answer, Frame, TypeOK
<1>3. /\ pc'[q] = answer /\ call'[q] = NoCall /\ held'[q] = {} /\ next'[q] = 0
      /\ targets'[q] = {}
  BY <1>1 DEF Answer, TypeOK
<1>4. RequestOK(q)'
  BY <1>3 DEF RequestOK, CallOK, Uploading, Answers
<1>5. /\ pc' \in [Requests -> PC]
      /\ call' \in [Requests -> Call \cup {NoCall}]
      /\ ent' \in [Requests -> Review \cup {NoRow}]
  BY <1>1 DEF Answer, TypeOK, PC, Answers
<1>6. /\ existing' \in [Requests -> Nat]
      /\ stored' \in [Requests -> Nat]
      /\ next' \in [Requests -> Nat]
  BY <1>1 DEF Answer, TypeOK
<1>7. /\ targets' \in [Requests -> SUBSET PhotoIds]
      /\ held' \in [Requests -> SUBSET (PhotoIds \X Nat)]
      /\ cols' \in [Requests -> SUBSET Columns]
  BY <1>1 DEF Answer, TypeOK
<1> QED BY <1>2, <1>3, <1>4, <1>5, <1>6, <1>7

\* A refusal, a rollback: the answer is all that happens.
LEMMA AnswerPreserves ==
    ASSUME IInv, NEW q \in Requests, NEW answer \in {"done", "conflict"},
           Answer(q, answer), UNCHANGED tables
    PROVE  IInv'
<1>1. TypeOK'
  BY AnswerLocal DEF IInv, TypeOK, tables
<1> QED BY <1>1, AnswerLocal, LocalStep DEF tables

\* A call starts at the first statement of its handler, with its review.
LEMMA StartPreserves ==
    ASSUME IInv, NEW q \in Requests, NEW c \in Call,
           NEW first \in {"count", "find", "snapshot"}, Start(q, c, first),
           first = "count" <=> c.op = "upload",
           first = "find" <=> c.op = "removePhoto"
    PROVE  IInv'
<1>1. TypeOK /\ c.r \in ReviewIds /\ reviews[c.r] \in Review
  BY CallFields DEF IInv, TypeOK
<1>2. TypeOK'
  BY <1>1 DEF TypeOK, Start, tables, PC
<1>3. Frame(q)
  BY <1>1 DEF Start, Frame, TypeOK
<1>4. /\ pc'[q] = first /\ call'[q] = c /\ ent'[q] = reviews[c.r]
      /\ held'[q] = held[q] /\ next'[q] = next[q] /\ targets'[q] = targets[q]
      /\ pc[q] = "idle"
  BY <1>1 DEF Start, TypeOK
<1>5. held[q] = {} /\ next[q] = 0 /\ targets[q] = {}
  BY <1>4 DEF IInv, RequestOK, CallOK, Answers
<1>6. c.op \in {"upload", "removePhoto", "removeReview"}
  BY CallFields
<1>7. RequestOK(q)'
  BY <1>1, <1>4, <1>5, <1>6 DEF RequestOK, CallOK, Uploading, UploadOK, DeletionOK, Answers
<1> QED BY <1>2, <1>3, <1>4, <1>5, <1>7, LocalStep DEF Start, tables

\* A new call claims nothing yet; a report writes no photo.
LEMMA BeginPreserves ==
    ASSUME IInv, NEW q \in Requests, Begin(q)
    PROVE  IInv'
<1>0. TypeOK
  BY DEF IInv
<1>1. CASE StartUpload(q)
  <2>1. PICK r \in ReviewIds, n \in FileCounts :
          Start(q, [op |-> "upload", r |-> r, files |-> n], "count")
    BY <1>1 DEF StartUpload
  <2>2. [op |-> "upload", r |-> r, files |-> n] \in Call
    BY DEF Call
  <2> QED BY <2>1, <2>2, StartPreserves
<1>2. CASE StartRemovePhoto(q)
  <2>1. PICK p \in PhotoIds :
          /\ photos[p] # NoPhoto
          /\ Start(q, [op |-> "removePhoto", r |-> photos[p].review, p |-> p], "find")
    BY <1>2 DEF StartRemovePhoto
  <2>2. photos[p].review \in ReviewIds
    BY <1>0, <2>1 DEF TypeOK, Photo
  <2>3. [op |-> "removePhoto", r |-> photos[p].review, p |-> p] \in Call
    BY <2>2 DEF Call
  <2> QED BY <2>1, <2>3, StartPreserves
<1>3. CASE StartRemoveReview(q)
  <2>1. PICK r \in ReviewIds : Start(q, [op |-> "removeReview", r |-> r], "snapshot")
    BY <1>3 DEF StartRemoveReview
  <2>2. [op |-> "removeReview", r |-> r] \in Call
    BY DEF Call
  <2> QED BY <2>1, <2>2, StartPreserves
<1>4. CASE Report(q)
  <2>1. PICK r \in ReviewIds :
          /\ pc[q] = "idle"
          /\ reviews' = [reviews EXCEPT ![r].status = "REPORTED"]
          /\ SetStats(reviews[r].bar, DecrementStats(stats[reviews[r].bar],
                         reviews[r].rating, reviews[r].photoCount > 0))
          /\ pc' = [pc EXCEPT ![q] = "done"]
          /\ UNCHANGED <<photos, call, ent, existing, stored, next, targets, held, cols>>
    BY <1>4 DEF Report
  <2>2. /\ reviews[r] \in Review /\ reviews[r].bar \in Bars /\ reviews[r].rating \in Ratings
        /\ stats[reviews[r].bar] \in StatsRow
    BY <1>0 DEF TypeOK, Review
  <2>3. stats' \in [Bars -> StatsRow]
    <3>1. DecrementStats(stats[reviews[r].bar], reviews[r].rating,
                         reviews[r].photoCount > 0) \in StatsRow
      <4>1. (reviews[r].photoCount > 0) \in BOOLEAN
        OBVIOUS
      <4> QED BY <2>2, <4>1, StatsTyped
    <3> QED BY <1>0, <2>1, <3>1 DEF TypeOK, SetStats
  <2>4. reviews' \in [ReviewIds -> Review]
    BY <1>0, <2>1, <2>2 DEF TypeOK, Review, ReviewStatus
  <2>5. TypeOK'
    BY <1>0, <2>1, <2>3, <2>4 DEF TypeOK, PC, Answers
  <2>6. Frame(q) /\ pc'[q] = "done"
    BY <1>0, <2>1 DEF Frame, TypeOK
  <2>7. held'[q] = {} /\ next'[q] = 0 /\ targets'[q] = {} /\ call'[q] = NoCall
    BY <2>1 DEF IInv, RequestOK, CallOK, Answers
  <2>8. RequestOK(q)'
    BY <2>6, <2>7 DEF RequestOK, CallOK, Uploading, Answers
  <2> QED BY <2>1, <2>5, <2>6, <2>7, <2>8, LocalStep
<1> QED BY <1>1, <1>2, <1>3, <1>4 DEF Begin

-----------------------------------------------------------------------------
(* The statements before the commit.                                        *)

\* Counting, storing, looking up and the SELECTs write no photo: each leaves the
\* request at a statement of its handler, with the limit checked before "store".
LEMMA StatementPreserves ==
    ASSUME IInv, NEW q \in Requests,
           \/ CountPhotos(q) \/ StoreFiles(q) \/ FindPhoto(q) \/ UpdatePhotos(q)
           \/ SaveSelect(q) \/ DeadlockAbort(q)
    PROVE  IInv'
<1>0. TypeOK /\ RequestOK(q) /\ CallOK(q)
  BY DEF IInv, RequestOK
<1>1. CASE CountPhotos(q)
  <2> DEFINE count == Cardinality(LivePhotos(call[q].r))
  <2>0. pc[q] = "count" /\ call[q].op = "upload" /\ pc[q] \notin Answers
    BY <1>0, <1>1 DEF CountPhotos, CallOK, Answers
  <2>1. CASE Fits(count, call[q].files)
    <3>1. /\ existing' = [existing EXCEPT ![q] = count]
          /\ pc' = [pc EXCEPT ![q] = "store"]
          /\ UNCHANGED <<tables, call, ent, stored, next, targets, held, cols>>
      BY <1>1, <2>1 DEF CountPhotos
    <3>2. count \in Nat
      BY LivePhotosCounted
    <3>3. TypeOK'
      BY <1>0, <3>1, <3>2 DEF TypeOK, tables, PC
    <3>4. Frame(q) /\ pc'[q] = "store" /\ existing'[q] = count
      BY <1>0, <3>1 DEF TypeOK, Frame
    <3>5. count + call[q].files <= MaxPhotos
      BY <2>1 DEF Fits
    <3>6. RequestOK(q)'
      BY <1>0, <2>0, <3>1, <3>4, <3>5
         DEF RequestOK, CallOK, Uploading, UploadOK, Answers, Live, tables
    <3> QED BY <2>0, <3>1, <3>3, <3>4, <3>6, LocalStep DEF tables
  <2>2. CASE ~Fits(count, call[q].files)
    BY <1>1, <2>2, AnswerPreserves DEF CountPhotos
  <2> QED BY <2>1, <2>2
<1>2. CASE StoreFiles(q)
  <2>0. /\ pc[q] = "store" /\ call[q].op = "upload" /\ pc[q] \notin Answers
        /\ call[q].files \in Nat
    BY <1>0, <1>2, Running, CallFields DEF StoreFiles, CallOK, Answers
  <2>1. PICK n \in 0..call[q].files :
          IF n > 0
          THEN /\ stored' = [stored EXCEPT ![q] = n]
               /\ pc' = [pc EXCEPT ![q] = "photos"]
               /\ UNCHANGED <<tables, call, ent, existing, next, targets, held, cols>>
          ELSE Answer(q, "done") /\ UNCHANGED tables
    BY <1>2 DEF StoreFiles
  <2>2. CASE n > 0
    <3>1. /\ stored' = [stored EXCEPT ![q] = n]
          /\ pc' = [pc EXCEPT ![q] = "photos"]
          /\ UNCHANGED <<tables, call, ent, existing, next, targets, held, cols>>
      BY <2>1, <2>2
    <3>2. TypeOK'
      BY <1>0, <3>1, <2>0 DEF TypeOK, tables, PC
    <3>3. Frame(q) /\ pc'[q] = "photos" /\ stored'[q] = n
      BY <1>0, <3>1 DEF TypeOK, Frame
    <3>4. /\ existing[q] + call[q].files <= MaxPhotos
          /\ existing[q] \in Nat
      BY <1>0, <2>0 DEF RequestOK, Uploading, UploadOK, TypeOK
    <3>5. next[q] <= n /\ existing[q] + n <= MaxPhotos
      BY <1>0, <2>0, <3>4, PhotoBounds DEF CallOK
    <3>6. RequestOK(q)'
      BY <1>0, <2>0, <3>1, <3>3, <3>5
         DEF RequestOK, CallOK, Uploading, UploadOK, Answers, Live, tables
    <3> QED BY <2>0, <3>1, <3>2, <3>3, <3>6, LocalStep DEF tables
  <2>3. CASE ~(n > 0)
    BY <2>1, <2>3, AnswerPreserves
  <2> QED BY <2>2, <2>3
<1>3. CASE FindPhoto(q)
  <2>0. /\ pc[q] = "find" /\ call[q].op = "removePhoto" /\ pc[q] \notin Answers
        /\ held[q] = {} /\ call[q].p \in PhotoIds
    BY <1>0, <1>3, Running, CallFields DEF FindPhoto, CallOK, Answers
  <2>1. CASE call[q].p \in LivePhotos(call[q].r)
    <3>1. /\ targets' = [targets EXCEPT ![q] = {call[q].p}]
          /\ pc' = [pc EXCEPT ![q] = "photos"]
          /\ UNCHANGED <<tables, call, ent, existing, stored, next, held, cols>>
      BY <1>3, <2>1 DEF FindPhoto
    <3>2. TypeOK'
      BY <1>0, <2>0, <3>1 DEF TypeOK, tables, PC
    <3>3. Frame(q) /\ pc'[q] = "photos" /\ targets'[q] = {call[q].p}
      BY <1>0, <3>1 DEF TypeOK, Frame
    <3>4. photos[call[q].p] # NoPhoto /\ photos[call[q].p].review = call[q].r
      BY <2>1 DEF LivePhotos
    <3>5. RequestOK(q)'
      BY <1>0, <2>0, <3>1, <3>3, <3>4
         DEF RequestOK, CallOK, Uploading, DeletionOK, Answers, tables
    <3> QED BY <2>0, <3>1, <3>2, <3>3, <3>5, LocalStep DEF tables
  <2>2. CASE call[q].p \notin LivePhotos(call[q].r)
    BY <1>3, <2>2, AnswerPreserves DEF FindPhoto
  <2> QED BY <2>1, <2>2
<1>4. CASE UpdatePhotos(q)
  <2>1. /\ pc[q] = "snapshot" /\ call[q].op = "removeReview" /\ pc[q] \notin Answers
        /\ held[q] = {}
    BY <1>0, <1>4 DEF UpdatePhotos, CallOK, Answers
  <2>2. /\ targets' = [targets EXCEPT ![q] = PhotosOf(call[q].r)]
        /\ pc' = [pc EXCEPT ![q] = "photos"]
        /\ UNCHANGED <<tables, call, ent, existing, stored, next, held, cols>>
    BY <1>4 DEF UpdatePhotos
  <2>3. TypeOK'
    BY <1>0, <2>2 DEF TypeOK, tables, PC, PhotosOf
  <2>4. Frame(q) /\ pc'[q] = "photos" /\ targets'[q] = PhotosOf(call[q].r)
    BY <1>0, <2>2 DEF TypeOK, Frame
  <2>5. RequestOK(q)'
    BY <1>0, <2>1, <2>2, <2>4
       DEF RequestOK, CallOK, Uploading, DeletionOK, Answers, PhotosOf, tables
  <2> QED BY <2>1, <2>2, <2>3, <2>4, <2>5, LocalStep DEF tables
<1>5. CASE SaveSelect(q)
  <2>1. pc[q] = "photos" /\ call[q].op # "removeReview" /\ pc[q] \notin Answers
    BY <1>5 DEF SaveSelect, PhotosWritten, Answers
  <2>2. /\ cols' = [cols EXCEPT ![q] = Differing(reviews[call[q].r], Saved(q))]
        /\ pc' = [pc EXCEPT ![q] = "commit"]
        /\ UNCHANGED <<tables, call, ent, existing, stored, next, targets, held>>
    BY <1>5 DEF SaveSelect
  <2>3. Differing(reviews[call[q].r], Saved(q)) \subseteq Columns
    BY DEF Differing, Columns
  <2>4. TypeOK'
    BY <1>0, <2>2, <2>3 DEF TypeOK, tables, PC
  <2>5. Frame(q) /\ pc'[q] = "commit"
    BY <1>0, <2>2 DEF TypeOK, Frame
  <2>6. RequestOK(q)'
    BY <1>0, <2>1, <2>2, <2>5
       DEF RequestOK, CallOK, Uploading, UploadOK, DeletionOK, Answers, Live, tables
  <2> QED BY <2>1, <2>2, <2>4, <2>5, <2>6, LocalStep DEF tables
<1>6. CASE DeadlockAbort(q)
  BY <1>6, AnswerPreserves DEF DeadlockAbort
<1> QED BY <1>1, <1>2, <1>3, <1>4, <1>5, <1>6

\* A deletion takes the row lock of one of its rows.
LEMMA DeletePhotoPreserves ==
    ASSUME IInv, NEW q \in Requests, DeletePhoto(q)
    PROVE  IInv'
<1>0. TypeOK /\ RequestOK(q) /\ pc[q] = "photos" /\ call[q].op # "upload"
  BY DEF IInv, DeletePhoto
<1>1. PICK p \in targets[q] : held' = [held EXCEPT ![q] = @ \cup {<<p, photos[p].sortOrder>>}]
  BY DEF DeletePhoto
<1>2. UNCHANGED <<tables, pc, call, ent, existing, stored, next, targets, cols>>
  BY DEF DeletePhoto
<1>3. DeletionOK(q)
  BY <1>0 DEF RequestOK, Answers
<1>4. p \in PhotoIds /\ photos[p].sortOrder \in Nat
  BY <1>0, <1>3 DEF TypeOK, DeletionOK, Photo
<1>5. TypeOK'
  BY <1>0, <1>1, <1>2, <1>4 DEF TypeOK, tables
<1>6. /\ Frame(q) /\ held'[q] = held[q] \cup {<<p, photos[p].sortOrder>>}
  BY <1>0, <1>1, <1>2 DEF TypeOK, Frame
<1>7. PlacesOK'
  BY <1>2 DEF IInv, PlacesOK, Live, tables
<1>8. ASSUME NEW o \in Requests PROVE RequestOK(o)'
  <2>1. CASE o # q
    BY <1>2, <1>6, <2>1
       DEF IInv, Frame, RequestOK, CallOK, Uploading, UploadOK, DeletionOK, Live, tables
  <2>2. DeletionOK(q)'
    BY <1>2, <1>3, <1>6 DEF DeletionOK, tables
  <2>3. CASE o = q
    BY <1>0, <1>2, <2>2, <2>3 DEF RequestOK, CallOK, Uploading, Answers, tables
  <2> QED BY <2>1, <2>3
<1>9. ASSUME NEW o \in Requests, NEW a \in Requests, o # a PROVE Apart(o, a)'
  <2>1. Apart(o, a)
    BY <1>9 DEF IInv
  <2>2. CASE o = q \/ a = q
    BY <1>0, <1>2, <2>2 DEF Apart, Uploading
  <2>3. CASE o # q /\ a # q
    BY <1>2, <1>6, <2>1, <2>3 DEF Frame, Apart, Uploading
  <2> QED BY <2>2, <2>3
<1> QED BY <1>5, <1>7, <1>8, <1>9 DEF IInv

\* An insert takes a new key and a place that neither a visible photo nor the
\* row of another upload has: this is where the unique index is needed.
LEMMA InsertPhotoPreserves ==
    ASSUME IInv, NEW q \in Requests, InsertPhoto(q)
    PROVE  IInv'
<1> DEFINE place == existing[q] + next[q]
           r     == call[q].r
<1>0. TypeOK /\ RequestOK(q) /\ CallOK(q)
  BY DEF IInv, RequestOK
<1>1. /\ pc[q] = "photos" /\ call[q].op = "upload" /\ next[q] < stored[q]
      /\ place \notin UndecidedPlaces(q, r)
      /\ IF place \in TakenPlaces(r)
         THEN Answer(q, "conflict") /\ UNCHANGED tables
         ELSE \E p \in PhotoIds :
              /\ IsNextId(p)
              /\ held' = [held EXCEPT ![q] = @ \cup {<<p, place>>}]
              /\ next' = [next EXCEPT ![q] = @ + 1]
              /\ UNCHANGED <<tables, pc, call, ent, existing, stored, targets, cols>>
  BY DEF InsertPhoto
<1>2. CASE place \in TakenPlaces(r)
  BY <1>1, <1>2, AnswerPreserves
<1>3. CASE place \notin TakenPlaces(r)
  <2>1. PICK p \in PhotoIds :
          /\ IsNextId(p)
          /\ held' = [held EXCEPT ![q] = @ \cup {<<p, place>>}]
          /\ next' = [next EXCEPT ![q] = @ + 1]
          /\ UNCHANGED <<tables, pc, call, ent, existing, stored, targets, cols>>
    BY <1>1, <1>3
  <2>2. photos[p] = NoPhoto /\ \A o \in Requests : p \notin HeldRows(o)
    BY <2>1 DEF IsNextId, FreeIds
  <2>3. existing[q] \in Nat /\ next[q] \in Nat /\ stored[q] \in Nat /\ place \in Nat
    BY <1>0 DEF TypeOK
  <2>4. TypeOK'
    BY <1>0, <2>1, <2>3 DEF TypeOK, tables
  <2>5. Frame(q) /\ held'[q] = held[q] \cup {<<p, place>>} /\ next'[q] = next[q] + 1
    BY <1>0, <2>1 DEF TypeOK, Frame
  <2>6. PlacesOK'
    BY <2>1 DEF IInv, PlacesOK, Live, tables
  <2>7. UploadOK(q)
    BY <1>0, <1>1 DEF RequestOK, Uploading, Answers
  <2>8. \A h \in held[q] : h[1] # p /\ h[2] \in Nat /\ h[2] < place
    BY <2>2, <2>7, HeldTyped DEF HeldRows, UploadOK
  <2>9. UploadOK(q)'
    <3>1. \A h \in held'[q] :
             /\ photos[h[1]] = NoPhoto /\ h[2] < existing[q] + (next[q] + 1)
             /\ \A o \in PhotoIds : Live(o) /\ photos[o].review = r => photos[o].sortOrder # h[2]
      <4>1. \A o \in PhotoIds : Live(o) /\ photos[o].review = r => photos[o].sortOrder # place
        BY <1>3 DEF TakenPlaces, LivePhotos, Live
      <4> QED BY <2>2, <2>3, <2>5, <2>7, <2>8, <4>1 DEF UploadOK
    <3>2. \A h, g \in held'[q] : h[1] = g[1] <=> h[2] = g[2]
      BY <2>3, <2>5, <2>7, <2>8 DEF UploadOK
    <3>3. next'[q] <= stored[q] /\ existing[q] + stored[q] <= MaxPhotos
      BY <1>1, <2>3, <2>5, <2>7 DEF UploadOK
    <3> QED BY <1>1, <2>1, <2>5, <3>1, <3>2, <3>3 DEF UploadOK, Live, tables
  <2>10. ASSUME NEW o \in Requests PROVE RequestOK(o)'
    <3>1. CASE o # q
      BY <2>1, <2>5, <3>1
         DEF IInv, Frame, RequestOK, CallOK, Uploading, UploadOK, DeletionOK, Live, tables
    <3>2. CASE o = q
      BY <1>0, <1>1, <2>1, <2>9, <3>2 DEF RequestOK, CallOK, Uploading, Answers
    <3> QED BY <3>1, <3>2
  <2>11. ASSUME NEW o \in Requests, o # q, Uploading(o), NEW g \in held[o]
         PROVE  g[1] # p /\ (call[o].r = r => g[2] # place)
    <3>1. g[1] # p
      BY <2>2, <2>11 DEF HeldRows
    <3>2. photos[g[1]] = NoPhoto
      BY <2>11 DEF IInv, RequestOK, UploadOK
    <3>3. ASSUME call[o].r = r PROVE g[2] \in UndecidedPlaces(q, r)
      <4>1. o \in {a \in InFlight \ {q} : call[a].r = r}
        BY <2>11, <3>3 DEF InFlight, Uploading
      <4>2. g[2] \in {h[2] : h \in {b \in held[o] : photos[b[1]] = NoPhoto
                                                    \/ ~photos[b[1]].deleted}}
        BY <3>2
      <4> QED BY <4>1, <4>2 DEF UndecidedPlaces
    <3> QED BY <1>1, <3>1, <3>3
  <2>12. ASSUME NEW o \in Requests, NEW a \in Requests, o # a PROVE Apart(o, a)'
    <3>1. Apart(o, a)
      BY <2>12 DEF IInv
    <3>2. CASE o # q /\ a # q
      BY <2>1, <2>5, <3>1, <3>2 DEF Frame, Apart, Uploading
    <3>3. CASE o = q
      BY <2>1, <2>5, <2>11, <2>12, <3>1, <3>3 DEF Frame, Apart, Uploading
    <3>4. CASE a = q
      BY <2>1, <2>5, <2>11, <2>12, <3>1, <3>4 DEF Frame, Apart, Uploading
    <3> QED BY <3>2, <3>3, <3>4
  <2> QED BY <2>4, <2>6, <2>10, <2>12 DEF IInv
<1> QED BY <1>2, <1>3

-----------------------------------------------------------------------------
(* The commits.                                                             *)

\* What is left to show of a commit: the tables, and what others claim.
LEMMA CommitPreserves ==
    ASSUME IInv, NEW q \in Requests, Answer(q, "done"),
           reviews' \in [ReviewIds -> Review], stats' \in [Bars -> StatsRow],
           photos' \in [PhotoIds -> Photo \cup {NoPhoto}], PlacesOK',
           \A o \in Requests \ {q} : RequestOK(o)'
    PROVE  IInv'
<1>1. TypeOK' /\ Frame(q) /\ held'[q] = {} /\ RequestOK(q)'
  BY AnswerLocal DEF TypeOK
<1>2. ASSUME NEW o \in Requests, NEW a \in Requests, o # a PROVE Apart(o, a)'
  BY <1>1, <1>2 DEF IInv, Frame, Apart, Uploading
<1> QED BY <1>1, <1>2 DEF IInv

\* Saving the review and correcting photoReviewCount keep the tables typed.
LEMMA SaveTyped ==
    ASSUME IInv, NEW q \in Requests, pc[q] \notin Answers, SaveReview(q),
           \/ UNCHANGED stats
           \/ \E delta \in Int : SetStats(ent[q].bar, AdjustPhotoReviewCount(stats[ent[q].bar], delta))
    PROVE  reviews' \in [ReviewIds -> Review] /\ stats' \in [Bars -> StatsRow]
<1>1. TypeOK
  BY DEF IInv
<1>2. reviews' \in [ReviewIds -> Review]
  <2>1. Patched(reviews[call[q].r], Saved(q), cols[q]) \in Review
    BY Running, SavedTyped
  <2> QED BY <1>1, <2>1 DEF TypeOK, SaveReview
<1>3. stats' \in [Bars -> StatsRow]
  <2>1. ASSUME NEW delta \in Int PROVE AdjustPhotoReviewCount(stats[ent[q].bar], delta) \in StatsRow
    <3>1. /\ stats[ent[q].bar] \in StatsRow /\ ent[q].rating \in Ratings
          /\ TRUE \in BOOLEAN
      BY Running
    <3> QED BY <3>1, StatsTyped
  <2> QED BY <1>1, <2>1 DEF TypeOK, SetStats
<1> QED BY <1>2, <1>3

\* Soft-deleting the rows of a deletion frees places and claims none.
LEMMA SoftDeletePreserves ==
    ASSUME IInv, NEW q \in Requests, pc[q] \notin Answers, call[q].op # "upload",
           photos' = SoftDeleted(HeldRows(q)), Answer(q, "done")
    PROVE  /\ photos' \in [PhotoIds -> Photo \cup {NoPhoto}]
           /\ PlacesOK'
           /\ \A o \in Requests \ {q} : RequestOK(o)'
<1>1. TypeOK /\ DeletionOK(q)
  BY DEF IInv, RequestOK
<1>2. \A p \in HeldRows(q) : p \in PhotoIds /\ photos[p] # NoPhoto
  BY <1>1, HeldTyped DEF DeletionOK
<1>3. ASSUME NEW p \in PhotoIds
      PROVE  /\ photos'[p] \in Photo \cup {NoPhoto}
             /\ photos'[p] = NoPhoto <=> photos[p] = NoPhoto
             /\ photos[p] # NoPhoto => /\ photos'[p].review = photos[p].review
                                       /\ photos'[p].sortOrder = photos[p].sortOrder
                                       /\ ~photos'[p].deleted => ~photos[p].deleted
  <2>1. CASE p \in HeldRows(q)
    <3>1. photos[p] \in Photo /\ photos'[p] = [photos[p] EXCEPT !.deleted = TRUE]
      BY <1>1, <1>2, <2>1 DEF TypeOK, SoftDeleted
    <3>2. /\ photos'[p] \in Photo /\ photos'[p].review = photos[p].review
          /\ photos'[p].sortOrder = photos[p].sortOrder /\ photos'[p].deleted
      BY <3>1 DEF Photo
    <3> QED BY <1>2, <2>1, <3>2, PhotoNulls
  <2>2. CASE p \notin HeldRows(q)
    BY <1>1, <2>2 DEF TypeOK, SoftDeleted
  <2> QED BY <2>1, <2>2
<1>4. photos' \in [PhotoIds -> Photo \cup {NoPhoto}]
  <2>1. photos' = [p \in PhotoIds |-> photos'[p]]
    BY DEF SoftDeleted
  <2> QED BY <1>3, <2>1
<1>5. \A p \in PhotoIds : Live(p)' => Live(p)
  BY <1>3 DEF Live
<1>6. PlacesOK'
  BY <1>3, <1>5 DEF IInv, PlacesOK, Live
<1>7. Frame(q)
  BY AnswerLocal
<1>8. ASSUME NEW o \in Requests \ {q} PROVE RequestOK(o)'
  <2>1. RequestOK(o) /\ TypeOK
    BY DEF IInv
  <2>2. CallOK(o)'
    BY <1>7, <2>1 DEF Frame, RequestOK, CallOK
  <2>3. Uploading(o)' => UploadOK(o)'
    <3>1. ASSUME Uploading(o) PROVE \A h \in held[o] : h[1] \in PhotoIds
      BY HeldTyped
    <3> QED BY <1>3, <1>5, <1>7, <2>1, <3>1 DEF Frame, RequestOK, Uploading, UploadOK
  <2>4. DeletionOK(o) => DeletionOK(o)'
    BY <1>3, <1>7, <2>1 DEF Frame, TypeOK, DeletionOK
  <2> QED BY <1>7, <2>1, <2>2, <2>3, <2>4 DEF Frame, RequestOK
<1> QED BY <1>4, <1>6, <1>8

\* The rows an upload commits, and those it leaves alone.
LEMMA UploadedRows ==
    ASSUME IInv, NEW q \in Requests, CommitUpload(q)
    PROVE  /\ \A p \in PhotoIds \ HeldRows(q) : photos'[p] = photos[p]
           /\ \A p \in HeldRows(q) :
                 /\ photos[p] = NoPhoto /\ Live(p)' /\ photos'[p] \in Photo
                 /\ photos'[p].review = call[q].r
                 /\ <<p, photos'[p].sortOrder>> \in held[q]
           /\ photos' \in [PhotoIds -> Photo \cup {NoPhoto}]
<1>0. TypeOK /\ UploadOK(q) /\ call[q].r \in ReviewIds
  <2>1. pc[q] \notin Answers
    BY DEF CommitUpload, Answers
  <2> QED BY <2>1, Running DEF IInv, RequestOK, Uploading, CommitUpload
<1>1. photos' = [p \in PhotoIds |->
                    IF p \in HeldRows(q)
                    THEN [review |-> call[q].r, deleted |-> FALSE,
                          sortOrder |-> (CHOOSE h \in held[q] : h[1] = p)[2]]
                    ELSE photos[p]]
  BY DEF CommitUpload
<1>2. ASSUME NEW p \in HeldRows(q)
      PROVE  /\ photos[p] = NoPhoto /\ Live(p)' /\ photos'[p] \in Photo
             /\ photos'[p].review = call[q].r
             /\ <<p, photos'[p].sortOrder>> \in held[q]
  <2> DEFINE c == CHOOSE h \in held[q] : h[1] = p
  <2>1. c \in held[q] /\ c[1] = p
    BY HeldTyped
  <2>2. c[2] \in Nat /\ c = <<p, c[2]>> /\ photos[p] = NoPhoto /\ p \in PhotoIds
    BY <1>0, <2>1, HeldTyped DEF UploadOK
  <2> HIDE DEF c
  <2>3. photos'[p] = [review |-> call[q].r, deleted |-> FALSE, sortOrder |-> c[2]]
    BY <1>1, <2>2 DEF c
  <2>4. photos'[p] \in Photo
    BY <1>0, <2>2, <2>3 DEF Photo
  <2>5. /\ ~photos'[p].deleted /\ photos'[p].review = call[q].r
        /\ photos'[p].sortOrder = c[2]
    BY <2>3
  <2>6. Live(p)'
    BY <2>4, <2>5, PhotoNulls DEF Live
  <2> QED BY <2>1, <2>2, <2>4, <2>5, <2>6
<1>3. \A p \in PhotoIds \ HeldRows(q) : photos'[p] = photos[p]
  BY <1>1
<1>4. photos' \in [PhotoIds -> Photo \cup {NoPhoto}]
  <2>1. \A p \in PhotoIds : photos'[p] \in Photo \cup {NoPhoto}
    BY <1>0, <1>2, <1>3 DEF TypeOK
  <2>2. photos' = [p \in PhotoIds |-> photos'[p]]
    BY <1>1
  <2> QED BY <2>1, <2>2
<1> QED BY <1>2, <1>3, <1>4

\* An upload about to commit has claimed places below the limit.
LEMMA HeldPlaces ==
    ASSUME IInv, NEW q \in Requests, Uploading(q), pc[q] = "commit"
    PROVE  \A h \in held[q] : h[2] \in Nat /\ h[2] < MaxPhotos
<1>1. UploadOK(q) /\ existing[q] \in Nat /\ next[q] \in Nat /\ stored[q] \in Nat
  BY DEF IInv, RequestOK, TypeOK
<1>2. next[q] <= stored[q] /\ existing[q] + stored[q] <= MaxPhotos
  BY <1>1 DEF UploadOK
<1>3. existing[q] + next[q] <= MaxPhotos
  BY <1>1, <1>2, PhotoBounds
<1> QED BY <1>1, <1>3, HeldTyped, PhotoBounds DEF UploadOK

\* The commit of an upload makes visible the rows it has claimed, and only those:
\* their places are below the limit and free.
LEMMA CommitUploadPreserves ==
    ASSUME IInv, NEW q \in Requests, CommitUpload(q)
    PROVE  IInv'
<1>0. pc[q] = "commit" /\ pc[q] \notin Answers /\ call[q].op = "upload" /\ Answer(q, "done")
  BY DEF CommitUpload, Answers
<1>1. TypeOK /\ PlacesOK /\ UploadOK(q) /\ Frame(q)
  BY <1>0, AnswerLocal DEF IInv, RequestOK, Uploading
<1>2. reviews' \in [ReviewIds -> Review] /\ stats' \in [Bars -> StatsRow]
  BY <1>0, SaveTyped DEF CommitUpload
<1>3. \A p \in PhotoIds \ HeldRows(q) : photos'[p] = photos[p] /\ (Live(p)' <=> Live(p))
  BY UploadedRows DEF Live
<1>4. \A p \in HeldRows(q) : /\ photos[p] = NoPhoto /\ Live(p)'
                             /\ photos'[p] \in Photo /\ photos'[p].review = call[q].r
                             /\ <<p, photos'[p].sortOrder>> \in held[q]
  BY UploadedRows
<1>5. \A h \in held[q] : h[2] \in Nat /\ h[2] < MaxPhotos
  BY <1>0, HeldPlaces DEF Uploading
<1>6. PlacesOK'
  <2>1. ASSUME NEW p \in PhotoIds, Live(p)' PROVE photos'[p].sortOrder < MaxPhotos
    <3>1. CASE p \in HeldRows(q)
      <4>1. <<p, photos'[p].sortOrder>>[2] < MaxPhotos
        BY <1>4, <1>5, <3>1
      <4> QED BY <4>1
    <3>2. CASE p \notin HeldRows(q)
      BY <1>1, <1>3, <2>1, <3>2 DEF PlacesOK
    <3> QED BY <3>1, <3>2
  <2>2. ASSUME NEW p \in HeldRows(q), NEW o \in PhotoIds, Live(o)',
               photos'[o].review = call[q].r, photos'[o].sortOrder = photos'[p].sortOrder
        PROVE  o = p
    <3>1. <<p, photos'[p].sortOrder>> \in held[q]
      BY <1>4
    <3>2. CASE o \in HeldRows(q)
      <4>1. <<o, photos'[o].sortOrder>> \in held[q]
        BY <1>4, <3>2
      <4> QED BY <1>1, <2>2, <3>1, <4>1 DEF UploadOK
    <3>3. CASE o \notin HeldRows(q)
      <4>1. Live(o) /\ photos[o].review = call[q].r /\ photos[o] = photos'[o]
        BY <1>3, <2>2, <3>3
      <4>2. photos[o].sortOrder # <<p, photos'[p].sortOrder>>[2]
        BY <1>1, <3>1, <4>1 DEF UploadOK
      <4> QED BY <2>2, <4>1, <4>2
    <3> QED BY <3>2, <3>3
  <2>3. ASSUME NEW p \in PhotoIds, NEW o \in PhotoIds, Live(p)', Live(o)',
               photos'[o].review = photos'[p].review,
               photos'[o].sortOrder = photos'[p].sortOrder
        PROVE  o = p
    <3>1. CASE p \in HeldRows(q)
      BY <1>4, <2>2, <2>3, <3>1
    <3>2. CASE o \in HeldRows(q)
      BY <1>4, <2>2, <2>3, <3>2
    <3>3. CASE p \notin HeldRows(q) /\ o \notin HeldRows(q)
      BY <1>1, <1>3, <2>3, <3>3 DEF PlacesOK
    <3> QED BY <3>1, <3>2, <3>3
  <2> QED BY <2>1, <2>3 DEF PlacesOK
<1>7. ASSUME NEW o \in Requests \ {q} PROVE RequestOK(o)'
  <2>1. RequestOK(o)
    BY DEF IInv
  <2>2. CallOK(o)'
    BY <1>1, <2>1 DEF Frame, RequestOK, CallOK
  <2>3. ASSUME Uploading(o) PROVE UploadOK(o)'
    <3>1. UploadOK(o) /\ Apart(o, q)
      BY <2>1, <2>3 DEF RequestOK, IInv
    <3>2. ASSUME NEW h \in held[o]
          PROVE  /\ photos'[h[1]] = NoPhoto
                 /\ \A p \in PhotoIds : Live(p)' /\ photos'[p].review = call[o].r
                                         => photos'[p].sortOrder # h[2]
      <4>1. \A g \in held[q] : h[1] # g[1] /\ (call[o].r = call[q].r => h[2] # g[2])
        BY <1>0, <2>3, <3>1 DEF Apart, Uploading
      <4>2. h[1] \in PhotoIds /\ h[1] \notin HeldRows(q)
        BY <4>1, HeldTyped DEF HeldRows
      <4>3. photos'[h[1]] = NoPhoto
        BY <1>3, <3>1, <4>2 DEF UploadOK
      <4>4. ASSUME NEW p \in PhotoIds, Live(p)', photos'[p].review = call[o].r
            PROVE  photos'[p].sortOrder # h[2]
        <5>1. CASE p \in HeldRows(q)
          <6>1. call[o].r = call[q].r /\ <<p, photos'[p].sortOrder>> \in held[q]
            BY <1>4, <4>4, <5>1
          <6>2. h[2] # <<p, photos'[p].sortOrder>>[2]
            BY <4>1, <6>1
          <6> QED BY <6>2
        <5>2. CASE p \notin HeldRows(q)
          BY <1>3, <3>1, <4>4, <5>2 DEF UploadOK
        <5> QED BY <5>1, <5>2
      <4> QED BY <4>3, <4>4
    <3> QED BY <1>1, <3>1, <3>2 DEF Frame, UploadOK
  <2>4. DeletionOK(o) => DeletionOK(o)'
    <3>1. ASSUME DeletionOK(o), NEW p \in targets[o]
          PROVE  photos'[p] = photos[p]
      <4>1. p \in PhotoIds /\ photos[p] # NoPhoto
        BY <1>1, <3>1 DEF DeletionOK, TypeOK
      <4> QED BY <1>3, <1>4, <4>1
    <3> QED BY <1>1, <3>1 DEF Frame, DeletionOK
  <2> QED BY <1>1, <2>1, <2>2, <2>3, <2>4 DEF Frame, RequestOK, Uploading
<1> QED BY <1>0, <1>2, <1>6, <1>7, UploadedRows, CommitPreserves

\* The commit of a deletion makes photos invisible, and writes its review.
LEMMA CommitDeletionPreserves ==
    ASSUME IInv, NEW q \in Requests, CommitRemovePhoto(q) \/ CommitRemoveReview(q)
    PROVE  IInv'
<1>0. /\ pc[q] \notin Answers /\ call[q].op # "upload" /\ Answer(q, "done")
      /\ photos' = SoftDeleted(HeldRows(q))
  BY DEF CommitRemovePhoto, CommitRemoveReview, PhotosWritten, Answers
<1>1. TypeOK
  BY DEF IInv
<1>2. reviews' \in [ReviewIds -> Review] /\ stats' \in [Bars -> StatsRow]
  <2>1. CASE CommitRemovePhoto(q)
    <3>1. \/ UNCHANGED stats
          \/ SetStats(ent[q].bar, AdjustPhotoReviewCount(stats[ent[q].bar], -1))
      BY <2>1 DEF CommitRemovePhoto
    <3> QED BY <1>0, <2>1, <3>1, SaveTyped DEF CommitRemovePhoto
  <2>2. CASE CommitRemoveReview(q)
    <3>1. reviews' \in [ReviewIds -> Review]
      <4>1. [reviews[call[q].r] EXCEPT !.deleted = TRUE] \in Review
        BY <1>0, Running DEF Review
      <4> QED BY <1>1, <2>2, <4>1 DEF TypeOK, CommitRemoveReview
    <3>2. stats' \in [Bars -> StatsRow]
      <4>1. (ent[q].photoCount > 0) \in BOOLEAN
        OBVIOUS
      <4>2. DecrementStats(stats[ent[q].bar], ent[q].rating, ent[q].photoCount > 0) \in StatsRow
        BY <1>0, <4>1, Running, StatsTyped
      <4> QED BY <1>1, <2>2, <4>2 DEF TypeOK, CommitRemoveReview, SetStats
    <3> QED BY <3>1, <3>2
  <2> QED BY <2>1, <2>2
<1> QED BY <1>0, <1>2, SoftDeletePreserves, CommitPreserves

-----------------------------------------------------------------------------
\* At the start photos fill the first places and nobody claims a row.
LEMMA InitIInv == Init => IInv
<1> SUFFICES ASSUME Init PROVE IInv
  OBVIOUS
<1>1. reviews \in [ReviewIds -> Review]
  <2> DEFINE NewReview == [bar : Bars, rating : Ratings, status : ReviewStatus,
                           photoCount : 0..MaxPhotos, deleted : {FALSE}]
  <2>1. reviews \in [ReviewIds -> NewReview]
    BY DEF Init
  <2>2. NewReview \subseteq Review
    <3>1. 0..MaxPhotos \subseteq Nat
      BY PhotoBounds
    <3>2. SUFFICES ASSUME NEW row \in NewReview PROVE row \in Review
      OBVIOUS
    <3> QED BY <3>1, <3>2 DEF Review
  <2> HIDE DEF NewReview
  <2> QED BY <2>1, <2>2
<1>2. stats \in [Bars -> StatsRow]
  BY <1>1, FiniteTables, RecalculateTyped DEF Init
<1>3. PICK earlier \in [EarlierIds -> {NoPhoto} \cup
                 [review : ReviewIds, sortOrder : 0..(MaxPhotos - 1), deleted : {FALSE}]] :
          photos = [p \in PhotoIds |-> IF p \in EarlierIds THEN earlier[p] ELSE NoPhoto]
  BY DEF Init
<1>4. ASSUME NEW p \in PhotoIds, photos[p] # NoPhoto
      PROVE  photos[p] \in Photo /\ photos[p].sortOrder < MaxPhotos
  <2>1. photos[p] \in [review : ReviewIds, sortOrder : 0..(MaxPhotos - 1), deleted : {FALSE}]
    BY <1>3, <1>4
  <2>2. PICK r \in ReviewIds, n \in 0..(MaxPhotos - 1) :
          photos[p] = [review |-> r, sortOrder |-> n, deleted |-> FALSE]
    BY <2>1
  <2>3. n \in Nat /\ n < MaxPhotos
    BY PhotoBounds
  <2> QED BY <2>2, <2>3 DEF Photo
<1>5. photos \in [PhotoIds -> Photo \cup {NoPhoto}]
  BY <1>3, <1>4
<1>6. TypeOK
  BY <1>1, <1>2, <1>5 DEF Init, TypeOK, PC, Answers
<1>7. PlacesOK
  <2> SUFFICES ASSUME NEW p \in PhotoIds, Live(p)
               PROVE  /\ photos[p].sortOrder < MaxPhotos
                      /\ \A o \in PhotoIds :
                            Live(o) /\ photos[o].review = photos[p].review
                               /\ photos[o].sortOrder = photos[p].sortOrder => o = p
    BY DEF PlacesOK
  <2>1. photos[p].sortOrder < MaxPhotos /\ photos[p].review \in ReviewIds
    BY <1>4 DEF Live, Photo
  <2>2. \A o \in PhotoIds : Live(o) /\ photos[o].review = photos[p].review
                              => o \in LivePhotos(photos[p].review)
    BY DEF Live, LivePhotos
  <2> QED BY <2>1, <2>2 DEF Init
<1>8. \A q \in Requests : RequestOK(q)
  BY DEF Init, RequestOK, CallOK, Uploading, Answers
<1>9. \A q, o \in Requests : Apart(q, o)
  BY DEF Init, Apart
<1> QED BY <1>6, <1>7, <1>8, <1>9 DEF IInv

\* Every step preserves the invariant.
LEMMA NextIInv == IInv /\ [Next]_vars => IInv'
<1> SUFFICES ASSUME IInv, [Next]_vars PROVE IInv'
  OBVIOUS
<1>1. CASE UNCHANGED vars
  BY <1>1 DEF IInv, vars, TypeOK, PlacesOK, Live, RequestOK, CallOK, Uploading, UploadOK,
              DeletionOK, Apart
<1>2. ASSUME NEW q \in Requests, Begin(q) PROVE IInv'
  BY <1>2, BeginPreserves
<1>3. ASSUME NEW q \in Requests, Advance(q) PROVE IInv'
  BY <1>3, StatementPreserves, DeletePhotoPreserves, InsertPhotoPreserves,
     CommitUploadPreserves, CommitDeletionPreserves DEF Advance
<1> QED BY <1>1, <1>2, <1>3 DEF Next, Quiet

\* The inductive invariant holds in every reachable state.
LEMMA Invariant == Spec => []IInv
  BY InitIInv, NextIInv, PTL DEF Spec

-----------------------------------------------------------------------------
(* The theorems.                                                            *)

\* Every reachable state is well-typed; no correction of the aggregate, however
\* stale the review it is decided by, makes a column negative.
THEOREM TypeCorrect == Spec => []TypeOK
<1>1. IInv => TypeOK
  BY DEF IInv
<1> QED BY <1>1, Invariant, PTL

\* A review never shows more than MaxPhotos photos, whatever uploads race with
\* each other and with removals (review-photos.service.ts:52-94).
THEOREM PhotoLimit == Spec => []AtMostMaxPhotos
<1>1. IInv => AtMostMaxPhotos
  <2> SUFFICES ASSUME IInv, NEW r \in ReviewIds
               PROVE  Cardinality(LivePhotos(r)) <= MaxPhotos
    BY DEF AtMostMaxPhotos
  <2> DEFINE place == [p \in LivePhotos(r) |-> photos[p].sortOrder]
             Places == 0..(MaxPhotos - 1)
  <2>1. \A p \in LivePhotos(r) : photos[p].sortOrder \in Places
    <3> SUFFICES ASSUME NEW p \in LivePhotos(r) PROVE photos[p].sortOrder \in Places
      OBVIOUS
    <3>1. photos[p].sortOrder \in Nat /\ photos[p].sortOrder < MaxPhotos
      BY DEF IInv, TypeOK, PlacesOK, Live, LivePhotos, Photo
    <3> QED BY <3>1, PhotoBounds
  <2>2. \A p, o \in LivePhotos(r) : photos[p].sortOrder = photos[o].sortOrder => p = o
    BY DEF IInv, PlacesOK, Live, LivePhotos
  <2>3. place \in Injection(LivePhotos(r), Places)
    BY <2>1, <2>2 DEF Injection, IsInjective
  <2>4. IsFiniteSet(Places) /\ Cardinality(Places) = MaxPhotos
    BY PhotoBounds, FS_Interval
  <2>5. Cardinality(LivePhotos(r)) <= Cardinality(Places)
    BY <2>3, <2>4, FS_Injection
  <2> QED BY <2>4, <2>5
<1> QED BY <1>1, Invariant, PTL

\* An upload adds its rows to the visible photos of its review.
LEMMA UploadedLive ==
    ASSUME IInv, NEW q \in Requests, CommitUpload(q), NEW r \in ReviewIds, r = call[q].r
    PROVE  /\ LivePhotos(r)' = LivePhotos(r) \cup HeldRows(q)
           /\ LivePhotos(r) \cap HeldRows(q) = {}
           /\ \A t \in ReviewIds \ {r} : LivePhotos(t)' = LivePhotos(t)
<1>1. /\ \A p \in PhotoIds \ HeldRows(q) : photos'[p] = photos[p]
      /\ \A p \in HeldRows(q) : /\ p \in PhotoIds /\ photos[p] = NoPhoto /\ Live(p)'
                                /\ photos'[p].review = r
  BY UploadedRows, HeldTyped
<1> QED BY <1>1 DEF LivePhotos, Live

\* A deletion takes its rows away from the visible photos of its review.
LEMMA DeletedLive ==
    ASSUME IInv, NEW q \in Requests, pc[q] \notin Answers, call[q].op # "upload",
           photos' = SoftDeleted(HeldRows(q)), NEW r \in ReviewIds, r = call[q].r
    PROVE  /\ LivePhotos(r)' = LivePhotos(r) \ HeldRows(q)
           /\ \A t \in ReviewIds \ {r} : LivePhotos(t)' = LivePhotos(t)
           /\ \A p \in PhotoIds \ HeldRows(q) : photos'[p] = photos[p]
           /\ \A p \in HeldRows(q) : /\ p \in PhotoIds /\ photos[p] # NoPhoto
                                     /\ photos[p].review = r /\ photos'[p].deleted
<1>1. \A p \in HeldRows(q) : p \in PhotoIds /\ photos[p] # NoPhoto /\ photos[p].review = r
  <2>1. DeletionOK(q)
    BY DEF IInv, RequestOK
  <2> QED BY <2>1, HeldTyped DEF DeletionOK
<1>2. \A p \in PhotoIds \ HeldRows(q) : photos'[p] = photos[p]
  BY DEF SoftDeleted
<1>3. \A p \in HeldRows(q) : photos'[p] = [photos[p] EXCEPT !.deleted = TRUE]
                             /\ photos[p] \in Photo
  BY <1>1 DEF SoftDeleted, TypeOK, IInv
<1>4. \A p \in HeldRows(q) : photos'[p].deleted
  BY <1>3 DEF Photo
<1>5. LivePhotos(r)' = LivePhotos(r) \ HeldRows(q)
  BY <1>2, <1>4 DEF LivePhotos
<1>6. \A t \in ReviewIds \ {r} : LivePhotos(t)' = LivePhotos(t)
  BY <1>1, <1>2, <1>4 DEF LivePhotos
<1> QED BY <1>1, <1>2, <1>4, <1>5, <1>6

\* A photo has a place below the limit, deleted or not.
Placed == \A p \in PhotoIds : photos[p] # NoPhoto => photos[p].sortOrder < MaxPhotos

\* The rows S are new photos of r, each at a free place of its own.
Shows(r, S) ==
    /\ \A p \in PhotoIds \ S : photos'[p] = photos[p]
    /\ \A p \in S :
          /\ photos[p] = NoPhoto
          /\ photos'[p] \in Photo /\ photos'[p].review = r /\ ~photos'[p].deleted
          /\ photos'[p].sortOrder < MaxPhotos
          /\ \A o \in PhotoIds : Live(o) /\ photos[o].review = r
                                    => photos[o].sortOrder # photos'[p].sortOrder
          /\ \A o \in S : photos'[o].sortOrder = photos'[p].sortOrder => o = p

\* The rows S are photos of r, deleted now.
Hides(r, S) ==
    /\ \A p \in PhotoIds \ S : photos'[p] = photos[p]
    /\ \A p \in S : /\ photos[p] \in Photo /\ photos[p].review = r
                    /\ photos'[p] = [photos[p] EXCEPT !.deleted = TRUE]

\* A step shows photos of one review, hides photos of one, or leaves all alone.
LEMMA PhotosStep ==
    ASSUME IInv, [Next]_vars
    PROVE  \/ UNCHANGED photos
           \/ \E r \in ReviewIds, S \in SUBSET PhotoIds : Shows(r, S) \/ Hides(r, S)
<1>1. ASSUME NEW q \in Requests, CommitUpload(q)
      PROVE  call[q].r \in ReviewIds /\ HeldRows(q) \in SUBSET PhotoIds
             /\ Shows(call[q].r, HeldRows(q))
  <2>1. /\ pc[q] = "commit" /\ pc[q] \notin Answers /\ Uploading(q) /\ UploadOK(q)
        /\ call[q].r \in ReviewIds
    <3>1. pc[q] = "commit" /\ pc[q] \notin Answers /\ call[q].op = "upload"
      BY <1>1 DEF CommitUpload, Answers
    <3> QED BY <3>1, Running DEF IInv, RequestOK, Uploading
  <2>2. HeldRows(q) \subseteq PhotoIds
    BY HeldTyped
  <2>3. \A p \in PhotoIds \ HeldRows(q) : photos'[p] = photos[p]
    BY <1>1, UploadedRows
  <2>4. ASSUME NEW p \in HeldRows(q)
        PROVE  /\ photos[p] = NoPhoto
               /\ photos'[p] \in Photo /\ photos'[p].review = call[q].r /\ ~photos'[p].deleted
               /\ <<p, photos'[p].sortOrder>> \in held[q]
    BY <1>1, UploadedRows DEF Live
  <2>5. ASSUME NEW p \in HeldRows(q), NEW n, n = photos'[p].sortOrder
        PROVE  /\ n < MaxPhotos
               /\ \A o \in PhotoIds : Live(o) /\ photos[o].review = call[q].r
                                         => photos[o].sortOrder # n
               /\ \A o \in HeldRows(q) : photos'[o].sortOrder = n => o = p
    <3>1. PICK h \in held[q] : h = <<p, n>>
      BY <2>4, <2>5
    <3>2. h[1] = p /\ h[2] = n
      BY <3>1
    <3>3. n < MaxPhotos
      BY <2>1, <3>2, HeldPlaces
    <3>4. \A o \in PhotoIds : Live(o) /\ photos[o].review = call[q].r => photos[o].sortOrder # n
      BY <2>1, <3>2 DEF UploadOK
    <3>5. ASSUME NEW o \in HeldRows(q), photos'[o].sortOrder = n PROVE o = p
      <4>1. PICK g \in held[q] : g = <<o, n>>
        BY <2>4, <3>5
      <4>2. g[1] = o /\ g[2] = n
        BY <4>1
      <4>3. h[1] = g[1] <=> h[2] = g[2]
        BY <2>1 DEF UploadOK
      <4> QED BY <3>2, <4>2, <4>3
    <3> QED BY <3>3, <3>4, <3>5
  <2> QED BY <2>1, <2>2, <2>3, <2>4, <2>5 DEF Shows
<1>2. ASSUME NEW q \in Requests, CommitRemovePhoto(q) \/ CommitRemoveReview(q)
      PROVE  call[q].r \in ReviewIds /\ HeldRows(q) \in SUBSET PhotoIds
             /\ Hides(call[q].r, HeldRows(q))
  <2>1. /\ pc[q] \notin Answers /\ call[q].op # "upload"
        /\ photos' = SoftDeleted(HeldRows(q))
    BY <1>2 DEF CommitRemovePhoto, CommitRemoveReview, PhotosWritten, Answers
  <2>2. call[q].r \in ReviewIds /\ DeletionOK(q)
    BY <2>1, Running DEF IInv, RequestOK
  <2>3. HeldRows(q) \subseteq PhotoIds
    BY HeldTyped
  <2>4. \A p \in HeldRows(q) : photos[p] # NoPhoto /\ photos[p].review = call[q].r
    BY <2>2, HeldTyped DEF DeletionOK
  <2>5. \A p \in HeldRows(q) : photos[p] \in Photo
    BY <2>3, <2>4 DEF IInv, TypeOK
  <2>6. /\ \A p \in PhotoIds \ HeldRows(q) : photos'[p] = photos[p]
        /\ \A p \in HeldRows(q) : photos'[p] = [photos[p] EXCEPT !.deleted = TRUE]
    BY <2>1, <2>3 DEF SoftDeleted
  <2> QED BY <2>2, <2>3, <2>4, <2>5, <2>6 DEF Hides
<1>3. ASSUME NEW q \in Requests, Begin(q) PROVE UNCHANGED photos
  BY <1>3 DEF Begin, StartUpload, StartRemovePhoto, StartRemoveReview, Start, Report, tables
<1>4. ASSUME NEW q \in Requests, Advance(q)
      PROVE  UNCHANGED photos \/ CommitUpload(q) \/ CommitRemovePhoto(q) \/ CommitRemoveReview(q)
  BY <1>4 DEF Advance, CountPhotos, StoreFiles, FindPhoto, UpdatePhotos, DeletePhoto,
              InsertPhoto, SaveSelect, DeadlockAbort, tables
<1>5. CASE \E q \in Requests : Begin(q) \/ Advance(q)
  BY <1>1, <1>2, <1>3, <1>4, <1>5
<1> QED BY <1>5 DEF Next, Quiet, vars

\* The deleted photos keep the places they had.
LEMMA PlacedInvariant == Spec => []Placed
<1>1. Init => Placed
  <2> SUFFICES ASSUME Init, NEW p \in PhotoIds, photos[p] # NoPhoto
               PROVE  photos[p].sortOrder < MaxPhotos
    BY DEF Placed
  <2> DEFINE First == [review : ReviewIds, sortOrder : 0..(MaxPhotos - 1), deleted : {FALSE}]
  <2>1. photos[p] \in First
    BY DEF Init
  <2>2. photos[p].sortOrder \in 0..(MaxPhotos - 1)
    BY <2>1
  <2> QED BY <2>2, PhotoBounds
<1>2. IInv /\ Placed /\ [Next]_vars => Placed'
  <2> SUFFICES ASSUME IInv, Placed, [Next]_vars PROVE Placed'
    OBVIOUS
  <2>1. CASE UNCHANGED photos
    BY <2>1 DEF Placed
  <2>2. ASSUME NEW r \in ReviewIds, NEW S \in SUBSET PhotoIds, Shows(r, S) PROVE Placed'
    BY <2>2 DEF Placed, Shows
  <2>3. ASSUME NEW r \in ReviewIds, NEW S \in SUBSET PhotoIds, Hides(r, S) PROVE Placed'
    <3>1. ASSUME NEW p \in S PROVE photos'[p].sortOrder = photos[p].sortOrder /\ photos[p] # NoPhoto
      BY <2>3, <3>1, PhotoNulls DEF Hides, Photo
    <3> QED BY <2>3, <3>1 DEF Placed, Hides
  <2> QED BY <2>1, <2>2, <2>3, PhotosStep
<1> QED BY <1>1, <1>2, Invariant, PTL DEF Spec

\* The endpoints keep their promise: photos appear only at free places of one
\* review at a time, each at its own, and disappear for good.
THEOREM KeepsPromise == Spec => FillsFreePlaces
<1> DEFINE Photos == {o \in PhotoIds : photos[o] # NoPhoto}
           Kept(p) == [review |-> photos[p].review, place |-> photos[p].sortOrder,
                       shown |-> ~photos[p].deleted]
           slot == [p \in Photos |-> Kept(p)]
<1>1. IInv /\ Placed => Promised!Slotted
  <2> SUFFICES ASSUME IInv, Placed, NEW p \in PhotoIds, photos[p] # NoPhoto
               PROVE  Kept(p) \in Promised!Slot
    BY DEF Promised!Slotted
  <2>1. photos[p] \in Photo /\ photos[p].sortOrder < MaxPhotos
    BY DEF IInv, TypeOK, Placed
  <2>2. photos[p].sortOrder \in 0..(MaxPhotos - 1)
    BY <2>1, PhotoBounds DEF Photo
  <2> QED BY <2>1, <2>2 DEF Photo, Promised!Slot, Promised!Places
<1>2. IInv /\ Placed => Promised!Init
  <2> SUFFICES ASSUME IInv, Placed, NEW r \in ReviewIds,
                      NEW p \in Promised!Shown(r), NEW o \in Promised!Shown(r),
                      slot[p].place = slot[o].place
               PROVE  p = o
    BY <1>1 DEF Promised!Init
  <2>1. /\ p \in PhotoIds /\ Live(p) /\ photos[p].review = r
        /\ o \in PhotoIds /\ Live(o) /\ photos[o].review = r
    BY DEF Promised!Shown, Live
  <2>2. photos[p].sortOrder = photos[o].sortOrder
    BY <2>1 DEF Live
  <2> QED BY <2>1, <2>2 DEF IInv, PlacesOK
<1>3. ASSUME NEW r \in ReviewIds, NEW S \in SUBSET PhotoIds, Shows(r, S) PROVE Promised!Fill(r)
  <2>1. /\ Photos' = Photos \cup S /\ Photos \cap S = {}
        /\ \A p \in Photos : photos'[p] = photos[p]
    BY <1>3, PhotoNulls DEF Shows
  <2>2. DOMAIN slot' = Photos' /\ DOMAIN slot = Photos
    OBVIOUS
  <2>3. \A p \in Photos : slot'[p] = slot[p]
    BY <2>1
  <2>4. ASSUME NEW p \in S
        PROVE  /\ slot'[p].review = r /\ slot'[p].shown
               /\ slot'[p].place = photos'[p].sortOrder
    BY <1>3, <2>1 DEF Shows
  <2>5. ASSUME NEW p \in S PROVE photos'[p].sortOrder \notin Promised!Taken(r)
    <3> SUFFICES ASSUME NEW o \in Promised!Shown(r), slot[o].place = photos'[p].sortOrder
                 PROVE  FALSE
      BY DEF Promised!Taken
    <3>1. o \in PhotoIds /\ Live(o) /\ photos[o].review = r
      BY DEF Promised!Shown, Live
    <3>2. photos[o].sortOrder = photos'[p].sortOrder
      BY <3>1 DEF Live
    <3> QED BY <1>3, <3>1, <3>2 DEF Shows
  <2>6. \A p, o \in S : photos'[o].sortOrder = photos'[p].sortOrder => o = p
    BY <1>3 DEF Shows
  <2> HIDE DEF slot, Kept
  <2> QED BY <2>1, <2>2, <2>3, <2>4, <2>5, <2>6 DEF Promised!Fill, slot, Kept
<1>4. ASSUME NEW r \in ReviewIds, NEW S \in SUBSET PhotoIds, Hides(r, S) PROVE Promised!Empty(r)
  <2>0. ASSUME NEW p \in S
        PROVE  /\ p \in Photos /\ p \in Photos' /\ photos[p].review = r
               /\ photos'[p].review = photos[p].review
               /\ photos'[p].sortOrder = photos[p].sortOrder
               /\ photos'[p].deleted /\ photos[p].deleted \in BOOLEAN
    <3>1. photos[p] \in Photo /\ photos'[p] = [photos[p] EXCEPT !.deleted = TRUE]
      BY <1>4 DEF Hides
    <3>2. photos'[p] \in Photo
      BY <3>1 DEF Photo
    <3>3. photos[p] # NoPhoto /\ photos'[p] # NoPhoto
      BY <3>1, <3>2, PhotoNulls
    <3> QED BY <1>4, <3>1, <3>3 DEF Hides, Photo
  <2>1. Photos' = Photos /\ \A p \in Photos \ S : photos'[p] = photos[p]
    BY <1>4, <2>0 DEF Hides
  <2>3. ASSUME NEW p \in Photos, slot'[p] # slot[p]
        PROVE  /\ p \in Promised!Shown(r)
               /\ slot'[p] = [review |-> r, place |-> slot[p].place, shown |-> FALSE]
    <3>1. p \in S
      BY <2>1, <2>3
    <3>2. slot'[p] = [review |-> photos[p].review, place |-> photos[p].sortOrder, shown |-> FALSE]
      BY <2>0, <2>1, <3>1
    <3>3. slot[p] = [review |-> photos[p].review, place |-> photos[p].sortOrder,
                     shown |-> ~photos[p].deleted]
      OBVIOUS
    <3>4. ~photos[p].deleted
      BY <2>0, <2>3, <3>1, <3>2, <3>3
    <3>5. p \in Promised!Shown(r)
      BY <2>0, <3>1, <3>4 DEF Promised!Shown
    <3>6. slot'[p] = [review |-> r, place |-> slot[p].place, shown |-> FALSE]
      BY <2>0, <3>1, <3>2, <3>3
    <3> QED BY <3>5, <3>6
  <2> QED BY <2>1, <2>3 DEF Promised!Empty
<1>5. IInv /\ Promised!Slotted' /\ [Next]_vars => [Promised!Next]_slot
  <2> SUFFICES ASSUME IInv, Promised!Slotted', [Next]_vars
               PROVE  Promised!Next \/ UNCHANGED slot
    OBVIOUS
  <2>1. CASE UNCHANGED photos
    BY <2>1
  <2> QED BY <1>3, <1>4, <2>1, PhotosStep DEF Promised!Next
<1>6. IInv' /\ Placed' => Promised!Slotted'
  BY <1>1, PTL
<1> QED BY <1>2, <1>5, <1>6, Invariant, PlacedInvariant, PTL
        DEF Spec, FillsFreePlaces, Promised!Spec

-----------------------------------------------------------------------------
(* Calls that do not overlap.                                               *)

CountsOK == PhotoCountExact /\ StatsExact /\ DeletedReviewHasNoPhotos

\* A request that runs alone has the review as it is: what it counted, found or
\* inserted is what there is, and the columns it writes are those that change.
Exact(q) ==
    LET r == call[q].r IN
    /\ ent[q] = reviews[r] /\ ~ent[q].deleted
    /\ call[q].op = "upload" =>
          /\ pc[q] \in {"store", "photos", "commit"} => existing[q] = Cardinality(LivePhotos(r))
          /\ IsFiniteSet(HeldRows(q)) /\ Cardinality(HeldRows(q)) = next[q]
          /\ pc[q] = "commit" => next[q] = stored[q]
    /\ call[q].op = "removePhoto" /\ pc[q] \in {"photos", "commit"} =>
          targets[q] = {call[q].p} /\ call[q].p \in LivePhotos(r)
    /\ call[q].op = "removePhoto" /\ pc[q] = "commit" => HeldRows(q) = targets[q]
    /\ call[q].op = "removeReview" /\ pc[q] = "photos" => targets[q] = PhotosOf(r)
    /\ pc[q] = "commit" => cols[q] = Differing(reviews[r], Saved(q))

\* Of a behaviour whose calls never overlap.
AloneOK ==
    /\ CountsOK
    /\ \A q, o \in InFlight : q = o
    /\ \A q \in InFlight : Exact(q)

\* While the tables stay, it is enough that the request that steps is exact.
LEMMA AloneLocal ==
    ASSUME AloneOK, NEW q \in InFlight, UNCHANGED tables, Frame(q),
           pc'[q] \in Answers \/ Exact(q)'
    PROVE  AloneOK'
<1>1. CountsOK'
  BY DEF AloneOK, CountsOK, PhotoCountExact, StatsExact, DeletedReviewHasNoPhotos,
         LivePhotos, tables
<1>2. InFlight' \subseteq {q}
  BY DEF AloneOK, InFlight, Frame
<1>3. \A o \in InFlight' : Exact(o)'
  BY <1>2 DEF InFlight
<1> QED BY <1>1, <1>2, <1>3 DEF AloneOK

\* After the last request has answered, only the counts matter.
LEMMA AloneAnswer ==
    ASSUME IInv, AloneOK, NEW q \in InFlight, NEW answer \in {"done", "conflict"},
           Answer(q, answer), CountsOK'
    PROVE  AloneOK'
<1>1. Frame(q) /\ pc'[q] = answer
  BY AnswerLocal DEF InFlight, Answer, IInv, TypeOK
<1>2. InFlight' = {}
  BY <1>1 DEF AloneOK, InFlight, Frame, Answers
<1> QED BY <1>2 DEF AloneOK

\* A refusal, a conflict, a rollback: the tables stay.
LEMMA AloneRefused ==
    ASSUME IInv, AloneOK, NEW q \in InFlight, NEW answer \in {"done", "conflict"},
           Answer(q, answer), UNCHANGED tables
    PROVE  AloneOK'
<1>1. CountsOK'
  BY DEF AloneOK, CountsOK, PhotoCountExact, StatsExact, DeletedReviewHasNoPhotos,
         LivePhotos, tables
<1> QED BY <1>1, AloneAnswer

\* The first call is exact from its start.
LEMMA AloneStart ==
    ASSUME IInv, AloneOK, InFlight = {}, NEW q \in Requests, NEW c \in Call,
           NEW first \in {"count", "find", "snapshot"}, Start(q, c, first),
           first = "count" <=> c.op = "upload",
           first = "find" <=> c.op = "removePhoto"
    PROVE  AloneOK'
<1>1. TypeOK /\ c.r \in ReviewIds
  BY CallFields DEF IInv
<1>2. Frame(q) /\ UNCHANGED tables
  BY <1>1 DEF Start, Frame, TypeOK
<1>3. /\ pc'[q] = first /\ call'[q] = c /\ ent'[q] = reviews[c.r]
      /\ held'[q] = held[q] /\ next'[q] = next[q]
      /\ pc[q] = "idle" /\ ~reviews[c.r].deleted
  BY <1>1 DEF Start, TypeOK
<1>4. held'[q] = {} /\ next'[q] = 0
  BY <1>3 DEF IInv, RequestOK, CallOK, Answers
<1>5. HeldRows(q)' = {}
  BY <1>4 DEF HeldRows
<1>6. IsFiniteSet(HeldRows(q)') /\ Cardinality(HeldRows(q)') = 0
  BY <1>5, FS_EmptySet
<1>7. Exact(q)'
  BY <1>2, <1>3, <1>4, <1>6 DEF Exact, tables
<1>8. CountsOK'
  BY <1>2 DEF AloneOK, CountsOK, PhotoCountExact, StatsExact, DeletedReviewHasNoPhotos,
         LivePhotos, tables
<1>9. InFlight' \subseteq {q}
  BY <1>2 DEF InFlight, Frame
<1> QED BY <1>7, <1>8, <1>9 DEF AloneOK

\* A written review keeps the counts exact when its photoCount is the number of
\* its photos and the aggregate row is corrected.
LEMMA CountsWritten ==
    ASSUME IInv, AloneOK, NEW r \in ReviewIds,
           DifferAt(reviews, reviews', r), StatsExact',
           ~reviews'[r].deleted => reviews'[r].photoCount = Cardinality(LivePhotos(r)'),
           reviews'[r].deleted => LivePhotos(r)' = {},
           \A t \in ReviewIds \ {r} : LivePhotos(t)' = LivePhotos(t)
    PROVE  CountsOK'
<1>1. \A t \in ReviewIds \ {r} : reviews'[t] = reviews[t]
  BY DEF DifferAt, IInv, TypeOK
<1>2. PhotoCountExact'
  BY <1>1 DEF AloneOK, CountsOK, PhotoCountExact
<1>3. DeletedReviewHasNoPhotos'
  BY <1>1 DEF AloneOK, CountsOK, DeletedReviewHasNoPhotos
<1> QED BY <1>2, <1>3 DEF CountsOK

\* The rows of other bars than that of the written review stay right.
LEMMA OtherBars ==
    ASSUME IInv, AloneOK, NEW r \in ReviewIds, DifferAt(reviews, reviews', r),
           reviews'[r].bar = reviews[r].bar, NEW bar \in Bars, bar # reviews[r].bar
    PROVE  Recalculate(reviews', bar) = stats[bar]
<1>1. ~Counts(reviews[r], bar) /\ ~Counts(reviews'[r], bar)
  BY DEF Counts
<1>2. Recalculate(reviews', bar) = Recalculate(reviews, bar)
  BY <1>1, RecalculateSame
<1> QED BY <1>2 DEF AloneOK, CountsOK, StatsExact

\* The decrement of a review that is deleted or reported.
LEMMA DropExact ==
    ASSUME IInv, AloneOK, NEW r \in ReviewIds, DifferAt(reviews, reviews', r),
           ~reviews[r].deleted, reviews'[r].bar = reviews[r].bar,
           reviews'[r].deleted \/ reviews'[r].status # "PUBLISHED",
           IF reviews[r].status = "PUBLISHED"
           THEN SetStats(reviews[r].bar, DecrementStats(stats[reviews[r].bar], reviews[r].rating,
                                                        reviews[r].photoCount > 0))
           ELSE UNCHANGED stats
    PROVE  StatsExact'
<1> DEFINE b == reviews[r].bar
<1>1. reviews[r] \in Review /\ b \in Bars /\ reviews[r].rating \in Ratings /\ reviews[r] # NoRow
  BY PhotoNulls DEF IInv, TypeOK, Review
<1>2. stats \in [Bars -> StatsRow] /\ stats[b] = Recalculate(reviews, b)
  BY <1>1 DEF IInv, TypeOK, AloneOK, CountsOK, StatsExact
<1>3. ASSUME NEW bar \in Bars, bar # b PROVE stats'[bar] = Recalculate(reviews', bar)
  <2>1. stats'[bar] = stats[bar]
    BY <1>2, <1>3 DEF SetStats
  <2> QED BY <2>1, <1>3, OtherBars
<1>4. ~Counts(reviews'[r], b)
  BY DEF Counts
<1>5. stats'[b] = Recalculate(reviews', b)
  <2>1. CASE reviews[r].status = "PUBLISHED"
    <3>1. Counts(reviews[r], b)
      BY <1>1, <2>1 DEF Counts
    <3>2. stats'[b] = DecrementStats(stats[b], reviews[r].rating, reviews[r].photoCount > 0)
      BY <1>1, <1>2, <2>1 DEF SetStats
    <3>3. Recalculate(reviews', b) = DecrementStats(Recalculate(reviews, b), reviews[r].rating,
                                                    reviews[r].photoCount > 0)
      BY <1>1, <1>4, <3>1, RecalculateDrop
    <3> QED BY <1>2, <3>2, <3>3
  <2>2. CASE reviews[r].status # "PUBLISHED"
    <3>1. ~Counts(reviews[r], b)
      BY <2>2 DEF Counts
    <3>2. Recalculate(reviews', b) = Recalculate(reviews, b)
      BY <1>4, <3>1, RecalculateSame
    <3> QED BY <1>2, <2>2, <3>2
  <2> QED BY <2>1, <2>2
<1> QED BY <1>3, <1>5 DEF StatsExact

\* RecalculatePhotos, of the table reviews.
LEMMA ReviewPhotosCorrected ==
    ASSUME NEW r, DifferAt(reviews, reviews', r), NEW bar,
           Counts(reviews[r], bar), Counts(reviews'[r], bar),
           reviews[r].rating \in Ratings, reviews'[r].rating = reviews[r].rating
    PROVE  /\ ((reviews[r].photoCount > 0) <=> (reviews'[r].photoCount > 0)) =>
                 Recalculate(reviews', bar) = Recalculate(reviews, bar)
           /\ ~(reviews[r].photoCount > 0) /\ reviews'[r].photoCount > 0 =>
                 Recalculate(reviews', bar)
                   = AdjustPhotoReviewCount(Recalculate(reviews, bar), 1)
           /\ reviews[r].photoCount > 0 /\ ~(reviews'[r].photoCount > 0) =>
                 Recalculate(reviews', bar)
                   = AdjustPhotoReviewCount(Recalculate(reviews, bar), -1)
  BY RecalculatePhotos

\* The correction of photoReviewCount, when the first photo of a published review
\* appears or the last one disappears.
LEMMA PhotosExact ==
    ASSUME IInv, AloneOK, NEW r \in ReviewIds, DifferAt(reviews, reviews', r),
           NEW n \in Nat, NEW row \in Review, reviews'[r] = row,
           row = [reviews[r] EXCEPT !.photoCount = n], ~reviews[r].deleted,
           IF reviews[r].status = "PUBLISHED" /\ (reviews[r].photoCount > 0 <=> ~(n > 0))
           THEN SetStats(reviews[r].bar, AdjustPhotoReviewCount(stats[reviews[r].bar],
                                                                IF n > 0 THEN 1 ELSE -1))
           ELSE UNCHANGED stats
    PROVE  StatsExact'
<1> DEFINE b == reviews[r].bar
<1>1. reviews[r] \in Review /\ b \in Bars /\ reviews[r].rating \in Ratings /\ reviews[r] # NoRow
  BY PhotoNulls DEF IInv, TypeOK, Review
<1>2. stats \in [Bars -> StatsRow] /\ stats[b] = Recalculate(reviews, b)
  BY <1>1 DEF IInv, TypeOK, AloneOK, CountsOK, StatsExact
<1>3. /\ reviews'[r].bar = b /\ reviews'[r].rating = reviews[r].rating
      /\ reviews'[r].status = reviews[r].status /\ reviews'[r].deleted = reviews[r].deleted
      /\ reviews'[r].photoCount = n /\ reviews'[r] \in Review /\ reviews'[r] # NoRow
  BY <1>1, PhotoNulls DEF Review
<1>4. ASSUME NEW bar \in Bars, bar # b PROVE stats'[bar] = Recalculate(reviews', bar)
  <2>1. stats'[bar] = stats[bar]
    BY <1>2, <1>4 DEF SetStats
  <2> QED BY <1>3, <2>1, <1>4, OtherBars
<1>5. stats'[b] = Recalculate(reviews', b)
  <2>1. CASE reviews[r].status = "PUBLISHED"
    <3>1. Counts(reviews[r], b) /\ Counts(reviews'[r], b)
      BY <1>1, <1>3, <2>1 DEF Counts
    <3>2. /\ ((reviews[r].photoCount > 0) <=> (n > 0)) =>
                 Recalculate(reviews', b) = Recalculate(reviews, b)
          /\ ~(reviews[r].photoCount > 0) /\ n > 0 =>
                 Recalculate(reviews', b) = AdjustPhotoReviewCount(Recalculate(reviews, b), 1)
          /\ reviews[r].photoCount > 0 /\ ~(n > 0) =>
                 Recalculate(reviews', b) = AdjustPhotoReviewCount(Recalculate(reviews, b), -1)
      <4>1. /\ ((reviews[r].photoCount > 0) <=> (reviews'[r].photoCount > 0)) =>
                   Recalculate(reviews', b) = Recalculate(reviews, b)
            /\ ~(reviews[r].photoCount > 0) /\ reviews'[r].photoCount > 0 =>
                   Recalculate(reviews', b) = AdjustPhotoReviewCount(Recalculate(reviews, b), 1)
            /\ reviews[r].photoCount > 0 /\ ~(reviews'[r].photoCount > 0) =>
                   Recalculate(reviews', b) = AdjustPhotoReviewCount(Recalculate(reviews, b), -1)
        BY <1>1, <1>3, <3>1, ReviewPhotosCorrected
      <4> HIDE DEF b
      <4> QED BY <1>3, <4>1
    <3>3. CASE (reviews[r].photoCount > 0) <=> (n > 0)
      <4>1. UNCHANGED stats
        BY <3>3
      <4> QED BY <1>2, <3>2, <3>3, <4>1
    <3>4. CASE ~(reviews[r].photoCount > 0) /\ n > 0
      <4>1. stats'[b] = AdjustPhotoReviewCount(stats[b], 1)
        BY <1>1, <1>2, <2>1, <3>4 DEF SetStats
      <4> QED BY <1>2, <3>2, <3>4, <4>1
    <3>5. CASE reviews[r].photoCount > 0 /\ ~(n > 0)
      <4>1. stats'[b] = AdjustPhotoReviewCount(stats[b], -1)
        BY <1>1, <1>2, <2>1, <3>5 DEF SetStats
      <4> QED BY <1>2, <3>2, <3>5, <4>1
    <3> QED BY <3>3, <3>4, <3>5
  <2>2. CASE reviews[r].status # "PUBLISHED"
    <3>1. ~Counts(reviews[r], b) /\ ~Counts(reviews'[r], b)
      BY <1>3, <2>2 DEF Counts
    <3>2. Recalculate(reviews', b) = Recalculate(reviews, b)
      BY <3>1, RecalculateSame
    <3> QED BY <1>2, <2>2, <3>2
  <2> QED BY <2>1, <2>2
<1> QED BY <1>4, <1>5 DEF StatsExact

\* A report of a review takes it out of the aggregate, within one step.
LEMMA AloneReport ==
    ASSUME IInv, AloneOK, InFlight = {}, NEW q \in Requests, Report(q)
    PROVE  AloneOK'
<1>0. TypeOK
  BY DEF IInv
<1>1. PICK r \in ReviewIds :
        /\ ~reviews[r].deleted /\ reviews[r].status = "PUBLISHED"
        /\ reviews' = [reviews EXCEPT ![r].status = "REPORTED"]
        /\ SetStats(reviews[r].bar, DecrementStats(stats[reviews[r].bar], reviews[r].rating,
                                                   reviews[r].photoCount > 0))
        /\ pc' = [pc EXCEPT ![q] = "done"]
        /\ UNCHANGED photos
  BY DEF Report
<1>2. DifferAt(reviews, reviews', r) /\ reviews[r] \in Review
  BY <1>0, <1>1, FiniteTables DEF DifferAt, TypeOK
<1>3. /\ reviews'[r].bar = reviews[r].bar /\ reviews'[r].status = "REPORTED"
      /\ ~reviews'[r].deleted /\ reviews'[r].photoCount = reviews[r].photoCount
  BY <1>0, <1>1, <1>2 DEF TypeOK, Review
<1>4. \A t \in ReviewIds : LivePhotos(t)' = LivePhotos(t)
  BY <1>1 DEF LivePhotos
<1>5. reviews[r].photoCount = Cardinality(LivePhotos(r))
  BY <1>1 DEF AloneOK, CountsOK, PhotoCountExact
<1>6. StatsExact'
  <2>1. IF reviews[r].status = "PUBLISHED"
        THEN SetStats(reviews[r].bar, DecrementStats(stats[reviews[r].bar], reviews[r].rating,
                                                     reviews[r].photoCount > 0))
        ELSE UNCHANGED stats
    BY <1>1
  <2>2. ~reviews[r].deleted /\ reviews'[r].status # "PUBLISHED"
    BY <1>1, <1>3
  <2> QED BY <1>2, <1>3, <2>1, <2>2, DropExact
<1>7. CountsOK'
  BY <1>2, <1>3, <1>4, <1>5, <1>6, CountsWritten
<1>8. InFlight' = {}
  BY <1>0, <1>1 DEF InFlight, Answers, TypeOK
<1> QED BY <1>7, <1>8 DEF AloneOK

\* The first call of a quiet system is exact.
LEMMA AloneBegin ==
    ASSUME IInv, AloneOK, InFlight = {}, NEW q \in Requests, Begin(q)
    PROVE  AloneOK'
<1>0. TypeOK
  BY DEF IInv
<1>1. CASE StartUpload(q)
  <2>1. PICK r \in ReviewIds, n \in FileCounts :
          Start(q, [op |-> "upload", r |-> r, files |-> n], "count")
    BY <1>1 DEF StartUpload
  <2>2. [op |-> "upload", r |-> r, files |-> n] \in Call
    BY DEF Call
  <2> QED BY <2>1, <2>2, AloneStart
<1>2. CASE StartRemovePhoto(q)
  <2>1. PICK p \in PhotoIds :
          /\ photos[p] # NoPhoto
          /\ Start(q, [op |-> "removePhoto", r |-> photos[p].review, p |-> p], "find")
    BY <1>2 DEF StartRemovePhoto
  <2>2. photos[p].review \in ReviewIds
    BY <1>0, <2>1 DEF TypeOK, Photo
  <2>3. [op |-> "removePhoto", r |-> photos[p].review, p |-> p] \in Call
    BY <2>2 DEF Call
  <2> QED BY <2>1, <2>3, AloneStart
<1>3. CASE StartRemoveReview(q)
  <2>1. PICK r \in ReviewIds : Start(q, [op |-> "removeReview", r |-> r], "snapshot")
    BY <1>3 DEF StartRemoveReview
  <2>2. [op |-> "removeReview", r |-> r] \in Call
    BY DEF Call
  <2> QED BY <2>1, <2>2, AloneStart
<1>4. CASE Report(q)
  BY <1>4, AloneReport
<1> QED BY <1>1, <1>2, <1>3, <1>4 DEF Begin

\* Counting, storing, looking up and the SELECTs of an exact request.
LEMMA AloneStatement ==
    ASSUME IInv, AloneOK, NEW q \in InFlight,
           \/ CountPhotos(q) \/ StoreFiles(q) \/ FindPhoto(q) \/ UpdatePhotos(q)
           \/ SaveSelect(q) \/ DeadlockAbort(q)
    PROVE  AloneOK'
<1>0. /\ TypeOK /\ q \in Requests /\ pc[q] \notin Answers /\ CallOK(q) /\ Exact(q)
      /\ call[q].op \in {"upload", "removePhoto", "removeReview"}
  BY Running, CallFields DEF IInv, RequestOK, InFlight, AloneOK
<1>1. CASE CountPhotos(q)
  <2> DEFINE count == Cardinality(LivePhotos(call[q].r))
  <2>0. pc[q] = "count" /\ call[q].op = "upload"
    BY <1>0, <1>1 DEF CountPhotos, CallOK
  <2>1. CASE Fits(count, call[q].files)
    <3>1. /\ existing' = [existing EXCEPT ![q] = count]
          /\ pc' = [pc EXCEPT ![q] = "store"]
          /\ UNCHANGED <<tables, call, ent, stored, next, targets, held, cols>>
      BY <1>1, <2>1 DEF CountPhotos
    <3>2. Frame(q) /\ pc'[q] = "store" /\ existing'[q] = count
      BY <1>0, <3>1 DEF TypeOK, Frame
    <3>3. Exact(q)'
      BY <1>0, <2>0, <3>1, <3>2 DEF Exact, tables, LivePhotos, HeldRows
    <3> QED BY <3>1, <3>2, <3>3, AloneLocal
  <2>2. CASE ~Fits(count, call[q].files)
    BY <1>0, <1>1, <2>2, AloneRefused DEF CountPhotos
  <2> QED BY <2>1, <2>2
<1>2. CASE StoreFiles(q)
  <2>0. pc[q] = "store" /\ call[q].op = "upload"
    BY <1>0, <1>2 DEF StoreFiles, CallOK
  <2>1. PICK n \in 0..call[q].files :
          IF n > 0
          THEN /\ stored' = [stored EXCEPT ![q] = n]
               /\ pc' = [pc EXCEPT ![q] = "photos"]
               /\ UNCHANGED <<tables, call, ent, existing, next, targets, held, cols>>
          ELSE Answer(q, "done") /\ UNCHANGED tables
    BY <1>2 DEF StoreFiles
  <2>2. CASE n > 0
    <3>1. /\ stored' = [stored EXCEPT ![q] = n]
          /\ pc' = [pc EXCEPT ![q] = "photos"]
          /\ UNCHANGED <<tables, call, ent, existing, next, targets, held, cols>>
      BY <2>1, <2>2
    <3>2. Frame(q) /\ pc'[q] = "photos"
      BY <1>0, <3>1 DEF TypeOK, Frame
    <3>3. Exact(q)'
      BY <1>0, <2>0, <3>1, <3>2 DEF Exact, tables, LivePhotos, HeldRows
    <3> QED BY <3>1, <3>2, <3>3, AloneLocal
  <2>3. CASE ~(n > 0)
    BY <1>0, <2>1, <2>3, AloneRefused
  <2> QED BY <2>2, <2>3
<1>3. CASE FindPhoto(q)
  <2>0. pc[q] = "find" /\ call[q].op = "removePhoto"
    BY <1>0, <1>3 DEF FindPhoto, CallOK
  <2>1. CASE call[q].p \in LivePhotos(call[q].r)
    <3>1. /\ targets' = [targets EXCEPT ![q] = {call[q].p}]
          /\ pc' = [pc EXCEPT ![q] = "photos"]
          /\ UNCHANGED <<tables, call, ent, existing, stored, next, held, cols>>
      BY <1>3, <2>1 DEF FindPhoto
    <3>2. Frame(q) /\ pc'[q] = "photos" /\ targets'[q] = {call[q].p}
      BY <1>0, <3>1 DEF TypeOK, Frame
    <3>3. Exact(q)'
      BY <1>0, <2>0, <2>1, <3>1, <3>2 DEF Exact, tables, LivePhotos, HeldRows
    <3> QED BY <3>1, <3>2, <3>3, AloneLocal
  <2>2. CASE call[q].p \notin LivePhotos(call[q].r)
    BY <1>0, <1>3, <2>2, AloneRefused DEF FindPhoto
  <2> QED BY <2>1, <2>2
<1>4. CASE UpdatePhotos(q)
  <2>1. /\ pc[q] = "snapshot" /\ call[q].op = "removeReview"
        /\ targets' = [targets EXCEPT ![q] = PhotosOf(call[q].r)]
        /\ pc' = [pc EXCEPT ![q] = "photos"]
        /\ UNCHANGED <<tables, call, ent, existing, stored, next, held, cols>>
    BY <1>0, <1>4 DEF UpdatePhotos, CallOK
  <2>2. Frame(q) /\ pc'[q] = "photos" /\ targets'[q] = PhotosOf(call[q].r)
    BY <1>0, <2>1 DEF TypeOK, Frame
  <2>3. Exact(q)'
    BY <1>0, <2>1, <2>2 DEF Exact, tables, PhotosOf
  <2> QED BY <2>1, <2>2, <2>3, AloneLocal
<1>5. CASE SaveSelect(q)
  <2>1. /\ pc[q] = "photos" /\ call[q].op # "removeReview"
        /\ IF call[q].op = "upload" THEN next[q] = stored[q] ELSE targets[q] = HeldRows(q)
        /\ cols' = [cols EXCEPT ![q] = Differing(reviews[call[q].r], Saved(q))]
        /\ pc' = [pc EXCEPT ![q] = "commit"]
        /\ UNCHANGED <<tables, call, ent, existing, stored, next, targets, held>>
    BY <1>5 DEF SaveSelect, PhotosWritten
  <2>2. /\ Frame(q) /\ pc'[q] = "commit"
        /\ cols'[q] = Differing(reviews[call[q].r], Saved(q))
    BY <1>0, <2>1 DEF TypeOK, Frame
  <2>3. UNCHANGED Saved(q) /\ UNCHANGED HeldRows(q) /\ UNCHANGED LivePhotos(call[q].r)
    BY <2>1 DEF Saved, HeldRows, LivePhotos, tables
  <2>4. Exact(q)'
    BY <1>0, <2>1, <2>2, <2>3 DEF Exact, tables
  <2> QED BY <2>1, <2>2, <2>4, AloneLocal
<1>6. CASE DeadlockAbort(q)
  BY <1>0, <1>6, AloneRefused DEF DeadlockAbort
<1> QED BY <1>1, <1>2, <1>3, <1>4, <1>5, <1>6

\* A row written, deleted or inserted: an upload counts it.
LEMMA AloneRow ==
    ASSUME IInv, AloneOK, NEW q \in InFlight, DeletePhoto(q) \/ InsertPhoto(q)
    PROVE  AloneOK'
<1>0. TypeOK /\ q \in Requests /\ pc[q] \notin Answers /\ Exact(q)
  BY DEF IInv, InFlight, AloneOK
<1>1. CASE DeletePhoto(q)
  <2>1. /\ pc[q] = "photos" /\ call[q].op # "upload"
        /\ UNCHANGED <<tables, pc, call, ent, existing, stored, next, targets, cols>>
    BY <1>1 DEF DeletePhoto
  <2>2. Frame(q)
    BY <1>0, <1>1 DEF DeletePhoto, TypeOK, Frame
  <2>3. Exact(q)'
    BY <1>0, <2>1 DEF Exact, tables, PhotosOf, LivePhotos
  <2> QED BY <2>1, <2>2, <2>3, AloneLocal
<1>2. CASE InsertPhoto(q)
  <2> DEFINE place == existing[q] + next[q]
  <2>0. pc[q] = "photos" /\ call[q].op = "upload"
    BY <1>2 DEF InsertPhoto
  <2>1. CASE place \in TakenPlaces(call[q].r)
    BY <1>0, <1>2, <2>1, AloneRefused DEF InsertPhoto
  <2>2. CASE place \notin TakenPlaces(call[q].r)
    <3>1. PICK p \in PhotoIds :
            /\ IsNextId(p)
            /\ held' = [held EXCEPT ![q] = @ \cup {<<p, place>>}]
            /\ next' = [next EXCEPT ![q] = @ + 1]
            /\ UNCHANGED <<tables, pc, call, ent, existing, stored, targets, cols>>
      BY <1>2, <2>2 DEF InsertPhoto
    <3>2. /\ Frame(q) /\ held'[q] = held[q] \cup {<<p, place>>} /\ next'[q] = next[q] + 1
      BY <1>0, <3>1 DEF TypeOK, Frame
    <3>3. p \notin HeldRows(q)
      BY <1>0, <3>1 DEF IsNextId, FreeIds
    <3>4. HeldRows(q)' = HeldRows(q) \cup {p}
      <4>1. \A h \in held[q] \cup {<<p, place>>} : h \in held[q] \/ h[1] = p
        OBVIOUS
      <4>2. <<p, place>>[1] = p
        OBVIOUS
      <4> QED BY <3>2, <4>1, <4>2 DEF HeldRows
    <3>5. IsFiniteSet(HeldRows(q)') /\ Cardinality(HeldRows(q)') = next'[q]
      BY <1>0, <2>0, <3>2, <3>3, <3>4, FS_AddElement DEF Exact
    <3>6. UNCHANGED LivePhotos(call[q].r)
      BY <3>1 DEF LivePhotos, tables
    <3>7. Exact(q)'
      BY <1>0, <2>0, <3>1, <3>5, <3>6 DEF Exact, tables
    <3> QED BY <3>1, <3>2, <3>7, AloneLocal
  <2> QED BY <2>1, <2>2
<1> QED BY <1>1, <1>2

\* A save of an exact request writes the review with its new photoCount.
LEMMA SavedWhole ==
    ASSUME IInv, AloneOK, NEW q \in InFlight, pc[q] = "commit", SaveReview(q),
           NEW r \in ReviewIds, r = call[q].r
    PROVE  /\ DifferAt(reviews, reviews', r) /\ reviews'[r] = Saved(q)
           /\ Saved(q) = [reviews[r] EXCEPT !.photoCount = Saved(q).photoCount]
           /\ Saved(q).photoCount \in Nat
<1>0. /\ TypeOK /\ q \in Requests /\ pc[q] \notin Answers
      /\ ent[q] = reviews[r] /\ cols[q] = Differing(reviews[r], Saved(q))
  BY DEF IInv, InFlight, AloneOK, Exact
<1>1. DifferAt(reviews, reviews', r) /\ reviews'[r] = Patched(reviews[r], Saved(q), cols[q])
  BY <1>0, FiniteTables DEF SaveReview, DifferAt, TypeOK
<1>2. PICK n : Saved(q) = [reviews[r] EXCEPT !.photoCount = n]
  BY <1>0 DEF Saved
<1>3. reviews[r] \in Review /\ Saved(q) \in Review
  BY <1>0, SavedTyped DEF TypeOK
<1>4. Saved(q).photoCount = n /\ n \in Nat
  BY <1>2, <1>3 DEF Review
<1>5. /\ Saved(q).status = reviews[r].status /\ Saved(q).deleted = reviews[r].deleted
      /\ reviews[r].photoCount # n => "photoCount" \in Differing(reviews[r], Saved(q))
  BY <1>2, <1>3, <1>4 DEF Differing, Review
<1>6. Patched(reviews[r], Saved(q), Differing(reviews[r], Saved(q)))
        = [reviews[r] EXCEPT !.photoCount = n]
  <2> DEFINE row == reviews[r]
             cs == Differing(row, Saved(q))
  <2>1. /\ (IF "status" \in cs THEN Saved(q).status ELSE row.status) = row.status
        /\ (IF "photoCount" \in cs THEN Saved(q).photoCount ELSE row.photoCount) = n
        /\ (IF "deleted" \in cs THEN Saved(q).deleted ELSE row.deleted) = row.deleted
    BY <1>4, <1>5
  <2>2. Patched(row, Saved(q), cs)
          = [row EXCEPT !.status     = IF "status" \in cs THEN Saved(q).status ELSE @,
                        !.photoCount = IF "photoCount" \in cs THEN Saved(q).photoCount ELSE @,
                        !.deleted    = IF "deleted" \in cs THEN Saved(q).deleted ELSE @]
    BY DEF Patched
  <2> HIDE DEF cs
  <2>3. Patched(row, Saved(q), cs)
          = [row EXCEPT !.status = row.status, !.photoCount = n, !.deleted = row.deleted]
    BY <1>3, <2>1, <2>2 DEF Review
  <2> QED BY <1>3, <2>3 DEF Review, cs
<1> QED BY <1>0, <1>1, <1>2, <1>4, <1>6

\* The commit of an upload alone: its rows are the new photos.
LEMMA AloneCommitUpload ==
    ASSUME IInv, AloneOK, NEW q \in InFlight, CommitUpload(q)
    PROVE  AloneOK'
<1>0. /\ TypeOK /\ q \in Requests /\ pc[q] = "commit" /\ pc[q] \notin Answers
      /\ call[q].op = "upload" /\ Exact(q) /\ SaveReview(q) /\ Answer(q, "done")
      /\ call[q].r \in ReviewIds
  BY Running DEF IInv, InFlight, AloneOK, CommitUpload
<1>1. PICK r \in ReviewIds : r = call[q].r
  BY <1>0
<1>2. PICK row : row = Saved(q)
  OBVIOUS
<1>3. PICK n : n = row.photoCount
  OBVIOUS
<1>4. /\ DifferAt(reviews, reviews', r) /\ reviews'[r] = row
      /\ row = [reviews[r] EXCEPT !.photoCount = n] /\ n \in Nat
  BY <1>0, <1>1, <1>2, <1>3, SavedWhole
<1>5. reviews[r] \in Review /\ row \in Review /\ ~reviews[r].deleted /\ ent[q] = reviews[r]
  BY <1>0, <1>1, <1>2, SavedTyped DEF TypeOK, Exact
<1>6. n = existing[q] + stored[q] /\ row.bar = reviews[r].bar /\ ~row.deleted
  BY <1>0, <1>2, <1>3, <1>4, <1>5 DEF Saved, Review
<1>7. /\ existing[q] = Cardinality(LivePhotos(r))
      /\ IsFiniteSet(HeldRows(q)) /\ Cardinality(HeldRows(q)) = stored[q]
  BY <1>0, <1>1 DEF Exact
<1>8. /\ LivePhotos(r)' = LivePhotos(r) \cup HeldRows(q)
      /\ LivePhotos(r) \cap HeldRows(q) = {}
      /\ \A t \in ReviewIds \ {r} : LivePhotos(t)' = LivePhotos(t)
  BY <1>0, <1>1, UploadedLive
<1>9. Cardinality(LivePhotos(r)') = n
  <2>1. Cardinality(LivePhotos(r) \cup HeldRows(q))
          = Cardinality(LivePhotos(r)) + Cardinality(HeldRows(q))
    <3>1. /\ IsFiniteSet(LivePhotos(r)) /\ Cardinality(LivePhotos(r)) \in Nat
          /\ Cardinality(HeldRows(q)) \in Nat
      BY <1>7, LivePhotosCounted, FS_CardinalityType
    <3>2. Cardinality(LivePhotos(r) \cap HeldRows(q)) = 0
      BY <1>8, FS_EmptySet
    <3>3. Cardinality(LivePhotos(r) \cup HeldRows(q))
            = Cardinality(LivePhotos(r)) + Cardinality(HeldRows(q))
                 - Cardinality(LivePhotos(r) \cap HeldRows(q))
      BY <1>7, <3>1, FS_Union
    <3> QED BY <3>1, <3>2, <3>3
  <2> QED BY <1>6, <1>7, <1>8, <2>1
<1>10. /\ reviews[r].photoCount = existing[q] /\ existing[q] \in Nat /\ stored[q] \in Nat
  BY <1>0, <1>5, <1>7 DEF AloneOK, CountsOK, PhotoCountExact, TypeOK
<1>11. IF reviews[r].photoCount = 0 /\ n > 0 /\ reviews[r].status = "PUBLISHED"
       THEN SetStats(reviews[r].bar, AdjustPhotoReviewCount(stats[reviews[r].bar], 1))
       ELSE UNCHANGED stats
  BY <1>2, <1>3, <1>5 DEF CommitUpload
<1>12. IF reviews[r].status = "PUBLISHED" /\ (reviews[r].photoCount > 0 <=> ~(n > 0))
       THEN SetStats(reviews[r].bar, AdjustPhotoReviewCount(stats[reviews[r].bar],
                                                            IF n > 0 THEN 1 ELSE -1))
       ELSE UNCHANGED stats
  BY <1>6, <1>10, <1>11
<1>13. StatsExact'
  BY <1>4, <1>5, <1>12, PhotosExact
<1>14. CountsOK'
  <2>1. reviews'[r].photoCount = Cardinality(LivePhotos(r)') /\ ~reviews'[r].deleted
    BY <1>3, <1>4, <1>6, <1>9
  <2> QED BY <1>4, <1>8, <1>13, <2>1, CountsWritten
<1> QED BY <1>0, <1>14, AloneAnswer

\* The commit of the removal of a photo alone: the photo was there.
LEMMA AloneCommitRemovePhoto ==
    ASSUME IInv, AloneOK, NEW q \in InFlight, CommitRemovePhoto(q)
    PROVE  AloneOK'
<1>0. /\ TypeOK /\ q \in Requests /\ pc[q] = "commit" /\ pc[q] \notin Answers
      /\ call[q].op = "removePhoto" /\ Exact(q) /\ SaveReview(q) /\ Answer(q, "done")
      /\ call[q].r \in ReviewIds /\ photos' = SoftDeleted(HeldRows(q))
  BY Running DEF IInv, InFlight, AloneOK, CommitRemovePhoto
<1>1. PICK r \in ReviewIds : r = call[q].r
  BY <1>0
<1>2. PICK row : row = Saved(q)
  OBVIOUS
<1>3. PICK n : n = row.photoCount
  OBVIOUS
<1>4. /\ DifferAt(reviews, reviews', r) /\ reviews'[r] = row
      /\ row = [reviews[r] EXCEPT !.photoCount = n] /\ n \in Nat
  BY <1>0, <1>1, <1>2, <1>3, SavedWhole
<1>5. reviews[r] \in Review /\ row \in Review /\ ~reviews[r].deleted /\ ent[q] = reviews[r]
  BY <1>0, <1>1, <1>2, SavedTyped DEF TypeOK, Exact
<1>6. /\ n = IF reviews[r].photoCount > 0 THEN reviews[r].photoCount - 1 ELSE 0
      /\ row.bar = reviews[r].bar /\ ~row.deleted
  BY <1>0, <1>2, <1>3, <1>4, <1>5 DEF Saved, Review
<1>7. PICK p : HeldRows(q) = {p} /\ p \in LivePhotos(r)
  BY <1>0, <1>1 DEF Exact
<1>8. /\ LivePhotos(r)' = LivePhotos(r) \ {p}
      /\ \A t \in ReviewIds \ {r} : LivePhotos(t)' = LivePhotos(t)
  <2>1. call[q].op # "upload"
    BY <1>0
  <2>2. /\ LivePhotos(r)' = LivePhotos(r) \ HeldRows(q)
        /\ \A t \in ReviewIds \ {r} : LivePhotos(t)' = LivePhotos(t)
    BY <1>0, <1>1, <2>1, DeletedLive
  <2> QED BY <1>7, <2>2
<1>9. /\ Cardinality(LivePhotos(r)') = Cardinality(LivePhotos(r)) - 1
      /\ Cardinality(LivePhotos(r)') \in Nat /\ Cardinality(LivePhotos(r)) \in Nat
  <2>1. IsFiniteSet(LivePhotos(r)) /\ Cardinality(LivePhotos(r)) \in Nat
    BY LivePhotosCounted
  <2>2. Cardinality(LivePhotos(r) \ {p}) = Cardinality(LivePhotos(r)) - 1
    BY <1>7, <2>1, FS_RemoveElement
  <2>3. IsFiniteSet(LivePhotos(r) \ {p})
    BY <2>1, FS_RemoveElement
  <2> QED BY <1>8, <2>1, <2>2, <2>3, FS_CardinalityType
<1>10. reviews[r].photoCount = Cardinality(LivePhotos(r))
  BY <1>5 DEF AloneOK, CountsOK, PhotoCountExact
<1>11. n = Cardinality(LivePhotos(r)') /\ reviews[r].photoCount = n + 1
  BY <1>4, <1>6, <1>9, <1>10
<1>12. IF n = 0 /\ reviews[r].status = "PUBLISHED"
       THEN SetStats(reviews[r].bar, AdjustPhotoReviewCount(stats[reviews[r].bar], -1))
       ELSE UNCHANGED stats
  BY <1>2, <1>3, <1>5 DEF CommitRemovePhoto
<1>13. IF reviews[r].status = "PUBLISHED" /\ (reviews[r].photoCount > 0 <=> ~(n > 0))
       THEN SetStats(reviews[r].bar, AdjustPhotoReviewCount(stats[reviews[r].bar],
                                                            IF n > 0 THEN 1 ELSE -1))
       ELSE UNCHANGED stats
  BY <1>4, <1>11, <1>12
<1>14. StatsExact'
  BY <1>4, <1>5, <1>13, PhotosExact
<1>15. CountsOK'
  <2>1. reviews'[r].photoCount = Cardinality(LivePhotos(r)') /\ ~reviews'[r].deleted
    BY <1>3, <1>4, <1>6, <1>11
  <2> QED BY <1>4, <1>8, <1>14, <2>1, CountsWritten
<1> QED BY <1>0, <1>15, AloneAnswer

\* The commit of the deletion of a review alone: all its photos go with it.
LEMMA AloneCommitRemoveReview ==
    ASSUME IInv, AloneOK, NEW q \in InFlight, CommitRemoveReview(q)
    PROVE  AloneOK'
<1>0. /\ TypeOK /\ q \in Requests /\ pc[q] = "photos" /\ pc[q] \notin Answers
      /\ call[q].op = "removeReview" /\ Exact(q) /\ Answer(q, "done")
      /\ call[q].r \in ReviewIds /\ photos' = SoftDeleted(HeldRows(q))
      /\ targets[q] = HeldRows(q)
  BY Running DEF IInv, InFlight, AloneOK, CommitRemoveReview, PhotosWritten
<1>1. PICK r \in ReviewIds : r = call[q].r
  BY <1>0
<1>2. reviews[r] \in Review /\ ent[q] = reviews[r] /\ ~reviews[r].deleted
  BY <1>0, <1>1 DEF TypeOK, Exact
<1>3. reviews' = [reviews EXCEPT ![r].deleted = TRUE]
  BY <1>1 DEF CommitRemoveReview
<1>4. /\ DifferAt(reviews, reviews', r) /\ reviews'[r].deleted
      /\ reviews'[r].bar = reviews[r].bar
  BY <1>0, <1>2, <1>3, FiniteTables DEF DifferAt, TypeOK, Review
<1>5. HeldRows(q) = PhotosOf(r)
  BY <1>0, <1>1 DEF Exact
<1>6. LivePhotos(r)' = {} /\ \A t \in ReviewIds \ {r} : LivePhotos(t)' = LivePhotos(t)
  <2>1. /\ LivePhotos(r)' = LivePhotos(r) \ HeldRows(q)
        /\ \A t \in ReviewIds \ {r} : LivePhotos(t)' = LivePhotos(t)
    BY <1>0, <1>1, DeletedLive
  <2>2. LivePhotos(r) \subseteq PhotosOf(r)
    BY DEF LivePhotos, PhotosOf
  <2> QED BY <1>5, <2>1, <2>2
<1>7. IF reviews[r].status = "PUBLISHED"
      THEN SetStats(reviews[r].bar, DecrementStats(stats[reviews[r].bar], reviews[r].rating,
                                                   reviews[r].photoCount > 0))
      ELSE UNCHANGED stats
  BY <1>2 DEF CommitRemoveReview
<1>8. StatsExact'
  BY <1>2, <1>4, <1>7, DropExact
<1>9. CountsOK'
  BY <1>4, <1>6, <1>8, CountsWritten
<1> QED BY <1>0, <1>9, AloneAnswer

\* What holds of a behaviour that is watched for overlaps.
Watched == IInv /\ (~overlapped => AloneOK)

\* A step that does not overlap is a step of an exact request, or the first one of
\* a quiet system.
LEMMA WatchedStep ==
    Watched /\ [Next /\ overlapped' = (overlapped \/ Overlaps)]_<<vars, overlapped>> => Watched'
<1> SUFFICES ASSUME Watched, [Next /\ overlapped' = (overlapped \/ Overlaps)]_<<vars, overlapped>>
             PROVE  Watched'
  OBVIOUS
<1>1. IInv'
  BY NextIInv DEF Watched
<1>2. ASSUME ~overlapped' PROVE AloneOK'
  <2>0. ~overlapped /\ (UNCHANGED vars \/ (Next /\ ~Overlaps))
    <3>1. CASE UNCHANGED <<vars, overlapped>>
      BY <1>2, <3>1
    <3>2. CASE Next /\ overlapped' = (overlapped \/ Overlaps)
      BY <1>2, <3>2
    <3> QED BY <3>1, <3>2
  <2>1. AloneOK /\ IInv
    BY <2>0 DEF Watched
  <2>2. CASE UNCHANGED vars
    <3>1. /\ \A r : UNCHANGED LivePhotos(r)
          /\ \A r : UNCHANGED PhotosOf(r)
          /\ \A q : UNCHANGED Saved(q)
          /\ \A q : UNCHANGED HeldRows(q)
      BY <2>2 DEF vars, LivePhotos, PhotosOf, Saved, HeldRows
    <3>2. CountsOK' /\ InFlight' = InFlight
      BY <2>1, <2>2, <3>1 DEF vars, AloneOK, CountsOK, PhotoCountExact, StatsExact,
         DeletedReviewHasNoPhotos, InFlight
    <3>3. ASSUME NEW q \in InFlight PROVE Exact(q)'
      <4>1. Exact(q)
        BY <2>1, <3>3 DEF AloneOK
      <4> QED BY <2>2, <3>1, <4>1 DEF vars, Exact
    <3> QED BY <2>1, <3>2, <3>3 DEF AloneOK
  <2>3. ASSUME NEW q \in Requests, Begin(q), ~Overlaps PROVE AloneOK'
    <3>1. pc[q] = "idle" /\ pc'[q] # "idle"
      BY <2>1, <2>3 DEF IInv, TypeOK, Begin, StartUpload, StartRemovePhoto, StartRemoveReview,
                        Start, Report
    <3>2. InFlight = {}
      BY <2>3, <3>1 DEF Overlaps
    <3> QED BY <2>1, <2>3, <3>2, AloneBegin
  <2>4. ASSUME NEW q \in Requests, Advance(q) PROVE AloneOK'
    <3>1. q \in InFlight
      BY <2>4 DEF Advance, CountPhotos, StoreFiles, FindPhoto, UpdatePhotos, DeletePhoto,
                  InsertPhoto, SaveSelect, CommitUpload, CommitRemovePhoto,
                  CommitRemoveReview, PhotosWritten, DeadlockAbort, Deadlocked, InFlight, Answers
    <3> QED BY <2>1, <2>4, <3>1, AloneStatement, AloneRow, AloneCommitUpload,
               AloneCommitRemovePhoto, AloneCommitRemoveReview DEF Advance
  <2> QED BY <2>0, <2>2, <2>3, <2>4 DEF Next, Quiet
<1> QED BY <1>1, <1>2 DEF Watched

\* Calls that never overlap leave photoCount of every review and the aggregate row
\* exact and no photo on a deleted review (review-photos.service.ts:96-112,
\* 149-163, reviews.service.ts:227-246).
THEOREM CountsExact == WatchedSpec => []CountsExactAlone
<1>1. WatchedInit => Watched
  <2> SUFFICES ASSUME WatchedInit PROVE Watched
    OBVIOUS
  <2>1. Init
    BY DEF WatchedInit
  <2>2. CountsOK /\ InFlight = {}
    BY <2>1 DEF Init, CountsOK, PhotoCountExact, StatsExact, DeletedReviewHasNoPhotos,
                InFlight, Answers
  <2> QED BY <2>1, <2>2, InitIInv DEF Watched, AloneOK
<1>2. Watched => CountsExactAlone
  BY DEF Watched, AloneOK, CountsOK, CountsExactAlone
<1> QED BY <1>1, <1>2, WatchedStep, PTL DEF WatchedSpec
=============================================================================
