----------------------------- MODULE Bars_proofs -----------------------------
(***************************************************************************)
(* Proofs about Bars, for every number of requests, bars, users, days and  *)
(* photos.                                                                 *)
(*                                                                         *)
(* Each property is a part of the inductive invariant, strengthened by     *)
(* what the requests under way know of the tables: an edit that has        *)
(* compared its bar (ReviewOK, TextOK), a bulk UPDATE that has begun       *)
(* (MenuOK, DeletedOK), an upload that has counted (LimitOK) or stored     *)
(* (PhotoOK).                                                              *)
(***************************************************************************)
EXTENDS Bars, TLAPS, FiniteSetTheorems

\* Statements of an edit that has compared its bar.
Late == {"save", "menu", "hours", "commit"}

\* The handler of a statement, and what it has read.
CallOK ==
    \A q \in Requests :
        /\ pc[q] = "idle" <=> call[q] = NoCall
        /\ pc[q] = "idle" => held[q] = {} /\ seen[q] = NoRead /\ ent[q] = NoRow
        /\ pc[q] \in {"select", "save"} => call[q].op \in Savers
        /\ pc[q] \in {"again", "photos", "bookmarks"} => call[q].op \in Deletions
        /\ pc[q] \in {"menu", "hours", "commit"} => call[q].op \in Edits \cup Deletions
        /\ pc[q] \in {"count", "store", "photo"} => call[q].op = "upload"
        /\ pc[q] \in {"find", "object", "unlink"} => call[q].op = "removePhoto"
        /\ pc[q] \in {"findMark", "findAny", "restore", "insert"} => call[q].op = "add"
        /\ pc[q] = "dropMark" => call[q].op = "drop"
        /\ pc[q] # "idle" => /\ bars[call[q].b] # NoRow
                             /\ call[q].op \in Savers => ent[q] # NoRow /\ ~ent[q].deleted
                             /\ call[q].op = "upload" =>
                                   held[q] \subseteq Files(q) /\ (held[q] # {} => pc[q] = "photo")
        /\ pc[q] = "menu" /\ call[q].op \in Edits => call[q].menu # Keep
        /\ pc[q] = "hours" /\ call[q].op \in Edits => call[q].hours # Keep
        /\ pc[q] # "idle" /\ call[q].op \notin Edits \cup Deletions \cup {"upload"} => held[q] = {}
        /\ seen[q] # NoRead => pc[q] \in PartNames

\* A bar that was never created has no rows.
AbsentOK == \A b \in BarIds : bars[b] = NoRow => \A k \in RowKeys : rows[b][k] = "none"

\* An edit that will leave the status as it found it found it not approved; the
\* bars of the edits that approvals have passed by have their records.
ReviewOK ==
    /\ ApprovedIsReviewed
    /\ \A q \in Requests \ slipped :
          pc[q] \in Late /\ call[q].op \in Edits /\ "status" \notin cols[q] =>
              bars[call[q].b].status # "APPROVED"
    /\ \A q \in slipped : pc[q] # "idle" /\ "BAR_APPROVED" \in audit[call[q].b]
    /\ \A b \in BarIds : \A q \in unread[b] : pc[q] # "idle" /\ call[q].b = b

\* A text is in use once its request is done.
TextOK ==
    /\ EditsStand
    /\ \A b \in BarIds : bars[b] # NoRow /\ bars[b].text # Earlier => pc[bars[b].text] = "done"
    /\ \A b \in BarIds : newest[b] # Earlier =>
          /\ pc[newest[b]] = "done"
          /\ call[newest[b]].op \in Savers =>
                call[newest[b]].op \in Edits /\ call[newest[b]].text
    /\ \A q \in Requests : pc[q] # "idle" /\ ent[q] # NoRow /\ ent[q].text # Earlier =>
          pc[ent[q].text] = "done"
    /\ \A q \in Requests : pc[q] \in Late /\ call[q].op \in Edits /\ call[q].text =>
          "text" \in cols[q]

Seen(q) == IF seen[q] = NoRead THEN {} ELSE seen[q]

\* A bulk UPDATE sees rows that exist.
HeldOK ==
    \A q \in Requests : pc[q] # "idle" /\ call[q].op \in Edits \cup Deletions =>
        \A k \in Seen(q) \cup held[q] : rows[call[q].b][k] # "none"

\* An edit that replaces a menu alone has seen all there is.
MenuOK ==
    /\ OneMenu
    /\ \A b \in BarIds : \A q \in Replacing(b) \ met :
          Live(b, Menu) \subseteq Seen(q) \cup held[q] /\ Replacing(b) = {q}

\* A photo has a row in one bar, and none before its upload saves it.
PhotoOK ==
    /\ PhotoHasObject
    /\ \A k \in Photos : \A a, b \in BarIds :
          rows[a][k] # "none" /\ rows[b][k] # "none" => a = b
    /\ \A q \in Requests : pc[q] # "idle" /\ call[q].op = "upload" =>
          \A k \in held[q] : k \in objects /\ \A b \in BarIds : rows[b][k] = "none"
    /\ \A q \in Requests : pc[q] # "idle" /\ call[q].op = "removePhoto" =>
          rows[call[q].b][call[q].photo] # "none"
    /\ \A q \in Requests : pc[q] \in {"idle", "count", "store"} =>
          \A n \in 1..MaxFiles, b \in BarIds : rows[b][<<"photos", <<q, n>>>>] = "none"

Uploaded(qs) == {"photos"} \X (qs \X (1..MaxFiles))

\* An upload alone has room for its files; the photos of such uploads fit.
LimitOK ==
    \A b \in BarIds :
        /\ Cardinality(Live(b, Photos) \ Uploaded(met)) <= MaxPhotos
        /\ \A q \in Uploading(b) \ met :
              Uploading(b) = {q} /\ Cardinality(Live(b, Photos) \cup Files(q)) <= MaxPhotos

\* The statements of a deletion that follow the one of a part.
Past(name) ==
    CASE name = "photos" -> {"menu", "hours", "bookmarks", "commit"}
      [] name = "menu"   -> {"hours", "bookmarks", "commit"}
      [] name = "hours"  -> {"bookmarks", "commit"}
      [] OTHER -> {"commit"}
Begun(q, k) == pc[q] \in Past(k[1]) \/ (pc[q] = k[1] /\ seen[q] # NoRead)

WrittenBeside(b, k) == \E q \in beside[b] : Writes(q, k)

\* What a deletion under way or done has missed was written beside it.
DeletedOK ==
    /\ \A b \in BarIds : \A p, q \in InFlight(b) :
          call[q].op \in Deletions => call[p].op \in Deletions \/ p \in beside[b]
    /\ \A b \in BarIds : bars[b] # NoRow /\ bars[b].deleted =>
          /\ \A k \in Live(b, RowKeys) : WrittenBeside(b, k)
          /\ \A q \in InFlight(b) : call[q].op \in Savers \cup {"upload", "add"} => q \in beside[b]
    /\ \A b \in BarIds : \A q \in InFlight(b) : \A k \in Live(b, RowKeys) :
          call[q].op \in Deletions /\ Begun(q, k) =>
              k \in Seen(q) \cup held[q] \/ WrittenBeside(b, k)
    /\ \A b \in BarIds : \A q \in beside[b] : pc[q] # "idle"

IInv == TypeOK /\ CallOK /\ AbsentOK /\ ReviewOK /\ TextOK
        /\ HeldOK /\ MenuOK /\ PhotoOK /\ LimitOK /\ DeletedOK

-----------------------------------------------------------------------------
(* The data.                                                                *)

LEMMA Parts ==
    IInv => /\ TypeOK /\ CallOK /\ AbsentOK /\ ReviewOK /\ TextOK
            /\ HeldOK /\ MenuOK /\ PhotoOK /\ LimitOK /\ DeletedOK
BY DEF IInv

\* The fields of a call.
LEMMA CallFields ==
    ASSUME NEW c \in Call
    PROVE  /\ c.b \in BarIds
           /\ c.op \in {"create", "upload", "removePhoto", "add", "drop"}
                         \cup Edits \cup Deletions \cup Verdicts
           /\ c.op \in Edits => /\ c.text \in BOOLEAN /\ c.menu \in BOOLEAN \cup {Keep}
                                /\ c.hours \in {Keep} \cup SUBSET Days
           /\ c.op = "upload" => c.files \in 1..MaxFiles
           /\ c.op = "removePhoto" => c.photo \in Photos
           /\ c.op \in {"add", "drop"} => c.mark \in Bookmarks
BY DEF Call, Edits, Deletions, Verdicts

LEMMA CallOf ==
    ASSUME TypeOK, CallOK, NEW q \in Requests, pc[q] # "idle"
    PROVE  /\ call[q] \in Call /\ call[q].b \in BarIds
           /\ call[q].op = "upload" => call[q].files \in 1..MaxFiles
           /\ call[q].op = "removePhoto" => call[q].photo \in Photos
           /\ call[q].op \in {"add", "drop"} => call[q].mark \in Bookmarks
BY CallFields DEF TypeOK, CallOK

\* The parts of a bar are apart.
LEMMA KeyParts ==
    /\ \A k \in Photos : k \in RowKeys /\ k[1] = "photos"
    /\ \A k \in Menu : k \in RowKeys /\ k[1] = "menu"
    /\ \A k \in Hours : k \in RowKeys /\ k[1] = "hours"
    /\ \A k \in Bookmarks : k \in RowKeys /\ k[1] = "bookmarks"
    /\ \A k \in RowKeys : k \in Photos \cup Menu \cup Hours \cup Bookmarks
BY DEF RowKeys, Photos, Menu, Hours, Bookmarks

LEMMA PartKeys ==
    ASSUME NEW name \in PartNames
    PROVE  Part(name) \subseteq RowKeys /\ \A k \in RowKeys : k \in Part(name) <=> k[1] = name
BY KeyParts DEF PartNames, Part

\* What a request writes.
LEMMA WrittenKeys ==
    ASSUME TypeOK, CallOK, NEW q \in Requests, pc[q] # "idle"
    PROVE  /\ call[q].op \in Edits => NewMenu(q) \subseteq Menu /\ NewHours(q) \subseteq Hours
           /\ call[q].op = "upload" => Files(q) \subseteq Photos /\ Files(q) \subseteq Uploaded({q})
<1>1. call[q] \in Call
  BY CallOf
<1>2. ASSUME call[q].op \in Edits
      PROVE  NewMenu(q) \subseteq Menu /\ NewHours(q) \subseteq Hours
  BY <1>1, <1>2, CallFields DEF NewMenu, NewHours, Menu, Hours, Texts
<1>3. ASSUME call[q].op = "upload"
      PROVE  Files(q) \subseteq Photos /\ Files(q) \subseteq Uploaded({q})
  <2>1. call[q].files \in 1..MaxFiles /\ MaxFiles \in Nat
    BY <1>1, <1>3, CallFields, BarBounds
  <2>2. 1..call[q].files \subseteq 1..MaxFiles
    BY <2>1
  <2> QED BY <2>2 DEF Files, Photos, PhotoKeys, Uploaded
<1> QED BY <1>2, <1>3

\* Rows of one bar are given a state.
LEMMA RowsSet ==
    ASSUME TypeOK, NEW b \in BarIds, NEW ks, NEW s \in RowState, rows' = Set(b, ks, s)
    PROVE  /\ rows' \in [BarIds -> [RowKeys -> RowState]]
           /\ \A a \in BarIds \ {b} : rows'[a] = rows[a]
           /\ \A k \in RowKeys : rows'[b][k] = IF k \in ks THEN s ELSE rows[b][k]
<1> DEFINE r == [k \in RowKeys |-> IF k \in ks THEN s ELSE rows[b][k]]
<1>1. rows \in [BarIds -> [RowKeys -> RowState]]
  BY DEF TypeOK
<1>2. rows' = [rows EXCEPT ![b] = r] /\ r \in [RowKeys -> RowState]
  BY <1>1 DEF Set
<1> QED BY <1>1, <1>2

\* The next statement of a request.
LEMMA Goes ==
    ASSUME TypeOK, NEW q \in Requests, NEW n \in PC, Go(q, n)
    PROVE  /\ pc' \in [Requests -> PC] /\ pc'[q] = n
           /\ \A p \in Requests \ {q} : pc'[p] = pc[p]
BY DEF TypeOK, Go

\* The photos of a bar are finitely many, and so are the files of an upload.
LEMMA PhotosFinite == IsFiniteSet(Photos) /\ \A b : IsFiniteSet(Live(b, Photos))
<1>1. IsFiniteSet(1..MaxFiles)
  BY BarBounds, FS_Interval
<1>2. IsFiniteSet(PhotoKeys)
  BY <1>1, BarBounds, FS_Product, FS_Union DEF PhotoKeys
<1>3. IsFiniteSet(Photos)
  BY <1>2, FS_Singleton, FS_Product DEF Photos
<1> QED BY <1>3, FS_Subset DEF Live

LEMMA FilesCount ==
    ASSUME NEW q, NEW n \in Nat
    PROVE  LET fs == {"photos"} \X ({q} \X (1..n))
           IN  IsFiniteSet(fs) /\ Cardinality(fs) = n
<1>1. IsFiniteSet(1..n) /\ Cardinality(1..n) = n
  BY FS_Interval
<1>2. IsFiniteSet({q}) /\ Cardinality({q}) = 1 /\ IsFiniteSet({"photos"}) /\ Cardinality({"photos"}) = 1
  BY FS_Singleton
<1>3. IsFiniteSet({q} \X (1..n)) /\ Cardinality({q} \X (1..n)) = 1 * n
  BY <1>1, <1>2, FS_Product
<1>4. /\ IsFiniteSet({"photos"} \X ({q} \X (1..n)))
      /\ Cardinality({"photos"} \X ({q} \X (1..n))) = 1 * (1 * n)
  BY <1>2, <1>3, FS_Product
<1> QED BY <1>4

-----------------------------------------------------------------------------
(* What steps leave as it is.                                               *)

\* A request that has begun keeps its call, and a handler that is done is done.
Lasting ==
    \A q \in Requests : /\ pc[q] # "idle" => /\ call'[q] = call[q] /\ ent'[q] = ent[q]
                                             /\ pc'[q] # "idle"
                        /\ pc[q] = "done" => pc'[q] = "done"

\* Only the rows and columns that no property of a part reads have changed.
SameStatus ==
    \A b \in BarIds : /\ bars'[b] = NoRow <=> bars[b] = NoRow
                      /\ bars[b] # NoRow => bars'[b].status = bars[b].status
SameText ==
    \A b \in BarIds : /\ bars'[b] = NoRow <=> bars[b] = NoRow
                      /\ bars[b] # NoRow => bars'[b].text = bars[b].text

LEMMA ReviewKept ==
    ASSUME IInv, Lasting, SameStatus, UNCHANGED <<unread, slipped>>,
           \A b \in BarIds : audit[b] \subseteq audit'[b],
           \A q \in Requests : pc'[q] \in Late /\ call'[q].op \in Edits =>
              \/ pc[q] \in Late /\ cols'[q] = cols[q]
              \/ "status" \in cols'[q] \/ bars'[call'[q].b].status # "APPROVED"
    PROVE  ReviewOK'
<1>1. ApprovedIsReviewed'
  BY Parts DEF ReviewOK, ApprovedIsReviewed, SameStatus
<1>2. ASSUME NEW q \in Requests \ slipped, pc'[q] \in Late, call'[q].op \in Edits,
             "status" \notin cols'[q]
      PROVE  bars'[call'[q].b].status # "APPROVED"
  <2>1. CASE pc[q] \in Late /\ cols'[q] = cols[q]
    <3>1. pc[q] # "idle"
      BY <2>1 DEF Late
    <3>2. call'[q] = call[q] /\ call[q].b \in BarIds /\ bars[call[q].b] # NoRow
      BY <3>1, CallOf, Parts DEF Lasting, CallOK
    <3> QED BY <1>2, <2>1, <3>2, Parts DEF ReviewOK, SameStatus
  <2> QED BY <1>2, <2>1
<1>3. \A q \in slipped' : pc'[q] # "idle" /\ "BAR_APPROVED" \in audit'[call'[q].b]
  <2>1. \A q \in slipped : q \in Requests /\ pc[q] # "idle"
                            /\ "BAR_APPROVED" \in audit[call[q].b] /\ call[q].b \in BarIds
    BY Parts, CallOf DEF ReviewOK, TypeOK
  <2> QED BY <2>1 DEF Lasting
<1>4. \A b \in BarIds : \A q \in unread'[b] : pc'[q] # "idle" /\ call'[q].b = b
  <2>1. \A b \in BarIds : \A q \in unread[b] : q \in Requests /\ pc[q] # "idle" /\ call[q].b = b
    BY Parts DEF ReviewOK, TypeOK
  <2> QED BY <2>1 DEF Lasting
<1> QED BY <1>1, <1>2, <1>3, <1>4 DEF ReviewOK

LEMMA TextKept ==
    ASSUME IInv, Lasting, SameText, UNCHANGED newest,
           \A q \in Requests : pc[q] = "idle" /\ pc'[q] # "idle" /\ ent'[q] # NoRow =>
              \E b \in BarIds : bars[b] # NoRow /\ ent'[q] = bars[b],
           \A q \in Requests : pc'[q] \in Late /\ call'[q].op \in Edits =>
              \/ pc[q] \in Late /\ cols'[q] = cols[q]
              \/ call'[q].text => "text" \in cols'[q]
    PROVE  TextOK'
<1>1. EditsStand'
  <2> SUFFICES ASSUME NEW b \in BarIds, bars'[b] # NoRow, bars'[b].text # newest[b]
               PROVE  \E q \in Requests \ {newest[b]} :
                          /\ pc'[q] = "done" /\ call'[q].op \in Savers
                          /\ call'[q].b = b /\ ent'[q].text = bars'[b].text
    BY DEF EditsStand
  <2>1. bars[b] # NoRow /\ bars'[b].text = bars[b].text
    BY DEF SameText
  <2>2. PICK q \in Requests \ {newest[b]} : /\ pc[q] = "done" /\ call[q].op \in Savers
                                            /\ call[q].b = b /\ ent[q].text = bars[b].text
    BY <2>1, Parts DEF TextOK, EditsStand
  <2> QED BY <2>1, <2>2 DEF Lasting
<1>2. \A b \in BarIds : bars'[b] # NoRow /\ bars'[b].text # Earlier => pc'[bars'[b].text] = "done"
  <2>1. \A b \in BarIds : bars[b] # NoRow /\ bars[b].text # Earlier => bars[b].text \in Requests
    <3>1. \A b \in BarIds : bars[b] # NoRow => bars[b] \in BarRow
      BY Parts DEF TypeOK
    <3> QED BY <3>1 DEF BarRow, Texts
  <2> QED BY <2>1, Parts DEF TextOK, SameText, Lasting
<1>3. \A b \in BarIds : newest'[b] # Earlier =>
          /\ pc'[newest'[b]] = "done"
          /\ call'[newest'[b]].op \in Savers =>
                call'[newest'[b]].op \in Edits /\ call'[newest'[b]].text
  <2>1. \A b \in BarIds : newest[b] # Earlier => newest[b] \in Requests
    BY Parts DEF TypeOK, Texts
  <2> QED BY <2>1, Parts DEF TextOK, Lasting
<1>4. ASSUME NEW q \in Requests, pc'[q] # "idle", ent'[q] # NoRow, ent'[q].text # Earlier
      PROVE  pc'[ent'[q].text] = "done"
  <2>1. \A b \in BarIds : bars[b] # NoRow /\ bars[b].text # Earlier =>
           bars[b].text \in Requests /\ pc[bars[b].text] = "done"
    <3>1. \A b \in BarIds : bars[b] # NoRow => bars[b] \in BarRow
      BY Parts DEF TypeOK
    <3> QED BY <3>1, Parts DEF BarRow, Texts, TextOK
  <2>2. CASE pc[q] = "idle"
    BY <1>4, <2>1, <2>2 DEF Lasting
  <2>3. CASE pc[q] # "idle"
    <3>1. ent[q] = ent'[q] /\ ent[q] \in BarRow
      BY <1>4, <2>3, Parts DEF Lasting, TypeOK
    <3>2. ent[q].text \in Requests /\ pc[ent[q].text] = "done"
      BY <1>4, <2>3, <3>1, Parts DEF TextOK, BarRow, Texts
    <3> QED BY <3>1, <3>2 DEF Lasting
  <2> QED BY <2>2, <2>3
<1>5. ASSUME NEW q \in Requests, pc'[q] \in Late, call'[q].op \in Edits, call'[q].text
      PROVE  "text" \in cols'[q]
  <2>1. CASE pc[q] \in Late /\ cols'[q] = cols[q]
    <3>1. call'[q] = call[q]
      BY <2>1 DEF Late, Lasting
    <3> QED BY <1>5, <2>1, <3>1, Parts DEF TextOK
  <2> QED BY <1>5, <2>1
<1> QED BY <1>1, <1>2, <1>3, <1>4, <1>5 DEF TextOK

LEMMA HeldKept ==
    ASSUME IInv, Lasting,
           \A b \in BarIds : \A k \in RowKeys : rows[b][k] # "none" => rows'[b][k] # "none",
           \A q \in Requests : pc'[q] # "idle" /\ call'[q].op \in Edits \cup Deletions =>
              Seen(q)' \cup held'[q] \subseteq Seen(q) \cup held[q]
    PROVE  HeldOK'
<1> SUFFICES ASSUME NEW q \in Requests, pc'[q] # "idle", call'[q].op \in Edits \cup Deletions,
                    NEW k \in Seen(q)' \cup held'[q]
             PROVE  rows'[call'[q].b][k] # "none"
  BY DEF HeldOK
<1>1. k \in Seen(q) \cup held[q] /\ k \in RowKeys
  BY Parts DEF TypeOK, Seen
<1>2. pc[q] # "idle"
  BY <1>1, Parts DEF CallOK, Seen
<1>3. call'[q] = call[q] /\ call[q].b \in BarIds
  BY <1>2, CallOf, Parts DEF Lasting
<1> QED BY <1>1, <1>2, <1>3, Parts DEF HeldOK

LEMMA MenuKept ==
    ASSUME IInv, Lasting, met \subseteq met',
           \A b \in BarIds : \A k \in Menu : rows'[b][k] = "live" => rows[b][k] = "live",
           \A b \in BarIds : \A q \in Replacing(b)' :
              q \in Replacing(b) /\ Seen(q) \cup held[q] \subseteq Seen(q)' \cup held'[q]
    PROVE  MenuOK'
<1>1. \A b \in BarIds : Live(b, Menu)' \subseteq Live(b, Menu)
  BY DEF Live
<1>2. OneMenu'
  <2> SUFFICES ASSUME NEW b \in BarIds, NEW k \in Live(b, Menu)', NEW o \in Live(b, Menu)', k # o
               PROVE  {k[2], o[2]} \cap met' # {}
    BY DEF OneMenu
  <2>1. {k[2], o[2]} \cap met # {}
    BY <1>1, Parts DEF MenuOK, OneMenu
  <2> QED BY <2>1
<1>3. ASSUME NEW b \in BarIds, NEW q \in Replacing(b)', q \notin met'
      PROVE  Live(b, Menu)' \subseteq Seen(q)' \cup held'[q] /\ Replacing(b)' = {q}
  <2>1. q \in Replacing(b) \ met /\ Seen(q) \cup held[q] \subseteq Seen(q)' \cup held'[q]
    BY <1>3
  <2>2. Live(b, Menu) \subseteq Seen(q) \cup held[q] /\ Replacing(b) = {q}
    BY <2>1, Parts DEF MenuOK
  <2>3. Replacing(b)' \subseteq Replacing(b)
    OBVIOUS
  <2> QED BY <1>1, <1>3, <2>1, <2>2, <2>3
<1> QED BY <1>2, <1>3 DEF MenuOK

LEMMA PhotoKept ==
    ASSUME IInv, Lasting, objects \subseteq objects',
           \A b \in BarIds : \A k \in Photos :
              \/ rows'[b][k] = rows[b][k]
              \/ rows'[b][k] = "deleted" /\ rows[b][k] # "none",
           \A q \in Requests :
              /\ pc'[q] # "idle" /\ call'[q].op = "upload" => held'[q] \subseteq held[q]
              /\ pc[q] \in {"unlink", "failed"} /\ call[q].op = "removePhoto" =>
                    \/ pc'[q] \in {"unlink", "failed"}
                    \/ \A b \in BarIds : rows'[b][call[q].photo] # "live"
              /\ pc'[q] \in {"idle", "count", "store"} => pc[q] \in {"idle", "count", "store"}
              /\ pc[q] = "idle" /\ pc'[q] # "idle" /\ call'[q].op = "removePhoto" =>
                    rows[call'[q].b][call'[q].photo] # "none" /\ call'[q].photo \in Photos
                    /\ call'[q].b \in BarIds
    PROVE  PhotoOK'
<1>1. PhotoHasObject'
  <2> SUFFICES ASSUME NEW b \in BarIds, NEW k \in Photos, rows'[b][k] = "live", k \notin objects'
               PROVE  \E q \in Requests : /\ call'[q] # NoCall /\ call'[q].op = "removePhoto"
                                          /\ call'[q].photo = k /\ pc'[q] \in {"unlink", "failed"}
    BY DEF PhotoHasObject, Live
  <2>1. rows[b][k] = "live" /\ k \notin objects
    OBVIOUS
  <2>2. PICK q \in Requests : /\ call[q] # NoCall /\ call[q].op = "removePhoto"
                              /\ call[q].photo = k /\ pc[q] \in {"unlink", "failed"}
    BY <2>1, Parts DEF PhotoOK, PhotoHasObject, Live
  <2>3. call'[q] = call[q]
    BY <2>2 DEF Lasting
  <2> QED BY <2>2, <2>3
<1>2. \A k \in Photos : \A a, b \in BarIds : rows'[a][k] # "none" /\ rows'[b][k] # "none" => a = b
  BY Parts DEF PhotoOK
<1>3. ASSUME NEW q \in Requests, pc'[q] # "idle", call'[q].op = "upload", NEW k \in held'[q]
      PROVE  k \in objects' /\ \A b \in BarIds : rows'[b][k] = "none"
  <2>1. k \in held[q]
    BY <1>3
  <2>2. pc[q] # "idle"
    BY <2>1, Parts DEF CallOK
  <2>3. call[q].op = "upload" /\ k \in Photos
    <3>1. call[q].op = "upload"
      BY <1>3, <2>2 DEF Lasting
    <3> QED BY <3>1, <2>1, <2>2, Parts, WrittenKeys DEF CallOK
  <2> QED BY <2>1, <2>2, <2>3, Parts DEF PhotoOK
<1>4. ASSUME NEW q \in Requests, pc'[q] # "idle", call'[q].op = "removePhoto"
      PROVE  rows'[call'[q].b][call'[q].photo] # "none"
  <2>1. CASE pc[q] = "idle"
    BY <1>4, <2>1
  <2>2. CASE pc[q] # "idle"
    <3>1. /\ call'[q] = call[q] /\ call[q].photo \in Photos /\ call[q].b \in BarIds
          /\ rows[call[q].b][call[q].photo] # "none"
      BY <1>4, <2>2, Parts, CallOf DEF Lasting, PhotoOK
    <3> QED BY <3>1
  <2> QED BY <2>1, <2>2
<1>5. ASSUME NEW q \in Requests, pc'[q] \in {"idle", "count", "store"},
             NEW n \in 1..MaxFiles, NEW b \in BarIds
      PROVE  rows'[b][<<"photos", <<q, n>>>>] = "none"
  <2>1. <<"photos", <<q, n>>>> \in Photos
    BY DEF Photos, PhotoKeys
  <2> QED BY <1>5, <2>1, Parts DEF PhotoOK
<1> QED BY <1>1, <1>2, <1>3, <1>4, <1>5 DEF PhotoOK

LEMMA LimitKept ==
    ASSUME IInv, Lasting, met \subseteq met',
           \A b \in BarIds : \A k \in Photos : rows'[b][k] = "live" => rows[b][k] = "live",
           \A b \in BarIds : Uploading(b)' \subseteq Uploading(b)
    PROVE  LimitOK'
<1> SUFFICES ASSUME NEW b \in BarIds
             PROVE  /\ Cardinality(Live(b, Photos)' \ Uploaded(met')) <= MaxPhotos
                    /\ \A q \in Uploading(b)' \ met' :
                          /\ Uploading(b)' = {q}
                          /\ Cardinality(Live(b, Photos)' \cup Files(q)') <= MaxPhotos
  BY DEF LimitOK, Uploaded
<1>1. Live(b, Photos)' \subseteq Live(b, Photos) /\ IsFiniteSet(Live(b, Photos))
  BY PhotosFinite DEF Live
<1>2. Cardinality(Live(b, Photos)' \ Uploaded(met')) <= MaxPhotos
  <2>1. Live(b, Photos)' \ Uploaded(met') \subseteq Live(b, Photos) \ Uploaded(met)
    BY <1>1 DEF Uploaded
  <2>2. IsFiniteSet(Live(b, Photos) \ Uploaded(met))
    BY <1>1, FS_Subset
  <2>3. /\ Cardinality(Live(b, Photos) \ Uploaded(met)) <= MaxPhotos
        /\ Cardinality(Live(b, Photos)' \ Uploaded(met'))
              <= Cardinality(Live(b, Photos) \ Uploaded(met))
    BY <2>1, <2>2, FS_Subset, Parts DEF LimitOK
  <2>4. /\ Cardinality(Live(b, Photos) \ Uploaded(met)) \in Nat
        /\ Cardinality(Live(b, Photos)' \ Uploaded(met')) \in Nat
    BY <2>1, <2>2, FS_Subset, FS_CardinalityType
  <2> QED BY <2>3, <2>4, BarBounds
<1>3. ASSUME NEW q \in Uploading(b)', q \notin met'
      PROVE  /\ Uploading(b)' = {q}
             /\ Cardinality(Live(b, Photos)' \cup Files(q)') <= MaxPhotos
  <2>1. q \in Uploading(b) \ met /\ Uploading(b)' \subseteq Uploading(b)
    BY <1>3
  <2>2. Uploading(b) = {q} /\ Cardinality(Live(b, Photos) \cup Files(q)) <= MaxPhotos
    BY <2>1, Parts DEF LimitOK
  <2>3. q \in Requests /\ pc[q] # "idle" /\ call[q].op = "upload"
    BY <2>1 DEF Uploading, InFlight, Ended
  <2>4. Files(q)' = Files(q) /\ Files(q) \subseteq Photos
    BY <2>3, Parts, WrittenKeys DEF Files, Lasting
  <2>5. IsFiniteSet(Live(b, Photos) \cup Files(q))
    BY <2>4, PhotosFinite, FS_Subset DEF Live
  <2>6. Live(b, Photos)' \cup Files(q)' \subseteq Live(b, Photos) \cup Files(q)
    BY <1>1, <2>4
  <2>7. Cardinality(Live(b, Photos)' \cup Files(q)') <= Cardinality(Live(b, Photos) \cup Files(q))
    BY <2>5, <2>6, FS_Subset
  <2>8. /\ Cardinality(Live(b, Photos)' \cup Files(q)') \in Nat
        /\ Cardinality(Live(b, Photos) \cup Files(q)) \in Nat
    BY <2>5, <2>6, FS_Subset, FS_CardinalityType
  <2> QED BY <2>1, <2>2, <2>3, <2>7, <2>8, <1>3, BarBounds
<1> QED BY <1>2, <1>3

\* The step in which a bar is deleted.
Deletes(b) ==
    /\ \A k \in RowKeys : rows'[b][k] = "live" => WrittenBeside(b, k)
    /\ \A q \in InFlight(b) : call[q].op \in Savers \cup {"upload", "add"} => q \in beside[b]

\* A step that starts no request, and writes rows for one at work only.
LEMMA DeletedKept ==
    ASSUME IInv, Lasting, UNCHANGED beside,
           \A b \in BarIds : /\ bars'[b] = NoRow <=> bars[b] = NoRow
                             /\ bars[b] # NoRow /\ bars'[b].deleted =>
                                   bars[b].deleted \/ Deletes(b),
           \A q \in Requests : pc'[q] # "idle" => pc[q] # "idle",
           \A q \in Requests : ~Ended(q)' => ~Ended(q),
           \A b \in BarIds : \A k \in RowKeys : rows'[b][k] = "live" =>
              \/ rows[b][k] = "live"
              \/ \E p \in InFlight(b) : /\ Writes(p, k)
                                        /\ call[p].op \in Savers \cup {"upload", "add"},
           \A b \in BarIds : \A q \in InFlight(b)' : call[q].op \in Deletions =>
              /\ Seen(q) \cup held[q] \subseteq Seen(q)' \cup held'[q]
              /\ \A k \in RowKeys : Begun(q, k)' =>
                    Begun(q, k) \/ k \in Seen(q)' \cup held'[q] \/ rows[b][k] # "live"
    PROVE  DeletedOK'
<1>1. \A b \in BarIds : InFlight(b)' \subseteq InFlight(b)
  BY DEF InFlight, Lasting, Ended
<1>2. \A b \in BarIds : \A q \in InFlight(b) : q \in Requests /\ pc[q] # "idle" /\ call'[q] = call[q]
  BY DEF InFlight, Ended, Lasting
<1>3. \A b \in BarIds : \A q \in beside[b] : q \in Requests /\ pc[q] # "idle" /\ call'[q] = call[q]
  BY Parts DEF DeletedOK, TypeOK, Lasting
<1>4. \A b \in BarIds : \A k \in RowKeys : WrittenBeside(b, k) => WrittenBeside(b, k)'
  <2> SUFFICES ASSUME NEW b \in BarIds, NEW k \in RowKeys, NEW q \in beside[b], Writes(q, k)
               PROVE  Writes(q, k)'
    BY DEF WrittenBeside
  <2> QED BY <1>3 DEF Writes, NewMenu, NewHours, Files
<1>5. \A b \in BarIds : \A p, q \in InFlight(b)' :
          call'[q].op \in Deletions => call'[p].op \in Deletions \/ p \in beside[b]
  BY <1>1, <1>2, Parts DEF DeletedOK
<1>6. \A b \in BarIds : bars'[b] # NoRow /\ bars'[b].deleted =>
          \A q \in InFlight(b)' : call'[q].op \in Savers \cup {"upload", "add"} => q \in beside[b]
  BY <1>1, <1>2, Parts DEF DeletedOK, Deletes
<1>7. ASSUME NEW b \in BarIds, bars'[b] # NoRow, bars'[b].deleted, NEW k \in Live(b, RowKeys)'
      PROVE  WrittenBeside(b, k)'
  <2>1. k \in RowKeys /\ rows'[b][k] = "live"
    BY <1>7 DEF Live
  <2>2. CASE rows[b][k] = "live"
    BY <1>4, <1>7, <2>1, <2>2, Parts DEF DeletedOK, Live, Deletes
  <2>3. CASE rows[b][k] # "live"
    <3>1. PICK p \in InFlight(b) : Writes(p, k) /\ call[p].op \in Savers \cup {"upload", "add"}
      BY <2>1, <2>3
    <3>2. p \in beside[b]
      BY <1>7, <3>1, Parts DEF DeletedOK, Deletes
    <3> QED BY <1>4, <2>1, <3>1, <3>2 DEF WrittenBeside
  <2> QED BY <2>2, <2>3
<1>8. ASSUME NEW b \in BarIds, NEW q \in InFlight(b)', NEW k \in Live(b, RowKeys)',
             call'[q].op \in Deletions, Begun(q, k)'
      PROVE  k \in Seen(q)' \cup held'[q] \/ WrittenBeside(b, k)'
  <2>1. /\ k \in RowKeys /\ rows'[b][k] = "live" /\ q \in InFlight(b)
        /\ call[q].op \in Deletions
    BY <1>1, <1>2, <1>8 DEF Live
  <2>2. CASE rows[b][k] = "live"
    <3>1. Begun(q, k) \/ k \in Seen(q)' \cup held'[q]
      BY <1>8, <2>1, <2>2
    <3>2. Begun(q, k) => k \in Seen(q) \cup held[q] \/ WrittenBeside(b, k)
      BY <2>1, <2>2, Parts DEF DeletedOK, Live
    <3> QED BY <1>4, <1>8, <2>1, <3>1, <3>2
  <2>3. CASE rows[b][k] # "live"
    <3>1. PICK p \in InFlight(b) : Writes(p, k) /\ call[p].op \in Savers \cup {"upload", "add"}
      BY <2>1, <2>3
    <3>2. p \in beside[b]
      BY <2>1, <3>1, Parts DEF DeletedOK, Savers, Edits, Verdicts, Deletions
    <3> QED BY <1>4, <2>1, <3>1, <3>2 DEF WrittenBeside
  <2> QED BY <2>2, <2>3
<1>9. \A b \in BarIds : \A q \in beside'[b] : pc'[q] # "idle"
  BY <1>3 DEF Lasting
<1> QED BY <1>5, <1>6, <1>7, <1>8, <1>9 DEF DeletedOK

-----------------------------------------------------------------------------
(* Every step keeps the invariant.                                          *)

\* A deleted bar comes back only with a save of a request that was at work
\* beside its deletion.
ComesBackBeside ==
    \A b \in BarIds : bars[b] # NoRow /\ bars[b].deleted /\ ~bars'[b].deleted =>
        \E q \in beside[b] : call[q].op \in Savers /\ pc'[q] = "done"

\* What all requests at work have in common.
LEMMA Works ==
    ASSUME IInv, NEW q \in Requests, ~Ended(q), NEW n \in PC \ {"idle"}, Go(q, n),
           UNCHANGED <<call, ent>>
    PROVE  /\ TypeOK /\ CallOK /\ pc[q] # "idle" /\ pc[q] # "done"
           /\ pc' \in [Requests -> PC] /\ pc'[q] = n
           /\ \A p \in Requests \ {q} : pc'[p] = pc[p]
           /\ Lasting
           /\ call[q] \in Call /\ call[q].b \in BarIds /\ bars[call[q].b] # NoRow
           /\ q \in InFlight(call[q].b)
           /\ \A p \in Requests : /\ pc'[p] # "idle" => pc[p] # "idle"
                                  /\ ~Ended(p)' => ~Ended(p)
<1>1. TypeOK /\ CallOK /\ pc[q] # "idle" /\ pc[q] # "done"
  BY Parts DEF Ended
<1>2. /\ pc' \in [Requests -> PC] /\ pc'[q] = n
      /\ \A p \in Requests \ {q} : pc'[p] = pc[p]
  BY <1>1, Goes
<1>3. Lasting
  BY <1>1, <1>2 DEF Lasting
<1>4. call[q] \in Call /\ call[q].b \in BarIds /\ bars[call[q].b] # NoRow
  BY <1>1, CallOf DEF CallOK
<1> QED BY <1>1, <1>2, <1>3, <1>4 DEF InFlight, Ended

\* A request goes on to its next statement and does nothing else.
LEMMA MoveStep ==
    ASSUME IInv, NEW q \in Requests, ~Ended(q), NEW n \in PC \ {"idle", "count", "store", "photo"},
           Go(q, n), UNCHANGED <<tables, request, history>>, CallOK',
           pc[q] \notin PartNames \cup {"commit", "unlink"},
           n \in Late => pc[q] \in Late /\ (n # "menu" => call[q].menu = Keep),
           call[q].op \in Deletions => n \in {"photos", "done"}
    PROVE  IInv' /\ ComesBackBeside
<1>1. UNCHANGED <<bars, rows, objects, audit, call, ent, cols, seen, held,
                  newest, unread, read, slipped, beside, met>>
  BY DEF tables, request, history
<1>2. /\ TypeOK /\ CallOK /\ pc' \in [Requests -> PC] /\ pc'[q] = n /\ Lasting
      /\ \A p \in Requests \ {q} : pc'[p] = pc[p]
      /\ \A p \in Requests : /\ pc'[p] # "idle" => pc[p] # "idle"
                             /\ ~Ended(p)' => ~Ended(p)
      /\ seen[q] = NoRead
  BY <1>1, Works DEF CallOK
<1>3. TypeOK'
  BY <1>1, <1>2 DEF TypeOK
<1>4. AbsentOK'
  BY <1>1, Parts DEF AbsentOK
<1>5. ReviewOK'
  BY <1>1, <1>2, ReviewKept DEF SameStatus
<1>6. TextOK'
  BY <1>1, <1>2, TextKept DEF SameText
<1>7. MenuOK'
  <2>1. \A b \in BarIds : \A p \in Replacing(b)' :
           p \in Replacing(b) /\ Seen(p) \cup held[p] \subseteq Seen(p)' \cup held'[p]
    <3> SUFFICES ASSUME NEW b \in BarIds, NEW p \in Replacing(b)'
                 PROVE  p \in Replacing(b)
      BY <1>1 DEF Seen
    <3>1. p # q
      BY <1>1, <1>2 DEF Replacing, Late
    <3>2. p \in Requests /\ pc'[p] = pc[p]
      BY <3>1, <1>2 DEF Replacing, Editing, InFlight
    <3> QED BY <3>2, <1>1 DEF Replacing, Editing, InFlight, Ended
  <2> QED BY <1>1, <1>2, <2>1, MenuKept
<1>8. PhotoOK'
  <2>1. pc[q] # "unlink" /\ pc[q] # "failed"
    BY DEF Ended
  <2> QED BY <1>1, <1>2, <2>1, PhotoKept
<1>9. LimitOK'
  <2>1. \A b \in BarIds : Uploading(b)' \subseteq Uploading(b)
    BY <1>1, <1>2 DEF Uploading, InFlight, Ended
  <2> QED BY <1>1, <1>2, <2>1, LimitKept
<1>10. HeldOK'
  BY <1>1, <1>2, HeldKept DEF Seen
<1>11. DeletedOK'
  <2>1. \A b \in BarIds : \A p \in InFlight(b)' : call[p].op \in Deletions =>
           \A k \in RowKeys : Begun(p, k)' => Begun(p, k)
    <3> SUFFICES ASSUME NEW p \in Requests, ~Ended(p)', call[p].op \in Deletions,
                        NEW k \in RowKeys, Begun(p, k)'
                 PROVE  Begun(p, k)
      BY DEF InFlight
    <3>1. CASE p = q
      <4>1. n = "photos" /\ seen'[q] = NoRead
        BY <3>1, <1>1, <1>2 DEF Ended
      <4> QED BY <3>1, <4>1, <1>2 DEF Begun, Past
    <3>2. CASE p # q
      BY <3>2, <1>1, <1>2 DEF Begun
    <3> QED BY <3>1, <3>2
  <2> QED BY <1>1, <1>2, <2>1, DeletedKept DEF Seen
<1> QED BY <1>1, <1>3, <1>4, <1>5, <1>6, <1>7, <1>8, <1>9, <1>10, <1>11 DEF IInv, ComesBackBeside

LEMMA SaveUpdateStep ==
    ASSUME IInv, NEW q \in Requests, SaveUpdate(q) PROVE IInv' /\ ComesBackBeside
<1> DEFINE n == IF call[q].menu # Keep THEN "menu"
                ELSE IF call[q].hours # Keep THEN "hours" ELSE "commit"
<1>1. /\ pc[q] = "save" /\ call[q].op \in Edits /\ Go(q, n)
      /\ UNCHANGED <<tables, request, history>>
  BY DEF SaveUpdate
<1>2. ~Ended(q) /\ n \in PC \ {"idle", "count", "store", "photo"} /\ call[q].op \notin Deletions
  BY <1>1 DEF Ended, PC, Edits, Deletions
<1>3. UNCHANGED <<bars, call, ent, seen, held>>
  BY <1>1 DEF tables, request
<1>4. CallOK'
  BY <1>1, <1>2, <1>3, Works DEF CallOK, Files, PartNames
<1> QED BY <1>1, <1>2, <1>4, MoveStep DEF Late, PartNames

LEMMA FindAgainStep ==
    ASSUME IInv, NEW q \in Requests, FindAgain(q) PROVE IInv' /\ ComesBackBeside
<1> DEFINE n == IF Found(call[q].b) THEN "photos" ELSE "done"
<1>1. pc[q] = "again" /\ Go(q, n) /\ UNCHANGED <<tables, request, history>>
  BY DEF FindAgain
<1>2. ~Ended(q) /\ n \in PC \ {"idle", "count", "store", "photo"} /\ n \notin Late
  BY <1>1 DEF Ended, PC, Late
<1>3. UNCHANGED <<bars, call, ent, seen, held>>
  BY <1>1 DEF tables, request
<1>4. CallOK'
  BY <1>1, <1>2, <1>3, Works DEF CallOK, Files, PartNames
<1> QED BY <1>1, <1>2, <1>4, MoveStep DEF PartNames

LEMMA FindPhotoStep ==
    ASSUME IInv, NEW q \in Requests, FindPhoto(q) PROVE IInv' /\ ComesBackBeside
<1> DEFINE n == IF Live(call[q].b, {call[q].photo}) # {} THEN "object" ELSE "done"
<1>1. pc[q] = "find" /\ Go(q, n) /\ UNCHANGED <<tables, request, history>>
  BY DEF FindPhoto
<1>2. ~Ended(q) /\ n \in PC \ {"idle", "count", "store", "photo"} /\ n \notin Late
  BY <1>1 DEF Ended, PC, Late
<1>3. UNCHANGED <<bars, call, ent, seen, held>>
  BY <1>1 DEF tables, request
<1>4. CallOK' /\ call[q].op \notin Deletions
  BY <1>1, <1>2, <1>3, Works DEF CallOK, Files, PartNames, Deletions
<1> QED BY <1>1, <1>2, <1>4, MoveStep DEF PartNames

LEMMA FindMarkStep ==
    ASSUME IInv, NEW q \in Requests, FindMark(q) PROVE IInv' /\ ComesBackBeside
<1> DEFINE n == IF Live(call[q].b, {call[q].mark}) # {} THEN "done" ELSE "findAny"
<1>1. pc[q] = "findMark" /\ Go(q, n) /\ UNCHANGED <<tables, request, history>>
  BY DEF FindMark
<1>2. ~Ended(q) /\ n \in PC \ {"idle", "count", "store", "photo"} /\ n \notin Late
  BY <1>1 DEF Ended, PC, Late
<1>3. UNCHANGED <<bars, call, ent, seen, held>>
  BY <1>1 DEF tables, request
<1>4. CallOK' /\ call[q].op \notin Deletions
  BY <1>1, <1>2, <1>3, Works DEF CallOK, Files, PartNames, Deletions
<1> QED BY <1>1, <1>2, <1>4, MoveStep DEF PartNames

LEMMA FindDeletedMarkStep ==
    ASSUME IInv, NEW q \in Requests, FindDeletedMark(q) PROVE IInv' /\ ComesBackBeside
<1> DEFINE n == IF Existing(call[q].b, {call[q].mark}) # {} THEN "restore" ELSE "insert"
<1>1. pc[q] = "findAny" /\ Go(q, n) /\ UNCHANGED <<tables, request, history>>
  BY DEF FindDeletedMark
<1>2. ~Ended(q) /\ n \in PC \ {"idle", "count", "store", "photo"} /\ n \notin Late
  BY <1>1 DEF Ended, PC, Late
<1>3. UNCHANGED <<bars, call, ent, seen, held>>
  BY <1>1 DEF tables, request
<1>4. CallOK' /\ call[q].op \notin Deletions
  BY <1>1, <1>2, <1>3, Works DEF CallOK, Files, PartNames, Deletions
<1> QED BY <1>1, <1>2, <1>4, MoveStep DEF PartNames

\* The entity a request saves.
LEMMA EntityFields ==
    ASSUME IInv, NEW q \in Requests, pc[q] # "idle", call[q].op \in Savers
    PROVE  /\ Entity(q) \in BarRow /\ Entity(q) # NoRow /\ ~Entity(q).deleted
           /\ call[q].op \in Edits => /\ Entity(q).status = "PENDING"
                                      /\ Entity(q).text = IF call[q].text THEN q ELSE ent[q].text
           /\ call[q].op = "approve" => Entity(q).status = "APPROVED"
           /\ call[q].op = "reject" => Entity(q).status = "REJECTED"
           /\ call[q].op \in Verdicts => Entity(q).text = ent[q].text
<1>1. ent[q] \in BarRow /\ ~ent[q].deleted /\ call[q] \in Call
  BY Parts, CallOf DEF TypeOK, CallOK
<1>2. CASE call[q].op = "approve"
  BY <1>1, <1>2, BarNulls DEF Entity, BarRow, BarStatus, Edits
<1>3. CASE call[q].op = "reject"
  BY <1>1, <1>3, BarNulls DEF Entity, BarRow, BarStatus, Edits
<1>4. CASE call[q].op \in Edits
  BY <1>1, <1>4, BarNulls DEF Entity, BarRow, BarStatus, Edits, Texts, Verdicts
<1> QED BY <1>2, <1>3, <1>4 DEF Savers, Verdicts

LEMMA PatchedFields ==
    ASSUME NEW q \in Requests, NEW row \in BarRow, NEW e \in BarRow, NEW cs
    PROVE  LET r == Patched(q, row, e, cs)
           IN  /\ r \in BarRow /\ r # NoRow
               /\ r.status = IF "status" \in cs THEN e.status ELSE row.status
               /\ r.text = IF "text" \in cs THEN e.text ELSE row.text
               /\ r.deleted => row.deleted \/ e.deleted
BY BarNulls DEF Patched, BarRow, Texts

LEMMA SaveSelectStep ==
    ASSUME IInv, NEW q \in Requests, SaveSelect(q) PROVE IInv' /\ ComesBackBeside
<1> DEFINE b == call[q].b
           cs == Differing(bars[b], Entity(q))
<1>1. /\ pc[q] = "select" /\ Go(q, "save") /\ cols' = [cols EXCEPT ![q] = cs]
      /\ UNCHANGED <<bars, rows, objects, audit, call, ent, seen, held,
                     newest, unread, read, slipped, beside, met>>
  BY DEF SaveSelect, tables, history
<1>2. ~Ended(q) /\ "save" \in PC \ {"idle"}
  BY <1>1 DEF Ended, PC
<1>3. /\ TypeOK /\ CallOK /\ pc' \in [Requests -> PC] /\ pc'[q] = "save" /\ Lasting
      /\ \A p \in Requests \ {q} : pc'[p] = pc[p]
      /\ \A p \in Requests : /\ pc'[p] # "idle" => pc[p] # "idle"
                             /\ ~Ended(p)' => ~Ended(p)
      /\ b \in BarIds /\ bars[b] \in BarRow /\ call[q].op \in Savers
  BY <1>1, <1>2, Works DEF CallOK, TypeOK
<1>4. cs \in SUBSET {"status", "text", "updatedAt", "deleted"} /\ cols'[q] = cs
      /\ \A p \in Requests \ {q} : cols'[p] = cols[p]
  BY <1>1, <1>3 DEF TypeOK, Differing
<1>5. TypeOK'
  BY <1>1, <1>3, <1>4 DEF TypeOK
<1>6. CallOK' /\ AbsentOK'
  BY <1>1, <1>3, Parts DEF CallOK, AbsentOK, Files, PartNames
<1>7. ReviewOK'
  <2>1. call[q].op \in Edits => "status" \in cs \/ bars[b].status # "APPROVED"
    BY <1>1, <1>3, EntityFields DEF Differing
  <2> QED BY <1>1, <1>3, <1>4, <2>1, ReviewKept DEF SameStatus
<1>8. TextOK'
  <2>1. call[q].op \in Edits /\ call[q].text => "text" \in cs
    <3>1. bars[b].text # q
      BY <1>1, <1>3, Parts, BarNulls DEF TextOK
    <3> QED BY <3>1, <1>1, <1>3, EntityFields DEF Differing
  <2> QED BY <1>1, <1>3, <1>4, <2>1, TextKept DEF SameText
<1>9. MenuOK'
  <2>1. \A a \in BarIds : \A p \in Replacing(a)' : p \in Replacing(a)
    BY <1>1, <1>3 DEF Replacing, Editing, InFlight, Ended
  <2> QED BY <1>1, <1>3, <2>1, MenuKept DEF Seen
<1>10. PhotoOK'
  BY <1>1, <1>3, PhotoKept
<1>11. LimitOK'
  <2>1. \A a \in BarIds : Uploading(a)' \subseteq Uploading(a)
    BY <1>1, <1>3 DEF Uploading, InFlight, Ended
  <2> QED BY <1>1, <1>3, <2>1, LimitKept
<1>12. HeldOK'
  BY <1>1, <1>3, HeldKept DEF Seen
<1>13. DeletedOK'
  <2>1. \A p \in Requests : call[p].op \in Deletions =>
           \A k \in RowKeys : Begun(p, k)' => Begun(p, k)
    <3>1. call[q].op \notin Deletions
      BY <1>3 DEF Savers, Deletions, Edits, Verdicts
    <3> QED BY <3>1, <1>1, <1>3 DEF Begun
  <2> QED BY <1>1, <1>3, <2>1, DeletedKept DEF Seen, InFlight
<1> QED BY <1>1, <1>5, <1>6, <1>7, <1>8, <1>9, <1>10, <1>11, <1>12, <1>13 DEF IInv, ComesBackBeside

LEMMA CommitVerdictStep ==
    ASSUME IInv, NEW q \in Requests, CommitVerdict(q) PROVE IInv' /\ ComesBackBeside
<1> DEFINE b == call[q].b
           r == Patched(q, bars[b], Entity(q), cols[q])
           late == {p \in Editing(b) : pc[p] \in {"save", "menu", "hours", "commit"}}
           missed == unread[b] \ read[q]
<1>1. /\ pc[q] = "save" /\ call[q].op \in Verdicts /\ Go(q, "done")
      /\ bars' = [bars EXCEPT ![b] = r]
      /\ UNCHANGED <<rows, objects, call, ent, cols, seen, held, newest, read, beside, met>>
  BY DEF CommitVerdict, request
<1>2. \/ /\ call[q].op = "approve" /\ Log(b, "BAR_APPROVED")
         /\ unread' = [unread EXCEPT ![b] = missed] /\ slipped' = slipped \cup missed \cup late
      \/ call[q].op = "reject" /\ Log(b, "BAR_REJECTED") /\ UNCHANGED <<unread, slipped>>
  BY <1>1 DEF CommitVerdict, Verdicts
<1>3. ~Ended(q) /\ "done" \in PC \ {"idle"} /\ call[q].op \in Savers /\ call[q].op \notin Edits
  BY <1>1 DEF Ended, PC, Savers, Verdicts, Edits
<1>4. /\ TypeOK /\ CallOK /\ pc' \in [Requests -> PC] /\ pc'[q] = "done" /\ Lasting
      /\ \A p \in Requests \ {q} : pc'[p] = pc[p]
      /\ \A p \in Requests : /\ pc'[p] # "idle" => pc[p] # "idle"
                             /\ ~Ended(p)' => ~Ended(p)
      /\ b \in BarIds /\ bars[b] # NoRow /\ bars[b] \in BarRow /\ q \in InFlight(b)
  BY <1>1, <1>3, Works DEF TypeOK
<1>5. /\ r \in BarRow /\ r # NoRow /\ r.status \in {bars[b].status, Entity(q).status}
      /\ r.text = IF "text" \in cols[q] THEN ent[q].text ELSE bars[b].text
      /\ r.deleted => bars[b].deleted
      /\ call[q].op = "reject" => Entity(q).status = "REJECTED"
  BY <1>1, <1>3, <1>4, EntityFields, PatchedFields
<1>6. bars' \in [BarIds -> BarRow \cup {NoRow}] /\ bars'[b] = r
      /\ \A a \in BarIds \ {b} : bars'[a] = bars[a]
  BY <1>1, <1>4, <1>5 DEF TypeOK
<1>7. /\ audit' \in [BarIds -> SUBSET Decisions] /\ \A a \in BarIds : audit[a] \subseteq audit'[a]
      /\ call[q].op = "approve" => "BAR_APPROVED" \in audit'[b]
  <2>1. PICK d \in Decisions : /\ audit' = [audit EXCEPT ![b] = @ \cup {d}]
                               /\ call[q].op = "approve" => d = "BAR_APPROVED"
    BY <1>2 DEF Log, Decisions
  <2>2. audit \in [BarIds -> SUBSET Decisions]
    BY <1>4 DEF TypeOK
  <2> QED BY <2>1, <2>2, <1>4
<1>8. /\ unread' \in [BarIds -> SUBSET Requests] /\ \A a \in BarIds \ {b} : unread'[a] = unread[a]
      /\ unread'[b] = IF call[q].op = "approve" THEN missed ELSE unread[b]
      /\ slipped' = IF call[q].op = "approve" THEN slipped \cup missed \cup late ELSE slipped
      /\ slipped' \subseteq Requests
  <2>1. late \subseteq Requests
    BY DEF Editing, InFlight
  <2> QED BY <2>1, <1>2, <1>4 DEF TypeOK
<1>9. TypeOK'
  BY <1>1, <1>4, <1>6, <1>7, <1>8 DEF TypeOK
<1>10. CallOK'
  BY <1>1, <1>3, <1>4, <1>5, <1>6 DEF CallOK, Files, PartNames
<1>11. AbsentOK'
  <2>1. \A a \in BarIds : bars'[a] = NoRow => bars[a] = NoRow
    BY <1>4, <1>5, <1>6
  <2> QED BY <1>1, <2>1, Parts DEF AbsentOK
<1>12. ReviewOK'
  <2>1. ApprovedIsReviewed'
    <3> SUFFICES ASSUME NEW a \in BarIds, bars'[a] # NoRow, bars'[a].status = "APPROVED"
                 PROVE  /\ unread'[a] \subseteq slipped'
                        /\ "BAR_APPROVED" \in audit'[a] \/ unread'[a] = {}
      BY DEF ApprovedIsReviewed
    <3>1. CASE a = b /\ call[q].op = "approve"
      BY <3>1, <1>7, <1>8
    <3>2. CASE ~(a = b /\ call[q].op = "approve")
      <4>1. bars[a] # NoRow /\ bars[a].status = "APPROVED"
        BY <3>2, <1>2, <1>4, <1>5, <1>6
      <4> QED BY <4>1, <3>2, <1>7, <1>8, Parts DEF ReviewOK, ApprovedIsReviewed
    <3> QED BY <3>1, <3>2
  <2>2. ASSUME NEW p \in Requests \ slipped', pc'[p] \in Late, call[p].op \in Edits,
               "status" \notin cols[p]
        PROVE  bars'[call[p].b].status # "APPROVED"
    <3>1. p # q /\ pc[p] \in Late /\ p \in Requests \ slipped /\ pc[p] # "idle"
      BY <2>2, <1>3, <1>4, <1>8 DEF Late
    <3>2. call[p].b \in BarIds /\ bars[call[p].b].status # "APPROVED"
      BY <2>2, <3>1, CallOf, Parts DEF ReviewOK
    <3>3. call[q].op = "approve" => call[p].b # b
      BY <2>2, <3>1, <1>8 DEF Editing, InFlight, Ended, Late
    <3> QED BY <3>2, <3>3, <1>2, <1>5, <1>6
  <2>3. \A p \in missed \cup late : pc[p] # "idle" /\ call[p].b = b
    BY <1>4, Parts DEF ReviewOK, Editing, InFlight, Ended
  <2>4. \A p \in slipped : p \in Requests /\ pc[p] # "idle" /\ call[p].b \in BarIds
                            /\ "BAR_APPROVED" \in audit[call[p].b]
    BY CallOf, Parts DEF ReviewOK, TypeOK
  <2>5. ASSUME NEW p \in slipped' PROVE pc'[p] # "idle" /\ "BAR_APPROVED" \in audit'[call[p].b]
    <3>1. CASE p \in slipped
      BY <3>1, <2>4, <1>4, <1>7 DEF Lasting
    <3>2. CASE p \in missed \cup late /\ call[q].op = "approve"
      BY <3>2, <2>3, <2>5, <1>4, <1>7, <1>8 DEF Lasting
    <3> QED BY <2>5, <3>1, <3>2, <1>8
  <2>6. \A a \in BarIds : \A p \in unread'[a] : pc'[p] # "idle" /\ call[p].b = a
    <3>1. \A a \in BarIds : \A p \in unread[a] : p \in Requests /\ pc[p] # "idle" /\ call[p].b = a
      BY Parts DEF ReviewOK, TypeOK
    <3>2. \A a \in BarIds : unread'[a] \subseteq unread[a]
      BY <1>8
    <3> QED BY <3>1, <3>2, <1>4 DEF Lasting
  <2> QED BY <2>1, <2>2, <2>5, <2>6, <1>1 DEF ReviewOK
<1>13. TextOK'
  <2>1. newest[b] # q
    BY <1>1, <1>4, Parts, BarNulls DEF TextOK
  <2>2. EditsStand'
    <3> SUFFICES ASSUME NEW a \in BarIds, bars'[a] # NoRow, bars'[a].text # newest[a]
                 PROVE  \E p \in Requests \ {newest[a]} :
                            /\ pc'[p] = "done" /\ call[p].op \in Savers
                            /\ call[p].b = a /\ ent[p].text = bars'[a].text
      BY <1>1 DEF EditsStand
    <3>1. CASE a = b /\ "text" \in cols[q]
      BY <3>1, <2>1, <1>3, <1>4, <1>5, <1>6
    <3>2. CASE ~(a = b /\ "text" \in cols[q])
      <4>1. bars[a] # NoRow /\ bars'[a].text = bars[a].text
        BY <3>2, <1>4, <1>5, <1>6
      <4>2. PICK p \in Requests \ {newest[a]} : /\ pc[p] = "done" /\ call[p].op \in Savers
                                                /\ call[p].b = a /\ ent[p].text = bars[a].text
        <5>1. EditsStand
          BY Parts DEF TextOK
        <5> QED BY <4>1, <5>1 DEF EditsStand
      <4> QED BY <4>1, <4>2, <1>4 DEF Lasting
    <3> QED BY <3>1, <3>2
  <2>3. ASSUME NEW a \in BarIds, bars'[a] # NoRow, bars'[a].text # Earlier
        PROVE  pc'[bars'[a].text] = "done"
    <3>1. \/ bars[a] # NoRow /\ bars'[a].text = bars[a].text
          \/ bars'[a].text = ent[q].text
      BY <2>3, <1>4, <1>5, <1>6
    <3>2. bars'[a].text \in Requests
      <4>1. bars'[a] \in BarRow
        BY <2>3, <1>6
      <4> QED BY <4>1, <2>3 DEF BarRow, Texts
    <3>3. ent[q] # NoRow
      BY <1>1, <1>3, <1>4 DEF CallOK
    <3>4. pc[bars'[a].text] = "done"
      <4>1. pc[q] # "idle"
        BY <1>1
      <4>2. CASE bars[a] # NoRow /\ bars'[a].text = bars[a].text
        BY <2>3, <4>2, Parts DEF TextOK
      <4>3. CASE bars'[a].text = ent[q].text
        BY <2>3, <4>1, <4>3, <3>3, Parts DEF TextOK
      <4> QED BY <3>1, <4>2, <4>3
    <3> QED BY <3>2, <3>4, <1>4 DEF Lasting
  <2>4. \A a \in BarIds : newest[a] # Earlier => newest[a] \in Requests /\ pc'[newest[a]] = "done"
    BY <1>4, Parts DEF TextOK, TypeOK, Texts, Lasting
  <2>5. \A p \in Requests : pc'[p] # "idle" /\ ent[p] # NoRow /\ ent[p].text # Earlier =>
           pc'[ent[p].text] = "done"
    <3>1. \A p \in Requests : ent[p] # NoRow /\ ent[p].text # Earlier => ent[p].text \in Requests
      <4>1. \A p \in Requests : ent[p] # NoRow => ent[p] \in BarRow
        BY <1>4 DEF TypeOK
      <4> QED BY <4>1 DEF BarRow, Texts
    <3> QED BY <3>1, <1>4, Parts DEF TextOK, Lasting
  <2>6. \A p \in Requests : pc'[p] \in Late => pc[p] \in Late
    BY <1>4 DEF Late
  <2> QED BY <2>2, <2>3, <2>4, <2>5, <2>6, <1>1, Parts DEF TextOK
<1>14. MenuOK'
  <2>1. \A a \in BarIds : \A p \in Replacing(a)' : p \in Replacing(a)
    BY <1>1, <1>4 DEF Replacing, Editing, InFlight, Ended
  <2> QED BY <1>1, <1>4, <2>1, MenuKept DEF Seen
<1>15. PhotoOK'
  BY <1>1, <1>4, PhotoKept
<1>16. LimitOK'
  <2>1. \A a \in BarIds : Uploading(a)' \subseteq Uploading(a)
    BY <1>1, <1>4 DEF Uploading, InFlight, Ended
  <2> QED BY <1>1, <1>4, <2>1, LimitKept
<1>17. DeletedOK'
  <2>1. \A a \in BarIds : /\ bars'[a] = NoRow <=> bars[a] = NoRow
                          /\ bars[a] # NoRow /\ bars'[a].deleted => bars[a].deleted
    BY <1>4, <1>5, <1>6
  <2>2. \A p \in Requests : \A k \in RowKeys : ~Ended(p)' /\ Begun(p, k)' => Begun(p, k)
    BY <1>1, <1>4 DEF Begun, Ended
  <2> QED BY <1>1, <1>4, <2>1, <2>2, DeletedKept DEF Seen, InFlight
<1>18. HeldOK'
  BY <1>1, <1>4, HeldKept DEF Seen
<1>19. ComesBackBeside
  <2> SUFFICES ASSUME NEW a \in BarIds, bars[a] # NoRow, bars[a].deleted, ~bars'[a].deleted
               PROVE  \E p \in beside[a] : call[p].op \in Savers /\ pc'[p] = "done"
    BY DEF ComesBackBeside
  <2>1. a = b
    BY <1>6
  <2>2. q \in beside[b]
    BY <2>1, <1>3, <1>4, Parts DEF DeletedOK
  <2> QED BY <2>1, <2>2, <1>3, <1>4
<1> QED BY <1>9, <1>10, <1>11, <1>12, <1>13, <1>14, <1>15, <1>16, <1>17, <1>18, <1>19 DEF IInv

LEMMA BulkBeginStep ==
    ASSUME IInv, NEW q \in Requests, BulkBegin(q) PROVE IInv' /\ ComesBackBeside
<1> DEFINE b == call[q].b
           ks == Existing(b, Part(pc[q]))
<1>1. /\ pc[q] \in PartNames /\ seen[q] = NoRead /\ seen' = [seen EXCEPT ![q] = ks]
      /\ met' = IF pc[q] = "menu" /\ call[q].op \in Edits /\ Replacing(b) # {}
                THEN met \cup Replacing(b) \cup {q} ELSE met
      /\ UNCHANGED <<bars, rows, objects, audit, pc, call, ent, cols, held,
                     newest, unread, read, slipped, beside>>
  BY DEF BulkBegin, tables
<1>2. /\ TypeOK /\ CallOK /\ Lasting /\ pc[q] # "idle" /\ ~Ended(q)
      /\ b \in BarIds /\ call[q].op \in Edits \cup Deletions
  BY <1>1, Parts, CallOf DEF Lasting, PartNames, Ended, CallOK
<1>3. /\ ks \subseteq RowKeys /\ ks # NoRead
      /\ \A k \in ks : rows[b][k] # "none"
      /\ \A k \in RowKeys : k[1] = pc[q] /\ rows[b][k] # "none" => k \in ks
  <2>1. ks \subseteq RowKeys /\ \A k \in ks : rows[b][k] # "none"
    BY <1>1, PartKeys DEF Existing
  <2>2. \A k \in RowKeys : k[1] = pc[q] /\ rows[b][k] # "none" => k \in ks
    BY <1>1, PartKeys DEF Existing
  <2> QED BY <2>1, <2>2, BarNulls
<1>4. /\ seen' \in [Requests -> {NoRead} \cup SUBSET RowKeys] /\ seen'[q] = ks
      /\ \A p \in Requests \ {q} : seen'[p] = seen[p]
  BY <1>1, <1>2, <1>3 DEF TypeOK
<1>5. /\ Seen(q)' = ks
      /\ \A p \in Requests : Seen(p) \cup held[p] \subseteq Seen(p)' \cup held'[p]
  <2>1. Seen(q)' = ks
    BY <1>3, <1>4 DEF Seen
  <2> QED BY <2>1, <1>1, <1>4 DEF Seen
<1>6. met \subseteq met' /\ met' \subseteq Requests
  <2>1. Replacing(b) \subseteq Requests
    BY DEF Replacing, Editing, InFlight
  <2> QED BY <2>1, <1>1, <1>2 DEF TypeOK
<1>7. TypeOK'
  BY <1>1, <1>2, <1>4, <1>6 DEF TypeOK
<1>8. CallOK' /\ AbsentOK'
  BY <1>1, <1>2, <1>4, Parts DEF CallOK, AbsentOK, Files
<1>9. ReviewOK'
  BY <1>1, <1>2, ReviewKept DEF SameStatus
<1>10. TextOK'
  BY <1>1, <1>2, TextKept DEF SameText
<1>11. HeldOK'
  <2> SUFFICES ASSUME NEW p \in Requests, pc[p] # "idle", call[p].op \in Edits \cup Deletions,
                      NEW k \in Seen(p)' \cup held[p]
               PROVE  rows[call[p].b][k] # "none"
    BY <1>1 DEF HeldOK
  <2>1. k \in Seen(p) \cup held[p] \/ (p = q /\ k \in ks)
    BY <1>4 DEF Seen
  <2> QED BY <2>1, <1>3, Parts DEF HeldOK
<1>12. MenuOK'
  <2>1. OneMenu'
    BY <1>1, <1>6, Parts DEF MenuOK, OneMenu, Live
  <2>2. \A a \in BarIds : Live(a, Menu)' = Live(a, Menu)
    BY <1>1 DEF Live
  <2>3. ASSUME NEW a \in BarIds, NEW p \in Replacing(a)', p \notin met'
        PROVE  Live(a, Menu) \subseteq Seen(p)' \cup held[p] /\ Replacing(a)' = {p}
    <3>1. CASE pc[q] = "menu" /\ call[q].op \in Edits /\ a = b
      <4>1. Replacing(b)' = Replacing(b) \cup {q}
        <5>1. q \in Editing(b)' /\ Editing(b)' = Editing(b)
          BY <3>1, <1>1, <1>2 DEF Editing, InFlight, Ended
        <5>2. call[q].menu # Keep
          BY <3>1, <1>2 DEF CallOK
        <5> QED BY <3>1, <5>1, <5>2, <1>1, <1>3, <1>4 DEF Replacing
      <4>2. Replacing(b) = {} /\ p = q
        BY <2>3, <3>1, <4>1, <1>1
      <4>3. Live(b, Menu) \subseteq ks
        <5> SUFFICES ASSUME NEW k \in Menu, rows[b][k] = "live" PROVE k \in ks
          BY DEF Live
        <5>1. k \in RowKeys /\ k[1] = pc[q] /\ rows[b][k] # "none"
          BY <3>1, KeyParts
        <5> QED BY <5>1, <1>3
      <4>4. Seen(p)' = ks
        BY <4>2, <1>3, <1>4 DEF Seen
      <4>5. Replacing(a)' = Replacing(b)'
        BY <3>1, <1>1
      <4> QED BY <3>1, <4>1, <4>2, <4>3, <4>4, <4>5
    <3>2. CASE ~(pc[q] = "menu" /\ call[q].op \in Edits /\ a = b)
      <4>1. Replacing(a)' = Replacing(a)
        <5>1. Editing(a)' = Editing(a)
          BY <1>1 DEF Editing, InFlight, Ended
        <5>2. q \in Editing(a) => pc[q] # "menu"
          BY <3>2 DEF Editing, InFlight
        <5>3. Editing(a) \subseteq Requests
          BY DEF Editing, InFlight
        <5> QED BY <5>1, <5>2, <5>3, <1>1, <1>4 DEF Replacing
      <4> QED BY <2>3, <4>1, <1>5, <1>6, <1>1, Parts DEF MenuOK, Replacing, Editing, InFlight
    <3> QED BY <3>1, <3>2
  <2> QED BY <2>1, <2>2, <2>3, <1>1 DEF MenuOK
<1>13. PhotoOK'
  BY <1>1, <1>2, PhotoKept
<1>14. LimitOK'
  <2>1. \A a \in BarIds : Uploading(a)' \subseteq Uploading(a)
    BY <1>1 DEF Uploading, InFlight, Ended
  <2> QED BY <1>1, <1>2, <1>6, <2>1, LimitKept
<1>15. DeletedOK'
  <2>1. \A p \in Requests \ {q} : \A k \in RowKeys : Begun(p, k)' => Begun(p, k)
    BY <1>1, <1>4 DEF Begun
  <2>2. \A k \in RowKeys : Begun(q, k)' =>
           Begun(q, k) \/ k \in Seen(q)' \cup held'[q] \/ rows[b][k] # "live"
    BY <1>1, <1>3, <1>4 DEF Begun, Seen
  <2>3. \A a \in BarIds : \A p \in InFlight(a)' : p \in Requests /\ call[p].b = a
    BY <1>1 DEF InFlight
  <2> QED BY <1>1, <1>2, <1>5, <2>1, <2>2, <2>3, DeletedKept DEF Ended
<1> QED BY <1>1, <1>7, <1>8, <1>9, <1>10, <1>11, <1>12, <1>13, <1>14, <1>15
        DEF IInv, ComesBackBeside

LEMMA BulkEndStep ==
    ASSUME IInv, NEW q \in Requests, BulkEnd(q) PROVE IInv' /\ ComesBackBeside
<1> DEFINE n == After(q, pc[q])
<1>1. /\ pc[q] \in PartNames /\ seen[q] # NoRead /\ Go(q, n)
      /\ held' = [held EXCEPT ![q] = held[q] \cup seen[q]] /\ seen' = [seen EXCEPT ![q] = NoRead]
      /\ UNCHANGED <<bars, rows, objects, audit, call, ent, cols,
                     newest, unread, read, slipped, beside, met>>
  BY DEF BulkEnd, tables, history
<1>2. /\ TypeOK /\ CallOK /\ pc[q] # "idle" /\ ~Ended(q)
      /\ call[q].op \in Edits \cup Deletions
      /\ call[q].op \in Edits => pc[q] \in {"menu", "hours"}
  BY <1>1, Parts DEF PartNames, Ended, CallOK, Edits, Deletions
<1>3. /\ call[q].op \in Edits => /\ n \in {"hours", "commit"}
                                 /\ n = "hours" => call[q].hours # Keep
      /\ call[q].op \in Deletions =>
            /\ n \in {"menu", "hours", "bookmarks", "commit"}
            /\ pc[q] = "photos" => n = "menu"
            /\ pc[q] = "menu" => n = "hours"
            /\ pc[q] = "hours" => n = "bookmarks"
            /\ pc[q] = "bookmarks" => n = "commit"
  BY <1>1, <1>2 DEF After, PartNames, Edits, Deletions
<1>4. n \in PC \ {"idle"}
  BY <1>2, <1>3 DEF PC
<1>5. /\ pc' \in [Requests -> PC] /\ pc'[q] = n /\ Lasting
      /\ \A p \in Requests \ {q} : pc'[p] = pc[p]
      /\ \A p \in Requests : /\ pc'[p] # "idle" => pc[p] # "idle"
                             /\ ~Ended(p)' => ~Ended(p)
  BY <1>1, <1>2, <1>4, Works
<1>6. /\ seen' \in [Requests -> {NoRead} \cup SUBSET RowKeys]
      /\ held' \in [Requests -> SUBSET RowKeys]
      /\ seen'[q] = NoRead /\ held'[q] = held[q] \cup seen[q]
      /\ \A p \in Requests \ {q} : seen'[p] = seen[p] /\ held'[p] = held[p]
  BY <1>1, <1>2 DEF TypeOK
<1>7. \A p \in Requests : Seen(p)' \cup held'[p] = Seen(p) \cup held[p]
  BY <1>1, <1>6 DEF Seen
<1>8. TypeOK'
  BY <1>1, <1>2, <1>3, <1>5, <1>6 DEF TypeOK
<1>9. CallOK'
  BY <1>1, <1>2, <1>3, <1>5, <1>6 DEF CallOK, Files, Edits, Deletions
<1>10. AbsentOK'
  BY <1>1, Parts DEF AbsentOK
<1>11. ReviewOK'
  BY <1>1, <1>2, <1>5, ReviewKept DEF SameStatus, Late
<1>12. TextOK'
  BY <1>1, <1>2, <1>5, TextKept DEF SameText, Late
<1>13. HeldOK'
  BY <1>1, <1>5, <1>7, HeldKept
<1>14. MenuOK'
  <2>1. \A a \in BarIds : \A p \in Replacing(a)' : p \in Replacing(a)
    BY <1>1, <1>2, <1>5, <1>6 DEF Replacing, Editing, InFlight, Ended
  <2>2. \A a \in BarIds : \A p \in Replacing(a)' : p \in Requests
    BY DEF Replacing, Editing, InFlight
  <2> QED BY <1>1, <1>5, <1>7, <2>1, <2>2, MenuKept
<1>15. PhotoOK'
  <2>1. \A p \in Requests : pc'[p] # "idle" /\ call'[p].op = "upload" => held'[p] \subseteq held[p]
    BY <1>1, <1>2, <1>6 DEF Edits, Deletions
  <2>2. \A p \in Requests : pc[p] \in {"unlink", "failed"} => pc'[p] \in {"unlink", "failed"}
    BY <1>1, <1>5 DEF PartNames
  <2>3. \A p \in Requests : pc'[p] \in {"idle", "count", "store"} => pc[p] \in {"idle", "count", "store"}
    BY <1>2, <1>3, <1>5
  <2> QED BY <1>1, <1>5, <2>1, <2>2, <2>3, PhotoKept
<1>16. LimitOK'
  <2>1. \A a \in BarIds : Uploading(a)' \subseteq Uploading(a)
    BY <1>1, <1>2, <1>3, <1>5 DEF Uploading, InFlight, Ended
  <2> QED BY <1>1, <1>5, <2>1, LimitKept
<1>17. DeletedOK'
  <2>1. \A p \in Requests \ {q} : \A k \in RowKeys : Begun(p, k)' => Begun(p, k)
    BY <1>1, <1>5, <1>6 DEF Begun
  <2>2. ASSUME call[q].op \in Deletions, NEW k \in RowKeys, Begun(q, k)' PROVE Begun(q, k)
    <3>1. n \in Past(k[1])
      BY <2>2, <1>5, <1>6 DEF Begun
    <3>2. k[1] \in PartNames
      BY KeyParts DEF PartNames
    <3>3. pc[q] = k[1] \/ pc[q] \in Past(k[1])
      BY <2>2, <3>1, <3>2, <1>1, <1>3 DEF Past, PartNames
    <3> QED BY <3>3, <1>1 DEF Begun
  <2>3. \A a \in BarIds : \A p \in InFlight(a)' : p \in Requests
    BY DEF InFlight
  <2> QED BY <1>1, <1>2, <1>5, <1>7, <2>1, <2>2, <2>3, DeletedKept
<1> QED BY <1>1, <1>8, <1>9, <1>10, <1>11, <1>12, <1>13, <1>14, <1>15, <1>16, <1>17
        DEF IInv, ComesBackBeside

\* A request ends, and has written nothing in its last step.
LEMMA EndStep ==
    ASSUME IInv, NEW q \in Requests, ~Ended(q), NEW n \in {"done", "conflict", "failed"}, Go(q, n),
           pc[q] = "unlink" => n = "failed",
           UNCHANGED <<tables, call, ent, cols, history>>,
           held' = [held EXCEPT ![q] = {}],
           seen' = [seen EXCEPT ![q] = NoRead]
    PROVE  IInv' /\ ComesBackBeside
<1>1. UNCHANGED <<bars, rows, objects, audit, call, ent, cols,
                  newest, unread, read, slipped, beside, met>>
  BY DEF tables, history
<1>2. n \in PC \ {"idle"}
  BY DEF PC
<1>3. /\ TypeOK /\ CallOK /\ pc' \in [Requests -> PC] /\ pc'[q] = n /\ Lasting
      /\ \A p \in Requests \ {q} : pc'[p] = pc[p]
      /\ \A p \in Requests : /\ pc'[p] # "idle" => pc[p] # "idle"
                             /\ ~Ended(p)' => ~Ended(p)
  BY <1>1, <1>2, Works
<1>4. /\ seen' \in [Requests -> {NoRead} \cup SUBSET RowKeys]
      /\ held' \in [Requests -> SUBSET RowKeys] /\ seen'[q] = NoRead /\ held'[q] = {}
      /\ \A p \in Requests \ {q} : seen'[p] = seen[p] /\ held'[p] = held[p]
  BY <1>3 DEF TypeOK
<1>5. TypeOK'
  BY <1>1, <1>3, <1>4 DEF TypeOK
<1>6. CallOK'
  BY <1>1, <1>3, <1>4 DEF CallOK, Files
<1>7. AbsentOK'
  BY <1>1, Parts DEF AbsentOK
<1>8. ReviewOK'
  BY <1>1, <1>3, ReviewKept DEF SameStatus, Late
<1>9. TextOK'
  BY <1>1, <1>3, TextKept DEF SameText, Late
<1>10. HeldOK'
  BY <1>1, <1>3, <1>4, HeldKept DEF Seen
<1>11. MenuOK'
  <2>1. \A a \in BarIds : \A p \in Replacing(a)' :
           p \in Requests \ {q} /\ p \in Replacing(a)
    BY <1>1, <1>3, <1>4 DEF Replacing, Editing, InFlight, Ended
  <2> QED BY <1>1, <1>3, <1>4, <2>1, MenuKept DEF Seen
<1>12. PhotoOK'
  <2>1. \A p \in Requests : pc[p] \in {"unlink", "failed"} => pc'[p] \in {"unlink", "failed"}
    BY <1>3 DEF Ended
  <2> QED BY <1>1, <1>3, <1>4, <2>1, PhotoKept
<1>13. LimitOK'
  <2>1. \A a \in BarIds : Uploading(a)' \subseteq Uploading(a)
    BY <1>1, <1>3 DEF Uploading, InFlight, Ended
  <2> QED BY <1>1, <1>3, <2>1, LimitKept
<1>14. DeletedOK'
  <2>1. \A a \in BarIds : \A p \in InFlight(a)' : p \in Requests \ {q}
    BY <1>3 DEF InFlight, Ended
  <2>2. \A p \in Requests \ {q} : \A k \in RowKeys : Begun(p, k)' => Begun(p, k)
    BY <1>3, <1>4 DEF Begun
  <2> QED BY <1>1, <1>3, <1>4, <2>1, <2>2, DeletedKept DEF Seen
<1> QED BY <1>1, <1>5, <1>6, <1>7, <1>8, <1>9, <1>10, <1>11, <1>12, <1>13, <1>14
        DEF IInv, ComesBackBeside

LEMMA FailStep == ASSUME IInv, NEW q \in Requests, Fail(q) PROVE IInv' /\ ComesBackBeside
BY EndStep DEF Fail

\* The inserts of an edit are committed.
LEMMA EditStands ==
    ASSUME IInv, NEW q \in Requests, CommitUpdate(q), Existing(call[q].b, NewHours(q)) = {}
    PROVE  IInv' /\ ComesBackBeside
<1> DEFINE b == call[q].b
           new == NewMenu(q) \cup NewHours(q)
           r == Patched(q, bars[b], Entity(q), cols[q])
<1>1. /\ pc[q] = "commit" /\ call[q].op \in Edits /\ Go(q, "done")
      /\ bars' = [bars EXCEPT ![b] = r]
      /\ rows' = [rows EXCEPT ![b] = [k \in RowKeys |->
                    IF k \in new THEN "live" ELSE IF k \in held[q] THEN "deleted" ELSE rows[b][k]]]
      /\ newest' = IF call[q].text THEN [newest EXCEPT ![b] = q] ELSE newest
      /\ unread' = [unread EXCEPT ![b] = unread[b] \cup {q}]
      /\ held' = [held EXCEPT ![q] = {}]
      /\ UNCHANGED <<objects, audit, call, ent, cols, seen, read, slipped, beside, met>>
  BY DEF CommitUpdate
<1>2. /\ ~Ended(q) /\ "done" \in PC \ {"idle"} /\ call[q].op \in Savers
      /\ call[q].op \notin Deletions /\ call[q].op # "upload" /\ call[q].op # "removePhoto"
  BY <1>1 DEF Ended, PC, Savers, Edits, Deletions
<1>3. /\ TypeOK /\ CallOK /\ pc' \in [Requests -> PC] /\ pc'[q] = "done" /\ Lasting
      /\ \A p \in Requests \ {q} : pc'[p] = pc[p]
      /\ \A p \in Requests : /\ pc'[p] # "idle" => pc[p] # "idle"
                             /\ ~Ended(p)' => ~Ended(p)
      /\ b \in BarIds /\ bars[b] # NoRow /\ bars[b] \in BarRow /\ q \in InFlight(b)
      /\ call[q].text \in BOOLEAN
  BY <1>1, <1>2, Works, CallFields DEF TypeOK
<1>4. /\ r \in BarRow /\ r # NoRow
      /\ r.status = IF "status" \in cols[q] THEN "PENDING" ELSE bars[b].status
      /\ r.text = IF "text" \in cols[q] THEN (IF call[q].text THEN q ELSE ent[q].text) ELSE bars[b].text
      /\ r.deleted => bars[b].deleted
  BY <1>1, <1>2, <1>3, EntityFields, PatchedFields
<1>5. bars' \in [BarIds -> BarRow \cup {NoRow}] /\ bars'[b] = r
      /\ \A a \in BarIds \ {b} : bars'[a] = bars[a]
  BY <1>1, <1>3, <1>4 DEF TypeOK
<1>6. new \subseteq RowKeys /\ new \cap Photos = {} /\ new \cap Menu = NewMenu(q)
  <2>1. NewMenu(q) \subseteq Menu /\ NewHours(q) \subseteq Hours
    BY <1>1, <1>2, <1>3, WrittenKeys
  <2> QED BY <2>1, KeyParts
<1>7. /\ rows' \in [BarIds -> [RowKeys -> RowState]] /\ \A a \in BarIds \ {b} : rows'[a] = rows[a]
      /\ \A k \in RowKeys : rows'[b][k] = IF k \in new THEN "live"
                                          ELSE IF k \in held[q] THEN "deleted" ELSE rows[b][k]
  <2> DEFINE f == [k \in RowKeys |-> IF k \in new THEN "live"
                                     ELSE IF k \in held[q] THEN "deleted" ELSE rows[b][k]]
  <2>1. f \in [RowKeys -> RowState] /\ rows \in [BarIds -> [RowKeys -> RowState]]
    BY <1>3 DEF TypeOK, RowState
  <2>2. rows' = [rows EXCEPT ![b] = f]
    BY <1>1
  <2> QED BY <2>1, <2>2, <1>3
<1>8. /\ newest' \in [BarIds -> Texts] /\ \A a \in BarIds \ {b} : newest'[a] = newest[a]
      /\ newest'[b] = IF call[q].text THEN q ELSE newest[b]
      /\ unread' \in [BarIds -> SUBSET Requests] /\ unread'[b] = unread[b] \cup {q}
      /\ \A a \in BarIds \ {b} : unread'[a] = unread[a]
  BY <1>1, <1>3 DEF TypeOK, Texts
<1>9. /\ held' \in [Requests -> SUBSET RowKeys] /\ held'[q] = {} /\ seen[q] = NoRead
      /\ \A p \in Requests \ {q} : held'[p] = held[p]
  BY <1>1, <1>3 DEF TypeOK, CallOK, PartNames
<1>10. TypeOK'
  BY <1>1, <1>3, <1>5, <1>7, <1>8, <1>9 DEF TypeOK
<1>11. CallOK'
  BY <1>1, <1>2, <1>3, <1>4, <1>5, <1>9 DEF CallOK, Files, PartNames
<1>12. AbsentOK'
  BY <1>3, <1>4, <1>5, <1>7, Parts DEF AbsentOK
<1>13. ReviewOK'
  <2>1. q \in slipped \/ r.status # "APPROVED"
    BY <1>1, <1>4, Parts DEF ReviewOK, Late
  <2>2. ASSUME NEW a \in BarIds, bars'[a] # NoRow, bars'[a].status = "APPROVED"
        PROVE  /\ unread'[a] \subseteq slipped
               /\ "BAR_APPROVED" \in audit[a] \/ unread'[a] = {}
    <3>1. bars[a] # NoRow /\ bars[a].status = "APPROVED"
      BY <2>2, <1>3, <1>4, <1>5
    <3>2. /\ unread[a] \subseteq slipped
          /\ "BAR_APPROVED" \in audit[a] \/ unread[a] = {}
      BY <3>1, Parts DEF ReviewOK, ApprovedIsReviewed
    <3>3. q \in slipped => "BAR_APPROVED" \in audit[b]
      BY Parts DEF ReviewOK
    <3> QED BY <3>2, <3>3, <2>1, <2>2, <1>5, <1>8
  <2>3. ASSUME NEW p \in Requests \ slipped, pc'[p] \in Late, call[p].op \in Edits,
               "status" \notin cols[p]
        PROVE  bars'[call[p].b].status # "APPROVED"
    <3>1. p # q /\ pc[p] = pc'[p] /\ pc[p] # "idle"
      BY <2>3, <1>3 DEF Late
    <3>2. bars[call[p].b].status # "APPROVED" /\ call[p].b \in BarIds
      BY <2>3, <3>1, Parts, CallOf DEF ReviewOK
    <3> QED BY <3>2, <1>4, <1>5
  <2>4. \A p \in slipped : pc'[p] # "idle" /\ "BAR_APPROVED" \in audit[call[p].b]
    BY <1>3, Parts DEF ReviewOK, Lasting, TypeOK
  <2>5. \A a \in BarIds : \A p \in unread'[a] : pc'[p] # "idle" /\ call[p].b = a
    <3>1. \A a \in BarIds : \A p \in unread[a] : p \in Requests /\ pc[p] # "idle" /\ call[p].b = a
      BY Parts DEF ReviewOK, TypeOK
    <3> QED BY <3>1, <1>3, <1>8 DEF Lasting
  <2> QED BY <2>2, <2>3, <2>4, <2>5, <1>1 DEF ReviewOK, ApprovedIsReviewed
<1>14. TextOK'
  <2>1. newest[b] # q
    BY <1>1, <1>3, Parts, BarNulls DEF TextOK
  <2>2. call[q].text => "text" \in cols[q]
    BY <1>1, Parts DEF TextOK, Late
  <2>3. EditsStand'
    <3> SUFFICES ASSUME NEW a \in BarIds, bars'[a] # NoRow, bars'[a].text # newest'[a]
                 PROVE  \E p \in Requests \ {newest'[a]} :
                            /\ pc'[p] = "done" /\ call[p].op \in Savers
                            /\ call[p].b = a /\ ent[p].text = bars'[a].text
      BY <1>1 DEF EditsStand
    <3>1. a = b => ~call[q].text
      BY <2>2, <1>4, <1>5, <1>8
    <3>2. CASE a = b /\ "text" \in cols[q]
      BY <3>1, <3>2, <2>1, <1>2, <1>3, <1>4, <1>5, <1>8
    <3>3. CASE ~(a = b /\ "text" \in cols[q])
      <4>1. bars[a] # NoRow /\ bars'[a].text = bars[a].text /\ newest'[a] = newest[a]
        BY <3>1, <3>3, <1>3, <1>4, <1>5, <1>8
      <4>2. PICK p \in Requests \ {newest[a]} : /\ pc[p] = "done" /\ call[p].op \in Savers
                                                /\ call[p].b = a /\ ent[p].text = bars[a].text
        <5>1. EditsStand
          BY Parts DEF TextOK
        <5> QED BY <4>1, <5>1 DEF EditsStand
      <4> QED BY <4>1, <4>2, <1>3 DEF Lasting
    <3> QED BY <3>2, <3>3
  <2>4. \A p \in Requests : ent[p] # NoRow /\ ent[p].text # Earlier /\ pc[p] # "idle" =>
           ent[p].text \in Requests /\ pc'[ent[p].text] = "done"
    <3>1. \A p \in Requests : ent[p] # NoRow => ent[p] \in BarRow
      BY <1>3 DEF TypeOK
    <3> QED BY <3>1, <1>3, Parts DEF BarRow, Texts, TextOK, Lasting
  <2>5. \A a \in BarIds : bars[a] # NoRow /\ bars[a].text # Earlier =>
           bars[a].text \in Requests /\ pc'[bars[a].text] = "done"
    <3>1. \A a \in BarIds : bars[a] # NoRow => bars[a] \in BarRow
      BY <1>3 DEF TypeOK
    <3> QED BY <3>1, <1>3, Parts DEF BarRow, Texts, TextOK, Lasting
  <2>6. \A a \in BarIds : bars'[a] # NoRow /\ bars'[a].text # Earlier => pc'[bars'[a].text] = "done"
    <3>1. ent[q] # NoRow /\ pc[q] # "idle"
      BY <1>1, <1>2, <1>3 DEF CallOK
    <3>2. r.text # Earlier => pc'[r.text] = "done"
      BY <3>1, <2>4, <2>5, <1>3, <1>4
    <3> QED BY <3>2, <2>5, <1>5
  <2>7. \A a \in BarIds : newest'[a] # Earlier =>
           /\ pc'[newest'[a]] = "done"
           /\ call[newest'[a]].op \in Savers =>
                 call[newest'[a]].op \in Edits /\ call[newest'[a]].text
    <3>1. \A a \in BarIds : newest[a] # Earlier =>
             /\ newest[a] \in Requests /\ pc'[newest[a]] = "done"
             /\ call[newest[a]].op \in Savers =>
                   call[newest[a]].op \in Edits /\ call[newest[a]].text
      BY <1>3, Parts DEF TextOK, TypeOK, Texts, Lasting
    <3> QED BY <3>1, <1>1, <1>3, <1>8
  <2>8. \A p \in Requests : pc'[p] \in Late => pc[p] \in Late
    BY <1>3 DEF Late
  <2> QED BY <2>3, <2>4, <2>6, <2>7, <2>8, <1>1, <1>3, Parts DEF TextOK
<1>15. HeldOK'
  BY <1>1, <1>3, <1>7, <1>9, HeldKept DEF Seen
<1>16. MenuOK'
  <2>1. \A a \in BarIds \ {b} : Live(a, Menu)' = Live(a, Menu)
    BY <1>7 DEF Live
  <2>2. \A a \in BarIds : a = b => Live(a, Menu)' = (Live(a, Menu) \ held[q]) \cup NewMenu(q)
    BY <1>6, <1>7, KeyParts DEF Live
  <2>3. call[q].menu = Keep => NewMenu(q) = {}
    BY BarNulls DEF NewMenu
  <2>4. call[q].menu # Keep => q \in Replacing(b)
    BY <1>1, <1>3 DEF Replacing, Editing
  <2>5. ASSUME NEW a \in BarIds, NEW k \in Live(a, Menu)', NEW o \in Live(a, Menu)', k # o
        PROVE  {k[2], o[2]} \cap met # {}
    <3>1. CASE k \in Live(a, Menu) /\ o \in Live(a, Menu)
      BY <2>5, <3>1, Parts DEF MenuOK, OneMenu
    <3>2. CASE ~(k \in Live(a, Menu) /\ o \in Live(a, Menu))
      <4>1. a = b /\ NewMenu(q) # {} /\ NewMenu(q) = {<<"menu", q>>}
        BY <2>1, <2>2, <3>2 DEF NewMenu
      <4>2. q \in met
        <5> SUFFICES ASSUME q \notin met PROVE FALSE
          OBVIOUS
        <5>1. Live(b, Menu) \subseteq held[q]
          <6>1. q \in Replacing(b) \ met /\ Seen(q) = {}
            BY <4>1, <2>3, <2>4, <1>9 DEF Seen
          <6> QED BY <6>1, <1>3, Parts DEF MenuOK
        <5> QED BY <5>1, <4>1, <2>2, <2>5
      <4>3. k = <<"menu", q>> \/ o = <<"menu", q>>
        BY <4>1, <2>2, <3>2
      <4> QED BY <4>2, <4>3
    <3> QED BY <3>1, <3>2
  <2>6. ASSUME NEW a \in BarIds, NEW p \in Replacing(a)', p \notin met
        PROVE  Live(a, Menu)' \subseteq Seen(p)' \cup held'[p] /\ Replacing(a)' = {p}
    <3>1. Replacing(a)' \subseteq Replacing(a) \ {q}
      BY <1>1, <1>3 DEF Replacing, Editing, InFlight, Ended
    <3>2. Live(a, Menu) \subseteq Seen(p) \cup held[p] /\ Replacing(a) = {p}
      BY <2>6, <3>1, Parts DEF MenuOK
    <3>3. p \in Requests \ {q}
      BY <3>1 DEF Replacing, Editing, InFlight
    <3>4. Seen(p)' = Seen(p) /\ held'[p] = held[p]
      BY <3>3, <1>1, <1>9 DEF Seen
    <3>5. Live(a, Menu)' \subseteq Live(a, Menu)
      <4>1. CASE a = b
        BY <4>1, <3>1, <3>2, <2>2, <2>3, <2>4
      <4>2. CASE a # b
        BY <4>2, <2>1
      <4> QED BY <4>1, <4>2
    <3> QED BY <2>6, <3>1, <3>2, <3>4, <3>5
  <2> QED BY <2>5, <2>6, <1>1 DEF MenuOK, OneMenu
<1>17. PhotoOK'
  <2>1. \A a \in BarIds : \A k \in Photos :
           \/ rows'[a][k] = rows[a][k]
           \/ rows'[a][k] = "deleted" /\ rows[a][k] # "none"
    <3>1. \A k \in held[q] : rows[b][k] # "none"
      <4>1. pc[q] # "idle"
        BY <1>1
      <4> QED BY <4>1, <1>1, Parts DEF HeldOK
    <3>2. \A k \in Photos : k \in RowKeys /\ k \notin new
      BY <1>6, KeyParts
    <3> QED BY <3>1, <3>2, <1>7
  <2>2. \A p \in Requests : pc'[p] # "idle" /\ call'[p].op = "upload" => held'[p] \subseteq held[p]
    BY <1>9
  <2>3. \A p \in Requests : pc[p] \in {"unlink", "failed"} => pc'[p] \in {"unlink", "failed"}
    BY <1>1, <1>3
  <2> QED BY <1>1, <1>3, <2>1, <2>2, <2>3, PhotoKept
<1>18. LimitOK'
  <2>1. \A a \in BarIds : Uploading(a)' \subseteq Uploading(a)
    BY <1>1, <1>3 DEF Uploading, InFlight, Ended
  <2>2. \A a \in BarIds : \A k \in Photos : rows'[a][k] = "live" => rows[a][k] = "live"
    BY <1>6, <1>7, KeyParts
  <2> QED BY <1>1, <1>3, <2>1, <2>2, LimitKept
<1>19. DeletedOK'
  <2>1. \A a \in BarIds : /\ bars'[a] = NoRow <=> bars[a] = NoRow
                          /\ bars[a] # NoRow /\ bars'[a].deleted => bars[a].deleted
    BY <1>3, <1>4, <1>5
  <2>2. \A a \in BarIds : \A k \in RowKeys : rows'[a][k] = "live" =>
           \/ rows[a][k] = "live"
           \/ \E p \in InFlight(a) : /\ Writes(p, k)
                                     /\ call[p].op \in Savers \cup {"upload", "add"}
    BY <1>1, <1>2, <1>3, <1>7 DEF Writes
  <2>3. \A a \in BarIds : \A p \in InFlight(a)' : p \in Requests \ {q}
    BY <1>3 DEF InFlight, Ended
  <2>4. \A p \in Requests \ {q} : /\ Seen(p)' = Seen(p)
                                  /\ \A k \in RowKeys : Begun(p, k)' => Begun(p, k)
    BY <1>1, <1>3 DEF Seen, Begun
  <2> QED BY <1>1, <1>3, <1>9, <2>1, <2>2, <2>3, <2>4, DeletedKept
<1>20. ComesBackBeside
  <2> SUFFICES ASSUME NEW a \in BarIds, bars[a] # NoRow, bars[a].deleted, ~bars'[a].deleted
               PROVE  \E p \in beside[a] : call[p].op \in Savers /\ pc'[p] = "done"
    BY DEF ComesBackBeside
  <2>1. a = b
    BY <1>5
  <2>2. q \in beside[b]
    BY <2>1, <1>2, <1>3, Parts DEF DeletedOK
  <2> QED BY <2>1, <2>2, <1>2, <1>3
<1> QED BY <1>10, <1>11, <1>12, <1>13, <1>14, <1>15, <1>16, <1>17, <1>18, <1>19, <1>20 DEF IInv

LEMMA CommitUpdateStep ==
    ASSUME IInv, NEW q \in Requests, CommitUpdate(q) PROVE IInv' /\ ComesBackBeside
<1>1. CASE Existing(call[q].b, NewHours(q)) # {}
  <2>1. /\ pc[q] = "commit" /\ Go(q, "conflict") /\ held' = [held EXCEPT ![q] = {}]
        /\ UNCHANGED <<tables, newest, unread, call, ent, cols, seen, read, slipped, beside, met>>
    BY <1>1 DEF CommitUpdate
  <2>2. UNCHANGED <<tables, call, ent, cols, history>> /\ ~Ended(q)
    BY <2>1 DEF history, Ended
  <2>3. seen' = [seen EXCEPT ![q] = NoRead]
    BY <2>1, Parts DEF TypeOK, CallOK, PartNames
  <2> QED BY <2>1, <2>2, <2>3, EndStep
<1>2. CASE Existing(call[q].b, NewHours(q)) = {}
  BY <1>2, EditStands
<1> QED BY <1>1, <1>2

LEMMA CommitDeletionStep ==
    ASSUME IInv, NEW q \in Requests, CommitDeletion(q) PROVE IInv' /\ ComesBackBeside
<1> DEFINE b == call[q].b
           r == [bars[b] EXCEPT !.deleted = TRUE, !.updatedAt = q]
<1>1. /\ pc[q] = "commit" /\ call[q].op \in Deletions /\ Go(q, "done")
      /\ bars' = [bars EXCEPT ![b].deleted = TRUE, ![b].updatedAt = q] /\ rows' = Set(b, held[q], "deleted")
      /\ audit' = [audit EXCEPT ![b] = audit[b] \cup {"BAR_DELETED"}] \/ audit' = audit
      /\ held' = [held EXCEPT ![q] = {}]
      /\ UNCHANGED <<objects, call, ent, cols, seen, newest, unread, read, slipped, beside, met>>
  BY DEF CommitDeletion, Log, history
<1>2. /\ ~Ended(q) /\ "done" \in PC \ {"idle"}
      /\ call[q].op \notin Edits /\ call[q].op # "upload" /\ call[q].op # "removePhoto"
  BY <1>1 DEF Ended, PC, Edits, Deletions
<1>3. /\ TypeOK /\ CallOK /\ pc' \in [Requests -> PC] /\ pc'[q] = "done" /\ Lasting
      /\ \A p \in Requests \ {q} : pc'[p] = pc[p]
      /\ \A p \in Requests : /\ pc'[p] # "idle" => pc[p] # "idle"
                             /\ ~Ended(p)' => ~Ended(p)
      /\ b \in BarIds /\ bars[b] # NoRow /\ bars[b] \in BarRow /\ q \in InFlight(b)
  BY <1>1, <1>2, Works DEF TypeOK
<1>4. r \in BarRow /\ r # NoRow /\ r.status = bars[b].status /\ r.text = bars[b].text
  BY <1>3, BarNulls DEF BarRow, Texts
<1>5. /\ bars' \in [BarIds -> BarRow \cup {NoRow}] /\ bars'[b] = r
      /\ \A a \in BarIds \ {b} : bars'[a] = bars[a]
  BY <1>1, <1>3, <1>4 DEF TypeOK
<1>5a. r.deleted
  BY <1>3 DEF BarRow
<1> HIDE DEF r
<1>6. /\ rows' \in [BarIds -> [RowKeys -> RowState]] /\ \A a \in BarIds \ {b} : rows'[a] = rows[a]
      /\ \A k \in RowKeys : rows'[b][k] = IF k \in held[q] THEN "deleted" ELSE rows[b][k]
  <2>1. "deleted" \in RowState
    BY DEF RowState
  <2> QED BY <2>1, <1>1, <1>3, RowsSet
<1>7. /\ audit' \in [BarIds -> SUBSET Decisions] /\ \A a \in BarIds : audit[a] \subseteq audit'[a]
  <2>1. "BAR_DELETED" \in Decisions /\ audit \in [BarIds -> SUBSET Decisions]
    BY <1>3 DEF Decisions, TypeOK
  <2> QED BY <2>1, <1>1, <1>3
<1>8. /\ held' \in [Requests -> SUBSET RowKeys] /\ held'[q] = {} /\ seen[q] = NoRead
      /\ \A p \in Requests \ {q} : held'[p] = held[p]
  BY <1>1, <1>3 DEF TypeOK, CallOK, PartNames
<1>9. SameStatus /\ SameText
  BY <1>3, <1>4, <1>5 DEF SameStatus, SameText
<1>10. /\ \A a \in BarIds : \A k \in RowKeys : rows'[a][k] = "live" => rows[a][k] = "live"
       /\ \A a \in BarIds : \A k \in RowKeys :
             \/ rows'[a][k] = rows[a][k]
             \/ rows'[a][k] = "deleted" /\ rows[a][k] # "none"
  <2>1. \A k \in held[q] : rows[b][k] # "none"
    <3>1. pc[q] # "idle"
      BY <1>1
    <3> QED BY <3>1, <1>1, Parts DEF HeldOK
  <2> QED BY <2>1, <1>6
<1>10a. /\ pc[q] = "commit" /\ call[q].op \in Deletions
       /\ UNCHANGED <<objects, call, ent, cols, seen, newest, unread, read, slipped, beside, met>>
  BY <1>1
<1>11. TypeOK'
  BY <1>3, <1>5, <1>6, <1>7, <1>8, <1>10a DEF TypeOK
<1>12. CallOK'
  <2>1. \A a \in BarIds : bars[a] # NoRow => bars'[a] # NoRow
    BY <1>3, <1>4, <1>5
  <2>2. \A p \in Requests : pc[p] # "idle" => call[p].b \in BarIds
    BY CallOf, Parts
  <2> QED BY <2>1, <2>2, <1>2, <1>3, <1>8, <1>10a DEF CallOK, Files, PartNames
<1>13. AbsentOK'
  BY <1>3, <1>4, <1>5, <1>6, Parts DEF AbsentOK
<1>14. ReviewOK'
  BY <1>1, <1>2, <1>3, <1>7, <1>9, ReviewKept DEF Late
<1>15. TextOK'
  BY <1>1, <1>2, <1>3, <1>9, TextKept DEF Late
<1>16. HeldOK'
  BY <1>1, <1>3, <1>8, <1>10, HeldKept DEF Seen
<1>17. MenuOK'
  <2>1. \A a \in BarIds : \A p \in Replacing(a)' : p \in Requests \ {q} /\ p \in Replacing(a)
    BY <1>1, <1>3 DEF Replacing, Editing, InFlight, Ended
  <2> QED BY <1>1, <1>3, <1>8, <1>10, <2>1, MenuKept, KeyParts DEF Seen
<1>18. PhotoOK'
  <2>1. \A p \in Requests : pc'[p] # "idle" /\ call'[p].op = "upload" => held'[p] \subseteq held[p]
    BY <1>8
  <2>2. \A p \in Requests : pc[p] \in {"unlink", "failed"} => pc'[p] \in {"unlink", "failed"}
    BY <1>1, <1>3
  <2> QED BY <1>1, <1>3, <1>10, <2>1, <2>2, PhotoKept, KeyParts
<1>19. LimitOK'
  <2>1. \A a \in BarIds : Uploading(a)' \subseteq Uploading(a)
    BY <1>1, <1>3 DEF Uploading, InFlight, Ended
  <2> QED BY <1>1, <1>3, <1>10, <2>1, LimitKept, KeyParts
<1>20. DeletedOK'
  <2>1. \A k \in RowKeys : rows'[b][k] = "live" => WrittenBeside(b, k)
    <3> SUFFICES ASSUME NEW k \in RowKeys, rows'[b][k] = "live" PROVE WrittenBeside(b, k)
      OBVIOUS
    <3>1. k \notin held[q] /\ k \in Live(b, RowKeys)
      BY <1>6 DEF Live
    <3>2. Begun(q, k)
      <4>1. "commit" \in Past(k[1])
        BY KeyParts DEF Past
      <4> QED BY <4>1, <1>1 DEF Begun
    <3> QED BY <3>1, <3>2, <1>1, <1>3, <1>8, Parts DEF DeletedOK, Seen
  <2>2. \A p \in InFlight(b) : call[p].op \in Savers \cup {"upload", "add"} => p \in beside[b]
    BY <1>1, <1>3, Parts DEF DeletedOK, Savers, Edits, Verdicts, Deletions
  <2>3. Deletes(b)
    BY <2>1, <2>2 DEF Deletes
  <2>4. \A a \in BarIds : /\ bars'[a] = NoRow <=> bars[a] = NoRow
                          /\ bars[a] # NoRow /\ bars'[a].deleted => bars[a].deleted \/ Deletes(a)
    BY <2>3, <1>3, <1>4, <1>5
  <2>5. \A a \in BarIds : \A p \in InFlight(a)' : p \in Requests \ {q}
    BY <1>3 DEF InFlight, Ended
  <2>6. \A p \in Requests \ {q} : /\ Seen(p)' = Seen(p)
                                  /\ \A k \in RowKeys : Begun(p, k)' => Begun(p, k)
    BY <1>1, <1>3 DEF Seen, Begun
  <2> QED BY <1>1, <1>3, <1>8, <1>10, <2>4, <2>5, <2>6, DeletedKept
<1>21. ComesBackBeside
  BY <1>5, <1>5a DEF ComesBackBeside
<1> QED BY <1>11, <1>12, <1>13, <1>14, <1>15, <1>16, <1>17, <1>18, <1>19, <1>20, <1>21 DEF IInv

\* A request that holds nothing ends.
LEMMA StayingEnds ==
    ASSUME IInv, NEW q \in Requests, pc[q] \in {"count", "insert"},
           NEW n \in {"done", "conflict"}, Go(q, n), UNCHANGED <<tables, request, history>>
    PROVE  IInv' /\ ComesBackBeside
<1>1. /\ ~Ended(q) /\ UNCHANGED <<tables, call, ent, cols, history>> /\ UNCHANGED <<held, seen>>
  BY DEF Ended, request
<1>2. seen[q] = NoRead /\ held[q] = {}
  <2>1. pc[q] = "count" => held[q] = {}
    BY Parts DEF CallOK
  <2>2. pc[q] = "insert" => held[q] = {}
    BY Parts DEF CallOK, Edits, Deletions
  <2> QED BY <2>1, <2>2, Parts DEF CallOK, PartNames
<1>3. held' = [held EXCEPT ![q] = {}] /\ seen' = [seen EXCEPT ![q] = NoRead]
  BY <1>1, <1>2, Parts DEF TypeOK
<1> QED BY <1>1, <1>3, EndStep

\* A request writes one row, a bookmark or the deletion of a photo, and is done.
LEMMA RowStep ==
    ASSUME IInv, NEW q \in Requests, pc[q] \in {"unlink", "restore", "insert", "dropMark"},
           NEW k \in RowKeys, NEW s \in {"live", "deleted"}, rows' = Set(call[q].b, {k}, s),
           k \in Bookmarks \/ (pc[q] = "unlink" /\ k = call[q].photo /\ s = "deleted"),
           pc[q] = "unlink" => k = call[q].photo,
           s = "live" => call[q].op = "add" /\ k = call[q].mark,
           Go(q, "done"), UNCHANGED <<bars, objects, audit, request, history>>
    PROVE  IInv' /\ ComesBackBeside
<1> DEFINE b == call[q].b
<1>1. UNCHANGED <<bars, objects, audit, call, ent, cols, seen, held,
                  newest, unread, read, slipped, beside, met>>
  BY DEF request, history
<1>2. ~Ended(q) /\ "done" \in PC \ {"idle"}
  BY DEF Ended, PC
<1>3. /\ TypeOK /\ CallOK /\ pc' \in [Requests -> PC] /\ pc'[q] = "done" /\ Lasting
      /\ \A p \in Requests \ {q} : pc'[p] = pc[p]
      /\ \A p \in Requests : /\ pc'[p] # "idle" => pc[p] # "idle"
                             /\ ~Ended(p)' => ~Ended(p)
      /\ b \in BarIds /\ bars[b] # NoRow /\ q \in InFlight(b)
      /\ call[q].op \in {"removePhoto", "add", "drop"} /\ seen[q] = NoRead
      /\ pc[q] = "unlink" <=> call[q].op = "removePhoto"
  BY <1>1, <1>2, Works DEF CallOK, PartNames
<1>4. call[q].op \notin Edits \cup Deletions
  BY <1>3 DEF Edits, Deletions
<1>5. /\ rows' \in [BarIds -> [RowKeys -> RowState]] /\ \A a \in BarIds \ {b} : rows'[a] = rows[a]
      /\ \A o \in RowKeys : rows'[b][o] = IF o = k THEN s ELSE rows[b][o]
  <2>1. s \in RowState
    BY DEF RowState
  <2>2. /\ rows' \in [BarIds -> [RowKeys -> RowState]] /\ \A a \in BarIds \ {b} : rows'[a] = rows[a]
        /\ \A o \in RowKeys : rows'[b][o] = IF o \in {k} THEN s ELSE rows[b][o]
    <3> DEFINE f == [o \in RowKeys |-> IF o \in {k} THEN s ELSE rows[b][o]]
    <3>1. rows' = [rows EXCEPT ![b] = f]
      BY DEF Set
    <3>2. rows \in [BarIds -> [RowKeys -> RowState]] /\ b \in BarIds
      BY <1>3 DEF TypeOK
    <3>3. f \in [RowKeys -> RowState] /\ \A o \in RowKeys : f[o] = IF o \in {k} THEN s ELSE rows[b][o]
      BY <2>1, <3>2
    <3>4. rows' \in [BarIds -> [RowKeys -> RowState]] /\ rows'[b] = f
      BY <3>1, <3>2, <3>3
    <3>5. \A a \in BarIds \ {b} : rows'[a] = rows[a]
      BY <3>1, <3>2
    <3> QED BY <3>3, <3>4, <3>5
  <2> QED BY <2>2
<1>6. /\ k \notin Menu
      /\ k \in Photos => pc[q] = "unlink" /\ k = call[q].photo /\ s = "deleted"
                         /\ rows[b][k] # "none"
  <2>1. pc[q] = "unlink" => call[q].photo \in Photos /\ rows[b][call[q].photo] # "none"
    BY <1>3, CallOf, Parts DEF PhotoOK
  <2> QED BY <2>1, KeyParts
<1>7. /\ \A a \in BarIds : \A o \in RowKeys : rows[a][o] # "none" => rows'[a][o] # "none"
      /\ \A a \in BarIds : \A o \in Menu \cup Photos : rows'[a][o] = "live" => rows[a][o] = "live"
      /\ \A a \in BarIds : \A o \in Photos :
            \/ rows'[a][o] = rows[a][o]
            \/ rows'[a][o] = "deleted" /\ rows[a][o] # "none"
  BY <1>5, <1>6, KeyParts
<1>8. TypeOK'
  BY <1>1, <1>3, <1>5 DEF TypeOK
<1>9. CallOK'
  BY <1>1, <1>3, <1>4 DEF CallOK, Files, PartNames
<1>10. AbsentOK'
  <2>1. \A a \in BarIds : bars'[a] = NoRow => bars[a] = NoRow /\ rows'[a] = rows[a]
    BY <1>1, <1>3, <1>5
  <2> QED BY <2>1, Parts DEF AbsentOK
<1>11. ReviewOK'
  BY <1>1, <1>3, ReviewKept DEF SameStatus, Late
<1>12. TextOK'
  BY <1>1, <1>3, TextKept DEF SameText, Late
<1>13. HeldOK'
  BY <1>1, <1>3, <1>7, HeldKept DEF Seen
<1>14. MenuOK'
  <2>1. \A a \in BarIds : \A p \in Replacing(a)' : p \in Replacing(a)
    BY <1>1, <1>3 DEF Replacing, Editing, InFlight, Ended
  <2> QED BY <1>1, <1>3, <1>7, <2>1, MenuKept DEF Seen
<1>15. PhotoOK'
  <2>1. ASSUME NEW p \in Requests, pc[p] \in {"unlink", "failed"}, call[p].op = "removePhoto"
        PROVE  \/ pc'[p] \in {"unlink", "failed"}
               \/ \A a \in BarIds : rows'[a][call[p].photo] # "live"
    <3>1. CASE p = q
      <4>1. k \in Photos /\ k = call[p].photo
        BY <3>1, <2>1, <1>3, CallOf
      <4>2. \A a \in BarIds \ {b} : rows[a][k] = "none"
        BY <4>1, <1>3, <1>6, Parts DEF PhotoOK
      <4> QED BY <4>1, <4>2, <1>5, <1>6
    <3>2. CASE p # q
      BY <3>2, <2>1, <1>3
    <3> QED BY <3>1, <3>2
  <2> QED BY <1>1, <1>3, <1>7, <2>1, PhotoKept
<1>16. LimitOK'
  <2>1. \A a \in BarIds : Uploading(a)' \subseteq Uploading(a)
    BY <1>1, <1>3 DEF Uploading, InFlight, Ended
  <2> QED BY <1>1, <1>3, <1>7, <2>1, LimitKept
<1>17. DeletedOK'
  <2>1. \A a \in BarIds : \A o \in RowKeys : rows'[a][o] = "live" =>
           \/ rows[a][o] = "live"
           \/ \E p \in InFlight(a) : /\ Writes(p, o)
                                     /\ call[p].op \in Savers \cup {"upload", "add"}
    BY <1>3, <1>5 DEF Writes
  <2>2. \A a \in BarIds : \A p \in InFlight(a)' : p \in Requests
    BY DEF InFlight
  <2>3. \A p \in Requests : call[p].op \in Deletions =>
           \A o \in RowKeys : Begun(p, o)' => Begun(p, o)
    BY <1>1, <1>3, <1>4 DEF Begun
  <2> QED BY <1>1, <1>3, <2>1, <2>2, <2>3, DeletedKept DEF Seen
<1> QED BY <1>1, <1>8, <1>9, <1>10, <1>11, <1>12, <1>13, <1>14, <1>15, <1>16, <1>17
        DEF IInv, ComesBackBeside

LEMMA SoftDeletePhotoStep ==
    ASSUME IInv, NEW q \in Requests, SoftDeletePhoto(q) PROVE IInv' /\ ComesBackBeside
<1>1. /\ pc[q] = "unlink" /\ rows' = Set(call[q].b, {call[q].photo}, "deleted") /\ Go(q, "done")
      /\ UNCHANGED <<bars, objects, audit, request, history>>
  BY DEF SoftDeletePhoto
<1>2. call[q].photo \in RowKeys
  BY <1>1, Parts, CallOf, KeyParts DEF CallOK
<1> QED BY <1>1, <1>2, RowStep

LEMMA RestoreMarkStep ==
    ASSUME IInv, NEW q \in Requests, RestoreMark(q) PROVE IInv' /\ ComesBackBeside
<1>1. /\ pc[q] = "restore" /\ rows' = Set(call[q].b, {call[q].mark}, "live") /\ Go(q, "done")
      /\ UNCHANGED <<bars, objects, audit, request, history>>
  BY DEF RestoreMark
<1>2. call[q].op = "add" /\ call[q].mark \in Bookmarks /\ call[q].mark \in RowKeys
  BY <1>1, Parts, CallOf, KeyParts DEF CallOK
<1> QED BY <1>1, <1>2, RowStep

LEMMA DropMarkStep ==
    ASSUME IInv, NEW q \in Requests, DropMark(q) PROVE IInv' /\ ComesBackBeside
<1>1. /\ pc[q] = "dropMark" /\ rows' = Set(call[q].b, {call[q].mark}, "deleted") /\ Go(q, "done")
      /\ UNCHANGED <<bars, objects, audit, request, history>>
  BY DEF DropMark
<1>2. call[q].mark \in Bookmarks /\ call[q].mark \in RowKeys
  BY <1>1, Parts, CallOf, KeyParts DEF CallOK
<1> QED BY <1>1, <1>2, RowStep

LEMMA InsertMarkStep ==
    ASSUME IInv, NEW q \in Requests, InsertMark(q) PROVE IInv' /\ ComesBackBeside
<1>1. pc[q] = "insert" /\ UNCHANGED <<bars, objects, audit, request, history>>
  BY DEF InsertMark
<1>2. call[q].op = "add" /\ call[q].mark \in Bookmarks /\ call[q].mark \in RowKeys
  BY <1>1, Parts, CallOf, KeyParts DEF CallOK
<1>3. CASE Existing(call[q].b, {call[q].mark}) # {}
  <2>1. Go(q, "conflict") /\ UNCHANGED <<tables, request, history>> /\ ~Ended(q)
    BY <1>1, <1>3 DEF InsertMark, tables, Ended
  <2> QED BY <2>1, <1>1, StayingEnds
<1>4. CASE Existing(call[q].b, {call[q].mark}) = {}
  <2>1. Go(q, "done") /\ rows' = Set(call[q].b, {call[q].mark}, "live")
    BY <1>4 DEF InsertMark
  <2> QED BY <2>1, <1>1, <1>2, RowStep
<1> QED BY <1>3, <1>4

LEMMA DropObjectStep ==
    ASSUME IInv, NEW q \in Requests, DropObject(q) PROVE IInv' /\ ComesBackBeside
<1>1. /\ pc[q] = "object" /\ Go(q, "unlink") /\ objects' = objects \ {call[q].photo}
      /\ UNCHANGED <<bars, rows, audit, call, ent, cols, seen, held,
                     newest, unread, read, slipped, beside, met>>
  BY DEF DropObject, request, history
<1>2. ~Ended(q) /\ "unlink" \in PC \ {"idle"}
  BY <1>1 DEF Ended, PC
<1>3. /\ TypeOK /\ CallOK /\ pc' \in [Requests -> PC] /\ pc'[q] = "unlink" /\ Lasting
      /\ \A p \in Requests \ {q} : pc'[p] = pc[p]
      /\ \A p \in Requests : /\ pc'[p] # "idle" => pc[p] # "idle"
                             /\ ~Ended(p)' => ~Ended(p)
      /\ call[q].b \in BarIds /\ call[q].op = "removePhoto" /\ seen[q] = NoRead
      /\ call[q].photo \in Photos
  BY <1>1, <1>2, Works, CallOf DEF CallOK, PartNames
<1>4. call[q].op \notin Edits \cup Deletions
  BY <1>3 DEF Edits, Deletions
<1>5. TypeOK'
  BY <1>1, <1>3 DEF TypeOK
<1>6. CallOK' /\ AbsentOK'
  BY <1>1, <1>3, <1>4, Parts DEF CallOK, AbsentOK, Files, PartNames
<1>7. ReviewOK'
  BY <1>1, <1>3, ReviewKept DEF SameStatus, Late
<1>8. TextOK'
  BY <1>1, <1>3, TextKept DEF SameText, Late
<1>9. HeldOK'
  BY <1>1, <1>3, HeldKept DEF Seen
<1>10. MenuOK'
  <2>1. \A a \in BarIds : \A p \in Replacing(a)' : p \in Replacing(a)
    BY <1>1, <1>3 DEF Replacing, Editing, InFlight, Ended
  <2> QED BY <1>1, <1>3, <2>1, MenuKept DEF Seen
<1>11. PhotoOK'
  <2>1. PhotoHasObject'
    <3> SUFFICES ASSUME NEW a \in BarIds, NEW k \in Photos, rows[a][k] = "live", k \notin objects'
                 PROVE  \E p \in Requests : /\ call[p] # NoCall /\ call[p].op = "removePhoto"
                                            /\ call[p].photo = k /\ pc'[p] \in {"unlink", "failed"}
      BY <1>1 DEF PhotoHasObject, Live
    <3>1. CASE k = call[q].photo
      BY <3>1, <1>1, <1>3 DEF CallOK
    <3>2. CASE k # call[q].photo
      <4>1. k \notin objects
        BY <3>2, <1>1
      <4> QED BY <4>1, <1>1, <1>3, Parts DEF PhotoOK, PhotoHasObject, Live
    <3> QED BY <3>1, <3>2
  <2>2. ASSUME NEW p \in Requests, pc'[p] # "idle", call[p].op = "upload", NEW k \in held[p]
        PROVE  k \in objects' /\ \A a \in BarIds : rows[a][k] = "none"
    <3>1. k \in objects /\ \A a \in BarIds : rows[a][k] = "none"
      BY <2>2, <1>3, Parts DEF PhotoOK
    <3>2. rows[call[q].b][call[q].photo] # "none"
      BY <1>1, <1>3, Parts DEF PhotoOK
    <3> QED BY <3>1, <3>2, <1>1, <1>3
  <2>3. \A p \in Requests : pc'[p] \in {"idle", "count", "store"} => pc[p] \in {"idle", "count", "store"}
    BY <1>3
  <2> QED BY <2>1, <2>2, <2>3, <1>1, <1>3, Parts DEF PhotoOK
<1>12. LimitOK'
  <2>1. \A a \in BarIds : Uploading(a)' \subseteq Uploading(a)
    BY <1>1, <1>3 DEF Uploading, InFlight, Ended
  <2> QED BY <1>1, <1>3, <2>1, LimitKept
<1>13. DeletedOK'
  <2>1. \A p \in Requests : call[p].op \in Deletions =>
           \A k \in RowKeys : Begun(p, k)' => Begun(p, k)
    BY <1>1, <1>3, <1>4 DEF Begun
  <2>2. \A a \in BarIds : \A p \in InFlight(a)' : p \in Requests
    BY DEF InFlight
  <2> QED BY <1>1, <1>3, <2>1, <2>2, DeletedKept DEF Seen
<1> QED BY <1>1, <1>5, <1>6, <1>7, <1>8, <1>9, <1>10, <1>11, <1>12, <1>13
        DEF IInv, ComesBackBeside

\* An upload has counted the photos of its bar and goes on.
LEMMA CountedStep ==
    ASSUME IInv, NEW q \in Requests, NEW b \in BarIds, b = call[q].b, pc[q] = "count",
           Cardinality(Live(b, Photos)) + call[q].files <= MaxPhotos, Go(q, "store"),
           met' = IF Uploading(b) = {} THEN met ELSE met \cup Uploading(b) \cup {q},
           UNCHANGED <<tables, request, newest, unread, read, slipped, beside>>
    PROVE  IInv' /\ ComesBackBeside
<1>1. UNCHANGED <<bars, rows, objects, audit, call, ent, cols, seen, held,
                  newest, unread, read, slipped, beside>>
  BY DEF tables, request
<1>2. ~Ended(q) /\ "store" \in PC \ {"idle"}
  BY DEF Ended, PC
<1>3. /\ TypeOK /\ CallOK /\ pc' \in [Requests -> PC] /\ pc'[q] = "store" /\ Lasting
      /\ \A p \in Requests \ {q} : pc'[p] = pc[p]
      /\ \A p \in Requests : /\ pc'[p] # "idle" => pc[p] # "idle"
                             /\ ~Ended(p)' => ~Ended(p)
      /\ call[q].op = "upload" /\ seen[q] = NoRead /\ q \in InFlight(b)
      /\ call[q].files \in 1..MaxFiles
  BY <1>1, <1>2, Works, CallOf DEF CallOK, PartNames
<1>4. call[q].op \notin Edits \cup Deletions
  BY <1>3 DEF Edits, Deletions
<1>5. met \subseteq met' /\ met' \subseteq Requests
  <2>1. Uploading(b) \subseteq Requests
    BY DEF Uploading, InFlight
  <2> QED BY <2>1, <1>3 DEF TypeOK
<1>6. TypeOK'
  BY <1>1, <1>3, <1>5 DEF TypeOK
<1>7. CallOK' /\ AbsentOK'
  BY <1>1, <1>3, <1>4, Parts DEF CallOK, AbsentOK, Files, PartNames
<1>8. ReviewOK'
  BY <1>1, <1>3, ReviewKept DEF SameStatus, Late
<1>9. TextOK'
  BY <1>1, <1>3, TextKept DEF SameText, Late
<1>10. HeldOK'
  BY <1>1, <1>3, HeldKept DEF Seen
<1>11. MenuOK'
  <2>1. \A a \in BarIds : \A p \in Replacing(a)' : p \in Replacing(a)
    BY <1>1, <1>3 DEF Replacing, Editing, InFlight, Ended
  <2> QED BY <1>1, <1>3, <1>5, <2>1, MenuKept DEF Seen
<1>12. PhotoOK'
  BY <1>1, <1>3, PhotoKept
<1>13. LimitOK'
  <2> SUFFICES ASSUME NEW a \in BarIds
               PROVE  /\ Cardinality(Live(a, Photos)' \ Uploaded(met')) <= MaxPhotos
                      /\ \A p \in Uploading(a)' \ met' :
                            /\ Uploading(a)' = {p}
                            /\ Cardinality(Live(a, Photos)' \cup Files(p)') <= MaxPhotos
    BY DEF LimitOK, Uploaded
  <2>1. Live(a, Photos)' = Live(a, Photos) /\ IsFiniteSet(Live(a, Photos))
    BY <1>1, PhotosFinite DEF Live
  <2>2. Cardinality(Live(a, Photos)' \ Uploaded(met')) <= MaxPhotos
    <3>1. Live(a, Photos) \ Uploaded(met') \subseteq Live(a, Photos) \ Uploaded(met)
      BY <1>5 DEF Uploaded
    <3>2. IsFiniteSet(Live(a, Photos) \ Uploaded(met))
      BY <2>1, FS_Subset
    <3>3. /\ Cardinality(Live(a, Photos) \ Uploaded(met)) <= MaxPhotos
          /\ Cardinality(Live(a, Photos) \ Uploaded(met'))
                <= Cardinality(Live(a, Photos) \ Uploaded(met))
      BY <3>1, <3>2, FS_Subset, Parts DEF LimitOK
    <3>4. /\ Cardinality(Live(a, Photos) \ Uploaded(met)) \in Nat
          /\ Cardinality(Live(a, Photos) \ Uploaded(met')) \in Nat
      BY <3>1, <3>2, FS_Subset, FS_CardinalityType
    <3> QED BY <2>1, <3>3, <3>4, BarBounds
  <2>3. Uploading(a)' = Uploading(a) \cup (IF a = b THEN {q} ELSE {})
    BY <1>1, <1>2, <1>3 DEF Uploading, InFlight, Ended
  <2>4. ASSUME NEW p \in Uploading(a)', p \notin met'
        PROVE  /\ Uploading(a)' = {p}
               /\ Cardinality(Live(a, Photos)' \cup Files(p)') <= MaxPhotos
    <3>1. Files(p)' = Files(p)
      BY <1>1 DEF Files
    <3>2. CASE a = b
      <4>1. Uploading(b) = {} /\ p = q
        BY <2>3, <2>4, <3>2
      <4>2. call[q].files \in Nat /\ IsFiniteSet(Files(q)) /\ Cardinality(Files(q)) = call[q].files
        <5>1. PICK n \in Nat : n = call[q].files
          BY <1>3, BarBounds
        <5>2. Files(q) = {"photos"} \X ({q} \X (1..n))
          BY <5>1 DEF Files
        <5>3. /\ IsFiniteSet({"photos"} \X ({q} \X (1..n)))
              /\ Cardinality({"photos"} \X ({q} \X (1..n))) = n
          BY FilesCount
        <5> QED BY <5>1, <5>2, <5>3
      <4>3. /\ Cardinality(Live(b, Photos) \cup Files(q)) =
                  Cardinality(Live(b, Photos)) + Cardinality(Files(q))
                  - Cardinality(Live(b, Photos) \cap Files(q))
            /\ Cardinality(Live(b, Photos) \cap Files(q)) \in Nat
            /\ Cardinality(Live(b, Photos)) \in Nat
        <5>1. IsFiniteSet(Live(b, Photos) \cap Files(q))
          BY <4>2, FS_Subset
        <5> QED BY <5>1, <4>2, <2>1, <3>2, FS_Union, FS_CardinalityType
      <4> QED BY <4>1, <4>2, <4>3, <3>1, <3>2, <2>1, <2>3, BarBounds
    <3>3. CASE a # b
      BY <3>1, <3>3, <2>1, <2>3, <2>4, <1>5, Parts DEF LimitOK
    <3> QED BY <3>2, <3>3
  <2> QED BY <2>2, <2>4
<1>14. DeletedOK'
  <2>1. \A p \in Requests : call[p].op \in Deletions =>
           \A k \in RowKeys : Begun(p, k)' => Begun(p, k)
    BY <1>1, <1>3, <1>4 DEF Begun
  <2>2. \A a \in BarIds : \A p \in InFlight(a)' : p \in Requests
    BY DEF InFlight
  <2> QED BY <1>1, <1>3, <2>1, <2>2, DeletedKept DEF Seen
<1> QED BY <1>1, <1>6, <1>7, <1>8, <1>9, <1>10, <1>11, <1>12, <1>13, <1>14
        DEF IInv, ComesBackBeside

LEMMA CountPhotosStep ==
    ASSUME IInv, NEW q \in Requests, CountPhotos(q) PROVE IInv' /\ ComesBackBeside
<1>1. pc[q] = "count" /\ UNCHANGED <<tables, request, newest, unread, read, slipped, beside>>
  BY DEF CountPhotos
<1>2. CASE Cardinality(Live(call[q].b, Photos)) + call[q].files > MaxPhotos
  <2>1. Go(q, "done") /\ UNCHANGED <<tables, request, history>>
    BY <1>1, <1>2 DEF CountPhotos, history
  <2> QED BY <2>1, <1>1, StayingEnds
<1>3. CASE ~(Cardinality(Live(call[q].b, Photos)) + call[q].files > MaxPhotos)
  <2>1. PICK b \in BarIds : b = call[q].b
    BY <1>1, CallOf, Parts
  <2>2. /\ Go(q, "store")
        /\ met' = IF Uploading(b) = {} THEN met ELSE met \cup Uploading(b) \cup {q}
    BY <1>3, <2>1 DEF CountPhotos
  <2>3. Cardinality(Live(b, Photos)) + call[q].files <= MaxPhotos
    <3>1. call[q].files \in 1..MaxFiles
      BY <1>1, CallOf, Parts DEF CallOK
    <3>2. Cardinality(Live(b, Photos)) \in Nat
      BY PhotosFinite, FS_CardinalityType
    <3> QED BY <3>1, <3>2, <1>3, <2>1, BarBounds
  <2> QED BY <1>1, <2>1, <2>2, <2>3, CountedStep
<1> QED BY <1>2, <1>3

LEMMA StoreFilesStep ==
    ASSUME IInv, NEW q \in Requests, StoreFiles(q) PROVE IInv' /\ ComesBackBeside
<1>1. PICK stored \in SUBSET Files(q) :
         /\ objects' = objects \cup stored /\ held' = [held EXCEPT ![q] = stored]
         /\ Go(q, IF stored = {} THEN "done" ELSE "photo")
  BY DEF StoreFiles
<1> DEFINE n == IF stored = {} THEN "done" ELSE "photo"
<1>2. /\ pc[q] = "store"
      /\ UNCHANGED <<bars, rows, audit, call, ent, cols, seen, newest, unread, read, slipped, beside, met>>
  BY DEF StoreFiles, history
<1>3. ~Ended(q) /\ n \in PC \ {"idle"}
  BY <1>2 DEF Ended, PC
<1>4. /\ TypeOK /\ CallOK /\ pc' \in [Requests -> PC] /\ pc'[q] = n /\ Lasting
      /\ \A p \in Requests \ {q} : pc'[p] = pc[p]
      /\ \A p \in Requests : /\ pc'[p] # "idle" => pc[p] # "idle"
                             /\ ~Ended(p)' => ~Ended(p)
      /\ call[q].op = "upload" /\ seen[q] = NoRead /\ call[q].files \in 1..MaxFiles
  BY <1>1, <1>2, <1>3, Works, CallOf DEF CallOK, PartNames
<1>5. call[q].op \notin Edits \cup Deletions /\ n \in {"done", "photo"}
  BY <1>4 DEF Edits, Deletions
<1>6. Files(q) \subseteq Photos /\ Photos \subseteq RowKeys
  BY <1>2, <1>4, WrittenKeys, KeyParts
<1>7. /\ held' \in [Requests -> SUBSET RowKeys] /\ held'[q] = stored
      /\ \A p \in Requests \ {q} : held'[p] = held[p]
  BY <1>1, <1>4, <1>6 DEF TypeOK
<1>8. TypeOK'
  <2>1. objects' \subseteq Photos /\ (n = "photo" => held'[q] # {})
    BY <1>1, <1>4, <1>6, <1>7 DEF TypeOK
  <2> QED BY <2>1, <1>2, <1>4, <1>5, <1>7 DEF TypeOK
<1>9. CallOK' /\ AbsentOK'
  <2>1. Files(q)' = Files(q) /\ (held'[q] # {} => n = "photo")
    BY <1>2, <1>7 DEF Files
  <2>2. AbsentOK'
    BY <1>2, Parts DEF AbsentOK
  <2>3. \A p \in Requests : Files(p)' = Files(p)
    BY <1>2 DEF Files
  <2> QED BY <2>1, <2>2, <2>3, <1>2, <1>4, <1>5, <1>7, Parts DEF CallOK, PartNames
<1>10. ReviewOK'
  BY <1>2, <1>4, <1>5, ReviewKept DEF SameStatus, Late
<1>11. TextOK'
  BY <1>2, <1>4, <1>5, TextKept DEF SameText, Late
<1>12. HeldOK'
  BY <1>2, <1>4, <1>5, <1>7, HeldKept DEF Seen
<1>13. MenuOK'
  <2>1. \A a \in BarIds : \A p \in Replacing(a)' : p \in Requests \ {q} /\ p \in Replacing(a)
    BY <1>2, <1>4, <1>5 DEF Replacing, Editing, InFlight, Ended
  <2> QED BY <1>2, <1>4, <1>7, <2>1, MenuKept DEF Seen
<1>14. PhotoOK'
  <2>1. \A p \in Requests : pc[p] \in {"unlink", "failed"} => pc'[p] = pc[p]
    BY <1>2, <1>4
  <2>2. PhotoHasObject'
    BY <2>1, <1>1, <1>2, Parts DEF PhotoOK, PhotoHasObject, Live
  <2>3. ASSUME NEW p \in Requests, pc'[p] # "idle", call[p].op = "upload", NEW k \in held'[p]
        PROVE  k \in objects' /\ \A a \in BarIds : rows[a][k] = "none"
    <3>1. CASE p # q
      BY <3>1, <2>3, <1>1, <1>4, <1>7, Parts DEF PhotoOK
    <3>2. CASE p = q
      <4>1. k \in stored /\ k \in Files(q)
        BY <2>3, <3>2, <1>7
      <4>2. PICK m \in 1..call[q].files : k = <<"photos", <<q, m>>>>
        BY <4>1 DEF Files
      <4>3. m \in 1..MaxFiles
        BY <4>2, <1>4, BarBounds
      <4> QED BY <4>1, <4>2, <4>3, <1>1, <1>2, Parts DEF PhotoOK
    <3> QED BY <3>1, <3>2
  <2>4. \A p \in Requests : pc'[p] \in {"idle", "count", "store"} => pc[p] \in {"idle", "count", "store"}
    BY <1>4, <1>5
  <2> QED BY <2>2, <2>3, <2>4, <1>2, <1>4, Parts DEF PhotoOK
<1>15. LimitOK'
  <2>1. \A a \in BarIds : Uploading(a)' \subseteq Uploading(a)
    BY <1>2, <1>4, <1>5 DEF Uploading, InFlight, Ended
  <2> QED BY <1>2, <1>4, <2>1, LimitKept
<1>16. DeletedOK'
  <2>1. \A p \in Requests : call[p].op \in Deletions =>
           /\ Seen(p)' = Seen(p) /\ held'[p] = held[p]
           /\ \A k \in RowKeys : Begun(p, k)' => Begun(p, k)
    BY <1>2, <1>4, <1>5, <1>7 DEF Begun, Seen
  <2>2. \A a \in BarIds : \A p \in InFlight(a)' : p \in Requests
    BY DEF InFlight
  <2> QED BY <1>2, <1>4, <2>1, <2>2, DeletedKept
<1> QED BY <1>2, <1>8, <1>9, <1>10, <1>11, <1>12, <1>13, <1>14, <1>15, <1>16
        DEF IInv, ComesBackBeside

\* A stored file gets its row.
LEMMA PhotoSaved ==
    ASSUME IInv, NEW q \in Requests, NEW b \in BarIds, b = call[q].b, pc[q] = "photo",
           NEW k \in held[q], rows' = Set(b, {k}, "live"),
           held' = [held EXCEPT ![q] = held[q] \ {k}],
           Go(q, IF held[q] = {k} THEN "done" ELSE "photo"),
           UNCHANGED <<bars, objects, audit, call, ent, cols, seen, history>>
    PROVE  IInv' /\ ComesBackBeside
<1> DEFINE n == IF held[q] = {k} THEN "done" ELSE "photo"
<1>1. UNCHANGED <<newest, unread, read, slipped, beside, met>>
  BY DEF history
<1>2. ~Ended(q) /\ n \in PC \ {"idle"} /\ n \in {"done", "photo"}
  BY DEF Ended, PC
<1>3. /\ TypeOK /\ CallOK /\ pc' \in [Requests -> PC] /\ pc'[q] = n /\ Lasting
      /\ \A p \in Requests \ {q} : pc'[p] = pc[p]
      /\ \A p \in Requests : /\ pc'[p] # "idle" => pc[p] # "idle"
                             /\ ~Ended(p)' => ~Ended(p)
      /\ call[q].op = "upload" /\ seen[q] = NoRead /\ call[q].files \in 1..MaxFiles
      /\ bars[b] # NoRow /\ q \in InFlight(b) /\ held[q] \subseteq Files(q)
  BY <1>2, Works, CallOf DEF CallOK, PartNames
<1>4. call[q].op \notin Edits \cup Deletions
  BY <1>3 DEF Edits, Deletions
<1>5. /\ k \in Files(q) /\ k \in Photos /\ k \in RowKeys /\ k \notin Menu /\ k \in Uploaded({q})
      /\ k \in objects /\ \A a \in BarIds : rows[a][k] = "none"
  <2>1. k \in Files(q) /\ k \in Photos /\ k \in Uploaded({q})
    BY <1>3, WrittenKeys
  <2>2. k \in objects /\ \A a \in BarIds : rows[a][k] = "none"
    BY <1>3, Parts DEF PhotoOK
  <2> QED BY <2>1, <2>2, KeyParts
<1>6. /\ rows' \in [BarIds -> [RowKeys -> RowState]] /\ \A a \in BarIds \ {b} : rows'[a] = rows[a]
      /\ \A o \in RowKeys : rows'[b][o] = IF o = k THEN "live" ELSE rows[b][o]
  <2> DEFINE f == [o \in RowKeys |-> IF o \in {k} THEN "live" ELSE rows[b][o]]
  <2>1. rows' = [rows EXCEPT ![b] = f] /\ rows \in [BarIds -> [RowKeys -> RowState]]
    BY <1>3 DEF Set, TypeOK
  <2>2. f \in [RowKeys -> RowState] /\ \A o \in RowKeys : f[o] = IF o \in {k} THEN "live" ELSE rows[b][o]
    <3>1. rows[b] \in [RowKeys -> RowState] /\ "live" \in RowState
      BY <2>1 DEF RowState
    <3> QED BY <3>1
  <2>3. rows' \in [BarIds -> [RowKeys -> RowState]] /\ rows'[b] = f
    BY <2>1, <2>2
  <2>4. \A a \in BarIds \ {b} : rows'[a] = rows[a]
    BY <2>1
  <2> QED BY <2>2, <2>3, <2>4
<1>7. /\ held' \in [Requests -> SUBSET RowKeys] /\ held'[q] = held[q] \ {k}
      /\ \A p \in Requests \ {q} : held'[p] = held[p]
  BY <1>3 DEF TypeOK
<1>8. TypeOK'
  <2>1. n = "photo" => held'[q] # {}
    <3>1. n = "photo" => held[q] # {k}
      OBVIOUS
    <3> QED BY <3>1, <1>7
  <2>2. \A p \in Requests : pc'[p] = "photo" => held'[p] # {}
    BY <2>1, <1>3, <1>7 DEF TypeOK
  <2> QED BY <2>2, <1>1, <1>3, <1>6, <1>7 DEF TypeOK
<1>9. CallOK'
  <2>1. held'[q] # {} => n = "photo"
    <3>1. n # "photo" => held[q] = {k}
      OBVIOUS
    <3> QED BY <3>1, <1>7
  <2>2. \A p \in Requests : Files(p)' = Files(p)
    BY DEF Files
  <2> QED BY <2>1, <2>2, <1>2, <1>3, <1>4, <1>7, Parts DEF CallOK, PartNames
<1>10. AbsentOK'
  <2>1. \A a \in BarIds : bars'[a] = NoRow => bars[a] = NoRow /\ rows'[a] = rows[a]
    BY <1>3, <1>6
  <2> QED BY <2>1, Parts DEF AbsentOK
<1>11. ReviewOK'
  BY <1>1, <1>2, <1>3, ReviewKept DEF SameStatus, Late
<1>12. TextOK'
  BY <1>1, <1>2, <1>3, TextKept DEF SameText, Late
<1>13. HeldOK'
  <2>1. \A a \in BarIds : \A o \in RowKeys : rows[a][o] # "none" => rows'[a][o] # "none"
    BY <1>6
  <2> QED BY <2>1, <1>3, <1>4, <1>7, HeldKept DEF Seen
<1>14. MenuOK'
  <2>1. \A a \in BarIds : \A p \in Replacing(a)' : p \in Requests \ {q} /\ p \in Replacing(a)
    BY <1>2, <1>3 DEF Replacing, Editing, InFlight, Ended
  <2>2. \A a \in BarIds : \A o \in Menu : rows'[a][o] = "live" => rows[a][o] = "live"
    <3>1. \A o \in Menu : o \in RowKeys /\ o # k
      BY <1>5, KeyParts
    <3> QED BY <3>1, <1>6
  <2> QED BY <1>1, <1>3, <1>7, <2>1, <2>2, MenuKept DEF Seen
<1>15. PhotoOK'
  <2>1. \A a \in BarIds : \A o \in Photos : o # k => rows'[a][o] = rows[a][o]
    BY <1>6, KeyParts
  <2>2. \A a \in BarIds : a # b => rows'[a][k] = "none"
    BY <1>5, <1>6
  <2>3. \A p \in Requests : pc[p] \in {"unlink", "failed"} => pc'[p] = pc[p]
    BY <1>3
  <2>4. PhotoHasObject'
    <3> SUFFICES ASSUME NEW a \in BarIds, NEW o \in Photos, rows'[a][o] = "live", o \notin objects
                 PROVE  \E p \in Requests : /\ call[p] # NoCall /\ call[p].op = "removePhoto"
                                            /\ call[p].photo = o /\ pc'[p] \in {"unlink", "failed"}
      BY DEF PhotoHasObject, Live
    <3>1. rows[a][o] = "live"
      BY <2>1, <1>5
    <3>2. \E p \in Requests : /\ call[p] # NoCall /\ call[p].op = "removePhoto"
                              /\ call[p].photo = o /\ pc[p] \in {"unlink", "failed"}
      BY <3>1, Parts DEF PhotoOK, PhotoHasObject, Live
    <3> QED BY <3>2, <2>3
  <2>5. \A o \in Photos : \A a, c \in BarIds : rows'[a][o] # "none" /\ rows'[c][o] # "none" => a = c
    <3> SUFFICES ASSUME NEW o \in Photos, NEW a \in BarIds, NEW c \in BarIds,
                        rows'[a][o] # "none", rows'[c][o] # "none"
                 PROVE  a = c
      OBVIOUS
    <3>1. CASE o = k
      BY <3>1, <2>2
    <3>2. CASE o # k
      <4>1. rows[a][o] # "none" /\ rows[c][o] # "none"
        BY <3>2, <2>1
      <4> QED BY <4>1, Parts DEF PhotoOK
    <3> QED BY <3>1, <3>2
  <2>6. ASSUME NEW p \in Requests, pc'[p] # "idle", call[p].op = "upload", NEW o \in held'[p]
        PROVE  o \in objects /\ \A a \in BarIds : rows'[a][o] = "none"
    <3>1. o \in held[p] /\ pc[p] # "idle"
      BY <2>6, <1>3, <1>7
    <3>2. o \in objects /\ \A a \in BarIds : rows[a][o] = "none"
      BY <2>6, <3>1, Parts DEF PhotoOK
    <3>3. o \in Files(p) /\ o \in Photos
      BY <2>6, <3>1, <1>3, WrittenKeys DEF CallOK
    <3>4. o # k
      BY <2>6, <3>3, <1>5, <1>7 DEF Files
    <3> QED BY <3>2, <3>3, <3>4, <2>1
  <2>7. ASSUME NEW p \in Requests, pc'[p] # "idle", call[p].op = "removePhoto"
        PROVE  rows'[call[p].b][call[p].photo] # "none"
    <3>1. /\ call[p].b \in BarIds /\ call[p].photo \in Photos
          /\ rows[call[p].b][call[p].photo] # "none"
      BY <2>7, <1>3, CallOf, Parts DEF PhotoOK
    <3> QED BY <3>1, <2>1, <1>5
  <2>8. ASSUME NEW p \in Requests, pc'[p] \in {"idle", "count", "store"},
               NEW m \in 1..MaxFiles, NEW a \in BarIds
        PROVE  rows'[a][<<"photos", <<p, m>>>>] = "none"
    <3>1. p # q /\ pc[p] = pc'[p]
      BY <2>8, <1>2, <1>3
    <3>2. <<"photos", <<p, m>>>> \in Photos /\ <<"photos", <<p, m>>>> # k
      BY <3>1, <1>5 DEF Photos, PhotoKeys, Files
    <3>3. rows[a][<<"photos", <<p, m>>>>] = "none"
      BY <2>8, <3>1, Parts DEF PhotoOK
    <3> QED BY <3>2, <3>3, <2>1
  <2> QED BY <2>4, <2>5, <2>6, <2>7, <2>8 DEF PhotoOK
<1>16. LimitOK'
  <2>1. \A a \in BarIds : Uploading(a)' \subseteq Uploading(a)
    BY <1>2, <1>3 DEF Uploading, InFlight, Ended
  <2>2. \A p : Files(p)' = Files(p)
    BY DEF Files
  <2>3. ASSUME NEW a \in BarIds, a # b
        PROVE  /\ Cardinality(Live(a, Photos)' \ Uploaded(met)) <= MaxPhotos
               /\ \A p \in Uploading(a)' \ met :
                     /\ Uploading(a)' = {p}
                     /\ Cardinality(Live(a, Photos)' \cup Files(p)) <= MaxPhotos
    <3>1. Live(a, Photos)' = Live(a, Photos)
      BY <2>3, <1>6 DEF Live
    <3>2. Uploading(a)' \subseteq Uploading(a)
      BY <2>1
    <3> QED BY <3>1, <3>2, Parts DEF LimitOK
  <2>4. Live(b, Photos)' = Live(b, Photos) \cup {k}
    BY <1>5, <1>6, KeyParts DEF Live
  <2>5. q \in Uploading(b)
    BY <1>3 DEF Uploading
  <2>6. /\ Cardinality(Live(b, Photos)' \ Uploaded(met)) <= MaxPhotos
        /\ \A p \in Uploading(b)' \ met :
              /\ Uploading(b)' = {p}
              /\ Cardinality(Live(b, Photos)' \cup Files(p)) <= MaxPhotos
    <3>1. CASE q \in met
      <4>1. Live(b, Photos)' \ Uploaded(met) = Live(b, Photos) \ Uploaded(met)
        BY <3>1, <2>4, <1>5 DEF Uploaded
      <4>2. Uploading(b)' \ met = {}
        <5>1. \A p \in Uploading(b) \ met : Uploading(b) = {p}
          BY Parts DEF LimitOK
        <5> QED BY <3>1, <2>1, <2>5, <5>1
      <4> QED BY <4>1, <4>2, Parts DEF LimitOK
    <3>2. CASE q \notin met
      <4>1. Uploading(b) = {q} /\ Cardinality(Live(b, Photos) \cup Files(q)) <= MaxPhotos
        BY <3>2, <2>5, Parts DEF LimitOK
      <4>2. Live(b, Photos)' \cup Files(q) = Live(b, Photos) \cup Files(q)
        BY <2>4, <1>5
      <4>3. IsFiniteSet(Live(b, Photos)' \cup Files(q))
        <5>1. Files(q) \subseteq Photos
          BY <1>3, WrittenKeys
        <5> QED BY <4>2, <5>1, PhotosFinite, FS_Subset DEF Live
      <4>4. /\ Cardinality(Live(b, Photos)' \ Uploaded(met))
                  <= Cardinality(Live(b, Photos)' \cup Files(q))
            /\ Cardinality(Live(b, Photos)' \ Uploaded(met)) \in Nat
            /\ Cardinality(Live(b, Photos)' \cup Files(q)) \in Nat
        <5>1. Live(b, Photos)' \ Uploaded(met) \subseteq Live(b, Photos)' \cup Files(q)
          OBVIOUS
        <5> QED BY <5>1, <4>3, FS_Subset, FS_CardinalityType
      <4>5. \A p \in Uploading(b)' \ met : p = q /\ Uploading(b)' = {q}
        BY <4>1, <2>1
      <4>6. Cardinality(Live(b, Photos)' \cup Files(q)) <= MaxPhotos
        BY <4>1, <4>2
      <4>7. Cardinality(Live(b, Photos)' \ Uploaded(met)) <= MaxPhotos
        BY <4>4, <4>6, BarBounds
      <4>8. \A p \in Uploading(b)' \ met :
              /\ Uploading(b)' = {p}
              /\ Cardinality(Live(b, Photos)' \cup Files(p)) <= MaxPhotos
        BY <4>5, <4>6
      <4> QED BY <4>7, <4>8
    <3> QED BY <3>1, <3>2
  <2> QED BY <2>2, <2>3, <2>6, <1>1 DEF LimitOK, Uploaded
<1>17. DeletedOK'
  <2>1. \A a \in BarIds : \A o \in RowKeys : rows'[a][o] = "live" =>
           \/ rows[a][o] = "live"
           \/ \E p \in InFlight(a) : /\ Writes(p, o)
                                     /\ call[p].op \in Savers \cup {"upload", "add"}
    BY <1>3, <1>5, <1>6 DEF Writes
  <2>2. \A p \in Requests : call[p].op \in Deletions =>
           /\ Seen(p)' = Seen(p) /\ held'[p] = held[p]
           /\ \A o \in RowKeys : Begun(p, o)' => Begun(p, o)
    BY <1>2, <1>3, <1>4, <1>7 DEF Begun, Seen
  <2>3. \A a \in BarIds : \A p \in InFlight(a)' : p \in Requests
    BY DEF InFlight
  <2> QED BY <1>1, <1>3, <2>1, <2>2, <2>3, DeletedKept
<1> QED BY <1>8, <1>9, <1>10, <1>11, <1>12, <1>13, <1>14, <1>15, <1>16, <1>17
        DEF IInv, ComesBackBeside

LEMMA SavePhotoStep ==
    ASSUME IInv, NEW q \in Requests, SavePhoto(q) PROVE IInv' /\ ComesBackBeside
<1>1. pc[q] = "photo" /\ UNCHANGED <<bars, objects, audit, call, ent, cols, seen, history>>
  BY DEF SavePhoto
<1>2. PICK b \in BarIds : b = call[q].b
  BY <1>1, CallOf, Parts
<1>3. PICK k \in held[q] : /\ rows' = Set(b, {k}, "live")
                           /\ held' = [held EXCEPT ![q] = held[q] \ {k}]
                           /\ Go(q, IF held[q] = {k} THEN "done" ELSE "photo")
  BY <1>2 DEF SavePhoto
<1> QED BY <1>1, <1>2, <1>3, PhotoSaved

-----------------------------------------------------------------------------
(* Requests begin.                                                          *)

\* A call that may begin on a bar as it is.
Admitted(c) ==
    /\ bars[c.b] # NoRow
    /\ c.op \in Savers \cup Deletions \cup {"upload", "removePhoto", "add"} => ~bars[c.b].deleted
    /\ c.op = "removePhoto" => rows[c.b][c.photo] # "none"

LEMMA StartStep ==
    ASSUME IInv, NEW q \in Requests, NEW c \in Call, c.op # "create", NEW b \in BarIds, b = c.b,
           NEW first \in {"select", "again", "count", "find", "findMark", "dropMark"},
           Start(q, c, first), Admitted(c),
           first = "select" => c.op \in Savers,
           first = "again" => c.op \in Deletions,
           first = "count" => c.op = "upload",
           first = "find" => c.op = "removePhoto",
           first = "findMark" => c.op = "add",
           first = "dropMark" => c.op = "drop"
    PROVE  IInv' /\ ComesBackBeside
<1> DEFINE more == IF c.op \in Deletions THEN InFlight(b)
                   ELSE IF \E p \in InFlight(b) : call[p].op \in Deletions THEN {q} ELSE {}
<1>1. /\ pc[q] = "idle" /\ Go(q, first) /\ call' = [call EXCEPT ![q] = c]
      /\ ent' = [ent EXCEPT ![q] = bars[b]]
      /\ beside' = [beside EXCEPT ![b] = beside[b] \cup more]
      /\ read' = [read EXCEPT ![q] = IF c.op = "approve" THEN unread[b] ELSE {}]
      /\ UNCHANGED <<bars, rows, objects, audit, cols, seen, held, newest, unread, slipped, met>>
  BY DEF Start, tables
<1>2. TypeOK /\ CallOK /\ first \in PC \ {"idle", "done"}
  BY Parts DEF PC
<1>3. /\ pc' \in [Requests -> PC] /\ pc'[q] = first /\ \A p \in Requests \ {q} : pc'[p] = pc[p]
      /\ call' \in [Requests -> Call \cup {NoCall}] /\ call'[q] = c
      /\ \A p \in Requests \ {q} : call'[p] = call[p] /\ ent'[p] = ent[p]
      /\ ent' \in [Requests -> BarRow \cup {NoRow}] /\ ent'[q] = bars[b]
  BY <1>1, <1>2, Goes DEF TypeOK
<1>4. /\ beside' \in [BarIds -> SUBSET Requests] /\ beside'[b] = beside[b] \cup more
      /\ \A a \in BarIds \ {b} : beside'[a] = beside[a]
      /\ \A a \in BarIds : beside[a] \subseteq beside'[a]
  <2>1. more \subseteq Requests /\ beside \in [BarIds -> SUBSET Requests]
    BY <1>2 DEF InFlight, TypeOK
  <2> QED BY <2>1, <1>1
<1>5. Lasting /\ ~Ended(q)' /\ Ended(q) /\ held[q] = {} /\ seen[q] = NoRead
  BY <1>1, <1>2, <1>3 DEF Lasting, Ended, CallOK
<1>6. /\ \A a \in BarIds \ {b} : InFlight(a)' = InFlight(a)
      /\ InFlight(b)' = InFlight(b) \cup {q} /\ q \notin InFlight(b)
      /\ \A a \in BarIds : \A p \in InFlight(a) : p # q /\ p \in Requests /\ call'[p] = call[p]
  BY <1>1, <1>3, <1>5 DEF InFlight, Ended
<1>7. TypeOK'
  BY <1>1, <1>2, <1>3, <1>4 DEF TypeOK
<1>8. CallOK'
  <2>1. \A p \in Requests \ {q} : Files(p)' = Files(p)
    BY <1>1, <1>3 DEF Files
  <2>2. c # NoCall
    BY BarNulls
  <2> QED BY <2>1, <2>2, <1>1, <1>2, <1>3, <1>5
          DEF CallOK, Admitted, Savers, Edits, Verdicts, Deletions, PartNames
<1>9. AbsentOK'
  BY <1>1, Parts DEF AbsentOK
<1>10. ReviewOK'
  BY <1>1, <1>3, <1>5, ReviewKept DEF SameStatus, Late
<1>11. TextOK'
  <2>1. \A p \in Requests : pc[p] = "idle" /\ pc'[p] # "idle" /\ ent'[p] # NoRow =>
           \E a \in BarIds : bars[a] # NoRow /\ ent'[p] = bars[a]
    BY <1>1, <1>3
  <2>2. \A p \in Requests : pc'[p] \in Late /\ call'[p].op \in Edits => pc[p] \in Late
    BY <1>3 DEF Late
  <2> QED BY <2>1, <2>2, <1>1, <1>3, <1>5, TextKept DEF SameText
<1>12. HeldOK'
  BY <1>1, <1>5, HeldKept DEF Seen
<1>13. MenuOK'
  <2>1. \A a \in BarIds : \A p \in Replacing(a)' : p \in Replacing(a)
    BY <1>1, <1>3, <1>6 DEF Replacing, Editing
  <2> QED BY <1>1, <1>5, <2>1, MenuKept DEF Seen
<1>14. PhotoOK'
  <2>1. c.op = "removePhoto" => c.photo \in Photos
    BY CallFields
  <2> QED BY <2>1, <1>1, <1>3, <1>5, PhotoKept DEF Admitted
<1>15. LimitOK'
  <2>1. \A a \in BarIds : Uploading(a)' \subseteq Uploading(a)
    BY <1>3, <1>6 DEF Uploading
  <2> QED BY <1>1, <1>5, <2>1, LimitKept
<1>16. DeletedOK'
  <2>1. \A a \in BarIds : \A p \in beside[a] : p \in Requests /\ p # q /\ call'[p] = call[p]
    BY <1>1, <1>2, <1>3, Parts DEF DeletedOK, TypeOK
  <2>2. ASSUME NEW a \in BarIds, NEW k \in RowKeys, WrittenBeside(a, k)
        PROVE  WrittenBeside(a, k)'
    <3>1. PICK p \in beside[a] : Writes(p, k)
      BY <2>2 DEF WrittenBeside
    <3>2. Writes(p, k)' /\ p \in beside'[a]
      BY <3>1, <2>1, <1>4 DEF Writes, NewMenu, NewHours, Files
    <3> QED BY <3>2 DEF WrittenBeside
  <2>3. ASSUME NEW a \in BarIds, NEW p \in InFlight(a)', NEW o \in InFlight(a)',
               call'[o].op \in Deletions
        PROVE  call'[p].op \in Deletions \/ p \in beside'[a]
    <3>1. CASE p # q /\ o # q
      BY <3>1, <2>3, <1>4, <1>6, Parts DEF DeletedOK
    <3>2. CASE p # q /\ o = q
      BY <3>2, <2>3, <1>3, <1>4, <1>6
    <3>3. CASE p = q
      <4>1. a = b
        BY <3>3, <2>3, <1>6
      <4>2. CASE c.op \in Deletions
        BY <3>3, <4>2, <1>3
      <4>3. CASE c.op \notin Deletions
        BY <3>3, <4>1, <4>3, <2>3, <1>3, <1>4, <1>6
      <4> QED BY <4>2, <4>3
    <3> QED BY <3>1, <3>2, <3>3
  <2>4. ASSUME NEW a \in BarIds, bars[a] # NoRow, bars[a].deleted
        PROVE  /\ \A k \in Live(a, RowKeys)' : WrittenBeside(a, k)'
               /\ \A p \in InFlight(a)' :
                     call'[p].op \in Savers \cup {"upload", "add"} => p \in beside'[a]
    <3>1. \A k \in Live(a, RowKeys)' : WrittenBeside(a, k)'
      BY <2>2, <2>4, <1>1, Parts DEF DeletedOK, Live
    <3>2. a = b => c.op \notin Savers \cup {"upload", "add"}
      BY <2>4 DEF Admitted
    <3>3. \A p \in InFlight(a) : call[p].op \in Savers \cup {"upload", "add"} => p \in beside[a]
      BY <2>4, Parts DEF DeletedOK
    <3> QED BY <3>1, <3>2, <3>3, <1>3, <1>4, <1>6
  <2>5. ASSUME NEW a \in BarIds, NEW p \in InFlight(a)', NEW k \in Live(a, RowKeys)',
               call'[p].op \in Deletions, Begun(p, k)'
        PROVE  k \in Seen(p)' \cup held'[p] \/ WrittenBeside(a, k)'
    <3>1. p # q
      BY <2>5, <1>1, <1>3, <1>5, KeyParts DEF Begun, Past
    <3>2. p \in InFlight(a) /\ k \in Live(a, RowKeys) /\ call[p].op \in Deletions /\ Begun(p, k)
      BY <3>1, <2>5, <1>1, <1>3, <1>6 DEF Begun, Live
    <3>3. k \in Seen(p) \cup held[p] \/ WrittenBeside(a, k)
      BY <3>2, Parts DEF DeletedOK
    <3> QED BY <3>2, <3>3, <2>2, <1>1 DEF Seen, Live
  <2>6. \A a \in BarIds : \A p \in beside'[a] : pc'[p] # "idle"
    <3>1. \A p \in more : pc[p] # "idle" \/ p = q
      BY DEF InFlight, Ended
    <3>2. \A a \in BarIds : \A p \in beside[a] : pc[p] # "idle"
      BY Parts DEF DeletedOK
    <3> QED BY <3>1, <3>2, <2>1, <1>2, <1>3, <1>4
  <2> QED BY <2>3, <2>4, <2>5, <2>6, <1>1 DEF DeletedOK
<1> QED BY <1>1, <1>7, <1>8, <1>9, <1>10, <1>11, <1>12, <1>13, <1>14, <1>15, <1>16
        DEF IInv, ComesBackBeside

\* What the calls that load a bar ask of it.
LEMMA StartUpdateStep ==
    ASSUME IInv, NEW q \in Requests, StartUpdate(q) PROVE IInv' /\ ComesBackBeside
<1>1. PICK b \in BarIds, t \in BOOLEAN, m \in BOOLEAN \cup {Keep}, h \in {Keep} \cup SUBSET Days :
         /\ Found(b)
         /\ Start(q, [op |-> "update", b |-> b, text |-> t, menu |-> m, hours |-> h], "select")
  BY DEF StartUpdate
<1> DEFINE c == [op |-> "update", b |-> b, text |-> t, menu |-> m, hours |-> h]
<1>2. c \in Call /\ c.op \in Savers /\ c.op \notin Deletions
  BY DEF Call, Savers, Edits, Deletions
<1>3. Admitted(c)
  BY <1>1 DEF Admitted, Found
<1> QED BY <1>1, <1>2, <1>3, StartStep

LEMMA StartVerdictStep ==
    ASSUME IInv, NEW q \in Requests, StartVerdict(q) PROVE IInv' /\ ComesBackBeside
<1>1. PICK b \in BarIds, op \in Verdicts : Found(b) /\ Start(q, [op |-> op, b |-> b], "select")
  BY DEF StartVerdict
<1> DEFINE c == [op |-> op, b |-> b]
<1>2. c \in Call /\ c.op \in Savers /\ c.op # "removePhoto" /\ c.op # "create"
  BY DEF Call, Savers, Verdicts
<1>3. Admitted(c)
  BY <1>1, <1>2 DEF Admitted, Found
<1> QED BY <1>1, <1>2, <1>3, StartStep

LEMMA StartDeletionStep ==
    ASSUME IInv, NEW q \in Requests, StartDeletion(q) PROVE IInv' /\ ComesBackBeside
<1>1. PICK b \in BarIds, op \in Deletions : Found(b) /\ Start(q, [op |-> op, b |-> b], "again")
  BY DEF StartDeletion
<1> DEFINE c == [op |-> op, b |-> b]
<1>2. c \in Call /\ c.op \in Deletions /\ c.op # "removePhoto" /\ c.op # "create"
  BY DEF Call, Deletions
<1>3. Admitted(c)
  BY <1>1, <1>2 DEF Admitted, Found
<1> QED BY <1>1, <1>2, <1>3, StartStep

LEMMA StartUploadStep ==
    ASSUME IInv, NEW q \in Requests, StartUpload(q) PROVE IInv' /\ ComesBackBeside
<1>1. PICK b \in BarIds, n \in 1..MaxFiles :
         Found(b) /\ Start(q, [op |-> "upload", b |-> b, files |-> n], "count")
  BY DEF StartUpload
<1> DEFINE c == [op |-> "upload", b |-> b, files |-> n]
<1>2. c \in Call
  BY DEF Call
<1>3. Admitted(c)
  BY <1>1 DEF Admitted, Found
<1> QED BY <1>1, <1>2, <1>3, StartStep

LEMMA StartRemovePhotoStep ==
    ASSUME IInv, NEW q \in Requests, StartRemovePhoto(q) PROVE IInv' /\ ComesBackBeside
<1>1. PICK b \in BarIds, k \in Photos :
         /\ Found(b) /\ Existing(b, {k}) # {}
         /\ Start(q, [op |-> "removePhoto", b |-> b, photo |-> k], "find")
  BY DEF StartRemovePhoto
<1> DEFINE c == [op |-> "removePhoto", b |-> b, photo |-> k]
<1>2. c \in Call
  BY DEF Call
<1>3. Admitted(c)
  BY <1>1 DEF Admitted, Found, Existing
<1> QED BY <1>1, <1>2, <1>3, StartStep

LEMMA StartAddStep ==
    ASSUME IInv, NEW q \in Requests, StartAdd(q) PROVE IInv' /\ ComesBackBeside
<1>1. PICK b \in BarIds, m \in Bookmarks :
         Found(b) /\ Start(q, [op |-> "add", b |-> b, mark |-> m], "findMark")
  BY DEF StartAdd
<1> DEFINE c == [op |-> "add", b |-> b, mark |-> m]
<1>2. c \in Call
  BY DEF Call
<1>3. Admitted(c)
  BY <1>1 DEF Admitted, Found
<1> QED BY <1>1, <1>2, <1>3, StartStep

LEMMA StartDropStep ==
    ASSUME IInv, NEW q \in Requests, StartDrop(q) PROVE IInv' /\ ComesBackBeside
<1>1. PICK b \in BarIds, m \in Bookmarks :
         Live(b, {m}) # {} /\ Start(q, [op |-> "drop", b |-> b, mark |-> m], "dropMark")
  BY DEF StartDrop
<1> DEFINE c == [op |-> "drop", b |-> b, mark |-> m]
<1>2. c \in Call
  BY DEF Call
<1>3. bars[b] # NoRow
  BY <1>1, KeyParts, Parts DEF Live, AbsentOK
<1>4. Admitted(c)
  BY <1>3 DEF Admitted, Savers, Edits, Verdicts, Deletions
<1> QED BY <1>1, <1>2, <1>4, StartStep

LEMMA CreateStep ==
    ASSUME IInv, NEW q \in Requests, Create(q) PROVE IInv' /\ ComesBackBeside
<1>1. PICK b \in BarIds, days \in SUBSET Days, menu \in SUBSET {<<"menu", q>>} :
         /\ bars[b] = NoRow
         /\ bars' = [bars EXCEPT ![b] = [status |-> "PENDING", text |-> q, updatedAt |-> q,
                                        deleted |-> FALSE]]
         /\ rows' = Set(b, menu \cup ({"hours"} \X days), "live")
         /\ newest' = [newest EXCEPT ![b] = q]
         /\ unread' = [unread EXCEPT ![b] = {q}]
         /\ call' = [call EXCEPT ![q] = [op |-> "create", b |-> b, hours |-> days]]
  BY DEF Create
<1> DEFINE c == [op |-> "create", b |-> b, hours |-> days]
           new == menu \cup ({"hours"} \X days)
<1>2. /\ pc[q] = "idle" /\ Go(q, "done")
      /\ UNCHANGED <<objects, audit, ent, cols, seen, held, read, slipped, beside, met>>
  BY DEF Create
<1>3. /\ TypeOK /\ CallOK /\ "done" \in PC
      /\ \A a \in BarIds : beside[a] \subseteq Requests
  BY Parts DEF PC, TypeOK
<1>4. /\ pc' \in [Requests -> PC] /\ pc'[q] = "done" /\ \A p \in Requests \ {q} : pc'[p] = pc[p]
      /\ c \in Call /\ call' \in [Requests -> Call \cup {NoCall}] /\ call'[q] = c
      /\ \A p \in Requests \ {q} : call'[p] = call[p]
      /\ held[q] = {} /\ seen[q] = NoRead /\ ent[q] = NoRow /\ Lasting
      /\ c.op \notin Savers \cup Deletions \cup {"upload", "removePhoto"}
  <2>1. c \in Call /\ c.op \notin Savers \cup Deletions \cup {"upload", "removePhoto"}
    BY DEF Call, Savers, Deletions, Edits, Verdicts
  <2>2. /\ pc' \in [Requests -> PC] /\ pc'[q] = "done" /\ \A p \in Requests \ {q} : pc'[p] = pc[p]
    BY <1>2, <1>3, Goes
  <2>3. /\ call' \in [Requests -> Call \cup {NoCall}] /\ call'[q] = c
        /\ \A p \in Requests \ {q} : call'[p] = call[p]
    BY <2>1, <1>1, <1>3 DEF TypeOK
  <2>4. held[q] = {} /\ seen[q] = NoRead /\ ent[q] = NoRow
    BY <1>2, <1>3 DEF CallOK
  <2> QED BY <2>1, <2>2, <2>3, <2>4, <1>2 DEF Lasting
<1>5. /\ bars' \in [BarIds -> BarRow \cup {NoRow}] /\ bars'[b] # NoRow /\ ~bars'[b].deleted
      /\ bars'[b].status = "PENDING" /\ bars'[b].text = q
      /\ \A a \in BarIds \ {b} : bars'[a] = bars[a]
  <2>1. [status |-> "PENDING", text |-> q, updatedAt |-> q, deleted |-> FALSE] \in BarRow
    BY DEF BarRow, BarStatus, Texts
  <2> QED BY <2>1, <1>1, <1>3, BarNulls DEF TypeOK
<1>6. new \subseteq RowKeys /\ new \cap Photos = {} /\ new \cap Menu \subseteq {<<"menu", q>>}
  <2>1. menu \subseteq Menu /\ {"hours"} \X days \subseteq Hours
    BY DEF Menu, Texts, Hours
  <2> QED BY <2>1, KeyParts
<1>7. /\ rows' \in [BarIds -> [RowKeys -> RowState]] /\ \A a \in BarIds \ {b} : rows'[a] = rows[a]
      /\ \A k \in RowKeys : /\ rows[b][k] = "none"
                            /\ rows'[b][k] = IF k \in new THEN "live" ELSE "none"
  <2>1. \A k \in RowKeys : rows[b][k] = "none"
    BY <1>1, Parts DEF AbsentOK
  <2> DEFINE f == [k \in RowKeys |-> IF k \in new THEN "live" ELSE rows[b][k]]
  <2>2. rows' = [rows EXCEPT ![b] = f] /\ rows \in [BarIds -> [RowKeys -> RowState]]
    BY <1>1, <1>3 DEF Set, TypeOK
  <2>3. f \in [RowKeys -> RowState] /\ \A k \in RowKeys : f[k] = IF k \in new THEN "live" ELSE "none"
    <3>1. "live" \in RowState /\ "none" \in RowState
      BY DEF RowState
    <3> QED BY <3>1, <2>1
  <2>4. rows' \in [BarIds -> [RowKeys -> RowState]] /\ rows'[b] = f
    BY <2>2, <2>3
  <2>5. \A a \in BarIds \ {b} : rows'[a] = rows[a]
    BY <2>2
  <2> QED BY <2>1, <2>3, <2>4, <2>5
<1>8. /\ newest' \in [BarIds -> Texts] /\ newest'[b] = q
      /\ \A a \in BarIds \ {b} : newest'[a] = newest[a]
      /\ unread' \in [BarIds -> SUBSET Requests] /\ unread'[b] = {q}
      /\ \A a \in BarIds \ {b} : unread'[a] = unread[a]
  BY <1>1, <1>3 DEF TypeOK, Texts
<1>9. /\ \A p \in Requests \ {q} : pc[p] # "idle" => call[p].b \in BarIds \ {b}
      /\ InFlight(b)' = {} /\ \A a \in BarIds : InFlight(a)' = InFlight(a)
      /\ \A a \in BarIds : \A p \in InFlight(a) : p \in Requests \ {q} /\ call'[p] = call[p]
  <2>1. \A p \in Requests \ {q} : pc[p] # "idle" => call[p].b \in BarIds \ {b}
    BY <1>1, <1>3, CallOf DEF CallOK
  <2>2. Ended(q) /\ Ended(q)' /\ \A p \in Requests \ {q} : Ended(p)' <=> Ended(p)
    BY <1>2, <1>4 DEF Ended
  <2>3. \A a \in BarIds : InFlight(a)' = InFlight(a)
    BY <2>2, <1>4 DEF InFlight
  <2>4. InFlight(b)' = {}
    BY <2>1, <2>2, <1>4 DEF InFlight, Ended
  <2>5. \A a \in BarIds : \A p \in InFlight(a) : p \in Requests \ {q} /\ call'[p] = call[p]
    BY <2>2, <1>4 DEF InFlight
  <2> QED BY <2>1, <2>3, <2>4, <2>5
<1>10. TypeOK'
  <2>1. \A p \in Requests : pc'[p] = "photo" => held[p] # {}
    BY <1>3, <1>4 DEF TypeOK
  <2> HIDE DEF c
  <2> QED BY <2>1, <1>2, <1>3, <1>4, <1>5, <1>7, <1>8 DEF TypeOK
<1>11. CallOK'
  <2>1. \A p \in Requests \ {q} : Files(p)' = Files(p)
    BY <1>4 DEF Files
  <2>2. c # NoCall
    BY <1>4, BarNulls
  <2> QED BY <2>1, <2>2, <1>2, <1>3, <1>4, <1>5, <1>9 DEF CallOK, PartNames
<1>12. AbsentOK'
  <2>1. \A a \in BarIds : bars'[a] = NoRow => bars[a] = NoRow /\ rows'[a] = rows[a]
    BY <1>5, <1>7
  <2> QED BY <2>1, Parts DEF AbsentOK
<1>13. ReviewOK'
  <2>1. ApprovedIsReviewed'
    BY <1>2, <1>5, <1>8, Parts DEF ReviewOK, ApprovedIsReviewed
  <2>2. ASSUME NEW p \in Requests \ slipped, pc'[p] \in Late, call'[p].op \in Edits,
               "status" \notin cols[p]
        PROVE  bars'[call'[p].b].status # "APPROVED"
    <3>1. p # q /\ pc[p] \in Late /\ pc[p] # "idle" /\ call'[p] = call[p]
      BY <2>2, <1>4 DEF Late
    <3>2. bars[call[p].b].status # "APPROVED"
      BY <2>2, <3>1, Parts DEF ReviewOK
    <3> QED BY <3>1, <3>2, <1>5, <1>9
  <2>3. ASSUME NEW p \in slipped PROVE pc'[p] # "idle" /\ "BAR_APPROVED" \in audit[call'[p].b]
    <3>1. p \in Requests /\ pc[p] # "idle" /\ "BAR_APPROVED" \in audit[call[p].b]
      BY <2>3, Parts DEF ReviewOK, TypeOK
    <3> QED BY <3>1, <1>2, <1>4
  <2>4. ASSUME NEW a \in BarIds, NEW p \in unread'[a] PROVE pc'[p] # "idle" /\ call'[p].b = a
    <3>1. \A o \in unread[a] : o \in Requests /\ pc[o] # "idle" /\ call[o].b = a
      BY Parts DEF ReviewOK, TypeOK
    <3> QED BY <3>1, <1>2, <1>4, <1>8
  <2> QED BY <2>1, <2>2, <2>3, <2>4, <1>2 DEF ReviewOK
<1>14. TextOK'
  <2>1. EditsStand'
    <3> SUFFICES ASSUME NEW a \in BarIds, bars'[a] # NoRow, bars'[a].text # newest'[a]
                 PROVE  \E p \in Requests \ {newest'[a]} :
                            /\ pc'[p] = "done" /\ call'[p].op \in Savers
                            /\ call'[p].b = a /\ ent[p].text = bars'[a].text
      BY <1>2 DEF EditsStand
    <3>1. a # b /\ bars[a] # NoRow /\ bars'[a] = bars[a] /\ newest'[a] = newest[a]
      BY <1>5, <1>8
    <3>2. PICK p \in Requests \ {newest[a]} : /\ pc[p] = "done" /\ call[p].op \in Savers
                                              /\ call[p].b = a /\ ent[p].text = bars[a].text
      <4>1. EditsStand
        BY Parts DEF TextOK
      <4> QED BY <3>1, <4>1 DEF EditsStand
    <3>3. p # q
      BY <3>2, <1>2
    <3> QED BY <3>1, <3>2, <3>3, <1>4
  <2>2. \A a \in BarIds : bars'[a] # NoRow /\ bars'[a].text # Earlier => pc'[bars'[a].text] = "done"
    <3>1. \A a \in BarIds : bars[a] # NoRow /\ bars[a].text # Earlier =>
             bars[a].text \in Requests /\ pc[bars[a].text] = "done"
      <4>1. \A a \in BarIds : bars[a] # NoRow => bars[a] \in BarRow
        BY <1>3 DEF TypeOK
      <4> QED BY <4>1, Parts DEF BarRow, Texts, TextOK
    <3> QED BY <3>1, <1>4, <1>5 DEF Lasting
  <2>3. \A a \in BarIds : newest'[a] # Earlier =>
           /\ pc'[newest'[a]] = "done"
           /\ call'[newest'[a]].op \in Savers =>
                 call'[newest'[a]].op \in Edits /\ call'[newest'[a]].text
    <3>1. \A a \in BarIds : newest[a] # Earlier =>
             /\ newest[a] \in Requests /\ pc[newest[a]] = "done"
             /\ call[newest[a]].op \in Savers =>
                   call[newest[a]].op \in Edits /\ call[newest[a]].text
      BY <1>3, Parts DEF TextOK, TypeOK, Texts
    <3>2. \A a \in BarIds : newest[a] # Earlier => newest[a] \in Requests \ {q}
      BY <3>1, <1>2
    <3> QED BY <3>1, <3>2, <1>4, <1>8
  <2>4. ASSUME NEW p \in Requests, pc'[p] # "idle", ent[p] # NoRow, ent[p].text # Earlier
        PROVE  pc'[ent[p].text] = "done"
    <3>1. p # q /\ pc[p] # "idle" /\ ent[p] \in BarRow
      BY <2>4, <1>3, <1>4 DEF TypeOK
    <3>2. ent[p].text \in Requests /\ pc[ent[p].text] = "done"
      BY <2>4, <3>1, Parts DEF TextOK, BarRow, Texts
    <3> QED BY <3>2, <1>4 DEF Lasting
  <2>5. \A p \in Requests : pc'[p] \in Late => p # q /\ pc[p] \in Late
    BY <1>4 DEF Late
  <2> QED BY <2>1, <2>2, <2>3, <2>4, <2>5, <1>2, <1>4, Parts DEF TextOK
<1>15. HeldOK'
  <2>1. \A a \in BarIds : \A k \in RowKeys : rows[a][k] # "none" => rows'[a][k] # "none"
    BY <1>7
  <2> QED BY <2>1, <1>2, <1>4, HeldKept DEF Seen
<1>16. MenuOK'
  <2>1. \A a \in BarIds \ {b} : Live(a, Menu)' = Live(a, Menu)
    BY <1>7 DEF Live
  <2>2. Live(b, Menu)' \subseteq {<<"menu", q>>}
    BY <1>6, <1>7, KeyParts DEF Live
  <2>3. OneMenu'
    BY <2>1, <2>2, <1>2, Parts DEF MenuOK, OneMenu
  <2>4. \A a \in BarIds : Replacing(a)' = Replacing(a) /\ Replacing(a) \subseteq Requests
    BY <1>2, <1>4, <1>9 DEF Replacing, Editing, InFlight
  <2>5. Replacing(b)' = {}
    BY <1>9 DEF Replacing, Editing
  <2>6. \A p \in Requests : Seen(p)' = Seen(p) /\ held'[p] = held[p]
    BY <1>2 DEF Seen
  <2>7. ASSUME NEW a \in BarIds, NEW p \in Replacing(a)', p \notin met
        PROVE  Live(a, Menu)' \subseteq Seen(p)' \cup held'[p] /\ Replacing(a)' = {p}
    <3>1. a # b /\ p \in Replacing(a) /\ p \in Requests
      BY <2>4, <2>5, <2>7
    <3>2. Live(a, Menu) \subseteq Seen(p) \cup held[p] /\ Replacing(a) = {p}
      BY <2>7, <3>1, Parts DEF MenuOK
    <3> QED BY <3>1, <3>2, <2>1, <2>4, <2>6
  <2> QED BY <2>3, <2>7, <1>2 DEF MenuOK
<1>17. /\ \A a \in BarIds : \A k \in Photos : rows'[a][k] = rows[a][k]
       /\ \A a \in BarIds : Uploading(a)' \subseteq Uploading(a)
  <2>1. \A a \in BarIds : \A k \in Photos : rows'[a][k] = rows[a][k]
    BY <1>6, <1>7, KeyParts
  <2>2. \A a \in BarIds : Uploading(a)' \subseteq Uploading(a)
    BY <1>4, <1>9 DEF Uploading
  <2> QED BY <2>1, <2>2
<1>18. PhotoOK'
  BY <1>2, <1>4, <1>17, PhotoKept
<1>19. LimitOK'
  BY <1>2, <1>4, <1>17, LimitKept
<1>20. DeletedOK'
  <2>1. \A a \in BarIds : \A p \in beside[a] : p \in Requests \ {q} /\ call'[p] = call[p] /\ pc[p] # "idle"
    BY <1>2, <1>3, <1>4, Parts DEF DeletedOK
  <2>2. ASSUME NEW a \in BarIds, NEW k \in RowKeys, WrittenBeside(a, k)
        PROVE  WrittenBeside(a, k)'
    <3>1. PICK p \in beside[a] : Writes(p, k)
      BY <2>2 DEF WrittenBeside
    <3>2. Writes(p, k)' /\ p \in beside'[a]
      BY <3>1, <2>1, <1>2 DEF Writes, NewMenu, NewHours, Files
    <3> QED BY <3>2 DEF WrittenBeside
  <2>3. \A a \in BarIds : \A p, o \in InFlight(a)' :
           call'[o].op \in Deletions => call'[p].op \in Deletions \/ p \in beside'[a]
    BY <1>2, <1>9, Parts DEF DeletedOK
  <2>4. ASSUME NEW a \in BarIds, bars'[a] # NoRow, bars'[a].deleted
        PROVE  /\ \A k \in Live(a, RowKeys)' : WrittenBeside(a, k)'
               /\ \A p \in InFlight(a)' :
                     call'[p].op \in Savers \cup {"upload", "add"} => p \in beside'[a]
    <3>1. a # b /\ bars[a] # NoRow /\ bars[a].deleted /\ Live(a, RowKeys)' = Live(a, RowKeys)
      BY <2>4, <1>5, <1>7 DEF Live
    <3>2. \A k \in Live(a, RowKeys)' : WrittenBeside(a, k)'
      BY <3>1, <2>2, Parts DEF DeletedOK, Live
    <3> QED BY <3>1, <3>2, <1>2, <1>9, Parts DEF DeletedOK
  <2>5. ASSUME NEW a \in BarIds, NEW p \in InFlight(a)', NEW k \in Live(a, RowKeys)',
               call'[p].op \in Deletions, Begun(p, k)'
        PROVE  k \in Seen(p)' \cup held'[p] \/ WrittenBeside(a, k)'
    <3>1. a # b /\ p \in InFlight(a) /\ p \in Requests \ {q} /\ call'[p] = call[p]
      BY <2>5, <1>9
    <3>2. k \in RowKeys /\ k \in Live(a, RowKeys)
      BY <3>1, <2>5, <1>7 DEF Live
    <3>3. Begun(p, k)
      BY <3>1, <2>5, <1>2, <1>4 DEF Begun
    <3>4. k \in Seen(p) \cup held[p] \/ WrittenBeside(a, k)
      BY <3>1, <3>2, <3>3, <2>5, Parts DEF DeletedOK
    <3> QED BY <3>2, <3>4, <2>2, <1>2 DEF Seen
  <2>6. \A a \in BarIds : \A p \in beside'[a] : pc'[p] # "idle"
    BY <2>1, <1>2, <1>4
  <2> QED BY <2>3, <2>4, <2>5, <2>6 DEF DeletedOK
<1>21. ComesBackBeside
  BY <1>1, <1>5 DEF ComesBackBeside
<1> QED BY <1>10, <1>11, <1>12, <1>13, <1>14, <1>15, <1>16, <1>18, <1>19, <1>20, <1>21 DEF IInv

-----------------------------------------------------------------------------
(* The invariant.                                                           *)

LEMMA InitHolds == Init => IInv
<1> SUFFICES ASSUME Init PROVE IInv
  OBVIOUS
<1>1. /\ bars \in [BarIds -> {NoRow} \cup [status : BarStatus, text : {Earlier},
                                          updatedAt : {Earlier}, deleted : {FALSE}]]
      /\ objects = {k \in Photos : \E b \in BarIds : rows[b][k] = "live"}
      /\ \E seeded \in SUBSET BarIds :
            audit = [b \in BarIds |->
                IF bars[b] = NoRow THEN {} ELSE
                CASE bars[b].status = "APPROVED" -> IF b \in seeded THEN {} ELSE {"BAR_APPROVED"}
                  [] bars[b].status = "REJECTED" -> {"BAR_REJECTED"}
                  [] OTHER -> {}]
      /\ pc = [q \in Requests |-> "idle"] /\ call = [q \in Requests |-> NoCall]
      /\ ent = [q \in Requests |-> NoRow] /\ cols = [q \in Requests |-> {}]
      /\ seen = [q \in Requests |-> NoRead] /\ held = [q \in Requests |-> {}]
      /\ newest = [b \in BarIds |-> Earlier] /\ unread = [b \in BarIds |-> {}]
      /\ read = [q \in Requests |-> {}]
      /\ beside = [b \in BarIds |-> {}] /\ slipped = {} /\ met = {}
  BY DEF Init
<1>2. PICK photo \in [EarlierPhotos -> BarIds \cup {NoRow}], menu \in {"none", "live"},
           mark \in [Users -> RowState], day \in [Days -> RowState] :
        rows = [b \in BarIds |-> [k \in RowKeys |->
            IF bars[b] = NoRow THEN "none" ELSE
            CASE k[1] = "photos" -> IF k[2] \in EarlierPhotos /\ photo[k[2]] = b
                                    THEN "live" ELSE "none"
              [] k[1] = "menu" -> IF k[2] = Earlier THEN menu ELSE "none"
              [] k[1] = "hours" -> day[k[2]]
              [] OTHER -> mark[k[2]]]]
  BY DEF Init
<1>3. \A b \in BarIds : bars[b] # NoRow =>
         bars[b] \in BarRow /\ bars[b].text = Earlier /\ ~bars[b].deleted
  BY <1>1 DEF BarRow, Texts
<1>4. \A b \in BarIds : /\ bars[b] = NoRow => \A k \in RowKeys : rows[b][k] = "none"
                        /\ \A k \in Photos : /\ rows[b][k] \in {"none", "live"}
                                             /\ rows[b][k] # "none" =>
                                                   k[2] \in EarlierPhotos /\ photo[k[2]] = b
                        /\ \A k \in Menu : /\ rows[b][k] \in {"none", "live"}
                                           /\ rows[b][k] # "none" => k[2] = Earlier
  <2>1. \A b \in BarIds, k \in RowKeys : bars[b] = NoRow => rows[b][k] = "none"
    <3> SUFFICES ASSUME NEW b \in BarIds, NEW k \in RowKeys, bars[b] = NoRow PROVE rows[b][k] = "none"
      OBVIOUS
    <3> QED BY <1>2
  <2>2. ASSUME NEW b \in BarIds, NEW k \in Photos
        PROVE  /\ rows[b][k] \in {"none", "live"}
               /\ rows[b][k] # "none" => k[2] \in EarlierPhotos /\ photo[k[2]] = b
    <3>1. k \in RowKeys /\ k[1] = "photos"
      BY KeyParts
    <3> QED BY <3>1, <1>2
  <2>3. ASSUME NEW b \in BarIds, NEW k \in Menu
        PROVE  /\ rows[b][k] \in {"none", "live"}
               /\ rows[b][k] # "none" => k[2] = Earlier
    <3>1. k \in RowKeys /\ k[1] = "menu"
      BY KeyParts
    <3> QED BY <3>1, <1>2
  <2> QED BY <2>1, <2>2, <2>3
<1>5. rows \in [BarIds -> [RowKeys -> RowState]]
  <2> SUFFICES ASSUME NEW b \in BarIds, NEW k \in RowKeys
               PROVE  rows[b][k] \in RowState
    BY <1>2
  <2>1. CASE bars[b] = NoRow
    BY <2>1, <1>4 DEF RowState
  <2>2. CASE k \in Photos \cup Menu
    BY <2>2, <1>4 DEF RowState
  <2>3. CASE bars[b] # NoRow /\ k \in Hours
    <3>1. k[1] = "hours" /\ k[2] \in Days
      BY <2>3 DEF Hours
    <3> QED BY <2>3, <3>1, <1>2
  <2>4. CASE bars[b] # NoRow /\ k \in Bookmarks
    <3>1. k[1] = "bookmarks" /\ k[2] \in Users
      BY <2>4 DEF Bookmarks
    <3> QED BY <2>4, <3>1, <1>2
  <2> QED BY <2>1, <2>2, <2>3, <2>4, KeyParts
<1>6. audit \in [BarIds -> SUBSET Decisions]
  BY <1>1 DEF Decisions
<1>7. TypeOK
  <2>1. bars \in [BarIds -> BarRow \cup {NoRow}]
    BY <1>1, <1>3
  <2> QED BY <2>1, <1>1, <1>5, <1>6 DEF TypeOK, PC, Texts
<1>8. CallOK /\ HeldOK
  BY <1>1 DEF CallOK, HeldOK
<1>9. AbsentOK
  BY <1>4 DEF AbsentOK
<1>10. ReviewOK
  BY <1>1 DEF ReviewOK, ApprovedIsReviewed, Late
<1>11. TextOK
  BY <1>1, <1>3 DEF TextOK, EditsStand, Late
<1>12. \A b \in BarIds : InFlight(b) = {} /\ Replacing(b) = {} /\ Uploading(b) = {}
  BY <1>1 DEF InFlight, Ended, Replacing, Editing, Uploading
<1>13. MenuOK
  <2>1. \A k \in Menu, o \in Menu : k[2] = Earlier /\ o[2] = Earlier => k = o
    BY DEF Menu
  <2> QED BY <2>1, <1>4, <1>12 DEF MenuOK, OneMenu, Live
<1>14. PhotoOK
  <2>1. PhotoHasObject
    BY <1>1 DEF PhotoHasObject, Live
  <2>2. \A k \in Photos : \A a, b \in BarIds : rows[a][k] # "none" /\ rows[b][k] # "none" => a = b
    BY <1>4
  <2>3. ASSUME NEW q \in Requests, NEW n \in 1..MaxFiles, NEW b \in BarIds
        PROVE  rows[b][<<"photos", <<q, n>>>>] = "none"
    <3>1. <<"photos", <<q, n>>>> \in Photos /\ <<q, n>> \notin EarlierPhotos
      BY BarBounds DEF Photos, PhotoKeys
    <3> QED BY <3>1, <1>4
  <2> QED BY <2>1, <2>2, <2>3, <1>1 DEF PhotoOK
<1>15. LimitOK
  <2> SUFFICES ASSUME NEW b \in BarIds
               PROVE  Cardinality(Live(b, Photos) \ Uploaded(met)) <= MaxPhotos
    BY <1>12 DEF LimitOK
  <2>1. Live(b, Photos) \ Uploaded(met) \subseteq {"photos"} \X EarlierPhotos
    BY <1>4 DEF Live, Photos
  <2>2. /\ IsFiniteSet({"photos"} \X EarlierPhotos)
        /\ Cardinality({"photos"} \X EarlierPhotos) = 1 * Cardinality(EarlierPhotos)
    <3>1. IsFiniteSet({"photos"}) /\ Cardinality({"photos"}) = 1
      BY FS_Singleton
    <3> QED BY <3>1, BarBounds, FS_Product
  <2>3. /\ Cardinality(Live(b, Photos) \ Uploaded(met)) <= Cardinality({"photos"} \X EarlierPhotos)
        /\ Cardinality(Live(b, Photos) \ Uploaded(met)) \in Nat
        /\ Cardinality(EarlierPhotos) \in Nat
    BY <2>1, <2>2, BarBounds, FS_Subset, FS_CardinalityType
  <2> QED BY <2>2, <2>3, BarBounds
<1>16. DeletedOK
  BY <1>1, <1>3, <1>12 DEF DeletedOK
<1> QED BY <1>7, <1>8, <1>9, <1>10, <1>11, <1>13, <1>14, <1>15, <1>16 DEF IInv

LEMMA UnchangedHolds == ASSUME IInv, UNCHANGED vars PROVE IInv' /\ ComesBackBeside
<1>1. UNCHANGED <<bars, rows, objects, audit, pc, call, ent, cols, seen, held,
                  newest, unread, read, slipped, beside, met>>
  BY DEF vars, tables, request, history
<1>2. TypeOK' /\ CallOK' /\ AbsentOK' /\ HeldOK'
  BY <1>1, Parts DEF TypeOK, CallOK, AbsentOK, HeldOK, Files, Seen
<1>3. ReviewOK' /\ TextOK'
  BY <1>1, Parts DEF ReviewOK, ApprovedIsReviewed, TextOK, EditsStand
<1>4. MenuOK'
  BY <1>1, Parts DEF MenuOK, OneMenu, Live, Replacing, Editing, InFlight, Ended, Seen
<1>5. PhotoOK'
  BY <1>1, Parts DEF PhotoOK, PhotoHasObject, Live
<1>6. LimitOK'
  BY <1>1, Parts DEF LimitOK, Live, Uploading, InFlight, Ended, Files, Uploaded
<1>7. DeletedOK'
  BY <1>1, Parts DEF DeletedOK, InFlight, Ended, Live, WrittenBeside, Writes, NewMenu, NewHours,
                     Files, Begun, Seen
<1> QED BY <1>1, <1>2, <1>3, <1>4, <1>5, <1>6, <1>7 DEF IInv, ComesBackBeside

LEMMA NextHolds == ASSUME IInv, [Next]_vars PROVE IInv' /\ ComesBackBeside
<1>1. CASE UNCHANGED vars
  BY <1>1, UnchangedHolds
<1>2. CASE Next
  <2>1. ASSUME NEW q \in Requests, Begin(q) PROVE IInv' /\ ComesBackBeside
    BY <2>1, CreateStep, StartUpdateStep, StartVerdictStep, StartDeletionStep, StartUploadStep,
       StartRemovePhotoStep, StartAddStep, StartDropStep DEF Begin
  <2>2. ASSUME NEW q \in Requests, Advance(q) PROVE IInv' /\ ComesBackBeside
    BY <2>2, SaveSelectStep, SaveUpdateStep, CommitVerdictStep, BulkBeginStep, BulkEndStep,
       CommitUpdateStep, FindAgainStep, CommitDeletionStep, CountPhotosStep, StoreFilesStep,
       SavePhotoStep, FindPhotoStep, DropObjectStep, SoftDeletePhotoStep, FindMarkStep,
       FindDeletedMarkStep, RestoreMarkStep, InsertMarkStep, DropMarkStep DEF Advance
  <2>3. ASSUME NEW q \in Requests, Fail(q) PROVE IInv' /\ ComesBackBeside
    BY <2>3, FailStep
  <2>4. CASE Quiet
    BY <2>4, UnchangedHolds DEF Quiet
  <2> QED BY <1>2, <2>1, <2>2, <2>3, <2>4 DEF Next
<1> QED BY <1>1, <1>2

LEMMA Holds == Spec => []IInv
<1>1. Init => IInv
  BY InitHolds
<1>2. IInv /\ [Next]_vars => IInv'
  BY NextHolds
<1> QED BY <1>1, <1>2, PTL DEF Spec

-----------------------------------------------------------------------------
(* The theorems.                                                            *)

\* Tables and requests keep their types; an upload saves rows only for files it
\* has stored (photos.service.ts:60-78).
THEOREM BarTypes == Spec => []TypeOK
<1>1. IInv => TypeOK
  BY Parts
<1> QED BY <1>1, Holds, PTL

\* An approved bar shows no edit that an approval had not loaded, but for edits
\* that committed beside one or had compared the bar before it committed; a bar
\* nobody approved shows no edit at all (bars.service.ts:143-144,
\* admin-bars.service.ts:175-191, seed-init.service.ts:70-81).
THEOREM ApprovedBarsWereReviewed == Spec => []ApprovedIsReviewed
<1>1. IInv => ApprovedIsReviewed
  BY Parts DEF ReviewOK
<1> QED BY <1>1, Holds, PTL

\* The last text of a bar is lost only to a save of an older text it had loaded
\* (bars.service.ts:130-144, admin-bars.service.ts:175-191, 209-221).
THEOREM EditsAreKept == Spec => []EditsStand
<1>1. IInv => EditsStand
  BY Parts DEF TextOK
<1> QED BY <1>1, Holds, PTL

\* A bar has two menus only after two edits that replaced its menu at the same
\* time (bars.service.ts:146-154).
THEOREM MenusAreReplaced == Spec => []OneMenu
<1>1. IInv => OneMenu
  BY Parts DEF MenuOK
<1> QED BY <1>1, Holds, PTL

\* A photo on display lacks its object only while it is being removed, or when
\* its removal failed halfway (photos.service.ts:113-114).
THEOREM PhotosHaveObjects == Spec => []PhotoHasObject
<1>1. IInv => PhotoHasObject
  BY Parts DEF PhotoOK
<1> QED BY <1>1, Holds, PTL

\* Only uploads that counted together exceed the limit (photos.service.ts:47-78).
THEOREM PhotosAreLimited == Spec => []AtMostMaxPhotos
<1>1. IInv => AtMostMaxPhotos
  <2> SUFFICES ASSUME IInv, NEW b \in BarIds, Cardinality(Live(b, Photos)) > MaxPhotos,
                      \A q \in met : Live(b, Photos) \cap ({"photos"} \X ({q} \X (1..MaxFiles))) = {}
               PROVE  FALSE
    BY DEF AtMostMaxPhotos
  <2>1. Live(b, Photos) \ Uploaded(met) = Live(b, Photos)
    <3> SUFFICES ASSUME NEW k \in Live(b, Photos), k \in Uploaded(met) PROVE FALSE
      OBVIOUS
    <3>1. PICK q \in met, n \in 1..MaxFiles : k = <<"photos", <<q, n>>>>
      BY DEF Uploaded
    <3> QED BY <3>1
  <2>2. Cardinality(Live(b, Photos)) <= MaxPhotos
    BY <2>1, Parts DEF LimitOK
  <2>3. Cardinality(Live(b, Photos)) \in Nat
    BY PhotosFinite, FS_CardinalityType
  <2> QED BY <2>2, <2>3, BarBounds
<1> QED BY <1>1, Holds, PTL

\* What a deletion removes stays removed, except for calls that were under way
\* beside it (bars.service.ts:188-202, bookmarks.service.ts:29, photos.service.ts:37).
THEOREM DeletionsLast == Spec => DeletionLasts
<1>1. IInv => \A b \in BarIds : bars[b] # NoRow /\ bars[b].deleted =>
                 \A k \in Live(b, RowKeys) : \E q \in beside[b] : Writes(q, k)
  BY Parts DEF DeletedOK, WrittenBeside
<1>2. IInv /\ [Next]_vars =>
         [\A b \in BarIds : bars[b] # NoRow /\ bars[b].deleted /\ ~bars'[b].deleted =>
             \E q \in beside[b] : call[q].op \in Savers /\ pc'[q] = "done"]_vars
  BY NextHolds DEF ComesBackBeside
<1> QED BY <1>1, <1>2, Holds, PTL DEF Spec, DeletionLasts
=============================================================================
