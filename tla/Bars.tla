-------------------------------- MODULE Bars --------------------------------
(***************************************************************************)
(* Bars, their menus, opening hours, photos and bookmarks: the handlers of *)
(* BarsService, AdminBarsService, PhotosService and BookmarksService, run  *)
(* concurrently on one PostgreSQL database at READ COMMITTED.              *)
(*                                                                         *)
(* A request calls one handler and runs one statement at a time.  Edits,   *)
(* deletions and decisions are transactions: their writes are applied when *)
(* they commit, and until then their row locks make others wait.  A bulk   *)
(* UPDATE takes the rows it sees when it begins, and waits for the locks   *)
(* on those rows; what is inserted meanwhile escapes it.                   *)
(***************************************************************************)
EXTENDS Integers, FiniteSets

CONSTANTS Requests,       \* the calls of one behaviour; each is made once
          BarIds,         \* primary keys of bars, a pool
          Users,          \* who may bookmark a bar
          Days,           \* days of the week
          EarlierPhotos,  \* photos uploaded before the behaviour begins
          MaxPhotos,      \* MAX_PHOTOS_PER_BAR, 5 in the code
          MaxFiles,       \* how many files an upload has, at most
          Keep,           \* a part of a bar that an edit leaves out
          NoRow, NoCall, NoRead

ASSUME BarBounds == /\ IsFiniteSet(Requests) /\ IsFiniteSet(EarlierPhotos)
                    /\ MaxPhotos \in Nat /\ MaxFiles \in Nat
                    /\ Cardinality(EarlierPhotos) <= MaxPhotos
                    /\ EarlierPhotos \cap (Requests \X (1..MaxFiles)) = {}

VARIABLES
    bars,      \* table bars
    rows,      \* tables bar_photos, menu_items, operating_hours and bookmarks
    objects,   \* photos stored in S3
    audit,     \* table admin_actions: the decisions logged on a bar
    pc,        \* the next statement of a request
    call,      \* the handler and the arguments a request serves
    ent,       \* the bar entity a request loaded
    cols,      \* the columns save() found to differ from the entity
    seen,      \* the rows a bulk UPDATE saw when it began
    held,      \* the rows a transaction has updated; the files an upload has stored
    \* History, read by properties only.
    newest,    \* the last request whose edit of a bar was committed
    unread,    \* edits of a bar that no approval of it had loaded
    read,      \* the unread edits an approval has loaded with its bar
    slipped,   \* edits that committed, or had compared their bar, beside an approval
    beside,    \* calls under way on a bar at the same time as a deletion of it
    met        \* edits of a menu, and uploads, that overlapped another

tables  == <<bars, rows, objects, audit>>
request == <<call, ent, cols, seen, held>>
history == <<newest, unread, read, slipped, beside, met>>
vars    == <<tables, pc, request, history>>

-----------------------------------------------------------------------------
BarStatus == {"PENDING", "APPROVED", "REJECTED"}
Decisions == {"BAR_APPROVED", "BAR_REJECTED", "BAR_DELETED"}
Earlier   == "earlier"

\* A text and a time are named by the request that wrote them.
Texts  == Requests \cup {Earlier}
BarRow == [status : BarStatus, text : Texts, updatedAt : Texts, deleted : BOOLEAN]

\* The rows that hang on a bar.  A menu is one item, named like a text; the
\* hours of a bar are unique by day, its bookmarks by user.
PhotoKeys == EarlierPhotos \cup (Requests \X (1..MaxFiles))
Photos    == {"photos"} \X PhotoKeys
Menu      == {"menu"} \X Texts
Hours     == {"hours"} \X Days
Bookmarks == {"bookmarks"} \X Users
RowKeys   == Photos \cup Menu \cup Hours \cup Bookmarks
RowState  == {"none", "live", "deleted"}

Edits     == {"update"}
Deletions == {"remove", "adminDelete"}
Verdicts  == {"approve", "reject"}
Savers    == Edits \cup Verdicts

Call == [op : {"create"}, b : BarIds, hours : SUBSET Days]
   \cup [op : Edits, b : BarIds, text : BOOLEAN, menu : BOOLEAN \cup {Keep},
         hours : {Keep} \cup SUBSET Days]
   \cup [op : Deletions \cup Verdicts, b : BarIds]
   \cup [op : {"upload"}, b : BarIds, files : 1..MaxFiles]
   \cup [op : {"removePhoto"}, b : BarIds, photo : Photos]
   \cup [op : {"add", "drop"}, b : BarIds, mark : Bookmarks]

PC == {"idle", "select", "save", "again", "photos", "menu", "hours", "bookmarks", "commit",
       "count", "store", "photo", "find", "object", "unlink",
       "findMark", "findAny", "restore", "insert", "dropMark",
       "done", "conflict", "failed"}

ASSUME BarNulls == /\ NoRow \notin BarRow /\ NoCall \notin Call
                   /\ Keep \notin BOOLEAN /\ \A ds \in SUBSET Days : Keep # ds
                   /\ \A ks \in SUBSET RowKeys : NoRead # ks
                   /\ Earlier \notin Requests

Ended(q)    == pc[q] \in {"idle", "done", "conflict", "failed"}
Found(b)    == bars[b] # NoRow /\ ~bars[b].deleted
InFlight(b) == {q \in Requests : ~Ended(q) /\ call[q].b = b}

Existing(b, part) == {k \in part : rows[b][k] # "none"}
Live(b, part)     == {k \in part : rows[b][k] = "live"}

Set(b, ks, s) == [rows EXCEPT ![b] = [k \in RowKeys |-> IF k \in ks THEN s ELSE @[k]]]

-----------------------------------------------------------------------------
\* Each bar exists or not, with or without a menu, photos, hours and
\* bookmarks; earlier calls may have removed the hours or a bookmark.  A bar
\* that SeedInitService inserted is approved without a record.
Init ==
    /\ bars \in [BarIds -> {NoRow} \cup [status : BarStatus, text : {Earlier},
                                        updatedAt : {Earlier}, deleted : {FALSE}]]
    /\ \E photo \in [EarlierPhotos -> BarIds \cup {NoRow}], menu \in {"none", "live"},
          mark \in [Users -> RowState], day \in [Days -> RowState] :
          rows = [b \in BarIds |-> [k \in RowKeys |->
              IF bars[b] = NoRow THEN "none" ELSE
              CASE k[1] = "photos" -> IF k[2] \in EarlierPhotos /\ photo[k[2]] = b
                                      THEN "live" ELSE "none"
                [] k[1] = "menu" -> IF k[2] = Earlier THEN menu ELSE "none"
                [] k[1] = "hours" -> day[k[2]]
                [] OTHER -> mark[k[2]]]]
    /\ objects = {k \in Photos : \E b \in BarIds : rows[b][k] = "live"}
    /\ \E seeded \in SUBSET BarIds :
          audit = [b \in BarIds |->
              IF bars[b] = NoRow THEN {} ELSE
              CASE bars[b].status = "APPROVED" -> IF b \in seeded THEN {} ELSE {"BAR_APPROVED"}
                [] bars[b].status = "REJECTED" -> {"BAR_REJECTED"}
                [] OTHER -> {}]
    /\ pc   = [q \in Requests |-> "idle"]
    /\ call = [q \in Requests |-> NoCall]
    /\ ent  = [q \in Requests |-> NoRow]
    /\ cols = [q \in Requests |-> {}]
    /\ seen = [q \in Requests |-> NoRead]
    /\ held = [q \in Requests |-> {}]
    /\ newest  = [b \in BarIds |-> Earlier]
    /\ unread  = [b \in BarIds |-> {}]
    /\ read    = [q \in Requests |-> {}]
    /\ beside  = [b \in BarIds |-> {}]
    /\ slipped = {} /\ met = {}

Go(q, next) == pc' = [pc EXCEPT ![q] = next]

\* The first statement of a handler.  A call refused here (403, 404, 409)
\* changes nothing and is not represented.
Start(q, c, first) ==
    /\ pc[q] = "idle"
    /\ Go(q, first)
    /\ call' = [call EXCEPT ![q] = c]
    /\ ent' = [ent EXCEPT ![q] = bars[c.b]]
    /\ read' = [read EXCEPT ![q] = IF c.op = "approve" THEN unread[c.b] ELSE {}]
    /\ beside' = [beside EXCEPT ![c.b] = @ \cup
          (IF c.op \in Deletions THEN InFlight(c.b)
           ELSE IF \E p \in InFlight(c.b) : call[p].op \in Deletions THEN {q} ELSE {})]
    /\ UNCHANGED <<tables, cols, seen, held, newest, unread, slipped, met>>

-----------------------------------------------------------------------------
(***************************************************************************)
(* Creating, editing and judging a bar                                     *)
(***************************************************************************)

\* One transaction of inserts that nobody sees before it commits.
Create(q) == \E b \in BarIds, days \in SUBSET Days, menu \in SUBSET {<<"menu", q>>} :
    /\ pc[q] = "idle"
    /\ bars[b] = NoRow
    /\ bars' = [bars EXCEPT ![b] = [status |-> "PENDING", text |-> q, updatedAt |-> q,
                                    deleted |-> FALSE]]
    /\ rows' = Set(b, menu \cup ({"hours"} \X days), "live")
    /\ newest' = [newest EXCEPT ![b] = q]
    /\ unread' = [unread EXCEPT ![b] = {q}]
    /\ call' = [call EXCEPT ![q] = [op |-> "create", b |-> b, hours |-> days]]
    /\ Go(q, "done")
    /\ UNCHANGED <<objects, audit, ent, cols, seen, held, read, slipped, beside, met>>

StartUpdate(q) ==
    \E b \in BarIds, t \in BOOLEAN, m \in BOOLEAN \cup {Keep}, h \in {Keep} \cup SUBSET Days :
        /\ Found(b)
        /\ Start(q, [op |-> "update", b |-> b, text |-> t, menu |-> m, hours |-> h], "select")

StartVerdict(q) == \E b \in BarIds, op \in Verdicts :
    /\ Found(b)
    /\ IF op = "approve" THEN bars[b].status = "PENDING" ELSE bars[b].status # "REJECTED"
    /\ Start(q, [op |-> op, b |-> b], "select")

\* Mutant: an edit that leaves the status as it was.
EntityKeepingStatus(q) ==
    CASE call[q].op = "approve" -> [ent[q] EXCEPT !.status = "APPROVED"]
      [] call[q].op = "reject"  -> [ent[q] EXCEPT !.status = "REJECTED"]
      [] OTHER -> [ent[q] EXCEPT !.text = IF call[q].text THEN q ELSE @]

\* The entity a request saves: the one it loaded, with its change assigned.
Entity(q) ==
    CASE call[q].op = "approve" -> [ent[q] EXCEPT !.status = "APPROVED"]
      [] call[q].op = "reject"  -> [ent[q] EXCEPT !.status = "REJECTED"]
      [] OTHER -> [ent[q] EXCEPT !.status = "PENDING",
                                 !.text = IF call[q].text THEN q ELSE @]

\* Mutant: a column is missing from the entity's metadata.
DifferingNoText(row, e) ==
         (IF row.status # e.status THEN {"status"} ELSE {})
    \cup (IF row.updatedAt # e.updatedAt THEN {"updatedAt"} ELSE {})
    \cup (IF row.deleted # e.deleted THEN {"deleted"} ELSE {})

Differing(row, e) ==
         (IF row.status # e.status THEN {"status"} ELSE {})
    \cup (IF row.text # e.text THEN {"text"} ELSE {})
    \cup (IF row.updatedAt # e.updatedAt THEN {"updatedAt"} ELSE {})
    \cup (IF row.deleted # e.deleted THEN {"deleted"} ELSE {})

\* The row after the UPDATE of request q, if there is one: a time that differs is
\* written back like any other column, and otherwise it is the present one.
Patched(q, row, e, cs) ==
    [status    |-> IF "status" \in cs THEN e.status ELSE row.status,
     text      |-> IF "text" \in cs THEN e.text ELSE row.text,
     updatedAt |-> IF cs = {} THEN row.updatedAt ELSE IF "updatedAt" \in cs THEN e.updatedAt ELSE q,
     deleted   |-> IF "deleted" \in cs THEN e.deleted ELSE row.deleted]

\* save(bar) selects the row again, deleted or not.
SaveSelect(q) ==
    /\ pc[q] = "select"
    /\ cols' = [cols EXCEPT ![q] = Differing(bars[call[q].b], Entity(q))]
    /\ Go(q, "save")
    /\ UNCHANGED <<tables, call, ent, seen, held, history>>

Editing(b) == {p \in InFlight(b) : call[p].op \in Edits}

\* The edits that have updated the row of a bar and not yet committed.
Locking(b) == {p \in Editing(b) : pc[p] \in {"menu", "hours", "commit"} /\ cols[p] # {}}

BarFree(q) == cols[q] = {} \/ Locking(call[q].b) \ {q} = {}

\* The UPDATE of an edit's save(bar), if any column differs.
SaveUpdate(q) ==
    /\ pc[q] = "save" /\ call[q].op \in Edits
    /\ BarFree(q)
    /\ Go(q, IF call[q].menu # Keep THEN "menu" ELSE IF call[q].hours # Keep THEN "hours" ELSE "commit")
    /\ UNCHANGED <<tables, request, history>>

Log(b, d) == audit' = [audit EXCEPT ![b] = @ \cup {d}]

\* The UPDATE of a decision, its audit record and the commit.
CommitVerdict(q) ==
    LET b == call[q].b IN
    /\ pc[q] = "save" /\ call[q].op \in Verdicts
    /\ BarFree(q)
    /\ bars' = [bars EXCEPT ![b] = Patched(q, @, Entity(q), cols[q])]
    /\ IF call[q].op = "approve"
       THEN /\ Log(b, "BAR_APPROVED")
            /\ unread' = [unread EXCEPT ![b] = @ \ read[q]]
            /\ slipped' = slipped \cup (unread[b] \ read[q]) \cup
                  {p \in Editing(b) : pc[p] \in {"save", "menu", "hours", "commit"}}
       ELSE Log(b, "BAR_REJECTED") /\ UNCHANGED <<unread, slipped>>
    /\ Go(q, "done")
    /\ UNCHANGED <<rows, objects, request, newest, read, beside, met>>

-----------------------------------------------------------------------------
(***************************************************************************)
(* The bulk UPDATEs of edits and deletions                                 *)
(***************************************************************************)
Part(name) == CASE name = "photos" -> Photos [] name = "menu" -> Menu
                [] name = "hours" -> Hours [] name = "bookmarks" -> Bookmarks
PartNames  == {"photos", "menu", "hours", "bookmarks"}

\* Mutant: a deletion leaves the bookmarks.
AfterSkipping(q, name) ==
    IF call[q].op \in Edits
    THEN IF name = "menu" /\ call[q].hours # Keep THEN "hours" ELSE "commit"
    ELSE CASE name = "photos" -> "menu" [] name = "menu" -> "hours" [] OTHER -> "commit"

\* The statement after the bulk UPDATE of a part.
After(q, name) ==
    IF call[q].op \in Edits
    THEN IF name = "menu" /\ call[q].hours # Keep THEN "hours" ELSE "commit"
    ELSE CASE name = "photos" -> "menu" [] name = "menu" -> "hours"
           [] name = "hours" -> "bookmarks" [] name = "bookmarks" -> "commit"

\* Edits whose UPDATE of the menu has begun.
Replacing(b) == {p \in Editing(b) : /\ call[p].menu # Keep
                                    /\ \/ pc[p] = "menu" /\ seen[p] # NoRead
                                       \/ pc[p] \in {"hours", "commit"}}

\* A statement begins: it sees every row of the bar, deleted ones too.
BulkBegin(q) ==
    LET b == call[q].b IN
    /\ pc[q] \in PartNames
    /\ seen[q] = NoRead
    /\ seen' = [seen EXCEPT ![q] = Existing(b, Part(pc[q]))]
    /\ met' = IF pc[q] = "menu" /\ call[q].op \in Edits /\ Replacing(b) # {}
              THEN met \cup Replacing(b) \cup {q} ELSE met
    /\ UNCHANGED <<tables, pc, call, ent, cols, held, newest, unread, read, slipped, beside>>

\* Transactions that hold the lock of one of these rows.
Holders(b, ks) == {p \in InFlight(b) : held[p] \cap ks # {} /\ call[p].op # "upload"}

\* It ends once it has the locks of the rows it saw.
BulkEnd(q) ==
    /\ pc[q] \in PartNames
    /\ seen[q] # NoRead
    /\ Holders(call[q].b, seen[q]) \ {q} = {}
    /\ held' = [held EXCEPT ![q] = @ \cup seen[q]]
    /\ seen' = [seen EXCEPT ![q] = NoRead]
    /\ Go(q, After(q, pc[q]))
    /\ UNCHANGED <<tables, call, ent, cols, history>>

NewMenu(q)  == IF call[q].menu = TRUE THEN {<<"menu", q>>} ELSE {}
NewHours(q) == IF call[q].hours = Keep THEN {} ELSE {"hours"} \X call[q].hours

\* Mutant: the new menu is added to the old one.
CommitUpdateKeeping(q) ==
    LET b == call[q].b IN
    /\ pc[q] = "commit" /\ call[q].op \in Edits
    /\ Existing(b, NewHours(q)) = {}
    /\ bars' = [bars EXCEPT ![b] = Patched(q, @, Entity(q), cols[q])]
    /\ rows' = Set(b, NewMenu(q) \cup NewHours(q), "live")
    /\ newest' = IF call[q].text THEN [newest EXCEPT ![b] = q] ELSE newest
    /\ unread' = [unread EXCEPT ![b] = @ \cup {q}]
    /\ held' = [held EXCEPT ![q] = {}]
    /\ Go(q, "done")
    /\ UNCHANGED <<objects, audit, call, ent, cols, seen, read, slipped, beside, met>>

\* The inserts of an edit and its commit.  The unique constraint on bar and
\* day counts the rows that are soft-deleted: on a conflict all is undone.
CommitUpdate(q) ==
    LET b == call[q].b IN
    /\ pc[q] = "commit" /\ call[q].op \in Edits
    /\ IF Existing(b, NewHours(q)) # {}
       THEN Go(q, "conflict") /\ UNCHANGED <<tables, newest, unread>>
       ELSE /\ bars' = [bars EXCEPT ![b] = Patched(q, @, Entity(q), cols[q])]
            /\ rows' = [rows EXCEPT ![b] = [k \in RowKeys |->
                    IF k \in NewMenu(q) \cup NewHours(q) THEN "live"
                    ELSE IF k \in held[q] THEN "deleted" ELSE @[k]]]
            /\ newest' = IF call[q].text THEN [newest EXCEPT ![b] = q] ELSE newest
            /\ unread' = [unread EXCEPT ![b] = @ \cup {q}]
            /\ Go(q, "done")
            /\ UNCHANGED <<objects, audit>>
    /\ held' = [held EXCEPT ![q] = {}]
    /\ UNCHANGED <<call, ent, cols, seen, read, slipped, beside, met>>

StartDeletion(q) == \E b \in BarIds, op \in Deletions :
    /\ Found(b)
    /\ Start(q, [op |-> op, b |-> b], "again")

\* softDeleteBarWithRelations looks for the bar again, inside the transaction.
FindAgain(q) ==
    /\ pc[q] = "again"
    /\ Go(q, IF Found(call[q].b) THEN "photos" ELSE "done")
    /\ UNCHANGED <<tables, request, history>>

\* The UPDATE of softRemove(bar), the audit record and the commit.
CommitDeletion(q) ==
    LET b == call[q].b IN
    /\ pc[q] = "commit" /\ call[q].op \in Deletions
    /\ Locking(b) = {}
    /\ bars' = [bars EXCEPT ![b].deleted = TRUE, ![b].updatedAt = q]
    /\ rows' = Set(b, held[q], "deleted")
    /\ IF call[q].op = "adminDelete" THEN Log(b, "BAR_DELETED") ELSE UNCHANGED audit
    /\ held' = [held EXCEPT ![q] = {}]
    /\ Go(q, "done")
    /\ UNCHANGED <<objects, call, ent, cols, seen, history>>

-----------------------------------------------------------------------------
(***************************************************************************)
(* Photos                                                                  *)
(***************************************************************************)
StartUpload(q) == \E b \in BarIds, n \in 1..MaxFiles :
    /\ Found(b)
    /\ Start(q, [op |-> "upload", b |-> b, files |-> n], "count")

Uploading(b) == {p \in InFlight(b) : call[p].op = "upload" /\ pc[p] \in {"store", "photo"}}

\* Mutant: the limit compares the photos that are there.
CountExistingOnly(q) ==
    LET b == call[q].b IN
    /\ pc[q] = "count"
    /\ IF Cardinality(Live(b, Photos)) >= MaxPhotos
       THEN Go(q, "done") /\ UNCHANGED met
       ELSE Go(q, "store") /\ met' = IF Uploading(b) = {} THEN met ELSE met \cup Uploading(b) \cup {q}
    /\ UNCHANGED <<tables, request, newest, unread, read, slipped, beside>>

CountPhotos(q) ==
    LET b == call[q].b IN
    /\ pc[q] = "count"
    /\ IF Cardinality(Live(b, Photos)) + call[q].files > MaxPhotos
       THEN Go(q, "done") /\ UNCHANGED met
       ELSE Go(q, "store") /\ met' = IF Uploading(b) = {} THEN met ELSE met \cup Uploading(b) \cup {q}
    /\ UNCHANGED <<tables, request, newest, unread, read, slipped, beside>>

Files(q) == {"photos"} \X ({q} \X (1..call[q].files))

\* All files are sent at once; S3 may refuse any of them, or all (502).
StoreFiles(q) ==
    /\ pc[q] = "store"
    /\ \E stored \in SUBSET Files(q) :
          /\ objects' = objects \cup stored
          /\ held' = [held EXCEPT ![q] = stored]
          /\ Go(q, IF stored = {} THEN "done" ELSE "photo")
    /\ UNCHANGED <<bars, rows, audit, call, ent, cols, seen, history>>

\* The stored files get their rows one at a time, in their order.
SavePhoto(q) ==
    /\ pc[q] = "photo"
    /\ \E k \in held[q] :
          /\ \A o \in held[q] : k[2][2] <= o[2][2]
          /\ rows' = Set(call[q].b, {k}, "live")
          /\ held' = [held EXCEPT ![q] = @ \ {k}]
          /\ Go(q, IF held[q] = {k} THEN "done" ELSE "photo")
    /\ UNCHANGED <<bars, objects, audit, call, ent, cols, seen, history>>

StartRemovePhoto(q) == \E b \in BarIds, k \in Photos :
    /\ Found(b)
    /\ Existing(b, {k}) # {}
    /\ Start(q, [op |-> "removePhoto", b |-> b, photo |-> k], "find")

FindPhoto(q) ==
    /\ pc[q] = "find"
    /\ Go(q, IF Live(call[q].b, {call[q].photo}) # {} THEN "object" ELSE "done")
    /\ UNCHANGED <<tables, request, history>>

\* Mutant: the object is deleted and its row left.
DropObjectOnly(q) ==
    /\ pc[q] = "object"
    /\ objects' = objects \ {call[q].photo}
    /\ Go(q, "done")
    /\ UNCHANGED <<bars, rows, audit, request, history>>

DropObject(q) ==
    /\ pc[q] = "object"
    /\ objects' = objects \ {call[q].photo}
    /\ Go(q, "unlink")
    /\ UNCHANGED <<bars, rows, audit, request, history>>

SoftDeletePhoto(q) ==
    LET b == call[q].b IN
    /\ pc[q] = "unlink"
    /\ Holders(b, {call[q].photo}) = {}
    /\ rows' = Set(b, {call[q].photo}, "deleted")
    /\ Go(q, "done")
    /\ UNCHANGED <<bars, objects, audit, request, history>>

-----------------------------------------------------------------------------
(***************************************************************************)
(* Bookmarks                                                               *)
(***************************************************************************)
StartAdd(q) == \E b \in BarIds, m \in Bookmarks :
    /\ Found(b) /\ bars[b].status = "APPROVED"
    /\ Start(q, [op |-> "add", b |-> b, mark |-> m], "findMark")

FindMark(q) ==
    /\ pc[q] = "findMark"
    /\ Go(q, IF Live(call[q].b, {call[q].mark}) # {} THEN "done" ELSE "findAny")
    /\ UNCHANGED <<tables, request, history>>

FindDeletedMark(q) ==
    /\ pc[q] = "findAny"
    /\ Go(q, IF Existing(call[q].b, {call[q].mark}) # {} THEN "restore" ELSE "insert")
    /\ UNCHANGED <<tables, request, history>>

RestoreMark(q) ==
    LET b == call[q].b IN
    /\ pc[q] = "restore"
    /\ Holders(b, {call[q].mark}) = {}
    /\ rows' = Set(b, {call[q].mark}, "live")
    /\ Go(q, "done")
    /\ UNCHANGED <<bars, objects, audit, request, history>>

\* The unique constraint on user and bar.
InsertMark(q) ==
    LET b == call[q].b IN
    /\ pc[q] = "insert"
    /\ IF Existing(b, {call[q].mark}) # {}
       THEN Go(q, "conflict") /\ UNCHANGED rows
       ELSE Go(q, "done") /\ rows' = Set(b, {call[q].mark}, "live")
    /\ UNCHANGED <<bars, objects, audit, request, history>>

StartDrop(q) == \E b \in BarIds, m \in Bookmarks :
    /\ Live(b, {m}) # {}
    /\ Start(q, [op |-> "drop", b |-> b, mark |-> m], "dropMark")

DropMark(q) ==
    LET b == call[q].b IN
    /\ pc[q] = "dropMark"
    /\ Holders(b, {call[q].mark}) = {}
    /\ rows' = Set(b, {call[q].mark}, "deleted")
    /\ Go(q, "done")
    /\ UNCHANGED <<bars, objects, audit, request, history>>

-----------------------------------------------------------------------------
\* A statement fails, among them those PostgreSQL ends to break a deadlock: a
\* transaction leaves nothing, the other handlers what they have done so far.
Fail(q) ==
    /\ ~Ended(q)
    /\ held' = [held EXCEPT ![q] = {}]
    /\ seen' = [seen EXCEPT ![q] = NoRead]
    /\ Go(q, "failed")
    /\ UNCHANGED <<tables, call, ent, cols, history>>

Begin(q) == \/ Create(q) \/ StartUpdate(q) \/ StartVerdict(q) \/ StartDeletion(q)
            \/ StartUpload(q) \/ StartRemovePhoto(q) \/ StartAdd(q) \/ StartDrop(q)

Advance(q) ==
    \/ SaveSelect(q) \/ SaveUpdate(q) \/ CommitVerdict(q)
    \/ BulkBegin(q) \/ BulkEnd(q) \/ CommitUpdate(q) \/ FindAgain(q) \/ CommitDeletion(q)
    \/ CountPhotos(q) \/ StoreFiles(q) \/ SavePhoto(q)
    \/ FindPhoto(q) \/ DropObject(q) \/ SoftDeletePhoto(q)
    \/ FindMark(q) \/ FindDeletedMark(q) \/ RestoreMark(q) \/ InsertMark(q) \/ DropMark(q)

\* A behaviour may end once no request is running.
Quiet == (\A q \in Requests : Ended(q)) /\ UNCHANGED vars

Next == (\E q \in Requests : Begin(q) \/ Advance(q) \/ Fail(q)) \/ Quiet

Spec == Init /\ [][Next]_vars

-----------------------------------------------------------------------------
(***************************************************************************)
(* Properties                                                              *)
(***************************************************************************)

\* Every table and request has a value of its kind; an upload that saves rows
\* has stored at least one file.
TypeOK ==
    /\ bars \in [BarIds -> BarRow \cup {NoRow}]
    /\ rows \in [BarIds -> [RowKeys -> RowState]]
    /\ objects \subseteq Photos
    /\ audit \in [BarIds -> SUBSET Decisions]
    /\ pc \in [Requests -> PC]
    /\ call \in [Requests -> Call \cup {NoCall}]
    /\ ent \in [Requests -> BarRow \cup {NoRow}]
    /\ cols \in [Requests -> SUBSET {"status", "text", "updatedAt", "deleted"}]
    /\ seen \in [Requests -> {NoRead} \cup SUBSET RowKeys]
    /\ held \in [Requests -> SUBSET RowKeys]
    /\ newest \in [BarIds -> Texts]
    /\ unread \in [BarIds -> SUBSET Requests]
    /\ read \in [Requests -> SUBSET Requests]
    /\ beside \in [BarIds -> SUBSET Requests]
    /\ slipped \subseteq Requests /\ met \subseteq Requests
    /\ \A q \in Requests : pc[q] = "photo" => held[q] # {}

\* What visitors see of an approved bar is what an approval had loaded: an edit
\* is only shown unread if it committed while an approval that had loaded the bar
\* without it was under way, or had compared its bar before an approval committed.
\* A bar that nobody approved, as SeedInitService inserts them, is not shown with
\* any edit (bars.service.ts:143-144, admin-bars.service.ts:175-191,
\* seed-init.service.ts:70-81).
ApprovedIsReviewed ==
    \A b \in BarIds : bars[b] # NoRow /\ bars[b].status = "APPROVED" =>
        /\ unread[b] \subseteq slipped
        /\ "BAR_APPROVED" \in audit[b] \/ unread[b] = {}

\* The text of the last edit stands, unless a later save wrote back an older
\* text it had loaded (bars.service.ts:130-144, admin-bars.service.ts:175-191, 209-221).
EditsStand ==
    \A b \in BarIds : bars[b] # NoRow /\ bars[b].text # newest[b] =>
        \E q \in Requests \ {newest[b]} : /\ pc[q] = "done" /\ call[q].op \in Savers
                                          /\ call[q].b = b /\ ent[q].text = bars[b].text

\* Two menus of a bar are only live together if two edits were replacing the
\* menu at the same time (bars.service.ts:146-154).
OneMenu ==
    \A b \in BarIds : \A k \in Live(b, Menu), o \in Live(b, Menu) :
        k = o \/ {k[2], o[2]} \cap met # {}

\* Whether a request inserts or restores a row.
Writes(q, k) ==
    \/ call[q].op \in Edits /\ k \in NewMenu(q) \cup NewHours(q)
    \/ call[q].op = "upload" /\ k \in Files(q)
    \/ call[q].op = "add" /\ k = call[q].mark

\* A deleted bar stays deleted, and its menu, hours, photos and bookmarks with
\* it, except for what a call writes that was under way together with the
\* deletion (bars.service.ts:188-202, bookmarks.service.ts:29, photos.service.ts:37).
DeletionLasts ==
    /\ [](\A b \in BarIds : bars[b] # NoRow /\ bars[b].deleted =>
            \A k \in Live(b, RowKeys) : \E q \in beside[b] : Writes(q, k))
    /\ [][\A b \in BarIds : bars[b] # NoRow /\ bars[b].deleted /\ ~bars'[b].deleted =>
            \E q \in beside[b] : call[q].op \in Savers /\ pc'[q] = "done"]_vars

\* A bar has MaxPhotos photos at most, unless two uploads had both counted them
\* before either had saved its own (photos.service.ts:47-78).
AtMostMaxPhotos ==
    \A b \in BarIds : Cardinality(Live(b, Photos)) > MaxPhotos =>
        \E q \in met : Live(b, Photos) \cap ({"photos"} \X ({q} \X (1..MaxFiles))) # {}

\* A photo on display is in S3, unless its removal has deleted the object and
\* not yet the row, or failed (photos.service.ts:113-114).
PhotoHasObject ==
    \A b \in BarIds : \A k \in Live(b, Photos) \ objects :
        \E q \in Requests : /\ call[q] # NoCall /\ call[q].op = "removePhoto"
                            /\ call[q].photo = k /\ pc[q] \in {"unlink", "failed"}

\* An edit that gives opening hours replaces those there are
\* (docs/architecture/api/bars.md:243).
HoursReplaced == \A q \in Requests : pc[q] = "conflict" => call[q].op # "update"
=============================================================================
