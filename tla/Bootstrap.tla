----------------------------- MODULE Bootstrap ------------------------------
(***************************************************************************)
(* The start of the server: the hooks AdminInitService, TriggerInitService,*)
(* SeedInitService and TestUserInitService run at once before it listens.  *)
(* Several instances start on one database, may be stopped at any          *)
(* statement and are started again.                                        *)
(*                                                                         *)
(* Every statement commits by itself.  A hook that throws ends the whole   *)
(* process, with the other hooks wherever they are.                        *)
(***************************************************************************)
EXTENDS Integers, FiniteSets

CONSTANTS Instances,      \* processes of the server
          NumTestUsers,   \* users of TestUserInitService, 0 unless NODE_ENV is test
          NumColumns,     \* columns a trigger fills, 2 in the code: searchVector, location
          NumNames,       \* bars of barSeedData, told apart by their names
          Parts,          \* photos, opening hours and dishes of a bar
          BarIds,         \* keys of bars
          EarlierBars,    \* the bars that are there when the first instance starts
          MaxStops,       \* how often an instance is stopped in one behaviour
          NoRow,          \* no row of bars
          NoLock          \* the advisory lock is free

ASSUME BootBounds == /\ NumTestUsers \in Nat /\ NumColumns \in Nat /\ NumNames \in Nat \ {0}
                     /\ Parts \in Nat /\ MaxStops \in Nat
                     /\ EarlierBars \subseteq BarIds
                     /\ NoLock \notin Instances

VARIABLES
    bars,       \* table bars with its photos, hours and menu
    triggers,   \* the columns that have their trigger
    users,      \* the email addresses of table users
    accounts,   \* the email addresses of table accounts
    lock,       \* the instance one of whose sessions holds the advisory lock
    phase,      \* "off", "booting" or "listening"
    ensure,     \* the next statement of a user's creation
    trig,       \* the next statement of TriggerInitService, and its column
    seed,       \* the next statement of SeedInitService, its name and its bar
    stops,
    \* History, read by properties only.
    cut,        \* the things an instance was about to finish when it ended
    raced,      \* names inserted, or about to be, while an instance was about to
    doubled,    \* names a seed bar was inserted with that another bar had
    lockLost,   \* a session that held the lock was closed before the hook was done
    failures    \* the things an instance has failed to create, as they were there

database == <<bars, triggers, users, accounts>>
process  == <<phase, ensure, trig, seed>>
history  == <<cut, raced, doubled, lockLost, failures>>
vars     == <<database, lock, process, stops, history>>

-----------------------------------------------------------------------------
Columns == 1 .. NumColumns
Admin   == 0
Emails  == Admin .. NumTestUsers
Names   == 1 .. NumNames
Other   == 0      \* the name of a bar that is not a seed

BarRow == [name : Names \cup {Other}, parts : 0 .. Parts, filled : SUBSET Columns]

ASSUME BootNulls == NoRow \notin BarRow /\ NoRow \notin BarIds

EnsureSteps == {"find", "save", "account", "done"}
TrigSteps   == {"lock", "exists", "create", "backfill", "trgm", "unlock", "done"}
SeedSteps   == {"find", "save", "parts", "done"}

Rows     == {b \in BarIds : bars[b] # NoRow}
Free     == {b \in BarIds : bars[b] = NoRow}
NewBar(n, parts) == [name |-> n, parts |-> parts, filled |-> triggers]

\* What an instance has begun to make and has still to finish.
AtWork(i) ==
    {<<"account", e>> : e \in {f \in Emails : ensure[i][f] = "account"}}
      \cup {<<"column", c>> : c \in {d \in Columns : trig[i] = [at |-> "backfill", col |-> d]}}
      \cup {<<"bar", b>> : b \in {d \in BarIds : seed[i].at = "parts" /\ seed[i].bar = d}}

InitSeed   == [at |-> "find", name |-> 1, bar |-> NoRow]
InitTrig   == [at |-> "lock", col |-> 1]
InitEnsure == [e \in Emails |-> "find"]

\* synchronize has created the tables without the triggers, or they are there
\* from an earlier start.
Init ==
    /\ triggers \in {{}, Columns}
    /\ bars = [b \in BarIds |->
                 IF b \in EarlierBars
                 THEN [name |-> Other, parts |-> Parts, filled |-> triggers] ELSE NoRow]
    /\ users = {} /\ accounts = {} /\ lock = NoLock
    /\ phase  = [i \in Instances |-> "off"]
    /\ ensure = [i \in Instances |-> InitEnsure]
    /\ trig   = [i \in Instances |-> InitTrig]
    /\ seed   = [i \in Instances |-> InitSeed]
    /\ stops = 0 /\ cut = {} /\ raced = {} /\ doubled = {} /\ lockLost = FALSE
    /\ failures = [i \in Instances |-> {}]

-----------------------------------------------------------------------------
(* The process.                                                             *)

Boot(i) ==
    /\ phase[i] = "off"
    /\ phase' = [phase EXCEPT ![i] = "booting"]
    /\ UNCHANGED <<database, lock, ensure, trig, seed, stops, history>>

\* Mutant: a session outlives its process.
LockKept(i) == lock

\* The lock after the end of the session that i may hold it with.
LockWithout(i) == IF lock = i THEN NoLock ELSE lock

\* The process ends: its sessions are closed and its hooks forgotten.
End(i) ==
    /\ phase'  = [phase EXCEPT ![i] = "off"]
    /\ ensure' = [ensure EXCEPT ![i] = InitEnsure]
    /\ trig'   = [trig EXCEPT ![i] = InitTrig]
    /\ seed'   = [seed EXCEPT ![i] = InitSeed]
    /\ lock'   = LockWithout(i)
    /\ cut'    = cut \cup AtWork(i)

\* A hook that throws rejects app.listen(), and the process exits.
Fail(i, thing) ==
    /\ End(i)
    /\ failures' = [failures EXCEPT ![i] = @ \cup {thing}]
    /\ UNCHANGED <<database, stops, raced, doubled, lockLost>>

\* A crash, or the signal of a deployment.
Stop(i) ==
    /\ phase[i] # "off" /\ stops < MaxStops
    /\ End(i)
    /\ stops' = stops + 1
    /\ UNCHANGED <<database, raced, doubled, lockLost, failures>>

Listen(i) ==
    /\ phase[i] = "booting"
    /\ \A e \in Emails : ensure[i][e] = "done"
    /\ trig[i].at = "done" /\ seed[i].at = "done"
    /\ phase' = [phase EXCEPT ![i] = "listening"]
    /\ UNCHANGED <<database, lock, ensure, trig, seed, stops, history>>

\* The names that an instance of I has not found and is about to insert.
AboutToInsert(I) == {seed[j].name : j \in {k \in I : seed[k].at = "save"}}

\* An owner creates a bar through an instance that listens, with any name.
Serve(i) ==
    /\ phase[i] = "listening"
    /\ \E b \in Free, n \in Names \cup {Other} :
         /\ bars' = [bars EXCEPT ![b] = NewBar(n, Parts)]
         /\ raced' = raced \cup ({n} \cap AboutToInsert(Instances))
    /\ UNCHANGED <<triggers, users, accounts, lock, process, stops,
                   cut, doubled, lockLost, failures>>

-----------------------------------------------------------------------------
(* AdminInitService, and TestUserInitService, which makes its users one     *)
(* after the other.                                                         *)

At(i, e, step) == ensure' = [ensure EXCEPT ![i][e] = step]

Turn(i, e) == \A f \in 1 .. e - 1 : ensure[i][f] = "done"

\* Mutant: the user is not looked for.
NotLookedFor(e) == FALSE

Exists(e) == e \in users

EnsureFind(i, e) ==
    /\ phase[i] = "booting" /\ ensure[i][e] = "find" /\ Turn(i, e)
    /\ At(i, e, IF Exists(e) THEN "done" ELSE "save")
    /\ UNCHANGED <<database, lock, phase, trig, seed, stops, history>>

\* After the hash of the password.  The address is unique.
EnsureUser(i, e) ==
    /\ ensure[i][e] = "save"
    /\ IF e \in users
       THEN Fail(i, <<"user", e>>)
       ELSE /\ users' = users \cup {e}
            /\ At(i, e, "account")
            /\ UNCHANGED <<bars, triggers, accounts, lock, phase, trig, seed, stops, history>>

EnsureAccount(i, e) ==
    /\ ensure[i][e] = "account"
    /\ accounts' = accounts \cup {e}
    /\ At(i, e, "done")
    /\ UNCHANGED <<bars, triggers, users, lock, phase, trig, seed, stops, history>>

-----------------------------------------------------------------------------
(* TriggerInitService.                                                      *)

TrigAt(i, step) == trig' = [trig EXCEPT ![i].at = step]

\* On the next column, or done with them.
NextColumn(i) ==
    trig' = [trig EXCEPT ![i] =
        IF @.col < NumColumns THEN [at |-> "exists", col |-> @.col + 1]
                              ELSE [@ EXCEPT !.at = "trgm"]]

TryLock(i) ==
    /\ phase[i] = "booting" /\ trig[i].at = "lock"
    /\ IF lock = NoLock
       THEN lock' = i /\ TrigAt(i, IF NumColumns = 0 THEN "trgm" ELSE "exists")
       ELSE lock' = lock /\ TrigAt(i, "done")
    /\ UNCHANGED <<database, phase, ensure, seed, stops, history>>

\* Mutant: the rows are filled before the trigger is there.
FillThenCreate(step) ==
    CASE step = "exists" -> "backfill" [] step = "backfill" -> "create" [] OTHER -> "next"

\* The order of the statements of one column.
Following(step) ==
    CASE step = "exists" -> "create" [] step = "create" -> "backfill" [] OTHER -> "next"

Go(i, step) == IF step = "next" THEN NextColumn(i) ELSE TrigAt(i, step)

TriggerExists(i) ==
    /\ trig[i].at = "exists"
    /\ Go(i, IF trig[i].col \in triggers THEN "next" ELSE Following("exists"))
    /\ UNCHANGED <<database, lock, phase, ensure, seed, stops, history>>

\* Two instances are at one statement: indexes, functions and extensions that are
\* made only where they are missing may fail all the same then.
Contended(i) == \E j \in Instances \ {i} : trig[j] = trig[i]

FailContended(i) == Contended(i) /\ Fail(i, <<"shared", 0>>)

\* Index, function and trigger; CREATE TRIGGER waits for the inserts under way.
CreateTrigger(i) ==
    /\ trig[i].at = "create"
    /\ \/ FailContended(i)
       \/ trig[i].col \in triggers /\ Fail(i, <<"column", trig[i].col>>)
       \/ /\ trig[i].col \notin triggers
          /\ triggers' = triggers \cup {trig[i].col}
          /\ Go(i, Following("create"))
          /\ UNCHANGED <<bars, users, accounts, lock, phase, ensure, seed, stops, history>>

\* The UPDATE of all bars.
Backfill(i) ==
    /\ trig[i].at = "backfill"
    /\ bars' = [b \in BarIds |->
                  IF bars[b] = NoRow THEN NoRow
                  ELSE [bars[b] EXCEPT !.filled = @ \cup {trig[i].col}]]
    /\ Go(i, Following("backfill"))
    /\ UNCHANGED <<triggers, users, accounts, lock, phase, ensure, seed, stops, history>>

\* The extension and its index are made where they are missing.
EnsureTrgm(i) ==
    /\ trig[i].at = "trgm"
    /\ \/ FailContended(i)
       \/ /\ TrigAt(i, "unlock")
          /\ UNCHANGED <<database, lock, phase, ensure, seed, stops, history>>

\* The pool picks any session: the unlock of another than the one that holds
\* the lock is a warning and no more.
Unlock(i) ==
    /\ trig[i].at = "unlock"
    /\ lock' \in {lock, LockWithout(i)}
    /\ TrigAt(i, "done")
    /\ UNCHANGED <<database, phase, ensure, seed, stops, history>>

\* The pool closes a session that was idle for ten seconds, the lock with it.
SessionCloses(i) ==
    /\ lock = i
    /\ lock' = NoLock
    /\ lockLost' = (lockLost \/ trig[i].at # "done")
    /\ UNCHANGED <<database, process, stops, cut, raced, doubled, failures>>

-----------------------------------------------------------------------------
(* SeedInitService.                                                         *)

Awaited(i) == ensure[i][Admin] = "done" /\ trig[i].at = "done"

\* Mutant: a bar that is there is not found.
NamedNothing(n) == {}

Named(n) == {b \in Rows : bars[b].name = n}

\* On the next name, or done with them.
NextName(i) ==
    seed' = [seed EXCEPT ![i] = [at |-> IF @.name < NumNames THEN "find" ELSE "done",
                                 name |-> IF @.name < NumNames THEN @.name + 1 ELSE @.name,
                                 bar |-> NoRow]]

SeedFind(i) ==
    /\ phase[i] = "booting" /\ seed[i].at = "find" /\ Awaited(i)
    /\ IF Named(seed[i].name) # {} THEN NextName(i)
                                   ELSE seed' = [seed EXCEPT ![i].at = "save"]
    /\ raced' = raced \cup ({seed[i].name} \cap AboutToInsert(Instances \ {i}))
    /\ UNCHANGED <<database, lock, phase, ensure, trig, stops,
                   cut, doubled, lockLost, failures>>

SeedBar(i) ==
    /\ seed[i].at = "save"
    /\ \E b \in Free :
         /\ bars' = [bars EXCEPT ![b] = NewBar(seed[i].name, 0)]
         /\ seed' = [seed EXCEPT ![i].at = "parts", ![i].bar = b]
    /\ doubled' = doubled \cup ({seed[i].name} \cap {bars[b].name : b \in Rows})
    /\ UNCHANGED <<triggers, users, accounts, lock, phase, ensure, trig, stops,
                   cut, raced, lockLost, failures>>

\* Its photos, opening hours and dishes, a statement each.
SeedPart(i) ==
    /\ seed[i].at = "parts" /\ bars[seed[i].bar].parts < Parts
    /\ bars' = [bars EXCEPT ![seed[i].bar].parts = @ + 1]
    /\ UNCHANGED <<triggers, users, accounts, lock, process, stops, history>>

SeedDone(i) ==
    /\ seed[i].at = "parts" /\ bars[seed[i].bar].parts = Parts
    /\ NextName(i)
    /\ UNCHANGED <<database, lock, phase, ensure, trig, stops, history>>

-----------------------------------------------------------------------------
Users(i)    == \E e \in Emails : EnsureFind(i, e) \/ EnsureUser(i, e) \/ EnsureAccount(i, e)
Trigger(i)  == \/ TryLock(i) \/ TriggerExists(i) \/ CreateTrigger(i)
               \/ Backfill(i) \/ EnsureTrgm(i) \/ Unlock(i)
Seeding(i)  == SeedFind(i) \/ SeedBar(i) \/ SeedPart(i) \/ SeedDone(i)

\* Every instance listens, or there is no key left for a bar.
Quiet ==
    /\ \A i \in Instances : phase[i] = "listening" \/ (seed[i].at = "save" /\ Free = {})
    /\ UNCHANGED vars

Next ==
    \/ \E i \in Instances : \/ Boot(i) \/ Stop(i) \/ Listen(i) \/ Serve(i)
                            \/ Users(i) \/ Trigger(i) \/ SessionCloses(i) \/ Seeding(i)
    \/ Quiet

Spec == Init /\ [][Next]_vars

-----------------------------------------------------------------------------
(* Properties.                                                              *)

TypeOK ==
    /\ bars \in [BarIds -> BarRow \cup {NoRow}]
    /\ triggers \subseteq Columns
    /\ users \subseteq Emails /\ accounts \subseteq users
    /\ lock \in {i \in Instances : phase[i] # "off"} \cup {NoLock}
    /\ phase \in [Instances -> {"off", "booting", "listening"}]
    /\ ensure \in [Instances -> [Emails -> EnsureSteps]]
    /\ trig \in [Instances -> [at : TrigSteps, col : 1 .. NumColumns + 1]]
    /\ seed \in [Instances -> [at : SeedSteps, name : 1 .. NumNames + 1,
                               bar : BarIds \cup {NoRow}]]
    /\ stops \in 0 .. MaxStops

\* A column that has its trigger is filled in every bar, unless an instance is
\* about to fill it or ended when it was (trigger-init.service.ts:49-130).  So a
\* bar that another instance inserts meanwhile is not missed, although that
\* instance skipped the initialisation because the lock was taken.
EveryBarIsSearchable ==
    \A c \in triggers, b \in Rows :
        \/ c \in bars[b].filled
        \/ \E i \in Instances : <<"column", c>> \in AtWork(i)
        \/ <<"column", c>> \in cut

\* A seed bar lacks parts, and a user the account, only while an instance is
\* making them or because it ended when it was: only then is the thing never
\* completed.  A seed bar gets the name of another bar only if this was inserted,
\* by an instance or an owner, after the name was looked for
\* (seed-init.service.ts:61-117, admin-init.service.ts:62-76).
NothingHalfMade ==
    LET excused == cut \cup UNION {AtWork(i) : i \in Instances}
    IN  /\ \A b \in Rows : bars[b].parts < Parts => <<"bar", b>> \in excused
        /\ \A e \in users : e \notin accounts => <<"account", e>> \in excused
        /\ doubled \subseteq raced

\* An instance fails to start only over a thing that is there, which its next
\* start finds: it never fails over the same user or trigger twice.  It fails over
\* a trigger, or what all instances make where it is missing, only when a session
\* that held the lock was closed too early (admin-init.service.ts:45-62,
\* trigger-init.service.ts:26-46).
FailsOnce ==
    \A i \in Instances :
        /\ \A e \in Emails : <<"user", e>> \in failures[i] =>
              e \in users /\ ensure[i][e] # "save"
        /\ \A c \in Columns : <<"column", c>> \in failures[i] =>
              /\ lockLost /\ c \in triggers
              /\ ~(trig[i].at = "create" /\ trig[i].col = c)
        /\ \A f \in failures[i] : f[1] = "shared" => lockLost
=============================================================================
