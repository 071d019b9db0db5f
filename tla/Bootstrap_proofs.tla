-------------------------- MODULE Bootstrap_proofs --------------------------
(***************************************************************************)
(* Proofs about Bootstrap, for any number of instances, users, columns,    *)
(* seed bars and stops.                                                    *)
(*                                                                         *)
(* The inductive invariant adds to the properties what a step relies on:   *)
(* what a hook that stands at a statement has found out before (Ready),    *)
(* that the lock keeps all but one out of TriggerInitService while no      *)
(* session is lost (Exclusive), and that whoever inserts a name that an    *)
(* instance is about to insert is recorded (SaveOK).                       *)
(***************************************************************************)
EXTENDS Bootstrap, TLAPS

\* What is there when a hook stands at a statement.
Ready ==
    \A i \in Instances :
        /\ \A e \in Emails : ensure[i][e] = "account" => e \in users
        /\ trig[i].at = "lock" => trig[i].col = 1
        /\ trig[i].at \in {"exists", "create", "backfill"} => trig[i].col \in Columns
        /\ seed[i].at # "done" => seed[i].name \in Names
        /\ seed[i].at = "parts" => seed[i].bar \in Rows

Histories == /\ failures \in [Instances -> SUBSET ({"user", "column", "shared"} \X Int)]
             /\ lockLost \in BOOLEAN

\* While no session was lost, an instance past the lock holds it, and the
\* trigger it is about to create is missing.
Exclusive ==
    ~lockLost =>
        \A i \in Instances :
            /\ trig[i].at \notin {"lock", "done"} => lock = i
            /\ trig[i].at = "create" => trig[i].col \notin triggers

\* A name about to be inserted is new and one instance's only, or it is recorded.
SaveOK ==
    \A i \in Instances : seed[i].at = "save" /\ seed[i].name \notin raced =>
        /\ Named(seed[i].name) = {}
        /\ \A j \in Instances : seed[j].at = "save" /\ seed[j].name = seed[i].name => j = i

\* What an instance has begun, and what is excused because one ended meanwhile.
Begun == cut \cup UNION {AtWork(i) : i \in Instances}

\* The parts of NothingHalfMade.
BarsWhole == \A b \in Rows : bars[b].parts < Parts => <<"bar", b>> \in Begun
UsersWhole == \A e \in users : e \notin accounts => <<"account", e>> \in Begun
NamesOnce == doubled \subseteq raced

Searchable == \A c \in triggers, b \in Rows : c \in bars[b].filled \/ <<"column", c>> \in Begun

Whole == BarsWhole /\ UsersWhole /\ Searchable

IInv == /\ TypeOK /\ Ready /\ Histories
        /\ Exclusive /\ FailsOnce
        /\ SaveOK /\ NamesOnce
        /\ Whole

-----------------------------------------------------------------------------
(* What an instance is at work on.                                          *)

LEMMA Work ==
    ASSUME NEW i
    PROVE  /\ \A e \in Emails : ensure[i][e] = "account" <=> <<"account", e>> \in AtWork(i)
           /\ \A c \in Columns :
                 trig[i] = [at |-> "backfill", col |-> c] <=> <<"column", c>> \in AtWork(i)
           /\ \A b \in BarIds :
                 seed[i].at = "parts" /\ seed[i].bar = b <=> <<"bar", b>> \in AtWork(i)
           /\ \A x \in AtWork(i) : \/ \E e \in Emails : x = <<"account", e>>
                                   \/ \E c \in Columns : x = <<"column", c>>
                                   \/ \E b \in BarIds : x = <<"bar", b>>
BY DEF AtWork

LEMMA WorkNext ==
    ASSUME NEW i
    PROVE  /\ \A e \in Emails : ensure'[i][e] = "account" <=> <<"account", e>> \in AtWork(i)'
           /\ \A c \in Columns :
                 trig'[i] = [at |-> "backfill", col |-> c] <=> <<"column", c>> \in AtWork(i)'
           /\ \A b \in BarIds :
                 seed'[i].at = "parts" /\ seed'[i].bar = b <=> <<"bar", b>> \in AtWork(i)'
BY DEF AtWork

LEMMA ColumnWork ==
    ASSUME NEW i, NEW x \in AtWork(i), NEW c \in Columns, x = <<"column", c>>
    PROVE  trig[i].at = "backfill" /\ trig[i].col = c
<1>1. trig[i] = [at |-> "backfill", col |-> c]
  BY Work
<1> QED BY <1>1

\* Work goes on that the step of i does not concern.
LEMMA WorkLeft ==
    ASSUME NEW i, NEW x \in AtWork(i),
           \A f \in Emails : x = <<"account", f>> /\ ensure[i][f] = "account" =>
               ensure'[i][f] = "account",
           \A c \in Columns : x = <<"column", c>> => trig'[i] = trig[i],
           \A b \in BarIds : x = <<"bar", b>> => seed'[i] = seed[i]
    PROVE  x \in AtWork(i)'
<1>1. ASSUME NEW f \in Emails, x = <<"account", f>> PROVE x \in AtWork(i)'
  <2>1. ensure[i][f] = "account"
    BY <1>1, Work
  <2> QED BY <1>1, <2>1, WorkNext
<1>2. ASSUME NEW c \in Columns, x = <<"column", c>> PROVE x \in AtWork(i)'
  <2>1. trig[i] = [at |-> "backfill", col |-> c]
    BY <1>2, Work
  <2> QED BY <1>2, <2>1, WorkNext
<1>3. ASSUME NEW b \in BarIds, x = <<"bar", b>> PROVE x \in AtWork(i)'
  <2>1. seed[i].at = "parts" /\ seed[i].bar = b
    BY <1>3, Work
  <2> QED BY <1>3, <2>1, WorkNext
<1> QED BY <1>1, <1>2, <1>3, Work

LEMMA WorkSame ==
    ASSUME NEW i, ensure'[i] = ensure[i], trig'[i] = trig[i], seed'[i] = seed[i]
    PROVE  AtWork(i)' = AtWork(i)
BY DEF AtWork

\* The others go on with their work when i takes a step.
Others(i) ==
    \A j \in Instances \ {i} :
        ensure'[j] = ensure[j] /\ trig'[j] = trig[j] /\ seed'[j] = seed[j]

\* What was begun stays so but for what i leaves.
LEMMA BegunKept ==
    ASSUME NEW i \in Instances, Others(i), cut \subseteq cut', NEW x \in Begun,
           x \in AtWork(i) => x \in AtWork(i)' \/ x \in cut'
    PROVE  x \in Begun'
<1>1. \A j \in Instances \ {i} : AtWork(j)' = AtWork(j)
  BY WorkSame DEF Others
<1>2. CASE x \in cut
  BY <1>2 DEF Begun
<1>3. CASE x \in AtWork(i)
  BY <1>3 DEF Begun
<1>4. ASSUME NEW j \in Instances, j # i, x \in AtWork(j) PROVE x \in Begun'
  <2>1. x \in AtWork(j)'
    BY <1>1, <1>4
  <2> QED BY <2>1 DEF Begun
<1> QED BY <1>2, <1>3, <1>4 DEF Begun

\* A step that leaves the tables alone and no work behind.
LEMMA WholeKept ==
    ASSUME IInv, NEW i \in Instances, Others(i), cut \subseteq cut', UNCHANGED database,
           \A x \in AtWork(i) : x \in AtWork(i)' \/ x \in cut'
    PROVE  Whole'
<1>1. \A x \in Begun : x \in Begun'
  BY BegunKept
<1> QED BY <1>1 DEF IInv, Whole, BarsWhole, UsersWhole, Searchable, Rows, database

\* A step that leaves the names and the seeding alone.
LEMMA NamesKept ==
    ASSUME IInv, UNCHANGED <<seed, raced, doubled>>,
           \A b \in BarIds : /\ bars[b] = NoRow <=> bars'[b] = NoRow
                             /\ bars[b] # NoRow => bars'[b].name = bars[b].name
    PROVE  SaveOK' /\ NamesOnce'
<1>1. Rows' = Rows /\ \A n : Named(n)' = Named(n)
  BY DEF Rows, Named
<1>2. NamesOnce'
  BY DEF IInv, NamesOnce
<1>3. SaveOK'
  BY <1>1 DEF IInv, SaveOK
<1> QED BY <1>2, <1>3

\* A step that leaves the locked hook alone.
LEMMA LockKept1 ==
    ASSUME IInv, UNCHANGED <<trig, lock, lockLost, triggers>>
    PROVE  Exclusive'
BY DEF IInv, Exclusive

\* A step that creates no user twice and no trigger.
LEMMA FailsKept ==
    ASSUME IInv, UNCHANGED <<trig, failures, lockLost, triggers>>, users \subseteq users',
           \A i \in Instances, e \in Emails :
               e \in users /\ ensure'[i][e] = "save" => ensure[i][e] = "save"
    PROVE  FailsOnce'
BY DEF IInv, FailsOnce

-----------------------------------------------------------------------------
(* The process.                                                             *)

LEMMA PhaseStep ==
    ASSUME IInv, NEW i \in Instances, NEW p \in {"booting", "listening"},
           phase' = [phase EXCEPT ![i] = p],
           UNCHANGED <<database, lock, ensure, trig, seed, stops, history>>
    PROVE  IInv'
<1>1. TypeOK'
  BY DEF IInv, TypeOK, database
<1>2. Ready' /\ Histories' /\ Exclusive' /\ FailsOnce' /\ SaveOK' /\ NamesOnce'
  BY DEF IInv, Ready, Histories, Exclusive, FailsOnce, SaveOK, NamesOnce, Rows, Named,
         database, history
<1>3. Whole'
  <2>1. Others(i) /\ AtWork(i)' = AtWork(i) /\ cut' = cut
    BY WorkSame DEF Others, history
  <2> QED BY <2>1, WholeKept
<1> QED BY <1>1, <1>2, <1>3 DEF IInv

\* The end of an instance takes nothing from the database, and what it was at
\* work on is recorded.
LEMMA EndStep ==
    ASSUME IInv, NEW i \in Instances, End(i), stops' \in 0 .. MaxStops,
           UNCHANGED <<database, raced, doubled, lockLost>>, Histories', FailsOnce'
    PROVE  IInv'
<1>1. /\ phase' = [phase EXCEPT ![i] = "off"]
      /\ ensure' = [ensure EXCEPT ![i] = InitEnsure]
      /\ trig' = [trig EXCEPT ![i] = InitTrig]
      /\ seed' = [seed EXCEPT ![i] = InitSeed]
      /\ lock' = IF lock = i THEN NoLock ELSE lock
      /\ cut' = cut \cup AtWork(i)
  BY DEF End, LockWithout
<1>2. TypeOK'
  <2>1. InitEnsure \in [Emails -> EnsureSteps]
    BY DEF InitEnsure, EnsureSteps
  <2>2. InitTrig \in [at : TrigSteps, col : 1 .. NumColumns + 1]
    BY BootBounds DEF InitTrig, TrigSteps
  <2>3. InitSeed \in [at : SeedSteps, name : 1 .. NumNames + 1, bar : BarIds \cup {NoRow}]
    BY BootBounds DEF InitSeed, SeedSteps
  <2>4. lock' \in {j \in Instances : phase'[j] # "off"} \cup {NoLock}
    BY <1>1 DEF IInv, TypeOK
  <2> QED BY <1>1, <2>1, <2>2, <2>3, <2>4 DEF IInv, TypeOK, database
<1>3. Ready'
  <2>1. ASSUME NEW j \in Instances
        PROVE  /\ \A e \in Emails : ensure'[j][e] = "account" => e \in users'
               /\ trig'[j].at = "lock" => trig'[j].col = 1
               /\ trig'[j].at \in {"exists", "create", "backfill"} => trig'[j].col \in Columns
               /\ seed'[j].at # "done" => seed'[j].name \in Names
               /\ seed'[j].at = "parts" => seed'[j].bar \in Rows'
    <3>1. CASE j = i
      BY <1>1, <3>1, BootBounds
         DEF IInv, TypeOK, InitEnsure, InitTrig, InitSeed, Names
    <3>2. CASE j # i
      BY <1>1, <3>2 DEF IInv, TypeOK, Ready, Rows, database
    <3> QED BY <3>1, <3>2
  <2> QED BY <2>1 DEF Ready
<1>4. Exclusive'
  BY <1>1 DEF IInv, TypeOK, Exclusive, InitTrig, database
<1>5. SaveOK' /\ NamesOnce'
  BY <1>1 DEF IInv, TypeOK, SaveOK, NamesOnce, InitSeed, Rows, Named, database
<1>6. Whole'
  <2>1. Others(i)
    BY <1>1 DEF IInv, TypeOK, Others
  <2> QED BY <1>1, <2>1, WholeKept
<1> QED BY <1>2, <1>3, <1>4, <1>5, <1>6 DEF IInv

\* After a failure the thing is there, and the hook starts again by looking for it.
LEMMA FailStep ==
    ASSUME IInv, NEW i \in Instances, NEW thing \in {"user", "column", "shared"} \X Int, Fail(i, thing),
           \A e \in Emails : thing = <<"user", e>> => e \in users,
           \A c \in Columns : thing = <<"column", c>> => lockLost /\ c \in triggers,
           thing[1] = "shared" => lockLost
    PROVE  IInv'
<1>1. /\ End(i) /\ failures' = [failures EXCEPT ![i] = @ \cup {thing}]
      /\ UNCHANGED <<database, stops, raced, doubled, lockLost>>
      /\ ensure' = [ensure EXCEPT ![i] = InitEnsure]
      /\ trig' = [trig EXCEPT ![i] = InitTrig]
  BY DEF Fail, End
<1>2. Histories'
  BY <1>1 DEF IInv, Histories
<1>3. FailsOnce'
  <2>1. ASSUME NEW j \in Instances, NEW e \in Emails, <<"user", e>> \in failures'[j]
        PROVE  e \in users' /\ ensure'[j][e] # "save"
    <3>1. CASE j = i
      BY <1>1, <2>1, <3>1 DEF IInv, TypeOK, Histories, FailsOnce, InitEnsure, database
    <3>2. CASE j # i
      BY <1>1, <2>1, <3>2 DEF IInv, TypeOK, Histories, FailsOnce, database
    <3> QED BY <3>1, <3>2
  <2>2. ASSUME NEW j \in Instances, NEW c \in Columns, <<"column", c>> \in failures'[j]
        PROVE  lockLost' /\ c \in triggers' /\ ~(trig'[j].at = "create" /\ trig'[j].col = c)
    <3>1. CASE j = i
      BY <1>1, <2>2, <3>1 DEF IInv, TypeOK, Histories, FailsOnce, InitTrig, database
    <3>2. CASE j # i
      BY <1>1, <2>2, <3>2 DEF IInv, TypeOK, Histories, FailsOnce, database
    <3> QED BY <3>1, <3>2
  <2>3. ASSUME NEW j \in Instances, NEW f \in failures'[j], f[1] = "shared" PROVE lockLost'
    BY <1>1, <2>3 DEF IInv, Histories, FailsOnce
  <2> QED BY <2>1, <2>2, <2>3 DEF FailsOnce
<1> QED BY <1>1, <1>2, <1>3, EndStep DEF IInv, TypeOK

LEMMA StopStep == ASSUME IInv, NEW i \in Instances, Stop(i) PROVE IInv'
<1>1. /\ End(i) /\ stops' \in 0 .. MaxStops
      /\ UNCHANGED <<database, raced, doubled, lockLost, failures>>
  BY BootBounds DEF Stop, IInv, TypeOK
<1>2. Histories'
  BY <1>1 DEF IInv, Histories
<1>3. FailsOnce'
  BY <1>1 DEF End, IInv, TypeOK, FailsOnce, InitEnsure, InitTrig, database
<1> QED BY <1>1, <1>2, <1>3, EndStep

\* A row for a new bar, which has every column that has its trigger.
LEMMA NewRow ==
    ASSUME IInv, NEW b \in Free, NEW n \in Names \cup {Other}, NEW k \in 0 .. Parts,
           bars' = [bars EXCEPT ![b] = NewBar(n, k)]
    PROVE  /\ bars' \in [BarIds -> BarRow \cup {NoRow}]
           /\ Rows' = Rows \cup {b} /\ b \in BarIds /\ b \notin Rows
           /\ bars'[b].name = n /\ bars'[b].parts = k /\ bars'[b].filled = triggers
           /\ \A c \in Rows : bars'[c] = bars[c]
<1>1. NewBar(n, k) \in BarRow /\ NewBar(n, k) # NoRow
  BY BootNulls DEF NewBar, BarRow, IInv, TypeOK
<1>2. b \in BarIds /\ b \notin Rows /\ bars \in [BarIds -> BarRow \cup {NoRow}]
  BY DEF Free, Rows, IInv, TypeOK
<1>3. bars'[b] = NewBar(n, k) /\ \A c \in BarIds \ {b} : bars'[c] = bars[c]
  BY <1>2
<1> QED BY <1>1, <1>2, <1>3 DEF NewBar, Rows

LEMMA ServeStep == ASSUME IInv, NEW i \in Instances, Serve(i) PROVE IInv'
<1>1. PICK b \in Free, n \in Names \cup {Other} :
        /\ bars' = [bars EXCEPT ![b] = NewBar(n, Parts)]
        /\ raced' = raced \cup ({n} \cap AboutToInsert(Instances))
  BY DEF Serve
<1>2. UNCHANGED <<triggers, users, accounts, lock, process, stops, cut, doubled, lockLost, failures>>
  BY DEF Serve
<1>3. /\ bars' \in [BarIds -> BarRow \cup {NoRow}]
      /\ Rows' = Rows \cup {b} /\ b \in BarIds /\ b \notin Rows
      /\ bars'[b].name = n /\ bars'[b].parts = Parts /\ bars'[b].filled = triggers
      /\ \A c \in Rows : bars'[c] = bars[c]
  <2>1. Parts \in 0 .. Parts
    BY BootBounds
  <2> QED BY <1>1, <2>1, NewRow
<1>4. TypeOK' /\ Histories'
  BY <1>2, <1>3 DEF IInv, TypeOK, Histories, process
<1>5. Ready' /\ Exclusive' /\ FailsOnce'
  BY <1>2, <1>3 DEF IInv, Ready, Exclusive, FailsOnce, process
<1>6. raced \subseteq raced' /\ \A k \in Instances : seed[k].at = "save" /\ seed[k].name = n => n \in raced'
  BY <1>1 DEF AboutToInsert
<1>7. SaveOK' /\ NamesOnce'
  <2>1. \A m : m # n => Named(m)' = Named(m)
    BY <1>3 DEF Named
  <2>2. NamesOnce'
    BY <1>2, <1>6 DEF IInv, NamesOnce
  <2>3. SaveOK'
    BY <1>2, <1>6, <2>1 DEF IInv, SaveOK, process
  <2> QED BY <2>2, <2>3
<1>8. Whole'
  <2>1. Begun' = Begun
    BY <1>2, WorkSame DEF Begun, AtWork, process
  <2> QED BY <1>2, <1>3, <2>1, BootBounds DEF IInv, Whole, BarsWhole, UsersWhole, Searchable
<1> QED BY <1>4, <1>5, <1>7, <1>8 DEF IInv

-----------------------------------------------------------------------------
(* AdminInitService and TestUserInitService.                                *)

\* One user's creation goes on.
LEMMA EnsureMove ==
    ASSUME IInv, NEW i \in Instances, NEW e \in Emails, NEW step \in EnsureSteps,
           At(i, e, step)
    PROVE  /\ ensure' \in [Instances -> [Emails -> EnsureSteps]]
           /\ ensure'[i][e] = step
           /\ \A f \in Emails \ {e} : ensure'[i][f] = ensure[i][f]
           /\ \A j \in Instances \ {i} : ensure'[j] = ensure[j]
BY DEF IInv, TypeOK, At

\* A step of it keeps the invariant.
LEMMA EnsureStep ==
    ASSUME IInv, NEW i \in Instances, NEW e \in Emails, NEW step \in EnsureSteps,
           At(i, e, step), UNCHANGED <<bars, triggers, lock, phase, trig, seed, stops, history>>,
           users' \in SUBSET Emails, users \subseteq users', accounts' \subseteq users',
           step = "account" => e \in users', step = "save" => e \notin users,
           UsersWhole'
    PROVE  IInv'
<1>1. /\ ensure' \in [Instances -> [Emails -> EnsureSteps]]
      /\ ensure'[i][e] = step
      /\ \A f \in Emails \ {e} : ensure'[i][f] = ensure[i][f]
      /\ \A j \in Instances \ {i} : ensure'[j] = ensure[j]
  BY EnsureMove
<1>2. TypeOK' /\ Histories'
  BY <1>1 DEF IInv, TypeOK, Histories, history
<1>3. Ready'
  <2>1. ASSUME NEW j \in Instances, NEW f \in Emails, ensure'[j][f] = "account"
        PROVE  f \in users'
    BY <1>1, <2>1 DEF IInv, Ready
  <2> QED BY <2>1 DEF IInv, Ready, Rows
<1>4. Exclusive'
  BY DEF IInv, Exclusive, history
<1>5. FailsOnce'
  <2>1. ASSUME NEW j \in Instances, NEW f \in Emails, <<"user", f>> \in failures'[j]
        PROVE  f \in users' /\ ensure'[j][f] # "save"
    BY <1>1, <2>1 DEF IInv, FailsOnce, history
  <2>2. ASSUME NEW j \in Instances, NEW c \in Columns, <<"column", c>> \in failures'[j]
        PROVE  lockLost' /\ c \in triggers' /\ ~(trig'[j].at = "create" /\ trig'[j].col = c)
    BY <2>2 DEF IInv, FailsOnce, history
  <2>3. ASSUME NEW j \in Instances, NEW f \in failures'[j], f[1] = "shared" PROVE lockLost'
    BY <2>3 DEF IInv, FailsOnce, history
  <2> QED BY <2>1, <2>2, <2>3 DEF FailsOnce
<1>6. SaveOK' /\ NamesOnce'
  BY NamesKept DEF history
<1>7. BarsWhole' /\ Searchable'
  <2>1. Others(i) /\ cut' = cut /\ Rows' = Rows
    BY <1>1 DEF Others, history, Rows
  <2>2. ASSUME NEW x \in Begun, \A f : x # <<"account", f>> PROVE x \in Begun'
    <3>1. x \in AtWork(i) => x \in AtWork(i)'
      BY <2>2, WorkLeft
    <3> QED BY <2>1, <3>1, BegunKept
  <2>3. \A c \in Columns : <<"column", c>> \in Begun => <<"column", c>> \in Begun'
    BY <2>2
  <2>4. \A b \in BarIds : <<"bar", b>> \in Begun => <<"bar", b>> \in Begun'
    BY <2>2
  <2> QED BY <2>1, <2>3, <2>4 DEF IInv, TypeOK, Whole, BarsWhole, Searchable, Rows
<1> QED BY <1>2, <1>3, <1>4, <1>5, <1>6, <1>7 DEF IInv, Whole

LEMMA EnsureFindStep == ASSUME IInv, NEW i \in Instances, NEW e \in Emails, EnsureFind(i, e) PROVE IInv'
<1> DEFINE step == IF e \in users THEN "done" ELSE "save"
<1>1. At(i, e, step) /\ step \in EnsureSteps /\ ensure[i][e] = "find"
  BY DEF EnsureFind, Exists, EnsureSteps
<1>2. UNCHANGED <<database, lock, phase, trig, seed, stops, history>>
  BY DEF EnsureFind
<1>3. UsersWhole'
  <2>1. /\ ensure'[i][e] = step
        /\ \A f \in Emails \ {e} : ensure'[i][f] = ensure[i][f]
        /\ \A j \in Instances \ {i} : ensure'[j] = ensure[j]
    BY <1>1, EnsureMove
  <2>2. Others(i) /\ cut' = cut
    BY <1>2, <2>1 DEF Others, history
  <2>3. ASSUME NEW x \in AtWork(i) PROVE x \in AtWork(i)'
    BY <1>1, <1>2, <2>1, WorkLeft
  <2> QED BY <1>2, <2>2, <2>3, WholeKept DEF Whole
<1>4. /\ users' \in SUBSET Emails /\ users \subseteq users' /\ accounts' \subseteq users'
      /\ step = "save" => e \notin users
      /\ step # "account"
  BY <1>2 DEF IInv, TypeOK, database
<1> HIDE DEF step
<1> QED BY <1>1, <1>2, <1>3, <1>4, EnsureStep DEF database

LEMMA EnsureUserStep == ASSUME IInv, NEW i \in Instances, NEW e \in Emails, EnsureUser(i, e) PROVE IInv'
<1>1. CASE e \in users
  <2>1. Fail(i, <<"user", e>>)
    BY <1>1 DEF EnsureUser
  <2>2. <<"user", e>> \in {"user", "column", "shared"} \X Int
    BY BootBounds DEF Emails, Admin
  <2> QED BY <1>1, <2>1, <2>2, FailStep
<1>2. CASE e \notin users
  <2>1. /\ ensure[i][e] = "save" /\ users' = users \cup {e} /\ At(i, e, "account")
        /\ UNCHANGED <<bars, triggers, accounts, lock, phase, trig, seed, stops, history>>
    BY <1>2 DEF EnsureUser
  <2>2. "account" \in EnsureSteps
    BY DEF EnsureSteps
  <2>3. /\ ensure'[i][e] = "account"
        /\ \A f \in Emails \ {e} : ensure'[i][f] = ensure[i][f]
        /\ \A j \in Instances \ {i} : ensure'[j] = ensure[j]
    BY <2>1, <2>2, EnsureMove
  <2>4. UsersWhole'
    <3>1. Others(i) /\ cut' = cut
      BY <2>1, <2>3 DEF Others, history
    <3>2. ASSUME NEW x \in AtWork(i) PROVE x \in AtWork(i)'
      BY <2>1, <2>3, WorkLeft
    <3>3. \A x \in Begun : x \in Begun'
      BY <3>1, <3>2, BegunKept
    <3>4. <<"account", e>> \in Begun'
      BY <2>3, WorkNext DEF Begun
    <3> QED BY <2>1, <3>3, <3>4 DEF IInv, Whole, UsersWhole
  <2>5. users' \in SUBSET Emails /\ users \subseteq users' /\ accounts' \subseteq users' /\ e \in users'
    BY <2>1 DEF IInv, TypeOK
  <2> QED BY <2>1, <2>2, <2>4, <2>5, EnsureStep
<1> QED BY <1>1, <1>2

LEMMA EnsureAccountStep ==
    ASSUME IInv, NEW i \in Instances, NEW e \in Emails, EnsureAccount(i, e) PROVE IInv'
<1>1. /\ ensure[i][e] = "account" /\ accounts' = accounts \cup {e} /\ At(i, e, "done")
      /\ UNCHANGED <<bars, triggers, users, lock, phase, trig, seed, stops, history>>
  BY DEF EnsureAccount
<1>2. "done" \in EnsureSteps /\ e \in users
  BY <1>1 DEF EnsureSteps, IInv, Ready
<1>3. /\ ensure'[i][e] = "done"
      /\ \A f \in Emails \ {e} : ensure'[i][f] = ensure[i][f]
      /\ \A j \in Instances \ {i} : ensure'[j] = ensure[j]
  BY <1>1, <1>2, EnsureMove
<1>4. UsersWhole'
  <2>1. Others(i) /\ cut' = cut
    BY <1>1, <1>3 DEF Others, history
  <2>2. ASSUME NEW x \in AtWork(i), x # <<"account", e>> PROVE x \in AtWork(i)'
    BY <1>1, <1>3, <2>2, WorkLeft
  <2>3. \A x \in Begun : x # <<"account", e>> => x \in Begun'
    BY <2>1, <2>2, BegunKept
  <2>4. \A f \in Emails : f # e => <<"account", f>> # <<"account", e>>
    OBVIOUS
  <2> QED BY <1>1, <2>3, <2>4 DEF IInv, TypeOK, Whole, UsersWhole
<1>5. users' \in SUBSET Emails /\ users \subseteq users' /\ accounts' \subseteq users'
  BY <1>1, <1>2 DEF IInv, TypeOK
<1> QED BY <1>1, <1>2, <1>4, <1>5, EnsureStep

-----------------------------------------------------------------------------
(* TriggerInitService.                                                      *)

\* The hook of i stands at t next.
TrigMoves(i, t) ==
    /\ trig' = [trig EXCEPT ![i] = t]
    /\ t \in [at : TrigSteps, col : 1 .. NumColumns + 1]
    /\ t.at # "lock"
    /\ t.at \in {"exists", "create", "backfill"} => t.col \in Columns

LEMMA TrigAtMoves ==
    ASSUME IInv, NEW i \in Instances, NEW step \in TrigSteps \ {"lock"}, TrigAt(i, step),
           step \in {"exists", "create", "backfill"} => trig[i].col \in Columns
    PROVE  /\ TrigMoves(i, [at |-> step, col |-> trig[i].col])
           /\ trig'[i] = [at |-> step, col |-> trig[i].col]
<1>1. trig \in [Instances -> [at : TrigSteps, col : 1 .. NumColumns + 1]]
  BY DEF IInv, TypeOK
<1>2. trig[i].col \in 1 .. NumColumns + 1 /\ [trig[i] EXCEPT !.at = step] = [at |-> step, col |-> trig[i].col]
  BY <1>1
<1> QED BY <1>1, <1>2 DEF TrigAt, TrigMoves

LEMMA NextColumnMoves ==
    ASSUME IInv, NEW i \in Instances, NextColumn(i),
           trig[i].at \in {"exists", "create", "backfill"}
    PROVE  \E t : TrigMoves(i, t) /\ t.at \in {"exists", "trgm"} /\ trig'[i] = t
<1>1. trig \in [Instances -> [at : TrigSteps, col : 1 .. NumColumns + 1]]
  BY DEF IInv, TypeOK
<1>2. trig[i].col \in Columns /\ NumColumns \in Nat
  BY BootBounds DEF IInv, Ready
<1> DEFINE t == IF trig[i].col < NumColumns THEN [at |-> "exists", col |-> trig[i].col + 1]
                                            ELSE [trig[i] EXCEPT !.at = "trgm"]
<1>3. trig' = [trig EXCEPT ![i] = t]
  BY <1>1 DEF NextColumn
<1>4. t \in [at : TrigSteps, col : 1 .. NumColumns + 1] /\ t.at \in {"exists", "trgm"}
  BY <1>1, <1>2 DEF TrigSteps, Columns
<1>5. t.at = "exists" => t.col \in Columns
  BY <1>1, <1>2 DEF Columns
<1> HIDE DEF t
<1> QED BY <1>1, <1>3, <1>4, <1>5 DEF TrigMoves

\* A step of the hook that leaves the tables alone.
LEMMA TrigStep ==
    ASSUME IInv, NEW i \in Instances, NEW t, TrigMoves(i, t),
           UNCHANGED <<database, phase, ensure, seed, stops, history>>,
           lock' \in {j \in Instances : phase[j] # "off"} \cup {NoLock},
           trig[i].at # "backfill", t.at = "create" => t.col \notin triggers, Exclusive'
    PROVE  IInv'
<1>1. trig \in [Instances -> [at : TrigSteps, col : 1 .. NumColumns + 1]]
  BY DEF IInv, TypeOK
<1>2. /\ trig'[i] = t /\ \A j \in Instances \ {i} : trig'[j] = trig[j]
      /\ trig' \in [Instances -> [at : TrigSteps, col : 1 .. NumColumns + 1]]
      /\ t.at # "lock"
      /\ t.at \in {"exists", "create", "backfill"} => t.col \in Columns
  BY <1>1 DEF TrigMoves
<1>3. TypeOK' /\ Histories'
  BY <1>2 DEF IInv, TypeOK, Histories, database, history
<1>4. Ready'
  BY <1>2 DEF IInv, Ready, Rows, database
<1>5. FailsOnce'
  BY <1>2 DEF IInv, FailsOnce, database, history
<1>6. SaveOK' /\ NamesOnce'
  BY NamesKept DEF database, history
<1>7. Whole'
  <2>1. Others(i) /\ cut' = cut
    BY <1>2 DEF Others, history
  <2>2. ASSUME NEW x \in AtWork(i) PROVE x \in AtWork(i)'
    <3>1. \A c \in Columns : x # <<"column", c>>
      BY ColumnWork
    <3> QED BY <3>1, WorkLeft
  <2> QED BY <2>1, <2>2, WholeKept
<1> QED BY <1>3, <1>4, <1>5, <1>6, <1>7 DEF IInv

\* The steps that need the lock and keep it.
LEMMA HeldStep ==
    ASSUME IInv, NEW i \in Instances, NEW t, TrigMoves(i, t),
           UNCHANGED <<database, lock, phase, ensure, seed, stops, history>>,
           trig[i].at \notin {"lock", "done", "backfill"},
           t.at = "create" => t.col \notin triggers
    PROVE  IInv'
<1>1. trig'[i] = t /\ \A j \in Instances \ {i} : trig'[j] = trig[j]
  BY DEF IInv, TypeOK, TrigMoves
<1>2. Exclusive'
  BY <1>1 DEF IInv, Exclusive, database, history
<1>3. lock' \in {j \in Instances : phase[j] # "off"} \cup {NoLock}
  BY DEF IInv, TypeOK
<1> QED BY <1>2, <1>3, TrigStep

LEMMA TryLockStep == ASSUME IInv, NEW i \in Instances, TryLock(i) PROVE IInv'
<1> DEFINE step == IF lock # NoLock THEN "done" ELSE IF NumColumns = 0 THEN "trgm" ELSE "exists"
           t == [at |-> step, col |-> trig[i].col]
<1>1. /\ TrigAt(i, step) /\ lock' = (IF lock = NoLock THEN i ELSE lock)
      /\ UNCHANGED <<database, phase, ensure, seed, stops, history>>
      /\ phase[i] = "booting" /\ trig[i].at = "lock"
  BY DEF TryLock
<1>2. step \in TrigSteps \ {"lock"} /\ step # "create" /\ step \notin {"create", "backfill"}
  BY DEF TrigSteps
<1>3. step = "exists" => trig[i].col \in Columns
  BY <1>1, BootBounds DEF IInv, Ready, Columns
<1>4. step # "done" => lock = NoLock
  OBVIOUS
<1> HIDE DEF step
<1>5. TrigMoves(i, t) /\ trig'[i] = t
  BY <1>1, <1>2, <1>3, TrigAtMoves
<1>6. \A j \in Instances \ {i} : trig'[j] = trig[j]
  BY <1>1 DEF TrigAt, IInv, TypeOK
<1>7. lock' \in {j \in Instances : phase[j] # "off"} \cup {NoLock}
  BY <1>1 DEF IInv, TypeOK
<1>8. Exclusive'
  <2>1. ASSUME ~lockLost', NEW j \in Instances, trig'[j].at \notin {"lock", "done"}
        PROVE  lock' = j
    BY <1>1, <1>4, <1>5, <1>6, <2>1, BootBounds DEF IInv, Exclusive, history
  <2>2. ASSUME ~lockLost', NEW j \in Instances, trig'[j].at = "create"
        PROVE  trig'[j].col \notin triggers'
    BY <1>1, <1>2, <1>5, <1>6, <2>2 DEF IInv, Exclusive, history, database
  <2> QED BY <2>1, <2>2 DEF Exclusive
<1> QED BY <1>1, <1>2, <1>5, <1>7, <1>8, TrigStep

LEMMA TriggerExistsStep == ASSUME IInv, NEW i \in Instances, TriggerExists(i) PROVE IInv'
<1>1. /\ trig[i].at = "exists"
      /\ Go(i, IF trig[i].col \in triggers THEN "next" ELSE "create")
      /\ UNCHANGED <<database, lock, phase, ensure, seed, stops, history>>
  BY DEF TriggerExists, Following
<1>2. CASE trig[i].col \in triggers
  <2>1. NextColumn(i)
    BY <1>1, <1>2 DEF Go
  <2>2. PICK t : TrigMoves(i, t) /\ t.at \in {"exists", "trgm"} /\ trig'[i] = t
    BY <1>1, <2>1, NextColumnMoves
  <2> QED BY <1>1, <2>2, HeldStep
<1>3. CASE trig[i].col \notin triggers
  <2>1. TrigAt(i, "create") /\ trig[i].col \in Columns
    BY <1>1, <1>3 DEF Go, IInv, Ready
  <2>2. TrigMoves(i, [at |-> "create", col |-> trig[i].col])
    BY <2>1, TrigAtMoves DEF TrigSteps
  <2> QED BY <1>1, <1>3, <2>2, HeldStep
<1> QED BY <1>2, <1>3

\* Two instances are past the lock only after a session of one was lost.
LEMMA ContendedStep ==
    ASSUME IInv, NEW i \in Instances, trig[i].at \in {"create", "trgm"}, FailContended(i)
    PROVE  IInv'
<1>1. PICK j \in Instances \ {i} : trig[j] = trig[i]
  BY DEF FailContended, Contended
<1>2. lockLost
  BY <1>1 DEF IInv, Exclusive
<1>3. Fail(i, <<"shared", 0>>) /\ <<"shared", 0>> \in {"user", "column", "shared"} \X Int
  BY DEF FailContended
<1> QED BY <1>2, <1>3, FailStep

LEMMA EnsureTrgmStep == ASSUME IInv, NEW i \in Instances, EnsureTrgm(i) PROVE IInv'
<1>1. CASE FailContended(i)
  BY <1>1, ContendedStep DEF EnsureTrgm
<1>2. CASE /\ trig[i].at = "trgm" /\ TrigAt(i, "unlock")
           /\ UNCHANGED <<database, lock, phase, ensure, seed, stops, history>>
  <2>1. TrigMoves(i, [at |-> "unlock", col |-> trig[i].col])
    BY <1>2, TrigAtMoves DEF TrigSteps
  <2> QED BY <1>2, <2>1, HeldStep
<1> QED BY <1>1, <1>2 DEF EnsureTrgm

LEMMA UnlockStep == ASSUME IInv, NEW i \in Instances, Unlock(i) PROVE IInv'
<1> DEFINE t == [at |-> "done", col |-> trig[i].col]
<1>1. /\ trig[i].at = "unlock" /\ TrigAt(i, "done")
      /\ lock' \in {lock, IF lock = i THEN NoLock ELSE lock}
      /\ UNCHANGED <<database, phase, ensure, seed, stops, history>>
  BY DEF Unlock, LockWithout
<1>2. TrigMoves(i, t) /\ trig'[i] = t
  BY <1>1, TrigAtMoves DEF TrigSteps
<1>3. \A j \in Instances \ {i} : trig'[j] = trig[j]
  BY <1>1 DEF TrigAt, IInv, TypeOK
<1>4. lock' \in {j \in Instances : phase[j] # "off"} \cup {NoLock}
  BY <1>1 DEF IInv, TypeOK
<1>5. Exclusive'
  BY <1>1, <1>2, <1>3 DEF IInv, Exclusive, history, database
<1> QED BY <1>1, <1>2, <1>4, <1>5, TrigStep

\* The session that is lost is recorded, unless the hook is done with the lock.
LEMMA SessionClosesStep == ASSUME IInv, NEW i \in Instances, SessionCloses(i) PROVE IInv'
<1>1. /\ lock = i /\ lock' = NoLock /\ lockLost' = (lockLost \/ trig[i].at # "done")
      /\ UNCHANGED <<database, process, stops, cut, raced, doubled, failures>>
  BY DEF SessionCloses
<1>2. TypeOK' /\ Histories'
  BY <1>1 DEF IInv, TypeOK, Histories, database, process
<1>3. Ready'
  BY <1>1 DEF IInv, Ready, Rows, database, process
<1>4. lockLost => lockLost'
  BY <1>1
<1>5. Exclusive'
  BY <1>1 DEF IInv, Exclusive, database, process
<1>6. FailsOnce'
  BY <1>1, <1>4 DEF IInv, FailsOnce, database, process
<1>7. SaveOK' /\ NamesOnce'
  BY <1>1, NamesKept DEF database, process
<1>8. Whole'
  <2>1. Others(i) /\ cut' = cut /\ AtWork(i)' = AtWork(i)
    BY <1>1, WorkSame DEF Others, process
  <2> QED BY <1>1, <2>1, WholeKept
<1> QED BY <1>2, <1>3, <1>5, <1>6, <1>7, <1>8 DEF IInv

LEMMA CreateTriggerStep == ASSUME IInv, NEW i \in Instances, CreateTrigger(i) PROVE IInv'
<1> DEFINE c == trig[i].col
<1>1. trig[i].at = "create" /\ c \in Columns
  BY DEF CreateTrigger, IInv, Ready
<1>0. CASE FailContended(i)
  BY <1>0, <1>1, ContendedStep
<1>2. CASE c \in triggers /\ Fail(i, <<"column", c>>)
  <2>1. Fail(i, <<"column", c>>)
    BY <1>2
  <2>2. <<"column", c>> \in {"user", "column", "shared"} \X Int
    BY <1>1 DEF Columns
  <2>3. lockLost
    BY <1>1, <1>2 DEF IInv, Exclusive
  <2> QED BY <1>2, <2>1, <2>2, <2>3, FailStep
<1>3. CASE /\ c \notin triggers /\ triggers' = triggers \cup {c} /\ Go(i, Following("create"))
           /\ UNCHANGED <<bars, users, accounts, lock, phase, ensure, seed, stops, history>>
  <2> DEFINE t == [at |-> "backfill", col |-> c]
  <2>1. /\ triggers' = triggers \cup {c} /\ TrigAt(i, "backfill")
        /\ UNCHANGED <<bars, users, accounts, lock, phase, ensure, seed, stops, history>>
    BY <1>3 DEF Go, Following
  <2>2. TrigMoves(i, t) /\ trig'[i] = t
    BY <1>1, <2>1, TrigAtMoves DEF TrigSteps
  <2>3. \A j \in Instances \ {i} : trig'[j] = trig[j]
    BY <2>1 DEF TrigAt, IInv, TypeOK
  <2>4. TypeOK' /\ Histories'
    BY <1>1, <2>1, <2>2 DEF TrigMoves, IInv, TypeOK, Histories, history
  <2>5. Ready'
    BY <1>1, <2>1, <2>2, <2>3 DEF IInv, Ready, Rows
  <2>6. Exclusive'
    <3>1. ASSUME ~lockLost', NEW j \in Instances, trig'[j].at \notin {"lock", "done"}
          PROVE  lock' = j
      BY <1>1, <2>1, <2>2, <2>3, <3>1 DEF IInv, Exclusive, history
    <3>2. ASSUME ~lockLost', NEW j \in Instances, trig'[j].at = "create" PROVE FALSE
      <4>1. j # i /\ trig[j].at = "create" /\ ~lockLost
        BY <2>1, <2>2, <2>3, <3>2 DEF history
      <4> QED BY <1>1, <4>1 DEF IInv, Exclusive
    <3> QED BY <3>1, <3>2 DEF Exclusive
  <2>7. FailsOnce'
    BY <1>1, <2>1, <2>2, <2>3 DEF IInv, FailsOnce, history
  <2>8. SaveOK' /\ NamesOnce'
    BY <2>1, NamesKept DEF history
  <2>9. Whole'
    <3>1. Others(i) /\ cut' = cut
      BY <2>1, <2>3 DEF Others, history
    <3>2. ASSUME NEW x \in AtWork(i) PROVE x \in AtWork(i)'
      <4>1. \A d \in Columns : x # <<"column", d>>
        BY <1>1, ColumnWork
      <4> QED BY <2>1, <4>1, WorkLeft
    <3>3. \A x \in Begun : x \in Begun'
      BY <3>1, <3>2, BegunKept
    <3>4. <<"column", c>> \in Begun'
      BY <1>1, <2>2, WorkNext DEF Begun
    <3>5. BarsWhole' /\ UsersWhole'
      BY <2>1, <3>3 DEF IInv, Whole, BarsWhole, UsersWhole, Rows
    <3>6. Searchable'
      BY <2>1, <3>3, <3>4 DEF IInv, Whole, Searchable, Rows
    <3> QED BY <3>5, <3>6 DEF Whole
  <2> QED BY <2>4, <2>5, <2>6, <2>7, <2>8, <2>9 DEF IInv
<1> QED BY <1>0, <1>2, <1>3 DEF CreateTrigger

LEMMA BackfillStep == ASSUME IInv, NEW i \in Instances, Backfill(i) PROVE IInv'
<1> DEFINE c == trig[i].col
<1>1. /\ trig[i].at = "backfill"
      /\ bars' = [b \in BarIds |-> IF bars[b] = NoRow THEN NoRow
                                   ELSE [bars[b] EXCEPT !.filled = @ \cup {c}]]
      /\ NextColumn(i)
      /\ UNCHANGED <<triggers, users, accounts, lock, phase, ensure, seed, stops, history>>
  BY DEF Backfill, Go, Following
<1>2. c \in Columns
  BY <1>1 DEF IInv, Ready
<1>3. PICK t : TrigMoves(i, t) /\ t.at \in {"exists", "trgm"} /\ trig'[i] = t
  BY <1>1, NextColumnMoves
<1>4. \A j \in Instances \ {i} : trig'[j] = trig[j]
  BY <1>1 DEF NextColumn, IInv, TypeOK
<1>5. ASSUME NEW b \in BarIds
      PROVE  /\ bars[b] = NoRow => bars'[b] = NoRow
             /\ bars[b] # NoRow => /\ bars'[b] \in BarRow /\ bars'[b] # NoRow
                                   /\ bars'[b].name = bars[b].name
                                   /\ bars'[b].parts = bars[b].parts
                                   /\ bars'[b].filled = bars[b].filled \cup {c}
  <2>1. bars[b] # NoRow => bars[b] \in BarRow
    BY DEF IInv, TypeOK
  <2>2. bars[b] \in BarRow => [bars[b] EXCEPT !.filled = @ \cup {c}] \in BarRow
    BY <1>2 DEF BarRow
  <2> QED BY <1>1, <2>1, <2>2, BootNulls DEF BarRow
<1>6. Rows' = Rows
  BY <1>5 DEF Rows
<1>7. TypeOK' /\ Histories'
  <2>1. bars' \in [BarIds -> BarRow \cup {NoRow}]
    BY <1>1, <1>5
  <2> QED BY <1>1, <1>3, <2>1 DEF TrigMoves, IInv, TypeOK, Histories, history
<1>8. Ready'
  BY <1>1, <1>3, <1>4, <1>6 DEF TrigMoves, IInv, Ready
<1>9. Exclusive' /\ FailsOnce'
  BY <1>1, <1>3, <1>4 DEF IInv, Exclusive, FailsOnce, history
<1>10. SaveOK' /\ NamesOnce'
  BY <1>1, <1>5, NamesKept DEF history
<1>11. Whole'
  <2>1. Others(i) /\ cut' = cut
    BY <1>1, <1>4 DEF Others, history
  <2>2. ASSUME NEW x \in AtWork(i), x # <<"column", c>> PROVE x \in AtWork(i)'
    <3>1. \A d \in Columns : x # <<"column", d>>
      BY <2>2, ColumnWork
    <3> QED BY <1>1, <3>1, WorkLeft
  <2>3. \A x \in Begun : x # <<"column", c>> => x \in Begun'
    BY <2>1, <2>2, BegunKept
  <2>4. /\ \A e : <<"account", e>> # <<"column", c>>
        /\ \A b : <<"bar", b>> # <<"column", c>>
        /\ \A d : d # c => <<"column", d>> # <<"column", c>>
    OBVIOUS
  <2>5. \A b \in Rows : bars'[b].parts = bars[b].parts /\ bars'[b].filled = bars[b].filled \cup {c}
    BY <1>5 DEF Rows
  <2>6. BarsWhole' /\ UsersWhole'
    BY <1>1, <1>6, <2>3, <2>4, <2>5 DEF IInv, Whole, BarsWhole, UsersWhole
  <2>7. Searchable'
    BY <1>1, <1>6, <2>3, <2>4, <2>5 DEF IInv, Whole, Searchable
  <2> QED BY <2>6, <2>7 DEF Whole
<1> QED BY <1>7, <1>8, <1>9, <1>10, <1>11 DEF IInv

-----------------------------------------------------------------------------
(* SeedInitService.                                                         *)

\* The seeding of i stands at s next.
SeedMoves(i, s) ==
    /\ seed' = [seed EXCEPT ![i] = s]
    /\ s \in [at : SeedSteps, name : 1 .. NumNames + 1, bar : BarIds \cup {NoRow}]
    /\ s.at # "done" => s.name \in Names

LEMMA NextNameMoves ==
    ASSUME IInv, NEW i \in Instances, NextName(i), seed[i].at # "done"
    PROVE  \E s : SeedMoves(i, s) /\ s.at \in {"find", "done"} /\ seed'[i] = s
<1>1. seed \in [Instances -> [at : SeedSteps, name : 1 .. NumNames + 1, bar : BarIds \cup {NoRow}]]
  BY DEF IInv, TypeOK
<1>2. seed[i].name \in Names /\ NumNames \in Nat
  BY BootBounds DEF IInv, Ready
<1> DEFINE s == [at |-> IF seed[i].name < NumNames THEN "find" ELSE "done",
                 name |-> IF seed[i].name < NumNames THEN seed[i].name + 1 ELSE seed[i].name,
                 bar |-> NoRow]
<1>3. seed' = [seed EXCEPT ![i] = s]
  BY <1>1 DEF NextName
<1>4. /\ s \in [at : SeedSteps, name : 1 .. NumNames + 1, bar : BarIds \cup {NoRow}]
      /\ s.at # "done" => s.name \in Names
      /\ s.at \in {"find", "done"}
  BY <1>2 DEF SeedSteps, Names
<1> HIDE DEF s
<1> QED BY <1>1, <1>3, <1>4 DEF SeedMoves

\* A step of the seeding that inserts nothing.
LEMMA SeedStep ==
    ASSUME IInv, NEW i \in Instances, NEW s, SeedMoves(i, s), s.at # "parts",
           UNCHANGED <<database, lock, phase, ensure, trig, stops, cut, doubled, lockLost, failures>>,
           seed[i].at = "parts" => bars[seed[i].bar].parts = Parts,
           SaveOK', NamesOnce'
    PROVE  IInv'
<1>1. seed'[i] = s /\ \A j \in Instances \ {i} : seed'[j] = seed[j]
  BY DEF SeedMoves, IInv, TypeOK
<1>2. TypeOK' /\ Histories'
  BY DEF SeedMoves, IInv, TypeOK, Histories, database
<1>3. Ready'
  BY <1>1 DEF SeedMoves, IInv, Ready, Rows, database
<1>4. Exclusive' /\ FailsOnce'
  BY DEF IInv, Exclusive, FailsOnce, database
<1>5. Whole'
  <2>1. Others(i)
    BY <1>1 DEF Others
  <2>2. ASSUME NEW x \in Begun, \A b \in Rows : x = <<"bar", b>> => bars[b].parts < Parts
        PROVE  x \in Begun'
    <3>1. ASSUME x \in AtWork(i) PROVE x \in AtWork(i)'
      <4>1. ASSUME NEW b \in BarIds, x = <<"bar", b>> PROVE FALSE
        <5>1. seed[i].at = "parts" /\ seed[i].bar = b
          BY <3>1, <4>1, Work
        <5>2. b \in Rows /\ bars[b].parts = Parts
          BY <5>1 DEF IInv, Ready
        <5> QED BY <2>2, <4>1, <5>2, BootBounds
      <4> QED BY <3>1, <4>1, WorkLeft
    <3> QED BY <2>1, <3>1, BegunKept
  <2>3. BarsWhole'
    <3>1. ASSUME NEW b \in Rows, bars[b].parts < Parts PROVE <<"bar", b>> \in Begun'
      <4>1. <<"bar", b>> \in Begun
        BY <3>1 DEF IInv, Whole, BarsWhole
      <4>2. \A d \in Rows : <<"bar", b>> = <<"bar", d>> => bars[d].parts < Parts
        BY <3>1
      <4> QED BY <2>2, <4>1, <4>2
    <3> QED BY <3>1 DEF BarsWhole, Rows, database
  <2>4. UsersWhole' /\ Searchable'
    <3>1. \A e \in users : <<"account", e>> \in Begun => <<"account", e>> \in Begun'
      BY <2>2
    <3>2. \A c \in triggers : <<"column", c>> \in Begun => <<"column", c>> \in Begun'
      BY <2>2
    <3> QED BY <3>1, <3>2 DEF IInv, Whole, UsersWhole, Searchable, Rows, database
  <2> QED BY <2>3, <2>4 DEF Whole
<1> QED BY <1>2, <1>3, <1>4, <1>5 DEF IInv

LEMMA SeedFindStep == ASSUME IInv, NEW i \in Instances, SeedFind(i) PROVE IInv'
<1> DEFINE n == seed[i].name
           meets == \E j \in Instances \ {i} : seed[j].at = "save" /\ seed[j].name = n
<1>1. /\ seed[i].at = "find"
      /\ IF Named(n) # {} THEN NextName(i) ELSE seed' = [seed EXCEPT ![i].at = "save"]
      /\ raced \subseteq raced' /\ (meets => n \in raced')
      /\ UNCHANGED <<database, lock, phase, ensure, trig, stops, cut, doubled, lockLost, failures>>
  BY DEF SeedFind, AboutToInsert
<1>2. seed \in [Instances -> [at : SeedSteps, name : 1 .. NumNames + 1, bar : BarIds \cup {NoRow}]]
  BY DEF IInv, TypeOK
<1>3. PICK s : /\ SeedMoves(i, s) /\ s.at \in {"find", "done", "save"} /\ seed'[i] = s
               /\ s.at = "save" => s.name = n /\ Named(n) = {}
  <2>1. CASE Named(n) # {}
    BY <1>1, <2>1, NextNameMoves
  <2>2. CASE Named(n) = {}
    <3> DEFINE s == [seed[i] EXCEPT !.at = "save"]
    <3>1. seed' = [seed EXCEPT ![i] = s] /\ seed'[i] = s
      BY <1>1, <1>2, <2>2
    <3>2. /\ s \in [at : SeedSteps, name : 1 .. NumNames + 1, bar : BarIds \cup {NoRow}]
          /\ s.at = "save" /\ s.name = n
      BY <1>2 DEF SeedSteps
    <3>3. n \in Names
      BY <1>1 DEF IInv, Ready
    <3> HIDE DEF s
    <3> QED BY <2>2, <3>1, <3>2, <3>3 DEF SeedMoves
  <2> QED BY <2>1, <2>2
<1>4. \A j \in Instances \ {i} : seed'[j] = seed[j]
  BY <1>2, <1>3 DEF SeedMoves
<1>5. NamesOnce' /\ \A m : Named(m)' = Named(m)
  BY <1>1 DEF IInv, NamesOnce, Named, Rows, database
<1>6. SaveOK'
  <2> SUFFICES ASSUME NEW k \in Instances, NEW m,
                      seed'[k].at = "save", seed'[k].name = m, m \notin raced'
               PROVE  /\ Named(m)' = {}
                      /\ \A j \in Instances :
                            seed'[j].at = "save" /\ seed'[j].name = m => j = k
    BY DEF SaveOK, Named
  <2>1. CASE k = i
    BY <1>1, <1>3, <1>4, <1>5, <2>1
  <2>2. CASE k # i
    BY <1>1, <1>3, <1>4, <1>5, <2>2 DEF IInv, SaveOK
  <2> QED BY <2>1, <2>2
<1> QED BY <1>1, <1>3, <1>5, <1>6, SeedStep

LEMMA SeedDoneStep == ASSUME IInv, NEW i \in Instances, SeedDone(i) PROVE IInv'
<1>1. /\ seed[i].at = "parts" /\ bars[seed[i].bar].parts = Parts /\ NextName(i)
      /\ UNCHANGED <<database, lock, phase, ensure, trig, stops, history>>
  BY DEF SeedDone
<1>2. PICK s : SeedMoves(i, s) /\ s.at \in {"find", "done"} /\ seed'[i] = s
  BY <1>1, NextNameMoves
<1>3. \A j \in Instances \ {i} : seed'[j] = seed[j]
  BY <1>2 DEF SeedMoves, IInv, TypeOK
<1>4. NamesOnce' /\ SaveOK'
  BY <1>1, <1>2, <1>3 DEF IInv, NamesOnce, SaveOK, Named, Rows, database, history
<1> QED BY <1>1, <1>2, <1>4, SeedStep DEF history

LEMMA SeedBarStep == ASSUME IInv, NEW i \in Instances, SeedBar(i) PROVE IInv'
<1> DEFINE n == seed[i].name
<1>1. PICK b \in Free : /\ bars' = [bars EXCEPT ![b] = NewBar(n, 0)]
                        /\ seed' = [seed EXCEPT ![i].at = "parts", ![i].bar = b]
  BY DEF SeedBar
<1>2. /\ seed[i].at = "save"
      /\ UNCHANGED <<triggers, users, accounts, lock, phase, ensure, trig, stops,
                     cut, raced, lockLost, failures>>
      /\ doubled' = doubled \cup ({n} \cap {bars[a].name : a \in Rows})
  BY DEF SeedBar
<1>3. n \in Names
  BY <1>2 DEF IInv, Ready
<1>4. /\ bars' \in [BarIds -> BarRow \cup {NoRow}]
      /\ Rows' = Rows \cup {b} /\ b \in BarIds /\ b \notin Rows
      /\ bars'[b].name = n /\ bars'[b].parts = 0 /\ bars'[b].filled = triggers
      /\ \A c \in Rows : bars'[c] = bars[c]
  <2>1. n \in Names \cup {Other} /\ 0 \in 0 .. Parts
    BY <1>3, BootBounds
  <2> QED BY <1>1, <2>1, NewRow
<1>5. seed \in [Instances -> [at : SeedSteps, name : 1 .. NumNames + 1, bar : BarIds \cup {NoRow}]]
  BY DEF IInv, TypeOK
<1>6. /\ seed' \in [Instances -> [at : SeedSteps, name : 1 .. NumNames + 1, bar : BarIds \cup {NoRow}]]
      /\ seed'[i].at = "parts" /\ seed'[i].bar = b /\ seed'[i].name = n
      /\ \A j \in Instances \ {i} : seed'[j] = seed[j]
  BY <1>1, <1>4, <1>5 DEF SeedSteps
<1>7. TypeOK' /\ Histories'
  BY <1>2, <1>4, <1>6 DEF IInv, TypeOK, Histories
<1>8. Ready'
  BY <1>2, <1>3, <1>4, <1>6 DEF IInv, Ready
<1>9. Exclusive' /\ FailsOnce'
  BY <1>2 DEF IInv, Exclusive, FailsOnce
<1>10. \A m : m # n => Named(m)' = Named(m)
  BY <1>4 DEF Named
<1>11. SaveOK'
  <2> SUFFICES ASSUME NEW k \in Instances, NEW m,
                      seed'[k].at = "save", seed'[k].name = m, m \notin raced'
               PROVE  /\ Named(m)' = {}
                      /\ \A j \in Instances :
                            seed'[j].at = "save" /\ seed'[j].name = m => j = k
    BY DEF SaveOK, Named
  <2>1. k # i /\ seed'[k] = seed[k] /\ m \notin raced
    BY <1>2, <1>6
  <2>2. Named(m) = {} /\ m # n
    BY <1>2, <2>1 DEF IInv, SaveOK
  <2>3. Named(m)' = {}
    BY <1>10, <2>2
  <2>4. ASSUME NEW j \in Instances, seed'[j].at = "save", seed'[j].name = m PROVE j = k
    <3>1. seed'[j] = seed[j]
      BY <1>6, <2>4
    <3> QED BY <2>1, <2>4, <3>1 DEF IInv, SaveOK
  <2> QED BY <2>3, <2>4
<1>12. NamesOnce'
  <2>1. n \notin raced => \A a \in Rows : bars[a].name # n
    BY <1>2 DEF IInv, SaveOK, Named
  <2> QED BY <1>2, <2>1 DEF IInv, NamesOnce
<1>13. Whole'
  <2>1. Others(i) /\ cut' = cut
    BY <1>2, <1>6 DEF Others
  <2>2. ASSUME NEW x \in AtWork(i) PROVE x \in AtWork(i)'
    <3>1. ASSUME NEW d \in BarIds, x = <<"bar", d>> PROVE FALSE
      BY <1>2, <2>2, <3>1, Work
    <3> QED BY <1>2, <3>1, WorkLeft
  <2>3. \A x \in Begun : x \in Begun'
    BY <2>1, <2>2, BegunKept
  <2>4. <<"bar", b>> \in Begun'
    BY <1>4, <1>6, WorkNext DEF Begun
  <2>5. BarsWhole'
    BY <1>4, <2>3, <2>4 DEF IInv, Whole, BarsWhole
  <2>6. UsersWhole' /\ Searchable'
    BY <1>2, <1>4, <2>3 DEF IInv, Whole, UsersWhole, Searchable
  <2> QED BY <2>5, <2>6 DEF Whole
<1> QED BY <1>7, <1>8, <1>9, <1>11, <1>12, <1>13 DEF IInv

LEMMA SeedPartStep == ASSUME IInv, NEW i \in Instances, SeedPart(i) PROVE IInv'
<1> DEFINE b == seed[i].bar
<1>1. /\ bars[b].parts < Parts /\ bars' = [bars EXCEPT ![b].parts = @ + 1]
      /\ UNCHANGED <<triggers, users, accounts, lock, process, stops, history>>
  BY DEF SeedPart
<1>2. b \in Rows /\ b \in BarIds /\ bars[b] \in BarRow
  BY DEF SeedPart, IInv, Ready, TypeOK, Rows
<1>3. /\ bars' \in [BarIds -> BarRow \cup {NoRow}] /\ Rows' = Rows
      /\ bars'[b].name = bars[b].name /\ bars'[b].filled = bars[b].filled
      /\ \A c \in BarIds \ {b} : bars'[c] = bars[c]
  <2>1. bars \in [BarIds -> BarRow \cup {NoRow}]
    BY DEF IInv, TypeOK
  <2>2. [bars[b] EXCEPT !.parts = @ + 1] \in BarRow
    BY <1>1, <1>2, BootBounds DEF BarRow
  <2>3. bars'[b] = [bars[b] EXCEPT !.parts = @ + 1] /\ \A c \in BarIds \ {b} : bars'[c] = bars[c]
    BY <1>1, <1>2, <2>1
  <2>4. bars'[b] # NoRow /\ bars'[b].name = bars[b].name /\ bars'[b].filled = bars[b].filled
    BY <1>2, <2>2, <2>3, BootNulls DEF BarRow
  <2> QED BY <1>1, <1>2, <2>1, <2>2, <2>3, <2>4 DEF Rows
<1>4. TypeOK' /\ Histories' /\ Ready' /\ Exclusive' /\ FailsOnce'
  BY <1>1, <1>3 DEF IInv, TypeOK, Histories, Ready, Exclusive, FailsOnce, process, history
<1>5. SaveOK' /\ NamesOnce'
  <2>1. \A c \in BarIds : /\ bars[c] = NoRow <=> bars'[c] = NoRow
                          /\ bars[c] # NoRow => bars'[c].name = bars[c].name
    BY <1>3 DEF Rows
  <2> QED BY <1>1, <2>1, NamesKept DEF process, history
<1>6. Whole'
  <2>1. Begun' = Begun
    BY <1>1, WorkSame DEF Begun, AtWork, process, history
  <2>2. \A c \in Rows : bars'[c].filled = bars[c].filled /\ (c # b => bars'[c] = bars[c])
    BY <1>3 DEF Rows
  <2> QED BY <1>1, <1>3, <2>1, <2>2 DEF IInv, Whole, BarsWhole, UsersWhole, Searchable
<1> QED BY <1>4, <1>5, <1>6 DEF IInv

-----------------------------------------------------------------------------
(* Every reachable state.                                                   *)

LEMMA InitHolds == Init => IInv
<1> SUFFICES ASSUME Init PROVE IInv
  OBVIOUS
<1>1. TypeOK
  <2>1. bars \in [BarIds -> BarRow \cup {NoRow}]
    BY BootBounds DEF Init, BarRow, Columns
  <2> QED BY <2>1, BootBounds
          DEF Init, TypeOK, InitEnsure, InitTrig, InitSeed, EnsureSteps, TrigSteps, SeedSteps
<1>2. Ready /\ Exclusive /\ FailsOnce /\ SaveOK
  BY BootBounds
     DEF Init, Ready, Exclusive, FailsOnce, SaveOK, InitEnsure, InitTrig, InitSeed, Names
<1>3. Histories
  BY DEF Init, Histories
<1>4. /\ Rows \subseteq EarlierBars
      /\ \A b \in Rows : bars[b].name = Other /\ bars[b].parts = Parts /\ bars[b].filled = triggers
  BY DEF Init, Rows
<1>5. NamesOnce
  BY DEF Init, NamesOnce
<1>6. Whole
  BY <1>4, BootBounds DEF Init, Whole, BarsWhole, UsersWhole, Searchable
<1> QED BY <1>1, <1>2, <1>3, <1>5, <1>6 DEF IInv

LEMMA NextHolds == IInv /\ [Next]_vars => IInv'
<1> SUFFICES ASSUME IInv, [Next]_vars PROVE IInv'
  OBVIOUS
<1>1. ASSUME NEW i \in Instances, Boot(i) \/ Listen(i) PROVE IInv'
  BY <1>1, PhaseStep DEF Boot, Listen
<1>2. ASSUME NEW i \in Instances, Stop(i) \/ Serve(i) PROVE IInv'
  BY <1>2, StopStep, ServeStep
<1>3. ASSUME NEW i \in Instances, Users(i) PROVE IInv'
  BY <1>3, EnsureFindStep, EnsureUserStep, EnsureAccountStep DEF Users
<1>4. ASSUME NEW i \in Instances, Trigger(i) \/ SessionCloses(i) PROVE IInv'
  BY <1>4, TryLockStep, TriggerExistsStep, CreateTriggerStep, BackfillStep, EnsureTrgmStep,
     UnlockStep, SessionClosesStep DEF Trigger
<1>5. ASSUME NEW i \in Instances, Seeding(i) PROVE IInv'
  BY <1>5, SeedFindStep, SeedBarStep, SeedPartStep, SeedDoneStep DEF Seeding
<1>6. ASSUME UNCHANGED vars PROVE IInv'
  <2>1. UNCHANGED <<bars, triggers, users, accounts, lock, phase, ensure, trig, seed, stops,
                    cut, raced, doubled, lockLost, failures>>
    BY <1>6 DEF vars, database, process, history
  <2>2. Begun' = Begun /\ Rows' = Rows /\ \A n : Named(n)' = Named(n)
    BY <2>1 DEF Begun, AtWork, Rows, Named
  <2>3. Whole'
    BY <2>1, <2>2 DEF IInv, Whole, BarsWhole, UsersWhole, Searchable
  <2>4. SaveOK' /\ NamesOnce'
    BY <2>1, NamesKept
  <2> QED BY <2>1, <2>2, <2>3, <2>4
          DEF IInv, TypeOK, Ready, Histories, Exclusive, FailsOnce
<1> QED BY <1>1, <1>2, <1>3, <1>4, <1>5, <1>6 DEF Next, Quiet

LEMMA Reached == Spec => []IInv
BY InitHolds, NextHolds, PTL DEF Spec

\* Every state has its types: in particular the lock belongs to an instance that
\* runs, and an account to a user (trigger-init.service.ts:26-46).
THEOREM BootTypes == Spec => []TypeOK
<1>1. IInv => TypeOK
  BY DEF IInv
<1> QED BY <1>1, Reached, PTL

\* With any number of instances that start, stop and insert bars at once, no bar
\* stays without a column whose trigger is there, but for an instance that ended
\* between the trigger and the UPDATE (trigger-init.service.ts:49-130).
THEOREM EveryBarFound == Spec => []EveryBarIsSearchable
<1>1. IInv => EveryBarIsSearchable
  BY DEF IInv, Whole, Searchable, Begun, EveryBarIsSearchable
<1> QED BY <1>1, Reached, PTL

\* Only an instance that ends leaves a seed bar or a user half made, and a seed
\* bar gets another's name only if that was inserted after it was looked for
\* (seed-init.service.ts:61-117).
THEOREM OnlyEndsLeaveHalves == Spec => []NothingHalfMade
<1>1. IInv => NothingHalfMade
  BY DEF IInv, Whole, BarsWhole, UsersWhole, NamesOnce, Begun, NothingHalfMade
<1> QED BY <1>1, Reached, PTL

\* An instance fails over a user only once, and over a trigger only once; over what
\* the lock guards only when a session that held it was closed
\* (admin-init.service.ts:45-62, trigger-init.service.ts:26-46).
THEOREM FailuresEnd == Spec => []FailsOnce
<1>1. IInv => FailsOnce
  BY DEF IInv
<1> QED BY <1>1, Reached, PTL
=============================================================================
