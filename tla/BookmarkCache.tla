---------------------------- MODULE BookmarkCache ----------------------------
(***************************************************************************)
(* The bookmarks of one user as the browser keeps them: the cached search, *)
(* the cached details of bars and the cached list of bookmarks, changed    *)
(* before the server answers, corrected by its answer, and put back when   *)
(* the call fails.                                                         *)
(*                                                                         *)
(* onMutate is one step: nothing but other calls of onMutate runs between  *)
(* its two awaits, and these cancel what it has cancelled already.         *)
(* Nobody else bookmarks the bars, so a count is 0 or 1 on the server.     *)
(*                                                                         *)
(* No name of this module is one of ApiClient or Onboarding, so that the   *)
(* proofs about the browser extend all three.                              *)
(***************************************************************************)
EXTENDS Integers, FiniteSets

CONSTANTS Bars,
          Search, List,  \* the search and the bookmarks query; the detail query of a
                         \* bar is named by the bar
          NumMutations,  \* mutations of one behaviour
          MaxFetches,    \* fetches that no mutation has asked for
          NoData         \* nothing cached, snapshotted or fetched

ASSUME CacheBounds == NumMutations \in Nat /\ MaxFetches \in Nat
ASSUME CacheNames == IsFiniteSet(Bars) /\ Search \notin Bars /\ List \notin Bars \cup {Search}

VARIABLES
    marks,      \* bookmarks: the bars of the user's rows
    cards,      \* the data of the search and detail queries
    list,       \* the data of the bookmarks query
    invalid,    \* its isInvalidated
    listOpen,   \* the bookmarks page is mounted
    fetch,      \* what a query is fetching
    fetches,    \* fetches so far
    stage,      \* where a mutation is
    mutation,   \* its input, its context and its answer
    \* History, read by properties only.
    met,        \* what a mutation's context may show as it is no more: bars, the list
    known       \* what is out of date for a known reason: the cards of bars, the list

lists        == <<list, invalid, listOpen>>
cacheHistory == <<met, known>>
cacheVars    == <<marks, cards, lists, fetch, fetches, stage, mutation, cacheHistory>>

-----------------------------------------------------------------------------
Mutations == 1 .. NumMutations
Details == Bars
Queries == {Search} \cup Details
Fetched == Queries \cup {List}
BarsOf(q) == IF q = Search THEN Bars ELSE {q}

\* What the server says of a bar, and of the bookmarks.
CardOf(marked) == [marked |-> marked, count |-> IF marked THEN 1 ELSE 0]
ServerCards(q) == [b \in BarsOf(q) |-> CardOf(b \in marks)]
ServerList == [items |-> marks, total |-> Cardinality(marks)]

\* A query that fetches nothing, and one that waits for the server.
NoFetch == [step |-> "none", data |-> NoData, passed |-> {}]
Asking  == [NoFetch EXCEPT !.step = "asked"]

Pending == {m \in Mutations : stage[m] \in {"sent", "served"}}
BarsIn(M) == {mutation[m].bar : m \in M}

\* The user has searched, and has opened the list before.
CacheInit ==
    /\ marks \in SUBSET Bars
    /\ cards = [q \in Queries |-> IF q = Search THEN ServerCards(q) ELSE NoData]
    /\ list = ServerList /\ invalid = FALSE /\ listOpen = FALSE
    /\ fetch = [q \in Fetched |-> NoFetch]
    /\ fetches = 0
    /\ stage = [m \in Mutations |-> "idle"]
    /\ mutation = [m \in Mutations |-> NoData]
    /\ met = [m \in Mutations |-> {}]
    /\ known = {}

-----------------------------------------------------------------------------
(* Fetches of the query client.                                             *)

\* A query is mounted, or fetched again because it is stale.
Ask(q) ==
    /\ fetches < MaxFetches /\ fetch[q] = NoFetch
    /\ q = List => listOpen
    /\ fetch' = [fetch EXCEPT ![q] = Asking]
    /\ fetches' = fetches + 1
    /\ UNCHANGED <<marks, cards, lists, stage, mutation, cacheHistory>>

\* passed: the bars whose bookmark changes while the answer is on its way.
Answer(q) ==
    /\ fetch[q] = Asking
    /\ fetch' = [fetch EXCEPT ![q].step = "answered",
                              ![q].data = IF q = List THEN ServerList ELSE ServerCards(q)]
    /\ UNCHANGED <<marks, cards, lists, fetches, stage, mutation, cacheHistory>>

Answered(q) == fetch[q].step = "answered"

\* An old answer stays in the cache unless the answer of the mutation follows.
Deliver(q) ==
    /\ Answered(q)
    /\ IF q = List
       THEN list' = fetch[q].data /\ invalid' = FALSE /\ UNCHANGED cards
       ELSE cards' = [cards EXCEPT ![q] = fetch[q].data] /\ UNCHANGED <<list, invalid>>
    /\ LET old == fetch[q].passed \ BarsIn({m \in Mutations : stage[m] = "served"}) IN
         known' = IF q # List THEN known \cup old
                  ELSE IF old = {} THEN known \ {List} ELSE known \cup {List}
    /\ fetch' = [fetch EXCEPT ![q] = NoFetch]
    /\ UNCHANGED <<marks, listOpen, fetches, stage, mutation, met>>

\* Both tries fail; the data stay.
FailFetch(q) ==
    /\ fetch[q] # NoFetch
    /\ fetch' = [fetch EXCEPT ![q] = NoFetch]
    /\ UNCHANGED <<marks, cards, lists, fetches, stage, mutation, cacheHistory>>

\* The page fetches a list that was invalidated while nobody showed it.
OpenList ==
    /\ ~listOpen /\ listOpen' = TRUE
    /\ fetch' = IF invalid /\ fetch[List] = NoFetch
                THEN [fetch EXCEPT ![List] = Asking] ELSE fetch
    /\ UNCHANGED <<marks, cards, list, invalid, fetches, stage, mutation, cacheHistory>>

\* A fetch under way goes on.
CloseList ==
    /\ listOpen /\ listOpen' = FALSE
    /\ UNCHANGED <<marks, cards, list, invalid, fetch, fetches, stage, mutation, cacheHistory>>

-----------------------------------------------------------------------------
(* useBookmarkMutation.                                                     *)

\* updateSearchCaches changes the bar there, and the same for the detail.
Has(q, b) == b \in BarsOf(q) /\ cards[q] # NoData

\* Every fetch of a bar or of the bookmarks.
Cancelled == [q \in Fetched |-> NoFetch]

\* What the user sees decides about the action: the bookmark button of a card
\* toggles it, the edit mode of the list removes items; the same bar may have a
\* button on two pages.
Offered(b) ==
    {IF cards[q][b].marked THEN "remove" ELSE "add" : q \in {p \in Queries : Has(p, b)}}
    \cup (IF listOpen /\ b \in list.items THEN {"remove"} ELSE {})

OptimisticCard(action, old) ==
    [marked |-> action = "add",
     count  |-> IF action = "add" THEN old.count + 1 ELSE IF old.count = 0 THEN 0 ELSE old.count - 1]

\* Also a list that does not show the bar counts one less.
OptimisticList(action, b) ==
    IF action = "add" THEN list
    ELSE [items |-> list.items \ {b}, total |-> list.total - 1]

\* onMutate.  A list that is set by hand is valid, and a failure puts back even
\* one that was not.
Mutate(m, b, action) ==
    /\ stage[m] = "idle" /\ \A n \in 1 .. m - 1 : stage[n] # "idle"
    /\ action \in Offered(b)
    /\ fetch' = Cancelled
    /\ mutation' = [mutation EXCEPT ![m] =
          [bar |-> b, action |-> action, answer |-> NoData, previousSearches |-> cards[Search],
           previousDetail |-> cards[b], previousBookmarks |-> list]]
    /\ cards' = [q \in Queries |->
          IF Has(q, b) THEN [cards[q] EXCEPT ![b] = OptimisticCard(action, @)] ELSE cards[q]]
    /\ list' = OptimisticList(action, b)
    /\ invalid' = (invalid /\ action = "add")
    /\ met' = [n \in Mutations |->
          IF n = m THEN BarsIn(Pending) \cup (known \cap {List})
                        \cup IF invalid \/ Pending # {} THEN {List} ELSE {}
          ELSE IF n \in Pending THEN met[n] \cup {b, List} ELSE met[n]]
    /\ known' = known \cup ({b} \cap BarsIn(Pending))
    /\ stage' = [stage EXCEPT ![m] = "sent"]
    /\ UNCHANGED <<marks, listOpen, fetches>>

\* BookmarksService.add and remove; both may find their work done.
Change(m) ==
    LET b == mutation[m].bar IN
      /\ marks' = IF mutation[m].action = "add" THEN marks \cup {b} ELSE marks \ {b}
      /\ fetch' = [q \in Fetched |->
            IF Answered(q) THEN [fetch[q] EXCEPT !.passed = @ \cup {b}] ELSE fetch[q]]

ServeMutation(m) ==
    /\ stage[m] = "sent"
    /\ Change(m)
    /\ mutation' = [mutation EXCEPT ![m].answer = CardOf(mutation[m].action = "add")]
    /\ stage' = [stage EXCEPT ![m] = "served"]
    /\ UNCHANGED <<cards, lists, fetches, cacheHistory>>

\* A request the browser has given up.
ServeLate(m) ==
    /\ stage[m] = "late"
    /\ Change(m)
    /\ known' = known \cup {mutation[m].bar, List}
    /\ met' = [n \in Mutations |->
          IF n \in Pending THEN met[n] \cup {mutation[m].bar, List} ELSE met[n]]
    /\ mutation' = [mutation EXCEPT ![m] = NoData]
    /\ stage' = [stage EXCEPT ![m] = "over"]
    /\ UNCHANGED <<cards, lists, fetches>>

\* Mutant: the list is not invalidated.
ListLeft == UNCHANGED <<invalid, fetch>>

\* invalidateQueries: a page that shows the list fetches it anew.
Invalidate ==
    /\ invalid' = TRUE
    /\ fetch' = IF listOpen THEN [fetch EXCEPT ![List] = Asking] ELSE fetch

\* onSuccess.
Succeed(m) ==
    /\ stage[m] = "served"
    /\ LET b == mutation[m].bar IN
         cards' = [q \in Queries |->
            IF Has(q, b) THEN [cards[q] EXCEPT ![b] = mutation[m].answer] ELSE cards[q]]
    /\ Invalidate
    /\ stage' = [stage EXCEPT ![m] = "over"]
    /\ mutation' = [mutation EXCEPT ![m] = NoData]
    /\ met' = [met EXCEPT ![m] = {}]
    /\ UNCHANGED <<marks, list, listOpen, fetches, known>>

\* The bookmarks of the context.
ListBefore(m) == mutation[m].previousBookmarks

\* Mutant: only the search is put back.
SearchOnly(m) == [cards EXCEPT ![Search] = mutation[m].previousSearches]

\* The search and the detail of the context, if there was one.
CardsBefore(m) ==
    [q \in Queries |->
        IF q = Search THEN mutation[m].previousSearches
        ELSE IF q = mutation[m].bar /\ mutation[m].previousDetail # NoData
        THEN mutation[m].previousDetail
        ELSE cards[q]]

\* onError: the server refused, or the call or its answer was lost; the server
\* may still work on it.  Data that are set by hand are valid.
Fail(m) ==
    /\ m \in Pending
    /\ cards' = CardsBefore(m)
    /\ list' = ListBefore(m) /\ invalid' = FALSE
    /\ known' = known \cup met[m]
          \cup IF stage[m] = "served" THEN {mutation[m].bar, List} ELSE {}
    /\ met' = [met EXCEPT ![m] = {}]
    /\ \/ /\ stage' = [stage EXCEPT ![m] = "over"]
          /\ mutation' = [mutation EXCEPT ![m] = NoData]
       \/ /\ stage[m] = "sent" /\ stage' = [stage EXCEPT ![m] = "late"]
          /\ UNCHANGED mutation
    /\ UNCHANGED <<marks, listOpen, fetch, fetches>>

-----------------------------------------------------------------------------
\* Nothing is under way.
AllOver ==
    /\ \A m \in Mutations : stage[m] \in {"idle", "over"}
    /\ \A q \in Fetched : fetch[q] = NoFetch

Rest == AllOver /\ UNCHANGED cacheVars

CacheNext ==
    \/ \E q \in Fetched : Ask(q) \/ Answer(q) \/ Deliver(q) \/ FailFetch(q)
    \/ OpenList \/ CloseList \/ Rest
    \/ \E m \in Mutations :
         \/ \E b \in Bars, action \in {"add", "remove"} : Mutate(m, b, action)
         \/ ServeMutation(m) \/ ServeLate(m) \/ Succeed(m) \/ Fail(m)

CacheSpec == CacheInit /\ [][CacheNext]_cacheVars

-----------------------------------------------------------------------------
(* Properties.                                                              *)

\* When nothing is under way, every card shows the bookmark and the count that
\* the server has, whatever was guessed, corrected or put back on the way
\* (use-bookmark-mutation.ts:83-169); but for bars of a mutation that failed
\* although the server did its work, of overlapping mutations of one bar, of
\* mutations that overlapped a failed one, and of fetches that a mutation passed.
CardsAgree ==
    AllOver => \A q \in Queries : \A b \in BarsOf(q) \ known :
                 cards[q] # NoData => cards[q][b] = CardOf(b \in marks)

\* When nothing is under way, a list of bookmarks that is not invalidated holds
\* the bars that are bookmarked and counts them; unless a failure put back a list
\* that was invalid or out of date then, or was no refusal, or overlapped another
\* mutation, or a mutation passed the last fetch (use-bookmark-mutation.ts:114-167).
ListAgrees ==
    AllOver /\ ~invalid /\ List \notin known => list = ServerList
=============================================================================
