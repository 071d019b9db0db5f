----------------------------- MODULE ApiClient ------------------------------
(***************************************************************************)
(* The API client of the browser: the interceptor that answers a 401 with  *)
(* one refresh of the session and a retry, and makes the calls that fail   *)
(* meanwhile wait in a queue.                                              *)
(*                                                                         *)
(* The state of the interceptor belongs to a tab, the cookies to all of    *)
(* them.  A refresh token is named by a number, the newest by the highest. *)
(* Access tokens are no part of the model: one may expire at any moment,   *)
(* and a call may be refused for what it says, so every call may be        *)
(* answered with a 401.                                                    *)
(*                                                                         *)
(* A refresh may fail in two ways that the client does not tell apart: its *)
(* token is unknown, or it is turned away by the throttler, for an         *)
(* inactive user, by a failure of the server or of the network.            *)
(***************************************************************************)
EXTENDS Integers

CONSTANTS Tabs,
          NumCalls,      \* calls of one behaviour, numbered as they are made
          NoCall         \* no call, or one that is over

ASSUME ClientBounds == NumCalls \in Nat

VARIABLES
    refreshing,  \* isRefreshing of a tab
    queue,       \* failedQueue of a tab
    page,        \* "open", "leaving" for /login, or "left"
    cookie,      \* the refresh token of the browser
    pc,          \* where a call is
    call,        \* its tab, kind and _retry, the token its last request carried,
                 \* and the one in the answer on its way to it
    sessions,    \* the rows of refresh_tokens
    last,        \* the newest token
    \* History, read by properties only.
    spent,       \* the tokens a tab has sent to be refreshed
    excused      \* tokens that a logout, a login or a suspension has deleted, or
                 \* whose refresh has failed after it was found, or was not answered

tab     == <<refreshing, queue, page>>
server  == <<sessions, last>>
history == <<spent, excused>>
vars    == <<tab, cookie, pc, call, server, history>>

-----------------------------------------------------------------------------
Calls == 1 .. NumCalls
Tokens == Nat \ {0}
NoToken == 0     \* not signed in
Jar == Tokens \cup {NoToken}

\* "login" is one of the three paths that are not refreshed for; "logout" is the
\* user's.
Kinds == {"plain", "login", "logout"}
Call  == [tab : Tabs, kind : Kinds, retry : BOOLEAN, carried : Jar, issued : Jar]

ASSUME NoCallIsNone == NoCall \notin Call

\* "signed", "renewed" and "out" are answers on their way that set the cookie;
\* "unknown" and "failed" are what a refresh was refused for.
InTransit == {"request", "401", "queued", "signed", "refresh", "rotate", "insert",
              "renewed", "unknown", "failed", "logout", "out"}
Steps == InTransit \cup {"idle", "settled"}

\* A browser that is signed in, or not.
Init ==
    /\ refreshing = [t \in Tabs |-> FALSE]
    /\ queue = [t \in Tabs |-> {}]
    /\ page = [t \in Tabs |-> "open"]
    /\ cookie \in {1, NoToken}
    /\ pc = [c \in Calls |-> "idle"]
    /\ call = [c \in Calls |-> NoCall]
    /\ sessions = {cookie} \ {NoToken} /\ last = 1
    /\ spent = [t \in Tabs |-> {}] /\ excused = {}

Move(c, step) == pc' = [pc EXCEPT ![c] = step]

\* The calls of C are over.
Over(C) ==
    /\ pc' = [c \in Calls |-> IF c \in C THEN "settled" ELSE pc[c]]
    /\ call' = [c \in Calls |-> IF c \in C THEN NoCall ELSE call[c]]

\* The path of the cookie is that of the /auth requests: logout and refresh read
\* it, no other handler does.
CookieFor(kind) == IF kind = "logout" THEN cookie ELSE NoToken

Start(c) ==
    /\ pc[c] = "idle" /\ \A d \in 1 .. c - 1 : pc[d] # "idle"
    /\ \E t \in Tabs, k \in Kinds :
         /\ page[t] # "left"
         /\ call' = [call EXCEPT ![c] = [tab |-> t, kind |-> k, retry |-> FALSE,
                                         carried |-> CookieFor(k), issued |-> NoToken]]
    /\ Move(c, "request")
    /\ UNCHANGED <<tab, cookie, server, history>>

-----------------------------------------------------------------------------
(* The server and the network.                                              *)

\* The tokens in T are deleted, and nobody renews them.
Delete(T) ==
    /\ sessions' = sessions \ T
    /\ excused' = excused \cup T

Token(c) == call[c].carried

\* A token is made, and its answer is on its way.
Issue(c, T, step) ==
    /\ last' = last + 1
    /\ sessions' = (sessions \ T) \cup {last'}
    /\ call' = [call EXCEPT ![c].issued = last']
    /\ Move(c, step)

\* An answer that is not a 401 is the end of a call, whatever it says.
Serve(c) ==
    /\ pc[c] = "request" /\ call[c].kind # "logout"
    /\ \/ Over({c})
       \/ Move(c, "401") /\ UNCHANGED call
    /\ UNCHANGED <<tab, cookie, server, history>>

\* A login deletes the sessions of its user, a signup has none to delete.
SignIn(c) ==
    /\ pc[c] = "request" /\ call[c].kind = "login"
    /\ \E T \in {{}, sessions} :
         /\ Issue(c, T, "signed")
         /\ excused' = excused \cup T
    /\ UNCHANGED <<tab, cookie, spent>>

\* The user's logout, and the one that follows a refused refresh.
ServeLogout(c) ==
    /\ pc[c] = "logout" \/ (pc[c] = "request" /\ call[c].kind = "logout")
    /\ Delete({Token(c)} \ {NoToken})
    /\ Move(c, "out")
    /\ UNCHANGED <<tab, cookie, call, last, spent>>

\* AuthService.refresh: the row is found, deleted, and a new one inserted.
RefreshFind(c) ==
    /\ pc[c] = "refresh"
    /\ Move(c, IF Token(c) \in sessions THEN "rotate" ELSE "unknown")
    /\ UNCHANGED <<tab, cookie, call, server, history>>

RefreshDelete(c) ==
    /\ pc[c] = "rotate"
    /\ sessions' = sessions \ {Token(c)}
    /\ Move(c, "insert")
    /\ UNCHANGED <<tab, cookie, call, last, history>>

RefreshInsert(c) ==
    /\ pc[c] = "insert"
    /\ Issue(c, {}, "renewed")
    /\ UNCHANGED <<tab, cookie, history>>

\* Its token stays: the throttler, an inactive user, or a query that fails.
TurnAway(c) ==
    /\ pc[c] \in {"refresh", "rotate"}
    /\ Move(c, "failed")
    /\ UNCHANGED <<tab, cookie, call, server, history>>

\* A request, or its answer, is lost, or the call times out.
Lose(c) ==
    /\ pc[c] \in {"request", "401", "signed"}
    /\ Over({c})
    /\ UNCHANGED <<tab, cookie, server, history>>

\* No new pair reaches anybody: the insert fails, or the connection does.
FailRefresh(c) ==
    /\ pc[c] \in {"refresh", "rotate", "insert", "renewed"}
    /\ Move(c, "failed")
    /\ excused' = excused \cup {Token(c)}
    /\ UNCHANGED <<tab, cookie, call, server, spent>>

\* A suspension, a login elsewhere, the end of a token's seven days, or what the
\* server does of a request that its client has given up.
Revoke ==
    /\ \E T \in SUBSET sessions : T # {} /\ Delete(T)
    /\ UNCHANGED <<tab, cookie, pc, call, last, spent>>

-----------------------------------------------------------------------------
(* The interceptor.                                                         *)

\* Mutant: every call that fails refreshes for itself.
NobodyRefreshes(t) == FALSE

SomebodyRefreshes(t) == refreshing[t]

Rejected(c) == call[c].retry \/ call[c].kind = "login"

Reject(c) ==
    /\ pc[c] = "401" /\ Rejected(c)
    /\ Over({c})
    /\ UNCHANGED <<tab, cookie, server, history>>

Enqueue(c) ==
    /\ pc[c] = "401" /\ ~Rejected(c) /\ SomebodyRefreshes(call[c].tab)
    /\ queue' = [queue EXCEPT ![call[c].tab] = @ \cup {c}]
    /\ Move(c, "queued")
    /\ UNCHANGED <<refreshing, page, cookie, call, server, history>>

Refresh(c) ==
    /\ pc[c] = "401" /\ ~Rejected(c) /\ ~SomebodyRefreshes(call[c].tab)
    /\ refreshing' = [refreshing EXCEPT ![call[c].tab] = TRUE]
    /\ call' = [call EXCEPT ![c].retry = TRUE, ![c].carried = cookie]
    /\ spent' = [spent EXCEPT ![call[c].tab] = @ \cup {cookie}]
    /\ Move(c, "refresh")
    /\ UNCHANGED <<queue, page, cookie, server, excused>>

\* Mutant: the queue is not emptied.
QueueKept(t) == queue[t]

\* failedQueue after processQueue.
QueueAfter(t) == {}

\* Mutant: the finally block is missing.
StillUp(t) == TRUE

\* isRefreshing after the finally block.
FlagAfter(t) == FALSE

\* The cookie of the answer is set, and the queue and the call itself are sent
\* again; the finally block runs before they are answered.
Renewed(c) ==
    /\ pc[c] = "renewed"
    /\ cookie' = call[c].issued
    /\ LET t == call[c].tab
           again == queue[t] \cup {c}
       IN  /\ pc' = [d \in Calls |-> IF d \in again THEN "request" ELSE pc[d]]
           /\ call' = [d \in Calls |-> IF d \in again
                          THEN [call[d] EXCEPT !.carried = NoToken, !.issued = NoToken]
                          ELSE call[d]]
           /\ queue' = [queue EXCEPT ![t] = QueueAfter(t)]
           /\ refreshing' = [refreshing EXCEPT ![t] = FlagAfter(t)]
    /\ UNCHANGED <<page, server, history>>

\* The cookie of the answer to a login, a signup or a code of Google.
SignedIn(c) ==
    /\ pc[c] = "signed"
    /\ cookie' = call[c].issued
    /\ Over({c})
    /\ UNCHANGED <<tab, server, history>>

\* Whatever the refusal says, the queue is rejected and the server is asked to
\* log out.
Refused(c) ==
    /\ pc[c] \in {"unknown", "failed"}
    /\ LET t == call[c].tab IN
         /\ pc' = [d \in Calls |-> IF d = c THEN "logout"
                                   ELSE IF d \in queue[t] THEN "settled" ELSE pc[d]]
         /\ call' = [d \in Calls |-> IF d = c THEN [call[c] EXCEPT !.carried = cookie]
                                     ELSE IF d \in queue[t] THEN NoCall ELSE call[d]]
         /\ queue' = [queue EXCEPT ![t] = QueueAfter(t)]
    /\ UNCHANGED <<refreshing, page, cookie, server, history>>

\* The cookie is cleared by an answer only, which may be lost.  After a refused
\* refresh the tab goes to /login, even if the logout was lost or throttled.
LoggedOut(c) ==
    /\ \/ pc[c] = "out" /\ cookie' \in {cookie, NoToken}
       \/ pc[c] = "logout" /\ UNCHANGED cookie
    /\ LET t == call[c].tab IN
         IF call[c].retry
         THEN /\ page' = [page EXCEPT ![t] = "leaving"]
              /\ refreshing' = [refreshing EXCEPT ![t] = FlagAfter(t)]
         ELSE UNCHANGED <<page, refreshing>>
    /\ Over({c})
    /\ UNCHANGED <<queue, server, history>>

\* The browser unloads the page some time after location.href was set, with all
\* that its interceptor and its calls wait for.
Unload(t) ==
    /\ page[t] = "leaving"
    /\ page' = [page EXCEPT ![t] = "left"]
    /\ refreshing' = [refreshing EXCEPT ![t] = FALSE]
    /\ queue' = [queue EXCEPT ![t] = {}]
    /\ Over({c \in Calls : pc[c] \in InTransit /\ call[c].tab = t})
    /\ UNCHANGED <<cookie, server, history>>

-----------------------------------------------------------------------------
Progress(c) ==
    \/ Serve(c) \/ SignIn(c) \/ ServeLogout(c)
    \/ RefreshFind(c) \/ RefreshDelete(c) \/ RefreshInsert(c)
    \/ Reject(c) \/ Enqueue(c) \/ Refresh(c) \/ Renewed(c) \/ SignedIn(c)
    \/ Refused(c) \/ LoggedOut(c)

Fault(c) == Lose(c) \/ TurnAway(c) \/ FailRefresh(c)

\* Nothing is on its way.
Quiet ==
    /\ \A c \in Calls : pc[c] \notin InTransit \ {"queued"}
    /\ UNCHANGED vars

Next ==
    \/ \E c \in Calls : Start(c) \/ Progress(c) \/ Fault(c)
    \/ \E t \in Tabs : Unload(t)
    \/ Revoke \/ Quiet

Spec == Init /\ [][Next]_vars

\* While a request, an answer or a page is on its way, something goes on: less
\* than fairness to each of them, and enough, for each makes few steps.
FairSpec ==
    /\ Spec
    /\ WF_vars((\E c \in Calls : Progress(c)) \/ (\E t \in Tabs : Unload(t)))

-----------------------------------------------------------------------------
(* Properties.                                                              *)

\* Types; the queue of a page holds exactly its calls that wait, and nobody waits
\* for the calls of a page that is left.
TypeOK ==
    /\ refreshing \in [Tabs -> BOOLEAN]
    /\ queue \in [Tabs -> SUBSET Calls]
    /\ page \in [Tabs -> {"open", "leaving", "left"}]
    /\ cookie \in Jar
    /\ pc \in [Calls -> Steps]
    /\ call \in [Calls -> {NoCall} \cup Call]
    /\ sessions \subseteq Tokens /\ last \in Tokens
    /\ spent \in [Tabs -> SUBSET Jar] /\ excused \subseteq Jar
    /\ \A c \in Calls : call[c] = NoCall <=> pc[c] \notin InTransit
    /\ \A c \in Calls : pc[c] \in InTransit => page[call[c].tab] # "left"
    /\ \A t \in Tabs : queue[t] = {c \in Calls : pc[c] = "queued" /\ call[c].tab = t}

\* The calls of one tab never make each other's token unknown.  A refresh whose
\* token the table does not have was sent without one, or its token was deleted
\* by a logout, a login, a suspension or its end, or was spent by another tab,
\* or by a refresh that failed after its deletion or was not answered.  The
\* other refusals, of a token that may still be good, are not of the client's
\* making: the throttler, an inactive user, the server or the network; all of
\* them send the tab to /login (lib/api.ts:50-88, auth.controller.ts:26).
RefusedWithCause ==
    \A c \in Calls : pc[c] = "unknown" =>
        \/ Token(c) \in excused \cup {NoToken}
        \/ \E t \in Tabs \ {call[c].tab} : Token(c) \in spent[t]

\* Every call is answered, the queued ones too, or its page is left: also the
\* calls that are queued after the queue was rejected (lib/api.ts:50-91).
EveryCallSettles ==
    \A c \in Calls : pc[c] \in InTransit ~> pc[c] \notin InTransit
=============================================================================
