-------------------------- MODULE Frontend_proofs --------------------------
(***************************************************************************)
(* Proofs about three parts of the browser: ApiClient, for every set of    *)
(* tabs and every number of calls, Onboarding, for every number of clicks  *)
(* under way, and BookmarkCache, for every set of bars and every number of *)
(* mutations and fetches.                                                  *)
(*                                                                         *)
(* A refresh finds its token unknown when it is no longer in the table;    *)
(* the inductive invariant of the client follows a token from the answer   *)
(* that brings it to the refresh that sends it, and says at every step why *)
(* the table would not have it.                                            *)
(*                                                                         *)
(* The invariant of the tour adds to its two properties what a page that   *)
(* is not mounted has forgotten, and that a tab whose flag says that the   *)
(* tour is over has no tour, unless another tab has set the flag.          *)
(*                                                                         *)
(* The invariant of the cache says of everything that may still be written *)
(* into it that it would be right: the answer of a mutation, the context a *)
(* failure puts back, the answer of a fetch.  A card is right as soon as   *)
(* no mutation works on its bar, the list as soon as none is under way.    *)
(***************************************************************************)
EXTENDS ApiClient, Onboarding, BookmarkCache, FiniteSetTheorems, TLAPS

-----------------------------------------------------------------------------
(* The client.                                                              *)

\* Why token k may be unknown to a refresh of tab t.
Cause(k, t) ==
    \/ k \in excused \cup {NoToken}
    \/ \E u \in Tabs \ {t} : k \in spent[u]

Usable(k, t) == k \in sessions \/ Cause(k, t)

Live(c) == pc[c] \in InTransit

\* The call that refreshes for its tab, until the flag is reset.
Refreshes(c) ==
    \/ pc[c] \in {"refresh", "rotate", "insert", "renewed", "unknown", "failed", "logout"}
    \/ pc[c] = "out" /\ call[c].retry

\* A tab has at most one such call, and its flag is set meanwhile.
OneRefresh ==
    \A c \in Calls : Refreshes(c) =>
        /\ refreshing[call[c].tab]
        /\ \A d \in Calls : Refreshes(d) /\ call[d].tab = call[c].tab => d = c

\* The user's logout is not retried.
LogoutsAreFirst ==
    \A c \in Calls : Live(c) /\ call[c].kind = "logout" =>
        ~call[c].retry /\ pc[c] \in {"request", "out"}

\* No token is newer than the last.
Dated ==
    /\ cookie <= last
    /\ \A c \in Calls : Live(c) => call[c].carried <= last /\ call[c].issued <= last

\* The answer on its way to c brings a token.
Brings(c) == pc[c] \in {"signed", "renewed"}

\* Nobody has a token that is still on its way.
Fresh ==
    \A c \in Calls : Brings(c) =>
        /\ call[c].issued # NoToken /\ cookie # call[c].issued
        /\ \A d \in Calls : Live(d) => call[d].carried # call[c].issued
        /\ \A d \in Calls \ {c} : Brings(d) => call[d].issued # call[c].issued

\* What a refresh sends is spent.
SpentOK ==
    \A c \in Calls : pc[c] \in {"refresh", "rotate", "insert", "renewed"} =>
        Token(c) \in spent[call[c].tab]

\* A token on its way is in the table, unless somebody has deleted it.
IssuedOK == \A c \in Calls : Brings(c) => call[c].issued \in sessions \cup excused

\* c replaces the cookie of its tab just now.
Replaces(c) == pc[c] \in {"insert", "renewed"} /\ Token(c) = cookie

\* The cookie is usable for a tab that does not replace it just now.
CookieOK ==
    \A t \in Tabs : page[t] # "left" =>
        \/ Usable(cookie, t)
        \/ \E c \in Calls : Replaces(c) /\ call[c].tab = t

SentOK == \A c \in Calls : pc[c] = "refresh" => Usable(Token(c), call[c].tab)

RefusedOK == \A c \in Calls : pc[c] = "unknown" => Cause(Token(c), call[c].tab)

IInv ==
    /\ TypeOK
    /\ OneRefresh /\ LogoutsAreFirst
    /\ Dated /\ Fresh
    /\ SpentOK /\ IssuedOK /\ CookieOK /\ SentOK /\ RefusedOK

-----------------------------------------------------------------------------
(* Facts about the calls of a state.                                        *)

\* A call is a record exactly while it is in transit.
LEMMA Typed ==
    ASSUME TypeOK, NEW c \in Calls
    PROVE  Live(c) <=> call[c] \in Call
BY NoCallIsNone DEF TypeOK, Live

\* The fields of a call in transit.
LEMMA Fields ==
    ASSUME TypeOK, NEW c \in Calls, Live(c)
    PROVE  /\ call[c] \in Call /\ call[c].tab \in Tabs
           /\ call[c].carried \in Nat /\ call[c].issued \in Nat
           /\ page[call[c].tab] # "left"
BY Typed DEF Live, TypeOK, Call, Jar, Tokens, NoToken

LEMMA StartTyped == ASSUME TypeOK, NEW c \in Calls, Start(c) PROVE TypeOK'
<1>1. PICK t \in Tabs, k \in Kinds :
        /\ page[t] # "left"
        /\ call' = [call EXCEPT ![c] = [tab |-> t, kind |-> k, retry |-> FALSE,
                                        carried |-> CookieFor(k), issued |-> NoToken]]
  BY DEF Start
<1>2. /\ call' \in [Calls -> {NoCall} \cup Call] /\ call'[c] \in Call
      /\ page[call'[c].tab] # "left"
  BY <1>1 DEF TypeOK, Call, CookieFor, Jar
<1>3. \A d \in Calls \ {c} : call'[d] = call[d]
  BY <1>1 DEF TypeOK
<1>4. pc' = [pc EXCEPT ![c] = "request"] /\ pc[c] = "idle"
  BY DEF Start, Move
<1>5. UNCHANGED <<refreshing, queue, page, cookie, sessions, last, spent, excused>>
  BY DEF Start, tab, server, history
<1>6. \A d \in Calls : /\ call'[d] = NoCall <=> pc'[d] \notin InTransit
                       /\ pc'[d] = "queued" <=> pc[d] = "queued"
                       /\ pc'[d] = "queued" => call'[d] = call[d]
                       /\ pc'[d] \in InTransit => page[call'[d].tab] # "left"
  BY <1>2, <1>3, <1>4, NoCallIsNone DEF TypeOK, InTransit
<1> QED BY <1>2, <1>4, <1>5, <1>6 DEF TypeOK, InTransit, Steps

LEMMA ServeTyped == ASSUME TypeOK, NEW c \in Calls, Serve(c) PROVE TypeOK'
BY NoCallIsNone DEF TypeOK, Serve, Over, Move, InTransit, Steps, tab, server, history

LEMMA ServeLogoutTyped == ASSUME TypeOK, NEW c \in Calls, ServeLogout(c) PROVE TypeOK'
BY NoCallIsNone, Typed DEF TypeOK, ServeLogout, Delete, Token, Jar, Call, Move,
   InTransit, Steps, tab, server, history

LEMMA FindTyped == ASSUME TypeOK, NEW c \in Calls, RefreshFind(c) PROVE TypeOK'
BY NoCallIsNone DEF TypeOK, RefreshFind, Move, InTransit, Steps, tab, server, history

LEMMA DeleteTyped == ASSUME TypeOK, NEW c \in Calls, RefreshDelete(c) PROVE TypeOK'
BY NoCallIsNone DEF TypeOK, RefreshDelete, Move, InTransit, Steps, tab, history

\* The state of a call that a token was issued to.
LEMMA IssueTyped ==
    ASSUME TypeOK, NEW c \in Calls, pc[c] \in {"request", "insert"}, NEW T,
           NEW step \in {"signed", "renewed"}, Issue(c, T, step)
    PROVE  /\ call[c] \in Call /\ last \in Nat /\ last' = last + 1 /\ last' \in Tokens
           /\ sessions' = (sessions \ T) \cup {last'} /\ sessions' \subseteq Tokens
           /\ pc' \in [Calls -> Steps] /\ pc'[c] = step
           /\ call' \in [Calls -> {NoCall} \cup Call] /\ call'[c] \in Call
           /\ call'[c].issued = last' /\ call'[c].carried = call[c].carried
           /\ call'[c].tab = call[c].tab /\ call'[c].kind = call[c].kind
           /\ call'[c].retry = call[c].retry
           /\ \A d \in Calls \ {c} : call'[d] = call[d] /\ pc'[d] = pc[d]
<1>1. call[c] \in Call
  BY Typed DEF Live, InTransit
<1>2. /\ last \in Nat /\ last' = last + 1 /\ last' \in Tokens
      /\ sessions' = (sessions \ T) \cup {last'} /\ sessions' \subseteq Tokens
  BY DEF Issue, TypeOK, Tokens, NoToken
<1>3. pc' = [pc EXCEPT ![c] = step] /\ call' = [call EXCEPT ![c].issued = last']
  BY DEF Issue, Move
<1>4. call'[c] = [call[c] EXCEPT !.issued = last'] /\ \A d \in Calls \ {c} : call'[d] = call[d]
  BY <1>3 DEF TypeOK
<1>5. /\ call'[c] \in Call /\ call'[c].issued = last' /\ call'[c].carried = call[c].carried
      /\ call'[c].tab = call[c].tab /\ call'[c].kind = call[c].kind
      /\ call'[c].retry = call[c].retry
  BY <1>1, <1>2, <1>4 DEF Call, Jar
<1>6. call' \in [Calls -> {NoCall} \cup Call]
  BY <1>3, <1>4, <1>5 DEF TypeOK
<1>7. pc' \in [Calls -> Steps] /\ pc'[c] = step /\ \A d \in Calls \ {c} : pc'[d] = pc[d]
  BY <1>3 DEF TypeOK, Steps, InTransit
<1> QED BY <1>1, <1>2, <1>4, <1>5, <1>6, <1>7

LEMMA InsertTyped == ASSUME TypeOK, NEW c \in Calls, RefreshInsert(c) PROVE TypeOK'
<1>1. pc[c] = "insert" /\ Issue(c, {}, "renewed") /\ UNCHANGED <<tab, cookie, history>>
  BY DEF RefreshInsert
<1> QED BY <1>1, IssueTyped, NoCallIsNone DEF TypeOK, InTransit, tab, history

LEMMA SignInTyped == ASSUME TypeOK, NEW c \in Calls, SignIn(c) PROVE TypeOK'
<1>1. PICK T \in {{}, sessions} : Issue(c, T, "signed") /\ excused' = excused \cup T
  BY DEF SignIn
<1>2. pc[c] = "request" /\ UNCHANGED <<tab, cookie, spent>>
  BY DEF SignIn
<1>3. excused' \subseteq Jar
  BY <1>1 DEF TypeOK, Jar
<1> QED BY <1>1, <1>2, <1>3, IssueTyped, NoCallIsNone DEF TypeOK, InTransit, tab

LEMMA SignedInTyped == ASSUME TypeOK, NEW c \in Calls, SignedIn(c) PROVE TypeOK'
<1>1. call[c] \in Call
  BY Typed DEF SignedIn, Live, InTransit
<1> QED BY <1>1, NoCallIsNone DEF TypeOK, SignedIn, Over, Call, InTransit, Steps, tab,
           server, history

LEMMA TurnAwayTyped == ASSUME TypeOK, NEW c \in Calls, TurnAway(c) PROVE TypeOK'
BY NoCallIsNone DEF TypeOK, TurnAway, Move, InTransit, Steps, tab, server, history

LEMMA LoseTyped == ASSUME TypeOK, NEW c \in Calls, Lose(c) PROVE TypeOK'
BY NoCallIsNone DEF TypeOK, Lose, Over, Move, InTransit, Steps, tab, server, history

LEMMA FailRefreshTyped == ASSUME TypeOK, NEW c \in Calls, FailRefresh(c) PROVE TypeOK'
BY NoCallIsNone, Typed DEF Live, TypeOK, FailRefresh, Token, Call, Move, InTransit,
   Steps, tab, server, history

LEMMA RevokeTyped == ASSUME TypeOK, Revoke PROVE TypeOK'
BY NoCallIsNone DEF TypeOK, Revoke, Delete, Jar, tab, server, history

LEMMA RejectTyped == ASSUME TypeOK, NEW c \in Calls, Reject(c) PROVE TypeOK'
BY NoCallIsNone DEF TypeOK, Reject, Over, Move, InTransit, Steps, tab, server, history

LEMMA EnqueueTyped == ASSUME TypeOK, NEW c \in Calls, Enqueue(c) PROVE TypeOK'
BY NoCallIsNone, Typed DEF Live, TypeOK, Enqueue, Call, Move, InTransit,
   Steps, tab, server, history

LEMMA RefreshTyped == ASSUME TypeOK, NEW c \in Calls, Refresh(c) PROVE TypeOK'
<1>1. call[c] \in Call
  BY Typed DEF Refresh, Live, InTransit
<1>2. call' = [call EXCEPT ![c] = [call[c] EXCEPT !.retry = TRUE, !.carried = cookie]]
  BY DEF Refresh
<1>3. /\ call' \in [Calls -> {NoCall} \cup Call] /\ call'[c] \in Call
      /\ \A d \in Calls : call'[d] # NoCall => call'[d].tab = call[d].tab
  BY <1>1, <1>2 DEF TypeOK, Call
<1>4. \A d \in Calls \ {c} : call'[d] = call[d]
  BY <1>2 DEF TypeOK
<1>5. pc' = [pc EXCEPT ![c] = "refresh"] /\ pc[c] = "401"
  BY DEF Refresh, Move
<1>6. refreshing' \in [Tabs -> BOOLEAN] /\ spent' \in [Tabs -> SUBSET Jar]
  BY <1>1 DEF Refresh, TypeOK, Call
<1> QED BY <1>1, <1>3, <1>4, <1>5, <1>6, NoCallIsNone DEF TypeOK, Refresh, InTransit,
           Steps, server
\* An answer with a new pair sends the call and the queue again, with the new token.
LEMMA RenewedCalls ==
    ASSUME TypeOK, NEW c \in Calls, Renewed(c)
    PROVE  LET again == queue[call[c].tab] \cup {c} IN
           /\ call[c] \in Call /\ call[c].tab \in Tabs /\ cookie' \in Jar
           /\ \A d \in again : /\ d \in Calls /\ call[d] \in Call /\ call'[d] \in Call
                               /\ pc[d] \in {"queued", "renewed"} /\ pc'[d] = "request"
                               /\ call[d].tab = call[c].tab /\ call'[d].tab = call[d].tab
                               /\ call'[d].kind = call[d].kind /\ call'[d].retry = call[d].retry
                               /\ call'[d].carried = NoToken /\ call'[d].issued = NoToken
           /\ \A d \in Calls \ again : call'[d] = call[d] /\ pc'[d] = pc[d]
<1> DEFINE t == call[c].tab
           again == queue[t] \cup {c}
<1>1. call[c] \in Call /\ t \in Tabs /\ cookie' \in Jar
  BY Typed DEF Renewed, Live, InTransit, Call
<1>2. \A d \in again : d \in Calls /\ call[d] \in Call /\ pc[d] \in {"queued", "renewed"} /\ call[d].tab = t
  <2>1. pc[c] = "renewed"
    BY DEF Renewed
  <2>2. queue[t] = {d \in Calls : pc[d] = "queued" /\ call[d].tab = t}
    BY <1>1, <2>1 DEF TypeOK
  <2>3. \A d \in queue[t] : d \in Calls /\ pc[d] = "queued" /\ call[d].tab = t
    BY <2>2
  <2>4. \A d \in queue[t] : call[d] \in Call
    BY <2>3, Typed DEF Live, InTransit
  <2> QED BY <1>1, <2>1, <2>3, <2>4
<1>3. /\ pc' = [d \in Calls |-> IF d \in again THEN "request" ELSE pc[d]]
      /\ call' = [d \in Calls |-> IF d \in again
                      THEN [call[d] EXCEPT !.carried = NoToken, !.issued = NoToken]
                      ELSE call[d]]
  BY DEF Renewed
<1>4. \A d \in again :
         /\ call'[d] \in Call /\ pc'[d] = "request" /\ call'[d].tab = call[d].tab
         /\ call'[d].kind = call[d].kind /\ call'[d].retry = call[d].retry
         /\ call'[d].carried = NoToken /\ call'[d].issued = NoToken
  <2> TAKE d \in again
  <2>1. call'[d] = [call[d] EXCEPT !.carried = NoToken, !.issued = NoToken] /\ pc'[d] = "request"
    BY <1>2, <1>3
  <2> QED BY <2>1, <1>1, <1>2 DEF Call, Jar
<1>5. \A d \in Calls \ again : call'[d] = call[d] /\ pc'[d] = pc[d]
  BY <1>3
<1> QED BY <1>1, <1>2, <1>4, <1>5

LEMMA RenewedTyped == ASSUME TypeOK, NEW c \in Calls, Renewed(c) PROVE TypeOK'
<1> DEFINE t == call[c].tab
           again == queue[t] \cup {c}
<1>1. call[c] \in Call /\ t \in Tabs /\ cookie' \in Jar
  BY RenewedCalls
<1>2. \A d \in again : d \in Calls /\ call[d] \in Call /\ pc[d] \in {"queued", "renewed"} /\ call[d].tab = t
  BY RenewedCalls
<1>3. DOMAIN call' = Calls /\ DOMAIN pc' = Calls /\ call' = [d \in Calls |-> call'[d]] /\ pc' = [d \in Calls |-> pc'[d]]
  BY DEF Renewed
<1>4. \A d \in again : call'[d] \in Call /\ call'[d].tab = call[d].tab /\ pc'[d] = "request"
  BY RenewedCalls
<1>5. \A d \in Calls \ again : call'[d] = call[d] /\ pc'[d] = pc[d]
  BY RenewedCalls
<1>6. /\ call' \in [Calls -> {NoCall} \cup Call] /\ pc' \in [Calls -> Steps]
      /\ \A d \in Calls : call'[d] = NoCall <=> pc'[d] \notin InTransit
  BY <1>2, <1>3, <1>4, <1>5, NoCallIsNone DEF TypeOK, InTransit, Steps
<1>7. \A u \in Tabs :
         queue'[u] = {d \in Calls : pc'[d] = "queued" /\ call'[d].tab = u}
  <2> SUFFICES ASSUME NEW u \in Tabs
               PROVE  queue'[u] = {d \in Calls : pc'[d] = "queued" /\ call'[d].tab = u}
    BY DEF Renewed
  <2>1. queue' = [queue EXCEPT ![t] = {}] /\ queue \in [Tabs -> SUBSET Calls]
    BY DEF Renewed, QueueAfter, TypeOK
  <2>2. queue[u] = {d \in Calls : pc[d] = "queued" /\ call[d].tab = u}
    BY DEF TypeOK
  <2>3. CASE u = t
    <3>1. \A d \in Calls : ~(pc'[d] = "queued" /\ call'[d].tab = u)
      BY <2>2, <2>3, <1>4, <1>5
    <3> QED BY <3>1, <2>1, <2>3, <1>1
  <2>4. CASE u # t
    <3>1. \A d \in Calls : /\ d \in queue[u] => d \notin again
                           /\ d \in again => ~(pc'[d] = "queued")
      BY <2>2, <2>4, <1>2, <1>4
    <3>2. \A d \in Calls : (pc'[d] = "queued" /\ call'[d].tab = u) <=> d \in queue[u]
      BY <3>1, <2>2, <1>5
    <3>3. queue'[u] = queue[u] /\ queue[u] \subseteq Calls
      BY <2>1, <2>4
    <3> QED BY <3>2, <3>3
  <2> QED BY <2>3, <2>4
<1>8. \A d \in Calls : pc'[d] \in InTransit => page[call'[d].tab] # "left"
  BY <1>2, <1>4, <1>5 DEF TypeOK, InTransit
<1> QED BY <1>1, <1>6, <1>7, <1>8 DEF TypeOK, Renewed, QueueAfter, FlagAfter, server, history

LEMMA RefusedTyped == ASSUME TypeOK, NEW c \in Calls, Refused(c) PROVE TypeOK'
BY NoCallIsNone, Typed DEF Live, TypeOK, Refused, Call, Move, InTransit,
   Steps, tab, server, history, QueueAfter, FlagAfter, Jar

LEMMA LoggedOutTyped == ASSUME TypeOK, NEW c \in Calls, LoggedOut(c) PROVE TypeOK'
<1>1. call[c] \in Call /\ call[c].tab \in Tabs /\ page[call[c].tab] # "left"
  BY Fields DEF LoggedOut, Live, InTransit
<1>2. /\ refreshing' \in [Tabs -> BOOLEAN] /\ page' \in [Tabs -> {"open", "leaving", "left"}]
      /\ \A t \in Tabs : page'[t] = "left" <=> page[t] = "left"
  BY <1>1 DEF LoggedOut, TypeOK, FlagAfter, Over
<1>3. cookie' \in Jar
  BY DEF LoggedOut, TypeOK, Jar
<1>4. Over({c}) /\ pc[c] # "queued" /\ UNCHANGED <<queue, server, history>>
  BY DEF LoggedOut
<1>5. \A d \in Calls : pc'[d] \in InTransit => page'[call'[d].tab] # "left"
  BY <1>2, <1>4, Fields DEF TypeOK, Live, Over, InTransit
<1> QED BY <1>1, <1>2, <1>3, <1>4, <1>5, NoCallIsNone DEF TypeOK, Over, InTransit, Steps,
           server, history

LEMMA UnloadTyped == ASSUME TypeOK, NEW t \in Tabs, Unload(t) PROVE TypeOK'
BY NoCallIsNone DEF TypeOK, Unload, Over, InTransit, Steps, server, history

-----------------------------------------------------------------------------
(* Every step keeps the invariant.                                          *)

\* Calls that are answered, given up or queued disturb nothing.
LEMMA FewerCalls ==
    ASSUME IInv, TypeOK', UNCHANGED <<cookie, sessions, last, spent, excused>>,
           \A t \in Tabs : page[t] = "left" => page'[t] = "left",
           \A d \in Calls : pc'[d] \in InTransit =>
              refreshing'[call[d].tab] = refreshing[call[d].tab],
           \A d \in Calls :
              \/ /\ call'[d] = call[d]
                 /\ \/ pc'[d] = pc[d]
                    \/ /\ pc[d] \in {"request", "401"} /\ pc'[d] \in {"401", "queued"}
                       /\ call[d].kind # "logout"
              \/ pc'[d] \notin InTransit /\ (pc[d] \in {"insert", "renewed"} => page'[call[d].tab] = "left")
    PROVE  IInv'
<1>1. OneRefresh'
  BY DEF IInv, OneRefresh, Refreshes, Live, InTransit
<1>2. LogoutsAreFirst'
  BY DEF IInv, LogoutsAreFirst, Live, InTransit
<1>3. Dated'
  BY DEF IInv, Dated, Live, InTransit
<1>4. Fresh'
  BY DEF IInv, Fresh, Brings, Live, InTransit
<1>5. SpentOK'
  BY DEF IInv, SpentOK, Token, Live, InTransit
<1>6. IssuedOK'
  BY DEF IInv, IssuedOK, Brings, Live, InTransit
<1>7. CookieOK'
  BY DEF IInv, CookieOK, Replaces, Usable, Cause, Token, Live, InTransit
<1>8. SentOK'
  BY DEF IInv, SentOK, Usable, Cause, Token, Live, InTransit
<1>9. RefusedOK'
  BY DEF IInv, RefusedOK, Cause, Token, Live, InTransit
<1> QED BY <1>1, <1>2, <1>3, <1>4, <1>5, <1>6, <1>7, <1>8, <1>9 DEF IInv

LEMMA ServeStep == ASSUME IInv, NEW c \in Calls, Serve(c) PROVE IInv'
<1>1. TypeOK /\ TypeOK'
  BY ServeTyped DEF IInv
<1>2. \A d \in Calls :
         \/ /\ call'[d] = call[d]
            /\ \/ pc'[d] = pc[d]
               \/ /\ pc[d] \in {"request", "401"} /\ pc'[d] \in {"401", "queued"}
                  /\ call[d].kind # "logout"
         \/ pc'[d] \notin InTransit /\ (pc[d] \in {"insert", "renewed"} => page'[call[d].tab] = "left")
  BY <1>1 DEF Serve, Over, Move, IInv, LogoutsAreFirst, Live, InTransit, TypeOK
<1>3. UNCHANGED <<cookie, sessions, last, spent, excused, refreshing, page>>
  BY DEF Serve, tab, server, history
<1> QED BY <1>1, <1>2, <1>3, FewerCalls

LEMMA LoseStep == ASSUME IInv, NEW c \in Calls, Lose(c) PROVE IInv'
<1>1. TypeOK /\ TypeOK'
  BY LoseTyped DEF IInv
<1>2. \A d \in Calls :
         \/ /\ call'[d] = call[d]
            /\ \/ pc'[d] = pc[d]
               \/ /\ pc[d] \in {"request", "401"} /\ pc'[d] \in {"401", "queued"}
                  /\ call[d].kind # "logout"
         \/ pc'[d] \notin InTransit /\ (pc[d] \in {"insert", "renewed"} => page'[call[d].tab] = "left")
  BY <1>1 DEF Lose, Over, IInv, LogoutsAreFirst, Live, InTransit, TypeOK
<1>3. UNCHANGED <<cookie, sessions, last, spent, excused, refreshing, page>>
  BY DEF Lose, tab, server, history
<1> QED BY <1>1, <1>2, <1>3, FewerCalls

LEMMA RejectStep == ASSUME IInv, NEW c \in Calls, Reject(c) PROVE IInv'
<1>1. TypeOK /\ TypeOK'
  BY RejectTyped DEF IInv
<1>2. \A d \in Calls :
         \/ /\ call'[d] = call[d]
            /\ \/ pc'[d] = pc[d]
               \/ /\ pc[d] \in {"request", "401"} /\ pc'[d] \in {"401", "queued"}
                  /\ call[d].kind # "logout"
         \/ pc'[d] \notin InTransit /\ (pc[d] \in {"insert", "renewed"} => page'[call[d].tab] = "left")
  BY <1>1 DEF Reject, Over, IInv, LogoutsAreFirst, Live, InTransit, TypeOK
<1>3. UNCHANGED <<cookie, sessions, last, spent, excused, refreshing, page>>
  BY DEF Reject, tab, server, history
<1> QED BY <1>1, <1>2, <1>3, FewerCalls

LEMMA EnqueueStep == ASSUME IInv, NEW c \in Calls, Enqueue(c) PROVE IInv'
<1>1. TypeOK /\ TypeOK'
  BY EnqueueTyped DEF IInv
<1>2. \A d \in Calls :
         \/ /\ call'[d] = call[d]
            /\ \/ pc'[d] = pc[d]
               \/ /\ pc[d] \in {"request", "401"} /\ pc'[d] \in {"401", "queued"}
                  /\ call[d].kind # "logout"
         \/ pc'[d] \notin InTransit /\ (pc[d] \in {"insert", "renewed"} => page'[call[d].tab] = "left")
  BY <1>1 DEF Enqueue, Move, Rejected, IInv, LogoutsAreFirst, Live, InTransit, TypeOK
<1>3. UNCHANGED <<cookie, sessions, last, spent, excused, refreshing, page>>
  BY DEF Enqueue, tab, server, history
<1> QED BY <1>1, <1>2, <1>3, FewerCalls

LEMMA TurnAwayStep == ASSUME IInv, NEW c \in Calls, TurnAway(c) PROVE IInv'
<1>1. TypeOK /\ TypeOK'
  BY TurnAwayTyped DEF IInv
<1>2. /\ pc[c] \in {"refresh", "rotate"} /\ pc'[c] = "failed"
      /\ \A d \in Calls \ {c} : pc'[d] = pc[d]
      /\ UNCHANGED <<refreshing, queue, page, cookie, call, sessions, last, spent, excused>>
  BY <1>1 DEF TurnAway, Move, TypeOK, tab, server, history
<1> QED BY <1>1, <1>2 DEF IInv, OneRefresh, Refreshes, LogoutsAreFirst, Dated, Fresh, Brings,
           SpentOK, IssuedOK, CookieOK, Replaces, Usable, Cause, SentOK, RefusedOK, Token,
           Live, InTransit

LEMMA UnloadStep == ASSUME IInv, NEW t \in Tabs, Unload(t) PROVE IInv'
<1>1. TypeOK /\ TypeOK'
  BY UnloadTyped DEF IInv
<1>2. UNCHANGED <<cookie, sessions, last, spent, excused>>
  BY DEF Unload, server, history
<1>3. \A u \in Tabs : page[u] = "left" => page'[u] = "left"
  BY <1>1 DEF Unload, TypeOK
<1>4. \A d \in Calls :
         \/ /\ call'[d] = call[d] /\ pc'[d] = pc[d]
            /\ pc'[d] \in InTransit => refreshing'[call[d].tab] = refreshing[call[d].tab]
         \/ pc'[d] \notin InTransit /\ page'[call[d].tab] = "left"
  <2> SUFFICES ASSUME NEW d \in Calls
               PROVE  \/ /\ call'[d] = call[d] /\ pc'[d] = pc[d]
                         /\ pc'[d] \in InTransit => refreshing'[call[d].tab] = refreshing[call[d].tab]
                      \/ pc'[d] \notin InTransit /\ page'[call[d].tab] = "left"
    OBVIOUS
  <2>1. CASE Live(d) /\ call[d].tab = t
    BY <2>1, <1>1 DEF Unload, Over, Live, TypeOK, InTransit
  <2>2. CASE ~(Live(d) /\ call[d].tab = t)
    <3>1. call'[d] = call[d] /\ pc'[d] = pc[d]
      BY <2>2 DEF Unload, Over, Live
    <3>2. Live(d) => refreshing'[call[d].tab] = refreshing[call[d].tab]
      BY <2>2, <1>1, Fields DEF Unload, TypeOK
    <3> QED BY <3>1, <3>2 DEF Live
  <2> QED BY <2>1, <2>2
<1> QED BY <1>1, <1>2, <1>3, <1>4, FewerCalls

LEMMA StutterStep == ASSUME IInv, UNCHANGED vars PROVE IInv'
<1>1. TypeOK'
  BY DEF IInv, TypeOK, vars, tab, server, history
<1> QED BY <1>1, FewerCalls DEF vars, tab, server, history

LEMMA StartStep == ASSUME IInv, NEW c \in Calls, Start(c) PROVE IInv'
<1>1. TypeOK /\ TypeOK'
  BY StartTyped DEF IInv
<1>a. /\ call'[c].carried \in {cookie, 0} /\ call'[c].issued = 0 /\ call'[c].retry = FALSE
      /\ pc'[c] = "request"
      /\ \A d \in Calls \ {c} : call'[d] = call[d] /\ pc'[d] = pc[d]
  BY <1>1 DEF Start, CookieFor, Move, TypeOK, NoToken
<1>b. UNCHANGED <<refreshing, queue, page, cookie, sessions, last, spent, excused>>
  BY DEF Start, tab, server, history
<1>2. OneRefresh'
  BY <1>1, Typed DEF Start, Move, tab, server, history, IInv, OneRefresh, Refreshes,
     TypeOK, Live, InTransit
<1>3. LogoutsAreFirst'
  BY <1>1, Typed DEF Start, Move, tab, server, history, IInv, LogoutsAreFirst, TypeOK,
     Live, InTransit
<1>4. Dated'
  BY <1>1, <1>a, <1>b DEF IInv, Dated, Live, TypeOK, Tokens, Jar, NoToken
<1>5. Fresh'
  BY <1>a, <1>b DEF IInv, Fresh, Brings, Live, InTransit, NoToken
<1>6. SpentOK'
  BY <1>1, Typed DEF Start, Move, tab, server, history, IInv, SpentOK, Token, TypeOK,
     Live, InTransit
<1>7. IssuedOK'
  BY <1>1, Typed DEF Start, Move, tab, server, history, IInv, IssuedOK, Brings, TypeOK, Live,
     InTransit
<1>8. CookieOK'
  BY <1>1, Typed DEF Start, Move, tab, server, history, IInv, CookieOK, Replaces, Usable, Cause,
     Token, TypeOK, Live, InTransit
<1>9. SentOK'
  BY <1>1, Typed DEF Start, Move, tab, server, history, IInv, SentOK, Usable, Cause,
     Token, TypeOK, Live, InTransit
<1>10. RefusedOK'
  BY <1>1, Typed DEF Start, Move, tab, server, history, IInv, RefusedOK, Cause, Token,
     TypeOK, Live, InTransit
<1> QED BY <1>1, <1>2, <1>3, <1>4, <1>5, <1>6, <1>7, <1>8, <1>9, <1>10 DEF IInv

LEMMA ServeLogoutStep == ASSUME IInv, NEW c \in Calls, ServeLogout(c) PROVE IInv'
<1>1. TypeOK /\ TypeOK'
  BY ServeLogoutTyped DEF IInv
<1>2. OneRefresh'
  BY <1>1 DEF ServeLogout, Move, tab, IInv, OneRefresh, LogoutsAreFirst, Refreshes,
     TypeOK, Live, InTransit
<1>3. LogoutsAreFirst'
  BY <1>1, Typed DEF ServeLogout, Delete, Move, tab, history, IInv, LogoutsAreFirst,
     TypeOK, Live, InTransit
<1>4. Dated'
  BY <1>1, Typed DEF ServeLogout, Delete, Move, tab, history, IInv, Dated, TypeOK,
     Live, InTransit
<1>5. Fresh'
  BY <1>1, Typed DEF ServeLogout, Delete, Move, tab, history, IInv, Fresh, Brings, TypeOK,
     Live, InTransit
<1>6. SpentOK'
  BY <1>1, Typed DEF ServeLogout, Delete, Move, tab, history, IInv, SpentOK, Token,
     TypeOK, Live, InTransit
<1>7. IssuedOK'
  BY <1>1, Typed DEF ServeLogout, Delete, Move, tab, history, IInv, IssuedOK, Brings, TypeOK,
     Live, InTransit
<1>8. CookieOK'
  BY <1>1, Typed DEF ServeLogout, Delete, Move, tab, history, IInv, CookieOK, Replaces, Usable,
     Cause, Token, TypeOK, Live, InTransit
<1>9. SentOK'
  BY <1>1, Typed DEF ServeLogout, Delete, Move, tab, history, IInv, SentOK, Usable,
     Cause, Token, TypeOK, Live, InTransit
<1>10. RefusedOK'
  BY <1>1, Typed DEF ServeLogout, Delete, Move, tab, history, IInv, RefusedOK, Cause,
     Token, TypeOK, Live, InTransit
<1> QED BY <1>1, <1>2, <1>3, <1>4, <1>5, <1>6, <1>7, <1>8, <1>9, <1>10 DEF IInv

LEMMA RefreshFindStep == ASSUME IInv, NEW c \in Calls, RefreshFind(c) PROVE IInv'
<1>1. TypeOK /\ TypeOK'
  BY FindTyped DEF IInv
<1>2. OneRefresh'
  BY <1>1, Typed DEF RefreshFind, Move, tab, server, history, IInv, OneRefresh,
     Refreshes, TypeOK, Live, InTransit
<1>3. LogoutsAreFirst'
  BY <1>1, Typed DEF RefreshFind, Move, tab, server, history, IInv, LogoutsAreFirst,
     TypeOK, Live, InTransit
<1>4. Dated'
  BY <1>1, Typed DEF RefreshFind, Move, tab, server, history, IInv, Dated, TypeOK,
     Live, InTransit
<1>5. Fresh'
  BY <1>1, Typed DEF RefreshFind, Move, tab, server, history, IInv, Fresh, Brings, TypeOK,
     Live, InTransit
<1>6. SpentOK'
  BY <1>1, Typed DEF RefreshFind, Move, tab, server, history, IInv, SpentOK, Token,
     TypeOK, Live, InTransit
<1>7. IssuedOK'
  BY <1>1, Typed DEF RefreshFind, Move, tab, server, history, IInv, IssuedOK, Brings, TypeOK,
     Live, InTransit
<1>8. CookieOK'
  BY <1>1, Typed DEF RefreshFind, Move, tab, server, history, IInv, CookieOK, Replaces, Usable,
     Cause, Token, TypeOK, Live, InTransit
<1>9. SentOK'
  BY <1>1, Typed DEF RefreshFind, Move, tab, server, history, IInv, SentOK, Usable,
     Cause, Token, TypeOK, Live, InTransit
<1>10. RefusedOK'
  BY <1>1 DEF RefreshFind, Move, tab, server, history, IInv, SentOK, RefusedOK, Usable,
     Cause, Token, TypeOK
<1> QED BY <1>1, <1>2, <1>3, <1>4, <1>5, <1>6, <1>7, <1>8, <1>9, <1>10 DEF IInv

LEMMA RefreshDeleteStep == ASSUME IInv, NEW c \in Calls, RefreshDelete(c) PROVE IInv'
<1>1. TypeOK /\ TypeOK'
  BY DeleteTyped DEF IInv
<1>a. /\ pc[c] = "rotate" /\ pc'[c] = "insert"
      /\ sessions' = sessions \ {Token(c)}
      /\ \A d \in Calls \ {c} : pc'[d] = pc[d]
      /\ UNCHANGED <<refreshing, queue, page, cookie, call, last, spent, excused>>
  BY <1>1 DEF RefreshDelete, Move, TypeOK, tab, history
<1>b. Token(c) \in spent[call[c].tab] /\ call[c].tab \in Tabs
  BY <1>1, <1>a, Fields DEF IInv, SpentOK, Live, InTransit
<1>2. OneRefresh' /\ LogoutsAreFirst' /\ Dated' /\ Fresh' /\ SpentOK' /\ RefusedOK'
  BY <1>a DEF IInv, OneRefresh, Refreshes, LogoutsAreFirst, Dated, Fresh, Brings, SpentOK,
     RefusedOK, Cause, Token, Live, InTransit
<1>3. IssuedOK'
  <2>1. \A d \in Calls : Brings(d) => call[d].issued # Token(c)
    BY <1>a DEF IInv, Fresh, Brings, Token, Live, InTransit
  <2> QED BY <1>a, <2>1 DEF IInv, IssuedOK, Brings
\* Whoever else could use the token has now a cause.
<1>4. \A k, t : Usable(k, t) /\ (t # call[c].tab \/ k # Token(c)) => Usable(k, t)'
  BY <1>a, <1>b DEF Usable, Cause
<1>5. CookieOK'
  <2> SUFFICES ASSUME NEW t \in Tabs, page[t] # "left"
               PROVE  Usable(cookie, t)' \/ \E d \in Calls : Replaces(d)' /\ call[d].tab = t
    BY <1>a DEF CookieOK
  <2>1. CASE \E d \in Calls : Replaces(d) /\ call[d].tab = t
    BY <2>1, <1>a DEF Replaces, Token
  <2>2. CASE Usable(cookie, t) /\ (t # call[c].tab \/ cookie # Token(c))
    BY <2>2, <1>4, <1>a DEF Usable, Cause
  <2>3. CASE t = call[c].tab /\ cookie = Token(c)
    BY <2>3, <1>a DEF Replaces, Token
  <2> QED BY <2>1, <2>2, <2>3 DEF IInv, CookieOK
<1>6. SentOK'
  <2> SUFFICES ASSUME NEW d \in Calls, pc[d] = "refresh", d # c
               PROVE  Usable(Token(d), call[d].tab)'
    BY <1>a DEF SentOK, Token
  <2>1. call[d].tab # call[c].tab
    BY <1>a DEF IInv, OneRefresh, Refreshes
  <2>2. Usable(Token(d), call[d].tab)
    BY DEF IInv, SentOK
  <2> QED BY <2>1, <2>2, <1>a, <1>b DEF Usable, Cause, Token
<1> QED BY <1>1, <1>2, <1>3, <1>5, <1>6 DEF IInv

\* A new token is on its way to c, in the place of those of T.
LEMMA Issued ==
    ASSUME IInv, TypeOK', NEW c \in Calls, pc[c] \in {"request", "insert"}, NEW T,
           NEW step \in {"signed", "renewed"}, Issue(c, T, step),
           call[c].kind # "logout", pc[c] = "insert" <=> step = "renewed",
           UNCHANGED <<refreshing, queue, page, cookie, spent>>, excused' = excused \cup T
    PROVE  IInv'
<1>1. TypeOK
  BY DEF IInv
<1>a. /\ call[c] \in Call /\ last \in Nat /\ last' = last + 1
      /\ sessions' = (sessions \ T) \cup {last'}
      /\ pc'[c] = step
      /\ call'[c].issued = last' /\ call'[c].carried = call[c].carried
      /\ call'[c].tab = call[c].tab /\ call'[c].kind = call[c].kind
      /\ call'[c].retry = call[c].retry
      /\ \A d \in Calls \ {c} : call'[d] = call[d] /\ pc'[d] = pc[d]
  BY <1>1, IssueTyped
<1>b. \A d \in Calls : Live(d) =>
         /\ call[d].carried \in Nat /\ call[d].issued \in Nat
         /\ call[d].carried <= last /\ call[d].issued <= last
  BY <1>1, Fields DEF IInv, Dated
<1>c. cookie <= last /\ cookie \in Nat
  BY <1>1 DEF IInv, Dated, TypeOK, Jar, Tokens, NoToken
<1>d. \A d \in Calls : (Live(d)' <=> Live(d))
  BY <1>a DEF Live, InTransit
<1>e. \A d \in Calls : Token(d)' = Token(d) /\ call'[d].tab = call[d].tab
  BY <1>a DEF Token
<1>f. \A k, t : (Cause(k, t) => Cause(k, t)') /\ (Usable(k, t) => Usable(k, t)')
  BY <1>a DEF Usable, Cause
<1>2. OneRefresh'
  <2>1. \A d \in Calls : Refreshes(d)' => Refreshes(d)
    BY <1>a DEF Refreshes
  <2> QED BY <2>1, <1>e DEF IInv, OneRefresh
<1>3. LogoutsAreFirst'
  BY <1>a, <1>d DEF IInv, LogoutsAreFirst
<1>4. Dated'
  <2> SUFFICES ASSUME NEW d \in Calls, Live(d)
               PROVE  call'[d].carried <= last' /\ call'[d].issued <= last'
    BY <1>a, <1>c, <1>d DEF Dated
  <2> QED BY <1>a, <1>b
<1>5. Fresh'
  <2>1. \A d \in Calls \ {c} : Brings(d)' => call'[d].issued # last'
    BY <1>a, <1>b DEF Brings, Live, InTransit
  <2>2. \A d \in Calls : Live(d)' => call'[d].carried # last'
    BY <1>a, <1>b, <1>d, <1>e DEF Token
  <2>3. cookie' # last' /\ last' # NoToken
    BY <1>a, <1>c DEF NoToken
  <2>4. \A e \in Calls \ {c} : Brings(e)' =>
           /\ call'[e].issued # NoToken /\ cookie' # call'[e].issued
           /\ \A d \in Calls : Live(d)' => call'[d].carried # call'[e].issued
           /\ \A d \in Calls \ {e} : Brings(d)' => call'[d].issued # call'[e].issued
    BY <1>a, <1>d, <2>1 DEF IInv, Fresh, Brings
  <2> QED BY <1>a, <2>1, <2>2, <2>3, <2>4 DEF Fresh
<1>6. SpentOK'
  BY <1>a, <1>e DEF IInv, SpentOK
<1>7. IssuedOK'
  BY <1>a DEF IInv, IssuedOK, Brings
<1>8. CookieOK'
  <2>1. \A d \in Calls : Replaces(d) => Replaces(d)'
    BY <1>a, <1>e DEF Replaces
  <2> QED BY <2>1, <1>e, <1>f DEF IInv, CookieOK, Usable, Cause
<1>9. SentOK' /\ RefusedOK'
  <2>1. \A d \in Calls : pc'[d] \in {"refresh", "unknown"} => pc'[d] = pc[d]
    BY <1>a
  <2> QED BY <2>1, <1>a, <1>e DEF IInv, SentOK, RefusedOK, Usable, Cause
<1> QED BY <1>2, <1>3, <1>4, <1>5, <1>6, <1>7, <1>8, <1>9 DEF IInv

LEMMA RefreshInsertStep == ASSUME IInv, NEW c \in Calls, RefreshInsert(c) PROVE IInv'
<1>1. /\ TypeOK' /\ pc[c] = "insert" /\ Issue(c, {}, "renewed")
      /\ UNCHANGED <<refreshing, queue, page, cookie, spent>> /\ excused' = excused \cup {}
  BY InsertTyped DEF IInv, RefreshInsert, tab, history
<1>2. call[c].kind # "logout"
  BY <1>1 DEF IInv, LogoutsAreFirst, Live, InTransit
<1> QED BY <1>1, <1>2, Issued

LEMMA SignInStep == ASSUME IInv, NEW c \in Calls, SignIn(c) PROVE IInv'
<1>1. PICK T \in {{}, sessions} : Issue(c, T, "signed") /\ excused' = excused \cup T
  BY DEF SignIn
<1>2. /\ TypeOK' /\ pc[c] = "request" /\ call[c].kind = "login"
      /\ UNCHANGED <<refreshing, queue, page, cookie, spent>>
  BY SignInTyped DEF IInv, SignIn, tab
<1> QED BY <1>1, <1>2, Issued

LEMMA SignedInStep == ASSUME IInv, NEW c \in Calls, SignedIn(c) PROVE IInv'
<1>1. TypeOK /\ TypeOK'
  BY SignedInTyped DEF IInv
<1>a. /\ pc[c] = "signed" /\ cookie' = call[c].issued /\ pc'[c] = "settled"
      /\ \A d \in Calls \ {c} : call'[d] = call[d] /\ pc'[d] = pc[d]
      /\ UNCHANGED <<refreshing, queue, page, sessions, last, spent, excused>>
  BY DEF SignedIn, Over, tab, server, history
<1>b. \A d \in Calls : Live(d)' => d # c /\ Live(d) /\ call'[d] = call[d] /\ pc'[d] = pc[d]
  BY <1>a DEF Live, InTransit
<1>c. \A d \in Calls : /\ Refreshes(d)' => d # c /\ Refreshes(d)
                       /\ Brings(d)' => d # c /\ Brings(d)
  BY <1>a DEF Refreshes, Brings
<1>2. OneRefresh' /\ LogoutsAreFirst' /\ SpentOK' /\ SentOK' /\ RefusedOK'
  BY <1>a, <1>b, <1>c DEF IInv, OneRefresh, LogoutsAreFirst, SpentOK, SentOK, RefusedOK,
     Usable, Cause, Token
<1>3. Dated'
  BY <1>a, <1>b DEF IInv, Dated, Live, InTransit
<1>4. Fresh'
  <2>1. \A d \in Calls : Brings(d)' => cookie' # call[d].issued
    BY <1>a, <1>c DEF IInv, Fresh, Brings
  <2> QED BY <2>1, <1>a, <1>b, <1>c DEF IInv, Fresh
<1>5. IssuedOK'
  BY <1>a, <1>c DEF IInv, IssuedOK
<1>6. CookieOK'
  BY <1>a DEF IInv, IssuedOK, Brings, CookieOK, Usable, Cause
<1> QED BY <1>1, <1>2, <1>3, <1>4, <1>5, <1>6 DEF IInv

LEMMA FailRefreshStep == ASSUME IInv, NEW c \in Calls, FailRefresh(c) PROVE IInv'
<1>1. TypeOK /\ TypeOK'
  BY FailRefreshTyped DEF IInv
<1>2. OneRefresh'
  BY <1>1, Typed DEF FailRefresh, Move, tab, server, IInv, OneRefresh, Refreshes,
     TypeOK, Live, InTransit
<1>3. LogoutsAreFirst'
  BY <1>1, Typed DEF FailRefresh, Move, tab, server, IInv, LogoutsAreFirst, TypeOK,
     Live, InTransit
<1>4. Dated'
  BY <1>1, Typed DEF FailRefresh, Move, tab, server, IInv, Dated, TypeOK, Live,
     InTransit
<1>5. Fresh'
  BY <1>1, Typed DEF FailRefresh, Move, tab, server, IInv, Fresh, Brings, TypeOK, Live,
     InTransit
<1>6. SpentOK'
  BY <1>1, Typed DEF FailRefresh, Move, tab, server, IInv, SpentOK, Token, TypeOK,
     Live, InTransit
<1>7. IssuedOK'
  BY <1>1, Typed DEF FailRefresh, Move, tab, server, IInv, IssuedOK, Brings, TypeOK, Live,
     InTransit
<1>8. CookieOK'
  BY <1>1, Typed DEF FailRefresh, Move, tab, server, IInv, CookieOK, Replaces, Usable, Cause,
     Token, TypeOK, Live, InTransit
<1>9. SentOK'
  BY <1>1, Typed DEF FailRefresh, Move, tab, server, IInv, SentOK, Usable, Cause,
     Token, TypeOK, Live, InTransit
<1>10. RefusedOK'
  BY <1>1, Typed DEF FailRefresh, Move, tab, server, IInv, RefusedOK, Cause, Token,
     TypeOK, Live, InTransit
<1> QED BY <1>1, <1>2, <1>3, <1>4, <1>5, <1>6, <1>7, <1>8, <1>9, <1>10 DEF IInv

LEMMA RevokeStep == ASSUME IInv, Revoke PROVE IInv'
<1>1. TypeOK /\ TypeOK'
  BY RevokeTyped DEF IInv
<1>2. OneRefresh'
  BY <1>1, Typed DEF Revoke, Delete, tab, IInv, OneRefresh, Refreshes, TypeOK, Live,
     InTransit
<1>3. LogoutsAreFirst'
  BY <1>1, Typed DEF Revoke, Delete, tab, IInv, LogoutsAreFirst, TypeOK, Live, InTransit
<1>4. Dated'
  BY <1>1, Typed DEF Revoke, Delete, tab, IInv, Dated, TypeOK, Live, InTransit
<1>5. Fresh'
  BY <1>1, Typed DEF Revoke, Delete, tab, IInv, Fresh, Brings, TypeOK, Live, InTransit
<1>6. SpentOK'
  BY <1>1, Typed DEF Revoke, Delete, tab, IInv, SpentOK, Token, TypeOK, Live, InTransit
<1>7. IssuedOK'
  BY <1>1, Typed DEF Revoke, Delete, tab, IInv, IssuedOK, Brings, TypeOK, Live, InTransit
<1>8. CookieOK'
  BY <1>1, Typed DEF Revoke, Delete, tab, IInv, CookieOK, Replaces, Usable, Cause, Token, TypeOK,
     Live, InTransit
<1>9. SentOK'
  BY <1>1, Typed DEF Revoke, Delete, tab, IInv, SentOK, Usable, Cause, Token, TypeOK,
     Live, InTransit
<1>10. RefusedOK'
  BY <1>1, Typed DEF Revoke, Delete, tab, IInv, RefusedOK, Cause, Token, TypeOK, Live,
     InTransit
<1> QED BY <1>1, <1>2, <1>3, <1>4, <1>5, <1>6, <1>7, <1>8, <1>9, <1>10 DEF IInv

LEMMA RefreshStep == ASSUME IInv, NEW c \in Calls, Refresh(c) PROVE IInv'
<1>1. TypeOK /\ TypeOK'
  BY RefreshTyped DEF IInv
<1>2. OneRefresh'
  BY <1>1, Typed DEF Refresh, Move, SomebodyRefreshes, server, IInv, OneRefresh,
     Refreshes, TypeOK, Live, InTransit
<1>3. LogoutsAreFirst'
  BY <1>1, Typed DEF Refresh, Move, SomebodyRefreshes, server, IInv, LogoutsAreFirst,
     TypeOK, Live, InTransit
<1>4. Dated'
  BY <1>1, Typed DEF Refresh, Move, SomebodyRefreshes, server, IInv, Dated, TypeOK,
     Live, InTransit
<1>5. Fresh'
  BY <1>1, Typed DEF Refresh, Move, SomebodyRefreshes, server, IInv, Fresh, Brings, TypeOK,
     Live, InTransit
<1>6. SpentOK'
  BY <1>1, Typed DEF Refresh, Move, SomebodyRefreshes, server, IInv, SpentOK, Token,
     TypeOK, Live, InTransit
<1>7. IssuedOK'
  BY <1>1, Typed DEF Refresh, Move, SomebodyRefreshes, server, IInv, IssuedOK, Brings, TypeOK,
     Live, InTransit
<1>8. CookieOK'
  BY <1>1, Typed DEF Refresh, Move, SomebodyRefreshes, server, IInv, CookieOK, Replaces, Usable,
     Cause, Token, TypeOK, Live, InTransit
<1>9. SentOK'
  <2>1. /\ pc[c] = "401" /\ page[call[c].tab] # "left" /\ ~refreshing[call[c].tab]
        /\ call[c] \in Call /\ call[c].tab \in Tabs
    <3>1. pc[c] = "401" /\ ~refreshing[call[c].tab]
      BY DEF Refresh, SomebodyRefreshes
    <3> QED BY <3>1, <1>1, Fields DEF Live, InTransit
  <2>2. \A d \in Calls : pc[d] \in {"insert", "renewed"} => call[d].tab # call[c].tab
    BY <2>1 DEF IInv, OneRefresh, Refreshes
  <2>3. Usable(cookie, call[c].tab)
    BY <2>1, <2>2 DEF IInv, CookieOK, Replaces
  <2>4. /\ call'[c].carried = cookie /\ call'[c].tab = call[c].tab
        /\ \A d \in Calls \ {c} : call'[d] = call[d] /\ pc'[d] = pc[d]
    BY <1>1, <2>1 DEF Refresh, Move, TypeOK, Call
  <2>5. \A k, t : Usable(k, t) => Usable(k, t)'
    BY <1>1, <2>1 DEF Refresh, TypeOK, Usable, Cause, server
  <2> QED BY <2>3, <2>4, <2>5 DEF IInv, SentOK, Token
<1>10. RefusedOK'
  BY <1>1, Typed DEF Refresh, Move, SomebodyRefreshes, server, IInv, RefusedOK, Cause,
     Token, TypeOK, Live, InTransit
<1> QED BY <1>1, <1>2, <1>3, <1>4, <1>5, <1>6, <1>7, <1>8, <1>9, <1>10 DEF IInv

LEMMA RenewedStep == ASSUME IInv, NEW c \in Calls, Renewed(c) PROVE IInv'
<1>1. TypeOK /\ TypeOK'
  BY RenewedTyped DEF IInv
<1> DEFINE again == queue[call[c].tab] \cup {c}
<1>a. /\ pc[c] = "renewed" /\ cookie' = call[c].issued
      /\ UNCHANGED <<page, sessions, last, spent, excused>>
      /\ refreshing' = [refreshing EXCEPT ![call[c].tab] = FALSE]
  BY DEF Renewed, FlagAfter, server, history
<1>b. /\ call[c] \in Call /\ call[c].tab \in Tabs
      /\ \A d \in again : /\ d \in Calls /\ call[d] \in Call
                          /\ pc[d] \in {"queued", "renewed"} /\ pc'[d] = "request"
                          /\ call[d].tab = call[c].tab /\ call'[d].tab = call[d].tab
                          /\ call'[d].kind = call[d].kind /\ call'[d].retry = call[d].retry
                          /\ call'[d].carried = NoToken /\ call'[d].issued = NoToken
  BY <1>1, RenewedCalls
<1>c. \A d \in Calls \ again : call'[d] = call[d] /\ pc'[d] = pc[d]
  BY <1>1, RenewedCalls
<1>d. \A d \in Calls : pc'[d] \in {"refresh", "rotate", "insert", "signed", "renewed", "unknown", "failed", "logout", "out"} =>
         d # c /\ call'[d] = call[d] /\ pc'[d] = pc[d]
  BY <1>b, <1>c
<1>2. OneRefresh'
  <2>1. \A d \in Calls : Refreshes(d)' => d # c /\ Refreshes(d) /\ call'[d] = call[d]
    BY <1>d DEF Refreshes
  <2>2. Refreshes(c)
    BY <1>a DEF Refreshes
  <2>3. \A d \in Calls : Refreshes(d)' => call[d].tab # call[c].tab
    BY <2>1, <2>2 DEF IInv, OneRefresh
  <2>4. \A d \in Calls : Refreshes(d)' => refreshing'[call'[d].tab]
    BY <2>1, <2>3, <1>a, <1>1 DEF IInv, OneRefresh, TypeOK
  <2> QED BY <2>1, <2>4 DEF IInv, OneRefresh
<1>3. LogoutsAreFirst'
  BY <1>b, <1>c DEF IInv, LogoutsAreFirst, Live, InTransit
<1>4. Dated'
  <2>1. cookie' <= last'
    BY <1>a DEF IInv, Dated, Live, InTransit
  <2>2. last \in Nat
    BY <1>1 DEF TypeOK, Tokens
  <2> QED BY <2>1, <2>2, <1>a, <1>b, <1>c DEF IInv, Dated, Live, InTransit, NoToken
<1>5. Fresh'
  <2> SUFFICES ASSUME NEW e \in Calls, Brings(e), e # c, call'[e] = call[e]
               PROVE  /\ call[e].issued # NoToken /\ cookie' # call[e].issued
                      /\ \A d \in Calls : Live(d)' => call'[d].carried # call[e].issued
                      /\ \A d \in Calls \ {e} : Brings(d)' => call'[d].issued # call[e].issued
    BY <1>d DEF Fresh, Brings
  <2>1. call[e].issued # NoToken /\ cookie' # call[e].issued
    BY <1>a DEF IInv, Fresh, Brings
  <2>2. \A d \in Calls : Live(d)' => call'[d].carried # call[e].issued
    BY <2>1, <1>b, <1>c DEF IInv, Fresh, Brings, Live
  <2>3. \A d \in Calls \ {e} : Brings(d)' => call'[d].issued # call[e].issued
    BY <1>d DEF IInv, Fresh, Brings
  <2> QED BY <2>1, <2>2, <2>3
<1>6. SpentOK'
  BY <1>1, Typed DEF Renewed, FlagAfter, server, history, IInv, SpentOK,
     Token, TypeOK, Live, InTransit
<1>7. IssuedOK'
  BY <1>1, Typed DEF Renewed, FlagAfter, server, history, IInv, IssuedOK, Brings,
     TypeOK, Live, InTransit
<1>8. CookieOK'
  BY <1>a DEF IInv, IssuedOK, Brings, CookieOK, Replaces, Usable, Cause
<1>9. SentOK'
  BY <1>1, Typed DEF Renewed, FlagAfter, server, history, IInv, SentOK,
     Usable, Cause, Token, TypeOK, Live, InTransit
<1>10. RefusedOK'
  BY <1>1, Typed DEF Renewed, FlagAfter, server, history, IInv, RefusedOK,
     Cause, Token, TypeOK, Live, InTransit
<1> QED BY <1>1, <1>2, <1>3, <1>4, <1>5, <1>6, <1>7, <1>8, <1>9, <1>10 DEF IInv

LEMMA RefusedStep == ASSUME IInv, NEW c \in Calls, Refused(c) PROVE IInv'
<1>1. TypeOK /\ TypeOK'
  BY RefusedTyped DEF IInv
<1>2. OneRefresh'
  BY <1>1, Typed DEF Refused, server, history, IInv, OneRefresh, Refreshes,
     TypeOK, Live, InTransit
<1>3. LogoutsAreFirst'
  BY <1>1, Typed DEF Refused, server, history, IInv, LogoutsAreFirst, TypeOK,
     Live, InTransit
<1>4. Dated'
  BY <1>1, Typed DEF Refused, server, history, IInv, Dated, TypeOK, Live,
     InTransit
<1>5. Fresh'
  BY <1>1, Typed DEF Refused, server, history, IInv, Fresh, Brings, TypeOK, Live,
     InTransit
<1>6. SpentOK'
  BY <1>1, Typed DEF Refused, server, history, IInv, SpentOK, Token, TypeOK,
     Live, InTransit
<1>7. IssuedOK'
  BY <1>1, Typed DEF Refused, server, history, IInv, IssuedOK, Brings, TypeOK, Live,
     InTransit
<1>8. CookieOK'
  BY <1>1, Typed DEF Refused, server, history, IInv, CookieOK, Replaces, Usable, Cause,
     Token, TypeOK, Live, InTransit
<1>9. SentOK'
  BY <1>1, Typed DEF Refused, server, history, IInv, SentOK, Usable, Cause,
     Token, TypeOK, Live, InTransit
<1>10. RefusedOK'
  BY <1>1, Typed DEF Refused, server, history, IInv, RefusedOK, Cause, Token,
     TypeOK, Live, InTransit
<1> QED BY <1>1, <1>2, <1>3, <1>4, <1>5, <1>6, <1>7, <1>8, <1>9, <1>10 DEF IInv

LEMMA LoggedOutStep == ASSUME IInv, NEW c \in Calls, LoggedOut(c) PROVE IInv'
<1>1. TypeOK /\ TypeOK'
  BY LoggedOutTyped DEF IInv
<1>a. /\ call[c] \in Call /\ call[c].tab \in Tabs
      /\ pc[c] \in {"out", "logout"} /\ pc'[c] = "settled"
      /\ UNCHANGED <<sessions, last, spent, excused>>
      /\ cookie' \in {cookie, NoToken}
      /\ \A d \in Calls \ {c} : call'[d] = call[d] /\ pc'[d] = pc[d]
  BY <1>1, Fields DEF LoggedOut, Over, Live, InTransit, server, history
<1>b. /\ \A t \in Tabs \ {call[c].tab} : refreshing'[t] = refreshing[t]
      /\ ~call[c].retry => refreshing' = refreshing
      /\ pc[c] = "logout" => Refreshes(c)
      /\ call[c].retry => Refreshes(c)
  BY <1>1, <1>a DEF LoggedOut, TypeOK, FlagAfter, Refreshes
<1>2. OneRefresh'
  <2>1. \A d \in Calls : Refreshes(d)' => d # c /\ Refreshes(d) /\ call'[d] = call[d]
    BY <1>a DEF Refreshes
  <2>2. \A d \in Calls : Refreshes(d)' => refreshing'[call'[d].tab]
    BY <2>1, <1>1, <1>a, <1>b, Fields DEF IInv, OneRefresh, Refreshes, Live, InTransit
  <2> QED BY <2>1, <2>2 DEF IInv, OneRefresh
<1>3. LogoutsAreFirst'
  BY <1>1, Typed DEF LoggedOut, Over, FlagAfter, server, history, IInv,
     LogoutsAreFirst, TypeOK, Live, InTransit
<1>4. Dated'
  <2>1. cookie' <= last' /\ \A d \in Calls : Live(d)' => Live(d) /\ call'[d] = call[d]
    BY <1>1, <1>a DEF IInv, Dated, TypeOK, Tokens, NoToken, Live, InTransit
  <2> QED BY <2>1, <1>a DEF IInv, Dated
<1>5. Fresh'
  <2>1. \A d \in Calls : Live(d)' => d # c /\ Live(d) /\ call'[d] = call[d] /\ pc'[d] = pc[d]
    BY <1>a DEF Live, InTransit
  <2>2. \A d \in Calls : Brings(d) => call[d].issued # NoToken
    BY DEF IInv, Fresh, Brings
  <2> QED BY <2>1, <2>2, <1>a DEF IInv, Fresh, Brings, Live, InTransit
<1>6. SpentOK'
  BY <1>1, Typed DEF LoggedOut, Over, FlagAfter, server, history, IInv,
     SpentOK, Token, TypeOK, Live, InTransit
<1>7. IssuedOK'
  BY <1>1, Typed DEF LoggedOut, Over, FlagAfter, server, history, IInv,
     IssuedOK, Brings, TypeOK, Live, InTransit
<1>8. CookieOK'
  BY <1>1, Typed DEF LoggedOut, Over, FlagAfter, server, history, IInv,
     CookieOK, Replaces, Usable, Cause, Token, TypeOK, Live, InTransit
<1>9. SentOK'
  BY <1>1, Typed DEF LoggedOut, Over, FlagAfter, server, history, IInv,
     SentOK, Usable, Cause, Token, TypeOK, Live, InTransit
<1>10. RefusedOK'
  BY <1>1, Typed DEF LoggedOut, Over, FlagAfter, server, history, IInv,
     RefusedOK, Cause, Token, TypeOK, Live, InTransit
<1> QED BY <1>1, <1>2, <1>3, <1>4, <1>5, <1>6, <1>7, <1>8, <1>9, <1>10 DEF IInv

-----------------------------------------------------------------------------
(* The theorems.                                                            *)

LEMMA InitHolds == ASSUME Init PROVE IInv
<1>1. TypeOK
  BY DEF Init, TypeOK, InTransit, Steps, Jar, Tokens, NoToken
<1>2. CookieOK
  BY DEF Init, CookieOK, Replaces, Usable, Cause
<1> QED BY <1>1, <1>2 DEF Init, IInv, OneRefresh, Refreshes, LogoutsAreFirst, Dated,
           Fresh, Brings, SpentOK, IssuedOK, SentOK, RefusedOK, Live, InTransit, NoToken

LEMMA NextHolds == ASSUME IInv, [Next]_vars PROVE IInv'
<1>1. ASSUME NEW c \in Calls, Start(c) \/ Progress(c) \/ Fault(c)
      PROVE  IInv'
  BY <1>1, StartStep, ServeStep, ServeLogoutStep, RefreshFindStep, RefreshDeleteStep, RefreshInsertStep,
     RejectStep,
     EnqueueStep, RefreshStep, RenewedStep, RefusedStep, LoggedOutStep, LoseStep, TurnAwayStep,
     FailRefreshStep, SignInStep, SignedInStep DEF Progress, Fault
<1>2. ASSUME NEW t \in Tabs, Unload(t) PROVE IInv'
  BY <1>2, UnloadStep
<1>3. CASE Revoke
  BY <1>3, RevokeStep
<1>4. CASE UNCHANGED vars
  BY <1>4, StutterStep
<1> QED BY <1>1, <1>2, <1>3, <1>4 DEF Next, Quiet

\* Every state has its types, and the queue of a page that is not left holds
\* exactly its calls that wait (lib/api.ts:13-32).
THEOREM ClientTypes == Spec => []TypeOK
<1>1. IInv => TypeOK
  BY DEF IInv
<1> QED BY <1>1, InitHolds, NextHolds, PTL DEF Spec

\* A tab has one refresh under way at most, its flag is up as long, and what it
\* has sent is a token that the table still had, or that somebody else has used
\* or deleted (lib/api.ts:46-69).
THEOREM OneRefreshPerTab == Spec => [](OneRefresh /\ SentOK)
<1>1. IInv => OneRefresh /\ SentOK
  BY DEF IInv
<1> QED BY <1>1, InitHolds, NextHolds, PTL DEF Spec

\* However the calls of a tab interleave, a refresh finds its token unknown only
\* if it had none, or if that was deleted, spent by another tab, or spent by a
\* refresh that failed or was not answered (lib/api.ts:50-69).
THEOREM RefusalsHaveCauses == Spec => []RefusedWithCause
<1>1. IInv => RefusedWithCause
  BY DEF IInv, RefusedOK, RefusedWithCause, Cause
<1> QED BY <1>1, InitHolds, NextHolds, PTL DEF Spec

-----------------------------------------------------------------------------
(* The tour.                                                                *)

TourTypes ==
    /\ mounted \in BOOLEAN /\ auth \in BOOLEAN /\ completed \in BOOLEAN
    /\ strayed \in BOOLEAN /\ elsewhere \in BOOLEAN
    /\ path \in Paths
    /\ tour \in Tour
    /\ stored # None => stored \in Tour /\ stored.phase # "idle"
    /\ tour.phase = "idle" => tour = Idle
    /\ tour.phase = "welcome" => tour = Welcome
    /\ stored # None /\ stored.phase = "welcome" => stored = Welcome

\* An unmounted page has no tour.
Unmounted == ~mounted => tour = Idle /\ ~strayed

\* Where the tour is over there is none, here or in the storage.
OverHere == completed /\ ~elsewhere => tour = Idle /\ stored = None

\* Resumable, by the phases of the tour.
Agreed ==
    mounted => /\ tour.phase \in {"active", "complete"} => stored = tour
               /\ tour.phase = "welcome" => stored \in {None, Welcome}
               /\ tour.phase = "idle" => stored = None \/ elsewhere

TourInv == TourTypes /\ Unmounted /\ OverHere /\ Agreed /\ NeverHidden

-----------------------------------------------------------------------------
(* The steps of the tour.                                                   *)

\* The phases tell apart the tours that have a name.
LEMMA Phases ==
    /\ Idle \in Tour /\ Idle.phase = "idle" /\ Idle.step = 0
    /\ Welcome \in Tour /\ Welcome.phase = "welcome" /\ Welcome.step = 0
    /\ \A s \in TourSteps : /\ Active(s) \in Tour
                            /\ Active(s).phase = "active" /\ Active(s).step = s
    /\ 0 \in TourSteps /\ 4 \in TourSteps
BY DEF Idle, Welcome, Active, Tour, TourSteps

LEMMA Pages ==
    /\ Matches("search", 0) /\ Matches("search", 4)
    /\ \A p \in Paths : Matches(p, 0) <=> p = "search"
BY DEF Matches, PageOf, PageOfStep, Paths

\* A step that does not wait for navigation is followed by one of its page, so
\* that the tour goes on at a page of its own step only.
LEMMA SamePage ==
    ASSUME NEW s \in TourSteps, NEW p, WaitFor(s) # "navigation"
    PROVE  /\ s + 1 \in TourSteps => PageOfStep(s + 1) = PageOfStep(s)
           /\ s + 1 \in TourSteps => (Matches(p, s + 1) <=> Matches(p, s))
           /\ Stays(p, s) <=> Matches(p, s)
<1>1. s \notin {6, 9}
  BY DEF WaitFor
<1>2. s + 1 \in TourSteps => PageOfStep(s + 1) = PageOfStep(s)
  BY <1>1 DEF TourSteps, PageOfStep
<1> QED BY <1>2 DEF Matches, Stays

LEMMA AdvancedTyped ==
    ASSUME NEW t \in Tour
    PROVE  /\ Advanced(t) \in Tour /\ Advanced(t).phase \in {"active", "complete"}
           /\ Advanced(t).phase = "active" =>
                 t.step + 1 \in TourSteps /\ Advanced(t).step = t.step + 1
BY DEF Tour, Advanced, Active, TourSteps

\* A tour and a storage that agree.
Fit(t, s) ==
    /\ t \in Tour
    /\ s # None => s \in Tour /\ s.phase # "idle"
    /\ s # None /\ s.phase = "welcome" => s = Welcome
    /\ t.phase = "idle" => t = Idle /\ (s = None \/ elsewhere)
    /\ t.phase = "welcome" => t = Welcome /\ s \in {None, Welcome}
    /\ t.phase \in {"active", "complete"} => s = t

\* The effects leave them agreeing, and a tour that was over stays over.
LEMMA Settled ==
    ASSUME NEW t, NEW s, Fit(t, s), Settle(t, s), completed \in BOOLEAN, elsewhere' = elsewhere
    PROVE  /\ Fit(tour, stored)'
           /\ tour'.phase = "active" =>
                 tour' = t \/ (tour' = Active(4) /\ path' = "search")
           /\ completed /\ t = Idle /\ s = None => tour' = Idle /\ stored' = None
<1> DEFINE back == t = Active(6) /\ path' = "search" /\ results' = "empty"
           greets == t.phase = "idle" /\ auth' /\ path' = "search" /\ ~completed
           kept == IF greets THEN Kept(s, path') ELSE s
<1>1. /\ tour' = IF back THEN Active(4) ELSE IF greets /\ kept = None THEN Welcome ELSE t
      /\ stored' = IF back THEN Active(4) ELSE kept
  BY DEF Settle, Stored
<1>2. kept \in {s, None} /\ (kept # s => greets)
  BY DEF Kept
<1>3. CASE back
  <2>1. tour' = Active(4) /\ stored' = Active(4) /\ t.phase = "active"
    BY <1>1, <1>3, Phases DEF TourSteps, Active
  <2> QED BY <1>3, <2>1, Phases DEF Fit
<1>4. CASE ~back /\ greets /\ kept = None
  <2>1. tour' = Welcome /\ stored' = None
    BY <1>1, <1>4
  <2> QED BY <1>4, <2>1, Phases DEF Fit
<1>5. CASE ~back /\ ~(greets /\ kept = None)
  <2>1. tour' = t /\ stored' = s
    BY <1>1, <1>2, <1>5
  <2> QED BY <2>1 DEF Fit
<1> QED BY <1>3, <1>4, <1>5

-----------------------------------------------------------------------------
(* Every step keeps the invariant.                                          *)

\* A step of a mounted page that brings tour and storage into agreement.
LEMMA MountedStep ==
    ASSUME mounted', mounted' \in BOOLEAN, auth' \in BOOLEAN, completed' \in BOOLEAN,
           strayed' \in BOOLEAN, elsewhere' \in BOOLEAN, path' \in Paths,
           Fit(tour, stored)',
           completed' /\ ~elsewhere' => tour' = Idle /\ stored' = None,
           tour'.phase = "active" => Matches(path', tour'.step) \/ strayed'
    PROVE  TourInv'
BY DEF TourInv, TourTypes, Unmounted, OverHere, Agreed, NeverHidden, Shown,
   Fit

LEMMA FitNow == ASSUME TourInv, mounted PROVE Fit(tour, stored)
BY DEF TourInv, TourTypes, Agreed, Fit

LEMMA StrayTyped ==
    ASSUME NEW cause, Stray(cause)
    PROVE  /\ strayed' \in BOOLEAN
           /\ cause /\ tour'.phase = "active" => Matches(path', tour'.step) \/ strayed'
           /\ strayed /\ tour'.phase = "active" => Matches(path', tour'.step) \/ strayed'
BY DEF Stray

\* A step that advances a tour whose next step is on this page, or that strays.
LEMMA AdvanceStep ==
    ASSUME TourInv, mounted, mounted' = mounted, auth' \in BOOLEAN, path' \in Paths,
           UNCHANGED <<completed, elsewhere>>, Advance, NEW cause, Stray(cause),
           tour.phase = "active" /\ tour.step + 1 \in TourSteps =>
               Matches(path', tour.step + 1) \/ cause \/ strayed
    PROVE  TourInv'
<1>1. Fit(tour, stored) /\ completed \in BOOLEAN /\ elsewhere \in BOOLEAN /\ mounted \in BOOLEAN
  BY FitNow DEF TourInv, TourTypes
<1>2. CASE tour.phase = "active"
  <2>1. Settle(Advanced(tour), Advanced(tour))
    BY <1>2 DEF Advance, Stored
  <2>2. Fit(Advanced(tour), Advanced(tour))
    BY <1>1, AdvancedTyped DEF Fit
  <2>3. /\ Fit(tour, stored)'
        /\ tour'.phase = "active" =>
              tour' = Advanced(tour) \/ (tour' = Active(4) /\ path' = "search")
    BY <2>1, <2>2, <1>1, Settled
  <2>4. tour'.phase = "active" => Matches(path', tour'.step) \/ strayed'
    BY <1>1, <1>2, <2>3, AdvancedTyped, StrayTyped, Phases, Pages DEF Fit
  <2>5. ~(completed /\ ~elsewhere)
    BY <1>2, Phases DEF TourInv, OverHere
  <2> QED BY <1>1, <2>3, <2>4, <2>5, StrayTyped, MountedStep
<1>3. CASE tour.phase # "active"
  <2>1. UNCHANGED <<tour, stored>>
    BY <1>3 DEF Advance
  <2>2. Fit(tour, stored)'
    BY <1>1, <2>1 DEF Fit
  <2> QED BY <1>1, <1>3, <2>1, <2>2, StrayTyped, MountedStep DEF TourInv, OverHere
<1> QED BY <1>2, <1>3

\* A step that settles a tour on a page of its step, or after it has strayed.
LEMMA SettleStep ==
    ASSUME TourInv, mounted' = TRUE, auth' \in BOOLEAN, path' \in Paths, strayed' \in BOOLEAN,
           UNCHANGED <<completed, elsewhere>>,
           NEW t, NEW s, Settle(t, s), Fit(t, s),
           completed /\ ~elsewhere => t = Idle /\ s = None,
           t.phase = "active" => Matches(path', t.step) \/ strayed'
    PROVE  TourInv'
<1>1. completed \in BOOLEAN /\ elsewhere \in BOOLEAN
  BY DEF TourInv, TourTypes
<1>2. /\ Fit(tour, stored)'
      /\ tour'.phase = "active" => tour' = t \/ (tour' = Active(4) /\ path' = "search")
      /\ completed /\ t = Idle /\ s = None => tour' = Idle /\ stored' = None
  BY <1>1, Settled
<1>3. tour'.phase = "active" => Matches(path', tour'.step) \/ strayed'
  BY <1>2, Phases, Pages
<1> QED BY <1>1, <1>2, <1>3, MountedStep

LEMMA StartTourStep == ASSUME TourInv, StartTour PROVE TourInv'
<1>1. /\ mounted' = TRUE /\ UNCHANGED <<path, auth, completed, elsewhere>> /\ tour.phase = "welcome"
      /\ tour' = Active(0) /\ stored' = Active(0) /\ Stray(path # "search") /\ mounted \in BOOLEAN
  BY DEF StartTour, place, TourInv, TourTypes
<1>2. Fit(tour, stored)'
  BY <1>1, Phases DEF Fit
<1>3. ~(completed /\ ~elsewhere)
  BY <1>1, Phases DEF TourInv, OverHere
<1>4. Matches(path', 0) \/ strayed'
  BY <1>1, Phases, StrayTyped, Pages
<1> QED BY <1>1, <1>2, <1>3, <1>4, Phases, StrayTyped, MountedStep DEF TourInv, TourTypes

LEMMA EndTourStep == ASSUME TourInv, EndTour PROVE TourInv'
<1>1. Fit(tour, stored)'
  BY Phases DEF EndTour, Fit
<1> QED BY <1>1, Phases, MountedStep DEF EndTour, place, tourHistory, TourInv, TourTypes

LEMMA ReplayTourStep == ASSUME TourInv, ReplayTour PROVE TourInv'
<1>1. Fit(tour, stored)'
  BY Phases DEF ReplayTour, Fit
<1> QED BY <1>1, Phases, MountedStep DEF ReplayTour, place, tourHistory, TourInv, TourTypes

LEMMA NextStepStep == ASSUME TourInv, NextStep PROVE TourInv'
<1>1. /\ mounted /\ Shown /\ WaitFor(tour.step) # "navigation" /\ tour \in Tour
      /\ UNCHANGED <<mounted, path, auth, completed, elsewhere>> /\ Advance /\ Stray(FALSE)
  BY DEF NextStep, place, TourInv, TourTypes
<1>2. tour.step \in TourSteps /\ Matches(path, tour.step)
  BY <1>1 DEF Shown, Tour
<1>3. tour.step + 1 \in TourSteps => Matches(path', tour.step + 1)
  BY <1>1, <1>2, SamePage
<1> QED BY <1>1, <1>3, AdvanceStep DEF TourInv, TourTypes

LEMMA ClickTargetStep == ASSUME TourInv, ClickTarget PROVE TourInv'
BY DEF TourInv, TourTypes, Unmounted, OverHere, Agreed, NeverHidden,
   ClickTarget, place, tourHistory, Shown

\* The invariant says nothing of timers, so also where no page is left.
LEMMA TimerFiresStep == ASSUME TourInv, TimerFires PROVE TourInv'
<1>1. /\ UNCHANGED <<mounted, path, auth, completed, elsewhere>> /\ Advance /\ tour \in Tour
      /\ Stray(tour.phase = "active" /\ WaitFor(tour.step) # "click")
  BY DEF TimerFires, place, TourInv, TourTypes
<1>2. CASE mounted
  <2>1. CASE tour.phase = "active" /\ WaitFor(tour.step) = "click"
    <3>1. tour.step \in TourSteps /\ (Matches(path, tour.step) \/ strayed)
      BY <1>1, <1>2, <2>1 DEF TourInv, NeverHidden, Shown, Tour
    <3>2. tour.step + 1 \in TourSteps => Matches(path', tour.step + 1) \/ strayed
      BY <1>1, <2>1, <3>1, SamePage
    <3> QED BY <1>1, <1>2, <3>2, AdvanceStep DEF TourInv, TourTypes
  <2> QED BY <1>1, <1>2, <2>1, AdvanceStep DEF TourInv, TourTypes
<1>3. CASE ~mounted
  <2>1. tour = Idle /\ UNCHANGED <<tour, stored>>
    BY <1>1, <1>3, Phases DEF TourInv, Unmounted, Advance
  <2>2. strayed' = FALSE
    BY <1>1, <2>1, Phases DEF Stray
  <2>3. ~mounted' /\ TourTypes' /\ OverHere'
    BY <1>1, <1>3, <2>1, <2>2 DEF TourInv, TourTypes, OverHere
  <2> QED BY <2>1, <2>2, <2>3 DEF TourInv, Unmounted, Agreed, NeverHidden
<1> QED BY <1>2, <1>3 DEF TourInv, TourTypes

LEMMA DropPinStep == ASSUME TourInv, DropPin PROVE TourInv'
<1>1. /\ mounted /\ path = "search" /\ tour \in Tour /\ Stray(FALSE)
      /\ UNCHANGED <<mounted, path, auth, completed, elsewhere>>
      /\ (tour = Active(4) /\ Advance) \/ UNCHANGED <<tour, stored>>
  BY DEF DropPin, place, TourInv, TourTypes
<1>2. CASE tour = Active(4) /\ Advance
  <2>1. Matches(path', tour.step + 1)
    BY <1>1, <1>2, Phases DEF Matches, PageOf, PageOfStep
  <2> QED BY <1>1, <1>2, <2>1, AdvanceStep DEF TourInv, TourTypes
<1>3. CASE UNCHANGED <<tour, stored>>
  <2>1. Fit(tour, stored)'
    BY <1>1, <1>3, FitNow DEF Fit
  <2>2. tour'.phase = "active" => Matches(path', tour'.step) \/ strayed'
    BY <1>1, <1>3, StrayTyped DEF TourInv, NeverHidden, Shown
  <2> QED BY <1>1, <1>3, <2>1, <2>2, StrayTyped, MountedStep DEF TourInv, TourTypes, OverHere
<1> QED BY <1>1, <1>2, <1>3

LEMMA SearchStep == ASSUME TourInv, SearchBars PROVE TourInv'
<1>1. /\ mounted' = TRUE /\ mounted
      /\ UNCHANGED <<mounted, path, auth, completed, elsewhere, strayed>>
      /\ (tour.phase = "active" /\ Settle(tour, stored)) \/ UNCHANGED <<tour, stored>>
  BY DEF SearchBars, place, tourHistory, TourInv, TourTypes
<1>2. CASE tour.phase = "active" /\ Settle(tour, stored)
  <2>1. Matches(path', tour.step) \/ strayed'
    BY <1>1, <1>2 DEF TourInv, NeverHidden, Shown
  <2> QED BY <1>1, <1>2, <2>1, FitNow, SettleStep, Phases DEF TourInv, TourTypes, OverHere
<1>3. CASE UNCHANGED <<tour, stored>>
  BY <1>1, <1>3 DEF TourInv, TourTypes, Unmounted, OverHere, Agreed, NeverHidden,
     Shown
<1> QED BY <1>1, <1>2, <1>3

LEMMA NavigateStep ==
    ASSUME TourInv, NEW p \in Paths, Navigate(p) PROVE TourInv'
<1>1. /\ mounted /\ mounted' = TRUE /\ path' = p /\ tour \in Tour /\ strayed' \in BOOLEAN
      /\ UNCHANGED <<mounted, auth, completed, elsewhere>>
  BY StrayTyped DEF Navigate, TourInv, TourTypes
<1>2. CASE tour.phase = "active" /\ WaitFor(tour.step) = "navigation"
  <2>1. Advance /\ Stray(~Matches(p, tour.step + 1))
    BY <1>2 DEF Navigate
  <2> QED BY <1>1, <2>1, AdvanceStep DEF TourInv, TourTypes
<1>3. CASE tour.phase = "active" /\ WaitFor(tour.step) # "navigation" /\ ~Stays(p, tour.step)
  <2>1. Settle(Idle, None)
    BY <1>3 DEF Navigate
  <2>2. Fit(Idle, None)
    BY Phases DEF Fit
  <2> QED BY <1>1, <2>1, <2>2, Phases, SettleStep DEF TourInv, TourTypes
<1>4. CASE tour.phase = "active" /\ WaitFor(tour.step) # "navigation" /\ Stays(p, tour.step)
  <2>1. Settle(tour, stored)
    BY <1>4 DEF Navigate
  <2>2. Matches(path', tour.step)
    BY <1>1, <1>4, SamePage DEF Tour
  <2> QED BY <1>1, <1>4, <2>1, <2>2, FitNow, SettleStep, Phases DEF TourInv, TourTypes, OverHere
<1>5. CASE tour.phase # "active"
  <2>1. Settle(tour, stored)
    BY <1>5 DEF Navigate
  <2> QED BY <1>1, <1>5, <2>1, FitNow, SettleStep DEF TourInv, TourTypes, OverHere
<1> QED BY <1>2, <1>3, <1>4, <1>5

LEMMA LoadStep ==
    ASSUME TourInv, NEW p \in Paths, NEW a \in BOOLEAN, Load(p, a) PROVE TourInv'
<1>1. /\ tour = Idle /\ ~strayed /\ mounted' = TRUE /\ path' = p /\ auth' = a
      /\ UNCHANGED <<completed, elsewhere, strayed>>
  BY DEF Load, tourHistory, TourInv, Unmounted
<1>2. CASE completed
  <2>1. UNCHANGED <<tour, stored>>
    BY <1>2 DEF Load
  <2>2. Fit(tour, stored)'
    BY <1>1, <1>2, <2>1, Phases DEF TourInv, TourTypes, OverHere, Fit
  <2> QED BY <1>1, <2>1, <2>2, Phases, MountedStep DEF TourInv, TourTypes, OverHere
<1>3. CASE ~completed
  <2> DEFINE s == Kept(stored, p)
             t == IF s = None THEN Idle ELSE stored
  <2>1. Settle(t, s)
    BY <1>3 DEF Load
  <2>2. s = None \/ (s = stored /\ stored # None /\ Matches(p, stored.step))
    BY DEF Kept
  <2>3. Fit(t, s) /\ (t.phase = "active" => Matches(path', t.step))
    BY <1>1, <2>2, Phases DEF Fit, TourInv, TourTypes
  <2> QED BY <1>1, <1>3, <2>1, <2>3, SettleStep DEF TourInv, TourTypes
<1> QED BY <1>2, <1>3 DEF TourInv, TourTypes

LEMMA UnmountStep == ASSUME TourInv, Unmount PROVE TourInv'
BY Phases DEF TourInv, TourTypes, Unmounted, OverHere, Agreed, NeverHidden,
   Unmount

LEMMA AuthenticateStep == ASSUME TourInv, Authenticate PROVE TourInv'
<1>1. /\ mounted /\ mounted' = TRUE /\ auth' \in BOOLEAN /\ Settle(tour, stored)
      /\ UNCHANGED <<path, completed, elsewhere, strayed>>
  BY DEF Authenticate, tourHistory, TourInv, TourTypes
<1>2. tour.phase = "active" => Matches(path', tour.step) \/ strayed'
  BY <1>1 DEF TourInv, NeverHidden, Shown
<1> QED BY <1>1, <1>2, FitNow, SettleStep DEF TourInv, TourTypes, OverHere

LEMMA OtherTabStep == ASSUME TourInv, OtherTab PROVE TourInv'
BY DEF TourInv, TourTypes, Unmounted, OverHere, Agreed, NeverHidden,
   OtherTab, place, Shown

LEMMA TourStutterStep == ASSUME TourInv, UNCHANGED tourVars PROVE TourInv'
BY DEF TourInv, TourTypes, Unmounted, OverHere, Agreed, NeverHidden, tourVars,
   place, tourHistory, Shown

-----------------------------------------------------------------------------
(* The theorems.                                                            *)

LEMMA TourInitHolds == ASSUME TourInit PROVE TourInv
BY Phases DEF TourInit, TourInv, TourTypes, Unmounted, OverHere, Agreed,
   NeverHidden, Paths

LEMMA TourNextHolds == ASSUME TourInv, [TourNext]_tourVars PROVE TourInv'
BY StartTourStep, EndTourStep, ReplayTourStep, NextStepStep, ClickTargetStep, TimerFiresStep,
   DropPinStep, SearchStep, UnmountStep, AuthenticateStep, OtherTabStep, NavigateStep, LoadStep,
   TourStutterStep DEF TourNext

\* A reload finds the tour where it was and none when there is none
\* (onboarding-provider.tsx:74-197).
THEOREM TourIsResumable == TourSpec => []Resumable
<1>1. TourInv => Resumable
  <2> SUFFICES ASSUME TourInv, mounted PROVE Resumable
    BY DEF Resumable
  <2>1. CASE tour.phase \in {"active", "complete"}
    BY <2>1 DEF TourInv, Agreed, Resumable
  <2>2. CASE tour.phase = "welcome"
    BY <2>2 DEF TourInv, Agreed, Resumable
  <2>3. CASE tour.phase = "idle"
    BY <2>3 DEF TourInv, Agreed, Resumable
  <2> QED BY <2>1, <2>2, <2>3 DEF TourInv, TourTypes, Tour
<1> QED BY <1>1, TourInitHolds, TourNextHolds, PTL DEF TourSpec

\* An active tour is never left on a page without its step, but for the three
\* ways in which it strays (onboarding-provider.tsx:110-146).
THEOREM TourIsNeverHidden == TourSpec => []NeverHidden
<1>1. TourInv => NeverHidden
  BY DEF TourInv
<1> QED BY <1>1, TourInitHolds, TourNextHolds, PTL DEF TourSpec

-----------------------------------------------------------------------------
(* The cache of bookmarks.                                                  *)

\* What CacheNames of BookmarkCache assumes; the theorems about Cache take it as a
\* hypothesis.
Card == [marked : BOOLEAN, count : Int]
CardData(q) == [BarsOf(q) -> Card]
ListData == [items : SUBSET Bars, total : Int]
AnyData == {NoData} \cup ListData \cup UNION {CardData(q) : q \in Queries}

FetchType == [step : {"none", "asked", "answered"}, data : AnyData, passed : SUBSET Bars]

Context == [bar : Bars, action : {"add", "remove"}, answer : {NoData} \cup Card,
            previousSearches : {NoData} \cup CardData(Search),
            previousDetail : AnyData, previousBookmarks : ListData]

CacheTypes ==
    /\ marks \in SUBSET Bars
    /\ cards \in [Queries -> AnyData]
    /\ \A q \in Queries : cards[q] \in {NoData} \cup CardData(q)
    /\ list \in ListData /\ invalid \in BOOLEAN
    /\ fetch \in [Fetched -> FetchType]
    /\ stage \in [Mutations -> {"idle", "sent", "served", "late", "over"}]
    /\ mutation \in [Mutations -> Context \cup {NoData}]
    /\ \A m \in Mutations : stage[m] \in {"sent", "served", "late"} => mutation[m] \in Context
    /\ \A m \in Mutations : stage[m] \in {"sent", "served", "late"} =>
          mutation[m].previousDetail \in {NoData} \cup CardData(mutation[m].bar)
    /\ \A m \in Mutations : stage[m] = "served" => mutation[m].answer \in Card
    /\ met \in [Mutations -> SUBSET (Bars \cup {List})]
    /\ known \in SUBSET (Bars \cup {List})

\* Overlapping mutations know of each other.
MetOK ==
    \A m, n \in Pending : m # n =>
        /\ mutation[n].bar \in met[m] /\ List \in met[m]
        /\ mutation[m].bar = mutation[n].bar => mutation[m].bar \in known

\* What the server has said is still so.
AnswerOK ==
    \A m \in Pending : stage[m] = "served" /\ mutation[m].bar \notin known =>
        mutation[m].answer = CardOf(mutation[m].bar \in marks)

\* A card that no mutation works on is right.
CardsOK ==
    \A q \in Queries : \A b \in BarsOf(q) \ known :
        cards[q] # NoData /\ b \notin BarsIn(Pending) =>
            cards[q][b] = CardOf(b \in marks)

\* What a failure would put back, or leave, is right.
DetailAfter(m) ==
    IF mutation[m].previousDetail # NoData
    THEN mutation[m].previousDetail ELSE cards[mutation[m].bar]

SearchSafe(m) ==
    mutation[m].previousSearches # NoData =>
        \A c \in Bars \ (known \cup met[m]) :
            c # mutation[m].bar \/ stage[m] = "sent" =>
                mutation[m].previousSearches[c] = CardOf(c \in marks)

DetailSafe(m) ==
    stage[m] = "sent" /\ mutation[m].bar \notin known /\ DetailAfter(m) # NoData =>
        DetailAfter(m)[mutation[m].bar] = CardOf(mutation[m].bar \in marks)

ListSafe(m) ==
    stage[m] = "sent" /\ List \notin met[m] => mutation[m].previousBookmarks = ServerList

ContextOK == \A m \in Pending : SearchSafe(m) /\ DetailSafe(m) /\ ListSafe(m)

\* An answer on its way is right but for what has passed it.
FetchOK ==
    /\ \A q \in Queries : fetch[q].step = "answered" =>
          /\ fetch[q].data \in CardData(q)
          /\ \A c \in BarsOf(q) \ (known \cup fetch[q].passed) :
                fetch[q].data[c] = CardOf(c \in marks)
    /\ fetch[List].step = "answered" =>
          /\ fetch[List].data \in ListData
          /\ fetch[List].passed = {} => fetch[List].data = ServerList

ListOK == Pending = {} /\ ~invalid /\ List \notin known => list = ServerList

CacheInv == CacheTypes /\ MetOK /\ AnswerOK /\ CardsOK /\ ContextOK /\ FetchOK /\ ListOK

LEMMA QueryFacts ==
    /\ Search \in Queries /\ Queries \subseteq Fetched
    /\ List \in Fetched \ Queries
    /\ Bars \subseteq Queries /\ BarsOf(Search) = Bars
    /\ \A b \in Bars : BarsOf(b) = {b} /\ b # Search
    /\ \A q \in Queries : BarsOf(q) \subseteq Bars
    /\ \A q \in Queries \ {Search} : q \in Bars
BY CacheNames DEF Queries, Fetched, Details, BarsOf

LEMMA ServerData ==
    ASSUME marks \in SUBSET Bars
    PROVE  /\ \A x \in BOOLEAN : CardOf(x) \in Card
           /\ \A q \in Queries : /\ ServerCards(q) \in CardData(q)
                                 /\ \A b \in BarsOf(q) :
                                       ServerCards(q)[b] = CardOf(b \in marks)
           /\ ServerList \in ListData
<1>1. \A x \in BOOLEAN : CardOf(x) \in Card
  BY DEF CardOf, Card
<1>2. ASSUME NEW b PROVE CardOf(b \in marks) \in Card
  BY DEF CardOf, Card
<1>3. IsFiniteSet(marks)
  BY FS_Subset, CacheNames
<1>4. Cardinality(marks) \in Int
  BY <1>3, FS_CardinalityType
<1>5. ASSUME NEW q \in Queries
      PROVE  /\ ServerCards(q) \in CardData(q)
             /\ \A b \in BarsOf(q) : ServerCards(q)[b] = CardOf(b \in marks)
  BY <1>2 DEF ServerCards, CardData
<1>6. ServerList \in ListData
  BY <1>4 DEF ServerList, ListData
<1> QED BY <1>1, <1>5, <1>6

\* A mutation in a context.
LEMMA ContextFacts ==
    ASSUME CacheInv, NEW m \in Mutations, stage[m] \in {"sent", "served", "late"}
    PROVE  /\ mutation[m] \in Context /\ mutation[m].bar \in Bars
           /\ mutation[m].action \in {"add", "remove"}
BY DEF CacheInv, CacheTypes, Context

LEMMA PendingFacts ==
    /\ \A m \in Mutations : m \in Pending <=> stage[m] \in {"sent", "served"}
    /\ Pending \subseteq Mutations
    /\ \A m \in Pending : mutation[m].bar \in BarsIn(Pending)
    /\ \A b \in BarsIn(Pending) : \E m \in Pending : b = mutation[m].bar
BY DEF Pending, BarsIn

-----------------------------------------------------------------------------
(* The fetches.                                                             *)

\* A step that changes what is being fetched, and nothing else of importance.
LEMMA FetchStep ==
    ASSUME CacheInv, UNCHANGED <<marks, cards, list, invalid, stage, mutation, met, known>>,
           fetch' \in [Fetched -> FetchType], FetchOK'
    PROVE  CacheInv'
<1>1. Pending' = Pending /\ BarsIn(Pending)' = BarsIn(Pending)
  BY DEF Pending, BarsIn
<1>2. CacheTypes' /\ MetOK' /\ AnswerOK' /\ ListOK'
  BY <1>1 DEF CacheInv, CacheTypes, MetOK, AnswerOK, ListOK, ServerList
<1>3. CardsOK'
  BY <1>1 DEF CacheInv, CardsOK
<1>4. ContextOK'
  BY <1>1 DEF CacheInv, ContextOK, SearchSafe, DetailSafe, ListSafe, DetailAfter, ServerList
<1> QED BY <1>2, <1>3, <1>4 DEF CacheInv

\* One of them changes.
LEMMA OneFetch ==
    ASSUME CacheInv, NEW q \in Fetched, NEW f \in FetchType, fetch' = [fetch EXCEPT ![q] = f],
           f.step # "answered", UNCHANGED <<marks, cards, list, invalid, stage, mutation, met, known>>
    PROVE  CacheInv'
<1>1. /\ fetch' \in [Fetched -> FetchType] /\ fetch'[q] = f
      /\ \A p \in Fetched \ {q} : fetch'[p] = fetch[p]
  BY DEF CacheInv, CacheTypes
<1>2. FetchOK'
  <2>1. ASSUME NEW p \in Queries, fetch'[p].step = "answered"
        PROVE  /\ fetch'[p].data \in CardData(p)
               /\ \A c \in BarsOf(p) \ (known' \cup fetch'[p].passed) :
                     fetch'[p].data[c] = CardOf(c \in marks')
    <3>1. p \in Fetched \ {q}
      BY <1>1, <2>1 DEF Fetched
    <3> QED BY <1>1, <2>1, <3>1 DEF CacheInv, FetchOK
  <2>2. ASSUME fetch'[List].step = "answered"
        PROVE  /\ fetch'[List].data \in ListData
               /\ fetch'[List].passed = {} => fetch'[List].data = ServerList'
    <3>1. List \in Fetched \ {q}
      BY <1>1, <2>2 DEF Fetched
    <3> QED BY <1>1, <2>2, <3>1 DEF CacheInv, FetchOK, ServerList
  <2> QED BY <2>1, <2>2 DEF FetchOK
<1> QED BY <1>1, <1>2, FetchStep

LEMMA FetchValues ==
    /\ NoFetch \in FetchType /\ Asking \in FetchType
    /\ NoFetch.step = "none" /\ Asking.step = "asked"
    /\ Asking.passed = {}
BY DEF NoFetch, Asking, FetchType, AnyData

LEMMA AskStep == ASSUME CacheInv, NEW q \in Fetched, Ask(q) PROVE CacheInv'
BY FetchValues, OneFetch DEF Ask, lists, cacheHistory

LEMMA FailFetchStep ==
    ASSUME CacheInv, NEW q \in Fetched, FailFetch(q)
    PROVE  CacheInv'
BY FetchValues, OneFetch DEF FailFetch, lists, cacheHistory

LEMMA OpenListStep == ASSUME CacheInv, OpenList PROVE CacheInv'
<1>1. UNCHANGED <<marks, cards, list, invalid, stage, mutation, met, known>>
  BY DEF OpenList, cacheHistory
<1>2. CASE fetch' = [fetch EXCEPT ![List] = Asking]
  BY <1>1, <1>2, FetchValues, OneFetch, QueryFacts
<1>3. CASE fetch' = fetch
  BY <1>1, <1>3, FetchStep DEF CacheInv, CacheTypes, FetchOK, ServerList
<1> QED BY <1>2, <1>3 DEF OpenList

LEMMA CloseListStep == ASSUME CacheInv, CloseList PROVE CacheInv'
BY FetchStep DEF CloseList, cacheHistory, CacheInv, CacheTypes, FetchOK, ServerList

LEMMA AnswerRecord ==
    ASSUME NEW d \in AnyData, NEW f, f = [Asking EXCEPT !.step = "answered", !.data = d]
    PROVE  f \in FetchType /\ f.step = "answered" /\ f.data = d /\ f.passed = {}
BY FetchValues DEF FetchType

LEMMA AnswerStep ==
    ASSUME CacheInv, NEW q \in Fetched, Answer(q)
    PROVE  CacheInv'
<1> DEFINE data == IF q = List THEN ServerList ELSE ServerCards(q)
           f == [Asking EXCEPT !.step = "answered", !.data = data]
<1>1. UNCHANGED <<marks, cards, list, invalid, stage, mutation, met, known>>
  BY DEF Answer, lists, cacheHistory
<1>2. fetch' = [fetch EXCEPT ![q] = f]
  BY DEF Answer, CacheInv, CacheTypes
<1>3. /\ marks \in SUBSET Bars /\ fetch \in [Fetched -> FetchType]
      /\ q # List => q \in Queries
  BY DEF CacheInv, CacheTypes, Fetched
<1>4. /\ q = List => data = ServerList /\ data \in ListData
      /\ q # List => /\ data \in CardData(q)
                     /\ \A c \in BarsOf(q) : data[c] = CardOf(c \in marks)
  BY <1>3, ServerData
<1>5. data \in AnyData
  BY <1>3, <1>4 DEF AnyData
<1> HIDE DEF data
<1>6. f \in FetchType /\ f.step = "answered" /\ f.data = data /\ f.passed = {}
  BY <1>5, AnswerRecord
<1> HIDE DEF f
<1>7. /\ fetch' \in [Fetched -> FetchType] /\ fetch'[q] = f
      /\ \A p \in Fetched \ {q} : fetch'[p] = fetch[p]
  BY <1>2, <1>3, <1>6
<1>8. FetchOK'
  <2>1. ASSUME NEW p \in Queries, fetch'[p].step = "answered"
        PROVE  /\ fetch'[p].data \in CardData(p)
               /\ \A c \in BarsOf(p) \ (known' \cup fetch'[p].passed) :
                     fetch'[p].data[c] = CardOf(c \in marks')
    <3>1. p \in Fetched /\ p # List
      BY QueryFacts
    <3>2. CASE p = q
      BY <1>1, <1>4, <1>7, <1>6, <3>1, <3>2
    <3>3. CASE p # q
      BY <1>1, <1>7, <2>1, <3>1, <3>3 DEF CacheInv, FetchOK
    <3> QED BY <3>2, <3>3
  <2>2. ASSUME fetch'[List].step = "answered"
        PROVE  /\ fetch'[List].data \in ListData
               /\ fetch'[List].passed = {} => fetch'[List].data = ServerList'
    <3>1. List \in Fetched
      BY QueryFacts
    <3>2. CASE q = List
      BY <1>1, <1>4, <1>7, <1>6, <3>2 DEF ServerList
    <3>3. CASE q # List
      BY <1>1, <1>7, <2>2, <3>1, <3>3 DEF CacheInv, FetchOK, ServerList
    <3> QED BY <3>2, <3>3
  <2> QED BY <2>1, <2>2 DEF FetchOK
<1> QED BY <1>1, <1>7, <1>8, FetchStep

\* Passed by a change whose answer has not come, an answer is put right by it.
LEMMA DeliverStep ==
    ASSUME CacheInv, NEW q \in Fetched, Deliver(q)
    PROVE  CacheInv'
<1> DEFINE data == fetch[q].data
           served == {m \in Mutations : stage[m] = "served"}
           old == fetch[q].passed \ BarsIn(served)
<1>1. /\ fetch[q].step = "answered" /\ fetch' = [fetch EXCEPT ![q] = NoFetch]
      /\ UNCHANGED <<marks, stage, mutation, met>>
      /\ q = List => (list' = data /\ invalid' = FALSE /\ cards' = cards)
      /\ q # List => (cards' = [cards EXCEPT ![q] = data] /\ UNCHANGED <<list, invalid>>)
  BY DEF Deliver, Answered
<1>2. known' = IF q # List THEN known \cup old
                 ELSE IF old = {} THEN known \ {List} ELSE known \cup {List}
  BY DEF Deliver
<1>3. /\ marks \in SUBSET Bars /\ fetch \in [Fetched -> FetchType]
      /\ cards \in [Queries -> AnyData]
      /\ known \in SUBSET (Bars \cup {List}) /\ fetch[q].passed \in SUBSET Bars
      /\ data \in AnyData
  BY DEF CacheInv, CacheTypes, FetchType
<1>4. /\ q # List => q \in Queries
      /\ List \notin Bars /\ List \notin Queries /\ List \in Fetched
      /\ \A p \in Queries : BarsOf(p) \subseteq Bars
      /\ \A b \in Bars : BarsOf(b) = {b} /\ b \in Queries
  BY QueryFacts, CacheNames DEF Fetched
<1>5. /\ Pending' = Pending
      /\ BarsIn(Pending)' = BarsIn(Pending)
      /\ ServerList' = ServerList
  BY <1>1 DEF Pending, BarsIn, ServerList
<1>6. /\ q = List => (fetch[q].passed = {} => data = ServerList)
      /\ q = List => data \in ListData
      /\ q # List => /\ data \in CardData(q)
                     /\ \A c \in BarsOf(q) \ (known \cup fetch[q].passed) :
                           data[c] = CardOf(c \in marks)
  BY <1>1, <1>4 DEF CacheInv, FetchOK
<1>7. BarsIn(served) \subseteq BarsIn(Pending)
  BY DEF BarsIn, Pending
<1>8. \A b \in Bars : b \notin known' => b \notin known
  BY <1>2, <1>4
<1>9. /\ fetch' \in [Fetched -> FetchType] /\ fetch'[q].step = "none"
      /\ \A p \in Fetched \ {q} : fetch'[p] = fetch[p]
  BY <1>1, <1>3, FetchValues
<1> HIDE DEF data, old
<1>10. CacheTypes'
  <2>1. known' \in SUBSET (Bars \cup {List})
    BY <1>2, <1>3 DEF old
  <2>2. /\ list' \in ListData /\ invalid' \in BOOLEAN /\ cards' \in [Queries -> AnyData]
        /\ \A p \in Queries : cards'[p] \in {NoData} \cup CardData(p)
    <3>1. CASE q = List
      BY <1>1, <1>6, <3>1 DEF CacheInv, CacheTypes
    <3>2. CASE q # List
      BY <1>1, <1>3, <1>6, <3>2 DEF CacheInv, CacheTypes
    <3> QED BY <3>1, <3>2
  <2> QED BY <1>1, <1>9, <2>1, <2>2 DEF CacheInv, CacheTypes
<1>11. MetOK'
  <2>1. \A m \in Pending : mutation[m].bar \in Bars
    BY PendingFacts, ContextFacts
  <2>2. \A b \in Bars : b \in known => b \in known'
    BY <1>2, <1>4 
  <2> QED BY <1>1, <1>5, <2>1, <2>2 DEF CacheInv, MetOK
<1>12. AnswerOK'
  <2>1. \A m \in Pending : mutation[m].bar \in Bars
    BY PendingFacts, ContextFacts
  <2> QED BY <1>1, <1>5, <1>8, <2>1 DEF CacheInv, AnswerOK
<1>13. ASSUME NEW c \in Bars, q # List, c \in BarsOf(q), c \notin known', c \notin BarsIn(served)
       PROVE  data[c] = CardOf(c \in marks)
  BY <1>2, <1>6, <1>8, <1>13 DEF old
<1>14. CardsOK'
  <2> SUFFICES ASSUME NEW p \in Queries, NEW b \in BarsOf(p), b \notin known',
                      cards'[p] # NoData,
                      b \notin BarsIn(Pending)
               PROVE  cards'[p][b] = CardOf(b \in marks)
    BY <1>1, <1>5 DEF CardsOK
  <2>1. b \in Bars /\ b \notin known
    BY <1>4, <1>8
  <2>2. CASE p = q
    <3>1. q # List /\ cards'[p] = data
      BY <1>1, <1>3, <1>4, <2>2
    <3> QED BY <1>7, <1>13, <2>1, <2>2, <3>1
  <2>3. CASE p # q
    <3>1. cards'[p] = cards[p]
      BY <1>1, <1>3, <1>4, <2>3
    <3> QED BY <2>1, <3>1 DEF CacheInv, CardsOK
  <2> QED BY <2>2, <2>3
<1>15. ContextOK'
  <2> SUFFICES ASSUME NEW m \in Pending PROVE SearchSafe(m)' /\ DetailSafe(m)' /\ ListSafe(m)'
    BY <1>5 DEF ContextOK
  <2> DEFINE b == mutation[m].bar
  <2>1. m \in Mutations /\ b \in Bars
    BY PendingFacts, ContextFacts
  <2>2. SearchSafe(m)' /\ ListSafe(m)'
    BY <1>1, <1>5, <1>8 DEF CacheInv, ContextOK, SearchSafe, ListSafe
  <2>3. DetailSafe(m)'
    <3> SUFFICES ASSUME stage[m] = "sent", b \notin known', DetailAfter(m)' # NoData
                 PROVE  DetailAfter(m)'[b] = CardOf(b \in marks)
      BY <1>1 DEF DetailSafe
    <3>1. CASE mutation[m].previousDetail = NoData /\ b = q
      <4>1. q # List /\ DetailAfter(m)' = data
        BY <1>1, <1>3, <1>4, <2>1, <3>1 DEF DetailAfter
      <4>2. b \notin BarsIn(served)
        <5>1. SUFFICES ASSUME NEW n \in served, mutation[n].bar = b PROVE FALSE
          BY DEF BarsIn
        <5>2. n \in Pending /\ n # m
          BY PendingFacts
        <5> QED BY <1>8, <2>1, <5>1, <5>2 DEF CacheInv, MetOK
      <4> QED BY <1>4, <1>13, <2>1, <3>1, <4>1, <4>2
    <3>2. CASE ~(mutation[m].previousDetail = NoData /\ b = q)
      <4>1. DetailAfter(m)' = DetailAfter(m)
        BY <1>1, <1>3, <1>4, <2>1, <3>2 DEF DetailAfter
      <4> QED BY <1>8, <2>1, <4>1 DEF CacheInv, ContextOK, DetailSafe
    <3> QED BY <3>1, <3>2
  <2> QED BY <2>2, <2>3
<1>16. FetchOK'
  <2>1. ASSUME NEW p \in Queries, fetch'[p].step = "answered"
        PROVE  /\ fetch'[p].data \in CardData(p)
               /\ \A c \in BarsOf(p) \ (known' \cup fetch'[p].passed) :
                     fetch'[p].data[c] = CardOf(c \in marks')
    <3>1. p \in Fetched /\ p # q
      BY <1>9, <2>1, QueryFacts
    <3> QED BY <1>1, <1>4, <1>8, <1>9, <2>1, <3>1 DEF CacheInv, FetchOK
  <2>2. ASSUME fetch'[List].step = "answered"
        PROVE  /\ fetch'[List].data \in ListData
               /\ fetch'[List].passed = {} => fetch'[List].data = ServerList'
    <3>1. q # List
      BY <1>9, <2>2
    <3> QED BY <1>4, <1>5, <1>9, <2>2, <3>1 DEF CacheInv, FetchOK
  <2> QED BY <2>1, <2>2 DEF FetchOK
<1>17. ListOK'
  <2> SUFFICES ASSUME Pending = {}, ~invalid', List \notin known'
               PROVE  list' = ServerList
    BY <1>5 DEF ListOK
  <2>1. CASE q = List
    <3>1. BarsIn(served) = {}
      BY <1>7 DEF BarsIn
    <3>2. fetch[q].passed = {}
      BY <1>2, <2>1, <3>1 DEF old
    <3> QED BY <1>1, <1>6, <2>1, <3>2
  <2>2. CASE q # List
    BY <1>1, <1>2, <2>2 DEF CacheInv, ListOK
  <2> QED BY <2>1, <2>2
<1> QED BY <1>10, <1>11, <1>12, <1>14, <1>15, <1>16, <1>17 DEF CacheInv

-----------------------------------------------------------------------------
(* The mutations.                                                           *)

\* The new context shows what no mutation works on, so it is right.
LEMMA MutateStep ==
    ASSUME CacheInv, NEW m \in Mutations, NEW b \in Bars,
           NEW action \in {"add", "remove"},
           Mutate(m, b, action)
    PROVE  CacheInv'
<1> DEFINE context == [bar |-> b, action |-> action, answer |-> NoData,
                       previousSearches |-> cards[Search], previousDetail |-> cards[b],
                       previousBookmarks |-> list]
<1>1. /\ stage[m] = "idle" /\ fetch' = Cancelled
      /\ mutation' = [mutation EXCEPT ![m] = context]
      /\ cards' = [q \in Queries |->
            IF Has(q, b) THEN [cards[q] EXCEPT ![b] = OptimisticCard(action, @)]
            ELSE cards[q]]
      /\ list' = OptimisticList(action, b)
      /\ known' = known \cup ({b} \cap BarsIn(Pending))
      /\ stage' = [stage EXCEPT ![m] = "sent"]
      /\ UNCHANGED marks /\ (invalid' => invalid) /\ invalid' \in BOOLEAN
  BY DEF Mutate
<1>2. met' = [n \in Mutations |->
          IF n = m THEN BarsIn(Pending) \cup (known \cap {List})
                        \cup IF invalid \/ Pending # {} THEN {List} ELSE {}
          ELSE IF n \in Pending THEN met[n] \cup {b, List} ELSE met[n]]
  BY DEF Mutate
<1>3. /\ List \notin Bars /\ b # Search /\ Search \in Queries /\ b \in Queries
      /\ BarsOf(Search) = Bars /\ BarsOf(b) = {b}
      /\ \A p \in Queries : BarsOf(p) \subseteq Bars
      /\ \A c \in Bars : BarsOf(c) = {c} /\ c \in Queries
  BY QueryFacts, CacheNames
<1>4. /\ m \notin Pending /\ Pending \subseteq Mutations
      /\ Pending' = Pending \cup {m}
      /\ \A n \in Mutations \ {m} : stage'[n] = stage[n] /\ mutation'[n] = mutation[n]
      /\ stage'[m] = "sent" /\ mutation'[m] = context
  BY <1>1 DEF Pending, CacheInv, CacheTypes
<1>5. /\ BarsIn(Pending)' = BarsIn(Pending) \cup {b}
      /\ BarsIn(Pending) \subseteq Bars
  <2>1. \A n \in Pending : mutation[n].bar \in Bars
    BY PendingFacts, ContextFacts
  <2>2. \A n \in Pending : mutation'[n].bar = mutation[n].bar
    BY <1>4
  <2>3. mutation'[m].bar = b
    BY <1>4
  <2> QED BY <1>4, <2>1, <2>2, <2>3 DEF BarsIn
<1>6. /\ known \subseteq known'
      /\ b \in BarsIn(Pending) => b \in known'
      /\ \A n \in Pending : met[n] \subseteq met'[n] /\ {b, List} \subseteq met'[n]
      /\ BarsIn(Pending) \subseteq met'[m]
      /\ List \notin met'[m] => List \notin known /\ ~invalid /\ Pending = {}
  BY <1>1, <1>2, <1>4
<1>7. /\ cards \in [Queries -> AnyData]
      /\ \A q \in Queries : cards[q] # NoData => cards[q] \in [BarsOf(q) -> Card]
      /\ list \in ListData /\ invalid \in BOOLEAN
      /\ known \in SUBSET (Bars \cup {List})
      /\ met \in [Mutations -> SUBSET (Bars \cup {List})]
  BY DEF CacheInv, CacheTypes, CardData
<1>8. \A q \in Queries :
         /\ cards'[q] # NoData => cards[q] # NoData
         /\ \A c \in BarsOf(q) \ {b} : cards[q] # NoData => cards'[q][c] = cards[q][c]
         /\ b \notin BarsOf(q) \/ cards[q] = NoData => cards'[q] = cards[q]
  <2> SUFFICES ASSUME NEW q \in Queries
               PROVE  /\ cards'[q] # NoData => cards[q] # NoData
                      /\ \A c \in BarsOf(q) \ {b} : cards[q] # NoData => cards'[q][c] = cards[q][c]
                      /\ b \notin BarsOf(q) \/ cards[q] = NoData => cards'[q] = cards[q]
    OBVIOUS
  <2>1. CASE Has(q, b)
    BY <1>1, <1>7, <2>1 DEF Has
  <2>2. CASE ~Has(q, b)
    BY <1>1, <1>7, <2>2 DEF Has
  <2> QED BY <2>1, <2>2
<1>9. CacheTypes'
  <2>1. \A q \in Queries : cards'[q] \in {NoData} \cup CardData(q)
    <3> SUFFICES ASSUME NEW q \in Queries, Has(q, b) PROVE cards'[q] \in CardData(q)
      BY <1>1, <1>8 DEF Has, CacheInv, CacheTypes
    <3>1. cards[q] \in [BarsOf(q) -> Card] /\ b \in BarsOf(q)
      BY <1>7 DEF Has
    <3>2. cards[q][b] \in Card
      BY <3>1
    <3>3. OptimisticCard(action, cards[q][b]) \in Card
      BY <3>2 DEF OptimisticCard, Card
    <3>4. cards'[q] = [cards[q] EXCEPT ![b] = OptimisticCard(action, cards[q][b])]
      BY <1>1
    <3> QED BY <3>1, <3>3, <3>4 DEF CardData
  <2>2. cards' \in [Queries -> AnyData]
    BY <1>1, <2>1 DEF AnyData
  <2>3. list' \in ListData
    BY <1>1, <1>7 DEF OptimisticList, ListData
  <2>4. fetch' \in [Fetched -> FetchType]
    BY <1>1, FetchValues DEF Cancelled
  <2>5. stage' \in [Mutations -> {"idle", "sent", "served", "late", "over"}]
    BY <1>1 DEF CacheInv, CacheTypes
  <2>6. context \in Context /\ context.previousDetail \in {NoData} \cup CardData(context.bar)
    <3>1. cards[b] \in {NoData} \cup CardData(b) /\ cards[b] \in AnyData
          /\ cards[Search] \in {NoData} \cup CardData(Search)
      BY <1>3, <1>7 DEF CacheInv, CacheTypes
    <3> QED BY <1>7, <3>1 DEF Context
  <2>7. mutation' \in [Mutations -> Context \cup {NoData}]
    BY <1>1, <2>6 DEF CacheInv, CacheTypes
  <2>8. ASSUME NEW n \in Mutations, stage'[n] \in {"sent", "served", "late"}
        PROVE  /\ mutation'[n] \in Context
               /\ mutation'[n].previousDetail \in {NoData} \cup CardData(mutation'[n].bar)
               /\ stage'[n] = "served" => mutation'[n].answer \in Card
    BY <1>4, <2>6, <2>8 DEF CacheInv, CacheTypes
  <2>9. met' \in [Mutations -> SUBSET (Bars \cup {List})] /\ known' \in SUBSET (Bars \cup {List})
    BY <1>1, <1>2, <1>5, <1>7
  <2>10. marks' \in SUBSET Bars /\ invalid' \in BOOLEAN
    BY <1>1 DEF CacheInv, CacheTypes
  <2> QED BY <2>1, <2>2, <2>3, <2>4, <2>5, <2>7, <2>8, <2>9, <2>10 DEF CacheTypes
<1>10. MetOK'
  <2> SUFFICES ASSUME NEW k \in Pending', NEW n \in Pending', k # n
               PROVE  /\ mutation'[n].bar \in met'[k] /\ List \in met'[k]
                      /\ mutation'[k].bar = mutation'[n].bar => mutation'[k].bar \in known'
    BY DEF MetOK
  <2>1. CASE k \in Pending /\ n \in Pending
    BY <1>4, <1>6, <2>1 DEF CacheInv, MetOK
  <2>2. CASE k = m /\ n \in Pending
    BY <1>4, <1>6, <2>2, PendingFacts
  <2>3. CASE n = m /\ k \in Pending
    BY <1>4, <1>6, <2>3, PendingFacts
  <2> QED BY <1>4, <2>1, <2>2, <2>3
<1>11. AnswerOK'
  BY <1>1, <1>4, <1>6 DEF CacheInv, AnswerOK
<1>12. ASSUME NEW q \in Queries, NEW c \in BarsOf(q), c \notin known',
              c \notin BarsIn(Pending),
              cards[q] # NoData
       PROVE  cards[q][c] = CardOf(c \in marks)
  BY <1>6, <1>12 DEF CacheInv, CardsOK
<1>13. CardsOK'
  <2> SUFFICES ASSUME NEW q \in Queries, NEW c \in BarsOf(q), c \notin known',
                      cards'[q] # NoData,
                      c \notin BarsIn(Pending)'
               PROVE  cards'[q][c] = CardOf(c \in marks)
    BY <1>1 DEF CardsOK
  <2>1. c # b /\ c \notin BarsIn(Pending)
    BY <1>5
  <2> QED BY <1>8, <1>12, <2>1
<1>14. ContextOK'
  <2>1. ASSUME NEW n \in Pending PROVE SearchSafe(n)' /\ DetailSafe(n)' /\ ListSafe(n)'
    <3>1. stage'[n] = stage[n] /\ mutation'[n] = mutation[n] /\ mutation[n].bar \in Bars
          /\ mutation[n].bar \in BarsIn(Pending)
      BY <1>4, PendingFacts, ContextFacts
    <3>2. SearchSafe(n)'
      BY <1>1, <1>6, <3>1 DEF CacheInv, ContextOK, SearchSafe
    <3>3. DetailSafe(n)'
      <4>1. CASE mutation[n].bar = b
        BY <1>6, <3>1, <4>1 DEF DetailSafe
      <4>2. CASE mutation[n].bar # b
        <5>1. cards'[mutation[n].bar] = cards[mutation[n].bar]
          BY <1>3, <1>8, <3>1, <4>2
        <5>2. DetailAfter(n)' = DetailAfter(n)
          BY <3>1, <5>1 DEF DetailAfter
        <5> QED BY <1>1, <1>6, <3>1, <5>2 DEF CacheInv, ContextOK, DetailSafe
      <4> QED BY <4>1, <4>2
    <3>4. ListSafe(n)'
      BY <1>6 DEF ListSafe
    <3> QED BY <3>2, <3>3, <3>4
  <2>2. SearchSafe(m)'
    BY <1>1, <1>3, <1>4, <1>6, <1>12 DEF SearchSafe
  <2>3. DetailSafe(m)'
    <3> SUFFICES ASSUME b \notin known', DetailAfter(m)' # NoData
                 PROVE  DetailAfter(m)'[b] = CardOf(b \in marks)
      BY <1>1, <1>4 DEF DetailSafe
    <3>1. cards[b] # NoData /\ DetailAfter(m)' = cards[b]
      BY <1>3, <1>4, <1>8 DEF DetailAfter
    <3> QED BY <1>3, <1>6, <1>12, <3>1
  <2>4. ListSafe(m)'
    <3> SUFFICES ASSUME List \notin met'[m] PROVE list = ServerList
      BY <1>1, <1>4 DEF ListSafe, ServerList
    <3> QED BY <1>6 DEF CacheInv, ListOK
  <2> QED BY <1>4, <2>1, <2>2, <2>3, <2>4 DEF ContextOK
<1>15. FetchOK'
  <2>1. \A q \in Fetched : fetch'[q].step = "none"
    BY <1>1, FetchValues DEF Cancelled
  <2> QED BY <2>1, QueryFacts DEF FetchOK
<1>16. ListOK'
  BY <1>4 DEF ListOK
<1> QED BY <1>9, <1>10, <1>11, <1>13, <1>14, <1>15, <1>16 DEF CacheInv

\* What the server's work for a mutation changes.
LEMMA ChangeFacts ==
    ASSUME CacheInv, NEW m \in Mutations, stage[m] \in {"sent", "late"},
           Change(m),
           known \subseteq known'
    PROVE  /\ mutation[m].bar \in Bars /\ marks' \in SUBSET Bars
           /\ \A c : c # mutation[m].bar => CardOf(c \in marks') = CardOf(c \in marks)
           /\ CardOf(mutation[m].bar \in marks') = CardOf(mutation[m].action = "add")
           /\ fetch' \in [Fetched -> FetchType] /\ FetchOK'
<1> DEFINE b == mutation[m].bar
<1>1. b \in Bars /\ List # b
  BY ContextFacts, CacheNames
<1>2. marks' = IF mutation[m].action = "add" THEN marks \cup {b} ELSE marks \ {b}
  BY DEF Change
<1>3. fetch' = [q \in Fetched |->
          IF Answered(q) THEN [fetch[q] EXCEPT !.passed = @ \cup {b}] ELSE fetch[q]]
  BY DEF Change
<1>4. marks \in SUBSET Bars /\ fetch \in [Fetched -> FetchType]
  BY DEF CacheInv, CacheTypes
<1> HIDE DEF b
<1>5. marks' \in SUBSET Bars
  BY <1>1, <1>2, <1>4
<1>6. \A c : c # b => (c \in marks' <=> c \in marks)
  BY <1>2
<1>7. b \in marks' <=> mutation[m].action = "add"
  BY <1>2
<1>8. ASSUME NEW q \in Fetched
      PROVE  /\ fetch'[q] \in FetchType /\ fetch'[q].step = fetch[q].step
             /\ fetch'[q].data = fetch[q].data
             /\ fetch[q].step = "answered" => fetch'[q].passed = fetch[q].passed \cup {b}
  <2>1. fetch[q] \in FetchType
    BY <1>4
  <2>2. CASE Answered(q)
    <3>1. fetch'[q] = [fetch[q] EXCEPT !.passed = fetch[q].passed \cup {b}]
      BY <1>3, <2>2
    <3> QED BY <1>1, <2>1, <3>1 DEF FetchType
  <2>3. CASE ~Answered(q)
    BY <1>3, <2>1, <2>3 DEF Answered
  <2> QED BY <2>2, <2>3
<1>9. fetch' \in [Fetched -> FetchType]
  <2>1. fetch' = [q \in Fetched |-> fetch'[q]]
    BY <1>3
  <2> QED BY <1>8, <2>1
<1>10. FetchOK'
  <2>1. ASSUME NEW q \in Queries, fetch'[q].step = "answered"
        PROVE  /\ fetch'[q].data \in CardData(q)
               /\ \A c \in BarsOf(q) \ (known' \cup fetch'[q].passed) :
                     fetch'[q].data[c] = CardOf(c \in marks')
    <3>1. q \in Fetched
      BY QueryFacts
    <3>2. fetch[q].data \in CardData(q)
          /\ \A c \in BarsOf(q) \ (known \cup fetch[q].passed) :
                fetch[q].data[c] = CardOf(c \in marks)
      BY <1>8, <2>1, <3>1 DEF CacheInv, FetchOK
    <3>3. \A c \in BarsOf(q) \ (known' \cup fetch'[q].passed) :
             c # b /\ c \notin known \cup fetch[q].passed
      BY <1>8, <2>1, <3>1
    <3>4. \A c : c # b => CardOf(c \in marks') = CardOf(c \in marks)
      BY <1>6 DEF CardOf
    <3> QED BY <1>8, <3>1, <3>2, <3>3, <3>4
  <2>2. ASSUME fetch'[List].step = "answered"
        PROVE  fetch'[List].data \in ListData /\ fetch'[List].passed # {}
    BY <1>8, <2>2, QueryFacts DEF CacheInv, FetchOK
  <2> QED BY <2>1, <2>2 DEF FetchOK
<1> QED BY <1>1, <1>5, <1>6, <1>7, <1>9, <1>10 DEF b, CardOf

\* Whoever has a context for the bar, and whatever shows it, is known to be overtaken.
LEMMA CacheServeStep ==
    ASSUME CacheInv, NEW m \in Mutations, ServeMutation(m)
    PROVE  CacheInv'
<1> DEFINE b == mutation[m].bar
<1>1. /\ stage[m] = "sent" /\ Change(m)
      /\ mutation' = [mutation EXCEPT ![m].answer = CardOf(mutation[m].action = "add")]
      /\ stage' = [stage EXCEPT ![m] = "served"]
      /\ UNCHANGED <<cards, list, invalid, met, known>>
  BY DEF ServeMutation, lists, cacheHistory
<1>2. /\ b \in Bars /\ marks' \in SUBSET Bars
      /\ \A c : c # b => CardOf(c \in marks') = CardOf(c \in marks)
      /\ CardOf(b \in marks') = CardOf(mutation[m].action = "add")
      /\ fetch' \in [Fetched -> FetchType] /\ FetchOK'
  BY <1>1, ChangeFacts
<1>3. /\ m \in Pending /\ Pending' = Pending
      /\ \A n \in Mutations \ {m} : stage'[n] = stage[n] /\ mutation'[n] = mutation[n]
      /\ stage'[m] = "served"
      /\ mutation'[m] = [mutation[m] EXCEPT !.answer = CardOf(mutation[m].action = "add")]
  BY <1>1 DEF Pending, CacheInv, CacheTypes
<1>4. mutation[m] \in Context
  BY <1>1, ContextFacts
<1>5. /\ mutation'[m].bar = b /\ mutation'[m].answer = CardOf(b \in marks')
      /\ mutation'[m].previousSearches = mutation[m].previousSearches
      /\ mutation'[m].previousDetail = mutation[m].previousDetail
      /\ mutation'[m] \in Context /\ mutation'[m].answer \in Card
  <2>1. CardOf(mutation[m].action = "add") \in Card
    BY DEF CardOf, Card
  <2> QED BY <1>2, <1>3, <1>4, <2>1 DEF Context
<1>6. \A n \in Mutations : mutation'[n].bar = mutation[n].bar
                           /\ mutation'[n].previousSearches = mutation[n].previousSearches
                           /\ mutation'[n].previousDetail = mutation[n].previousDetail
  BY <1>3, <1>5
<1>7. BarsIn(Pending)' = BarsIn(Pending) /\ b \in BarsIn(Pending)
  BY <1>3, <1>6 DEF BarsIn, Pending
<1> HIDE DEF b
<1>8. CacheTypes'
  <2>1. \A n \in Mutations : stage'[n] \in {"sent", "served", "late"} =>
           /\ mutation'[n] \in Context
           /\ mutation'[n].previousDetail \in {NoData} \cup CardData(mutation'[n].bar)
           /\ stage'[n] = "served" => mutation'[n].answer \in Card
    <3>1. mutation[m].previousDetail \in {NoData} \cup CardData(mutation[m].bar)
      BY <1>1 DEF CacheInv, CacheTypes
    <3> QED BY <1>3, <1>5, <3>1 DEF CacheInv, CacheTypes, b
  <2>2. mutation' \in [Mutations -> Context \cup {NoData}]
    BY <1>1, <1>3, <1>5 DEF CacheInv, CacheTypes
  <2> QED BY <1>1, <1>2, <2>1, <2>2 DEF CacheInv, CacheTypes
<1>9. MetOK'
  BY <1>1, <1>3, <1>6 DEF CacheInv, MetOK, Pending
<1>10. \A n \in Pending \ {m} : /\ n \in Mutations /\ b \in met[n] /\ List \in met[n]
                                /\ mutation[n].bar = b => b \in known
  BY <1>3 DEF CacheInv, MetOK, Pending, b
<1>11. AnswerOK'
  <2> SUFFICES ASSUME NEW n \in Pending, stage'[n] = "served", mutation'[n].bar \notin known
               PROVE  mutation'[n].answer = CardOf(mutation'[n].bar \in marks')
    BY <1>1, <1>3 DEF AnswerOK
  <2>1. CASE n = m
    BY <1>5, <2>1
  <2>2. CASE n # m
    BY <1>2, <1>3, <1>10, <2>2 DEF CacheInv, AnswerOK
  <2> QED BY <2>1, <2>2
<1>12. CardsOK'
  BY <1>1, <1>2, <1>7 DEF CacheInv, CardsOK
<1>13. ContextOK'
  <2> SUFFICES ASSUME NEW n \in Pending PROVE SearchSafe(n)' /\ DetailSafe(n)' /\ ListSafe(n)'
    BY <1>3 DEF ContextOK
  <2>1. n \in Mutations
    BY PendingFacts
  <2>2. SearchSafe(n)'
    <3> SUFFICES ASSUME mutation[n].previousSearches # NoData,
                        NEW c \in Bars, c \notin known, c \notin met[n],
                        c # mutation[n].bar \/ stage'[n] = "sent"
                 PROVE  mutation[n].previousSearches[c] = CardOf(c \in marks')
      BY <1>1, <1>6, <2>1 DEF SearchSafe
    <3>1. c # b /\ (c # mutation[n].bar \/ stage[n] = "sent")
      BY <1>3, <1>10, <2>1 DEF b
    <3> QED BY <1>2, <3>1 DEF CacheInv, ContextOK, SearchSafe
  <2>3. DetailSafe(n)'
    <3> SUFFICES ASSUME n # m, stage[n] = "sent", mutation[n].bar \notin known, DetailAfter(n)' # NoData
                 PROVE  DetailAfter(n)'[mutation[n].bar] = CardOf(mutation[n].bar \in marks')
      BY <1>1, <1>3, <1>6, <2>1 DEF DetailSafe
    <3>1. DetailAfter(n)' = DetailAfter(n)
      BY <1>1, <1>6, <2>1 DEF DetailAfter
    <3>2. mutation[n].bar # b
      BY <1>10
    <3> QED BY <1>2, <3>1, <3>2 DEF CacheInv, ContextOK, DetailSafe
  <2>4. ListSafe(n)'
    BY <1>1, <1>3, <1>10, <2>1 DEF ListSafe
  <2> QED BY <2>2, <2>3, <2>4
<1>14. ListOK'
  BY <1>3 DEF ListOK
<1> QED BY <1>2, <1>8, <1>9, <1>11, <1>12, <1>13, <1>14 DEF CacheInv

LEMMA ServeLateStep ==
    ASSUME CacheInv, NEW m \in Mutations, ServeLate(m)
    PROVE  CacheInv'
<1> DEFINE b == mutation[m].bar
<1>1. /\ stage[m] = "late" /\ Change(m)
      /\ known' = known \cup {b, List}
      /\ met' = [n \in Mutations |-> IF n \in Pending THEN met[n] \cup {b, List} ELSE met[n]]
      /\ mutation' = [mutation EXCEPT ![m] = NoData]
      /\ stage' = [stage EXCEPT ![m] = "over"]
      /\ UNCHANGED <<cards, list, invalid>>
  BY DEF ServeLate, lists
<1>2. /\ b \in Bars /\ marks' \in SUBSET Bars
      /\ \A c : c # b => CardOf(c \in marks') = CardOf(c \in marks)
      /\ fetch' \in [Fetched -> FetchType] /\ FetchOK'
  BY <1>1, ChangeFacts
<1>3. /\ m \notin Pending /\ Pending' = Pending
      /\ Pending \subseteq Mutations
      /\ \A n \in Mutations \ {m} : stage'[n] = stage[n] /\ mutation'[n] = mutation[n]
      /\ stage'[m] = "over"
  BY <1>1 DEF Pending, CacheInv, CacheTypes
<1>4. /\ known \subseteq known' /\ b \in known' /\ List \in known'
      /\ \A n \in Pending : met[n] \subseteq met'[n] /\ List \in met'[n]
  BY <1>1, <1>3
<1>5. \A n \in Pending : n \in Mutations /\ stage'[n] = stage[n] /\ mutation'[n] = mutation[n]
  BY <1>3
<1>6. BarsIn(Pending)' = BarsIn(Pending)
  BY <1>3, <1>5 DEF BarsIn
<1> HIDE DEF b
<1>7. CacheTypes'
  <2>1. met' \in [Mutations -> SUBSET (Bars \cup {List})] /\ known' \in SUBSET (Bars \cup {List})
    BY <1>1, <1>2 DEF CacheInv, CacheTypes
  <2>2. \A n \in Mutations : stage'[n] \in {"sent", "served", "late"} =>
           /\ mutation'[n] \in Context
           /\ mutation'[n].previousDetail \in {NoData} \cup CardData(mutation'[n].bar)
           /\ stage'[n] = "served" => mutation'[n].answer \in Card
    BY <1>3 DEF CacheInv, CacheTypes
  <2> QED BY <1>1, <1>2, <2>1, <2>2 DEF CacheInv, CacheTypes
<1>8. MetOK'
  BY <1>3, <1>4, <1>5 DEF CacheInv, MetOK
<1>9. AnswerOK'
  BY <1>2, <1>3, <1>4, <1>5 DEF CacheInv, AnswerOK
<1>10. CardsOK'
  BY <1>1, <1>2, <1>4, <1>6 DEF CacheInv, CardsOK
<1>11. ContextOK'
  <2> SUFFICES ASSUME NEW n \in Pending PROVE SearchSafe(n)' /\ DetailSafe(n)' /\ ListSafe(n)'
    BY <1>3 DEF ContextOK
  <2>1. SearchSafe(n)'
    BY <1>2, <1>4, <1>5 DEF CacheInv, ContextOK, SearchSafe
  <2>2. DetailSafe(n)'
    <3>1. DetailAfter(n)' = DetailAfter(n)
      BY <1>1, <1>5 DEF DetailAfter
    <3> QED BY <1>2, <1>4, <1>5, <3>1 DEF CacheInv, ContextOK, DetailSafe
  <2>3. ListSafe(n)'
    BY <1>4 DEF ListSafe
  <2> QED BY <2>1, <2>2, <2>3
<1>12. ListOK'
  BY <1>4 DEF ListOK
<1> QED BY <1>2, <1>7, <1>8, <1>9, <1>10, <1>11, <1>12 DEF CacheInv

\* One mutation less.
LEMMA OverFacts ==
    ASSUME CacheInv, NEW m \in Pending, stage' \in [Mutations -> {"idle", "sent",
           "served", "late", "over"}],
           stage'[m] \in {"over", "late"},
           \A n \in Mutations \ {m} : stage'[n] = stage[n] /\ mutation'[n] = mutation[n]
    PROVE  /\ Pending' = Pending \ {m} /\ Pending \subseteq Mutations
           /\ \A n \in Pending' :
              n \in Mutations \ {m} /\ stage'[n] = stage[n] /\ mutation'[n] = mutation[n]
           /\ \A c : c \notin BarsIn(Pending)' /\ c # mutation[m].bar =>
                 c \notin BarsIn(Pending)
<1>1. Pending' = Pending \ {m} /\ Pending \subseteq Mutations
  BY DEF Pending
<1>2. \A n \in Pending' :
              n \in Mutations \ {m} /\ stage'[n] = stage[n] /\ mutation'[n] = mutation[n]
  BY <1>1
<1>3. BarsIn(Pending)' = {mutation[n].bar : n \in Pending \ {m}}
  BY <1>1, <1>2 DEF BarsIn
<1> QED BY <1>1, <1>2, <1>3 DEF BarsIn

\* The answer puts the card right, and the list is fetched anew.
LEMMA SucceedStep ==
    ASSUME CacheInv, NEW m \in Mutations, Succeed(m)
    PROVE  CacheInv'
<1> DEFINE b == mutation[m].bar
<1>1. /\ stage[m] = "served"
      /\ cards' = [q \in Queries |->
            IF Has(q, b) THEN [cards[q] EXCEPT ![b] = mutation[m].answer] ELSE cards[q]]
      /\ invalid' = TRUE
      /\ fetch' = [fetch EXCEPT ![List] = Asking] \/ fetch' = fetch
      /\ stage' = [stage EXCEPT ![m] = "over"]
      /\ mutation' = [mutation EXCEPT ![m] = NoData]
      /\ met' = [met EXCEPT ![m] = {}]
      /\ UNCHANGED <<marks, list, known>>
  BY DEF Succeed, Invalidate
<1>2. /\ stage \in [Mutations -> {"idle", "sent", "served", "late", "over"}]
      /\ mutation \in [Mutations -> Context \cup {NoData}]
      /\ cards \in [Queries -> AnyData]
      /\ \A q \in Queries : cards[q] # NoData => cards[q] \in [BarsOf(q) -> Card]
      /\ met \in [Mutations -> SUBSET (Bars \cup {List})]
      /\ fetch \in [Fetched -> FetchType]
  BY DEF CacheInv, CacheTypes, CardData
<1>3. /\ m \in Pending /\ stage'[m] = "over"
      /\ stage' \in [Mutations -> {"idle", "sent", "served", "late", "over"}]
      /\ \A n \in Mutations \ {m} : stage'[n] = stage[n] /\ mutation'[n] = mutation[n] /\ met'[n] = met[n]
  BY <1>1, <1>2 DEF Pending
<1>4. /\ Pending' = Pending \ {m} /\ Pending \subseteq Mutations
      /\ \A n \in Pending' :
              n \in Mutations \ {m} /\ stage'[n] = stage[n] /\ mutation'[n] = mutation[n]
              /\ met'[n] = met[n]
      /\ \A c : c \notin BarsIn(Pending)' /\ c # b =>
              c \notin BarsIn(Pending)
  BY <1>3, OverFacts
<1>5. /\ b \in Bars /\ mutation[m].answer \in Card
      /\ b \notin known => mutation[m].answer = CardOf(b \in marks)
  <2>1. b \in Bars
    BY <1>1, ContextFacts
  <2> QED BY <1>1, <1>3, <2>1 DEF CacheInv, CacheTypes, AnswerOK
<1>6. /\ List \in Fetched /\ \A p \in Queries : p # List /\ p \in Fetched
      /\ \A c \in Bars : BarsOf(c) = {c} /\ c \in Queries
  BY QueryFacts
<1> HIDE DEF b
<1>7. \A q \in Queries :
         /\ cards'[q] # NoData => cards[q] # NoData
         /\ \A c \in BarsOf(q) \ {b} : cards[q] # NoData => cards'[q][c] = cards[q][c]
         /\ b \in BarsOf(q) /\ cards[q] # NoData =>
              cards'[q] \in [BarsOf(q) -> Card] /\ cards'[q][b] = mutation[m].answer
         /\ b \notin BarsOf(q) \/ cards[q] = NoData => cards'[q] = cards[q]
  <2> SUFFICES ASSUME NEW q \in Queries
               PROVE  /\ cards'[q] # NoData => cards[q] # NoData
                      /\ \A c \in BarsOf(q) \ {b} : cards[q] # NoData => cards'[q][c] = cards[q][c]
                      /\ b \in BarsOf(q) /\ cards[q] # NoData =>
                           cards'[q] \in [BarsOf(q) -> Card] /\ cards'[q][b] = mutation[m].answer
                      /\ b \notin BarsOf(q) \/ cards[q] = NoData => cards'[q] = cards[q]
    OBVIOUS
  <2>1. CASE Has(q, b)
    BY <1>1, <1>2, <1>5, <2>1 DEF Has
  <2>2. CASE ~Has(q, b)
    BY <1>1, <1>2, <2>2 DEF Has
  <2> QED BY <2>1, <2>2
<1>8. fetch' \in [Fetched -> FetchType] /\ FetchOK'
  <2>1. CASE fetch' = fetch
    BY <1>1, <1>2, <2>1 DEF CacheInv, FetchOK, ServerList
  <2>2. CASE fetch' = [fetch EXCEPT ![List] = Asking]
    <3>1. fetch'[List].step = "asked" /\ \A p \in Queries : fetch'[p] = fetch[p]
      BY <1>2, <1>6, <2>2, FetchValues
    <3>2. fetch' \in [Fetched -> FetchType]
      BY <1>2, <2>2, FetchValues
    <3> QED BY <1>1, <3>1, <3>2 DEF CacheInv, FetchOK
  <2> QED BY <1>1, <2>1, <2>2
<1>9. CacheTypes'
  <2>1. \A q \in Queries : cards'[q] \in {NoData} \cup CardData(q)
    BY <1>7 DEF CacheInv, CacheTypes, CardData
  <2>2. cards' \in [Queries -> AnyData]
    BY <1>1, <2>1 DEF AnyData
  <2>3. mutation' \in [Mutations -> Context \cup {NoData}]
    BY <1>1, <1>2
  <2>4. met' \in [Mutations -> SUBSET (Bars \cup {List})]
    BY <1>1, <1>2
  <2>5. \A n \in Mutations : stage'[n] \in {"sent", "served", "late"} =>
           /\ mutation'[n] \in Context
           /\ mutation'[n].previousDetail \in {NoData} \cup CardData(mutation'[n].bar)
           /\ stage'[n] = "served" => mutation'[n].answer \in Card
    BY <1>3 DEF CacheInv, CacheTypes
  <2> QED BY <1>1, <1>3, <1>8, <2>1, <2>2, <2>3, <2>4, <2>5 DEF CacheInv, CacheTypes
<1>10. MetOK'
  BY <1>1, <1>4 DEF CacheInv, MetOK
<1>11. AnswerOK'
  BY <1>1, <1>4 DEF CacheInv, AnswerOK
<1>12. CardsOK'
  <2> SUFFICES ASSUME NEW q \in Queries, NEW c \in BarsOf(q), c \notin known,
                      cards'[q] # NoData,
                      c \notin BarsIn(Pending)'
               PROVE  cards'[q][c] = CardOf(c \in marks)
    BY <1>1 DEF CardsOK
  <2>1. CASE c = b
    BY <1>5, <1>7, <2>1
  <2>2. CASE c # b
    <3>1. cards[q] # NoData /\ cards'[q][c] = cards[q][c]
      BY <1>7, <2>2
    <3>2. c \notin BarsIn(Pending)
      BY <1>4, <2>2
    <3> QED BY <3>1, <3>2 DEF CacheInv, CardsOK
  <2> QED BY <2>1, <2>2
<1>13. ContextOK'
  <2> SUFFICES ASSUME NEW n \in Pending'
               PROVE  SearchSafe(n)' /\ DetailSafe(n)' /\ ListSafe(n)'
    BY DEF ContextOK
  <2>1. n \in Pending /\ n # m /\ mutation[n].bar \in Bars
    BY <1>4, PendingFacts, ContextFacts
  <2>2. SearchSafe(n)' /\ ListSafe(n)'
    BY <1>1, <1>4, <2>1 DEF CacheInv, ContextOK, SearchSafe, ListSafe, ServerList
  <2>3. DetailSafe(n)'
    <3> SUFFICES ASSUME mutation[n].bar \notin known, stage[n] = "sent", DetailAfter(n)' # NoData
                 PROVE  DetailAfter(n)'[mutation[n].bar] = CardOf(mutation[n].bar \in marks)
      BY <1>1, <1>4 DEF DetailSafe
    <3>1. mutation[n].bar # b
      BY <1>3, <2>1 DEF CacheInv, MetOK, b
    <3>2. cards'[mutation[n].bar] = cards[mutation[n].bar]
      BY <1>6, <1>7, <2>1, <3>1
    <3>3. DetailAfter(n)' = DetailAfter(n)
      BY <1>4, <3>2 DEF DetailAfter
    <3> QED BY <2>1, <3>3 DEF CacheInv, ContextOK, DetailSafe
  <2> QED BY <2>2, <2>3
<1>14. ListOK'
  BY <1>1 DEF ListOK
<1> QED BY <1>8, <1>9, <1>10, <1>11, <1>12, <1>13, <1>14 DEF CacheInv

\* What is put back is right, but for what the mutation has met.
LEMMA FailStep ==
    ASSUME CacheInv, NEW m \in Mutations, Fail(m)
    PROVE  CacheInv'
<1> DEFINE b == mutation[m].bar
<1>1. /\ m \in Pending /\ cards' = CardsBefore(m)
      /\ list' = mutation[m].previousBookmarks /\ invalid' = FALSE
      /\ known' = known \cup met[m] \cup IF stage[m] = "served" THEN {b, List} ELSE {}
      /\ met' = [met EXCEPT ![m] = {}]
      /\ UNCHANGED <<marks, fetch>>
  BY DEF Fail, ListBefore
<1>2. \/ stage' = [stage EXCEPT ![m] = "over"] /\ mutation' = [mutation EXCEPT ![m] = NoData]
      \/ stage[m] = "sent" /\ stage' = [stage EXCEPT ![m] = "late"] /\ mutation' = mutation
  BY DEF Fail
<1>3. /\ stage \in [Mutations -> {"idle", "sent", "served", "late", "over"}]
      /\ mutation \in [Mutations -> Context \cup {NoData}]
      /\ cards \in [Queries -> AnyData]
      /\ \A q \in Queries : cards[q] \in {NoData} \cup CardData(q)
      /\ met \in [Mutations -> SUBSET (Bars \cup {List})]
      /\ known \in SUBSET (Bars \cup {List})
  BY DEF CacheInv, CacheTypes
<1>4. /\ stage[m] \in {"sent", "served"} /\ stage'[m] \in {"over", "late"}
      /\ stage' \in [Mutations -> {"idle", "sent", "served", "late", "over"}]
      /\ \A n \in Mutations \ {m} : stage'[n] = stage[n] /\ mutation'[n] = mutation[n] /\ met'[n] = met[n]
      /\ mutation' \in [Mutations -> Context \cup {NoData}]
      /\ stage'[m] = "late" => mutation'[m] = mutation[m]
  BY <1>1, <1>2, <1>3 DEF Pending
<1>5. /\ Pending' = Pending \ {m} /\ Pending \subseteq Mutations
      /\ \A n \in Pending' :
              n \in Mutations \ {m} /\ stage'[n] = stage[n] /\ mutation'[n] = mutation[n]
              /\ met'[n] = met[n]
      /\ \A c : c \notin BarsIn(Pending)' /\ c # b =>
              c \notin BarsIn(Pending)
  BY <1>1, <1>4, OverFacts
<1>6. mutation[m] \in Context /\ b \in Bars
      /\ mutation[m].previousDetail \in {NoData} \cup CardData(b)
      /\ mutation[m].previousSearches \in {NoData} \cup CardData(Search)
      /\ mutation[m].previousBookmarks \in ListData
  <2>1. mutation[m] \in Context /\ mutation[m].previousDetail \in {NoData} \cup CardData(b)
    BY <1>4 DEF CacheInv, CacheTypes
  <2> QED BY <2>1 DEF Context
<1>7. /\ Search \in Queries /\ BarsOf(Search) = Bars
      /\ \A q \in Queries \ {Search} : q \in Bars
      /\ \A p \in Queries : BarsOf(p) \subseteq Bars
      /\ \A c \in Bars : BarsOf(c) = {c} /\ c \in Queries /\ c # Search
  BY QueryFacts
<1>8. /\ cards'[Search] = mutation[m].previousSearches
      /\ cards'[b] = DetailAfter(m)
      /\ \A q \in Queries \ {Search, b} : cards'[q] = cards[q]
  BY <1>1, <1>6, <1>7 DEF CardsBefore, DetailAfter
<1>9. /\ known \subseteq known' /\ met[m] \subseteq known'
      /\ known' \in SUBSET (Bars \cup {List})
      /\ stage[m] = "served" => b \in known' /\ List \in known'
  BY <1>1, <1>3, <1>6
<1> HIDE DEF b
<1>10. CacheTypes'
  <2>1. \A q \in Queries : cards'[q] \in {NoData} \cup CardData(q)
    <3>1. DetailAfter(m) \in {NoData} \cup CardData(b)
      BY <1>3, <1>6, <1>7 DEF DetailAfter, b
    <3> QED BY <1>3, <1>6, <1>8, <3>1
  <2>2. cards' \in [Queries -> AnyData]
    BY <1>1, <2>1 DEF AnyData, CardsBefore
  <2>3. met' \in [Mutations -> SUBSET (Bars \cup {List})]
    BY <1>1, <1>3
  <2>4. \A n \in Mutations : stage'[n] \in {"sent", "served", "late"} =>
           /\ mutation'[n] \in Context
           /\ mutation'[n].previousDetail \in {NoData} \cup CardData(mutation'[n].bar)
           /\ stage'[n] = "served" => mutation'[n].answer \in Card
    BY <1>4 DEF CacheInv, CacheTypes
  <2> QED BY <1>1, <1>4, <1>6, <1>9, <2>1, <2>2, <2>3, <2>4 DEF CacheInv, CacheTypes
<1>11. MetOK'
  <2> SUFFICES ASSUME NEW k \in Pending', NEW n \in Pending', k # n
               PROVE  /\ mutation'[n].bar \in met'[k] /\ List \in met'[k]
                      /\ mutation'[k].bar = mutation'[n].bar => mutation'[k].bar \in known'
    BY DEF MetOK
  <2>1. k \in Pending /\ n \in Pending
    BY <1>5
  <2>2. /\ mutation[n].bar \in met[k] /\ List \in met[k]
        /\ mutation[k].bar = mutation[n].bar => mutation[k].bar \in known
    BY <2>1 DEF CacheInv, MetOK
  <2> QED BY <1>5, <1>9, <2>2
<1>12. AnswerOK'
  BY <1>1, <1>5, <1>9 DEF CacheInv, AnswerOK
<1>13. SearchSafe(m) /\ DetailSafe(m) /\ ListSafe(m)
  BY <1>1 DEF CacheInv, ContextOK
<1>14. CardsOK'
  <2> SUFFICES ASSUME NEW q \in Queries, NEW c \in BarsOf(q), c \notin known',
                      cards'[q] # NoData,
                      c \notin BarsIn(Pending)'
               PROVE  cards'[q][c] = CardOf(c \in marks)
    BY <1>1 DEF CardsOK
  <2>1. c \in Bars /\ c \notin known /\ c \notin met[m]
    BY <1>7, <1>9
  <2>5. c # b \/ stage[m] = "sent"
    BY <1>4, <1>9
  <2>2. CASE q = Search
    BY <1>8, <1>13, <2>1, <2>2, <2>5 DEF SearchSafe, b
  <2>3. CASE q = b
    <3>1. c = b
      BY <1>6, <1>7, <2>3
    <3> QED BY <1>8, <1>13, <2>1, <2>3, <2>5, <3>1 DEF DetailSafe, b
  <2>4. CASE q \notin {Search, b}
    <3>1. c = q
      BY <1>7, <2>4
    <3>2. c \notin BarsIn(Pending) /\ cards'[q] = cards[q]
      BY <1>5, <1>8, <2>4, <3>1
    <3> QED BY <2>1, <3>2 DEF CacheInv, CardsOK
  <2> QED BY <2>2, <2>3, <2>4
<1>15. ContextOK'
  <2> SUFFICES ASSUME NEW n \in Pending'
               PROVE  SearchSafe(n)' /\ DetailSafe(n)' /\ ListSafe(n)'
    BY DEF ContextOK
  <2>1. n \in Pending /\ mutation'[n].bar \in known'
    BY <1>1, <1>5, <1>9 DEF CacheInv, MetOK
  <2>2. SearchSafe(n)'
    BY <1>1, <1>5, <1>9, <2>1 DEF CacheInv, ContextOK, SearchSafe
  <2>3. DetailSafe(n)'
    BY <2>1 DEF DetailSafe
  <2>4. ListSafe(n)'
    BY <1>1, <1>5, <2>1 DEF CacheInv, ContextOK, ListSafe, ServerList
  <2> QED BY <2>2, <2>3, <2>4
<1>16. FetchOK'
  BY <1>1, <1>9 DEF CacheInv, FetchOK, ServerList
<1>17. ListOK'
  <2> SUFFICES ASSUME List \notin known' PROVE list' = ServerList
    BY <1>1 DEF ListOK, ServerList
  <2> QED BY <1>1, <1>4, <1>9, <1>13 DEF ListSafe
<1> QED BY <1>10, <1>11, <1>12, <1>14, <1>15, <1>16, <1>17 DEF CacheInv

-----------------------------------------------------------------------------
LEMMA CacheStutterStep == ASSUME CacheInv, UNCHANGED cacheVars PROVE CacheInv'
BY FetchStep DEF cacheVars, lists, cacheHistory, CacheInv, CacheTypes, FetchOK, ServerList

LEMMA CacheInitHolds == ASSUME CacheInit PROVE CacheInv
<1>1. marks \in SUBSET Bars /\ Pending = {} /\ BarsIn(Pending) = {}
  BY DEF CacheInit, Pending, BarsIn
<1>2. \A q \in Fetched : fetch[q] = NoFetch
  BY DEF CacheInit
<1>3. /\ cards[Search] = ServerCards(Search)
      /\ \A q \in Queries \ {Search} : cards[q] = NoData
  BY QueryFacts DEF CacheInit
<1>4. CacheTypes
  <2>1. \A q \in Queries : cards[q] \in {NoData} \cup CardData(q)
    BY <1>1, <1>3, ServerData
  <2>2. cards \in [Queries -> AnyData]
    BY <2>1 DEF CacheInit, AnyData
  <2>3. list \in ListData
    BY <1>1, ServerData DEF CacheInit
  <2> QED BY <2>1, <2>2, <2>3, FetchValues DEF CacheInit, CacheTypes
<1>5. CardsOK
  BY <1>1, <1>3, ServerData, QueryFacts DEF CardsOK
<1>6. FetchOK
  BY <1>2, FetchValues, QueryFacts DEF FetchOK
<1>7. MetOK /\ AnswerOK /\ ContextOK /\ ListOK
  BY <1>1 DEF CacheInit, MetOK, AnswerOK, ContextOK, ListOK
<1> QED BY <1>4, <1>5, <1>6, <1>7 DEF CacheInv

LEMMA CacheNextHolds ==
    ASSUME CacheInv, [CacheNext]_cacheVars
    PROVE  CacheInv'
<1>1. CASE UNCHANGED cacheVars
  BY <1>1, CacheStutterStep
<1>2. ASSUME NEW q \in Fetched, Ask(q) \/ Answer(q) \/ Deliver(q) \/ FailFetch(q)
      PROVE  CacheInv'
  BY <1>2, AskStep, AnswerStep, DeliverStep, FailFetchStep
<1>3. CASE OpenList \/ CloseList \/ Rest
  BY <1>3, OpenListStep, CloseListStep, CacheStutterStep DEF Rest
<1>4. ASSUME NEW m \in Mutations,
             \/ \E b \in Bars, action \in {"add", "remove"} : Mutate(m, b, action)
             \/ ServeMutation(m) \/ ServeLate(m) \/ Succeed(m) \/ Fail(m)
      PROVE  CacheInv'
  BY <1>4, MutateStep, CacheServeStep, ServeLateStep, SucceedStep, FailStep
<1> QED BY <1>1, <1>2, <1>3, <1>4 DEF CacheNext

LEMMA CacheSound == CacheSpec => []CacheInv
<1>1. CacheInit => CacheInv
  BY CacheInitHolds
<1>2. CacheInv /\ [CacheNext]_cacheVars => CacheInv'
  BY CacheNextHolds
<1> QED BY <1>1, <1>2, PTL DEF CacheSpec

\* Of any number of mutations and fetches, overlapping, refused, lost or served
\* late, a card is left that agrees with the server, but for the known reasons
\* (use-bookmark-mutation.ts:83-169).
THEOREM CardsAreRight == CacheSpec => []CardsAgree
<1>1. CacheInv => CardsAgree
  <2> SUFFICES ASSUME CacheInv, AllOver PROVE CardsAgree
    BY DEF CardsAgree
  <2>1. BarsIn(Pending) = {}
    BY DEF AllOver, Pending, BarsIn
  <2> QED BY <2>1 DEF CacheInv, CardsOK, CardsAgree
<1> QED BY <1>1, CacheSound, PTL

\* The same of the list of bookmarks, unless it is invalidated
\* (use-bookmark-mutation.ts:114-167).
THEOREM ListIsRight == CacheSpec => []ListAgrees
<1>1. CacheInv => ListAgrees
  <2>1. AllOver => Pending = {}
    BY DEF AllOver, Pending
  <2> QED BY <2>1 DEF CacheInv, ListOK, ListAgrees
<1> QED BY <1>1, CacheSound, PTL
=============================================================================
