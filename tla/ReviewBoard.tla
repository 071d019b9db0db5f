---------------------------- MODULE ReviewBoard ----------------------------
(***************************************************************************)
(* What the users of the bars are promised about reviews: there is one     *)
(* board of live reviews, every call acts on it at once or not at all, and *)
(* the score of a bar is at any time that of the reviews the board shows.  *)
(* A decision about a report changes the review, all its pending reports   *)
(* and the audit log together.                                             *)
(***************************************************************************)
EXTENDS Integers, FiniteSets

CONSTANTS ReviewIds, Users, Bars, Ratings, NoRow

VARIABLES board,    \* the live reviews, NoRow for the others
          score,    \* for each bar, how many reviews give how many stars
          reports,  \* by review and reporter: none, PENDING or the decision
          audit     \* how often an action on a review is logged

boardVars == <<board, score, reports, audit>>

-----------------------------------------------------------------------------
Actions == {"REVIEW_HIDDEN", "REVIEW_RESTORED", "REVIEW_DELETED"}

Review(u, b, s) == [user |-> u, bar |-> b, rating |-> s, status |-> "PUBLISHED"]

Live(r) == board[r] # NoRow

Has(u, b) == \E r \in ReviewIds : Live(r) /\ board[r].user = u /\ board[r].bar = b

Shown(b, s) ==
    {r \in ReviewIds : /\ Live(r)
                       /\ board[r].status = "PUBLISHED"
                       /\ board[r].bar = b
                       /\ board[r].rating = s}

Score == [b \in Bars |-> [s \in Ratings |-> Cardinality(Shown(b, s))]]

Init ==
    /\ board \in [ReviewIds -> {Review(u, b, s) : u \in Users, b \in Bars, s \in Ratings}
                                  \cup {NoRow}]
    /\ \A r, o \in ReviewIds : Live(r) /\ Live(o) /\ board[r].user = board[o].user
                                  /\ board[r].bar = board[o].bar => r = o
    /\ score = Score
    /\ reports = [k \in ReviewIds \X Users |-> "none"]
    /\ audit = [r \in ReviewIds |-> [t \in Actions |-> 0]]

-----------------------------------------------------------------------------
Log(r, t) == audit' = [audit EXCEPT ![r][t] = @ + 1]

SetStatus(r, s) == board' = [board EXCEPT ![r].status = s]

Take(r) == board' = [board EXCEPT ![r] = NoRow]

Post(r, u, b, s) ==
    /\ ~Live(r) /\ ~Has(u, b)
    /\ board' = [board EXCEPT ![r] = Review(u, b, s)]
    /\ UNCHANGED <<reports, audit>>

Rate(r, s) ==
    /\ Live(r)
    /\ board' = [board EXCEPT ![r].rating = s]
    /\ UNCHANGED <<reports, audit>>

Remove(r) == Live(r) /\ Take(r) /\ UNCHANGED <<reports, audit>>

AdminDelete(r) == Live(r) /\ Take(r) /\ Log(r, "REVIEW_DELETED") /\ UNCHANGED reports

\* Moderation by hand leaves the reports alone.
Decide(r, s) ==
    /\ SetStatus(r, s)
    /\ Log(r, IF s = "PUBLISHED" THEN "REVIEW_RESTORED" ELSE "REVIEW_HIDDEN")

Moderate(r, s) == Live(r) /\ board[r].status # s /\ Decide(r, s) /\ UNCHANGED reports

Report(r, u) ==
    /\ Live(r) /\ board[r].status # "HIDDEN" /\ board[r].user # u
    /\ reports[<<r, u>>] = "none"
    /\ reports' = [reports EXCEPT ![<<r, u>>] = "PENDING"]
    /\ SetStatus(r, "REPORTED")
    /\ UNCHANGED audit

\* All pending reports of a review are decided with it; what is gone, or is
\* already as decided, is left.
Resolve(r, a) ==
    LET s == IF a = "RESTORED" THEN "PUBLISHED" ELSE "HIDDEN"
    IN  /\ \E u \in Users : reports[<<r, u>>] = "PENDING"
        /\ reports' = [k \in ReviewIds \X Users |->
                          IF k[1] = r /\ reports[k] = "PENDING" THEN a ELSE reports[k]]
        /\ CASE ~Live(r) -> UNCHANGED <<board, audit>>
             [] Live(r) /\ a = "DELETED" -> Take(r) /\ Log(r, "REVIEW_DELETED")
             [] Live(r) /\ a # "DELETED" /\ board[r].status # s -> Decide(r, s)
             [] Live(r) /\ a # "DELETED" /\ board[r].status = s -> UNCHANGED <<board, audit>>

Act ==
    \E r \in ReviewIds :
        \/ \E u \in Users, b \in Bars, s \in Ratings : Post(r, u, b, s)
        \/ \E s \in Ratings : Rate(r, s)
        \/ Remove(r) \/ AdminDelete(r)
        \/ \E s \in {"PUBLISHED", "HIDDEN", "REPORTED"} : Moderate(r, s)
        \/ \E u \in Users : Report(r, u)
        \/ \E a \in {"RESTORED", "HIDDEN", "DELETED"} : Resolve(r, a)

\* Whatever is done, the scores are those of the board.
Next == Act /\ score' = Score'

Spec == Init /\ [][Next]_boardVars
=============================================================================
