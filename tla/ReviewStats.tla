---------------------------- MODULE ReviewStats ----------------------------
(***************************************************************************)
(* The per-bar aggregate row bar_review_stats and the SQL statements of    *)
(* ReviewStatsService that keep it (reviews/review-stats.service.ts), as   *)
(* pure operators on rows.  ratingAvg is left out: every statement that    *)
(* changes ratingSum or reviewCount recomputes it as their quotient.       *)
(* There is no state in this module; Reviews and ReviewPhotos use it.      *)
(***************************************************************************)
EXTENDS Integers, FiniteSets

CONSTANTS Ratings,      \* the stars a review may give, the CHECK on reviews.rating
          NoRow         \* the value of a primary key that no row has

ASSUME RatingsAssumption == Ratings \subseteq 1..5

StatsRow == [reviewCount : Nat, ratingCount : [Ratings -> Nat],
             ratingSum : Nat, photoReviewCount : Nat]

EmptyStats == [reviewCount |-> 0, ratingCount |-> [s \in Ratings |-> 0],
               ratingSum |-> 0, photoReviewCount |-> 0]

\* Mutant: a decrement without GREATEST.
MinusUnclamped(a, b) == a - b

\* GREATEST(0, a - b)
Minus(a, b) == IF a >= b THEN a - b ELSE 0

Flag(b) == IF b THEN 1 ELSE 0

IncrementStats(st, rating, hasPhotos) ==
    [reviewCount      |-> st.reviewCount + 1,
     ratingCount      |-> [st.ratingCount EXCEPT ![rating] = @ + 1],
     ratingSum        |-> st.ratingSum + rating,
     photoReviewCount |-> st.photoReviewCount + Flag(hasPhotos)]

DecrementStats(st, rating, hasPhotos) ==
    [reviewCount      |-> Minus(st.reviewCount, 1),
     ratingCount      |-> [st.ratingCount EXCEPT ![rating] = Minus(@, 1)],
     ratingSum        |-> Minus(st.ratingSum, rating),
     photoReviewCount |-> Minus(st.photoReviewCount, Flag(hasPhotos))]

\* old and new differ: the caller has compared them.
AdjustRating(st, old, new) ==
    [st EXCEPT !.ratingCount = [s \in Ratings |->
                                  CASE s = old -> Minus(st.ratingCount[s], 1)
                                    [] s = new -> st.ratingCount[s] + 1
                                    [] OTHER   -> st.ratingCount[s]],
               !.ratingSum   = Minus(@, old) + new]

\* Mutant: a correction without GREATEST.
AdjustUnclamped(st, delta) == [st EXCEPT !.photoReviewCount = @ + delta]

AdjustPhotoReviewCount(st, delta) ==
    [st EXCEPT !.photoReviewCount = IF @ + delta >= 0 THEN @ + delta ELSE 0]

-----------------------------------------------------------------------------
(***************************************************************************)
(* What recalculate() would write: the aggregate of the rows of a bar that *)
(* are PUBLISHED and not soft-deleted.                                     *)
(***************************************************************************)
Counted(rows, bar) ==
    {r \in DOMAIN rows : /\ rows[r] # NoRow
                         /\ rows[r].bar = bar
                         /\ ~rows[r].deleted
                         /\ rows[r].status = "PUBLISHED"}

Recalculate(rows, bar) ==
    LET counted == Counted(rows, bar)
        number(s) == Cardinality({r \in counted : rows[r].rating = s})
    IN  [reviewCount      |-> Cardinality(counted),
         ratingCount      |-> [s \in Ratings |-> number(s)],
         ratingSum        |-> number(1) + 2 * number(2) + 3 * number(3)
                                        + 4 * number(4) + 5 * number(5),
         photoReviewCount |-> Cardinality({r \in counted : rows[r].photoCount > 0})]
=============================================================================
