------------------------- MODULE ReviewStats_proofs -------------------------
(***************************************************************************)
(* Lemmas about the statements on bar_review_stats, used by the proofs     *)
(* about Reviews and ReviewPhotos.                                         *)
(***************************************************************************)
EXTENDS ReviewStats, FiniteSetTheorems, TLAPS

\* The statements of ReviewStatsService keep the aggregate row a row of natural
\* numbers: GREATEST(0, ...) is what makes the decrements safe.
LEMMA StatsTyped ==
    ASSUME NEW st \in StatsRow, NEW rating \in Ratings, NEW hasPhotos \in BOOLEAN
    PROVE  /\ IncrementStats(st, rating, hasPhotos) \in StatsRow
           /\ DecrementStats(st, rating, hasPhotos) \in StatsRow
           /\ \A new \in Ratings : AdjustRating(st, rating, new) \in StatsRow
           /\ \A delta \in Int : AdjustPhotoReviewCount(st, delta) \in StatsRow
<1>1. rating \in Nat /\ Ratings \subseteq Nat
  BY RatingsAssumption
<1>2. Flag(hasPhotos) \in Nat
  BY DEF Flag
<1>3. \A a, b \in Nat : Minus(a, b) \in Nat
  BY DEF Minus
<1>4. /\ st.reviewCount \in Nat /\ st.ratingSum \in Nat /\ st.photoReviewCount \in Nat
      /\ st.ratingCount \in [Ratings -> Nat]
  BY DEF StatsRow
<1>5. IncrementStats(st, rating, hasPhotos) \in StatsRow
  BY <1>1, <1>2, <1>4 DEF IncrementStats, StatsRow
<1>6. DecrementStats(st, rating, hasPhotos) \in StatsRow
  BY <1>1, <1>2, <1>3, <1>4 DEF DecrementStats, StatsRow
<1>7. ASSUME NEW new \in Ratings PROVE AdjustRating(st, rating, new) \in StatsRow
  <2>1. Minus(st.ratingSum, rating) + new \in Nat
    <3>1. rating \in Nat /\ new \in Nat /\ st.ratingSum \in Nat
      BY <1>1, <1>4
    <3>2. Minus(st.ratingSum, rating) \in Nat
      BY <3>1 DEF Minus
    <3> QED BY <3>1, <3>2
  <2>2. [s \in Ratings |-> CASE s = rating -> Minus(st.ratingCount[s], 1)
                             [] s = new    -> st.ratingCount[s] + 1
                             [] OTHER      -> st.ratingCount[s]] \in [Ratings -> Nat]
    <3>1. \A s \in Ratings : st.ratingCount[s] \in Nat
      BY <1>4
    <3> QED BY <1>3, <3>1
  <2> QED BY <1>4, <2>1, <2>2 DEF AdjustRating, StatsRow
<1>8. \A delta \in Int : AdjustPhotoReviewCount(st, delta) \in StatsRow
  BY <1>4 DEF AdjustPhotoReviewCount, StatsRow
<1> QED BY <1>5, <1>6, <1>7, <1>8

\* What recalculate() computes is a row of natural numbers.
LEMMA RecalculateTyped ==
    ASSUME NEW rows, IsFiniteSet(DOMAIN rows), NEW bar
    PROVE  Recalculate(rows, bar) \in StatsRow
<1> DEFINE counted == Counted(rows, bar)
           number(s) == Cardinality({r \in counted : rows[r].rating = s})
<1>1. IsFiniteSet(counted)
  <2>1. counted \subseteq DOMAIN rows
    BY DEF Counted
  <2> QED BY <2>1, FS_Subset
<1>2. \A S : S \subseteq counted => Cardinality(S) \in Nat
  BY <1>1, FS_Subset, FS_CardinalityType
<1>3. \A s : number(s) \in Nat
  BY <1>2
<1>4. Cardinality(counted) \in Nat
  BY <1>2
<1>5. Cardinality({r \in counted : rows[r].photoCount > 0}) \in Nat
  BY <1>2
<1>6. number(1) + 2 * number(2) + 3 * number(3) + 4 * number(4) + 5 * number(5) \in Nat
  <2>1. /\ number(1) \in Nat /\ number(2) \in Nat /\ number(3) \in Nat
        /\ number(4) \in Nat /\ number(5) \in Nat
    BY <1>3
  <2> HIDE DEF number
  <2> QED BY <2>1
<1>7. [s \in Ratings |-> number(s)] \in [Ratings -> Nat]
  BY <1>3
<1> QED BY <1>4, <1>5, <1>6, <1>7 DEF Recalculate, StatsRow

\* An aggregate row decreased by what it was increased by is the same again.
LEMMA DecrementIncrement ==
    ASSUME NEW st \in StatsRow, NEW rating \in Ratings, NEW hasPhotos \in BOOLEAN
    PROVE  DecrementStats(IncrementStats(st, rating, hasPhotos), rating, hasPhotos) = st
<1>1. rating \in Nat /\ Flag(hasPhotos) \in Nat
  BY RatingsAssumption DEF Flag
<1>2. /\ st.reviewCount \in Nat /\ st.ratingSum \in Nat /\ st.photoReviewCount \in Nat
      /\ st.ratingCount \in [Ratings -> Nat]
      /\ st = [reviewCount |-> st.reviewCount, ratingCount |-> st.ratingCount,
               ratingSum |-> st.ratingSum, photoReviewCount |-> st.photoReviewCount]
  BY DEF StatsRow
<1>3. \A a, n \in Nat : Minus(a + n, n) = a
  BY DEF Minus
<1> DEFINE up == [st.ratingCount EXCEPT ![rating] = @ + 1]
<1>4. [up EXCEPT ![rating] = Minus(@, 1)] = st.ratingCount
  <2>1. st.ratingCount[rating] \in Nat
    BY <1>2
  <2>2. Minus(st.ratingCount[rating] + 1, 1) = st.ratingCount[rating]
    BY <1>3, <2>1
  <2> QED BY <1>2, <2>2
<1>5. /\ Minus(st.reviewCount + 1, 1) = st.reviewCount
      /\ Minus(st.ratingSum + rating, rating) = st.ratingSum
      /\ Minus(st.photoReviewCount + Flag(hasPhotos), Flag(hasPhotos)) = st.photoReviewCount
  BY <1>1, <1>2, <1>3
<1>6. DecrementStats(IncrementStats(st, rating, hasPhotos), rating, hasPhotos)
        = [reviewCount      |-> Minus(st.reviewCount + 1, 1),
           ratingCount      |-> [up EXCEPT ![rating] = Minus(@, 1)],
           ratingSum        |-> Minus(st.ratingSum + rating, rating),
           photoReviewCount |-> Minus(st.photoReviewCount + Flag(hasPhotos), Flag(hasPhotos))]
  BY DEF IncrementStats, DecrementStats
<1> QED BY <1>2, <1>4, <1>5, <1>6

\* A corrected rating: as if the review had been counted with the new one.
LEMMA AdjustIncrement ==
    ASSUME NEW st \in StatsRow, NEW old \in Ratings, NEW new \in Ratings, old # new,
           NEW hasPhotos \in BOOLEAN
    PROVE  AdjustRating(IncrementStats(st, old, hasPhotos), old, new)
             = IncrementStats(st, new, hasPhotos)
<1>1. old \in Nat /\ new \in Nat
  BY RatingsAssumption
<1>2. st.ratingSum \in Nat /\ st.ratingCount \in [Ratings -> Nat]
  BY DEF StatsRow
<1>3. Minus(st.ratingSum + old, old) + new = st.ratingSum + new
  BY <1>1, <1>2 DEF Minus
<1> DEFINE up == [st.ratingCount EXCEPT ![old] = @ + 1]
           moved == [s \in Ratings |-> CASE s = old -> Minus(up[s], 1)
                                         [] s = new -> up[s] + 1
                                         [] OTHER   -> up[s]]
<1>4. moved = [st.ratingCount EXCEPT ![new] = @ + 1]
  <2>1. ASSUME NEW s \in Ratings PROVE moved[s] = [st.ratingCount EXCEPT ![new] = @ + 1][s]
    <3>1. st.ratingCount[s] \in Nat
      BY <1>2
    <3>2. CASE s = old
      BY <1>2, <3>1, <3>2 DEF Minus
    <3>3. CASE s = new
      BY <1>2, <3>1, <3>3
    <3>4. CASE s # old /\ s # new
      BY <1>2, <3>1, <3>4
    <3> QED BY <3>2, <3>3, <3>4
  <2>2. moved \in [Ratings -> Nat] /\ [st.ratingCount EXCEPT ![new] = @ + 1] \in [Ratings -> Nat]
    <3>1. [st.ratingCount EXCEPT ![new] = @ + 1] \in [Ratings -> Nat]
      BY <1>2
    <3> QED BY <2>1, <3>1
  <2> QED BY <2>1, <2>2
<1> DEFINE inc == [reviewCount      |-> st.reviewCount + 1,
                   ratingCount      |-> up,
                   ratingSum        |-> st.ratingSum + old,
                   photoReviewCount |-> st.photoReviewCount + Flag(hasPhotos)]
<1>5. inc = IncrementStats(st, old, hasPhotos)
  BY DEF IncrementStats
<1>6. AdjustRating(inc, old, new)
        = [inc EXCEPT !.ratingCount = moved, !.ratingSum = Minus(inc.ratingSum, old) + new]
  BY DEF AdjustRating
<1>7. inc.ratingSum = st.ratingSum + old
  OBVIOUS
<1> HIDE DEF moved, up
<1>8. AdjustRating(inc, old, new)
        = [reviewCount      |-> st.reviewCount + 1,
           ratingCount      |-> moved,
           ratingSum        |-> Minus(st.ratingSum + old, old) + new,
           photoReviewCount |-> st.photoReviewCount + Flag(hasPhotos)]
  BY <1>6, <1>7
<1> QED BY <1>3, <1>4, <1>5, <1>8 DEF IncrementStats

-----------------------------------------------------------------------------
(* What a change of one review does to the aggregate that recalculate()     *)
(* would compute.                                                           *)

\* Whether recalculate() counts a row for a bar.
Counts(row, bar) == row # NoRow /\ row.bar = bar /\ ~row.deleted /\ row.status = "PUBLISHED"

\* Two tables that differ at most in the row r.
DifferAt(rows, new, r) ==
    /\ IsFiniteSet(DOMAIN rows) /\ DOMAIN new = DOMAIN rows /\ r \in DOMAIN rows
    /\ \A x \in DOMAIN rows \ {r} : new[x] = rows[x]

\* A row that is counted neither before nor after changes nothing.
LEMMA RecalculateSame ==
    ASSUME NEW rows, NEW new, NEW r, DifferAt(rows, new, r), NEW bar,
           ~Counts(rows[r], bar), ~Counts(new[r], bar)
    PROVE  Recalculate(new, bar) = Recalculate(rows, bar)
<1>1. Counted(new, bar) = Counted(rows, bar)
  BY DEF Counted, Counts, DifferAt
<1>2. \A x \in Counted(rows, bar) : new[x] = rows[x]
  BY DEF Counted, Counts, DifferAt
<1>3. /\ \A s : {x \in Counted(new, bar) : new[x].rating = s}
                  = {x \in Counted(rows, bar) : rows[x].rating = s}
      /\ {x \in Counted(new, bar) : new[x].photoCount > 0}
           = {x \in Counted(rows, bar) : rows[x].photoCount > 0}
  BY <1>1, <1>2
<1> QED BY <1>1, <1>3 DEF Recalculate

\* A row that comes to be counted adds itself.
LEMMA RecalculateAdd ==
    ASSUME NEW rows, NEW new, NEW r, DifferAt(rows, new, r), NEW bar,
           ~Counts(rows[r], bar), Counts(new[r], bar), new[r].rating \in Ratings
    PROVE  Recalculate(new, bar)
             = IncrementStats(Recalculate(rows, bar), new[r].rating, new[r].photoCount > 0)
<1> DEFINE before == Counted(rows, bar)
           With(s) == {x \in before : rows[x].rating = s}
           number(s) == Cardinality(With(s))
           photos == {x \in before : rows[x].photoCount > 0}
           after == Counted(new, bar)
           WithNew(s) == {x \in after : new[x].rating = s}
           numberNew(s) == Cardinality(WithNew(s))
           photosNew == {x \in after : new[x].photoCount > 0}
<1>1. after = before \cup {r} /\ r \notin before
  BY DEF Counted, Counts, DifferAt
<1>2. \A x \in before : new[x] = rows[x]
  BY DEF Counted, Counts, DifferAt
<1>3. IsFiniteSet(before) /\ IsFiniteSet(photos) /\ \A s : IsFiniteSet(With(s))
  <2>1. /\ before \subseteq DOMAIN rows /\ photos \subseteq DOMAIN rows
        /\ \A s : With(s) \subseteq DOMAIN rows
    BY DEF Counted
  <2>2. IsFiniteSet(DOMAIN rows)
    BY DEF DifferAt
  <2> QED BY <2>1, <2>2, FS_Subset
<1>4. Cardinality(after) = Cardinality(before) + 1
  BY <1>1, <1>3, FS_AddElement
<1>5. ASSUME NEW s PROVE numberNew(s) = IF s = new[r].rating THEN number(s) + 1 ELSE number(s)
  <2>1. CASE s = new[r].rating
    <3>1. WithNew(s) = With(s) \cup {r} /\ r \notin With(s)
      BY <1>1, <1>2, <2>1
    <3>2. IsFiniteSet(With(s))
      BY <1>3
    <3> HIDE DEF With, WithNew
    <3>3. Cardinality(With(s) \cup {r}) = Cardinality(With(s)) + 1
      BY <3>1, <3>2, FS_AddElement
    <3> QED BY <2>1, <3>1, <3>3
  <2>2. CASE s # new[r].rating
    <3>1. WithNew(s) = With(s)
      BY <1>1, <1>2, <2>2
    <3> QED BY <2>2, <3>1
  <2> QED BY <2>1, <2>2
<1>6. \A s : number(s) \in Nat
  BY <1>3, FS_CardinalityType
<1>7. Cardinality(photosNew) = Cardinality(photos) + Flag(new[r].photoCount > 0)
  <2>1. Cardinality(photos) \in Nat
    BY <1>3, FS_CardinalityType
  <2>2. CASE new[r].photoCount > 0
    <3>1. photosNew = photos \cup {r} /\ r \notin photos
      BY <1>1, <1>2, <2>2
    <3>2. Flag(new[r].photoCount > 0) = 1
      BY <2>2 DEF Flag
    <3> QED BY <1>3, <3>1, <3>2, FS_AddElement
  <2>3. CASE ~(new[r].photoCount > 0)
    <3>1. photosNew = photos
      BY <1>1, <1>2, <2>3
    <3>2. Flag(new[r].photoCount > 0) = 0
      BY <2>3 DEF Flag
    <3> HIDE DEF photos, photosNew
    <3> QED BY <2>1, <3>1, <3>2
  <2> QED BY <2>2, <2>3
<1>8. Recalculate(rows, bar)
        = [reviewCount      |-> Cardinality(before),
           ratingCount      |-> [s \in Ratings |-> number(s)],
           ratingSum        |-> number(1) + 2 * number(2) + 3 * number(3)
                                          + 4 * number(4) + 5 * number(5),
           photoReviewCount |-> Cardinality(photos)]
  BY DEF Recalculate
<1>9. Recalculate(new, bar)
        = [reviewCount      |-> Cardinality(after),
           ratingCount      |-> [s \in Ratings |-> numberNew(s)],
           ratingSum        |-> numberNew(1) + 2 * numberNew(2) + 3 * numberNew(3)
                                             + 4 * numberNew(4) + 5 * numberNew(5),
           photoReviewCount |-> Cardinality(photosNew)]
  BY DEF Recalculate
<1> HIDE DEF number, numberNew, photos, photosNew, before, after
<1>10. [s \in Ratings |-> numberNew(s)]
        = [[s \in Ratings |-> number(s)] EXCEPT ![new[r].rating] = @ + 1]
  BY <1>5
<1>11. numberNew(1) + 2 * numberNew(2) + 3 * numberNew(3) + 4 * numberNew(4) + 5 * numberNew(5)
         = number(1) + 2 * number(2) + 3 * number(3) + 4 * number(4) + 5 * number(5)
             + new[r].rating
  <2>1. new[r].rating \in 1 .. 5
    BY RatingsAssumption
  <2>2. \/ new[r].rating = 1 \/ new[r].rating = 2 \/ new[r].rating = 3
        \/ new[r].rating = 4 \/ new[r].rating = 5
    BY <2>1
  <2>3. /\ number(1) \in Nat /\ number(2) \in Nat /\ number(3) \in Nat
        /\ number(4) \in Nat /\ number(5) \in Nat
    BY <1>6
  <2>4. /\ numberNew(1) = IF 1 = new[r].rating THEN number(1) + 1 ELSE number(1)
        /\ numberNew(2) = IF 2 = new[r].rating THEN number(2) + 1 ELSE number(2)
        /\ numberNew(3) = IF 3 = new[r].rating THEN number(3) + 1 ELSE number(3)
        /\ numberNew(4) = IF 4 = new[r].rating THEN number(4) + 1 ELSE number(4)
        /\ numberNew(5) = IF 5 = new[r].rating THEN number(5) + 1 ELSE number(5)
    BY <1>5
  <2> QED BY <2>2, <2>3, <2>4
<1>12. IncrementStats(Recalculate(rows, bar), new[r].rating, new[r].photoCount > 0)
         = [reviewCount      |-> Cardinality(before) + 1,
            ratingCount      |-> [[s \in Ratings |-> number(s)] EXCEPT ![new[r].rating] = @ + 1],
            ratingSum        |-> number(1) + 2 * number(2) + 3 * number(3) + 4 * number(4)
                                   + 5 * number(5) + new[r].rating,
            photoReviewCount |-> Cardinality(photos) + Flag(new[r].photoCount > 0)]
  BY <1>8 DEF IncrementStats
<1> QED BY <1>4, <1>7, <1>9, <1>10, <1>11, <1>12

\* A row that ceases to be counted takes itself away.
LEMMA RecalculateDrop ==
    ASSUME NEW rows, NEW new, NEW r, DifferAt(rows, new, r), NEW bar,
           Counts(rows[r], bar), ~Counts(new[r], bar), rows[r].rating \in Ratings
    PROVE  Recalculate(new, bar)
             = DecrementStats(Recalculate(rows, bar), rows[r].rating, rows[r].photoCount > 0)
<1>1. DifferAt(new, rows, r)
  BY DEF DifferAt
<1>2. Recalculate(rows, bar)
        = IncrementStats(Recalculate(new, bar), rows[r].rating, rows[r].photoCount > 0)
  BY <1>1, RecalculateAdd
<1>3. Recalculate(new, bar) \in StatsRow
  BY <1>1, RecalculateTyped DEF DifferAt
<1>4. (rows[r].photoCount > 0) \in BOOLEAN
  OBVIOUS
<1> QED BY <1>2, <1>3, <1>4, DecrementIncrement

\* A counted row that gets another rating.
LEMMA RecalculateRating ==
    ASSUME NEW rows, NEW new, NEW r, DifferAt(rows, new, r), NEW bar,
           Counts(rows[r], bar), Counts(new[r], bar),
           rows[r].rating \in Ratings, new[r].rating \in Ratings,
           new[r].rating # rows[r].rating, new[r].photoCount = rows[r].photoCount
    PROVE  Recalculate(new, bar)
             = AdjustRating(Recalculate(rows, bar), rows[r].rating, new[r].rating)
<1> DEFINE without == [x \in DOMAIN rows |-> IF x = r THEN NoRow ELSE rows[x]]
<1>1. /\ DifferAt(without, rows, r) /\ DifferAt(without, new, r) /\ without[r] = NoRow
      /\ IsFiniteSet(DOMAIN without)
  BY DEF DifferAt
<1>2. ~Counts(NoRow, bar)
  BY DEF Counts
<1> HIDE DEF without
<1>3. Recalculate(rows, bar)
        = IncrementStats(Recalculate(without, bar), rows[r].rating, rows[r].photoCount > 0)
  BY <1>1, <1>2, RecalculateAdd
<1>4. Recalculate(new, bar)
        = IncrementStats(Recalculate(without, bar), new[r].rating, rows[r].photoCount > 0)
  BY <1>1, <1>2, RecalculateAdd
<1>5. Recalculate(without, bar) \in StatsRow
  BY <1>1, RecalculateTyped
<1>6. \A st \in StatsRow, a, b \in Ratings, p \in BOOLEAN :
         a # b => AdjustRating(IncrementStats(st, a, p), a, b) = IncrementStats(st, b, p)
  BY AdjustIncrement
<1>7. PICK p \in BOOLEAN : p = (rows[r].photoCount > 0)
  <2> DEFINE P == rows[r].photoCount > 0
  <2>1. P \in BOOLEAN
    OBVIOUS
  <2> HIDE DEF P
  <2>2. \E p \in BOOLEAN : p = P
    BY <2>1, Zenon
  <2> QED BY <2>2 DEF P
<1>8. /\ Recalculate(rows, bar) = IncrementStats(Recalculate(without, bar), rows[r].rating, p)
      /\ Recalculate(new, bar) = IncrementStats(Recalculate(without, bar), new[r].rating, p)
  BY <1>3, <1>4, <1>7
<1> QED BY <1>5, <1>6, <1>8

\* A corrected photoReviewCount: as if the review had been counted with the
\* photos it has now.
LEMMA PhotosIncrement ==
    ASSUME NEW st \in StatsRow, NEW rating \in Ratings
    PROVE  /\ AdjustPhotoReviewCount(IncrementStats(st, rating, FALSE), 1)
                = IncrementStats(st, rating, TRUE)
           /\ AdjustPhotoReviewCount(IncrementStats(st, rating, TRUE), -1)
                = IncrementStats(st, rating, FALSE)
<1>1. st.photoReviewCount \in Nat
  BY DEF StatsRow
<1> DEFINE Row(n) == [reviewCount      |-> st.reviewCount + 1,
                      ratingCount      |-> [st.ratingCount EXCEPT ![rating] = @ + 1],
                      ratingSum        |-> st.ratingSum + rating,
                      photoReviewCount |-> n]
<1>2. /\ IncrementStats(st, rating, FALSE) = Row(st.photoReviewCount + 0)
      /\ IncrementStats(st, rating, TRUE) = Row(st.photoReviewCount + 1)
  BY DEF IncrementStats, Flag
<1>3. /\ \A n \in Nat : AdjustPhotoReviewCount(Row(n), 1) = Row(n + 1)
      /\ \A n \in Nat : AdjustPhotoReviewCount(Row(n + 1), -1) = Row(n)
  BY DEF AdjustPhotoReviewCount
<1> HIDE DEF Row
<1>4. st.photoReviewCount + 0 = st.photoReviewCount
  BY <1>1
<1> QED BY <1>1, <1>2, <1>3, <1>4

\* A counted row that gets another number of photos.
LEMMA RecalculatePhotos ==
    ASSUME NEW rows, NEW new, NEW r, DifferAt(rows, new, r), NEW bar,
           Counts(rows[r], bar), Counts(new[r], bar),
           rows[r].rating \in Ratings, new[r].rating = rows[r].rating
    PROVE  /\ ((rows[r].photoCount > 0) <=> (new[r].photoCount > 0)) =>
                 Recalculate(new, bar) = Recalculate(rows, bar)
           /\ ~(rows[r].photoCount > 0) /\ new[r].photoCount > 0 =>
                 Recalculate(new, bar) = AdjustPhotoReviewCount(Recalculate(rows, bar), 1)
           /\ rows[r].photoCount > 0 /\ ~(new[r].photoCount > 0) =>
                 Recalculate(new, bar) = AdjustPhotoReviewCount(Recalculate(rows, bar), -1)
<1> DEFINE without == [x \in DOMAIN rows |-> IF x = r THEN NoRow ELSE rows[x]]
           base == Recalculate(without, bar)
           rating == rows[r].rating
<1>1. /\ DifferAt(without, rows, r) /\ DifferAt(without, new, r) /\ without[r] = NoRow
      /\ IsFiniteSet(DOMAIN without)
  BY DEF DifferAt
<1>2. ~Counts(NoRow, bar)
  BY DEF Counts
<1> HIDE DEF without
<1>3. Recalculate(rows, bar) = IncrementStats(base, rating, rows[r].photoCount > 0)
  BY <1>1, <1>2, RecalculateAdd
<1>4. Recalculate(new, bar) = IncrementStats(base, rating, new[r].photoCount > 0)
  BY <1>1, <1>2, RecalculateAdd
<1>5. base \in StatsRow
  BY <1>1, RecalculateTyped
<1>6. /\ AdjustPhotoReviewCount(IncrementStats(base, rating, FALSE), 1)
            = IncrementStats(base, rating, TRUE)
      /\ AdjustPhotoReviewCount(IncrementStats(base, rating, TRUE), -1)
            = IncrementStats(base, rating, FALSE)
  BY <1>5, PhotosIncrement
<1> HIDE DEF base
<1>7. /\ rows[r].photoCount > 0 => Recalculate(rows, bar) = IncrementStats(base, rating, TRUE)
      /\ ~(rows[r].photoCount > 0) => Recalculate(rows, bar) = IncrementStats(base, rating, FALSE)
  BY <1>3 DEF IncrementStats, Flag
<1>8. /\ new[r].photoCount > 0 => Recalculate(new, bar) = IncrementStats(base, rating, TRUE)
      /\ ~(new[r].photoCount > 0) => Recalculate(new, bar) = IncrementStats(base, rating, FALSE)
  BY <1>4 DEF IncrementStats, Flag
<1> QED BY <1>6, <1>7, <1>8
=============================================================================
