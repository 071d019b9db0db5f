\* Three calls of any handlers, all at once.
SPECIFICATION Spec
CONSTANTS
    Requests = {q1, q2, q3}
    ReviewIds = {r1, r2}
    PhotoIds = {p1, p2}
    Users = {u1, u2}
    Bars = {b1}
    Ratings = {1, 5}
    PhotoCounts = {0, 2}
    Handlers = {"create", "update", "remove", "report", "resolve", "moderate", "adminDelete"}
    Alone = {}
    NoRequest = NoRequest
    NoCall = NoCall
    NoRating = NoRating
    NoRow = NoRow
SYMMETRY Perms
INVARIANTS TypeOK OneActiveReviewPerBar HiddenIsAudited OnlyKnownDeadlocks
