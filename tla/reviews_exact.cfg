\* Four calls: those that lock the review first at once, the others alone.
SPECIFICATION Spec
CONSTANTS
    ReviewIds = {r1, r2}
    Bars = {b1}
    NoRequest = NoRequest
    NoCall = NoCall
    NoRating = NoRating
    NoRow = NoRow
    Requests = {q1, q2, q3, q4}
    PhotoIds = {p1}
    Users = {u1, u2, u3}
    Ratings = {1, 5}
    PhotoCounts = {0, 1}
    Handlers = {"create", "update", "remove", "report", "resolve", "adminDelete"}
    Alone = {"update", "remove", "adminDelete"}
SYMMETRY Perms
INVARIANTS StatsExact ReportedIffPending
PROPERTIES ResolutionIsFinal ActsAtOnce
