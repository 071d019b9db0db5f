\* Every started call ends, with the deadlocks of update and of two resolvers.
SPECIFICATION FairSpec
CONSTANTS
    Requests = {q1, q2, q3}
    ReviewIds = {r1}
    PhotoIds = {p1}
    Users = {u1, u2}
    Bars = {b1}
    Ratings = {1, 5}
    PhotoCounts = {0}
    Handlers = {"create", "update", "remove", "report", "resolve", "moderate", "adminDelete"}
    Alone = {}
    NoRequest = NoRequest
    NoCall = NoCall
    NoRating = NoRating
    NoRow = NoRow
PROPERTY EveryRequestAnswered
