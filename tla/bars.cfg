\* Calls of any handlers on one bar, all at once.
SPECIFICATION Spec
CONSTANTS
    Requests = {q1, q2}
    BarIds = {b1}
    Users = {u1}
    Days = {d1}
    EarlierPhotos = {p1}
    MaxPhotos = 2
    MaxFiles = 2
    Keep = Keep
    NoRow = NoRow
    NoCall = NoCall
    NoRead = NoRead
SYMMETRY Perms
INVARIANTS ApprovedIsReviewed EditsStand OneMenu AtMostMaxPhotos PhotoHasObject
PROPERTY DeletionLasts
