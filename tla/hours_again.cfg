\* One call on a bar.
SPECIFICATION Spec
CONSTANTS
    Requests = {q1}
    BarIds = {b1}
    Users = {u1}
    Days = {d1}
    EarlierPhotos = {}
    MaxPhotos = 2
    MaxFiles = 1
    Keep = Keep
    NoRow = NoRow
    NoCall = NoCall
    NoRead = NoRead
INVARIANT HoursReplaced
