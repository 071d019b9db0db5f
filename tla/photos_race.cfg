\* Three calls of any handlers on one review, all at once.
SPECIFICATION WatchedSpec
CONSTANTS
    Bars = {b1}
    Ratings = {5}
    NoRow = NoRow
    NoPhoto = NoPhoto
    NoCall = NoCall
    Handlers = {"upload", "removePhoto", "removeReview", "report"}
    Alone = {}
    Requests = {q1, q2, q3}
    ReviewIds = {r1}
    EarlierIds = {1, 2}
    PhotoIds = {1, 2, 3, 4, 5, 6, 7, 8}
    MaxPhotos = 3
    FileCounts = {1, 2}
INVARIANTS TypeOK AtMostMaxPhotos CountsExactAlone
PROPERTY FillsFreePlaces
