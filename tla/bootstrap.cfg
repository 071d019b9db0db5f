\* Two instances on one database, one of them stopped at any statement.
SPECIFICATION Spec
CONSTANTS
    Instances = {i1, i2}
    NumTestUsers = 0
    NumColumns = 2
    NumNames = 1
    Parts = 1
    BarIds = {1, 2, 3}
    EarlierBars = {1}
    MaxStops = 1
    NoRow = NoRow
    NoLock = NoLock
SYMMETRY Perms
INVARIANTS TypeOK EveryBarIsSearchable NothingHalfMade FailsOnce
