\* Three calls of two forms on two addresses, all at once.
SPECIFICATION Spec
CONSTANTS
    Requests = {q1, q2, q3}
    Emails = {e1, e2}
    Forms = {f1, f2}
    MaxFail = 1
    DailySendLimit = 2
    CodeLife = 0
    TokenLife = 1
    DayLength = 2
    MaxClock = 1
    NoRow = NoRow
    NoCall = NoCall
    Wrong = Wrong
    Ok = Ok
    Failed = Failed
SYMMETRY Perms
INVARIANTS TypeOK OneLiveCode OneTokenPerCode EveryMissCounts OnlyTheReaderProves
