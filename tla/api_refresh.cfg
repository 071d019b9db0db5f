\* Three calls of two tabs that share their cookies.
SPECIFICATION FairSpec
CONSTANTS
    Tabs = {t1, t2}
    NumCalls = 3
    NoCall = NoCall
INVARIANTS TypeOK RefusedWithCause
PROPERTY EveryCallSettles
