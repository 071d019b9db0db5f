\* Three changes of the bookmarks of two bars, and a fetch at any time.
SPECIFICATION CacheSpec
CONSTANTS
    Bars = {b1, b2}
    Search = Search
    List = List
    NumMutations = 3
    MaxFetches = 1
    NoData = NoData
SYMMETRY Perms
INVARIANTS CardsAgree ListAgrees
