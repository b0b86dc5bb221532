CONSTANTS
    Requests = {r1}
    Ids = {i1, i2}
    gold = gold
    macro = macro
    Series <- MCSeries
    Readings <- MCReadings
    Posts <- MCPosts
    MaxPoints = 2
SYMMETRY IdsAlike
SPECIFICATION HistorySpec
INVARIANTS FlagsAreCurrent ContradictionNeedsNewPoint DisabledIsNotCounted RemovedStaysRemoved
