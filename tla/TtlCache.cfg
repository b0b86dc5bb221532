CONSTANTS
    Callers = {c1, c2}
    quote = quote
    eod = eod
    Keys <- MCKeys
    Ttl <- MCTtl
    Lag <- MCLag
    NoEntry = NoEntry
    Watched = eod
    MaxTime = 2
SPECIFICATION LoadSpec
INVARIANTS TypeOK AnswersAreFresh FillsPerTtl
PROPERTY ImplementsFreshRead
