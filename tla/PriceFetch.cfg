CONSTANTS
    watchlist = watchlist
    macro = macro
    Threads <- MCThreads
    Providers <- MCProviders
    Fns <- MCFns
    Guarded <- MCGuarded
    Names <- MCNames
    BreakerOf <- MCBreakerOf
    Plan <- MCPlan
    Asked <- MCAsked
    Ttl <- MCTtl
    Lag <- MCLag
    FailThreshold = 1
    Cooldown = 1
    MaxFailures = 1
    Chain <- MCChain
    Breakers <- MCBreakers
    Forgotten = 2
    NoEntry = NoEntry
    MaxTime = 2
SPECIFICATION OutageSpec
INVARIANTS TypeOK AgesAddUp EchoDiesOut FailuresArePassedOver
