CONSTANTS
    gold = gold
    coin = coin
    goldId = goldId
    goldCode = goldCode
    coinId = coinId
    Instruments = {gold, coin}
    Names = {goldId, goldCode, coinId}
    IdOf <- MCIdOf
    CodeOf <- MCCodeOf
    Levels = {calm}
    Climates = {neutral}
    MaxDay = 2
    MaxCrashes = 1
SPECIFICATION CovSpec
INVARIANT SeriesGoByCode
