CONSTANTS
    Clients = {c1, c2}
    eur = eur
    gold = gold
    mine = mine
    eurId = eurId
    goldId = goldId
    mineId = mineId
    eurusd = eurusd
    xauusd = xauusd
    btc = btc
    Items = {eur, gold, mine}
    Refs = {eurId, goldId, mineId, eurusd, xauusd, btc}
    IdOf <- MCIdOf
    Names <- AliasNames
    Label <- MCLabel
    Book <- MCBook
    Prunes <- MCPrunes
    MaxCrashes = 1
SYMMETRY Requesters
SPECIFICATION HistSpec
INVARIANTS TypeOK EnsureGuaranteesBook RemovalsAddUp
