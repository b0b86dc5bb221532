SPECIFICATION PagesSpec
CONSTANTS
  Instruments <- MCInstruments
  Book <- MCBook
  Items <- MCItems
  ResultsOf <- MCResultsOf
  NoResult = NoResult
  Pending = Pending
  Failed = Failed
  NoReply = NoReply
  Raised = Raised
  MaxWorkers = 2
  Crypto = {"btc", "eth"}
  Screened = {"gold", "btc", "eth"}
  CotCoded = {"gold"}
  Curved = {"gold"}
  Proxied = {"gold"}
  SectorEtfs <- MCSectorEtfs
  Figures <- MCFigures
  Weeks <- MCWeeks
  NoFigure = NoFigure
  Limit = 2
  Stories <- MCStories
  Key <- MCKey
  Date <- MCDate
  Mentions <- MCMentions
  NoKey = "none"
  WorldKey = TRUE
  NewsCapable = {"btc", "eth"}
  Wires <- MCWires
  FeedLimit = 2
  Lookback = 8
  Tickers <- MCTickers
  Volume <- MCVolume
  Moves <- MCMoves
  Extras <- MCExtras
  TopN = 2
  MinMove = 2
  ScanDepth = 2
  HitLimit = 2
  NoRows = NoRows
  Chains <- MCChains
  Prices <- MCPrices
  Majors <- MCMajors
  Templates <- MCTemplates
  BrokerLists <- MCBrokerLists
  IsEtf = {"spy", "qqq"}
  MaxLimit = 3
INVARIANTS PagesTypeOK FailureStaysLocal FeedIsWhole BestRankedFirst SessionsAreTheirOwn HitsRankedByAgreement CurveIsReadRight SuggestionsComplete
PROPERTIES ImplementsOrderedMap
