SPECIFICATION OfflineSpec
CONSTANTS
    A = A
    B = B
    C = C
    V = V
    H = H
    NoLevel = NoLevel
    Symbols = {A, B}
    Bars <- FourBars
    Requests <- TwoRequests
    StartingCash = 1000
    SpreadPct = 1
    ImpactPct = 20
    Commission = 1
    MaxTime = 4
    MaxDay = 2
    MaxSignals = 2
    PfMode = "enforce"
    PfLookback = 2
    PfMinTrades = 1
    PfMinPct = 90
    AtrMultiplier = 2
    Trailing = FALSE
    TrailMultiplier = 2
    RewardRisk = 2
    MaxRiskPct = 20
    MaxPositionPct = 60
    MaxDrawdownPct = 8
    MaxOpenPositions = 2
    None = None
    Universe <- TheUniverse
    Members <- TheMembers
    Pasts <- ThePasts
    Sessions <- TheSessions
    Views <- TheViews
    Premarkets <- ThePremarkets
    Served <- TheServed
    Sentiments = {None, 1}
    Configs <- TheConfigs
    MinPrice = 5
    MaxPrice = 50
    MinAvgVolume = 2
    MinGapPct = 10
    MaxGapPct = 30
    Lookback = 2
    LiveDays = 3
    MaxWatchlist = 2
    MaxRuns = 2
    VixSymbol = V
    SpySymbol = V
    MaxVix = 25
    MaxVixPct = 80
    MaxSpyPct = 80
    VixWindow = 3
    VixHistory = 2
    Missing = Missing
    Torn = Torn
    Empty = Empty
    Tickers <- TheTickers
    Holdout = {H}
    Trades <- TheTrades
    DayLength = 4
    FirstDay = 3
    LastDay = 4
    Tolerance = 1
    Arguments <- TheArguments
    MinRows = 2
    Folds = 2
    Embargo = 4
    MaxPipelines = 2
    MaxCrashes = 1
    MaxOutages = 1
INVARIANTS
    BooksBalance
    FlatAfterSession
    FillsFollowSignals
    KilledDayIsFlat
    GateIsCausal
    LivePicksForCause
    WatchlistIsOneRanking
    ModelForCause
    NoLeakage
PROPERTIES
    SettledAtTheOpen
CHECK_DEADLOCK FALSE
