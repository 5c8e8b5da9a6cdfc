SPECIFICATION FairSpec
CONSTANTS
    A = A
    B = B
    C = C
    NoLevel = NoLevel
    None = None
    Symbols = {A, B, C}
    Prices = {112, 125}
    Signals <- FourSignals
    StartingEquity = 1000
    MaxDbErrors = 0
    MaxDay = 1
    MaxTrades = 2
    MaxSignals = 2
    AtrMultiplier = 2
    Trailing = TRUE
    TrailMultiplier = 2
    RewardRisk = 2
    MaxRiskPct = 20
    MaxPositionPct = 60
    MaxDrawdownPct = 12
    MaxOpenPositions = 2
    SlippagePct = 0
    Commission = 0
INVARIANTS
    TypeOK
    MemoryBacked
    NothingForgotten
    HaltedIsFlat
PROPERTIES
    StopNeverLoosens
    ClosedRowsAreFinal
    KillSwitchCompletes
