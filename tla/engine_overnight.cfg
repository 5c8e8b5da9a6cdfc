SPECIFICATION Spec
CONSTANTS
    A = A
    B = B
    C = C
    NoLevel = NoLevel
    None = None
    Symbols = {A}
    Prices = {85, 125}
    Signals <- BothWays
    StartingEquity = 1000
    MaxDbErrors = 1
    MaxDay = 2
    MaxTrades = 2
    MaxSignals = 1
    AtrMultiplier = 2
    Trailing = FALSE
    TrailMultiplier = 2
    RewardRisk = 2
    MaxRiskPct = 20
    MaxPositionPct = 60
    MaxDrawdownPct = 12
    MaxOpenPositions = 2
    SlippagePct = 2
    Commission = 1
INVARIANTS
    OneRowPerSymbol
    HaltedForCause
PROPERTIES
    GuardsOnlyTighten
    ImplementsDesk
    CashDriftsForCause
