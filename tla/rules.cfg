SPECIFICATION RulesSpec
CONSTANTS
    NoLevel = NoLevel
    Entries = {7, 10}
    Hints = {6, 10, 12}
    Atrs = {0, 1, 2}
    Equities <- SomeEquities
    Cashes <- SomeCashes
    KellyPcts <- SomeKellyPcts
    Ticks = {4, 8, 11, 14}
    AtrMultiplier = 2
    Trailing = TRUE
    TrailMultiplier = 2
    RewardRisk = 2
    MaxRiskPct = 20
    MaxPositionPct = 60
    MaxDrawdownPct = 12
    MaxOpenPositions = 2
    None = None
    Setups <- TheSetups
    Priors <- ThePriors
    FirstBar <- TheFirstBar
    OpenPrice <- TheOpenPrice
    Bars <- TheBars
    MaxBars = 4
    MaxForms = 1
    PastVolumes <- ThePast
    EveEdge = 1
    Enabled <- TheEnabled
    Allowed <- TheAllowed
    OpeningBars = 1
    RetestMaxBars = 2
    TouchPct = 25
    MaxGapNorm = 1
    MaxEntryBars = 3
    MinBreakoutPct = 125
    VolumeConfirmation = TRUE
    MinWidthPct = 10
    MaxWidthAtr = 1
    MaxVwapPct = 50
    MinMomentumPct = 150
INVARIANTS
    SizeIsLargestAffordable
    StopFollowsBestPrice
    RetestTwiceForCause
    LevelsProtectForCause
    GapMatchForCause
    NeverBothBets
