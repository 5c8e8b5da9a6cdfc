SPECIFICATION RaceSpec
CONSTANTS
    None = None
    Symbols = {A, B}
    MaxOpenPositions = 2
    MaxTrades = 4
INVARIANTS
    NoneLost
