SPECIFICATION LiveFairSpec
CONSTANTS
    NoRow = NoRow
    NoLevel = NoLevel
    Qty = 2
    Part = 1
    MaxLevel = 3
    Bracket = TRUE
    MaxOrders = 3
    MaxErrors = 1
    MaxCrashes = 1
    MaxLate = 1
    MaxParts = 1
    MaxExpiries = 1
INVARIANTS
    SharesAreOnTheBooks
    NakedOnlyInTrouble
    NoOrphanOrders
    VenueStopBehindRow
PROPERTIES
    GhostRowsAreClosed
