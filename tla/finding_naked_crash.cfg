SPECIFICATION LiveSpec
CONSTANTS
    NoRow = NoRow
    NoLevel = NoLevel
    Qty = 2
    Part = 1
    MaxLevel = 1
    Bracket = FALSE
    MaxOrders = 2
    MaxErrors = 0
    MaxCrashes = 1
    MaxLate = 0
    MaxParts = 0
    MaxExpiries = 0
INVARIANTS
    NeverNaked
