SPECIFICATION LifecycleSpec
CONSTANTS
    Symbols = {A, B}
    A = A
    B = B
    Instants <- SomeInstants
    Weekdays = {1, 2}
    Sessions <- TwoSessions
    Premarket = 420
    FlattenTime = 955
    ReportTime = 975
    Simulated = FALSE
    MaxDay = 2
    MaxTrades = 2
    MaxFailures = 1
    MaxCrashes = 1
    MaxByHand = 1
INVARIANTS
    CarriedForCause
    DayIsStarted
    UnwatchedForCause
    GatePeeksForCause
    IncompleteIsWarned
CHECK_DEADLOCK FALSE
SYMMETRY Symmetry
