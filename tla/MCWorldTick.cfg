SPECIFICATION Spec
CONSTANTS
    Interval <- MCInterval
    ShutdownPeriod = 3
    Horizon = 5
    Delays = {1, 7}
    Start = 10
    MaxTime = 21
INVARIANTS
    TypeOK
    NoBurst
    ExitsAlternate
