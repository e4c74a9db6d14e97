\* burst binds: 3 a window; sustain 8 per second of 4 units over a window of 3 allows 6
SPECIFICATION Spec
CONSTANTS
    Burst = 3
    Sustain = 8
    Window = 3
    Second = 4
    MaxTime = 8
INVARIANTS
    TypeOK
    History
    WindowBound
    RefusalJustified
