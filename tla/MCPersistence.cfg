SPECIFICATION Spec
CONSTANTS
    p1 = p1  b1 = b1  r1 = r1  s1 = s1  None = None
    Players = {p1}
    Banks = {}
    Rooms = {r1}
    Sessions = {s1}
    BankOf <- MCNoBank
    Effects <- MCPlay
    TickEffects <- MCQuietTicks
    QueueCap = 1
    FlushPeriod = 1
    FlushWindow = 1
    MaxVersion <- MCTwoOnFloor
    MaxTime = 1
INVARIANTS
    UnsavedIsMarked
    FullFlushCovers
CHECK_DEADLOCK FALSE
