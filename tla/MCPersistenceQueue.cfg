SPECIFICATION FairSpec
CONSTANTS
    p1 = p1  b1 = b1  r1 = r1  s1 = s1  None = None
    Players = {p1}
    Banks = {b1}
    Rooms = {}
    Sessions = {s1}
    BankOf <- MCBankOf
    Effects <- MCTrading
    TickEffects <- MCQuietTicks
    QueueCap = 1
    FlushPeriod = 1
    FlushWindow = 1
    MaxVersion <- MCBankOnce
    MaxTime = 0
INVARIANT TypeOK
PROPERTY QueuedIsSaved
CHECK_DEADLOCK FALSE
