SPECIFICATION FairSpec
CONSTANTS
    Sessions = {1}
    EventCap = 2
    CommandCap = 1
    MaxLines = 2
    MaxKicks = 0
PROPERTY EndedIsUnregistered
CHECK_DEADLOCK FALSE
