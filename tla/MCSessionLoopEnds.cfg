SPECIFICATION FairSpec
CONSTANTS
    Sessions = {1}
    EventCap = 1
    CommandCap = 5
    MaxLines = 2
    MaxKicks = 1
PROPERTIES
    EndedIsUnregistered
    StopEndsSessions
CHECK_DEADLOCK FALSE
