SPECIFICATION Spec
CONSTANTS
    Sessions = {1, 2}
    EventCap = 1
    CommandCap = 1
    MaxLines = 1
    MaxKicks = 1
INVARIANTS
    TypeOK
    EndIsAnnounced
    ConnectedIsRegistered
CHECK_DEADLOCK FALSE
