SPECIFICATION WireSpec
CONSTANTS
    ShortWrites = {}
    Coalesced = TRUE
    MaxCancels = 2
PROPERTIES
    CancelsWakeThePlayer
CHECK_DEADLOCK FALSE
