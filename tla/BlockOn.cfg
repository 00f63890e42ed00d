CONSTANTS
    Blockers = {b1, b2}
    MaxSleeps = 2
SPECIFICATION WkSpec
CHECK_DEADLOCK FALSE
INVARIANTS
    WokenIsSeen
PROPERTIES
    BlockOnReturns
