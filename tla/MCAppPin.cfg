SPECIFICATION Spec
CONSTANTS
    MaxFails = 2
    Duration = 2
    Asks = 5
    Failures = 4
    None = None
INVARIANTS
    PinnedChannels
CHECK_DEADLOCK FALSE
