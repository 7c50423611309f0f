SPECIFICATION FairSpec
CONSTANTS
    a = a
    b = b
    Terminals <- MCTerminals
    High = 1
    Low = 1
    MaxChunks = 3
INVARIANTS
    OverHighIsPaused
PROPERTY KeepsFlowing
CHECK_DEADLOCK FALSE
