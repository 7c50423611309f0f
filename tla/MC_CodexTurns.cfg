SPECIFICATION FairSpec
CONSTANTS
    MaxTurns = 2
    MaxFaults = 1
INVARIANTS
    Attended
PROPERTY TurnsEnd
CHECK_DEADLOCK FALSE
