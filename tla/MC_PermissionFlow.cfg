SPECIFICATION FairSpec
CONSTANTS
    MaxRequests = 3
    MaxCrashes = 3
    MaxLapses = 2
INVARIANTS
    OpenIsAwaited
    RowsMirrorLog
    DecisionsAgree
PROPERTIES
    DecisionsStand
    BootSettles
CHECK_DEADLOCK FALSE
