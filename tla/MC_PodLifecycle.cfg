SPECIFICATION FairSpec
CONSTANTS
    kept = kept
    plain = plain
    Terminals <- MCTerminals
    Always <- MCAlways
    Settings <- MCSettings
    MaxProcs = 2
    MaxPending = 1
INVARIANTS
    NoOrphans
    StoppedIsTornDown
    TransientIsOwned
PROPERTIES
    RestartsHappen
CHECK_DEADLOCK FALSE
