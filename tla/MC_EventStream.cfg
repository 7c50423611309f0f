SPECIFICATION FairSpec
CONSTANTS
    MaxLog = 3
    MaxBoots = 4
    MaxCuts = 1
INVARIANTS
    QuietIsCaughtUp
PROPERTIES
    ImplementsStream
    ResyncNeedsRestart
    EventuallyAccounted
CHECK_DEADLOCK FALSE
