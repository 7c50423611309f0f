SPECIFICATION FairSpec
CONSTANTS
    Sockets <- const_Sockets
    MaxSends = 2
    MaxFaults = 3
    None = None
INVARIANTS
    OneAttempt
    AcceptedIsWritten
PROPERTIES
    StopIsFinal
    EndsConnected
CHECK_DEADLOCK FALSE
