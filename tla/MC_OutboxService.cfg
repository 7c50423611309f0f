SPECIFICATION FairSpec
CONSTANTS
    a = a
    b = b
    Calls <- const_Calls
    MaxEntries = 3
    MaxFaults = 2
INVARIANTS
    DrainsInOrder
PROPERTIES
    ImplementsQueue
CHECK_DEADLOCK FALSE
