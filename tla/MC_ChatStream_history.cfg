SPECIFICATION Spec
CONSTANTS
    MaxLog = 1
    MaxViews = 1
    MaxPanes = 1
    MaxCuts = 0
    MaxRestarts = 1
INVARIANT ShowsHistory
CHECK_DEADLOCK FALSE
