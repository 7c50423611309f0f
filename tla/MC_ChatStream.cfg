SPECIFICATION Spec
CONSTANTS
    MaxLog = 2
    MaxViews = 2
    MaxPanes = 2
    MaxCuts = 1
    MaxRestarts = 1
INVARIANTS
    SubscriptionsOwned
    QuietIsShown
CHECK_DEADLOCK FALSE
