SPECIFICATION Spec
SYMMETRY Symmetry
CONSTANTS
    c1 = c1
    c2 = c2
    Callers <- MCCallers
    MaxSessions = 4
    MaxTurns = 3
    MaxCrashes = 1
INVARIANTS
    TypeOK
    Cancellable
    NeverStuck
    ProvidersOwned
