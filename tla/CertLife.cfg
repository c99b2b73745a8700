\* Every session is closed, a reload waits for itself or the program panics.
SPECIFICATION Spec
CONSTANTS
    MaxSessions = 2
    MaxWatchers = 2
    MaxVersion = 2
INVARIANTS PanicNeedsOverlap
PROPERTIES DisconnectReturns ChangeIsLoaded
CHECK_DEADLOCK FALSE
