\* The event handlers call the manager when a session has connected.
CONSTANTS
    a = a
    b = b
    i1 = i1
    i2 = i2
    i3 = i3
    c1 = c1
    c2 = c2
    k1 = k1
    k2 = k2
    None = None
    Names <- MCNames
    Ids <- MCIds
    Callers <- MCCallers
    Callbacks <- MCCallbacks
    AskingSets <- MCConnectedAsking
    MaxCalls = 2
    MaxLosses = 0
    MaxMessages = 0
CHECK_DEADLOCK FALSE
SPECIFICATION FairSpec
PROPERTY
    EveryCallReturns
