\* Any calls of two goroutines on one name, with two session objects, one loss and one message.
CONSTANTS
    a = a
    b = b
    i1 = i1
    i2 = i2
    i3 = i3
    c1 = c1
    c2 = c2
    k1 = k1
    k2 = k2
    None = None
    Names <- MCNames
    Ids <- MCIds
    Callers <- MCCallers
    Callbacks <- MCCallbacks
    AskingSets <- MCAnyAsking
    MaxCalls = 3
    MaxLosses = 1
    MaxMessages = 1
CHECK_DEADLOCK FALSE
SPECIFICATION FairSpec
INVARIANTS
    CountIsMapSize
    EventsTellTheMap
    NoOrphan
    AllReached
    WaitMissesOnlyTheGap
    NoCircularWait
PROPERTY
    CallsReturn
