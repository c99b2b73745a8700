\* Three losses, backoff 2 -> 3 -> 4 -> 5 capped.
CONSTANTS
    InitialInterval = 2
    MaxInterval = 5
    FactorNum = 3
    FactorDen = 2
    MaxDrops = 3
    MaxAttempts = 4
CHECK_DEADLOCK FALSE
SPECIFICATION FairSpec
INVARIANTS
    StatusAgrees
    ReconnectingIsAnswered
    BackoffForgotten
    IntervalBounded
PROPERTY
    ReconnectingEnds
