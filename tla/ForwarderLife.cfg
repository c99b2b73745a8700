\* Start, Stop and a second Start while messages arrive.
CONSTANTS
    a = a
    b = b
    o1 = o1
    o2 = o2
    o3 = o3
    o4 = o4
    w1 = w1
    w2 = w2
    NoObject = NoObject
    Topics <- MCTopics
    BufferSize = 1
    Objects <- MCObjects
    Workers <- MCWorkers
    MaxArrivals = 4
    MaxBacklog = 2
CHECK_DEADLOCK FALSE
SPECIFICATION FairSpec
INVARIANTS
    TypeOK
    Conservation
    OneOwner
    OneWorkerUntilStopped
PROPERTY
    WorkersEnd
    StopReturnsUnlessBehind
    ActsAsQueue
