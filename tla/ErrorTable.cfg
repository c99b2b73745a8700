\* Two callers over a table of one: races of check, clear, evict, insert, retry.
CONSTANTS
    t1 = t1
    t2 = t2
    t3 = t3
    e1 = e1
    e2 = e2
    e3 = e3
    NoID = NoID
    Callers <- MCCallers2
    ErrorIDs <- MCErrorIDs3
    CategoryOf <- MCMixed
    ErrorLimit = 1
    MaxInfos = 3
    RetryCap = 1
    MaxRetryArgs = {0}
SYMMETRY MCCallerSymmetry
SPECIFICATION Spec
INVARIANTS
    TypeOK
    CountMatches
    LimitWithConcurrency
PROPERTIES
    ActiveLossOnlyWhenFull
    RetriesCreditedToOwner
CHECK_DEADLOCK FALSE
