\* Two routes of any form on one topic of two sessions, opened and stopped by two goroutines.
CONSTANTS
    s1 = s1
    s2 = s2
    r1 = r1
    r2 = r2
    c1 = c1
    c2 = c2
    f1 = f1
    f2 = f2
    None = None
    Sessions <- MCSessions
    Routes <- MCRoutes
    Callers <- MCCallers
    Filters <- MCFilters
    Configs <- MCConfigs
    BufferSize = 1
    MaxTries = 2
    Limits <- MCLimits
CHECK_DEADLOCK FALSE
SPECIFICATION Spec
SYMMETRY MCSymmetry
INVARIANTS
    EveryMessageAccounted
    StopCostsOneEach
    StoppedIsSilent
    
    FiltersHold
