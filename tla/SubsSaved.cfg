\* Two saves overlap.
CONSTANTS
    a = a
    b = b
    c1 = c1
    c2 = c2
    k1 = k1
    k2 = k2
    Topics <- MCTopics
    Preset <- MCNoPreset
    Callers <- MCCallers2
    Callbacks <- MCCallbacks1
    OptionSets <- MCMemory
    MaxCalls = 2
    MaxConnections = 1
    MaxCrashes = 0
    MaxTries = 1
SYMMETRY MCSymmetry
SPECIFICATION Spec
CHECK_DEADLOCK FALSE
INVARIANT
    SavedWhenQuiet
