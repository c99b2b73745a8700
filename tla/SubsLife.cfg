\* One caller beside the callbacks, two connections and a crash.
CONSTANTS
    a = a
    b = b
    c1 = c1
    c2 = c2
    k1 = k1
    k2 = k2
    Topics <- MCTopics
    Preset <- MCPreset
    Callers <- MCCallers1
    Callbacks <- MCCallbacks2
    OptionSets <- MCOptions
    MaxCalls = 2
    MaxConnections = 2
    MaxCrashes = 1
    MaxTries = 2
SYMMETRY MCSymmetry
SPECIFICATION Spec
CHECK_DEADLOCK FALSE
INVARIANTS
    RegistryAgrees
    PresetKeepsHandler
