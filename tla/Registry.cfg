SPECIFICATION Spec
CONSTANTS
    Names = {n1, n2}
    Topics = {t1, t2}
    Forwarders = {f1, f2}
    None = None
INVARIANT RoutedIsKnown
PROPERTY StopAllStops
