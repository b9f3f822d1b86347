CONSTANTS
    Requests = {r1, r2}
    Namespaces = {1, 2}
    Ttl = 1
    MaxSessions = 1
    Interrupted = FALSE
    Times = {0, 1}
    MaxDirs = 2
SYMMETRY MCSymmetry
SPECIFICATION LifecycleSpec
INVARIANTS
    LifecycleTypeOK
    LeasesCounted
    NamespaceUsable
    NeverHalfVisible
PROPERTIES
    LeasedStays
