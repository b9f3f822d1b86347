CONSTANTS
    Requests = {r1}
    Namespaces = {1, 2}
    Ttl = 0
    MaxSessions = 1
    Interrupted = TRUE
    Times = {0}
    MaxDirs = 2
SPECIFICATION LifecycleSpec
INVARIANTS
    NeverHalfVisible
