SPECIFICATION HandoffFairSpec
CONSTANTS
    r1 = r1
    r2 = r2
    Requests = {r1, r2}
    MaxCalls = 2
    MaxRequests = 3
INVARIANTS
    HandoffTypeOK
    PendingExact
    JobOwnsModel
    ShutdownDrains
    PublishedInOrder
PROPERTIES
    RequestReturns
    ShutdownEnds
