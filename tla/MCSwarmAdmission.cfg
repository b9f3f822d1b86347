SPECIFICATION FairAdmissionSpec
CONSTANTS
    Requests = {1, 2}
    Priority <- MCPriority
    Deadline <- MCDeadline
    QueueTimeout <- MCQueueTimeout
    ResponseOutcome = {"succeeded", "failed", "budget_exhausted", "cancelled"}
    LastArrival = 0
    MaxConcurrent = 1
    MaxQueued = 2
    MaxDelay = 100
    AgentSpecs <- MCAgentSpecs
    WaveSpecs = {}
    TaskSpecs <- MCTaskSpecs
    AgentState = {"idle"}
    Tokens = {0}
    Skew = 0
    MaxAgents = 1
    MaxWaves = 0
    MaxTasks = 2
    MaxClock = 1
INVARIANTS
    AdmissionTypeOK
    LeaseNotLost
    SlotHasOwner
    NoStaleLease
    SlotKept
PROPERTIES
    EveryRequestEnds
CHECK_DEADLOCK FALSE
