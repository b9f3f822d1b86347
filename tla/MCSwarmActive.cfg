SPECIFICATION AdmissionSpec
CONSTANTS
    Requests = {1, 2}
    Priority <- SamePriority
    Deadline <- AllDeadlines
    QueueTimeout <- NoTimeout
    ResponseOutcome = {"succeeded"}
    LastArrival = 1
    MaxConcurrent = 1
    MaxQueued = 2
    MaxDelay = 100
    AgentSpecs <- MCAgentSpecs
    WaveSpecs = {}
    TaskSpecs <- MCTaskSpecs
    AgentState = {"idle"}
    Tokens = {0}
    Skew = 0
    MaxAgents = 1
    MaxWaves = 0
    MaxTasks = 2
    MaxClock = 1
INVARIANTS
    GenerationIsVisible
CHECK_DEADLOCK FALSE
