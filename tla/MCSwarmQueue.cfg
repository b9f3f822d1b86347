SPECIFICATION Spec
CONSTANTS
    MaxConcurrent = 1
    MaxQueued = 1
    MaxDelay = 100
    AgentSpecs <- OneAgentSpec
    WaveSpecs = {}
    TaskSpecs <- QueueTaskSpecs
    AgentState = {"idle"}
    Tokens = {0}
    Skew = 0
    MaxAgents = 1
    MaxWaves = 0
    MaxTasks = 3
    MaxClock = 1
INVARIANTS
    BacklogBounded
