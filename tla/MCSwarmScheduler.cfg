SPECIFICATION Spec
CONSTANTS
    MaxConcurrent = 2
    MaxQueued = 2
    MaxDelay = 100
    AgentSpecs <- OneAgentSpec
    WaveSpecs <- MCWaveSpecs
    TaskSpecs <- MCTaskSpecs
    AgentState = {"idle", "draining"}
    Tokens = {0, 1}
    Skew = 1
    MaxAgents = 1
    MaxWaves = 1
    MaxTasks = 2
    MaxClock = 2
INVARIANTS
    TypeOK
    LeaseAccounting
    WithinLimits
    WaveStateIsVerdict
    TelemetryAgrees
    BudgetHeld
PROPERTIES
    CancellationSticks
