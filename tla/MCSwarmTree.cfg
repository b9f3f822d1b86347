SPECIFICATION Spec
CONSTANTS
    MaxConcurrent = 1
    MaxQueued = 2
    MaxDelay = 100
    AgentSpecs <- OneAgentSpec
    WaveSpecs <- TreeWaveSpecs
    TaskSpecs <- TreeTaskSpecs
    AgentState = {"idle"}
    Tokens = {0}
    Skew = 0
    MaxAgents = 1
    MaxWaves = 2
    MaxTasks = 2
    MaxClock = 0
INVARIANTS
    CancelledWaveDrains
PROPERTIES
    TerminalForever
    NoOvertaking
