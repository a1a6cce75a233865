SPECIFICATION Spec
CONSTANTS
    None = None
    Strategies = {s1}
    Factor <- DoubleTimeframe
    MaxBar = 4
    Modes = {"paper"}
    Workers = {w1, w2}
    Times = {0}
    Jobs <- AllJobs
    SerKeys <- Strategies
    SerKey <- MCSerKey
    Priority <- MCPriority
INVARIANT
    SerializedStrategies
