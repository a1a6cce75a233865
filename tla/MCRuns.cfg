SPECIFICATION RunsSpec
CHECK_DEADLOCK FALSE
CONSTANTS
    Runs = {r1, r2}
    Capacity = 1
    NoOutcome = NoOutcome
    MaxBars = 3
    MaxRecalc = 1
    LastTime = 3
    CandleFiles <- MCFiles
    ParityTimes <- MCTimes
INVARIANTS
    
    ProtocolAgrees
    WorkerContained
    ParityIsBacked
PROPERTIES
    DoneIsFinal
    CancelEndsTask
    
