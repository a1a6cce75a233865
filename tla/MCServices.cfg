SPECIFICATION ServicesSpec
CONSTANTS
    Strategies = {s1}
    Statuses = {"pending", "running", "paused", "error"}
    Modes = {"live"}
    MaxRestarts = 1
    MaxAttempts = 2
    MaxUpdates = 2
    BatchLimit = 2
    MaxBoots = 2
    StrategyIds = {"s1"}
    SourceIds = {"p1"}
INVARIANTS
    EnabledIsAllowed
    OneWorker
    FailClosed
    
PROPERTIES
    ReplacementIsSafe
    SupervisorSettles
    UpdatesAreTakenUp
