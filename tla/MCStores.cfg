SPECIFICATION StoresSpec
CHECK_DEADLOCK FALSE
CONSTANTS
    Runs = {r1, r2}
    CliRuns = {}
    MaxSaves = 2
    Requests = {q1, q2, q3}
    Keys = {k1}
    Bodies = {b1, b2}
    PendingTTL = 1
    ResultTTL = 2
    MaxTime = 4
    None = None
    SnapProcs = {p1, p2}
    SnapBars = {1, 2}
    MaxSnapshots = 3
    Keep = 2
    SourceIds = {"s1", "s2"}
    SourceNames = {"n1", "n2"}
    Texts = {"t1", "t2", "bad"}
    BadTexts = {"bad"}
    CompileTasks = {"k1"}
    PineClis = {"c1"}
    RunFiles = {"t1"}
    MaxEdits = 2
    ByName = FALSE
    KwargChoices = {{}, {"invalid_ast"}, {"library_stubs"}, {"request_stubs", "version_rewrite"}}
    BatchEntries <- MCBatchEntries
    StrategyEntries = {"e1"}
    Frames = {"1h"}
    BatchArgs <- MCBatchArgs
    MaxBatches = 3
    Strategies = {"s1"}
    Statuses = {"pending", "running", "paused", "error", "disabled"}
    Modes = {"paper", "live"}
    CliProcs = {p1, p2}
    MaxCommands = 1
    Stacks = {"v1", "v2"}
    Gateways = {"g"}
    Clis = {"c"}
    RunIds = {"r"}
    Profiles = {"strict", "legacy"}
    AdmittedProfiles = {"strict"}
    MaxChanges = 1
    MaxClock = 1
    TrialCounts = {0, 1}
INVARIANTS
    
    OneRunOneAnswer
    NewestSaveKept
    ArtifactsAreUsable
    
    VerdictIsWritten
    
PROPERTIES
    IdentityIsImmutable
    IndexMovesForward
