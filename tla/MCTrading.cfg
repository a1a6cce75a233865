SPECIFICATION TradingSpec
CONSTANTS
    None = None
    Strategies = {s1}
    Factor <- DoubleTimeframe
    MaxBar = 4
    Modes = {"paper", "observe"}
    Workers = {w1, w2}
    Times = {0}
    Jobs <- AllJobs
    SerKeys <- Strategies
    SerKey <- MCSerKey
    Priority <- MCPriority
    Accounts = {"a1"}
    Submitters = {"u1", "u2"}
    Intents <- MCIntents
    Rules <- MCRules
    MaxOrders = 1
    Window = 2
    MaxNotional = 10
    InstrumentRule <- MCInstrument
    Exchange = "bybit"
    RawStatuses = {"New", "open"}
    MaxNow = 2
    MaxPlaced = 1
    MaxStarts = 2
    Managers = {"m1", "m2"}
    OrderIds = {"c1", "c2"}
    PageLimit = 1
    SlowClock = FALSE
    MaxMs = 3
    MaxTrades = 1
CONSTRAINT ModesBound
SYMMETRY WorkerSymmetry
INVARIANTS
    JobsAccountedFor
    JobBarComplete
    StateCoversLedger
    
    
