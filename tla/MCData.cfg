SPECIFICATION DataSpec
CHECK_DEADLOCK FALSE
CONSTANTS
    t1 = t1
    t2 = t2
    NoOne = NoOne
    Clients <- MCClients
    StartTime = 3
    MaxTime = 4
    MaxRequests = 1
    Ratio = 2
    Lookback = 1
    MaxSourceBars = 2
    LoadWindows <- MCLoadWindows
    FillWindows <- MCFillWindows
    CacheRanges <- MCCacheRanges
    ProviderGaps = TRUE
    Loaders = {l1}
    DirectLoaders = {d1}
    Deleters = {g}
    NumPages = 2
    MaxInodes = 3
    MaxLoads = 2
    RangeEnd = 5
    ChunkSizes = {5}
    SymbolCounts = {1, 2, 3, 4}
    MaxWorkers = 2
    TvTimes = {0, 1, 2, 3, 4}
    TvRequests <- MCRequests
    RawMarkets = {"futures"}
    MarketTypeMap <- MCMap
    Kinds = {"trade", "mark"}
    LastBar = 2
    MaxSaves = 2
    MaxSummaries = 4
CONSTRAINT ActorsBound
ACTION_CONSTRAINT OverlapBound
INVARIANTS
    SeriesAreComplete
    SingleFlight
    FetchesAreWhole
    
    
PROPERTIES
    
    SummaryMovesForward
