SPECIFICATION FetchSpec
CONSTANTS
    RangeEnd = 5
    ChunkSizes = {3}
    SymbolCounts = {1}
    MaxWorkers = 2
CHECK_DEADLOCK FALSE
INVARIANT
    AllJobsDelivered
