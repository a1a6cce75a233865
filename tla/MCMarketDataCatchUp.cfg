SPECIFICATION Spec
CONSTANTS
  t1 = t1
  t2 = t2
  NoOne = NoOne
  Clients <- MCOneClient
  StartTime = 1
  MaxTime = 4
  MaxRequests = 1
  Ratio = 2
  Lookback = 1
  MaxSourceBars = 2
  LoadWindows <- MCRecentWindow
  FillWindows <- MCRecentWindow
  CacheRanges <- MCCacheRanges
  ProviderGaps = FALSE
INVARIANT
  CatchUpSkipsNoBar
