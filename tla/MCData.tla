------------------------------- MODULE MCData -------------------------------
(***************************************************************************)
(* Where bars come from and how they are shown, for TLC: the market data   *)
(* orchestrator with its clients, the file cache, the parallel fetcher,    *)
(* the bars and offsets of a TradingView corpus, and the data page with    *)
(* its summary.  They are checked one by one, chosen by `part`.            *)
(***************************************************************************)
EXTENDS MCMarketData, BarSources, TvCorpus, DataInventory, DataSummary

VARIABLE part

dataVars == <<vars, cacheVars, fetchVars, tvVars, inventoryVars, summaryVars, part>>

(* Requests for corpus bars: small sets of provider, corpus and chart      *)
(* bars, and charts whose na rows have the periods 2 to 4.                 *)
Every(n, first) == {row \in 0..9 : row % n = first}

MCRequests ==
    [kind: {"indicator", "strategy"}, provider: SUBSET (0..2),
     corpus: {<<>>} \cup {<<x>> : x \in SUBSET (1..2)} \cup {<<{1}, {1, 2}>>, <<{2, 3}, {1, 2, 3}>>},
     chart: {x..y : x \in 1..3, y \in 1..4} \ {{}}, authoritative: BOOLEAN, providerOnly: BOOLEAN,
     barColumns: {<<>>}, naColumns: {<<>>}]
      \cup
    [kind: {"indicator"}, provider: {0..4}, corpus: {<<>>}, chart: {x..4 : x \in 1..4},
     authoritative: {FALSE}, providerOnly: {TRUE},
     barColumns: {<<>>, <<7>>, <<7, 7>>, <<7, 8>>},
     naColumns: {<<a, b>> : a, b \in {Every(n, f) : n \in 2..4, f \in 0..1} \cup {Every(3, 2), {0, 1, 3}, {1}}}]

MCMap == [m \in RawMarkets |-> IF m = "linear" THEN "futures" ELSE m]

Sources == {"market", "cache", "fetch", "corpus", "inventory", "summary"}

DataInit ==
    /\ part \in Sources
    /\ IF part = "market" THEN TRUE ELSE persists = TRUE
    /\ Init /\ CacheInit /\ FetchInit /\ InventoryInit /\ SummaryInit
    /\ IF part = "corpus" THEN TRUE ELSE tvReq = CHOOSE r \in MCRequests : TRUE
    /\ TvInit

DataNext ==
    \/ /\ part = "market" /\ Next
       /\ UNCHANGED <<cacheVars, fetchVars, tvVars, inventoryVars, summaryVars, part>>
    \/ /\ part = "cache" /\ CacheNext
       /\ UNCHANGED <<vars, fetchVars, tvVars, inventoryVars, summaryVars, part>>
    \/ /\ part = "fetch" /\ FetchNext
       /\ UNCHANGED <<vars, cacheVars, tvVars, inventoryVars, summaryVars, part>>
    \/ /\ part = "corpus" /\ TvNext
       /\ UNCHANGED <<vars, cacheVars, fetchVars, inventoryVars, summaryVars, part>>
    \/ /\ part = "inventory" /\ InventoryNext
       /\ UNCHANGED <<vars, cacheVars, fetchVars, tvVars, summaryVars, part>>
    \/ /\ part = "summary" /\ SummaryNext
       /\ UNCHANGED <<vars, cacheVars, fetchVars, tvVars, inventoryVars, part>>

(* The fairness of MarketData: every thread of a client is scheduled.      *)
DataSpec ==
    /\ DataInit /\ [][DataNext]_dataVars
    /\ \A t \in Clients : WF_vars(part = "market" /\ ThreadStep(t))

(* Every variable keeps its type.                                          *)
DataTypeOK ==
    CASE part = "market"    -> TypeOK
      [] part = "cache"     -> CacheTypeOK
      [] part = "fetch"     -> FetchTypeOK
      [] part = "corpus"    -> TvTypeOK
      [] part = "inventory" -> InventoryTypeOK
      [] part = "summary"   -> SummaryTypeOK

(* A request to the market data orchestrator ends, and the variables of    *)
(* every part keep their types all along.                                  *)
RequestsServed == []DataTypeOK /\ RequestsEnd
=============================================================================
