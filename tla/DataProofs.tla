----------------------------- MODULE DataProofs -----------------------------
(***************************************************************************)
(* Where bars come from.  The provider is asked once at a time for a       *)
(* series, and loads and backfills leave out no bar, for any number of     *)
(* request threads, windows and backfills; what is served from the file    *)
(* cache, and what the parallel fetcher delivers, is whole, for any number *)
(* of processes, jobs and threads; and the summary of the data page moves  *)
(* forward.                                                                *)
(***************************************************************************)
EXTENDS MarketData, BarSources, DataSummary, FiniteSetTheorems,
        WellFoundedInduction, TLAPS

\* The flight table starts empty.
THEOREM FlightsInit == Init => Flights
BY MarketAssumption DEF Init, Flights, SingleFlight, NoRequest, Isolated

\* A thread that is not at a flight moves between places that are not at one,
\* and leaves the table and the requests alone: the invariant is kept.
LEMMA ElsewhereKeepsFlights ==
  ASSUME NEW t \in Clients, NEW place, Flights,
         pc[t] \notin {"fetch", "settle", "wait"},
         place \in {"idle", "read", "join", "got", "merge", "store", "derive"},
         pc' = [pc EXCEPT ![t] = place],
         UNCHANGED <<current, on>>,
         req' \in [Clients -> Loads \cup Backfills \cup {NoRequest}],
         \A u \in Clients \ {t} : req'[u] = req[u]
  PROVE  Flights'
<1>1. current' = current /\ on' = on
  BY Zenon
<1>2. \A u \in Clients : pc'[u] = (IF u = t THEN place ELSE pc[u])
  BY Zenon DEF Flights
<1>3. pc' \in [Clients -> {"idle", "read", "join", "wait", "fetch", "settle", "got",
                          "merge", "store", "derive"}]
  BY Zenon DEF Flights
<1>4. \A u \in Clients : (pc'[u] = "fetch" /\ ~Isolated(req'[u])) <=> current' = u
  BY <1>1, <1>2 DEF Flights, SingleFlight
<1>5. \A u \in Clients : pc'[u] = "wait" =>
        on'[u] \in Clients /\ pc'[on'[u]] \in {"fetch", "settle"}
  BY <1>1, <1>2 DEF Flights, SingleFlight
<1> QED
  BY <1>1, <1>3, <1>4, <1>5 DEF Flights, SingleFlight

\* Every step of a thread, of the fetcher or of the exchange keeps the flights in
\* order.
THEOREM FlightsStep == Flights /\ [Next]_vars => Flights'
<1> SUFFICES ASSUME Flights, [Next]_vars PROVE Flights'
  BY Zenon
<1>1. ASSUME NEW t \in Clients, NEW r \in Loads \cup Backfills, Request(t, r)
      PROVE  Flights'
  <2>1. pc[t] = "idle" /\ UNCHANGED <<current, on>> /\ req' = [req EXCEPT ![t] = r]
    BY <1>1, Zenon DEF Request
  <2>2. \E place \in {"idle", "read", "join"} : pc' = [pc EXCEPT ![t] = place]
    BY <1>1, Zenon DEF Request, Finish
  <2>3. req \in [Clients -> Loads \cup Backfills \cup {NoRequest}]
    BY Zenon DEF Flights
  <2> QED
    BY <2>1, <2>2, <2>3, ElsewhereKeepsFlights, Zenon
<1>2. ASSUME NEW t \in Clients,
             ReadStorage(t) \/ Take(t) \/ MergeSeries(t) \/ StoreSource(t) \/ StoreTarget(t)
      PROVE  Flights'
  <2>1. /\ pc[t] \in {"read", "got", "merge", "store", "derive"}
        /\ UNCHANGED <<current, on, req>>
    BY <1>2, Zenon DEF ReadStorage, Take, MergeSeries, StoreSource, StoreTarget
  <2>2. \E place \in {"idle", "read", "join", "got", "merge", "store", "derive"} :
          pc' = [pc EXCEPT ![t] = place]
    <3>1. CASE ReadStorage(t)
      BY <3>1, Zenon DEF ReadStorage, Raise, Return, Finish
    <3>2. CASE Take(t)
      BY <3>2, Zenon DEF Take, Raise, Finish
    <3>3. CASE MergeSeries(t)
      BY <3>3, Zenon DEF MergeSeries, Raise, Return, Finish
    <3>4. CASE StoreSource(t)
      BY <3>4, Zenon DEF StoreSource, NextChunk, Raise, Finish
    <3>5. CASE StoreTarget(t)
      BY <3>5, Zenon DEF StoreTarget, NextChunk, Raise, Finish
    <3> QED
      BY <1>2, <3>1, <3>2, <3>3, <3>4, <3>5, Zenon
  <2>3. req \in [Clients -> Loads \cup Backfills \cup {NoRequest}]
    BY Zenon DEF Flights
  <2> QED
    BY <2>1, <2>2, <2>3, ElsewhereKeepsFlights, Zenon
<1>3. ASSUME NEW t \in Clients, Join(t) PROVE Flights'
  BY <1>3, MarketAssumption DEF Join, Flights, SingleFlight, Isolated
<1>4. ASSUME NEW t \in Clients, ProviderFetch(t) PROVE Flights'
  BY <1>4, MarketAssumption, Zenon DEF ProviderFetch, Flights, SingleFlight, Isolated
<1>5. ASSUME NEW t \in Clients, SettleFlight(t) PROVE Flights'
  BY <1>5, MarketAssumption, Zenon DEF SettleFlight, Waiters, Flights, SingleFlight, Isolated
<1>6. CASE BarCloses \/ RefreshStarts \/ RefreshLoad \/ RefreshStore \/ RefreshDerive
           \/ RefreshCrash \/ UNCHANGED vars
  <2>1. UNCHANGED <<current, pc, req, on>>
    BY <1>6, Zenon DEF BarCloses, RefreshStarts, RefreshLoad, RefreshStore, RefreshDerive,
                RefreshCrash, vars, clients
  <2> QED
    BY <2>1, Zenon DEF Flights, SingleFlight, Isolated
<1> QED
  BY <1>1, <1>2, <1>3, <1>4, <1>5, <1>6, Zenon DEF Next, ThreadStep

\* _load_provider and _provider_flights: at any time one thread of the gateway
\* asks the provider for the series, and a thread that waits waits for a flight
\* that will be settled.
THEOREM MarketSingleFlight == Spec => []SingleFlight
<1>1. Flights => SingleFlight
  BY Zenon DEF Flights
<1> QED
  BY <1>1, FlightsInit, FlightsStep, PTL DEF Spec

-----------------------------------------------------------------------------
(* The summary of the data page.                                           *)

\* At most one thread refreshes, and what it holds is newer than what is cached.
SummaryInv ==
  /\ version \in Nat
  /\ \E v \in 0..version, f \in BOOLEAN : cached = [version |-> v, fresh |-> f]
  /\ refreshing \in BOOLEAN
  /\ \/ refreshers = <<>>
     \/ /\ refreshing /\ cached.version # 0
        /\ \E r \in 0..version : /\ refreshers = <<r>>
                                 /\ r = 0 \/ r > cached.version

(* No refresh is under way at the start.                                   *)
LEMMA SummaryInitInv == SummaryInit => SummaryInv
  <1> SUFFICES ASSUME SummaryInit PROVE SummaryInv
    BY Zenon
  <1>1. version = 0 /\ refreshers = <<>> /\ refreshing = FALSE
    BY Zenon DEF SummaryInit
  <1>2. 0 \in 0..version /\ version \in Nat
    BY <1>1
  <1>3. cached = [version |-> 0, fresh |-> FALSE]
    BY Zenon DEF SummaryInit
  <1> QED
    BY <1>1, <1>2, <1>3, Zenon DEF SummaryInv

\* The one thread that refreshes is gone once it has stored.
LEMMA RemoveTheOnly ==
  ASSUME NEW r
  PROVE  SubSeq(<<r>>, 1, 1 - 1) \o SubSeq(<<r>>, 1 + 1, Len(<<r>>)) = <<>>
  <1>1. SubSeq(<<r>>, 1, 1 - 1) = <<>>
    OBVIOUS
  <1>2. SubSeq(<<r>>, 1 + 1, Len(<<r>>)) = <<>>
    OBVIOUS
  <1> QED
    BY <1>1, <1>2

\* A step keeps the invariant and does not take the cached summary back.
LEMMA SummaryNextInv ==
  ASSUME SummaryInv, [SummaryNext]_summaryVars
  PROVE  SummaryInv' /\ cached'.version >= cached.version
  <1>1. version \in Nat
    BY Zenon DEF SummaryInv
  <1>2. PICK v \in 0..version, f \in BOOLEAN : cached = [version |-> v, fresh |-> f]
    BY Zenon DEF SummaryInv
  <1>3. cached.version = v /\ cached.fresh = f
    BY <1>2, Zenon
  <1>4. refreshing \in BOOLEAN
    BY Zenon DEF SummaryInv
  <1>5. \/ refreshers = <<>>
        \/ /\ refreshing /\ v # 0
           /\ \E r \in 0..version : refreshers = <<r>> /\ (r = 0 \/ r > v)
    BY <1>3, Zenon DEF SummaryInv
  <1>6. CASE UNCHANGED summaryVars
    <2>1. cached' = cached /\ refreshers' = refreshers /\ refreshing' = refreshing
          /\ version' = version
      BY <1>6, Zenon DEF summaryVars
    <2>2. cached.version >= cached.version
      BY <1>1, <1>3
    <2> QED
      BY <2>1, <2>2, Zenon DEF SummaryInv
  <1>7. CASE SummaryRequest
    <2>1. CASE cached.version = 0
      <3>1. version' = version + 1 /\ cached' = [version |-> version + 1, fresh |-> TRUE]
            /\ refreshers' = refreshers /\ refreshing' = refreshing
        BY <1>7, <2>1, Zenon DEF SummaryRequest
      <3>2. refreshers = <<>>
        BY <1>3, <1>5, <2>1, Zenon
      <3>3. version + 1 \in 0..version' /\ version' \in Nat /\ TRUE \in BOOLEAN
        BY <1>1, <3>1
      <3>4. cached'.version = version + 1
        BY <3>1, Zenon
      <3>5. cached'.version >= cached.version
        BY <1>1, <2>1, <3>4
      <3>6. refreshers' = <<>> /\ refreshing' \in BOOLEAN
        BY <1>4, <3>1, <3>2, Zenon
      <3> QED
        BY <3>1, <3>3, <3>5, <3>6, Zenon DEF SummaryInv
    <2>2. CASE cached.version # 0
      <3>1. /\ ~refreshing /\ refreshing' = TRUE /\ refreshers' = Append(refreshers, 0)
            /\ cached' = cached /\ version' = version
        BY <1>7, <2>2, Zenon DEF SummaryRequest
      <3>2. refreshers = <<>>
        BY <1>5, <3>1, Zenon
      <3>3. refreshers' = <<0>>
        BY <3>1, <3>2
      <3>4. 0 \in 0..version' /\ v \in 0..version' /\ version' \in Nat
        BY <1>1, <3>1
      <3>5. cached' = [version |-> v, fresh |-> f]
        BY <1>2, <3>1, Zenon
      <3>6. cached'.version = v /\ v >= v
        BY <1>1, <3>5
      <3>7. v # 0
        BY <1>3, <2>2, Zenon
      <3> QED
        BY <1>3, <3>1, <3>3, <3>4, <3>5, <3>6, <3>7, Zenon DEF SummaryInv
    <2> QED
      BY <2>1, <2>2, Zenon
  <1>8. CASE SummaryExpires
    <2>1. cached' = [cached EXCEPT !.fresh = FALSE] /\ refreshers' = refreshers
          /\ refreshing' = refreshing /\ version' = version
      BY <1>8, Zenon DEF SummaryExpires
    <2>2. cached' = [version |-> v, fresh |-> FALSE]
      BY <1>2, <2>1, Zenon
    <2>3. cached'.version = v /\ v >= v
      BY <1>1, <2>2
    <2>4. FALSE \in BOOLEAN
      BY Zenon
    <2> QED
      BY <1>1, <1>3, <1>4, <1>5, <2>1, <2>2, <2>3, <2>4, Zenon DEF SummaryInv
  <1>9. ASSUME NEW i \in DOMAIN refreshers, RefreshComputes(i) \/ RefreshStores(i)
        PROVE  SummaryInv' /\ cached'.version >= cached.version
    <2>1. refreshers # <<>>
      BY <1>9
    <2>2. PICK r \in 0..version : refreshers = <<r>> /\ (r = 0 \/ r > v)
      BY <1>5, <2>1, Zenon
    <2>3. refreshing /\ v # 0
      BY <1>5, <2>1, Zenon
    <2>4. i = 1 /\ refreshers[i] = r
      BY <1>9, <2>2
    <2>5. CASE RefreshComputes(i)
      <3>1. r = 0 /\ version' = version + 1
            /\ refreshers' = [refreshers EXCEPT ![i] = version + 1]
            /\ cached' = cached /\ refreshing' = refreshing
        BY <2>4, <2>5, Zenon DEF RefreshComputes
      <3>2. refreshers' = <<version + 1>>
        BY <2>2, <2>4, <3>1
      <3>3. version + 1 \in 0..version' /\ v \in 0..version' /\ version' \in Nat
            /\ version + 1 > v /\ v >= v
        BY <1>1, <3>1
      <3>4. cached' = [version |-> v, fresh |-> f]
        BY <1>2, <3>1, Zenon
      <3> QED
        BY <1>3, <1>4, <2>3, <3>1, <3>2, <3>3, <3>4, Zenon DEF SummaryInv
    <2>6. CASE RefreshStores(i)
      <3>1. /\ cached' = (IF r = 0 THEN cached ELSE [version |-> r, fresh |-> TRUE])
            /\ refreshing' = FALSE /\ version' = version
            /\ refreshers' = SubSeq(<<r>>, 1, 1 - 1) \o SubSeq(<<r>>, 1 + 1, Len(<<r>>))
        BY <2>2, <2>4, <2>6, Zenon DEF RefreshStores
      <3>2. refreshers' = <<>>
        BY <3>1, RemoveTheOnly, Zenon
      <3>3. version' \in Nat /\ refreshing' \in BOOLEAN
        BY <1>1, <3>1, Zenon
      <3>4. CASE r = 0
        <4>1. cached' = cached /\ v >= v
          BY <1>1, <3>1, <3>4
        <4> QED
          BY <1>2, <1>3, <3>1, <3>2, <3>3, <4>1, Zenon DEF SummaryInv
      <3>5. CASE r # 0
        <4>1. cached' = [version |-> r, fresh |-> TRUE]
          BY <3>1, <3>5, Zenon
        <4>2. cached'.version = r /\ r >= v /\ TRUE \in BOOLEAN
          BY <1>1, <2>2, <3>5, <4>1
        <4> QED
          BY <1>3, <3>1, <3>2, <3>3, <4>1, <4>2, Zenon DEF SummaryInv
      <3> QED
        BY <3>4, <3>5, Zenon
    <2> QED
      BY <1>9, <2>5, <2>6, Zenon
  <1> QED
    BY <1>6, <1>7, <1>8, <1>9, Zenon DEF SummaryNext

\* The summary of the data page (_data_summary_cached, _refresh_data_summary_cache)
\* moves forward: although a thread computes it outside the lock, what it stores is
\* newer than what it replaces, for any number of requests and expiries.
THEOREM DataSummaryMovesForward == SummarySpec => SummaryMovesForward
  <1> DEFINE Forward == cached'.version >= cached.version
  <1>1. SummaryInit => SummaryInv
    BY SummaryInitInv, Zenon
  <1>2. SummaryInv /\ [SummaryNext]_summaryVars => SummaryInv'
    BY SummaryNextInv, Zenon
  <1>3. SummaryInv /\ [SummaryNext]_summaryVars => [Forward]_summaryVars
    BY SummaryNextInv, Zenon
  <1>4. SummaryMovesForward <=> [][Forward]_summaryVars
    BY Zenon DEF SummaryMovesForward
  <1> HIDE DEF Forward
  <1> QED
    BY <1>1, <1>2, <1>3, <1>4, PTL DEF SummarySpec

-----------------------------------------------------------------------------
(* The bar cache.                                                          *)

\* The tables made so far are numbered; the two names have different ones.
CacheTables ==
  /\ \E n \in Nat : DOMAIN inode = 1..n
  /\ \A i \in DOMAIN inode :
       inode[i] = [pages |-> inode[i].pages, writers |-> inode[i].writers,
                   cut |-> inode[i].cut, shared |-> inode[i].shared]
  /\ table \in DOMAIN inode \cup {0} /\ tmpTable \in DOMAIN inode \cup {0}
  /\ table # 0 => table # tmpTable
  /\ DOMAIN at = CacheProcs /\ DOMAIN open = CacheProcs /\ DOMAIN answer = CacheProcs

\* Who writes to a table is about to rename it.
CacheWriters ==
  /\ \A i \in DOMAIN inode : \A p \in inode[i].writers :
       p \in CacheProcs /\ at[p] = "rename" /\ open[p] = i
  /\ \A p \in CacheProcs : at[p] = "rename" => open[p] \in DOMAIN inode

\* While nobody shares the temporary table, at most one process is about to rename,
\* and what it wrote is that table.
OneSaver ==
  (tmpTable # 0 /\ ~inode[tmpTable].shared) =>
    \A p \in CacheProcs : at[p] = "rename" =>
      /\ open[p] = tmpTable /\ ~inode[tmpTable].cut
      /\ \A q \in CacheProcs : at[q] = "rename" => q = p

\* Any other table is whole unless two processes saved at once.
SettledAreWhole == \A i \in DOMAIN inode \ {tmpTable} : inode[i].shared \/ Whole(i)

\* Readers hold a table that is not the temporary one.
CacheReaders ==
  \A p \in CacheProcs :
    /\ at[p] = "parse" => open[p] \in DOMAIN inode \ {tmpTable}
    /\ answer[p] = "torn" => /\ at[p] \in {"idle", "trash"}
                             /\ open[p] \in DOMAIN inode \ {tmpTable}
                             /\ inode[open[p]].shared

CacheInv == CacheTables /\ CacheWriters /\ OneSaver /\ SettledAreWhole /\ CacheReaders

(* No process is at work at the start.                                     *)
LEMMA CacheInitInv == CacheInit => CacheInv
  <1> SUFFICES ASSUME CacheInit PROVE CacheInv
    BY Zenon
  <1>1. DOMAIN inode = {} /\ tmpTable = 0 /\ table = 0
    BY Zenon DEF CacheInit
  <1>2. 0 \in Nat /\ 1..0 = {}
    OBVIOUS
  <1>3. \E n \in Nat : DOMAIN inode = 1..n
    BY <1>1, <1>2, Zenon
  <1>4. /\ at = [p \in CacheProcs |-> "idle"] /\ open = [p \in CacheProcs |-> 0]
        /\ answer = [p \in CacheProcs |-> "none"]
    BY Zenon DEF CacheInit
  <1>5. \A p \in CacheProcs : at[p] # "rename" /\ at[p] # "parse" /\ answer[p] # "torn"
    BY <1>4, Zenon
  <1>6. DOMAIN at = CacheProcs /\ DOMAIN open = CacheProcs /\ DOMAIN answer = CacheProcs
    BY <1>4, Zenon
  <1>7. CacheTables
    BY <1>1, <1>3, <1>6, Zenon DEF CacheTables
  <1>8. CacheWriters /\ OneSaver /\ SettledAreWhole /\ CacheReaders
    BY <1>1, <1>5, Zenon DEF CacheWriters, OneSaver, SettledAreWhole, CacheReaders
  <1> QED
    BY <1>7, <1>8, Zenon DEF CacheInv

\* Only a process that is about to rename writes.
LEMMA NoWriterElsewhere ==
  ASSUME CacheInv, NEW p \in CacheProcs, at[p] # "rename" \/ p \notin inode[open[p]].writers
  PROVE  \A i \in DOMAIN inode : p \notin inode[i].writers
  BY Zenon DEF CacheInv, CacheWriters

\* A process that writes to no table walks to a place where it saves nothing: the
\* tables are the ones there were, except that the name may be deleted.
LEMMA WalkKeepsCache ==
  ASSUME CacheInv, NEW p \in CacheProcs, NEW to, to # "rename",
         inode' = inode, tmpTable' = tmpTable, table' = table \/ table' = 0,
         at' = [at EXCEPT ![p] = to],
         \A i \in DOMAIN inode : p \notin inode[i].writers,
         DOMAIN open' = CacheProcs, DOMAIN answer' = CacheProcs,
         \A q \in CacheProcs \ {p} : open'[q] = open[q] /\ answer'[q] = answer[q],
         to = "parse" => open'[p] \in DOMAIN inode \ {tmpTable},
         answer'[p] = "torn" => /\ to \in {"idle", "trash"}
                                /\ open'[p] \in DOMAIN inode \ {tmpTable}
                                /\ inode[open'[p]].shared
  PROVE  CacheInv'
  <1>1. DOMAIN at' = CacheProcs
    BY Zenon DEF CacheInv, CacheTables
  <1>2. at'[p] = to /\ \A q \in CacheProcs \ {p} : at'[q] = at[q]
    BY Zenon DEF CacheInv, CacheTables
  <1>3. CacheTables'
    <2>1. table' \in DOMAIN inode' \cup {0} /\ (table' # 0 => table' # tmpTable')
      BY Zenon DEF CacheInv, CacheTables
    <2> QED
      BY <1>1, <2>1, Zenon DEF CacheInv, CacheTables
  <1>4. CacheWriters'
    <2>1. ASSUME NEW i \in DOMAIN inode', NEW q \in inode'[i].writers
          PROVE  q \in CacheProcs /\ at'[q] = "rename" /\ open'[q] = i
      <3>1. q \in CacheProcs /\ at[q] = "rename" /\ open[q] = i /\ q # p
        BY <2>1, Zenon DEF CacheInv, CacheWriters
      <3> QED
        BY <1>2, <3>1, Zenon
    <2>2. ASSUME NEW q \in CacheProcs, at'[q] = "rename" PROVE open'[q] \in DOMAIN inode'
      <3>1. q # p /\ at[q] = "rename" /\ open'[q] = open[q]
        BY <1>2, <2>2, Zenon
      <3> QED
        BY <3>1, Zenon DEF CacheInv, CacheWriters
    <2> QED
      BY <2>1, <2>2, Zenon DEF CacheWriters
  <1>5. OneSaver'
    <2> SUFFICES ASSUME tmpTable # 0, ~inode[tmpTable].shared,
                        NEW q \in CacheProcs, at'[q] = "rename"
        PROVE  /\ open'[q] = tmpTable /\ ~inode[tmpTable].cut
               /\ \A x \in CacheProcs : at'[x] = "rename" => x = q
      BY Zenon DEF OneSaver
    <2>1. q # p /\ at[q] = "rename" /\ open'[q] = open[q]
      BY <1>2, Zenon
    <2>2. /\ open[q] = tmpTable /\ ~inode[tmpTable].cut
          /\ \A x \in CacheProcs : at[x] = "rename" => x = q
      BY <2>1, Zenon DEF CacheInv, OneSaver
    <2>3. \A x \in CacheProcs : at'[x] = "rename" => at[x] = "rename"
      BY <1>2, Zenon
    <2> QED
      BY <2>1, <2>2, <2>3, Zenon
  <1>6. SettledAreWhole'
    BY Zenon DEF CacheInv, SettledAreWhole, Whole
  <1>7. CacheReaders'
    <2> SUFFICES ASSUME NEW q \in CacheProcs
        PROVE  /\ at'[q] = "parse" => open'[q] \in DOMAIN inode \ {tmpTable}
               /\ answer'[q] = "torn" => /\ at'[q] \in {"idle", "trash"}
                                         /\ open'[q] \in DOMAIN inode \ {tmpTable}
                                         /\ inode[open'[q]].shared
      BY Zenon DEF CacheReaders
    <2>1. CASE q = p
      BY <1>2, <2>1, Zenon
    <2>2. CASE q # p
      <3>1. at'[q] = at[q] /\ open'[q] = open[q] /\ answer'[q] = answer[q]
        BY <1>2, <2>2, Zenon
      <3>2. /\ at[q] = "parse" => open[q] \in DOMAIN inode \ {tmpTable}
            /\ answer[q] = "torn" => /\ at[q] \in {"idle", "trash"}
                                     /\ open[q] \in DOMAIN inode \ {tmpTable}
                                     /\ inode[open[q]].shared
        BY Zenon DEF CacheInv, CacheReaders
      <3> QED
        BY <3>1, <3>2, Zenon
    <2> QED
      BY <2>1, <2>2, Zenon
  <1> QED
    BY <1>3, <1>4, <1>5, <1>6, <1>7, Zenon DEF CacheInv

\* The steps of a process that saves nothing.
LEMMA QuietStepsKeepCache ==
  ASSUME CacheInv, NEW p \in CacheProcs,
         \/ LookUp(p) \/ OpenTable(p) \/ ParseTable(p)
         \/ \E P \in SUBSET AllPages : FetchSeries(p, P)
         \/ EndPages(p) \/ WriteMeta(p) \/ ReplaceMeta(p) \/ DeleteMeta(p) \/ DeleteTable(p)
  PROVE  CacheInv'
  <1>1. inode' = inode /\ tmpTable' = tmpTable /\ (table' = table \/ table' = 0)
    BY Zenon DEF LookUp, OpenTable, ParseTable, FetchSeries, EndPages, WriteMeta,
                 ReplaceMeta, DeleteMeta, DeleteTable
  <1>2. DOMAIN open = CacheProcs /\ DOMAIN answer = CacheProcs
    BY Zenon DEF CacheInv, CacheTables
  <1>3. at[p] \in {"idle", "open", "parse", "fetch", "meta", "commit", "trash"}
    BY Zenon DEF LookUp, OpenTable, ParseTable, FetchSeries, EndPages, WriteMeta,
                 ReplaceMeta, DeleteMeta, DeleteTable, CacheStep
  <1>4. \A i \in DOMAIN inode : p \notin inode[i].writers
    <2>1. at[p] # "rename"
      BY <1>3, Zenon
    <2> QED
      BY <2>1, NoWriterElsewhere, Zenon
  <1>5. answer[p] = "torn" => /\ at[p] \in {"idle", "trash"}
                              /\ open[p] \in DOMAIN inode \ {tmpTable}
                              /\ inode[open[p]].shared
    BY Zenon DEF CacheInv, CacheReaders
  <1>6. CASE LookUp(p) \/ EndPages(p) \/ \E P \in SUBSET AllPages : FetchSeries(p, P)
    <2>1. \E to \in {"open", "fetch", "idle", "write"} : at' = [at EXCEPT ![p] = to]
      BY <1>6, Zenon DEF LookUp, EndPages, FetchSeries, CacheStep
    <2>2. \E a \in {"none", "fetched"} : answer' = [answer EXCEPT ![p] = a]
      BY <1>6, Zenon DEF LookUp, EndPages, FetchSeries, Answers
    <2>3. open' = open
      BY <1>6, Zenon DEF LookUp, EndPages, FetchSeries
    <2>4. \A to \in {"open", "fetch", "idle", "write"} : to # "rename" /\ to # "parse"
      BY Zenon
    <2>5. \A a \in {"none", "fetched"} : a # "torn"
      BY Zenon
    <2>6. /\ DOMAIN answer' = CacheProcs /\ answer'[p] # "torn"
          /\ \A q \in CacheProcs \ {p} : answer'[q] = answer[q]
      BY <1>2, <2>2, <2>5, Zenon
    <2>7. PICK to \in {"open", "fetch", "idle", "write"} : at' = [at EXCEPT ![p] = to]
      BY <2>1, Zenon
    <2>8. to # "rename" /\ to # "parse"
      BY <2>4, <2>7, Zenon
    <2> QED
      BY <1>1, <1>2, <1>4, <2>3, <2>6, <2>7, <2>8, WalkKeepsCache, Zenon
  <1>7. CASE OpenTable(p)
    <2>1. CASE table = 0
      <3>1. at' = [at EXCEPT ![p] = "idle"] /\ open' = [open EXCEPT ![p] = table]
            /\ answer' = [answer EXCEPT ![p] = "error"]
        BY <1>7, <2>1, Zenon DEF OpenTable, CacheStep, Answers
      <3>2. /\ DOMAIN answer' = CacheProcs /\ answer'[p] = "error" /\ DOMAIN open' = CacheProcs
            /\ \A q \in CacheProcs \ {p} : answer'[q] = answer[q] /\ open'[q] = open[q]
        BY <1>2, <3>1, Zenon
      <3>3. answer'[p] # "torn" /\ "idle" # "rename" /\ "idle" # "parse"
        BY <3>2, Zenon
      <3> QED
        BY <1>1, <1>4, <3>1, <3>2, <3>3, WalkKeepsCache, Zenon
    <2>2. CASE table # 0
      <3>1. at' = [at EXCEPT ![p] = "parse"] /\ open' = [open EXCEPT ![p] = table]
            /\ answer' = [answer EXCEPT ![p] = "none"]
        BY <1>7, <2>2, Zenon DEF OpenTable, CacheStep, Answers
      <3>2. /\ DOMAIN answer' = CacheProcs /\ answer'[p] = "none" /\ DOMAIN open' = CacheProcs
            /\ \A q \in CacheProcs \ {p} : answer'[q] = answer[q] /\ open'[q] = open[q]
            /\ open'[p] = table
        BY <1>2, <3>1, Zenon
      <3>3. answer'[p] # "torn" /\ "parse" # "rename"
        BY <3>2, Zenon
      <3>4. table \in DOMAIN inode \ {tmpTable}
        BY <2>2, Zenon DEF CacheInv, CacheTables
      <3> QED
        BY <1>1, <1>4, <3>1, <3>2, <3>3, <3>4, WalkKeepsCache, Zenon
    <2> QED
      BY <2>1, <2>2, Zenon
  <1>8. CASE ParseTable(p)
    <2>1. at' = [at EXCEPT ![p] = "idle"] /\ open' = open /\ at[p] = "parse"
      BY <1>8, Zenon DEF ParseTable, CacheStep
    <2>2. open[p] \in DOMAIN inode \ {tmpTable}
      BY <2>1, Zenon DEF CacheInv, CacheReaders
    <2>3. ASSUME ~inode[open[p]].shared PROVE Whole(open[p])
      BY <2>2, <2>3, Zenon DEF CacheInv, SettledAreWhole
    <2> DEFINE a == IF ~Whole(open[p]) THEN "torn"
                    ELSE IF inode[open[p]].pages = {} THEN "error" ELSE "hit"
    <2>4. answer' = [answer EXCEPT ![p] = a]
      BY <1>8, Zenon DEF ParseTable, Answers
    <2>5. Whole(open[p]) => a # "torn"
      <3> HIDE DEF Whole
      <3> SUFFICES ASSUME Whole(open[p]) PROVE a # "torn"
        BY Zenon
      <3>1. CASE inode[open[p]].pages = {}
        <4>1. a = "error"
          BY <3>1, Zenon
        <4> QED
          BY <4>1, Zenon
      <3>2. CASE inode[open[p]].pages # {}
        <4>1. a = "hit"
          BY <3>2, Zenon
        <4> QED
          BY <4>1, Zenon
      <3> QED
        BY <3>1, <3>2, Zenon
    <2> HIDE DEF a
    <2>6. /\ DOMAIN answer' = CacheProcs /\ answer'[p] = a
          /\ \A q \in CacheProcs \ {p} : answer'[q] = answer[q]
      BY <1>2, <2>4, Zenon
    <2>7. answer'[p] = "torn" => inode[open[p]].shared
      BY <2>3, <2>5, <2>6, Zenon
    <2>8. "idle" # "rename" /\ "idle" # "parse"
      BY Zenon
    <2> QED
      BY <1>1, <1>2, <1>4, <2>1, <2>2, <2>6, <2>7, <2>8, WalkKeepsCache, Zenon
  <1>9. CASE ReplaceMeta(p)
    <2>1. at' = [at EXCEPT ![p] = "idle"] /\ open' = open
      BY <1>9, Zenon DEF ReplaceMeta, CacheStep
    <2>2. \E a \in {"fetched", "error"} : answer' = [answer EXCEPT ![p] = a]
      BY <1>9, Zenon DEF ReplaceMeta, Answers
    <2>3. \A a \in {"fetched", "error"} : a # "torn"
      BY Zenon
    <2>4. /\ DOMAIN answer' = CacheProcs /\ answer'[p] # "torn"
          /\ \A q \in CacheProcs \ {p} : answer'[q] = answer[q]
      BY <1>2, <2>2, <2>3, Zenon
    <2>5. "idle" # "rename" /\ "idle" # "parse"
      BY Zenon
    <2> QED
      BY <1>1, <1>2, <1>4, <2>1, <2>4, <2>5, WalkKeepsCache, Zenon
  <1>10. CASE WriteMeta(p)
    <2>1. at' = [at EXCEPT ![p] = "commit"] /\ open' = open /\ answer' = answer
          /\ at[p] = "meta"
      BY <1>10, Zenon DEF WriteMeta, CacheStep
    <2>2. at[p] \notin {"idle", "trash"}
      BY <2>1, Zenon
    <2>3. answer'[p] # "torn"
      BY <1>5, <2>1, <2>2, Zenon
    <2>4. "commit" # "rename" /\ "commit" # "parse"
      BY Zenon
    <2> QED
      BY <1>1, <1>2, <1>4, <2>1, <2>3, <2>4, WalkKeepsCache, Zenon
  <1>11. CASE DeleteMeta(p) \/ DeleteTable(p)
    <2>1. open' = open /\ answer' = answer
          /\ \E to \in {"idle", "trash"} : at' = [at EXCEPT ![p] = to]
      BY <1>11, Zenon DEF DeleteMeta, DeleteTable, CacheStep
    <2>2. PICK to \in {"idle", "trash"} : at' = [at EXCEPT ![p] = to]
      BY <2>1, Zenon
    <2>3. to # "rename" /\ to # "parse"
      BY Zenon
    <2> QED
      BY <1>1, <1>2, <1>4, <1>5, <2>1, <2>2, <2>3, WalkKeepsCache, Zenon
  <1> QED
    BY <1>6, <1>7, <1>8, <1>9, <1>10, <1>11, Zenon

\* The temporary table is opened: if another process is about to rename, it is
\* shared from now on; if not, this process is the only one that saves.
LEMMA WriteTableKeepsCache ==
  ASSUME CacheInv, NEW p \in CacheProcs, WriteTable(p)
  PROVE  CacheInv'
  <1> DEFINE i == IF tmpTable = 0 THEN Cardinality(DOMAIN inode) + 1 ELSE tmpTable
             others == IF tmpTable = 0 THEN {} ELSE inode[i].writers
             inUse == \E q \in CacheProcs : at[q] = "rename"
             row == [pages |-> pages[p], writers |-> others \cup {p}, cut |-> FALSE,
                     shared |-> inUse]
  <1>1. /\ at[p] = "write" /\ at' = [at EXCEPT ![p] = "rename"]
        /\ inode' = [j \in DOMAIN inode \cup {i} |-> IF j = i THEN row ELSE inode[j]]
        /\ tmpTable' = i /\ open' = [open EXCEPT ![p] = i]
        /\ table' = table /\ answer' = answer
    BY Zenon DEF WriteTable, CacheStep
  <1>2. PICK n \in Nat : DOMAIN inode = 1..n
    BY Zenon DEF CacheInv, CacheTables
  <1>3. /\ i # 0
        /\ \/ tmpTable # 0 /\ i = tmpTable /\ i \in DOMAIN inode
           \/ tmpTable = 0 /\ i = n + 1 /\ i \notin DOMAIN inode
    <2>1. Cardinality(1..n) = n
      BY <1>2, FS_Interval
    <2>2. CASE tmpTable = 0
      BY <1>2, <2>1, <2>2
    <2>3. CASE tmpTable # 0
      BY <2>3, Zenon DEF CacheInv, CacheTables
    <2> QED
      BY <2>2, <2>3, Zenon
  <1>4. \E m \in Nat : DOMAIN inode \cup {i} = 1..m
    <2>1. CASE tmpTable # 0
      BY <1>2, <1>3, <2>1, Zenon
    <2>2. CASE tmpTable = 0
      <3>1. i = n + 1
        BY <1>3, <2>2, Zenon
      <3>2. 1..n \cup {n + 1} = 1..(n + 1) /\ n + 1 \in Nat
        BY <1>2
      <3> QED
        BY <1>2, <3>1, <3>2, Zenon
    <2> QED
      BY <2>1, <2>2, Zenon
  <1>5. tmpTable # 0 => others = inode[tmpTable].writers
    BY Zenon
  <1>6. tmpTable = 0 => others = {}
    BY Zenon
  <1> HIDE DEF i, others, inUse
  <1>7. row.writers = others \cup {p} /\ row.cut = FALSE /\ row.shared = inUse
        /\ row.pages = pages[p]
    BY Zenon
  <1>8. DOMAIN inode' = DOMAIN inode \cup {i} /\ inode'[i] = row
        /\ \A j \in DOMAIN inode \ {i} : inode'[j] = inode[j]
    BY <1>1, Zenon
  <1>9. /\ DOMAIN at' = CacheProcs /\ DOMAIN open' = CacheProcs
        /\ at'[p] = "rename" /\ open'[p] = i
        /\ \A q \in CacheProcs \ {p} : at'[q] = at[q] /\ open'[q] = open[q]
    BY <1>1, Zenon DEF CacheInv, CacheTables
  <1>10. \A j \in DOMAIN inode : j # tmpTable => j # i
    BY <1>3, Zenon
  <1>11. row = [pages |-> row.pages, writers |-> row.writers, cut |-> row.cut,
                shared |-> row.shared]
    BY Zenon
  <1> HIDE DEF row
  <1>12. CacheTables'
    <2>1. \A j \in DOMAIN inode' :
             inode'[j] = [pages |-> inode'[j].pages, writers |-> inode'[j].writers,
                          cut |-> inode'[j].cut, shared |-> inode'[j].shared]
      <3> TAKE j \in DOMAIN inode'
      <3>1. CASE j = i
        BY <1>8, <1>11, <3>1, Zenon
      <3>2. CASE j # i
        <4>1. j \in DOMAIN inode /\ inode'[j] = inode[j]
          BY <1>8, <3>2, Zenon
        <4> QED
          BY <4>1, Zenon DEF CacheInv, CacheTables
      <3> QED
        BY <3>1, <3>2, Zenon
    <2>2. table' \in DOMAIN inode' \cup {0} /\ tmpTable' \in DOMAIN inode' \cup {0}
      BY <1>1, <1>8, Zenon DEF CacheInv, CacheTables
    <2>3. table' # 0 => table' # tmpTable'
      <3> SUFFICES ASSUME table # 0 PROVE table # i
        BY <1>1, Zenon
      <3>1. table \in DOMAIN inode /\ table # tmpTable
        BY Zenon DEF CacheInv, CacheTables
      <3> QED
        BY <1>10, <3>1, Zenon
    <2>4. DOMAIN answer' = CacheProcs
      BY <1>1, Zenon DEF CacheInv, CacheTables
    <2> QED
      BY <1>4, <1>8, <1>9, <2>1, <2>2, <2>3, <2>4, Zenon DEF CacheTables
  <1>13. \A j \in DOMAIN inode : p \notin inode[j].writers
    <2>1. at[p] # "rename"
      BY <1>1, Zenon
    <2> QED
      BY <2>1, NoWriterElsewhere, Zenon
  <1>14. CacheWriters'
    <2>1. ASSUME NEW j \in DOMAIN inode', NEW q \in inode'[j].writers
          PROVE  q \in CacheProcs /\ at'[q] = "rename" /\ open'[q] = j
      <3>1. CASE q = p
        <4>1. j = i
          BY <1>8, <1>13, <2>1, <3>1, Zenon
        <4> QED
          BY <1>9, <3>1, <4>1, Zenon
      <3>2. CASE q # p
        <4>1. j \in DOMAIN inode /\ q \in inode[j].writers
          <5>1. CASE j = i
            <6>1. q \in others
              BY <1>7, <1>8, <2>1, <3>2, <5>1, Zenon
            <6>2. tmpTable # 0
              BY <1>6, <6>1, Zenon
            <6> QED
              BY <1>3, <1>5, <5>1, <6>1, <6>2, Zenon
          <5>2. CASE j # i
            BY <1>8, <2>1, <5>2, Zenon
          <5> QED
            BY <5>1, <5>2, Zenon
        <4>2. q \in CacheProcs /\ at[q] = "rename" /\ open[q] = j
          BY <4>1, Zenon DEF CacheInv, CacheWriters
        <4> QED
          BY <1>9, <3>2, <4>2, Zenon
      <3> QED
        BY <3>1, <3>2, Zenon
    <2>2. ASSUME NEW q \in CacheProcs, at'[q] = "rename" PROVE open'[q] \in DOMAIN inode'
      <3>1. CASE q = p
        BY <1>8, <1>9, <3>1, Zenon
      <3>2. CASE q # p
        BY <1>8, <1>9, <2>2, <3>2, Zenon DEF CacheInv, CacheWriters
      <3> QED
        BY <3>1, <3>2, Zenon
    <2> QED
      BY <2>1, <2>2, Zenon DEF CacheWriters
  <1>15. OneSaver'
    <2> SUFFICES ASSUME ~row.shared, NEW q \in CacheProcs, at'[q] = "rename"
        PROVE  /\ open'[q] = i /\ ~row.cut
               /\ \A x \in CacheProcs : at'[x] = "rename" => x = q
      BY <1>1, <1>8, Zenon DEF OneSaver
    <2>1. ~inUse
      BY <1>7, Zenon
    <2>2. \A x \in CacheProcs : at[x] # "rename"
      BY <2>1, Zenon DEF inUse
    <2>3. \A x \in CacheProcs : at'[x] = "rename" => x = p
      BY <1>9, <2>2, Zenon
    <2> QED
      BY <1>7, <1>9, <2>3, Zenon
  <1>16. SettledAreWhole'
    <2> SUFFICES ASSUME NEW j \in DOMAIN inode', j # i
        PROVE  inode'[j].shared \/ (inode'[j].writers = {} /\ ~inode'[j].cut)
      BY <1>1, Zenon DEF SettledAreWhole, Whole
    <2>1. 0 \notin DOMAIN inode
      BY <1>2
    <2>2. j \in DOMAIN inode /\ inode'[j] = inode[j]
      BY <1>8, Zenon
    <2>3. j # tmpTable
      BY <1>3, <2>1, <2>2, Zenon
    <2> QED
      BY <2>2, <2>3, Zenon DEF CacheInv, SettledAreWhole, Whole
  <1>17. CacheReaders'
    <2> SUFFICES ASSUME NEW q \in CacheProcs
        PROVE  /\ at'[q] = "parse" => open'[q] \in DOMAIN inode' \ {i}
               /\ answer[q] = "torn" => /\ at'[q] \in {"idle", "trash"}
                                        /\ open'[q] \in DOMAIN inode' \ {i}
                                        /\ inode'[open'[q]].shared
      BY <1>1, Zenon DEF CacheReaders
    <2>1. CASE q = p
      <3>1. at[p] \notin {"idle", "trash"} /\ at'[p] # "parse"
        BY <1>1, <1>9, Zenon
      <3> QED
        BY <2>1, <3>1, Zenon DEF CacheInv, CacheReaders
    <2>2. CASE q # p
      <3>1. at'[q] = at[q] /\ open'[q] = open[q]
        BY <1>9, <2>2, Zenon
      <3>2. ASSUME open[q] \in DOMAIN inode \ {tmpTable}
            PROVE  open[q] \in DOMAIN inode' \ {i} /\ inode'[open[q]] = inode[open[q]]
        BY <1>8, <1>10, <3>2, Zenon
      <3> QED
        BY <3>1, <3>2, Zenon DEF CacheInv, CacheReaders
    <2> QED
      BY <2>1, <2>2, Zenon
  <1> QED
    BY <1>12, <1>14, <1>15, <1>16, <1>17, Zenon DEF CacheInv

\* A process has written its last row: the tables are what they were, one has a
\* writer less.
LEMMA WrittenKeepsCache ==
  ASSUME CacheInv, NEW p \in CacheProcs, NEW lost \in BOOLEAN, NEW to,
         lost \/ p \in inode[open[p]].writers,
         \/ to = "rename" /\ ~lost /\ at[p] = "rename"
         \/ to = "idle" /\ lost,
         DOMAIN at' = CacheProcs, at'[p] = to,
         \A q \in CacheProcs \ {p} : at'[q] = at[q],
         DOMAIN inode' = DOMAIN inode,
         \A i \in DOMAIN inode :
            /\ inode'[i] = [pages |-> inode'[i].pages, writers |-> inode'[i].writers,
                            cut |-> inode'[i].cut, shared |-> inode'[i].shared]
            /\ inode'[i].writers = inode[i].writers \ {p}
            /\ inode'[i].shared <=> inode[i].shared
            /\ inode'[i].cut => inode[i].cut \/ (lost /\ p \in inode[i].writers),
         UNCHANGED <<tmpTable, table, open, answer>>
  PROVE  CacheInv'
  <1>1. tmpTable' = tmpTable /\ table' = table /\ open' = open /\ answer' = answer
    BY Zenon
  <1>2. /\ DOMAIN at' = CacheProcs /\ at'[p] = to
        /\ \A q \in CacheProcs \ {p} : at'[q] = at[q]
    BY Zenon
  <1>3. \A i \in DOMAIN inode :
          /\ inode'[i] = [pages |-> inode'[i].pages, writers |-> inode'[i].writers,
                          cut |-> inode'[i].cut, shared |-> inode'[i].shared]
          /\ inode'[i].writers = inode[i].writers \ {p}
          /\ inode'[i].shared <=> inode[i].shared
          /\ inode'[i].cut => inode[i].cut \/ (lost /\ p \in inode[i].writers)
    BY Zenon
  <1>4. \A q \in CacheProcs : at'[q] = "rename" => at[q] = "rename" /\ (q = p => ~lost)
    <2>1. "idle" # "rename"
      BY Zenon
    <2> QED
      BY <1>2, <2>1, Zenon
  <1>5. CacheTables'
    BY <1>1, <1>2, <1>3, Zenon DEF CacheInv, CacheTables
  <1>6. CacheWriters'
    <2>1. ASSUME NEW i \in DOMAIN inode', NEW q \in inode'[i].writers
          PROVE  q \in CacheProcs /\ at'[q] = "rename" /\ open'[q] = i
      <3>1. i \in DOMAIN inode
        BY <2>1, Zenon
      <3>2. inode'[i].writers = inode[i].writers \ {p}
        BY <1>3, <3>1, Zenon
      <3>3. q \in inode[i].writers /\ q # p
        BY <2>1, <3>2, Zenon
      <3>4. q \in CacheProcs /\ at[q] = "rename" /\ open[q] = i
        BY <3>1, <3>3, Zenon DEF CacheInv, CacheWriters
      <3> QED
        BY <1>1, <1>2, <3>3, <3>4, Zenon
    <2>2. \A q \in CacheProcs : at'[q] = "rename" => open'[q] \in DOMAIN inode'
      BY <1>1, <1>4, Zenon DEF CacheInv, CacheWriters
    <2> QED
      BY <2>1, <2>2, Zenon DEF CacheWriters
  <1>7. OneSaver'
    <2> SUFFICES ASSUME tmpTable # 0, ~inode'[tmpTable].shared,
                        NEW q \in CacheProcs, at'[q] = "rename"
        PROVE  /\ open[q] = tmpTable /\ ~inode'[tmpTable].cut
               /\ \A x \in CacheProcs : at'[x] = "rename" => x = q
      BY <1>1, Zenon DEF OneSaver
    <2>1. tmpTable \in DOMAIN inode /\ ~inode[tmpTable].shared
      BY <1>3, Zenon DEF CacheInv, CacheTables
    <2>2. /\ open[q] = tmpTable /\ ~inode[tmpTable].cut
          /\ \A x \in CacheProcs : at[x] = "rename" => x = q
      BY <1>4, <2>1, Zenon DEF CacheInv, OneSaver
    <2>3. ASSUME lost, p \in inode[tmpTable].writers PROVE FALSE
      <3>1. at[p] = "rename"
        BY <2>1, <2>3, Zenon DEF CacheInv, CacheWriters
      <3>2. q = p
        BY <2>2, <3>1, Zenon
      <3> QED
        BY <1>4, <2>3, <3>2, Zenon
    <2> QED
      BY <1>3, <1>4, <2>1, <2>2, <2>3, Zenon
  <1>8. SettledAreWhole'
    <2> SUFFICES ASSUME NEW i \in DOMAIN inode, i # tmpTable
        PROVE  inode'[i].shared \/ (inode'[i].writers = {} /\ ~inode'[i].cut)
      BY <1>1, Zenon DEF SettledAreWhole, Whole
    <2>1. inode[i].shared \/ (inode[i].writers = {} /\ ~inode[i].cut)
      BY Zenon DEF CacheInv, SettledAreWhole, Whole
    <2> QED
      BY <1>3, <2>1, Zenon
  <1>9. CacheReaders'
    <2> SUFFICES ASSUME NEW q \in CacheProcs
        PROVE  /\ at'[q] = "parse" => open[q] \in DOMAIN inode \ {tmpTable}
               /\ answer[q] = "torn" => /\ at'[q] \in {"idle", "trash"}
                                        /\ open[q] \in DOMAIN inode \ {tmpTable}
                                        /\ inode'[open[q]].shared
      BY <1>1, Zenon DEF CacheReaders
    <2>1. "rename" # "parse" /\ "idle" # "parse" /\ "rename" \notin {"idle", "trash"}
      BY Zenon
    <2>2. at'[q] = "parse" => at[q] = "parse"
      BY <1>2, <2>1, Zenon
    <2>3. at[q] \in {"idle", "trash"} => at'[q] \in {"idle", "trash"}
      BY <1>2, <2>1, Zenon
    <2> QED
      BY <1>3, <2>2, <2>3, Zenon DEF CacheInv, CacheReaders
  <1> QED
    BY <1>5, <1>6, <1>7, <1>8, <1>9, Zenon DEF CacheInv

\* The temporary table gets the name: unless it was shared, its one writer is the
\* process that renames it, and that one has closed it.
LEMMA ReplaceTableKeepsCache ==
  ASSUME CacheInv, NEW p \in CacheProcs, ReplaceTable(p)
  PROVE  CacheInv'
  <1>1. /\ at[p] = "rename" /\ p \notin inode[open[p]].writers
        /\ inode' = inode /\ open' = open
    BY Zenon DEF ReplaceTable
  <1>2. \A i \in DOMAIN inode : p \notin inode[i].writers
    BY <1>1, NoWriterElsewhere, Zenon
  <1>3. DOMAIN open = CacheProcs /\ DOMAIN answer = CacheProcs /\ DOMAIN at = CacheProcs
    BY Zenon DEF CacheInv, CacheTables
  <1>4. at[p] \notin {"idle", "trash"}
    BY <1>1, Zenon
  <1>5. answer[p] # "torn"
    BY <1>4, Zenon DEF CacheInv, CacheReaders
  <1>6. CASE tmpTable = 0
    <2>1. at' = [at EXCEPT ![p] = "idle"] /\ table' = table /\ tmpTable' = tmpTable
      BY <1>6, Zenon DEF ReplaceTable, CacheStep
    <2>2. \E a \in {"fetched", "error"} : answer' = [answer EXCEPT ![p] = a]
      BY <1>6, Zenon DEF ReplaceTable, Answers
    <2>3. \A a \in {"fetched", "error"} : a # "torn"
      BY Zenon
    <2>4. /\ DOMAIN answer' = CacheProcs /\ answer'[p] # "torn"
          /\ \A q \in CacheProcs \ {p} : answer'[q] = answer[q]
      BY <1>3, <2>2, <2>3, Zenon
    <2>5. "idle" # "rename" /\ "idle" # "parse"
      BY Zenon
    <2> QED
      BY <1>1, <1>2, <1>3, <2>1, <2>4, <2>5, WalkKeepsCache, Zenon
  <1>7. CASE tmpTable # 0
    <2>1. table' = tmpTable /\ tmpTable' = 0 /\ at' = [at EXCEPT ![p] = "meta"]
          /\ answer' = answer
      BY <1>7, Zenon DEF ReplaceTable, CacheStep
    <2>2. at'[p] = "meta" /\ DOMAIN at' = CacheProcs
          /\ \A q \in CacheProcs \ {p} : at'[q] = at[q]
      BY <1>3, <2>1, Zenon
    <2>3. "meta" # "rename" /\ "meta" # "parse"
      BY Zenon
    <2>4. 0 \notin DOMAIN inode
      <3>1. PICK n \in Nat : DOMAIN inode = 1..n
        BY Zenon DEF CacheInv, CacheTables
      <3> QED
        BY <3>1
    <2>5. tmpTable \in DOMAIN inode
      BY <1>7, Zenon DEF CacheInv, CacheTables
    <2>6. inode[tmpTable].shared \/ Whole(tmpTable)
      <3> SUFFICES ASSUME ~inode[tmpTable].shared PROVE Whole(tmpTable)
        BY Zenon
      <3>1. ~inode[tmpTable].cut /\ \A q \in CacheProcs : at[q] = "rename" => q = p
        BY <1>1, <1>7, Zenon DEF CacheInv, OneSaver
      <3>2. \A q \in inode[tmpTable].writers : q \in CacheProcs /\ at[q] = "rename"
        BY <2>5, Zenon DEF CacheInv, CacheWriters
      <3>3. inode[tmpTable].writers = {}
        BY <1>2, <2>5, <3>1, <3>2, Zenon
      <3> QED
        BY <3>1, <3>3, Zenon DEF Whole
    <2>7. CacheTables'
      BY <1>1, <1>3, <1>7, <2>1, <2>2, <2>5, Zenon DEF CacheInv, CacheTables
    <2>8. CacheWriters'
      <3>1. ASSUME NEW i \in DOMAIN inode, NEW q \in inode[i].writers
            PROVE  q \in CacheProcs /\ at'[q] = "rename" /\ open[q] = i
        BY <1>2, <2>2, <3>1, Zenon DEF CacheInv, CacheWriters
      <3>2. \A q \in CacheProcs : at'[q] = "rename" => open[q] \in DOMAIN inode
        BY <2>2, <2>3, Zenon DEF CacheInv, CacheWriters
      <3> QED
        BY <1>1, <3>1, <3>2, Zenon DEF CacheWriters
    <2>9. OneSaver'
      BY <2>1, Zenon DEF OneSaver
    <2>10. SettledAreWhole'
      <3> SUFFICES ASSUME NEW i \in DOMAIN inode PROVE inode[i].shared \/ Whole(i)
        BY <1>1, Zenon DEF SettledAreWhole, Whole
      <3>1. CASE i = tmpTable
        BY <2>6, <3>1, Zenon
      <3>2. CASE i # tmpTable
        BY <3>2, Zenon DEF CacheInv, SettledAreWhole
      <3> QED
        BY <3>1, <3>2, Zenon
    <2>11. CacheReaders'
      <3> SUFFICES ASSUME NEW q \in CacheProcs
          PROVE  /\ at'[q] = "parse" => open[q] \in DOMAIN inode \ {0}
                 /\ answer[q] = "torn" => /\ at'[q] \in {"idle", "trash"}
                                          /\ open[q] \in DOMAIN inode \ {0}
                                          /\ inode[open[q]].shared
        BY <1>1, <2>1, Zenon DEF CacheReaders
      <3>1. CASE q = p
        BY <1>5, <2>2, <2>3, <3>1, Zenon
      <3>2. CASE q # p
        <4>1. at'[q] = at[q]
          BY <2>2, <3>2, Zenon
        <4>2. /\ at[q] = "parse" => open[q] \in DOMAIN inode
              /\ answer[q] = "torn" => /\ at[q] \in {"idle", "trash"}
                                       /\ open[q] \in DOMAIN inode
                                       /\ inode[open[q]].shared
          BY Zenon DEF CacheInv, CacheReaders
        <4> QED
          BY <2>4, <4>1, <4>2, Zenon
      <3> QED
        BY <3>1, <3>2, Zenon
    <2> QED
      BY <2>7, <2>8, <2>9, <2>10, <2>11, Zenon DEF CacheInv
  <1> QED
    BY <1>6, <1>7, Zenon

\* Every step of a process that reads or fills the cache keeps the invariant.
LEMMA CacheNextInv ==
  ASSUME CacheInv, [CacheNext]_cacheVars
  PROVE  CacheInv'
  <1>1. CASE UNCHANGED cacheVars
    BY <1>1, ZenonT(40) DEF cacheVars, CacheInv, CacheTables, CacheWriters, OneSaver,
                       SettledAreWhole, CacheReaders, Whole
  <1>2. ASSUME NEW p \in CacheProcs, FetchPage(p) PROVE CacheInv'
    <2>1. UNCHANGED <<inode, tmpTable, table, at, open, answer>>
      BY <1>2, Zenon DEF FetchPage
    <2> QED
      BY <2>1, Zenon DEF CacheInv, CacheTables, CacheWriters, OneSaver, SettledAreWhole,
                         CacheReaders, Whole
  <1>3. ASSUME NEW p \in CacheProcs, TableWritten(p) PROVE CacheInv'
    <2>1. /\ at[p] = "rename" /\ p \in inode[open[p]].writers /\ at' = at
          /\ inode' = [inode EXCEPT ![open[p]].writers = @ \ {p}]
          /\ UNCHANGED <<tmpTable, table, open, answer>>
      BY <1>3, Zenon DEF TableWritten
    <2>2. open[p] \in DOMAIN inode /\ DOMAIN inode' = DOMAIN inode
      BY <2>1, Zenon DEF CacheInv, CacheWriters
    <2>3. /\ DOMAIN at' = CacheProcs /\ at'[p] = "rename"
          /\ \A q \in CacheProcs \ {p} : at'[q] = at[q]
      BY <2>1, Zenon DEF CacheInv, CacheTables
    <2>4. ASSUME NEW i \in DOMAIN inode
          PROVE  /\ inode'[i] = [pages |-> inode'[i].pages, writers |-> inode'[i].writers,
                                 cut |-> inode'[i].cut, shared |-> inode'[i].shared]
                 /\ inode'[i].writers = inode[i].writers \ {p}
                 /\ inode'[i].shared <=> inode[i].shared
                 /\ inode'[i].cut => inode[i].cut \/ (FALSE /\ p \in inode[i].writers)
      <3>1. CASE i = open[p]
        <4>1. inode'[i] = [inode[i] EXCEPT !.writers = @ \ {p}]
          BY <2>1, <2>2, <3>1, Zenon
        <4>2. inode[i] = [pages |-> inode[i].pages, writers |-> inode[i].writers,
                          cut |-> inode[i].cut, shared |-> inode[i].shared]
          BY Zenon DEF CacheInv, CacheTables
        <4>3. inode'[i] = [pages |-> inode[i].pages, writers |-> inode[i].writers \ {p},
                           cut |-> inode[i].cut, shared |-> inode[i].shared]
          BY <4>1, <4>2, Zenon
        <4>4. /\ inode'[i] = [pages |-> inode'[i].pages, writers |-> inode'[i].writers,
                              cut |-> inode'[i].cut, shared |-> inode'[i].shared]
              /\ inode'[i].writers = inode[i].writers \ {p}
              /\ inode'[i].shared = inode[i].shared /\ inode'[i].cut = inode[i].cut
          BY <4>3
        <4> QED
          BY <3>1, <4>4, Zenon
      <3>2. CASE i # open[p]
        <4>0. p \notin inode[i].writers
          BY <3>2, Zenon DEF CacheInv, CacheWriters
        <4>1. inode'[i] = inode[i]
          BY <2>1, <3>2, Zenon
        <4>2. inode[i].writers = inode[i].writers \ {p}
          BY <4>0, Zenon
        <4> QED
          BY <4>1, <4>2, Zenon DEF CacheInv, CacheTables
      <3> QED
        BY <3>1, <3>2, Zenon
    <2> QED
      BY <2>1, <2>2, <2>3, <2>4, WrittenKeepsCache, Zenon
  <1>4. ASSUME NEW p \in CacheProcs, LoaderEnds(p) PROVE CacheInv'
    <2>1. /\ at' = [at EXCEPT ![p] = "idle"]
          /\ inode' = [i \in DOMAIN inode |->
                          IF p \in inode[i].writers
                          THEN [inode[i] EXCEPT !.writers = @ \ {p}, !.cut = TRUE]
                          ELSE inode[i]]
          /\ UNCHANGED <<tmpTable, table, open, answer>>
      BY <1>4, Zenon DEF LoaderEnds
    <2>2. DOMAIN inode' = DOMAIN inode
      BY <2>1, Zenon
    <2>3. /\ DOMAIN at' = CacheProcs /\ at'[p] = "idle"
          /\ \A q \in CacheProcs \ {p} : at'[q] = at[q]
      BY <2>1, Zenon DEF CacheInv, CacheTables
    <2>4. ASSUME NEW i \in DOMAIN inode
          PROVE  /\ inode'[i] = [pages |-> inode'[i].pages, writers |-> inode'[i].writers,
                                 cut |-> inode'[i].cut, shared |-> inode'[i].shared]
                 /\ inode'[i].writers = inode[i].writers \ {p}
                 /\ inode'[i].shared <=> inode[i].shared
                 /\ inode'[i].cut => inode[i].cut \/ (TRUE /\ p \in inode[i].writers)
      <3>1. CASE p \in inode[i].writers
        <4>1. inode'[i] = [inode[i] EXCEPT !.writers = @ \ {p}, !.cut = TRUE]
          BY <2>1, <3>1, Zenon
        <4>2. inode[i] = [pages |-> inode[i].pages, writers |-> inode[i].writers,
                          cut |-> inode[i].cut, shared |-> inode[i].shared]
          BY Zenon DEF CacheInv, CacheTables
        <4>3. inode'[i] = [pages |-> inode[i].pages, writers |-> inode[i].writers \ {p},
                           cut |-> TRUE, shared |-> inode[i].shared]
          BY <4>1, <4>2, Zenon
        <4>4. /\ inode'[i] = [pages |-> inode'[i].pages, writers |-> inode'[i].writers,
                              cut |-> inode'[i].cut, shared |-> inode'[i].shared]
              /\ inode'[i].writers = inode[i].writers \ {p}
              /\ inode'[i].shared = inode[i].shared /\ inode'[i].cut = TRUE
          BY <4>3
        <4> QED
          BY <3>1, <4>4, Zenon
      <3>2. CASE p \notin inode[i].writers
        <4>1. inode'[i] = inode[i]
          BY <2>1, <3>2, Zenon
        <4>2. inode[i].writers = inode[i].writers \ {p}
          BY <3>2, Zenon
        <4> QED
          BY <4>1, <4>2, Zenon DEF CacheInv, CacheTables
      <3> QED
        BY <3>1, <3>2, Zenon
    <2> QED
      BY <2>1, <2>2, <2>3, <2>4, WrittenKeepsCache, Zenon
  <1>5. Loaders \cup DirectLoaders \subseteq CacheProcs /\ Deleters \subseteq CacheProcs
    BY Zenon DEF CacheProcs
  <1> QED
    BY <1>1, <1>2, <1>3, <1>4, <1>5, QuietStepsKeepCache, WriteTableKeepsCache,
       ReplaceTableKeepsCache, Zenon DEF CacheNext

\* A series served from the cache was saved as a whole (write_csv_atomic,
\* load_bar_series), for any number of loaders and deleters that may end at any
\* point, unless two processes saved the entry at once.
THEOREM CacheServesWhole == CacheSpec => []CacheHitsAreWhole
  <1>1. CacheInit => CacheInv
    BY CacheInitInv, Zenon
  <1>2. CacheInv /\ [CacheNext]_cacheVars => CacheInv'
    BY CacheNextInv, Zenon
  <1>3. CacheInv => CacheHitsAreWhole
    BY Zenon DEF CacheInv, CacheReaders, CacheHitsAreWhole
  <1> QED
    BY <1>1, <1>2, <1>3, PTL DEF CacheSpec

-----------------------------------------------------------------------------
(* The parallel fetcher.                                                   *)

\* While no job has failed, what was taken of a job is under its key.
FetchInv ==
  /\ DOMAIN jobAt = DOMAIN fetchJobs
  /\ \A i, j \in DOMAIN fetchJobs : JobKey(i) = JobKey(j) => i = j
  /\ mode = "none" => DOMAIN fetchJobs = {} /\ DOMAIN results = {} /\ fetchOut = Pending
  /\ \A k \in DOMAIN results :
       \E j \in DOMAIN fetchJobs : k = JobKey(j) /\ results[k] = BarsOf(j)
  /\ ~raised => \A j \in DOMAIN fetchJobs : jobAt[j] = "taken" => JobKey(j) \in DOMAIN results
  /\ AllJobsDelivered

\* What fetch_many relies on: no two jobs of a list have the same key.  Symbols are
\* listed once; of a chunked range this says that it is one chunk.
OneChunkEach == \A c \in ChunkSizes : (RangeEnd + c - 1) \div c = 1

(* No job is taken at the start.                                           *)
LEMMA FetchInitInv == FetchInit => FetchInv
  <1> SUFFICES ASSUME FetchInit PROVE FetchInv
    BY Zenon
  <1>1. mode = "none" /\ fetchJobs = <<>> /\ jobAt = <<>> /\ fetchOut = Pending
        /\ DOMAIN results = {}
    BY Zenon DEF FetchInit
  <1>2. DOMAIN fetchJobs = {} /\ DOMAIN jobAt = {}
    BY <1>1
  <1>3. fetchOut.kind # "bars"
    BY <1>1, Zenon DEF Pending
  <1> QED
    BY <1>1, <1>2, <1>3, Zenon DEF FetchInv, AllJobsDelivered

\* What was delivered stays so while neither the answer nor the jobs change.
LEMMA SameAnswer ==
  ASSUME AllJobsDelivered, fetchOut' = fetchOut, fetchJobs' = fetchJobs
  PROVE  AllJobsDelivered'
  <1>1. \A j : BarsOf(j)' = BarsOf(j)
    BY Zenon DEF BarsOf
  <1>2. UNION {BarsOf(j)' : j \in DOMAIN fetchJobs'} = UNION {BarsOf(j) : j \in DOMAIN fetchJobs}
    BY <1>1, Zenon
  <1> SUFFICES ASSUME fetchOut'.kind = "bars"
      PROVE  fetchOut'.bars = UNION {BarsOf(j)' : j \in DOMAIN fetchJobs'}
    BY Zenon DEF AllJobsDelivered
  <1>3. fetchOut.kind = "bars"
    BY Zenon
  <1>4. fetchOut.bars = UNION {BarsOf(j) : j \in DOMAIN fetchJobs}
    BY <1>3, Zenon DEF AllJobsDelivered
  <1> QED
    BY <1>2, <1>4, Zenon

\* The command starts with a list of jobs that have a key each.
LEMMA StartKeepsFetch ==
  ASSUME FetchInv, NEW m, m # "none", NEW jobs, Start(m, jobs),
         \A i, j \in DOMAIN jobs : jobs[i].symbol = jobs[j].symbol => i = j
  PROVE  FetchInv'
  <1>1. /\ mode' = m /\ fetchJobs' = jobs /\ jobAt' = [j \in DOMAIN jobs |-> "queued"]
        /\ results' = results /\ fetchOut' = fetchOut /\ mode = "none"
    BY Zenon DEF Start
  <1>2. DOMAIN results' = {} /\ fetchOut' = Pending
    BY <1>1, Zenon DEF FetchInv
  <1>3. fetchOut'.kind # "bars"
    BY <1>2, Zenon DEF Pending
  <1>4. DOMAIN jobAt' = DOMAIN fetchJobs'
    BY <1>1, Zenon
  <1>5. \A j \in DOMAIN fetchJobs' : jobAt'[j] # "taken"
    BY <1>1, Zenon
  <1>6. \A i, j \in DOMAIN fetchJobs' : JobKey(i)' = JobKey(j)' => i = j
    BY <1>1, Zenon DEF JobKey
  <1>7. mode' # "none"
    BY <1>1, Zenon
  <1> QED
    BY <1>2, <1>3, <1>4, <1>5, <1>6, <1>7, Zenon DEF FetchInv, AllJobsDelivered

\* A job moves, and what was collected stays: nothing is lost while no new job
\* counts as taken, or once the loop has been left.
LEMMA MoveKeepsFetch ==
  ASSUME FetchInv, NEW j \in DOMAIN jobAt, NEW s, jobAt' = [jobAt EXCEPT ![j] = s],
         s # "taken" \/ raised',
         UNCHANGED <<mode, fetchJobs, results, fetchOut>>,
         raised => raised'
  PROVE  FetchInv'
  <1>1. mode' = mode /\ fetchJobs' = fetchJobs /\ results' = results /\ fetchOut' = fetchOut
    BY Zenon
  <1>2. DOMAIN jobAt' = DOMAIN jobAt
    BY Zenon
  <1>3. ASSUME ~raised', NEW i \in DOMAIN fetchJobs, jobAt'[i] = "taken"
        PROVE  jobAt[i] = "taken" /\ ~raised
    <2>1. s # "taken" /\ ~raised
      BY <1>3, Zenon
    <2>2. i \in DOMAIN jobAt
      BY <1>3, Zenon DEF FetchInv
    <2>3. jobAt'[i] = IF i = j THEN s ELSE jobAt[i]
      BY <2>2, Zenon
    <2> QED
      BY <1>3, <2>1, <2>3, Zenon
  <1>4. \A i : JobKey(i)' = JobKey(i) /\ BarsOf(i)' = BarsOf(i)
    BY <1>1, Zenon DEF JobKey, BarsOf
  <1>5. AllJobsDelivered'
    BY <1>1, SameAnswer, Zenon DEF FetchInv
  <1>6. \A i1, i2 \in DOMAIN fetchJobs' : JobKey(i1)' = JobKey(i2)' => i1 = i2
    BY <1>1, <1>4, Zenon DEF FetchInv
  <1>7. \A k \in DOMAIN results' :
           \E i \in DOMAIN fetchJobs' : k = JobKey(i)' /\ results'[k] = BarsOf(i)'
    BY <1>1, <1>4, Zenon DEF FetchInv
  <1>8. ~raised' => \A i \in DOMAIN fetchJobs' :
           jobAt'[i] = "taken" => JobKey(i)' \in DOMAIN results'
    BY <1>1, <1>3, <1>4, Zenon DEF FetchInv
  <1>9. DOMAIN jobAt' = DOMAIN fetchJobs'
        /\ (mode' = "none" => DOMAIN fetchJobs' = {} /\ DOMAIN results' = {}
                              /\ fetchOut' = Pending)
    BY <1>1, <1>2, Zenon DEF FetchInv, Pending
  <1> QED
    BY <1>5, <1>6, <1>7, <1>8, <1>9, Zenon DEF FetchInv

\* What is collected goes under a key of its own.
LEMMA CollectKeepsFetch ==
  ASSUME FetchInv, NEW j \in DOMAIN jobAt, Collect(j)
  PROVE  FetchInv'
  <1>1. /\ mode' = mode /\ fetchJobs' = fetchJobs /\ raised' = raised /\ fetchOut' = fetchOut
        /\ ~raised /\ jobAt' = [jobAt EXCEPT ![j] = "taken"]
        /\ results' = [k \in DOMAIN results \cup {JobKey(j)} |->
                          IF k = JobKey(j) THEN BarsOf(j) ELSE results[k]]
    BY Zenon DEF Collect
  <1>2. DOMAIN jobAt' = DOMAIN jobAt /\ j \in DOMAIN fetchJobs
    BY <1>1, Zenon DEF FetchInv
  <1>3. DOMAIN results' = DOMAIN results \cup {JobKey(j)}
    BY <1>1, Zenon
  <1>4. \A i : JobKey(i)' = JobKey(i) /\ BarsOf(i)' = BarsOf(i)
    BY <1>1, Zenon DEF JobKey, BarsOf
  <1>5. AllJobsDelivered'
    BY <1>1, SameAnswer, Zenon DEF FetchInv
  <1>6. \A i1, i2 \in DOMAIN fetchJobs' : JobKey(i1)' = JobKey(i2)' => i1 = i2
    BY <1>1, <1>4, Zenon DEF FetchInv
  <1>7. ASSUME NEW k \in DOMAIN results'
        PROVE  \E i \in DOMAIN fetchJobs' : k = JobKey(i)' /\ results'[k] = BarsOf(i)'
    <2>1. CASE k = JobKey(j)
      <3>1. results'[k] = BarsOf(j)
        BY <1>1, <1>3, <1>7, <2>1, Zenon
      <3> QED
        BY <1>1, <1>2, <1>4, <2>1, <3>1, Zenon
    <2>2. CASE k # JobKey(j)
      <3>1. k \in DOMAIN results /\ results'[k] = results[k]
        BY <1>1, <1>3, <1>7, <2>2, Zenon
      <3>2. PICK i \in DOMAIN fetchJobs : k = JobKey(i) /\ results[k] = BarsOf(i)
        BY <3>1, Zenon DEF FetchInv
      <3> QED
        BY <1>1, <1>4, <3>1, <3>2, Zenon
    <2> QED
      BY <2>1, <2>2, Zenon
  <1>8. ASSUME NEW i \in DOMAIN fetchJobs', jobAt'[i] = "taken"
        PROVE  JobKey(i)' \in DOMAIN results'
    <2>1. CASE i = j
      BY <1>3, <1>4, <2>1, Zenon
    <2>2. CASE i # j
      <3>1. jobAt[i] = "taken"
        BY <1>1, <1>2, <1>8, <2>2
      <3>2. JobKey(i) \in DOMAIN results
        BY <1>1, <1>8, <3>1, Zenon DEF FetchInv
      <3> QED
        BY <1>3, <1>4, <3>2, Zenon
    <2> QED
      BY <2>1, <2>2, Zenon
  <1>9. mode # "none"
    BY <1>2, Zenon DEF FetchInv
  <1>10. DOMAIN jobAt' = DOMAIN fetchJobs'
    BY <1>1, <1>2, Zenon DEF FetchInv
  <1> QED
    BY <1>1, <1>5, <1>6, <1>7, <1>8, <1>9, <1>10, Zenon DEF FetchInv

\* The command returns what was collected of all the jobs.
LEMMA ReturnKeepsFetch ==
  ASSUME FetchInv, FetchReturns
  PROVE  FetchInv'
  <1>1. /\ mode' = mode /\ fetchJobs' = fetchJobs /\ jobAt' = jobAt /\ results' = results
        /\ raised' = raised /\ mode # "none"
        /\ fetchOut' = IF raised THEN Error
                       ELSE [kind |-> "bars", bars |-> UNION {results[k] : k \in DOMAIN results}]
    BY Zenon DEF FetchReturns
  <1>2. AllJobsDelivered'
    <2>1. CASE raised
      <3>1. fetchOut'.kind # "bars"
        BY <1>1, <2>1, Zenon DEF Error
      <3> QED
        BY <3>1, Zenon DEF AllJobsDelivered
    <2>2. CASE ~raised
      <3>1. \A j \in DOMAIN fetchJobs : jobAt[j] = "taken"
        <4>1. \A j \in DOMAIN jobAt : jobAt[j] \in {"taken"}
          BY <2>2, Zenon DEF FetchReturns
        <4> QED
          BY <4>1, Zenon DEF FetchInv
      <3>2. \A j \in DOMAIN fetchJobs :
               JobKey(j) \in DOMAIN results /\ results[JobKey(j)] = BarsOf(j)
        <4> TAKE j \in DOMAIN fetchJobs
        <4>1. JobKey(j) \in DOMAIN results
          BY <2>2, <3>1, Zenon DEF FetchInv
        <4>2. PICK i \in DOMAIN fetchJobs :
                 JobKey(j) = JobKey(i) /\ results[JobKey(j)] = BarsOf(i)
          BY <4>1, Zenon DEF FetchInv
        <4>3. i = j
          BY <4>2, Zenon DEF FetchInv
        <4> QED
          BY <4>1, <4>2, <4>3, Zenon
      <3>3. \A k \in DOMAIN results :
               \E j \in DOMAIN fetchJobs : results[k] = BarsOf(j)
        BY Zenon DEF FetchInv
      <3>4. {results[k] : k \in DOMAIN results} = {BarsOf(j) : j \in DOMAIN fetchJobs}
        BY <3>2, <3>3, Zenon
      <3>5. fetchOut'.bars = UNION {results[k] : k \in DOMAIN results}
        BY <1>1, <2>2, Zenon
      <3>6. \A j : BarsOf(j)' = BarsOf(j)
        BY <1>1, Zenon DEF BarsOf
      <3>7. fetchOut'.bars = UNION {BarsOf(j)' : j \in DOMAIN fetchJobs'}
        BY <1>1, <3>4, <3>5, <3>6, Zenon
      <3> QED
        BY <3>7, Zenon DEF AllJobsDelivered
    <2> QED
      BY <2>1, <2>2, Zenon
  <1>3. \A i : JobKey(i)' = JobKey(i) /\ BarsOf(i)' = BarsOf(i)
    BY <1>1, Zenon DEF JobKey, BarsOf
  <1>4. \A k \in DOMAIN results' :
           \E i \in DOMAIN fetchJobs' : k = JobKey(i)' /\ results'[k] = BarsOf(i)'
    BY <1>1, <1>3, Zenon DEF FetchInv
  <1>5. \A i1, i2 \in DOMAIN fetchJobs' : JobKey(i1)' = JobKey(i2)' => i1 = i2
    BY <1>1, <1>3, Zenon DEF FetchInv
  <1> QED
    BY <1>1, <1>2, <1>3, <1>4, <1>5, Zenon DEF FetchInv

(* Every step of the fetcher and its workers keeps the invariant.          *)
LEMMA FetchNextInv ==
  ASSUME OneChunkEach, FetchInv, [FetchNext]_fetchVars
  PROVE  FetchInv'
  <1>1. CASE UNCHANGED fetchVars
    <2>1. /\ mode' = mode /\ fetchJobs' = fetchJobs /\ jobAt' = jobAt /\ results' = results
          /\ raised' = raised /\ fetchOut' = fetchOut
      BY <1>1, Zenon DEF fetchVars
    <2>2. \A i : JobKey(i)' = JobKey(i) /\ BarsOf(i)' = BarsOf(i)
      BY <2>1, Zenon DEF JobKey, BarsOf
    <2>3. AllJobsDelivered'
      BY <2>1, SameAnswer, Zenon DEF FetchInv
    <2>4. \A k \in DOMAIN results' :
             \E i \in DOMAIN fetchJobs' : k = JobKey(i)' /\ results'[k] = BarsOf(i)'
      BY <2>1, <2>2, Zenon DEF FetchInv
    <2>5. /\ \A i, j \in DOMAIN fetchJobs' : JobKey(i)' = JobKey(j)' => i = j
          /\ ~raised' => \A j \in DOMAIN fetchJobs' :
                jobAt'[j] = "taken" => JobKey(j)' \in DOMAIN results'
      BY <2>1, <2>2, Zenon DEF FetchInv
    <2>6. /\ DOMAIN jobAt' = DOMAIN fetchJobs'
          /\ mode' = "none" => /\ DOMAIN fetchJobs' = {} /\ DOMAIN results' = {}
                               /\ fetchOut' = Pending
      BY <2>1, Zenon DEF FetchInv
    <2> QED
      BY <2>3, <2>4, <2>5, <2>6, Zenon DEF FetchInv
  <1>2. ASSUME NEW n \in SymbolCounts, StartMany(n) PROVE FetchInv'
    <2> DEFINE jobs == [j \in 1..n |-> [symbol |-> j, from |-> 0, to |-> RangeEnd]]
    <2>1. Start("many", jobs)
      BY <1>2, Zenon DEF StartMany
    <2>2. \A i, j \in DOMAIN jobs : jobs[i].symbol = jobs[j].symbol => i = j
      BY Zenon
    <2>3. "many" # "none"
      BY Zenon
    <2> HIDE DEF jobs
    <2> QED
      BY <2>1, <2>2, <2>3, StartKeepsFetch, Zenon
  <1>3. ASSUME NEW c \in ChunkSizes, StartChunked(c) PROVE FetchInv'
    <2>1. Start("chunked", ChunkJobs(c))
      BY <1>3, Zenon DEF StartChunked
    <2>2. DOMAIN ChunkJobs(c) = 1 .. (RangeEnd + c - 1) \div c
      BY Zenon DEF ChunkJobs
    <2>3. DOMAIN ChunkJobs(c) = 1..1
      BY <2>2, Zenon DEF OneChunkEach
    <2>4. \A i, j \in DOMAIN ChunkJobs(c) : i = j
      BY <2>3
    <2>5. "chunked" # "none"
      BY Zenon
    <2> QED
      BY <2>1, <2>4, <2>5, StartKeepsFetch, Zenon
  <1>4. ASSUME NEW j \in DOMAIN jobAt,
               \/ RunJob(j) \/ FetchSingle(j, "ended") \/ FetchSingle(j, "failed")
               \/ CollectFailure(j)
        PROVE  FetchInv'
    <2>1. \E s : /\ jobAt' = [jobAt EXCEPT ![j] = s]
                 /\ s # "taken" \/ raised'
                 /\ raised => raised'
      <3>1. CASE RunJob(j) \/ FetchSingle(j, "ended") \/ FetchSingle(j, "failed")
        <4>1. raised' = raised
          BY <3>1, Zenon DEF RunJob, FetchSingle
        <4>2. \E s \in {"running", "ended", "failed"} : jobAt' = [jobAt EXCEPT ![j] = s]
          BY <3>1, Zenon DEF RunJob, FetchSingle
        <4>3. \A s \in {"running", "ended", "failed"} : s # "taken"
          BY Zenon
        <4> QED
          BY <4>1, <4>2, <4>3, Zenon
      <3>2. CASE CollectFailure(j)
        <4>1. raised' /\ jobAt' = [jobAt EXCEPT ![j] = "taken"]
          BY <3>2, Zenon DEF CollectFailure
        <4> QED
          BY <4>1, Zenon
      <3> QED
        BY <1>4, <3>1, <3>2, Zenon
    <2>2. UNCHANGED <<mode, fetchJobs, results, fetchOut>>
      BY <1>4, Zenon DEF RunJob, FetchSingle, CollectFailure
    <2> QED
      BY <2>1, <2>2, MoveKeepsFetch, Zenon
  <1> QED
    BY <1>1, <1>2, <1>3, <1>4, CollectKeepsFetch, ReturnKeepsFetch, Zenon DEF FetchNext

\* A fetch that reports success delivered the bars of every job
\* (ParallelDataFetcher.fetch_many), for any number of jobs and threads, in whatever
\* order they end: the jobs have a key each, which is what the assumption says of a
\* range that is cut into chunks.
THEOREM FetchAllJobsDelivered == ASSUME OneChunkEach PROVE FetchSpec => []AllJobsDelivered
  <1>1. FetchInit => FetchInv
    BY FetchInitInv, Zenon
  <1>2. FetchInv /\ [FetchNext]_fetchVars => FetchInv'
    BY FetchNextInv, Zenon
  <1>3. FetchInv => AllJobsDelivered
    BY Zenon DEF FetchInv
  <1> QED
    BY <1>1, <1>2, <1>3, PTL DEF FetchSpec

\* What was fetched arrives whole, from the file cache (load_bar_series) and from the
\* threads of the parallel fetcher (fetch_many), for any number of processes and jobs.
THEOREM DataFetchesAreWhole ==
  ASSUME OneChunkEach PROVE CacheSpec /\ FetchSpec => []FetchesAreWhole
  <1>1. CacheHitsAreWhole /\ AllJobsDelivered => FetchesAreWhole
    BY Zenon DEF FetchesAreWhole
  <1> QED
    BY <1>1, CacheServesWhole, FetchAllJobsDelivered, PTL

-----------------------------------------------------------------------------
(* What a load returns and what a backfill leaves in the store             *)

Filling(t) == pc[t] # "idle" /\ req[t].op = "backfill"

(* How far a backfill r is, for a thread at p with windows W and bars g,   *)
(* its job f, and the stored bars S and T: what was delivered is stored or *)
(* about to be, nothing was delivered for the chunks ahead, and the target *)
(* bars of the chunks behind are stored.                                   *)
FillOK(p, r, W, g, f, S, T) ==
  /\ f.st = "running" /\ W # {} /\ W \subseteq Chunks(r.src, r.win)
  /\ f.avail \subseteq S \cup (IF p = "store" THEN g ELSE {})
  /\ p \in {"store", "derive"} => g = f.avail \cap Slots(EarliestWindow(W))
  /\ \A c \in W : c # EarliestWindow(W) \/ p \notin {"store", "derive"} =>
                    f.avail \cap Slots(c) = {}
  /\ r.src = "target" => \A c \in Chunks(r.src, r.win) \ W : Aggregates(c, f.avail) \subseteq T

(* What thread t asks for and what it was given.                           *)
LoadOK(t) ==
  /\ pc[t] \in {"read", "merge"} => req[t].op = "load"
  /\ pc[t] \in {"store", "derive"} => req[t].op = "backfill"
  /\ pc[t] = "derive" => got[t] \subseteq source
  /\ (req[t].op = "load" /\ req[t].fail) => out[t] # "partial"
  /\ (pc[t] \in {"settle", "got"} /\ res[t].ok) =>
       /\ res[t].bars \subseteq Slots(EarliestWindow(todo[t]))
       /\ req[t].fail => res[t].bars = Slots(EarliestWindow(todo[t]))

(* When the provider persists, what the fetcher derives from is stored.    *)
FetcherOK == persists => /\ fpc # "store"
                         /\ fpc = "derive" => fbars \subseteq source

SeriesTypes ==
  /\ source \subseteq Int /\ target \subseteq Targets /\ fbars \subseteq Int
  /\ todo \in [Clients -> SUBSET (Nat \X Nat)]
  /\ res \in [Clients -> [ok : BOOLEAN, bars : SUBSET Int]]
  /\ have \in [Clients -> SUBSET Int] /\ got \in [Clients -> SUBSET Int]
  /\ out \in [Clients -> {"none", "complete", "partial", "done", "error", "skipped"}]
  /\ fills \in [Backfills -> [st : {"none", "running", "done", "failed", "skipped"},
                              avail : SUBSET Int]]

SeriesInv ==
  /\ Flights /\ SeriesTypes
  /\ \A t \in Clients : LoadOK(t)
  /\ \A t \in Clients :
       Filling(t) => FillOK(pc[t], req[t], todo[t], got[t], fills[req[t]], source, target)
  /\ \A t, u \in Clients : Filling(t) /\ Filling(u) /\ req[t] = req[u] => t = u
  /\ \A r \in Backfills : fills[r].st = "none" => fills[r].avail = {}
  /\ BackfillDerivesAll
  /\ AggregatesHaveSources
  /\ FetcherOK

(* A set of numbers has a least one, and a bounded one a greatest.         *)
LEMMA LeastNat == \A T \in SUBSET Nat : T # {} => \E x \in T : \A y \in T : x <= y
<1> DEFINE R == OpToRel(<, Nat)
<1>1. IsWellFoundedOn(R, Nat)
  BY NatLessThanWellFounded, Zenon
<1>2. \A x, y \in Nat : y < x => <<y, x>> \in R
  BY Zenon DEF OpToRel
<1> HIDE DEF R
<1>3. ASSUME NEW T \in SUBSET Nat, T # {} PROVE \E x \in T : \A y \in T : x <= y
  <2>1. \E x \in T : \A y \in T : ~ (<<y, x>> \in R)
    BY <1>1, <1>3, WFMin, Zenon
  <2>2. PICK x \in T : \A y \in T : ~ (<<y, x>> \in R)
    BY <2>1, Zenon
  <2>3. \A y \in T : ~(y < x)
    BY <2>2, <1>2, Zenon
  <2> QED BY <2>3
<1> QED BY <1>3, Zenon

(* A bounded set of naturals has a greatest element.                       *)
LEMMA GreatestNat ==
    ASSUME NEW T \in SUBSET Nat, T # {}, NEW n \in Nat, \A x \in T : x <= n
    PROVE  \E x \in T : \A y \in T : y <= x
<1> DEFINE D == {d \in Nat : n - d \in T}
<1>1. PICK x \in T : TRUE
  BY Zenon
<1>2. n - x \in D
  BY <1>1
<1>3. PICK d \in D : \A e \in D : d <= e
  BY <1>2, LeastNat, Zenon
<1>4. ASSUME NEW y \in T PROVE y <= n - d
  <2>1. n - y \in D
    OBVIOUS
  <2>2. d <= n - y
    BY <1>3, <2>1, Zenon
  <2>3. d \in Nat
    BY <1>3, Zenon
  <2> QED BY <2>2, <2>3
<1> QED BY <1>3, <1>4, Zenon

(* EarliestWindow is one of the windows.                                   *)
LEMMA EarliestIsOne ==
    ASSUME NEW W \in SUBSET (Nat \X Nat), W # {}
    PROVE  EarliestWindow(W) \in W
<1> DEFINE T == {w[1] : w \in W}
<1>1. T \in SUBSET Nat /\ T # {}
  BY Zenon
<1>2. PICK x \in T : \A y \in T : x <= y
  BY <1>1, LeastNat, Zenon
<1>3. \E w \in W : \A v \in W : w[1] <= v[1]
  BY <1>2, Zenon
<1> QED BY <1>3, Zenon DEF EarliestWindow

(* Min and Max of the library, for two numbers.                            *)
LEMMA MinOfTwo ==
    ASSUME NEW a \in Int, NEW b \in Int
    PROVE  Min({a, b}) = IF a <= b THEN a ELSE b
<1>1. \E x \in {a, b} : \A y \in {a, b} : x <= y
  OBVIOUS
<1>2. Min({a, b}) \in {a, b} /\ \A y \in {a, b} : Min({a, b}) <= y
  BY <1>1, Zenon DEF Min
<1> QED BY <1>2

LEMMA MaxOfTwo ==
    ASSUME NEW a \in Int, NEW b \in Int
    PROVE  Max({a, b}) = IF a >= b THEN a ELSE b
<1>1. \E x \in {a, b} : \A y \in {a, b} : x >= y
  OBVIOUS
<1>2. Max({a, b}) \in {a, b} /\ \A y \in {a, b} : Max({a, b}) >= y
  BY <1>1, Zenon DEF Max
<1> QED BY <1>2

(* Multiples of the ratio are at least the ratio apart.                    *)
LEMMA MultiplesApart ==
    ASSUME NEW R \in Nat \ {0}, NEW m \in Int, NEW k \in Int, m * R > k * R
    PROVE  m * R >= k * R + R
<1>1. CASE m <= k
  <2>1. (k - m) * R >= 0
    BY <1>1
  <2>2. (k - m) * R = k * R - m * R
    OBVIOUS
  <2> QED BY <2>1, <2>2
<1>2. CASE m >= k + 1
  <2>1. (m - k - 1) * R >= 0
    BY <1>2
  <2>2. (m - k - 1) * R = m * R - k * R - R
    OBVIOUS
  <2> QED BY <2>1, <2>2
<1> QED BY <1>1, <1>2

(* AlignedUp is the next multiple of the ratio.                            *)
LEMMA AlignedUpIs ==
    ASSUME NEW b \in Nat
    PROVE  /\ (b + Ratio - 1) \div Ratio \in Nat /\ AlignedUp(b) \in Nat
           /\ b <= AlignedUp(b)
           /\ b % Ratio # 0 => b < AlignedUp(b)
<1> DEFINE q == (b + Ratio - 1) \div Ratio
           s == (b + Ratio - 1) % Ratio
<1>0. Ratio \in Nat /\ Ratio > 0
  BY MarketAssumption
<1>1. q \in Int /\ s \in 0 .. Ratio - 1 /\ b + Ratio - 1 = Ratio * q + s
  BY <1>0
<1>2. q >= 0
  BY <1>0
<1>3. AlignedUp(b) = q * Ratio
  BY Zenon DEF AlignedUp
<1> HIDE DEF q, s
<1>4. q * Ratio \in Int /\ q * Ratio = b + Ratio - 1 - s
  BY <1>0, <1>1
<1>5. b <= q * Ratio
  BY <1>0, <1>1, <1>4
<1>6. ASSUME b = q * Ratio PROVE b % Ratio = 0
  BY <1>0, <1>1, <1>6
<1> QED BY <1>0, <1>1, <1>2, <1>3, <1>4, <1>5, <1>6 DEF q

(* A chunk is not empty, stays in the window, and, when target bars are    *)
(* wanted, ends with the window or where target bars meet.                 *)
LEMMA ChunkEndIs ==
    ASSUME NEW tf, NEW w \in Nat \X Nat, NEW b \in Slots(w)
    PROVE  /\ ChunkEnd(tf, w, b) \in Nat
           /\ b < ChunkEnd(tf, w, b) /\ ChunkEnd(tf, w, b) <= w[2]
           /\ tf = "target" => \/ ChunkEnd(tf, w, b) = w[2]
                               \/ \E m \in Int : ChunkEnd(tf, w, b) = m * Ratio
<1>0. Ratio \in Nat /\ Ratio > 0 /\ MaxSourceBars \in Nat /\ MaxSourceBars > 0
  BY MarketAssumption
<1>1. w[1] \in Nat /\ w[2] \in Nat /\ b \in Nat /\ b < w[2]
  BY DEF Slots
<1>2. CASE tf # "target"
  <2>1. ChunkEnd(tf, w, b) = Min({w[2], b + MaxSourceBars})
    BY <1>2, Zenon DEF ChunkEnd
  <2>2. b + MaxSourceBars \in Int
    BY <1>0, <1>1
  <2>3. ChunkEnd(tf, w, b) = IF w[2] <= b + MaxSourceBars THEN w[2] ELSE b + MaxSourceBars
    BY <1>1, <2>1, <2>2, MinOfTwo
  <2> QED BY <1>0, <1>1, <1>2, <2>3
<1>3. CASE tf = "target"
  <2> DEFINE c == Max({1, MaxSourceBars \div Ratio})
             e == Max({0, MaxSourceBars - (AlignedUp(b) - b)}) \div Ratio
             a == (b + Ratio - 1) \div Ratio
             whole == IF b % Ratio = 0 THEN b + c * Ratio ELSE AlignedUp(b) + e * Ratio
  <2>1. ChunkEnd(tf, w, b) = Min({w[2], whole})
    BY <1>3, Zenon DEF ChunkEnd, TargetChunkEnd
  <2>2. c \in Nat /\ c >= 1
    <3>1. MaxSourceBars \div Ratio \in Int
      BY <1>0
    <3>2. c = IF 1 >= MaxSourceBars \div Ratio THEN 1 ELSE MaxSourceBars \div Ratio
      BY <3>1, MaxOfTwo
    <3> HIDE DEF c
    <3> QED BY <3>1, <3>2
  <2>3. a \in Nat /\ AlignedUp(b) = a * Ratio /\ AlignedUp(b) \in Nat
        /\ (b % Ratio # 0 => b < AlignedUp(b))
    <3>1. AlignedUp(b) = a * Ratio
      BY Zenon DEF AlignedUp
    <3> QED BY <1>1, <3>1, AlignedUpIs, Zenon
  <2>4. e \in Nat
    <3> DEFINE x == MaxSourceBars - (AlignedUp(b) - b)
    <3>1. x \in Int
      BY <1>0, <1>1, <2>3
    <3>2. Max({0, x}) = IF 0 >= x THEN 0 ELSE x
      <4> HIDE DEF x
      <4> QED BY <3>1, MaxOfTwo
    <3>3. Max({0, x}) \in Nat
      <4> HIDE DEF x
      <4> QED BY <3>1, <3>2
    <3>4. \A y \in Nat : y \div Ratio \in Nat
      BY <1>0
    <3> QED BY <3>3, <3>4, Zenon
  <2> HIDE DEF a, c, e
  <2>5. whole \in Nat /\ whole > b /\ \E m \in Int : whole = m * Ratio
    <3>1. CASE b % Ratio = 0
      <4>1. whole = b + c * Ratio
        BY <3>1, Zenon
      <4> DEFINE q == b \div Ratio
      <4>2. q \in Int /\ b = Ratio * q
        BY <1>0, <1>1, <3>1
      <4> HIDE DEF q, whole
      <4>3. (q + c) * Ratio = Ratio * q + c * Ratio /\ q + c \in Int
        BY <1>0, <2>2, <4>2
      <4>4. c * Ratio \in Nat /\ c * Ratio > 0
        BY <1>0, <2>2
      <4> QED BY <1>1, <4>1, <4>2, <4>3, <4>4
    <3>2. CASE b % Ratio # 0
      <4>1. whole = a * Ratio + e * Ratio
        BY <2>3, <3>2, Zenon
      <4> HIDE DEF whole
      <4>2. (a + e) * Ratio = a * Ratio + e * Ratio /\ a + e \in Int
        BY <1>0, <2>3, <2>4
      <4>3. e * Ratio \in Nat
        BY <1>0, <2>4
      <4> QED BY <1>1, <2>3, <3>2, <4>1, <4>2, <4>3
    <3> QED BY <3>1, <3>2, Zenon
  <2> HIDE DEF whole
  <2>6. ChunkEnd(tf, w, b) = IF w[2] <= whole THEN w[2] ELSE whole
    BY <1>1, <2>1, <2>5, MinOfTwo
  <2> QED BY <1>1, <2>5, <2>6
<1> QED BY <1>2, <1>3, Zenon

(* The starts of the chunks: the first is the start of the window, and the *)
(* end of a chunk is the start of the next.                                *)
LEMMA StartsAre ==
    ASSUME NEW tf, NEW w \in Nat \X Nat, w[1] < w[2]
    PROVE  /\ ChunkStarts(tf, w) \subseteq Slots(w) /\ w[1] \in ChunkStarts(tf, w)
           /\ \A b \in ChunkStarts(tf, w) :
                ChunkEnd(tf, w, b) < w[2] => ChunkEnd(tf, w, b) \in ChunkStarts(tf, w)
           /\ \A S \in SUBSET Slots(w) :
                /\ w[1] \in S
                /\ \A b \in S : ChunkEnd(tf, w, b) < w[2] => ChunkEnd(tf, w, b) \in S
                => ChunkStarts(tf, w) \subseteq S
<1>1. w[1] \in Slots(w)
  BY DEF Slots
<1>2. ASSUME NEW b \in Slots(w), ChunkEnd(tf, w, b) < w[2] PROVE ChunkEnd(tf, w, b) \in Slots(w)
  BY <1>2, ChunkEndIs DEF Slots
<1> QED BY <1>1, <1>2, Zenon DEF ChunkStarts

(* Chunks do not overlap.                                                  *)
LEMMA StartsApart ==
    ASSUME NEW tf, NEW w \in Nat \X Nat, w[1] < w[2],
           NEW a \in ChunkStarts(tf, w), NEW b \in ChunkStarts(tf, w), a < b
    PROVE  ChunkEnd(tf, w, a) <= b
<1> DEFINE X == ChunkStarts(tf, w)
           E(x) == ChunkEnd(tf, w, x)
           S == {x \in X : \A y \in X : y < x => E(y) <= x}
<1>1. X \subseteq Slots(w) /\ w[1] \in X
  BY StartsAre, Zenon
<1>2. \A x \in X : x \in Nat /\ w[1] <= x /\ E(x) \in Nat /\ x < E(x)
  <2>1. \A x \in X : E(x) \in Nat /\ x < E(x)
    BY <1>1, ChunkEndIs, Zenon
  <2>2. \A x \in Slots(w) : x \in Nat /\ w[1] <= x
    BY DEF Slots
  <2> QED BY <1>1, <2>1, <2>2, Zenon
<1>3. \A x \in X : E(x) < w[2] => E(x) \in X
  BY StartsAre, Zenon
<1>4. \A Y \in SUBSET Slots(w) :
         w[1] \in Y /\ (\A x \in Y : E(x) < w[2] => E(x) \in Y) => X \subseteq Y
  BY StartsAre, Zenon
<1> HIDE DEF X, E
<1>5. ASSUME NEW x \in S PROVE \A z \in X : z <= x \/ z >= E(x)
  <2> DEFINE G == {z \in X : z <= x \/ z >= E(x)}
  <2>1. w[1] \in G
    BY <1>1, <1>2, Zenon
  <2>2. ASSUME NEW z \in G, E(z) < w[2] PROVE E(z) \in G
    <3>0. E(z) \in X /\ z \in X /\ x \in X
      BY <1>3, <2>2, Zenon
    <3>1. CASE z < x
      <4>1. E(z) <= x
        BY <3>0, <3>1, Zenon
      <4> QED BY <3>0, <4>1, Zenon
    <3>2. CASE z = x
      <4>1. E(z) >= E(x)
        BY <1>2, <3>0, <3>2
      <4> QED BY <3>0, <4>1, Zenon
    <3>3. CASE z > x
      <4>1. z >= E(x)
        BY <1>2, <2>2, <3>0, <3>3
      <4>2. E(z) >= E(x)
        BY <1>2, <3>0, <4>1
      <4> QED BY <3>0, <4>2, Zenon
    <3> QED BY <1>2, <3>0, <3>1, <3>2, <3>3
  <2>3. G \subseteq Slots(w)
    BY <1>1, Zenon
  <2>4. X \subseteq G
    <3> HIDE DEF G
    <3> QED BY <1>4, <2>1, <2>2, <2>3, Zenon
  <2> QED BY <2>4, Zenon
<1>6. w[1] \in S
  BY <1>1, <1>2
<1>7. ASSUME NEW x \in S, E(x) < w[2] PROVE E(x) \in S
  <2>1. E(x) \in X /\ x \in X
    BY <1>3, <1>7, Zenon
  <2>2. ASSUME NEW y \in X, y < E(x) PROVE E(y) <= E(x)
    <3>1. y <= x
      BY <1>2, <1>5, <2>1, <2>2
    <3>2. CASE y = x
      BY <1>2, <2>1, <3>2
    <3>3. CASE y < x
      <4>1. E(y) <= x
        BY <3>3, Zenon
      <4> QED BY <1>2, <2>1, <4>1
    <3> QED BY <1>2, <2>1, <3>1, <3>2, <3>3
  <2> QED BY <2>1, <2>2, Zenon
<1>8. S \subseteq Slots(w)
  BY <1>1, Zenon
<1>9. X \subseteq S
  <2> HIDE DEF S
  <2> QED BY <1>4, <1>6, <1>7, <1>8, Zenon
<1>10. a \in X /\ b \in X
  BY Zenon DEF X
<1>11. E(a) <= b
  BY <1>9, <1>10, Zenon
<1> QED BY <1>11, Zenon DEF E

(* The chunks of a backfill do not overlap, and when target bars are       *)
(* wanted, none of the window is cut in two.                               *)
LEMMA ChunksAre ==
    ASSUME NEW tf, NEW w \in Nat \X Nat, w[1] < w[2]
    PROVE  /\ Chunks(tf, w) \in SUBSET (Nat \X Nat) /\ Chunks(tf, w) # {}
           /\ \A c, d \in Chunks(tf, w) : c # d => Slots(c) \cap Slots(d) = {}
<1>1. CASE ~IsLarge(w)
  <2>1. Chunks(tf, w) = {w}
    BY <1>1, Zenon DEF Chunks
  <2> QED BY <2>1, Zenon
<1>2. CASE IsLarge(w)
  <2> DEFINE X == ChunkStarts(tf, w)
             E(x) == ChunkEnd(tf, w, x)
  <2>1. Chunks(tf, w) = {<<b, E(b)>> : b \in X}
    BY <1>2, Zenon DEF Chunks
  <2>2. X \subseteq Slots(w) /\ w[1] \in X
    BY StartsAre, Zenon
  <2>3. \A x \in X : x \in Nat /\ E(x) \in Nat
    <3>1. \A x \in X : E(x) \in Nat
      BY <2>2, ChunkEndIs, Zenon
    <3>2. \A x \in Slots(w) : x \in Nat
      BY DEF Slots
    <3> QED BY <2>2, <3>1, <3>2, Zenon
  <2>4. \A x, y \in X : x < y => E(x) <= y
    BY StartsApart, Zenon
  <2> HIDE DEF X, E
  <2>5. ASSUME NEW c \in Chunks(tf, w), NEW d \in Chunks(tf, w), c # d
        PROVE  Slots(c) \cap Slots(d) = {}
    <3>1. PICK x \in X : c = <<x, E(x)>>
      BY <2>1, Zenon
    <3>2. PICK y \in X : d = <<y, E(y)>>
      BY <2>1, Zenon
    <3>3. x # y
      BY <2>5, <3>1, <3>2, Zenon
    <3>4. Slots(c) = x .. E(x) - 1 /\ Slots(d) = y .. E(y) - 1
      BY <3>1, <3>2, Zenon DEF Slots
    <3>5. x \in Nat /\ y \in Nat /\ E(x) \in Nat /\ E(y) \in Nat
      BY <2>3, Zenon
    <3>6. E(x) <= y \/ E(y) <= x
      BY <2>4, <3>3, <3>5
    <3> QED BY <3>4, <3>5, <3>6
  <2>6. Chunks(tf, w) \in SUBSET (Nat \X Nat) /\ Chunks(tf, w) # {}
    <3>1. <<w[1], E(w[1])>> \in Chunks(tf, w)
      BY <2>1, <2>2, Zenon
    <3>2. ASSUME NEW c \in Chunks(tf, w) PROVE c \in Nat \X Nat
      <4>1. PICK x \in X : c = <<x, E(x)>>
        BY <2>1, Zenon
      <4>2. x \in Nat /\ E(x) \in Nat
        BY <2>3, <4>1, Zenon
      <4> QED BY <4>1, <4>2, Zenon
    <3> QED BY <3>1, <3>2, Zenon
  <2> QED BY <2>5, <2>6, Zenon
<1> QED BY <1>1, <1>2, Zenon

(* No chunk cuts a target bar of the window in two.                        *)
LEMMA ChunksKeepTargets ==
    ASSUME NEW w \in Nat \X Nat, w[1] < w[2], NEW k \in Targets, Window(k) \subseteq Slots(w)
    PROVE  \E c \in Chunks("target", w) : Window(k) \subseteq Slots(c)
<1>1. CASE ~IsLarge(w)
  BY <1>1, Zenon DEF Chunks
<1>2. CASE IsLarge(w)
  <2> DEFINE X == ChunkStarts("target", w)
             E(x) == ChunkEnd("target", w, x)
             lo == k * Ratio
  <2>0. /\ Ratio \in Nat /\ Ratio > 0 /\ k \in Nat /\ lo \in Nat
        /\ w[1] \in Nat /\ w[2] \in Nat
    BY MarketAssumption DEF Targets
  <2>1. /\ lo \in Nat /\ w[1] <= lo /\ lo + Ratio <= w[2]
        /\ Window(k) = lo .. (lo + Ratio - 1)
    <3>1. Window(k) = lo .. (lo + Ratio - 1)
      BY Zenon DEF Window
    <3> HIDE DEF lo
    <3>2. lo \in Window(k) /\ lo + Ratio - 1 \in Window(k)
      BY <2>0, <3>1
    <3>3. lo \in Slots(w) /\ lo + Ratio - 1 \in Slots(w)
      BY <3>2, Zenon
    <3> QED BY <2>0, <3>1, <3>3 DEF Slots
  <2>2. X \subseteq Slots(w) /\ w[1] \in X
    BY StartsAre, Zenon
  <2>3. \A x \in X : /\ x \in Nat /\ E(x) \in Nat /\ x < E(x)
                     /\ E(x) = w[2] \/ \E m \in Int : E(x) = m * Ratio
    <3>1. \A x \in X : /\ E(x) \in Nat /\ x < E(x)
                       /\ E(x) = w[2] \/ \E m \in Int : E(x) = m * Ratio
      BY <2>2, ChunkEndIs, Zenon
    <3>2. \A x \in Slots(w) : x \in Nat
      BY DEF Slots
    <3> QED BY <2>2, <3>1, <3>2, Zenon
  <2>4. \A x \in X : E(x) < w[2] => E(x) \in X
    BY StartsAre, Zenon
  <2>5. Chunks("target", w) = {<<b, E(b)>> : b \in X}
    BY <1>2, Zenon DEF Chunks
  <2>6. PICK x \in X : x <= lo /\ \A y \in X : y <= lo => y <= x
    <3> HIDE DEF X, lo
    <3> DEFINE T == {y \in X : y <= lo}
    <3>1. T \in SUBSET Nat /\ T # {} /\ \A y \in T : y <= lo
      BY <2>1, <2>2, <2>3, Zenon
    <3>2. \E y \in T : \A z \in T : z <= y
      <4> HIDE DEF T
      <4> QED BY <2>0, <3>1, GreatestNat, Zenon
    <3> QED BY <3>2, Zenon
  <2>7. lo < E(x)
    <3> HIDE DEF X, E, lo
    <3>1. CASE E(x) = w[2]
      BY <2>0, <2>1, <3>1
    <3>2. CASE E(x) < w[2]
      BY <2>0, <2>1, <2>3, <2>4, <2>6, <3>2
    <3>3. CASE E(x) > w[2]
      BY <2>0, <2>1, <2>3, <3>3
    <3> QED BY <2>0, <2>3, <3>1, <3>2, <3>3
  <2>8. lo + Ratio <= E(x)
    <3>1. CASE E(x) = w[2]
      BY <2>1, <3>1, Zenon
    <3>2. CASE \E m \in Int : E(x) = m * Ratio
      <4>1. PICK m \in Int : E(x) = m * Ratio
        BY <3>2, Zenon
      <4>2. m * Ratio > k * Ratio
        BY <2>7, <4>1, Zenon
      <4>3. m * Ratio >= k * Ratio + Ratio
        BY <2>0, <4>2, MultiplesApart
      <4> QED BY <2>0, <4>1, <4>3, Zenon
    <3> QED BY <2>3, <3>1, <3>2, Zenon
  <2> HIDE DEF X, E, lo
  <2>9. <<x, E(x)>> \in Chunks("target", w)
    BY <2>5, <2>6, Zenon
  <2>10. Slots(<<x, E(x)>>) = x .. E(x) - 1
    BY Zenon DEF Slots
  <2>11. Window(k) \subseteq Slots(<<x, E(x)>>)
    BY <2>0, <2>1, <2>3, <2>6, <2>8, <2>10
  <2> QED BY <2>9, <2>11, Zenon
<1> QED BY <1>1, <1>2, Zenon

(* Stored bars only add to what a backfill has achieved.                   *)
LEMMA FillGrows ==
    ASSUME NEW p, NEW r, NEW W, NEW g, NEW f, NEW S, NEW T, NEW S2, NEW T2,
           FillOK(p, r, W, g, f, S, T), S \subseteq S2, T \subseteq T2
    PROVE  FillOK(p, r, W, g, f, S2, T2)
BY Zenon DEF FillOK

(* So does a thread that moves between places before the store.            *)
LEMMA FillMoves ==
    ASSUME NEW p, NEW q, NEW r, NEW W, NEW g, NEW f, NEW S, NEW T, NEW S2, NEW T2,
           FillOK(p, r, W, g, f, S, T), S \subseteq S2, T \subseteq T2,
           p \notin {"store", "derive"}, q \notin {"store", "derive"}
    PROVE  FillOK(q, r, W, g, f, S2, T2)
BY Zenon DEF FillOK

(* What a finished backfill has achieved.                                  *)
DoneOK(r, f, S, T) ==
  f.st = "done" => /\ f.avail \subseteq S
                   /\ r.src = "target" => Aggregates(r.win, f.avail) \subseteq T

(* Stored bars do not undo a finished backfill.                            *)
LEMMA DoneGrows ==
    ASSUME NEW r, NEW f, NEW S, NEW T, NEW S2, NEW T2,
           DoneOK(r, f, S, T), S \subseteq S2, T \subseteq T2
    PROVE  DoneOK(r, f, S2, T2)
BY Zenon DEF DoneOK

(* BackfillDerivesAll, job by job, before and after a step.                *)
LEMMA DoneIs == BackfillDerivesAll <=> \A r \in Backfills : DoneOK(r, fills[r], source, target)
BY Zenon DEF BackfillDerivesAll, DoneOK

LEMMA DoneIsAfter ==
    (BackfillDerivesAll)' <=> \A r \in Backfills : DoneOK(r, fills'[r], source', target')
BY Zenon DEF BackfillDerivesAll, DoneOK

(* A step of one thread, whose backfill no other thread runs, leaves the   *)
(* other threads and their backfills alone.                                *)
LEMMA OneThread ==
    ASSUME SeriesInv, Flights', SeriesTypes', NEW t \in Clients,
           source \subseteq source', target \subseteq target',
           persists' = persists, fpc' = fpc, fbars' = fbars,
           \A u \in Clients \ {t} :
             /\ pc'[u] = pc[u] /\ req'[u] = req[u] /\ todo'[u] = todo[u]
             /\ got'[u] = got[u] /\ res'[u] = res[u] /\ out'[u] = out[u],
           \A u \in Clients \ {t} : Filling(u) => req[u] # req'[t],
           \A r \in Backfills : r # req'[t] => fills'[r] = fills[r],
           req'[t] \in Backfills =>
             /\ fills'[req'[t]].st = "none" => fills'[req'[t]].avail = {}
             /\ DoneOK(req'[t], fills'[req'[t]], source', target'),
           LoadOK(t)',
           (Filling(t))' =>
             FillOK(pc'[t], req'[t], todo'[t], got'[t], fills'[req'[t]], source', target'),
           (AggregatesHaveSources)'
    PROVE  SeriesInv'
<1>1. \A u \in Clients : Filling(u) => req[u] \in Backfills
  BY SMTT(30) DEF Filling, SeriesInv, Flights, Loads, NoRequest
<1>2. \A u \in Clients : LoadOK(u)'
  <2>1. ASSUME NEW u \in Clients, u # t PROVE LoadOK(u)'
    <3>1. LoadOK(u)
      BY Zenon DEF SeriesInv
    <3>2. /\ pc'[u] = pc[u] /\ req'[u] = req[u] /\ todo'[u] = todo[u]
          /\ got'[u] = got[u] /\ res'[u] = res[u] /\ out'[u] = out[u]
      BY <2>1, Zenon
    <3> QED BY <3>1, <3>2, Zenon DEF LoadOK
  <2> QED BY <2>1, Zenon
<1>3. \A u \in Clients \ {t} : (Filling(u))' <=> Filling(u)
  BY Zenon DEF Filling
<1>4. ASSUME NEW u \in Clients, (Filling(u))'
      PROVE  FillOK(pc'[u], req'[u], todo'[u], got'[u], fills'[req'[u]], source', target')
  <2>1. CASE u = t
    BY <1>4, <2>1, Zenon
  <2>2. CASE u # t
    <3>1. Filling(u)
      BY <1>3, <1>4, <2>2, Zenon
    <3>2. /\ pc'[u] = pc[u] /\ req'[u] = req[u] /\ todo'[u] = todo[u] /\ got'[u] = got[u]
      BY <2>2, Zenon
    <3>3. fills'[req[u]] = fills[req[u]]
      BY <1>1, <2>2, <3>1, Zenon
    <3>4. FillOK(pc[u], req[u], todo[u], got[u], fills[req[u]], source, target)
      BY <3>1, Zenon DEF SeriesInv
    <3>5. FillOK(pc[u], req[u], todo[u], got[u], fills[req[u]], source', target')
      BY <3>4, FillGrows, Zenon
    <3> QED BY <3>2, <3>3, <3>5, Zenon
  <2> QED BY <2>1, <2>2, Zenon
<1>5. \A u, v \in Clients : (Filling(u) /\ Filling(v) /\ req[u] = req[v] => u = v)'
  <2>1. \A u \in Clients \ {t} : req'[u] = req[u]
    BY Zenon
  <2>2. \A u, v \in Clients : Filling(u) /\ Filling(v) /\ req[u] = req[v] => u = v
    BY Zenon DEF SeriesInv
  <2>3. ASSUME NEW u \in Clients, NEW v \in Clients, (Filling(u))', (Filling(v))', req'[u] = req'[v]
        PROVE  u = v
    BY <1>3, <2>1, <2>2, <2>3, Zenon
  <2> QED BY <2>3, Zenon
<1>6. \A r \in Backfills : fills'[r].st = "none" => fills'[r].avail = {}
  <2>1. \A r \in Backfills : fills[r].st = "none" => fills[r].avail = {}
    BY Zenon DEF SeriesInv
  <2> QED BY <2>1, Zenon
<1>7. (BackfillDerivesAll)'
  <2>1. \A r \in Backfills : DoneOK(r, fills[r], source, target)
    BY DoneIs, Zenon DEF SeriesInv
  <2>2. \A r \in Backfills : DoneOK(r, fills'[r], source', target')
    BY <2>1, DoneGrows, Zenon
  <2> QED BY <2>2, DoneIsAfter, Zenon
<1>8. (FetcherOK)'
  BY Zenon DEF SeriesInv, FetcherOK
<1> QED BY <1>2, <1>4, <1>5, <1>6, <1>7, <1>8, ZenonT(40) DEF SeriesInv

(* A step of the fetcher, or of time, adds bars to the store.              *)
LEMMA NoThread ==
    ASSUME SeriesInv, Flights', SeriesTypes',
           source \subseteq source', target \subseteq target',
           UNCHANGED <<pc, req, todo, got, res, out, fills>>,
           (AggregatesHaveSources)',
           (FetcherOK)'
    PROVE  SeriesInv'
<1>1. \A u \in Clients : LoadOK(u)'
  <2> SUFFICES ASSUME NEW u \in Clients PROVE LoadOK(u)'
    BY Zenon
  <2>1. LoadOK(u)
    BY Zenon DEF SeriesInv
  <2> QED BY <2>1, Zenon DEF LoadOK
<1>2. ASSUME NEW u \in Clients, (Filling(u))'
      PROVE  FillOK(pc'[u], req'[u], todo'[u], got'[u], fills'[req'[u]], source', target')
  <2>1. Filling(u)
    BY <1>2, Zenon DEF Filling
  <2>2. FillOK(pc[u], req[u], todo[u], got[u], fills[req[u]], source, target)
    BY <2>1, Zenon DEF SeriesInv
  <2>3. FillOK(pc[u], req[u], todo[u], got[u], fills[req[u]], source', target')
    BY <2>2, FillGrows, Zenon
  <2>4. /\ pc'[u] = pc[u] /\ req'[u] = req[u] /\ todo'[u] = todo[u] /\ got'[u] = got[u]
        /\ fills'[req'[u]] = fills[req[u]]
    BY Zenon
  <2> QED BY <2>3, <2>4, Zenon
<1>3. \A u, v \in Clients : (Filling(u) /\ Filling(v) /\ req[u] = req[v] => u = v)'
  BY Zenon DEF SeriesInv, Filling
<1>4. \A r \in Backfills : fills'[r].st = "none" => fills'[r].avail = {}
  BY Zenon DEF SeriesInv
<1>5. (BackfillDerivesAll)'
  <2>1. \A r \in Backfills : DoneOK(r, fills[r], source, target)
    BY DoneIs, Zenon DEF SeriesInv
  <2>2. \A r \in Backfills : DoneOK(r, fills[r], source', target')
    BY <2>1, DoneGrows, Zenon
  <2>3. fills' = fills
    BY Zenon
  <2> QED BY <2>2, <2>3, DoneIsAfter, Zenon
<1> QED BY <1>1, <1>2, <1>3, <1>4, <1>5, Zenon DEF SeriesInv

(* Nobody else runs the backfill of a busy thread.                         *)
LEMMA OwnBackfill ==
    ASSUME SeriesInv, NEW t \in Clients, pc[t] # "idle"
    PROVE  \A u \in Clients \ {t} : Filling(u) => req[u] # req[t]
BY Zenon DEF SeriesInv, Filling

(* A request is a load or a backfill, and says which.                      *)
LEMMA RequestTypes ==
    ASSUME SeriesInv, NEW t \in Clients
    PROVE  /\ req[t].op = "backfill" => req[t] \in Backfills
           /\ req[t].op = "load" => req[t] \in Loads /\ req[t] \notin Backfills
           /\ req[t] \in Backfills => req[t].op = "backfill"
<1>1. req[t] \in Loads \/ req[t] \in Backfills \/ req[t] = NoRequest
  BY Zenon DEF SeriesInv, Flights
<1>2. (\A r \in Loads : r.op = "load") /\ (\A r \in Backfills : r.op = "backfill")
  BY DEF Loads, Backfills
<1>3. NoRequest.op = "none"
  BY Zenon DEF NoRequest
<1> QED BY <1>1, <1>2, <1>3, Zenon

(* What the windows of the requests are.                                   *)
LEMMA BackfillParts ==
    ASSUME NEW r \in Backfills
    PROVE  /\ r.op = "backfill" /\ r.win \in FillWindows /\ ~r.fail
           /\ r.win \in Nat \X Nat /\ r.win[1] < r.win[2]
<1>1. r.op = "backfill" /\ r.win \in FillWindows /\ ~r.fail
  BY DEF Backfills
<1> QED BY <1>1, MarketAssumption, Zenon

LEMMA LoadParts ==
    ASSUME NEW r \in Loads
    PROVE  r.op = "load" /\ r.win \in Nat \X Nat
<1>1. r.op = "load" /\ r.win \in LoadWindows
  BY DEF Loads
<1> QED BY <1>1, MarketAssumption, Zenon

(* The actions, one by one: a request is accepted.                         *)
LEMMA RequestKeeps ==
    ASSUME SeriesInv, Flights', NEW t \in Clients, NEW r \in Loads \cup Backfills, Request(t, r)
    PROVE  SeriesInv'
<1>0. SeriesTypes
  BY Zenon DEF SeriesInv
<1>1. /\ pc[t] = "idle" /\ req' = [req EXCEPT ![t] = r]
      /\ source' = source /\ target' = target /\ persists' = persists /\ fpc' = fpc
      /\ fbars' = fbars /\ res' = res /\ on' = on /\ current' = current
  BY Zenon DEF Request, store, fetcher
<1>2. req'[t] = r /\ \A u \in Clients \ {t} : req'[u] = req[u]
  BY <1>1, Zenon DEF SeriesInv, Flights
<1>3. (AggregatesHaveSources)'
  BY <1>1, Zenon DEF AggregatesHaveSources, SeriesInv
<1>4. \A u \in Clients \ {t} : Filling(u) => req[u] # req'[t]
  <2>1. \A u \in Clients : Filling(u) => fills[req[u]].st = "running" /\ req[u] \in Backfills
    BY RequestTypes, Zenon DEF SeriesInv, FillOK, Filling
  <2>2. r \in Backfills => fills[r].st = "none"
    BY BackfillParts, Zenon DEF Request
  <2> QED BY <1>2, <2>1, <2>2, Zenon
<1>5. CASE /\ r.op = "load"
           /\ todo' = [todo EXCEPT ![t] = IF r.src = "provider" THEN {r.win} ELSE {}]
           /\ pc' = [pc EXCEPT ![t] = IF r.src = "provider" THEN "join" ELSE "read"]
           /\ out' = [out EXCEPT ![t] = "none"]
           /\ UNCHANGED <<have, got, fills>>
  <2>1. r \in Loads /\ r \notin Backfills
    BY <1>5, BackfillParts, Zenon
  <2>2. r.win \in Nat \X Nat
    BY <2>1, LoadParts, Zenon
  <2>3. SeriesTypes'
    BY <1>0, <1>1, <1>5, <2>2, Zenon DEF SeriesTypes
  <2>4. \A u \in Clients \ {t} :
          /\ pc'[u] = pc[u] /\ req'[u] = req[u] /\ todo'[u] = todo[u]
          /\ got'[u] = got[u] /\ res'[u] = res[u] /\ out'[u] = out[u]
    BY <1>0, <1>1, <1>2, <1>5, SMTT(30) DEF SeriesTypes, SeriesInv, Flights
  <2>5. pc'[t] \in {"join", "read"} /\ out'[t] = "none"
    BY <1>0, <1>5, Zenon DEF SeriesTypes, SeriesInv, Flights
  <2>6. LoadOK(t)'
    BY <1>2, <1>5, <2>5, Zenon DEF LoadOK
  <2>7. ~(Filling(t))'
    BY <1>2, <1>5, Zenon DEF Filling
  <2>8. \A x \in Backfills : fills'[x] = fills[x]
    BY <1>5, Zenon
  <2> QED BY <1>1, <1>2, <1>3, <1>4, <2>1, <2>3, <2>4, <2>6, <2>7, <2>8, OneThread, Zenon
<1>6. CASE /\ r.op = "backfill" /\ RangesCover(r.src, r.win)
           /\ Finish(t, "skipped")
           /\ fills' = [fills EXCEPT ![r].st = "skipped"]
  <2>1. r \in Backfills
    BY <1>6, LoadParts, Zenon
  <2>2. /\ pc' = [pc EXCEPT ![t] = "idle"] /\ out' = [out EXCEPT ![t] = "skipped"]
        /\ todo' = [todo EXCEPT ![t] = {}] /\ have' = [have EXCEPT ![t] = {}]
        /\ got' = [got EXCEPT ![t] = {}]
    BY <1>6, Zenon DEF Finish
  <2>3. fills' \in [Backfills -> [st : {"none", "running", "done", "failed", "skipped"},
                                  avail : SUBSET Int]]
    BY <1>0, <1>6, <2>1, Zenon DEF SeriesTypes
  <2>4. SeriesTypes'
    BY <1>0, <1>1, <2>2, <2>3, Zenon DEF SeriesTypes
  <2>5. \A u \in Clients \ {t} :
          /\ pc'[u] = pc[u] /\ req'[u] = req[u] /\ todo'[u] = todo[u]
          /\ got'[u] = got[u] /\ res'[u] = res[u] /\ out'[u] = out[u]
    BY <1>0, <1>1, <1>2, <2>2 DEF SeriesTypes, SeriesInv, Flights
  <2>6. pc'[t] = "idle" /\ out'[t] = "skipped"
    BY <1>0, <2>2, Zenon DEF SeriesTypes, SeriesInv, Flights
  <2>7. LoadOK(t)' /\ ~(Filling(t))'
    BY <2>6, Zenon DEF LoadOK, Filling
  <2>8. /\ \A x \in Backfills : x # r => fills'[x] = fills[x]
        /\ fills'[r].st = "skipped"
    BY <1>0, <1>6, <2>1, Zenon DEF SeriesTypes
  <2>9. /\ fills'[r].st = "none" => fills'[r].avail = {}
        /\ DoneOK(r, fills'[r], source', target')
    BY <2>8, Zenon DEF DoneOK
  <2> QED BY <1>1, <1>2, <1>3, <1>4, <2>4, <2>5, <2>7, <2>8, <2>9, OneThread, Zenon
<1>7. CASE /\ r.op = "backfill" /\ ~RangesCover(r.src, r.win)
           /\ todo' = [todo EXCEPT ![t] = Chunks(r.src, r.win)]
           /\ pc' = [pc EXCEPT ![t] = "join"]
           /\ out' = [out EXCEPT ![t] = "none"]
           /\ fills' = [fills EXCEPT ![r].st = "running"]
           /\ UNCHANGED <<have, got>>
  <2>1. r \in Backfills
    BY <1>7, LoadParts, Zenon
  <2> DEFINE C == Chunks(r.src, r.win)
  <2>2. C \in SUBSET (Nat \X Nat) /\ C # {}
    BY <2>1, BackfillParts, ChunksAre, Zenon
  <2>a. todo' = [todo EXCEPT ![t] = C]
    BY <1>7, Zenon
  <2> HIDE DEF C
  <2>3. fills' \in [Backfills -> [st : {"none", "running", "done", "failed", "skipped"},
                                  avail : SUBSET Int]]
    BY <1>0, <1>7, <2>1, Zenon DEF SeriesTypes
  <2>4. SeriesTypes'
    BY <1>0, <1>1, <1>7, <2>2, <2>3, <2>a, Zenon DEF SeriesTypes
  <2>5. \A u \in Clients \ {t} :
          /\ pc'[u] = pc[u] /\ req'[u] = req[u] /\ todo'[u] = todo[u]
          /\ got'[u] = got[u] /\ res'[u] = res[u] /\ out'[u] = out[u]
    BY <1>0, <1>1, <1>2, <1>7, <2>a DEF SeriesTypes, SeriesInv, Flights
  <2>6. pc'[t] = "join" /\ out'[t] = "none" /\ todo'[t] = C
    BY <1>0, <1>7, <2>a DEF SeriesTypes, SeriesInv, Flights
  <2>7. LoadOK(t)'
    BY <2>6, Zenon DEF LoadOK
  <2>8. /\ \A x \in Backfills : x # r => fills'[x] = fills[x]
        /\ fills'[r].st = "running" /\ fills'[r].avail = fills[r].avail
    BY <1>0, <1>7, <2>1, Zenon DEF SeriesTypes
  <2>9. fills'[r].avail = {}
    <3>1. fills[r].st = "none"
      BY <1>7, Zenon DEF Request
    <3> QED BY <2>1, <2>8, <3>1, Zenon DEF SeriesInv
  <2>10. DoneOK(r, fills'[r], source', target')
    BY <2>8, Zenon DEF DoneOK
  <2>11. FillOK("join", r, C, got'[t], fills'[r], source', target')
    <3>1. C \ C = {}
      BY Zenon
    <3>2. "join" \notin {"store", "derive"}
      BY Zenon
    <3> QED BY <2>2, <2>8, <2>9, <3>1, <3>2, Zenon DEF FillOK, C
  <2> QED BY <1>1, <1>2, <1>3, <1>4, <2>4, <2>5, <2>6, <2>7, <2>8, <2>9, <2>10, <2>11, OneThread, Zenon
<1> QED BY <1>5, <1>6, <1>7, Zenon DEF Request

(* A thread that has answered its request.                                 *)
LEMMA FinishKeeps ==
    ASSUME SeriesInv, Flights', NEW t \in Clients, NEW o, Finish(t, o), pc[t] # "idle",
           o \in {"none", "complete", "partial", "done", "error", "skipped"},
           req' = req, persists' = persists, fpc' = fpc, fbars' = fbars,
           source \subseteq source', target \subseteq target', (AggregatesHaveSources)',
           source' \subseteq Int, target' \subseteq Targets,
           res' \in [Clients -> [ok : BOOLEAN, bars : SUBSET Int]],
           \A u \in Clients \ {t} : res'[u] = res[u],
           req[t].op = "load" /\ req[t].fail => o # "partial",
           fills' \in [Backfills -> [st : {"none", "running", "done", "failed", "skipped"},
                                     avail : SUBSET Int]],
           \A r \in Backfills : r # req[t] => fills'[r] = fills[r],
           req[t] \in Backfills =>
             /\ fills'[req[t]].st # "none"
             /\ DoneOK(req[t], fills'[req[t]], source', target')
    PROVE  SeriesInv'
<1>0. SeriesTypes
  BY Zenon DEF SeriesInv
<1>1. /\ pc' = [pc EXCEPT ![t] = "idle"] /\ out' = [out EXCEPT ![t] = o]
      /\ todo' = [todo EXCEPT ![t] = {}] /\ have' = [have EXCEPT ![t] = {}]
      /\ got' = [got EXCEPT ![t] = {}]
  BY Zenon DEF Finish
<1>2. SeriesTypes'
  BY <1>0, <1>1, Zenon DEF SeriesTypes
<1>3. \A u \in Clients \ {t} :
        /\ pc'[u] = pc[u] /\ req'[u] = req[u] /\ todo'[u] = todo[u]
        /\ got'[u] = got[u] /\ res'[u] = res[u] /\ out'[u] = out[u]
  BY <1>0, <1>1 DEF SeriesTypes, SeriesInv, Flights
<1>4. pc'[t] = "idle" /\ out'[t] = o
  BY <1>0, <1>1 DEF SeriesTypes, SeriesInv, Flights
<1>5. LoadOK(t)' /\ ~(Filling(t))'
  BY <1>4, Zenon DEF LoadOK, Filling
<1>6. \A u \in Clients \ {t} : Filling(u) => req[u] # req'[t]
  BY OwnBackfill, Zenon
<1>7. req'[t] = req[t]
  BY Zenon
<1> QED BY <1>2, <1>3, <1>5, <1>6, <1>7, OneThread, Zenon

(* A request that ends with an error.                                      *)
LEMMA RaiseKeeps ==
    ASSUME SeriesInv, Flights', NEW t \in Clients, Raise(t), pc[t] # "idle",
           req' = req, persists' = persists, fpc' = fpc, fbars' = fbars,
           source \subseteq source', source' \subseteq Int, target' = target,
           res' \in [Clients -> [ok : BOOLEAN, bars : SUBSET Int]],
           \A u \in Clients \ {t} : res'[u] = res[u]
    PROVE  SeriesInv'
<1>0. SeriesTypes
  BY Zenon DEF SeriesInv
<1>1. Finish(t, "error")
  BY Zenon DEF Raise
<1>2. /\ (AggregatesHaveSources)' /\ target' \subseteq Targets
      /\ target \subseteq target'
  BY <1>0, Zenon DEF AggregatesHaveSources, SeriesInv, SeriesTypes
<1>3. CASE req[t].op = "backfill"
  <2>1. req[t] \in Backfills
    BY <1>3, RequestTypes, Zenon
  <2>2. fills' = [fills EXCEPT ![req[t]].st = "failed"]
    BY <1>3, Zenon DEF Raise
  <2>3. fills' \in [Backfills -> [st : {"none", "running", "done", "failed", "skipped"},
                                  avail : SUBSET Int]]
    BY <1>0, <2>1, <2>2, ZenonT(40) DEF SeriesTypes
  <2>4. /\ \A r \in Backfills : r # req[t] => fills'[r] = fills[r]
        /\ fills'[req[t]].st = "failed"
    BY <1>0, <2>1, <2>2, Zenon DEF SeriesTypes
  <2>5. fills'[req[t]].st # "none" /\ DoneOK(req[t], fills'[req[t]], source', target')
    BY <2>4, Zenon DEF DoneOK
  <2>6. "error" \in {"none", "complete", "partial", "done", "error", "skipped"} /\ "error" # "partial"
    BY Zenon
  <2> QED BY <1>1, <1>2, <2>3, <2>4, <2>5, <2>6, FinishKeeps, Zenon
<1>4. CASE req[t].op # "backfill"
  <2>1. req[t] \notin Backfills
    BY <1>4, RequestTypes, Zenon
  <2>2. fills' = fills
    BY <1>4, Zenon DEF Raise
  <2>3. fills' \in [Backfills -> [st : {"none", "running", "done", "failed", "skipped"},
                                  avail : SUBSET Int]]
    BY <1>0, <2>2, Zenon DEF SeriesTypes
  <2>6. "error" \in {"none", "complete", "partial", "done", "error", "skipped"} /\ "error" # "partial"
    BY Zenon
  <2> QED BY <1>1, <1>2, <2>1, <2>2, <2>3, <2>6, FinishKeeps, Zenon
<1> QED BY <1>3, <1>4, Zenon

(* A load that returns the bars B.                                         *)
LEMMA ReturnKeeps ==
    ASSUME SeriesInv, Flights', NEW t \in Clients, NEW B, Return(t, B), pc[t] # "idle",
           req[t].op = "load", req[t].fail => B = Slots(req[t].win),
           req' = req, res' = res, fills' = fills,
           persists' = persists, fpc' = fpc, fbars' = fbars,
           source \subseteq source', target' = target, source' \subseteq Int
    PROVE  SeriesInv'
<1>0. SeriesTypes
  BY Zenon DEF SeriesInv
<1> DEFINE o == IF B = Slots(req[t].win) THEN "complete" ELSE "partial"
<1>1. Finish(t, o)
  BY Zenon DEF Return
<1>2. (AggregatesHaveSources)' /\ target' \subseteq Targets /\ target \subseteq target'
  BY <1>0, Zenon DEF AggregatesHaveSources, SeriesInv, SeriesTypes
<1>3. req[t] \notin Backfills
  BY RequestTypes, Zenon
<1>4. /\ o \in {"none", "complete", "partial", "done", "error", "skipped"}
      /\ req[t].op = "load" /\ req[t].fail => o # "partial"
  BY Zenon
<1>5. /\ fills' \in [Backfills -> [st : {"none", "running", "done", "failed", "skipped"},
                                  avail : SUBSET Int]]
      /\ res' \in [Clients -> [ok : BOOLEAN, bars : SUBSET Int]]
  BY <1>0, Zenon DEF SeriesTypes
<1> HIDE DEF o
<1> QED BY <1>1, <1>2, <1>3, <1>4, <1>5, FinishKeeps, Zenon

(* A load reads the store.                                                 *)
LEMMA ReadStorageKeeps ==
    ASSUME SeriesInv, Flights', NEW t \in Clients, ReadStorage(t)
    PROVE  SeriesInv'
<1>0. SeriesTypes
  BY Zenon DEF SeriesInv
<1> DEFINE bars == source \cap Slots(req[t].win)
           missing == Slots(req[t].win) \ source
<1>1. /\ pc[t] = "read" /\ req' = req /\ res' = res /\ source' = source /\ target' = target
      /\ persists' = persists /\ fpc' = fpc /\ fbars' = fbars
  BY Zenon DEF ReadStorage, store, fetcher
<1>2. pc[t] # "idle" /\ req[t].op = "load"
  BY <1>1, Zenon DEF SeriesInv, LoadOK
<1>3. /\ res' \in [Clients -> [ok : BOOLEAN, bars : SUBSET Int]]
      /\ source' \subseteq Int /\ source \subseteq source' /\ target \subseteq target'
      /\ \A u \in Clients \ {t} : res'[u] = res[u]
  BY <1>0, <1>1, Zenon DEF SeriesTypes
<1>4. CASE Raise(t)
  BY <1>1, <1>2, <1>3, <1>4, RaiseKeeps, Zenon
<1>5. CASE /\ missing = {} \/ (req[t].src = "storage" /\ ~req[t].fail)
           /\ Return(t, bars)
           /\ UNCHANGED fills
  <2>1. req[t].fail => bars = Slots(req[t].win)
    BY <1>5, Zenon
  <2> HIDE DEF bars
  <2> QED BY <1>1, <1>2, <1>3, <1>5, <2>1, ReturnKeeps, Zenon
<1>6. CASE /\ missing # {} /\ req[t].src = "auto"
           /\ have' = [have EXCEPT ![t] = bars]
           /\ todo' = [todo EXCEPT ![t] = MissingIntervals(missing)]
           /\ pc' = [pc EXCEPT ![t] = "join"]
           /\ UNCHANGED <<got, out, fills>>
  <2>1. MissingIntervals(missing) \in SUBSET (Nat \X Nat)
    BY MarketAssumption DEF MissingIntervals
  <2>2. bars \in SUBSET Int
    BY <1>0, Zenon DEF SeriesTypes
  <2> HIDE DEF bars, missing
  <2>3. SeriesTypes'
    BY <1>0, <1>1, <1>6, <2>1, <2>2, Zenon DEF SeriesTypes
  <2>4. \A u \in Clients \ {t} :
          /\ pc'[u] = pc[u] /\ req'[u] = req[u] /\ todo'[u] = todo[u]
          /\ got'[u] = got[u] /\ res'[u] = res[u] /\ out'[u] = out[u]
    BY <1>0, <1>1, <1>6 DEF SeriesTypes, SeriesInv, Flights
  <2>5. pc'[t] = "join" /\ out' = out
    BY <1>6, Zenon DEF SeriesInv, Flights
  <2>6. LoadOK(t)
    BY Zenon DEF SeriesInv
  <2>7. LoadOK(t)'
    BY <1>1, <2>5, <2>6, Zenon DEF LoadOK
  <2>8. ~(Filling(t))' /\ req'[t] = req[t]
    BY <1>1, <1>2, Zenon DEF Filling
  <2>9. \A u \in Clients \ {t} : Filling(u) => req[u] # req[t]
    BY <1>2, OwnBackfill, Zenon
  <2>10. (AggregatesHaveSources)'
    BY <1>1, Zenon DEF AggregatesHaveSources, SeriesInv
  <2>11. req[t] \notin Backfills /\ fills' = fills
    BY <1>2, <1>6, RequestTypes, Zenon
  <2> QED BY <1>1, <1>3, <2>3, <2>4, <2>7, <2>8, <2>9, <2>10, <2>11, OneThread, Zenon
<1> QED BY <1>4, <1>5, <1>6, Zenon DEF ReadStorage

(* A thread that goes on to ask for its window.                            *)
LEMMA MoveKeeps ==
    ASSUME SeriesInv, Flights', NEW t \in Clients, NEW q,
           pc[t] \in {"join", "wait", "fetch", "settle"}, q \in {"wait", "fetch", "settle"},
           pc' = [pc EXCEPT ![t] = q],
           req' = req, todo' = todo, have' = have, got' = got, out' = out, fills' = fills,
           persists' = persists, fpc' = fpc, fbars' = fbars,
           source \subseteq source', target' = target, source' \subseteq Int,
           res' \in [Clients -> [ok : BOOLEAN, bars : SUBSET Int]],
           \A u \in Clients \ {t} : res'[u] = res[u],
           (q = "settle" /\ res'[t].ok) =>
             /\ res'[t].bars \subseteq Slots(EarliestWindow(todo[t]))
             /\ req[t].fail => res'[t].bars = Slots(EarliestWindow(todo[t]))
    PROVE  SeriesInv'
<1>0. SeriesTypes
  BY Zenon DEF SeriesInv
<1>1. SeriesTypes'
  BY <1>0, Zenon DEF SeriesTypes
<1>2. \A u \in Clients \ {t} :
        /\ pc'[u] = pc[u] /\ req'[u] = req[u] /\ todo'[u] = todo[u]
        /\ got'[u] = got[u] /\ res'[u] = res[u] /\ out'[u] = out[u]
  BY Zenon DEF SeriesInv, Flights
<1>3. pc'[t] = q
  BY Zenon DEF SeriesInv, Flights
<1>4. LoadOK(t)
  BY Zenon DEF SeriesInv
<1>5. LoadOK(t)'
  BY <1>3, <1>4, Zenon DEF LoadOK
<1>6. \A u \in Clients \ {t} : Filling(u) => req[u] # req'[t]
  BY OwnBackfill, Zenon
<1>7. (AggregatesHaveSources)' /\ target \subseteq target'
  BY Zenon DEF AggregatesHaveSources, SeriesInv
<1>8. ASSUME (Filling(t))'
      PROVE  FillOK(pc'[t], req'[t], todo'[t], got'[t], fills'[req'[t]], source', target')
  <2>1. Filling(t)
    BY <1>8, Zenon DEF Filling
  <2>2. FillOK(pc[t], req[t], todo[t], got[t], fills[req[t]], source, target)
    BY <2>1, Zenon DEF SeriesInv
  <2>3. pc[t] \notin {"store", "derive"} /\ q \notin {"store", "derive"}
    BY Zenon
  <2>4. FillOK(q, req[t], todo[t], got[t], fills[req[t]], source', target')
    BY <1>7, <2>2, <2>3, FillMoves, Zenon
  <2> QED BY <1>3, <2>4, Zenon
<1>9. req[t] \in Backfills =>
             /\ fills'[req[t]].st = "none" => fills'[req[t]].avail = {}
             /\ DoneOK(req[t], fills'[req[t]], source', target')
  <2>1. \A r \in Backfills : DoneOK(r, fills[r], source, target)
    BY DoneIs, Zenon DEF SeriesInv
  <2>2. \A r \in Backfills : DoneOK(r, fills[r], source', target')
    BY <1>7, <2>1, DoneGrows, Zenon
  <2>3. \A r \in Backfills : fills[r].st = "none" => fills[r].avail = {}
    BY Zenon DEF SeriesInv
  <2> QED BY <2>2, <2>3, Zenon
<1>10. req'[t] = req[t] /\ \A r \in Backfills : fills'[r] = fills[r]
  BY Zenon
<1> QED BY <1>1, <1>2, <1>5, <1>6, <1>7, <1>8, <1>9, <1>10, OneThread, Zenon

(* A thread opens a flight or waits for one.                               *)
LEMMA JoinKeeps ==
    ASSUME SeriesInv, Flights', NEW t \in Clients, Join(t)
    PROVE  SeriesInv'
<1>0. SeriesTypes
  BY Zenon DEF SeriesInv
<1>1. /\ pc[t] = "join" /\ req' = req /\ todo' = todo /\ have' = have /\ got' = got /\ out' = out
      /\ fills' = fills /\ res' = res /\ source' = source /\ target' = target
      /\ persists' = persists /\ fpc' = fpc /\ fbars' = fbars
  BY Zenon DEF Join, store, fetcher
<1>2. PICK q \in {"wait", "fetch"} : pc' = [pc EXCEPT ![t] = q]
  BY Zenon DEF Join
<1>3. /\ pc[t] \in {"join", "wait", "fetch", "settle"} /\ q \in {"wait", "fetch", "settle"}
      /\ q # "settle"
  BY <1>1, <1>2, Zenon
<1>4. /\ source \subseteq source' /\ source' \subseteq Int
      /\ res' \in [Clients -> [ok : BOOLEAN, bars : SUBSET Int]]
      /\ \A u \in Clients \ {t} : res'[u] = res[u]
  BY <1>0, <1>1, Zenon DEF SeriesTypes
<1> QED BY <1>1, <1>2, <1>3, <1>4, MoveKeeps, Zenon

(* The provider answers.                                                   *)
LEMMA ProviderFetchKeeps ==
    ASSUME SeriesInv, Flights', NEW t \in Clients, ProviderFetch(t)
    PROVE  SeriesInv'
<1>0. SeriesTypes
  BY Zenon DEF SeriesInv
<1> DEFINE w == EarliestWindow(todo[t])
<1>1. /\ pc[t] = "fetch" /\ pc' = [pc EXCEPT ![t] = "settle"]
      /\ req' = req /\ todo' = todo /\ have' = have /\ got' = got /\ out' = out
      /\ fills' = fills /\ target' = target
      /\ persists' = persists /\ fpc' = fpc /\ fbars' = fbars
  BY Zenon DEF ProviderFetch, fetcher
<1>2. /\ pc[t] \in {"join", "wait", "fetch", "settle"}
      /\ "settle" \in {"wait", "fetch", "settle"}
  BY <1>1, Zenon
<1>3. CASE res' = [res EXCEPT ![t] = Failed] /\ UNCHANGED source
  <2>1. /\ res' \in [Clients -> [ok : BOOLEAN, bars : SUBSET Int]]
        /\ ~res'[t].ok /\ \A u \in Clients \ {t} : res'[u] = res[u]
    BY <1>0, <1>3, Zenon DEF SeriesTypes, Failed
  <2>2. source \subseteq source' /\ source' \subseteq Int
    BY <1>0, <1>3, Zenon DEF SeriesTypes
  <2> QED BY <1>1, <1>2, <2>1, <2>2, MoveKeeps, Zenon
<1>4. CASE \E B \in Delivered(w) :
             /\ source' = IF persists THEN source \cup B ELSE source
             /\ res' = [res EXCEPT ![t] = IF req[t].fail /\ B # Slots(w) THEN Failed ELSE Fetched(B)]
  <2>1. PICK B \in Delivered(w) :
             /\ source' = IF persists THEN source \cup B ELSE source
             /\ res' = [res EXCEPT ![t] = IF req[t].fail /\ B # Slots(w) THEN Failed ELSE Fetched(B)]
    BY <1>4, Zenon
  <2> DEFINE closed == Slots(w) \cap 0 .. now - 1
  <2>2. B \subseteq closed
    <3>1. B \in {closed} \cup IF ProviderGaps THEN {closed \ {b} : b \in closed} ELSE {}
      BY <2>1, Zenon DEF Delivered
    <3> HIDE DEF closed
    <3> QED BY <3>1, Zenon
  <2>3. B \subseteq Slots(w) /\ B \subseteq Int
    <3>1. closed \subseteq Slots(w) /\ closed \subseteq Int
      BY DEF Slots
    <3> HIDE DEF closed
    <3> QED BY <2>2, <3>1, Zenon
  <2> HIDE DEF closed, w
  <2>4. source \subseteq source' /\ source' \subseteq Int
    BY <1>0, <2>1, <2>3, Zenon DEF SeriesTypes
  <2> DEFINE x == IF req[t].fail /\ B # Slots(w) THEN Failed ELSE Fetched(B)
  <2>5. /\ x \in [ok : BOOLEAN, bars : SUBSET Int]
        /\ x.ok => x.bars \subseteq Slots(w) /\ (req[t].fail => x.bars = Slots(w))
    <3>1. CASE req[t].fail /\ B # Slots(w)
      <4>1. x = Failed
        BY <3>1, Zenon
      <4>2. Failed \in [ok : BOOLEAN, bars : SUBSET Int] /\ ~Failed.ok
        BY Zenon DEF Failed
      <4> QED BY <4>1, <4>2, Zenon
    <3>2. CASE ~(req[t].fail /\ B # Slots(w))
      <4>1. x = Fetched(B)
        BY <3>2, Zenon
      <4>2. Fetched(B) \in [ok : BOOLEAN, bars : SUBSET Int] /\ Fetched(B).bars = B
        BY <2>3, Zenon DEF Fetched
      <4>3. Fetched(B).bars \subseteq Slots(w) /\ (req[t].fail => Fetched(B).bars = Slots(w))
        BY <2>3, <3>2, <4>2, Zenon
      <4> QED BY <4>1, <4>2, <4>3, Zenon
    <3> QED BY <3>1, <3>2, Zenon
  <2>6. res' = [res EXCEPT ![t] = x]
    BY <2>1, Zenon
  <2> HIDE DEF x
  <2>7. /\ res' \in [Clients -> [ok : BOOLEAN, bars : SUBSET Int]]
        /\ res'[t] = x /\ \A u \in Clients \ {t} : res'[u] = res[u]
    BY <1>0, <2>5, <2>6, Zenon DEF SeriesTypes
  <2>8. res'[t].ok => /\ res'[t].bars \subseteq Slots(EarliestWindow(todo[t]))
                      /\ req[t].fail => res'[t].bars = Slots(EarliestWindow(todo[t]))
    BY <2>5, <2>7, Zenon DEF w
  <2> QED BY <1>1, <1>2, <2>4, <2>7, <2>8, MoveKeeps, Zenon
<1> QED BY <1>3, <1>4, Zenon DEF ProviderFetch

(* The flight is settled, for its owner and for those who wait.            *)
LEMMA SettleFlightKeeps ==
    ASSUME SeriesInv, Flights', NEW t \in Clients, SettleFlight(t)
    PROVE  SeriesInv'
<1>0. SeriesTypes
  BY Zenon DEF SeriesInv
<1> DEFINE served == {u \in Waiters(t) : Query(u) = Query(t)}
<1>1. /\ pc[t] = "settle"
      /\ res' = [u \in Clients |-> IF u \in served THEN res[t] ELSE res[u]]
      /\ pc'  = [u \in Clients |-> IF u \in served \cup {t} THEN "got"
                                   ELSE IF u \in Waiters(t) THEN "join" ELSE pc[u]]
      /\ req' = req /\ todo' = todo /\ have' = have /\ got' = got /\ out' = out
      /\ fills' = fills /\ source' = source /\ target' = target
      /\ persists' = persists /\ fpc' = fpc /\ fbars' = fbars
  BY Zenon DEF SettleFlight, store, fetcher
<1>2. \A u \in Waiters(t) : u \in Clients /\ pc[u] = "wait"
  BY Zenon DEF Waiters
<1>3. SeriesTypes'
  <2> HIDE DEF served
  <2> QED BY <1>0, <1>1, Zenon DEF SeriesTypes
<1>4. ASSUME NEW u \in Clients
      PROVE  \/ pc'[u] = pc[u] /\ res'[u] = res[u]
             \/ pc[u] = "wait" /\ pc'[u] = "join"
             \/ u = t /\ pc'[u] = "got" /\ res'[u] = res[u]
             \/ u \in served /\ pc[u] = "wait" /\ pc'[u] = "got" /\ res'[u] = res[t]
  <2>1. u \in served => u \in Waiters(t)
    BY Zenon
  <2> HIDE DEF served
  <2> QED BY <1>1, <1>2, <2>1, Zenon
<1>5. \A u \in Clients : LoadOK(u)'
  <2> SUFFICES ASSUME NEW u \in Clients PROVE LoadOK(u)'
    BY Zenon
  <2>1. LoadOK(u) /\ LoadOK(t)
    BY Zenon DEF SeriesInv
  <2>2. CASE pc'[u] = pc[u] /\ res'[u] = res[u]
    BY <1>1, <2>1, <2>2, Zenon DEF LoadOK
  <2>3. CASE pc[u] = "wait" /\ pc'[u] = "join"
    BY <1>1, <2>1, <2>3, Zenon DEF LoadOK
  <2>4. CASE u = t /\ pc'[u] = "got" /\ res'[u] = res[u]
    BY <1>1, <2>1, <2>4, Zenon DEF LoadOK
  <2>5. CASE u \in served /\ pc[u] = "wait" /\ pc'[u] = "got" /\ res'[u] = res[t]
    <3>1. Query(u) = Query(t)
      BY <2>5, Zenon
    <3>2. /\ EarliestWindow(todo[u])[1] = EarliestWindow(todo[t])[1]
          /\ EarliestWindow(todo[u])[2] = EarliestWindow(todo[t])[2]
          /\ req[u].fail = req[t].fail
      BY <3>1, Zenon DEF Query
    <3>3. Slots(EarliestWindow(todo[u])) = Slots(EarliestWindow(todo[t]))
      BY <3>2, Zenon DEF Slots
    <3>4. res[t].ok => /\ res[t].bars \subseteq Slots(EarliestWindow(todo[u]))
                       /\ req[u].fail => res[t].bars = Slots(EarliestWindow(todo[u]))
      BY <1>1, <2>1, <3>2, <3>3, Zenon DEF LoadOK
    <3> HIDE DEF served
    <3> QED BY <1>1, <2>1, <2>5, <3>4, Zenon DEF LoadOK
  <2> HIDE DEF served
  <2> QED BY <1>4, <2>2, <2>3, <2>4, <2>5, Zenon
<1>6. \A u \in Clients : (Filling(u))' => Filling(u)
  <2> HIDE DEF served
  <2> QED BY <1>1, <1>4, Zenon DEF Filling
<1>7. ASSUME NEW u \in Clients, (Filling(u))'
      PROVE  FillOK(pc'[u], req'[u], todo'[u], got'[u], fills'[req'[u]], source', target')
  <2> HIDE DEF served
  <2>1. FillOK(pc[u], req[u], todo[u], got[u], fills[req[u]], source, target)
    BY <1>6, <1>7, Zenon DEF SeriesInv
  <2>2. pc'[u] = pc[u] \/ (pc[u] \notin {"store", "derive"} /\ pc'[u] \notin {"store", "derive"})
    BY <1>1, <1>4, Zenon
  <2>3. FillOK(pc'[u], req[u], todo[u], got[u], fills[req[u]], source, target)
    BY <2>1, <2>2, FillMoves, Zenon
  <2> QED BY <1>1, <2>3, Zenon
<1> HIDE DEF served
<1>8. \A u, v \in Clients : (Filling(u) /\ Filling(v) /\ req[u] = req[v] => u = v)'
  BY <1>1, <1>6, Zenon DEF SeriesInv
<1>9. \A r \in Backfills : fills'[r].st = "none" => fills'[r].avail = {}
  BY <1>1, Zenon DEF SeriesInv
<1>10. (BackfillDerivesAll)'
  BY <1>1, DoneIs, DoneIsAfter, Zenon DEF SeriesInv
<1>11. (AggregatesHaveSources)'
  BY <1>1, Zenon DEF AggregatesHaveSources, SeriesInv
<1>12. (FetcherOK)'
  BY <1>1, Zenon DEF SeriesInv, FetcherOK
<1> QED BY <1>3, <1>5, <1>7, <1>8, <1>9, <1>10, <1>11, <1>12, Zenon DEF SeriesInv

(* The bars of the earliest window, which nothing was delivered for, are   *)
(* what is about to be stored.                                             *)
LEMMA FillTakes ==
    ASSUME NEW p, NEW r \in Backfills, NEW W, NEW g, NEW f, NEW S, NEW T, NEW B, NEW f2,
           FillOK(p, r, W, g, f, S, T), p \notin {"store", "derive"},
           B \subseteq Slots(EarliestWindow(W)), f2.st = f.st, f2.avail = f.avail \cup B
    PROVE  FillOK("store", r, W, B, f2, S, T)
<1> DEFINE E == EarliestWindow(W)
           C == Chunks(r.src, r.win)
           A == f.avail
<1>1. /\ f.st = "running" /\ W # {} /\ W \subseteq C /\ A \subseteq S
      /\ \A c \in W : A \cap Slots(c) = {}
      /\ r.src = "target" => \A c \in C \ W : Aggregates(c, A) \subseteq T
  BY Zenon DEF FillOK
<1>2. /\ C \in SUBSET (Nat \X Nat)
      /\ \A c, d \in C : c # d => Slots(c) \cap Slots(d) = {}
  BY BackfillParts, ChunksAre, Zenon
<1>a. B \subseteq Slots(E)
  BY Zenon
<1>3. E \in W
  <2>1. W \in SUBSET (Nat \X Nat)
    BY <1>1, <1>2, Zenon
  <2> QED BY <1>1, <2>1, EarliestIsOne, Zenon
<1> HIDE DEF E, C, A
<1>4. A \cup B \subseteq S \cup B /\ B = (A \cup B) \cap Slots(E)
  BY <1>1, <1>3, <1>a, Zenon
<1>5. \A c \in W : c # E => (A \cup B) \cap Slots(c) = {}
  <2> SUFFICES ASSUME NEW c \in W, c # E PROVE (A \cup B) \cap Slots(c) = {}
    BY Zenon
  <2>1. Slots(c) \cap Slots(E) = {}
    BY <1>1, <1>2, <1>3, Zenon
  <2> QED BY <1>1, <1>a, <2>1, Zenon
<1>6. r.src = "target" => \A c \in C \ W : Aggregates(c, A \cup B) \subseteq T
  <2> SUFFICES ASSUME r.src = "target", NEW c \in C \ W PROVE Aggregates(c, A \cup B) \subseteq T
    BY Zenon
  <2>1. Slots(c) \cap Slots(E) = {}
    BY <1>1, <1>2, <1>3, Zenon
  <2>2. Aggregates(c, A \cup B) \subseteq Aggregates(c, A)
    BY <1>a, <2>1, Zenon DEF Aggregates
  <2> QED BY <1>1, <2>2, Zenon
<1>7. "store" \in {"store", "derive"}
  BY Zenon
<1>8. /\ f2.avail \subseteq S \cup (IF "store" = "store" THEN B ELSE {})
      /\ B = f2.avail \cap Slots(EarliestWindow(W))
  BY <1>4, Zenon DEF A, E
<1>9. \A c \in W : c # EarliestWindow(W) \/ "store" \notin {"store", "derive"} =>
                     f2.avail \cap Slots(c) = {}
  BY <1>5, <1>7, Zenon DEF A, E
<1>10. r.src = "target" => \A c \in Chunks(r.src, r.win) \ W : Aggregates(c, f2.avail) \subseteq T
  BY <1>6, Zenon DEF A, C
<1>11. f2.st = "running" /\ W # {} /\ W \subseteq Chunks(r.src, r.win)
  BY <1>1, Zenon DEF C
<1> QED BY <1>8, <1>9, <1>10, <1>11, Zenon DEF FillOK

(* When the bars and aggregates of the earliest window are stored, so are  *)
(* those of the chunks behind, and of the whole backfill after the last.   *)
LEMMA FillAdvances ==
    ASSUME NEW p \in {"store", "derive"}, NEW r \in Backfills, NEW W, NEW g, NEW f, NEW S, NEW T,
           NEW S2, NEW T2, NEW g2, FillOK(p, r, W, g, f, S, T), T \subseteq T2, f.avail \subseteq S2,
           r.src = "target" => Aggregates(EarliestWindow(W), f.avail) \subseteq T2
    PROVE  /\ W \ {EarliestWindow(W)} # {} =>
                FillOK("join", r, W \ {EarliestWindow(W)}, g2, f, S2, T2)
           /\ W \ {EarliestWindow(W)} = {} /\ r.src = "target" =>
                Aggregates(r.win, f.avail) \subseteq T2
<1> DEFINE E == EarliestWindow(W)
           C == Chunks(r.src, r.win)
           A == f.avail
<1>1. /\ f.st = "running" /\ W # {} /\ W \subseteq C
      /\ \A c \in W : c # E => A \cap Slots(c) = {}
      /\ r.src = "target" => \A c \in C \ W : Aggregates(c, A) \subseteq T
  BY Zenon DEF FillOK
<1>2. r.src = "target" => \A c \in C \ (W \ {E}) : Aggregates(c, A) \subseteq T2
  <2>1. \A c \in C \ (W \ {E}) : c = E \/ c \in C \ W
    BY Zenon
  <2> QED BY <1>1, <2>1, Zenon
<1>3. ASSUME W \ {E} # {} PROVE FillOK("join", r, W \ {E}, g2, f, S2, T2)
  <2>1. W \ {E} \subseteq C /\ \A c \in W \ {E} : A \cap Slots(c) = {}
    BY <1>1, Zenon
  <2>2. "join" \notin {"store", "derive"} /\ "join" # "store"
    BY Zenon
  <2>3. f.avail \subseteq S2 \cup (IF "join" = "store" THEN g2 ELSE {})
    BY Zenon
  <2> HIDE DEF E
  <2> QED BY <1>1, <1>2, <1>3, <2>1, <2>2, <2>3, Zenon DEF FillOK
<1>4. ASSUME W \ {E} = {}, r.src = "target" PROVE Aggregates(r.win, A) \subseteq T2
  <2>1. \A c \in C : Aggregates(c, A) \subseteq T2
    BY <1>2, <1>4, Zenon
  <2>2. r.win \in Nat \X Nat /\ r.win[1] < r.win[2]
    BY BackfillParts, Zenon
  <2> SUFFICES ASSUME NEW k \in Aggregates(r.win, A) PROVE k \in T2
    BY Zenon
  <2>3. k \in Targets /\ Window(k) \subseteq Slots(r.win) /\ Window(k) \subseteq A
    BY Zenon DEF Aggregates
  <2>4. PICK c \in Chunks("target", r.win) : Window(k) \subseteq Slots(c)
    BY <2>2, <2>3, ChunksKeepTargets, Zenon
  <2>5. k \in Aggregates(c, A)
    BY <2>3, <2>4, Zenon DEF Aggregates
  <2> QED BY <1>4, <2>1, <2>4, <2>5, Zenon
<1> QED BY <1>3, <1>4, Zenon

(* A thread goes on with the result.                                       *)
LEMMA TakeKeeps ==
    ASSUME SeriesInv, Flights', NEW t \in Clients, Take(t)
    PROVE  SeriesInv'
<1>0. SeriesTypes
  BY Zenon DEF SeriesInv
<1> DEFINE rest == todo[t] \ {EarliestWindow(todo[t])}
<1>1. /\ pc[t] = "got" /\ res' = [res EXCEPT ![t] = Failed]
      /\ req' = req /\ source' = source /\ target' = target
      /\ persists' = persists /\ fpc' = fpc /\ fbars' = fbars
  BY Zenon DEF Take, store, fetcher
<1>2. /\ res' \in [Clients -> [ok : BOOLEAN, bars : SUBSET Int]]
      /\ ~res'[t].ok /\ \A u \in Clients \ {t} : res'[u] = res[u]
  BY <1>0, <1>1, Zenon DEF SeriesTypes, Failed
<1>3. /\ source \subseteq source' /\ source' \subseteq Int /\ target \subseteq target'
      /\ pc[t] # "idle" /\ req'[t] = req[t]
  BY <1>0, <1>1, Zenon DEF SeriesTypes
<1>4. (AggregatesHaveSources)'
  BY <1>1, Zenon DEF AggregatesHaveSources, SeriesInv
<1>5. \A u \in Clients \ {t} : Filling(u) => req[u] # req[t]
  BY <1>3, OwnBackfill, Zenon
<1>6. LoadOK(t)
  BY Zenon DEF SeriesInv
<1>7. CASE Raise(t)
  BY <1>1, <1>2, <1>3, <1>7, RaiseKeeps, Zenon
<1>8. CASE /\ res[t].ok /\ req[t].op = "load"
           /\ got' = [got EXCEPT ![t] = @ \cup res[t].bars]
           /\ todo' = [todo EXCEPT ![t] = rest]
           /\ pc' = [pc EXCEPT ![t] = IF rest = {} THEN "merge" ELSE "join"]
           /\ UNCHANGED <<have, out, fills>>
  <2>1. rest \in SUBSET (Nat \X Nat) /\ got[t] \cup res[t].bars \in SUBSET Int
    BY <1>0, Zenon DEF SeriesTypes
  <2> HIDE DEF rest
  <2>2. SeriesTypes'
    BY <1>0, <1>1, <1>2, <1>8, <2>1, Zenon DEF SeriesTypes
  <2>3. \A u \in Clients \ {t} :
          /\ pc'[u] = pc[u] /\ req'[u] = req[u] /\ todo'[u] = todo[u]
          /\ got'[u] = got[u] /\ res'[u] = res[u] /\ out'[u] = out[u]
    BY <1>0, <1>1, <1>2, <1>8, SMTT(30) DEF SeriesTypes, SeriesInv, Flights
  <2>4. pc'[t] \in {"merge", "join"} /\ out' = out /\ fills' = fills
    BY <1>8, Zenon DEF SeriesInv, Flights
  <2>5. LoadOK(t)' /\ ~(Filling(t))'
    BY <1>1, <1>2, <1>6, <1>8, <2>4, Zenon DEF LoadOK, Filling
  <2>6. req[t] \notin Backfills
    BY <1>8, RequestTypes, Zenon
  <2> QED BY <1>1, <1>3, <1>4, <1>5, <2>2, <2>3, <2>4, <2>5, <2>6, OneThread, Zenon
<1>9. CASE /\ res[t].ok /\ req[t].op = "backfill"
           /\ got' = [got EXCEPT ![t] = res[t].bars]
           /\ pc' = [pc EXCEPT ![t] = "store"]
           /\ fills' = [fills EXCEPT ![req[t]].avail = @ \cup res[t].bars]
           /\ UNCHANGED <<have, todo, out>>
  <2> DEFINE r == req[t]
  <2>1. r \in Backfills
    BY <1>9, RequestTypes, Zenon
  <2>2. res[t].bars \in SUBSET Int
    BY <1>0, Zenon DEF SeriesTypes
  <2>3. fills' \in [Backfills -> [st : {"none", "running", "done", "failed", "skipped"},
                                  avail : SUBSET Int]]
    BY <1>0, <1>9, <2>1, <2>2 DEF SeriesTypes
  <2>4. SeriesTypes'
    BY <1>0, <1>1, <1>2, <1>9, <2>2, <2>3, Zenon DEF SeriesTypes
  <2>5. \A u \in Clients \ {t} :
          /\ pc'[u] = pc[u] /\ req'[u] = req[u] /\ todo'[u] = todo[u]
          /\ got'[u] = got[u] /\ res'[u] = res[u] /\ out'[u] = out[u]
    BY <1>0, <1>1, <1>2, <1>9 DEF SeriesTypes, SeriesInv, Flights
  <2>6. pc'[t] = "store" /\ out' = out /\ got'[t] = res[t].bars /\ todo'[t] = todo[t]
    BY <1>0, <1>9, Zenon DEF SeriesTypes, SeriesInv, Flights
  <2>7. LoadOK(t)'
    BY <1>1, <1>6, <1>9, <2>6, Zenon DEF LoadOK
  <2>8. /\ \A x \in Backfills : x # r => fills'[x] = fills[x]
        /\ fills'[r].st = fills[r].st /\ fills'[r].avail = fills[r].avail \cup res[t].bars
    BY <1>0, <1>9, <2>1, Zenon DEF SeriesTypes
  <2>9. FillOK("got", r, todo[t], got[t], fills[r], source, target)
    <3>1. Filling(t)
      BY <1>1, <1>9, Zenon DEF Filling
    <3> QED BY <1>1, <3>1, Zenon DEF SeriesInv
  <2>10. res[t].bars \subseteq Slots(EarliestWindow(todo[t]))
    BY <1>1, <1>6, <1>9, Zenon DEF LoadOK
  <2>11. "got" \notin {"store", "derive"}
    BY Zenon
  <2>12. FillOK("store", r, todo[t], res[t].bars, fills'[r], source, target)
    BY <2>1, <2>8, <2>9, <2>10, <2>11, FillTakes, Zenon
  <2>13. fills'[r].st = "running"
    BY <2>12, Zenon DEF FillOK
  <2>14. DoneOK(r, fills'[r], source', target') /\ fills'[r].st # "none"
    BY <2>13, Zenon DEF DoneOK
  <2> QED BY <1>1, <1>3, <1>4, <1>5, <2>4, <2>5, <2>6, <2>7, <2>8, <2>12, <2>14, OneThread, Zenon
<1> QED BY <1>7, <1>8, <1>9, Zenon DEF Take

(* A load merges what it read and what it was given.                       *)
LEMMA MergeSeriesKeeps ==
    ASSUME SeriesInv, Flights', NEW t \in Clients, MergeSeries(t)
    PROVE  SeriesInv'
<1>0. SeriesTypes
  BY Zenon DEF SeriesInv
<1>1. /\ pc[t] = "merge" /\ res' = res /\ req' = req /\ target' = target
      /\ persists' = persists /\ fpc' = fpc /\ fbars' = fbars
  BY Zenon DEF MergeSeries, fetcher
<1>2. pc[t] # "idle" /\ req[t].op = "load"
  BY <1>1, Zenon DEF SeriesInv, LoadOK
<1>3. /\ res' \in [Clients -> [ok : BOOLEAN, bars : SUBSET Int]]
      /\ \A u \in Clients \ {t} : res'[u] = res[u]
  BY <1>0, <1>1, Zenon DEF SeriesTypes
<1>4. source \subseteq source' /\ source' \subseteq Int
  <2>1. source \subseteq Int /\ got[t] \subseteq Int
    BY <1>0, Zenon DEF SeriesTypes
  <2>2. source' = source \/ source' = source \cup got[t]
    BY Zenon DEF MergeSeries
  <2> QED BY <2>1, <2>2, Zenon
<1>5. CASE Raise(t)
  BY <1>1, <1>2, <1>3, <1>4, <1>5, RaiseKeeps, Zenon
<1>6. CASE /\ ~(req[t].fail /\ have[t] \cup got[t] # Slots(req[t].win))
           /\ Return(t, have[t] \cup got[t]) /\ UNCHANGED fills
  BY <1>1, <1>2, <1>4, <1>6, ReturnKeeps, Zenon
<1> QED BY <1>5, <1>6, Zenon DEF MergeSeries

(* A backfill whose earliest window is stored goes on with the next one,   *)
(* or is done.                                                             *)
LEMMA NextChunkKeeps ==
    ASSUME SeriesInv, Flights', NEW t \in Clients, NextChunk(t), pc[t] \in {"store", "derive"},
           req' = req, res' = res, persists' = persists, fpc' = fpc, fbars' = fbars,
           source \subseteq source', target \subseteq target', (AggregatesHaveSources)',
           source' \subseteq Int, target' \subseteq Targets,
           fills[req[t]].avail \subseteq source',
           req[t].src = "target" =>
             Aggregates(EarliestWindow(todo[t]), fills[req[t]].avail) \subseteq target'
    PROVE  SeriesInv'
<1>0. SeriesTypes
  BY Zenon DEF SeriesInv
<1> DEFINE rest == todo[t] \ {EarliestWindow(todo[t])}
           r == req[t]
<1>1. r \in Backfills /\ Filling(t) /\ pc[t] # "idle"
  <2>1. pc[t] # "idle"
    BY Zenon
  <2>2. req[t].op = "backfill"
    BY Zenon DEF SeriesInv, LoadOK
  <2> QED BY <2>1, <2>2, RequestTypes, Zenon DEF Filling
<1>2. FillOK(pc[t], r, todo[t], got[t], fills[r], source, target)
  BY <1>1, Zenon DEF SeriesInv
<1>3. /\ rest # {} => FillOK("join", r, rest, got[t], fills[r], source', target')
      /\ rest = {} /\ r.src = "target" => Aggregates(r.win, fills[r].avail) \subseteq target'
  BY <1>1, <1>2, FillAdvances, Zenon
<1>4. CASE rest = {} /\ Finish(t, "done") /\ fills' = [fills EXCEPT ![req[t]].st = "done"]
  <2> HIDE DEF rest
  <2>1. fills' \in [Backfills -> [st : {"none", "running", "done", "failed", "skipped"},
                                  avail : SUBSET Int]]
    BY <1>0, <1>1, <1>4 DEF SeriesTypes
  <2>2. /\ \A x \in Backfills : x # r => fills'[x] = fills[x]
        /\ fills'[r].st = "done" /\ fills'[r].avail = fills[r].avail
    BY <1>0, <1>1, <1>4, Zenon DEF SeriesTypes
  <2>3. fills'[r].st # "none"
    BY <2>2, Zenon
  <2>4. DoneOK(r, fills'[r], source', target')
    BY <1>3, <1>4, <2>2, Zenon DEF DoneOK
  <2>5. /\ "done" \in {"none", "complete", "partial", "done", "error", "skipped"}
        /\ "done" # "partial"
    BY Zenon
  <2>6. /\ res' \in [Clients -> [ok : BOOLEAN, bars : SUBSET Int]]
        /\ \A u \in Clients \ {t} : res'[u] = res[u]
    BY <1>0, Zenon DEF SeriesTypes
  <2> QED BY <1>1, <1>4, <2>1, <2>2, <2>3, <2>4, <2>5, <2>6, FinishKeeps, Zenon
<1>5. CASE /\ rest # {} /\ todo' = [todo EXCEPT ![t] = rest]
           /\ pc' = [pc EXCEPT ![t] = "join"]
           /\ UNCHANGED <<have, got, out, fills>>
  <2>1. rest \in SUBSET (Nat \X Nat)
    BY <1>0, Zenon DEF SeriesTypes
  <2>a. FillOK("join", r, rest, got[t], fills[r], source', target')
    BY <1>3, <1>5, Zenon
  <2> HIDE DEF rest
  <2>2. SeriesTypes'
    BY <1>0, <1>5, <2>1, Zenon DEF SeriesTypes
  <2>3. \A u \in Clients \ {t} :
          /\ pc'[u] = pc[u] /\ req'[u] = req[u] /\ todo'[u] = todo[u]
          /\ got'[u] = got[u] /\ res'[u] = res[u] /\ out'[u] = out[u]
    BY <1>0, <1>5 DEF SeriesTypes, SeriesInv, Flights
  <2>4. /\ pc'[t] = "join" /\ todo'[t] = rest /\ out' = out /\ fills' = fills
        /\ got'[t] = got[t] /\ req'[t] = r
    BY <1>0, <1>5, Zenon DEF SeriesTypes, SeriesInv, Flights
  <2>5. LoadOK(t)
    BY Zenon DEF SeriesInv
  <2>6. LoadOK(t)'
    BY <2>4, <2>5, Zenon DEF LoadOK
  <2>7. fills[r].st = "running"
    BY <1>2, Zenon DEF FillOK
  <2>8. DoneOK(r, fills'[r], source', target') /\ fills'[r].st # "none"
    BY <2>4, <2>7, Zenon DEF DoneOK
  <2>9. \A u \in Clients \ {t} : Filling(u) => req[u] # r
    BY <1>1, OwnBackfill, Zenon
  <2> QED BY <2>2, <2>3, <2>4, <2>6, <2>8, <2>9, <2>a, OneThread, Zenon
<1> QED BY <1>4, <1>5, Zenon DEF NextChunk

(* A backfill stores its bars.                                             *)
LEMMA StoreSourceKeeps ==
    ASSUME SeriesInv, Flights', NEW t \in Clients, StoreSource(t)
    PROVE  SeriesInv'
<1>0. SeriesTypes
  BY Zenon DEF SeriesInv
<1>1. /\ pc[t] = "store" /\ res' = res /\ req' = req /\ target' = target
      /\ persists' = persists /\ fpc' = fpc /\ fbars' = fbars
  BY Zenon DEF StoreSource, fetcher
<1> DEFINE r == req[t]
<1>2. pc[t] # "idle" /\ pc[t] \in {"store", "derive"} /\ r.op = "backfill"
  BY <1>1, Zenon DEF SeriesInv, LoadOK
<1>3. r \in Backfills
  BY <1>2, RequestTypes, Zenon
<1>4. FillOK("store", r, todo[t], got[t], fills[r], source, target)
  BY <1>1, <1>2, Zenon DEF SeriesInv, Filling
<1>5. /\ res' \in [Clients -> [ok : BOOLEAN, bars : SUBSET Int]]
      /\ \A u \in Clients \ {t} : res'[u] = res[u]
  BY <1>0, <1>1, Zenon DEF SeriesTypes
<1>6. CASE Raise(t) /\ UNCHANGED source
  <2>1. source \subseteq source' /\ source' \subseteq Int
    BY <1>0, <1>6, Zenon DEF SeriesTypes
  <2> QED BY <1>1, <1>2, <1>5, <1>6, <2>1, RaiseKeeps, Zenon
<1>7. ASSUME source' = source \cup got[t]
      PROVE  /\ source \subseteq source' /\ source' \subseteq Int
             /\ target \subseteq target' /\ target' \subseteq Targets
             /\ fills[r].avail \subseteq source' /\ (AggregatesHaveSources)'
  <2>1. source \subseteq Int /\ got[t] \subseteq Int /\ target \subseteq Targets
    BY <1>0, Zenon DEF SeriesTypes
  <2>2. fills[r].avail \subseteq source \cup got[t]
    BY <1>4, Zenon DEF FillOK
  <2>3. source \subseteq source'
    BY <1>7, Zenon
  <2>4. (AggregatesHaveSources)'
    BY <1>1, <2>3, Zenon DEF AggregatesHaveSources, SeriesInv
  <2> QED BY <1>1, <1>7, <2>1, <2>2, <2>4, Zenon
<1>8. CASE source' = source \cup got[t] /\ req[t].src = "source" /\ NextChunk(t)
  <2>1. req[t].src # "target"
    BY <1>8, Zenon
  <2> QED BY <1>1, <1>2, <1>7, <1>8, <2>1, NextChunkKeeps, Zenon
<1>9. CASE /\ source' = source \cup got[t]
           /\ pc' = [pc EXCEPT ![t] = "derive"] /\ UNCHANGED <<todo, have, got, out, fills>>
  <2>1. SeriesTypes'
    BY <1>0, <1>1, <1>7, <1>9, Zenon DEF SeriesTypes
  <2>2. \A u \in Clients \ {t} :
          /\ pc'[u] = pc[u] /\ req'[u] = req[u] /\ todo'[u] = todo[u]
          /\ got'[u] = got[u] /\ res'[u] = res[u] /\ out'[u] = out[u]
    BY <1>0, <1>1, <1>9, Zenon DEF SeriesTypes, SeriesInv, Flights
  <2>3. /\ pc'[t] = "derive" /\ todo'[t] = todo[t] /\ out' = out /\ fills' = fills
        /\ got'[t] = got[t] /\ req'[t] = r
    BY <1>1, <1>9, Zenon DEF SeriesInv, Flights
  <2>4. LoadOK(t)
    BY Zenon DEF SeriesInv
  <2>5. LoadOK(t)'
    BY <1>2, <1>9, <2>3, <2>4, Zenon DEF LoadOK
  <2>6. FillOK("derive", r, todo[t], got[t], fills[r], source', target)
    <3>1. fills[r].avail \subseteq source' \cup (IF "derive" = "store" THEN got[t] ELSE {})
      BY <1>7, <1>9, Zenon
    <3>2. "store" \in {"store", "derive"} /\ "derive" \in {"store", "derive"}
      BY Zenon
    <3> QED BY <1>4, <3>1, <3>2, Zenon DEF FillOK
  <2>7. fills[r].st = "running"
    BY <1>4, Zenon DEF FillOK
  <2>8. DoneOK(r, fills'[r], source', target') /\ fills'[r].st # "none"
    BY <2>3, <2>7, Zenon DEF DoneOK
  <2>9. \A u \in Clients \ {t} : Filling(u) => req[u] # r
    BY <1>2, OwnBackfill, Zenon
  <2> QED BY <1>1, <1>7, <1>9, <2>1, <2>2, <2>3, <2>5, <2>6, <2>8, <2>9, OneThread, Zenon
<1> QED BY <1>6, <1>8, <1>9, Zenon DEF StoreSource

(* A backfill stores its aggregates.                                       *)
LEMMA StoreTargetKeeps ==
    ASSUME SeriesInv, Flights', NEW t \in Clients, StoreTarget(t)
    PROVE  SeriesInv'
<1>0. SeriesTypes
  BY Zenon DEF SeriesInv
<1> DEFINE r == req[t]
           derived == Aggregates(EarliestWindow(todo[t]), got[t])
<1>1. /\ pc[t] = "derive" /\ res' = res /\ req' = req /\ source' = source
      /\ persists' = persists /\ fpc' = fpc /\ fbars' = fbars
  BY Zenon DEF StoreTarget, fetcher
<1>2. pc[t] # "idle" /\ pc[t] \in {"store", "derive"} /\ r.op = "backfill" /\ got[t] \subseteq source
  BY <1>1, Zenon DEF SeriesInv, LoadOK
<1>3. FillOK("derive", r, todo[t], got[t], fills[r], source, target)
  BY <1>1, <1>2, Zenon DEF SeriesInv, Filling
<1>4. /\ res' \in [Clients -> [ok : BOOLEAN, bars : SUBSET Int]]
      /\ \A u \in Clients \ {t} : res'[u] = res[u]
      /\ source \subseteq source' /\ source' \subseteq Int
  BY <1>0, <1>1, Zenon DEF SeriesTypes
<1>5. CASE Raise(t) /\ UNCHANGED target
  BY <1>1, <1>2, <1>4, <1>5, RaiseKeeps, Zenon
<1>6. CASE target' = target \cup derived /\ NextChunk(t)
  <2>1. derived \subseteq Targets /\ \A k \in derived : Window(k) \subseteq got[t]
    BY Zenon DEF Aggregates
  <2>2. /\ fills[r].avail \subseteq source
        /\ got[t] = fills[r].avail \cap Slots(EarliestWindow(todo[t]))
    <3>1. fills[r].avail \subseteq source \cup (IF "derive" = "store" THEN got[t] ELSE {})
      BY <1>3, Zenon DEF FillOK
    <3>2. "derive" # "store" /\ "derive" \in {"store", "derive"}
      BY Zenon
    <3> QED BY <1>3, <3>1, <3>2, Zenon DEF FillOK
  <2>3. Aggregates(EarliestWindow(todo[t]), fills[r].avail) \subseteq derived
    BY <2>2, Zenon DEF Aggregates
  <2> HIDE DEF derived
  <2>4. target \subseteq target' /\ target' \subseteq Targets
    BY <1>0, <1>6, <2>1, Zenon DEF SeriesTypes
  <2>5. (AggregatesHaveSources)'
    <3>1. persists => \A k \in target : Window(k) \subseteq source
      BY Zenon DEF SeriesInv, AggregatesHaveSources
    <3>2. persists => \A k \in target' : Window(k) \subseteq source
      BY <1>2, <1>6, <2>1, <3>1, Zenon
    <3> QED BY <1>1, <3>2, Zenon DEF AggregatesHaveSources, Window
  <2>6. Aggregates(EarliestWindow(todo[t]), fills[r].avail) \subseteq target'
    BY <1>6, <2>3, Zenon
  <2>7. fills[r].avail \subseteq source'
    BY <1>1, <2>2, Zenon
  <2> QED BY <1>1, <1>2, <1>4, <1>6, <2>4, <2>5, <2>6, <2>7, NextChunkKeeps, Zenon
<1> QED BY <1>5, <1>6, Zenon DEF StoreTarget

(* The steps of the fetcher and of the exchange.                           *)
LEMMA RefreshKeeps ==
    ASSUME SeriesInv, Flights',
           \/ RefreshStarts \/ RefreshLoad \/ RefreshStore \/ RefreshDerive \/ RefreshCrash
           \/ BarCloses \/ UNCHANGED vars
    PROVE  SeriesInv'
<1>0. SeriesTypes
  BY Zenon DEF SeriesInv
<1>1. persists => fpc # "store" /\ (fpc = "derive" => fbars \subseteq source)
  BY Zenon DEF SeriesInv, FetcherOK
<1>2. persists => \A k \in target : Window(k) \subseteq source
  BY Zenon DEF SeriesInv, AggregatesHaveSources
<1>3. ASSUME UNCHANGED <<pc, req, todo, res, have, got, out, fills>>, persists' = persists,
             source \subseteq source', source' \subseteq Int, target' = target, fbars' \subseteq Int,
             persists => fpc' # "store" /\ (fpc' = "derive" => fbars' \subseteq source')
      PROVE  SeriesInv'
  <2>1. SeriesTypes'
    BY <1>0, <1>3, Zenon DEF SeriesTypes
  <2>2. (AggregatesHaveSources)' /\ target \subseteq target'
    BY <1>2, <1>3, Zenon DEF AggregatesHaveSources
  <2>3. (FetcherOK)'
    BY <1>3, Zenon DEF FetcherOK
  <2>4. UNCHANGED <<pc, req, todo, got, res, out, fills>>
    BY <1>3, Zenon
  <2> QED BY <1>3, <2>1, <2>2, <2>3, <2>4, NoThread, Zenon
<1>4. source \subseteq Int /\ target \subseteq Targets /\ fbars \subseteq Int
  BY <1>0, Zenon DEF SeriesTypes
<1>5. CASE RefreshStarts
  <2>1. /\ UNCHANGED <<pc, req, todo, res, have, got, out, fills>> /\ persists' = persists
        /\ source' = source /\ target' = target /\ fbars' = fbars
        /\ fpc' # "store" /\ fpc' # "derive"
    BY <1>5, Zenon DEF RefreshStarts, clients, store
  <2> QED BY <1>3, <1>4, <2>1, Zenon
<1>6. CASE RefreshLoad
  <2>1. /\ UNCHANGED <<pc, req, todo, res, have, got, out, fills>> /\ persists' = persists
        /\ target' = target /\ (persists => fpc' # "store")
    BY <1>6, Zenon DEF RefreshLoad, clients
  <2>2. PICK B \in Delivered(frange) \cup {{}} :
          /\ source' = IF persists THEN source \cup B ELSE source
          /\ fbars' = B
    BY <1>6, Zenon DEF RefreshLoad
  <2>3. B \subseteq Int
    <3> DEFINE closed == Slots(frange) \cap 0 .. now - 1
    <3>1. closed \subseteq Int
      BY DEF Slots
    <3>2. B \in ({closed} \cup IF ProviderGaps THEN {closed \ {b} : b \in closed} ELSE {}) \cup {{}}
      BY <2>2, Zenon DEF Delivered
    <3> HIDE DEF closed
    <3> QED BY <3>1, <3>2, Zenon
  <2>4. /\ source \subseteq source' /\ source' \subseteq Int /\ fbars' \subseteq Int
        /\ persists => fbars' \subseteq source'
    BY <1>4, <2>2, <2>3, Zenon
  <2> QED BY <1>3, <2>1, <2>4, Zenon
<1>7. CASE RefreshStore
  <2>1. /\ UNCHANGED <<pc, req, todo, res, have, got, out, fills>> /\ persists' = persists
        /\ target' = target /\ ~persists
    BY <1>1, <1>7, Zenon DEF RefreshStore, clients
  <2>2. CASE RefreshEnds /\ UNCHANGED source
    <3>1. fbars' = {}
      BY <2>2, Zenon DEF RefreshEnds
    <3> QED BY <1>3, <1>4, <2>1, <2>2, <3>1, Zenon
  <2>3. CASE fbars' = fbars /\ source' = source \cup fbars
    BY <1>3, <1>4, <2>1, <2>3, Zenon
  <2>4. CASE fbars' = fbars /\ source' = source
    BY <1>3, <1>4, <2>1, <2>4, Zenon
  <2> QED BY <1>7, <2>2, <2>3, <2>4, Zenon DEF RefreshStore
<1>8. CASE RefreshDerive
  <2>1. /\ UNCHANGED <<pc, req, todo, res, have, got, out, fills>> /\ persists' = persists
        /\ source' = source /\ fpc = "derive"
    BY <1>8, Zenon DEF RefreshDerive, clients
  <2>2. fbars' = {} /\ fpc' = "sleep"
    BY <1>8, Zenon DEF RefreshDerive, RefreshEnds
  <2>3. PICK D \in SUBSET Targets : /\ target' = target \cup D
                                    /\ persists => \A k \in D : Window(k) \subseteq source
    <3>1. PICK context \in {source, {}} :
            LET derived == {k \in Targets : /\ k * Ratio + Ratio - 1 \in fbars
                                            /\ Window(k) \subseteq context \cup fbars}
                gapless == derived # {} /\ derived = Min(derived) .. Max(derived)
            IN  target' \in {target} \cup IF gapless THEN {target \cup derived} ELSE {}
      BY <1>8, Zenon DEF RefreshDerive
    <3> DEFINE derived == {k \in Targets : /\ k * Ratio + Ratio - 1 \in fbars
                                           /\ Window(k) \subseteq context \cup fbars}
    <3>2. target' = target \/ target' = target \cup derived
      BY <3>1, Zenon
    <3>3. derived \in SUBSET Targets
      BY Zenon
    <3>4. persists => \A k \in derived : Window(k) \subseteq source
      BY <1>1, <2>1, <3>1, Zenon
    <3> HIDE DEF derived
    <3>5. CASE target' = target
      <4>1. {} \in SUBSET Targets /\ target' = target \cup {}
        BY <3>5, Zenon
      <4> QED BY <4>1, Zenon
    <3>6. CASE target' = target \cup derived
      BY <3>3, <3>4, <3>6, Zenon
    <3> QED BY <3>2, <3>5, <3>6, Zenon
  <2>4. SeriesTypes'
    <3>1. target' \subseteq Targets /\ fbars' \subseteq Int
      BY <1>4, <2>2, <2>3, Zenon
    <3> QED BY <1>0, <2>1, <3>1, Zenon DEF SeriesTypes
  <2>5. (AggregatesHaveSources)'
    <3>1. persists => \A k \in target' : Window(k) \subseteq source
      BY <1>2, <2>3, Zenon
    <3> QED BY <2>1, <3>1, Zenon DEF AggregatesHaveSources, Window
  <2>6. (FetcherOK)'
    BY <2>2, Zenon DEF FetcherOK
  <2>7. source \subseteq source' /\ target \subseteq target'
    BY <2>1, <2>3, Zenon
  <2>8. UNCHANGED <<pc, req, todo, got, res, out, fills>>
    BY <2>1, Zenon
  <2> QED BY <2>4, <2>5, <2>6, <2>7, <2>8, NoThread, Zenon
<1>9. CASE RefreshCrash
  <2>1. /\ UNCHANGED <<pc, req, todo, res, have, got, out, fills>> /\ persists' = persists
        /\ source' = source /\ target' = target
    BY <1>9, Zenon DEF RefreshCrash, clients, store
  <2>2. fbars' = {} /\ fpc' # "derive" /\ fpc' # "store"
    BY <1>9, Zenon DEF RefreshCrash, RefreshEnds
  <2> QED BY <1>3, <1>4, <2>1, <2>2, Zenon
<1>10. CASE BarCloses \/ UNCHANGED vars
  <2>1. /\ UNCHANGED <<pc, req, todo, res, have, got, out, fills>> /\ persists' = persists
        /\ source' = source /\ target' = target /\ fbars' = fbars /\ fpc' = fpc
    BY <1>10, Zenon DEF BarCloses, vars, clients, store, fetcher
  <2> QED BY <1>1, <1>3, <1>4, <2>1, Zenon
<1> QED BY <1>5, <1>6, <1>7, <1>8, <1>9, <1>10, Zenon

(* At the start nothing is stored and no load or backfill is under way.     *)
THEOREM SeriesInit == Init => SeriesInv
<1> SUFFICES ASSUME Init PROVE SeriesInv
  BY Zenon
<1>1. Flights
  BY FlightsInit, Zenon
<1>2. SeriesTypes
  BY Zenon DEF Init, SeriesTypes, Failed
<1>3. \A t \in Clients : LoadOK(t) /\ ~Filling(t)
  BY Zenon DEF Init, LoadOK, Filling, NoRequest, Failed
<1>4. /\ \A r \in Backfills : fills[r].st = "none" /\ fills[r].avail = {}
      /\ target = {} /\ fpc = "sleep"
  BY Zenon DEF Init
<1>5. BackfillDerivesAll /\ AggregatesHaveSources /\ FetcherOK
  BY <1>4, Zenon DEF BackfillDerivesAll, AggregatesHaveSources, FetcherOK
<1> QED BY <1>1, <1>2, <1>3, <1>4, <1>5, Zenon DEF SeriesInv

\* Every step of load_bars, of a backfill and of the fetcher keeps the invariant.
THEOREM SeriesStep == SeriesInv /\ [Next]_vars => SeriesInv'
<1> SUFFICES ASSUME SeriesInv, [Next]_vars PROVE SeriesInv'
  BY Zenon
<1>1. Flights'
  BY FlightsStep, Zenon DEF SeriesInv
<1>2. CASE \/ RefreshStarts \/ RefreshLoad \/ RefreshStore \/ RefreshDerive \/ RefreshCrash
           \/ BarCloses \/ UNCHANGED vars
  BY <1>1, <1>2, RefreshKeeps, Zenon
<1>3. ASSUME NEW t \in Clients, ThreadStep(t) PROVE SeriesInv'
  BY <1>1, <1>3, ReadStorageKeeps, JoinKeeps, ProviderFetchKeeps, SettleFlightKeeps, TakeKeeps,
     MergeSeriesKeeps, StoreSourceKeeps, StoreTargetKeeps, Zenon DEF ThreadStep
<1>4. ASSUME NEW t \in Clients, NEW r \in Loads \cup Backfills, Request(t, r) PROVE SeriesInv'
  BY <1>1, <1>4, RequestKeeps, Zenon
<1> QED BY <1>2, <1>3, <1>4, Zenon DEF Next

(* load_bars and the backfills: a load under gap_policy "fail" returns the *)
(* whole window or raises, a backfill that ends well has stored every bar  *)
(* delivered and every target bar of its window, and a stored target bar   *)
(* of a provider that persists has its source bars.                        *)
THEOREM MarketSeriesAreComplete == Spec => []SeriesAreComplete
<1>1. SeriesInv => SeriesAreComplete
  <2> SUFFICES ASSUME SeriesInv PROVE SeriesAreComplete
    BY Zenon
  <2>1. FailLoadsAreComplete
    BY Zenon DEF SeriesInv, LoadOK, FailLoadsAreComplete
  <2> QED BY <2>1, Zenon DEF SeriesInv, SeriesAreComplete
<1> QED BY <1>1, SeriesInit, SeriesStep, PTL DEF Spec
=============================================================================
