---------------------------- MODULE DataInventory ----------------------------
(***************************************************************************)
(* The data page of the gateway (gateway/routes/accounts_data.py): the     *)
(* series of one symbol and timeframe as the inventory finds them in the   *)
(* bar cache, the segment store and the candle manifests, and the routes   *)
(* that refresh and delete a series while loaders in threads and other     *)
(* processes save bars.                                                    *)
(*                                                                         *)
(* A file or row is an entry with the market name as it was saved; times   *)
(* count bars, and an entry has as many rows as bars, so that bar_count,   *)
(* the smaller of the two counts, is the one of unique bars.  A listing    *)
(* reads the three stores one after the other and then merges the ranges   *)
(* it found, one per step.                                                 *)
(***************************************************************************)
EXTENDS Integers, FiniteSets, Sequences

CONSTANTS RawMarkets,   \* market names entries are saved with
          MarketTypeMap,   \* _MARKET_TYPE_MAP: raw market -> the one shown
          Kinds,        \* source kinds of segments; only "trade" elsewhere
          LastBar, MaxSaves   \* bounds: bars, entries saved

ASSUME InventoryAssumption == LastBar \in Nat /\ MaxSaves \in Nat /\ "trade" \in Kinds

VARIABLES entries,    \* entries of the three stores
          saved,      \* entries saved so far
          dirs,       \* directories of the segment store: <<market, kind>>
          deletion,   \* the delete request: [at, series, kinds, found, failed, answer]
          page        \* a listing: [at, series, of, left, merged, counted, unique]

inventoryVars == <<entries, saved, dirs, deletion, page>>

Stores == {"cache", "segments", "manifests"}
EntryType == [store : Stores, market : RawMarkets, kind : Kinds, from : 0..LastBar, to : 0..LastBar, id : 1..MaxSaves]

SeriesOf(e) == [market |-> MarketTypeMap[e.market], kind |-> e.kind]
NoSeries == [market |-> "none", kind |-> "none"]
NoPage == [at |-> "idle", series |-> NoSeries, of |-> {}, left |-> {}, merged |-> <<>>,
           counted |-> 0, unique |-> 0]
NoDeletion == [at |-> "idle", series |-> NoSeries, kinds |-> {}, found |-> {}, failed |-> {}, answer |-> "none"]

SeriesType == [market : {MarketTypeMap[m] : m \in RawMarkets} \cup {"none"}, kind : Kinds \cup {"none"}]
RangeType == [from : 0..LastBar, to : 0..LastBar]

DeletionType == [at : {"idle", "cache", "segments", "dirs", "manifests"}, series : SeriesType,
                 kinds : SUBSET Kinds, found : SUBSET EntryType, failed : SUBSET EntryType,
                 answer : {"none", "500", "deleted"}]
PageType == [at : {"idle", "coalesce", "count", "shown"} \cup Stores, series : SeriesType,
             of : SUBSET EntryType, left : SUBSET EntryType, merged : Seq(RangeType),
             counted : Nat, unique : Nat]

InventoryTypeOK ==
  /\ entries \subseteq EntryType /\ saved \in 0..MaxSaves
  /\ dirs \subseteq RawMarkets \X Kinds
  /\ deletion \in DeletionType /\ page \in PageType

InventoryInit ==
  /\ entries = {} /\ saved = 0 /\ dirs = {} /\ deletion = NoDeletion /\ page = NoPage

-----------------------------------------------------------------------------
(* The inventory.                                                          *)

Listed == {SeriesOf(e) : e \in entries}
EntriesOf(s) == {e \in entries : SeriesOf(e) = s}

\* _data_series_inventory: the stores are read one after the other, while entries are
\* saved and deleted; the groups of a series hold its ranges.
ListSeries(s) ==
  /\ page.at \in {"idle", "shown"}
  /\ page' = [NoPage EXCEPT !.at = "cache", !.series = s]
  /\ UNCHANGED <<entries, saved, dirs, deletion>>

AfterStore == [cache |-> "segments", segments |-> "manifests", manifests |-> "coalesce"]
ReadStore ==
  /\ page.at \in Stores
  /\ LET found == {e \in EntriesOf(page.series) : e.store = page.at}
     IN  page' = [page EXCEPT !.at = AfterStore[page.at], !.of = @ \cup found, !.left = @ \cup found]
  /\ UNCHANGED <<entries, saved, dirs, deletion>>

\* Mutant: neighbouring ranges are left apart, and a shorter range cuts the one it lies in.
Merge_Touch(merged, e) ==
  IF merged = <<>> \/ e.from > merged[Len(merged)].to
  THEN Append(merged, [from |-> e.from, to |-> e.to])
  ELSE [merged EXCEPT ![Len(merged)].to = e.to]

\* _coalesce_ranges: an interval that starts at most one bar after the last merged one
\* extends it.
Merge(merged, e) ==
  IF merged = <<>> \/ e.from > merged[Len(merged)].to + 1
  THEN Append(merged, [from |-> e.from, to |-> e.to])
  ELSE [merged EXCEPT ![Len(merged)].to = IF e.to > @ THEN e.to ELSE @]

\* The intervals are taken in the order of their first bar.
CoalesceRange ==
  /\ page.at = "coalesce"
  /\ \E e \in page.left :
       /\ \A x \in page.left : e.from <= x.from
       /\ page' = [page EXCEPT !.left = @ \ {e}, !.merged = Merge(@, e)]
  /\ UNCHANGED <<entries, saved, dirs, deletion>>

Coalesced ==
  /\ page.at = "coalesce" /\ page.left = {}
  /\ page' = [page EXCEPT !.at = "count"]
  /\ UNCHANGED <<entries, saved, dirs, deletion>>

\* _estimate_unique_bars of the coalesced ranges, which are apart and stay as they are.
CountRange ==
  /\ page.at = "count" /\ page.counted < Len(page.merged)
  /\ LET r == page.merged[page.counted + 1]
     IN  page' = [page EXCEPT !.counted = @ + 1, !.unique = @ + (r.to - r.from) + 1]
  /\ UNCHANGED <<entries, saved, dirs, deletion>>

ShowSeries ==
  /\ page.at = "count" /\ page.counted = Len(page.merged)
  /\ page' = [page EXCEPT !.at = "shown"]
  /\ UNCHANGED <<entries, saved, dirs, deletion>>

-----------------------------------------------------------------------------
(* Entries appear.                                                         *)

Save(store, m, k, f, t) ==
  /\ saved < MaxSaves /\ f <= t
  /\ k = "trade" \/ store = "segments"
  /\ saved' = saved + 1
  /\ entries' = entries \cup {[store |-> store, market |-> m, kind |-> k, from |-> f, to |-> t, id |-> saved + 1]}
  /\ dirs' = IF store = "segments" THEN dirs \cup {<<m, k>>} ELSE dirs
  /\ UNCHANGED <<deletion, page>>

\* refresh_data_series loads the bars after the newest one under the market shown.
RefreshSeries(s) ==
  \E latest \in EntriesOf(s) :
    /\ \A e \in EntriesOf(s) : e.to <= latest.to
    /\ latest.to < LastBar
    /\ s.market \in RawMarkets
    /\ Save("segments", s.market, "trade", latest.to + 1, LastBar)

-----------------------------------------------------------------------------
(* delete_data_series: three stores, one after the other.                  *)

DeleteFind(s) ==
  /\ deletion.at = "idle" /\ s \in Listed
  /\ deletion' = [at |-> "cache", series |-> s, kinds |-> {e.kind : e \in {x \in EntriesOf(s) : x.store = "segments"}},
                  found |-> EntriesOf(s), failed |-> {}, answer |-> "none"]
  /\ UNCHANGED <<entries, saved, dirs, page>>

\* The entries that could not be deleted are only logged.
Delete(all, gone, step) ==
  /\ entries' = entries \ gone
  /\ deletion' = [deletion EXCEPT !.at = step, !.failed = @ \cup (all \ gone)]
  /\ UNCHANGED <<saved, dirs, page>>

\* _delete_persistent_cache_series: by market, file by file.
CacheFiles == {e \in entries : e.store = "cache" /\ e.market = deletion.series.market}
DeleteCacheFiles ==
  /\ deletion.at = "cache"
  /\ \E gone \in SUBSET CacheFiles : Delete(CacheFiles, gone, "segments")

\* _delete_marketdata_segment_series: the rows of the index, of every kind, at once.
SegmentRows == {e \in entries : e.store = "segments" /\ e.market = deletion.series.market}
DeleteSegmentRows ==
  /\ deletion.at = "segments"
  /\ \E gone \in {{}, SegmentRows} : Delete(SegmentRows, gone, "dirs")

DeleteSegmentDirs ==
  /\ deletion.at = "dirs"
  /\ dirs' = dirs \ {<<deletion.series.market, k>> : k \in deletion.kinds \cup {"trade"}}
  /\ deletion' = [deletion EXCEPT !.at = "manifests"]
  /\ UNCHANGED <<entries, saved, page>>

\* A directory or partition that cannot be moved ends the request with a 500.
DeleteRaises ==
  /\ deletion.at \in {"dirs", "manifests"}
  /\ deletion' = [deletion EXCEPT !.at = "idle", !.answer = "500"]
  /\ UNCHANGED <<entries, saved, dirs, page>>

\* _delete_candle_manifest_series: one transaction.
DeleteManifests ==
  /\ deletion.at = "manifests"
  /\ entries' = {e \in entries : ~(e.store = "manifests" /\ e.market = deletion.series.market /\ e.kind = deletion.series.kind)}
  /\ deletion' = [deletion EXCEPT !.at = "idle", !.answer = "deleted"]
  /\ UNCHANGED <<saved, dirs, page>>

InventoryNext ==
  \/ \E store \in Stores, m \in RawMarkets, k \in Kinds, f, t \in 0..LastBar : Save(store, m, k, f, t)
  \/ \E s \in Listed : RefreshSeries(s) \/ DeleteFind(s) \/ ListSeries(s)
  \/ DeleteCacheFiles \/ DeleteSegmentRows \/ DeleteSegmentDirs \/ DeleteManifests \/ DeleteRaises
  \/ ReadStore \/ CoalesceRange \/ Coalesced \/ CountRange \/ ShowSeries

InventorySpec == InventoryInit /\ [][InventoryNext]_inventoryVars

-----------------------------------------------------------------------------
\* What the data page shows of a series agrees with the files and rows it was found in:
\* its ranges are apart and cover exactly their bars, and each bar is counted once.
BarsIn(ranges) == UNION {r.from..r.to : r \in ranges}
RangesAreExact ==
  page.at = "shown" =>
    LET ranges == page.merged
    IN  /\ BarsIn({ranges[i] : i \in DOMAIN ranges}) = BarsIn(page.of)
        /\ \A i, j \in DOMAIN ranges : i < j => ranges[i].to + 1 < ranges[j].from
        /\ page.unique = Cardinality(BarsIn(page.of))

\* delete_data_series "Delete cached candle data for one exchange/market/symbol/timeframe
\* group": once the route answers "deleted", nothing that was found for the series is left
\* but what was logged as impossible to delete.
DeletedIsGone == deletion.answer = "deleted" => deletion.found \cap entries \subseteq deletion.failed

\* The data page tells the truth: its values have their types, the ranges it shows are
\* exact, and what it reports as deleted is gone (accounts_data.py).
InventoryIsTrue == InventoryTypeOK /\ RangesAreExact /\ DeletedIsGone

=============================================================================
