----------------------------- MODULE BarSources -----------------------------
(***************************************************************************)
(* Where a run takes its bars from without the orchestrator's store: the   *)
(* file cache (load_bar_series) and the parallel fetcher (fetch_many).     *)
(* They share no state.                                                    *)
(***************************************************************************)
EXTENDS BarCache, ParallelFetch

(* What was fetched arrives whole, from the file cache although its files  *)
(* are replaced and deleted under a reader (load_bar_series), and from the *)
(* threads of the parallel fetcher (ParallelDataFetcher.fetch_many).       *)
FetchesAreWhole == CacheHitsAreWhole /\ AllJobsDelivered
=============================================================================
