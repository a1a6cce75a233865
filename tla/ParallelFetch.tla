--------------------------- MODULE ParallelFetch ---------------------------
(***************************************************************************)
(* ParallelDataFetcher (data/parallel_fetcher.py): fetch_many runs a list  *)
(* of jobs in a pool of threads and collects the results in the order in   *)
(* which they end, under the key "SYMBOL:TIMEFRAME" of each job.           *)
(* fetch_chunked cuts a range into jobs of one symbol and merges what      *)
(* fetch_many returns.                                                     *)
(***************************************************************************)
EXTENDS Integers, FiniteSets, FiniteSetsExt

CONSTANTS
    RangeEnd,     \* bars 0 .. RangeEnd - 1 exist
    ChunkSizes,   \* chunk_size_ms values tried
    SymbolCounts, \* numbers of symbols tried in the multi-symbol mode
    MaxWorkers    \* threads of the pool

ASSUME FetchAssumption ==
    /\ RangeEnd \in Nat \ {0} /\ MaxWorkers \in Nat \ {0}
    /\ ChunkSizes \subseteq Nat \ {0} /\ SymbolCounts \subseteq Nat \ {0}

VARIABLES
    mode,       \* "none" before the command starts, then "many" or "chunked"
    fetchJobs,  \* job number -> symbol, first bar, end
    jobAt,      \* where each job is: queued, running, ended, failed, taken
    results,    \* key -> bars, as collected so far
    raised,     \* the collecting loop has met a failed job
    fetchOut    \* what the command returned: bars by symbol, or an error

fetchVars == <<mode, fetchJobs, jobAt, results, raised, fetchOut>>

Error      == [kind |-> "error", bars |-> {}]
Pending    == [kind |-> "none", bars |-> {}]
BarsOf(j)  == {<<fetchJobs[j].symbol, b>> : b \in fetchJobs[j].from .. fetchJobs[j].to - 1}

(* The types of the variables.                                             *)
FetchTypeOK ==
    /\ mode \in {"none", "many", "chunked"}
    /\ DOMAIN jobAt = DOMAIN fetchJobs
    /\ \A j \in DOMAIN jobAt : jobAt[j] \in {"queued", "running", "ended", "failed", "taken"}
    /\ raised \in BOOLEAN
    /\ fetchOut.kind \in {"none", "error", "bars"}

FetchInit ==
    /\ mode = "none"
    /\ fetchJobs = <<>> /\ jobAt = <<>>
    /\ results = [k \in {} |-> {}]
    /\ raised = FALSE
    /\ fetchOut = Pending

(* The jobs fetch_chunked makes of bars from .. RangeEnd - 1 of symbol 1.  *)
ChunkJobs(size) ==
    [j \in 1 .. (RangeEnd + size - 1) \div size |->
        [symbol |-> 1, from |-> (j - 1) * size, to |-> Min({j * size, RangeEnd})]]

(* data_parallel_backfill: one symbol with --chunked is cut into chunks,   *)
(* everything else is one job for each symbol.                             *)
Start(m, jobs) ==
    /\ mode = "none"
    /\ mode' = m
    /\ fetchJobs' = jobs
    /\ jobAt' = [j \in DOMAIN jobs |-> "queued"]
    /\ UNCHANGED <<results, raised, fetchOut>>

StartMany(n) ==
    Start("many", [j \in 1..n |-> [symbol |-> j, from |-> 0, to |-> RangeEnd]])

StartChunked(size) == Start("chunked", ChunkJobs(size))

(* A thread of the pool takes the next job.                                *)
RunJob(j) ==
    /\ jobAt[j] = "queued" /\ \A i \in 1 .. j - 1 : jobAt[i] # "queued"
    /\ Cardinality({i \in DOMAIN jobAt : jobAt[i] = "running"}) < MaxWorkers
    /\ jobAt' = [jobAt EXCEPT ![j] = "running"]
    /\ UNCHANGED <<mode, fetchJobs, results, raised, fetchOut>>

(* fetch_single returns the bars of its job, or raises.                    *)
FetchSingle(j, outcome) ==
    /\ jobAt[j] = "running"
    /\ jobAt' = [jobAt EXCEPT ![j] = outcome]
    /\ UNCHANGED <<mode, fetchJobs, results, raised, fetchOut>>

JobKey(j) == fetchJobs[j].symbol

(* as_completed yields a job that failed: the loop is left.                *)
CollectFailure(j) ==
    /\ ~raised /\ jobAt[j] = "failed"
    /\ raised' = TRUE
    /\ jobAt' = [jobAt EXCEPT ![j] = "taken"]
    /\ UNCHANGED <<mode, fetchJobs, results, fetchOut>>

(* as_completed yields a job that returned bars.                           *)
Collect(j) ==
    /\ ~raised /\ jobAt[j] = "ended"
    /\ results' = [k \in DOMAIN results \cup {JobKey(j)} |->
                      IF k = JobKey(j) THEN BarsOf(j) ELSE results[k]]
    /\ jobAt' = [jobAt EXCEPT ![j] = "taken"]
    /\ UNCHANGED <<mode, fetchJobs, raised, fetchOut>>

(* Leaving the pool waits for every job, also after a failure.             *)
FetchReturns ==
    /\ mode # "none" /\ fetchOut = Pending
    /\ \A j \in DOMAIN jobAt :
          jobAt[j] \in (IF raised THEN {"ended", "failed", "taken"} ELSE {"taken"})
    /\ fetchOut' = IF raised THEN Error
                   ELSE [kind |-> "bars", bars |-> UNION {results[k] : k \in DOMAIN results}]
    /\ UNCHANGED <<mode, fetchJobs, jobAt, results, raised>>

FetchNext ==
    \/ \E n \in SymbolCounts : StartMany(n)
    \/ \E c \in ChunkSizes : StartChunked(c)
    \/ \E j \in DOMAIN jobAt :
          \/ RunJob(j)
          \/ FetchSingle(j, "ended")
          \/ FetchSingle(j, "failed")
          \/ Collect(j)
          \/ CollectFailure(j)
    \/ FetchReturns

FetchSpec == FetchInit /\ [][FetchNext]_fetchVars

-----------------------------------------------------------------------------
(* A fetch that reports success delivered the bars of every job it was     *)
(* split into, in whatever order the threads ended.                        *)
AllJobsDelivered ==
    fetchOut.kind = "bars" => fetchOut.bars = UNION {BarsOf(j) : j \in DOMAIN fetchJobs}
=============================================================================
