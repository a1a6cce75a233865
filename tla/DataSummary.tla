----------------------------- MODULE DataSummary -----------------------------
(***************************************************************************)
(* The cached summary of the data page (gateway/routes/accounts_data.py):  *)
(* requests in threads share one entry that expires after ten seconds; an  *)
(* expired one is served while a thread computes the next outside the      *)
(* lock.  A summary is told apart by when it was computed.                 *)
(***************************************************************************)
EXTENDS Integers, Sequences

CONSTANT MaxSummaries   \* bound: summaries computed

VARIABLES cached,     \* _DATA_SUMMARY_CACHE: [version, fresh], version 0 if none
          refreshers, \* refresh threads: the summary each holds, 0 while it computes
          refreshing, \* is the key in _DATA_SUMMARY_REFRESHING
          version     \* summaries computed so far

summaryVars == <<cached, refreshers, refreshing, version>>

SummaryTypeOK ==
  /\ cached.version \in 0..version /\ refreshing \in BOOLEAN /\ version \in 0..MaxSummaries
  /\ \A i \in DOMAIN refreshers : refreshers[i] \in 0..version

SummaryInit == cached = [version |-> 0, fresh |-> FALSE] /\ refreshers = <<>> /\ refreshing = FALSE /\ version = 0

\* Mutant: a second request starts a second refresh.
SummaryRequest_Twice ==
  /\ version < MaxSummaries
  /\ IF cached.version = 0
     THEN version' = version + 1 /\ cached' = [version |-> version + 1, fresh |-> TRUE] /\ UNCHANGED <<refreshers, refreshing>>
     ELSE ~cached.fresh /\ Len(refreshers) < 2 /\ refreshing' = TRUE /\ refreshers' = Append(refreshers, 0) /\ UNCHANGED <<cached, version>>

\* _data_summary_cached: the first summary is computed under the lock; an expired one is
\* given while one thread computes the next.
SummaryRequest ==
  /\ version < MaxSummaries
  /\ IF cached.version = 0
     THEN version' = version + 1 /\ cached' = [version |-> version + 1, fresh |-> TRUE] /\ UNCHANGED <<refreshers, refreshing>>
     ELSE ~cached.fresh /\ ~refreshing /\ refreshing' = TRUE /\ refreshers' = Append(refreshers, 0) /\ UNCHANGED <<cached, version>>

SummaryExpires == cached.fresh /\ cached' = [cached EXCEPT !.fresh = FALSE]
                  /\ UNCHANGED <<refreshers, refreshing, version>>

\* _refresh_data_summary_cache outside the lock, then under it.
RefreshComputes(i) ==
  /\ refreshers[i] = 0 /\ version < MaxSummaries
  /\ version' = version + 1
  /\ refreshers' = [refreshers EXCEPT ![i] = version + 1]
  /\ UNCHANGED <<cached, refreshing>>
RefreshStores(i) ==
  /\ cached' = IF refreshers[i] = 0 THEN cached ELSE [version |-> refreshers[i], fresh |-> TRUE]
  /\ refreshing' = FALSE
  /\ refreshers' = SubSeq(refreshers, 1, i - 1) \o SubSeq(refreshers, i + 1, Len(refreshers))
  /\ UNCHANGED <<version>>

SummaryNext ==
  \/ SummaryRequest \/ SummaryExpires
  \/ \E i \in DOMAIN refreshers : RefreshComputes(i) \/ RefreshStores(i)

SummarySpec == SummaryInit /\ [][SummaryNext]_summaryVars

-----------------------------------------------------------------------------
\* The cached summary never goes back to one that was computed earlier, although it is
\* computed outside the lock.
SummaryMovesForward == [][cached'.version >= cached.version]_summaryVars

=============================================================================
