----------------------------- MODULE BatchRunner -----------------------------
(***************************************************************************)
(* The manifest-driven batch runner (openpine/batch/runner.py): a process  *)
(* that takes the selected corpus entries one at a time through the phases *)
(* plan, ingest, compile, register and run, leaves its outputs and records *)
(* on disk beside each entry, and can be killed at any moment.  The next   *)
(* batch, started with other options, may skip what an earlier one         *)
(* completed (--skip-completed).                                           *)
(*                                                                         *)
(* A record on disk carries the number of the batch that wrote it, 0 when  *)
(* the file is missing; "whole" is FALSE for a file cut short by a kill    *)
(* (every file is written in place).                                       *)
(***************************************************************************)
EXTENDS Integers, Sequences, FiniteSets, FiniteSetsExt

CONSTANTS BatchEntries,      \* the manifest's entries, a sequence of names
          StrategyEntries,   \* those whose kind is "strategy"
          Frames,            \* the chart timeframes; every entry has them all
          BatchArgs,         \* the command lines considered
          MaxBatches         \* bound on the batches started

VARIABLES pine,      \* entry -> has a source row, and its active artifact
          strategies,\* the registered <<entry, timeframe>> instances
          csv,       \* entry -> timeframe -> output file -> record
          runMeta,   \* entry -> timeframe -> run_meta.json
          summary,   \* entry -> timeframe -> summary.json
          statusFile,\* entry -> openpine_batch_status.json
          errorsLog, \* the <<batch, entry>> lines of the errors file
          proc,      \* the running batch: where it is and what it holds
          good       \* entry -> timeframe -> batch of the last run recorded ok

batchVars == <<pine, strategies, csv, runMeta, summary, statusFile, errorsLog, proc, good>>

Entries == {BatchEntries[i] : i \in DOMAIN BatchEntries}
Phases == {"plan", "ingest", "compile", "register", "run"}
EndStatus == [plan |-> "planned", ingest |-> "ingested", compile |-> "compiled", register |-> "registered"]
ErrorStatuses == {"compile_error", "fatal_error", "partial_or_error"}
Exports == {"plots", "trades", "equity"}
Missing == [by |-> 0, whole |-> FALSE]

\* A command line: the phase, the timeframe filter ("all" for none), the flags, and the
\* entries wanted (limit 0 for none).  revisions: every library's revision can be read.
ArgsType == [phase : Phases, timeframe : Frames \cup {"all"}, skip : BOOLEAN, stop : BOOLEAN,
             force : BOOLEAN, providerOnly : BOOLEAN, revisions : BOOLEAN,
             kind : {"all", "indicator", "strategy"}, limit : 0..Len(BatchEntries)]

ASSUME BatchAssumption ==
  /\ BatchEntries \in Seq({BatchEntries[i] : i \in DOMAIN BatchEntries})
  /\ BatchArgs # {} /\ BatchArgs \subseteq ArgsType
  /\ MaxBatches \in Nat

\* The process: batch counts the batches; at is its step; left are the places in the
\* manifest, and charts the timeframes, still to do; bars is the process's bar cache;
\* results lists entries with their statuses.
BatchIdle(n) == [batch |-> n, at |-> "idle", args |-> CHOOSE a \in BatchArgs : TRUE, left |-> {},
            charts |-> {}, outcome |-> "ok", runs |-> <<>>, status |-> "planned",
            bars |-> [t \in Frames |-> "none"], results |-> <<>>]

BatchTypeOK ==
  /\ pine \in [Entries -> [row : BOOLEAN, artifact : BOOLEAN]]
  /\ strategies \subseteq Entries \X Frames
  /\ \A e \in Entries, t \in Frames :
       /\ runMeta[e][t].by \in 0..MaxBatches /\ summary[e][t].by \in 0..MaxBatches
       /\ good[e][t] \in 0..MaxBatches
  /\ proc.batch \in 0..MaxBatches
  /\ proc.args \in ArgsType

BatchInit ==
  /\ pine = [e \in Entries |-> [row |-> FALSE, artifact |-> FALSE]]
  /\ strategies = {}
  /\ csv = [e \in Entries |-> [t \in Frames |-> [f \in Exports |-> Missing]]]
  /\ runMeta = [e \in Entries |-> [t \in Frames |-> [by |-> 0, whole |-> FALSE, valid |-> FALSE]]]
  /\ summary = [e \in Entries |-> [t \in Frames |-> [by |-> 0, whole |-> FALSE, status |-> "none"]]]
  /\ statusFile = [e \in Entries |-> [by |-> 0, whole |-> FALSE, phase |-> "plan",
                                     status |-> "none", ok |-> {}]]
  /\ errorsLog = {}
  /\ proc = BatchIdle(0)
  /\ good = [e \in Entries |-> [t \in Frames |-> 0]]

Args == proc.args
Entry == BatchEntries[Min(proc.left)]
Chart == CHOOSE t \in proc.charts : TRUE     \* the charts have a fixed order
wanted_charts(a) == {t \in Frames : a.timeframe \in {"all", t}}
expected_output_files(e) == IF e \in StrategyEntries THEN Exports ELSE {"plots"}

-----------------------------------------------------------------------------
(* --skip-completed.                                                       *)

run_meta_valid(e, t) == runMeta[e][t].whole /\ runMeta[e][t].valid
run_summary_valid(e, t) == summary[e][t].whole /\ summary[e][t].status = "ok"
\* An output counts when it exists and is not empty, cut short or not.
output_file_valid(r) == r.by > 0

\* Mutant: an entry whose output files exist counts as done.
completed_for_selection_FilesOnly(e, a) ==
  /\ a.skip
  /\ IF a.phase = "run"
     THEN \A t \in wanted_charts(a) :
            \A f \in expected_output_files(e) : output_file_valid(csv[e][t][f])
     ELSE statusFile[e].status \in {"planned", "ingested", "compiled", "registered", "ok"}

\* completed_for_selection: what the status file of the last batch to finish this entry
\* says, and for the run phase what is on disk for every wanted chart.
completed_for_selection(e, a) ==
  /\ a.skip
  /\ statusFile[e].whole
  /\ statusFile[e].phase = a.phase
  /\ IF a.phase = "run"
     THEN /\ \A t \in wanted_charts(a) :
               /\ run_meta_valid(e, t)
               /\ run_summary_valid(e, t)
               /\ \A f \in expected_output_files(e) : output_file_valid(csv[e][t][f])
          /\ statusFile[e].status = "ok"
          /\ wanted_charts(a) \subseteq statusFile[e].ok
     ELSE statusFile[e].status \in {"planned", "ingested", "compiled", "registered", "ok"}

-----------------------------------------------------------------------------
(* main() and the loop over the selected entries.                          *)

\* filter_entries over the manifest (every entry has every timeframe): the places of the
\* first entries that fit.
filter_entries(a) ==
  LET kindOf(e) == IF e \in StrategyEntries THEN "strategy" ELSE "indicator"
      fits == {i \in DOMAIN BatchEntries : a.kind \in {"all", kindOf(BatchEntries[i])}}
  IN  IF a.limit = 0 THEN fits
      ELSE {i \in fits : Cardinality({j \in fits : j < i}) < a.limit}

StartBatch(a) ==
  /\ proc.at = "idle"
  /\ proc.batch < MaxBatches
  /\ proc' = [BatchIdle(proc.batch + 1) EXCEPT !.at = "entries", !.args = a, !.left = filter_entries(a)]
  /\ UNCHANGED <<pine, strategies, csv, runMeta, summary, statusFile, errorsLog, good>>

Others == proc.left \ {Min(proc.left)}
Done(e, s) == Append(proc.results, <<e, s>>)

SkipEntry ==
  /\ proc.at = "entries" /\ proc.left # {}
  /\ completed_for_selection(Entry, Args)
  /\ proc' = [proc EXCEPT !.left = Others, !.results = Done(Entry, "skipped_completed")]
  /\ UNCHANGED <<pine, strategies, csv, runMeta, summary, statusFile, errorsLog, good>>

TakeEntry ==
  /\ proc.at = "entries" /\ proc.left # {}
  /\ ~completed_for_selection(Entry, Args)
  /\ proc' = [proc EXCEPT !.at = IF Args.phase = "plan" THEN "finish" ELSE "ingest",
                          !.status = "planned", !.runs = <<>>]
  /\ UNCHANGED <<pine, strategies, csv, runMeta, summary, statusFile, errorsLog, good>>

\* An exception out of run_entry.
EntryRaises ==
  /\ proc.at \in {"ingest", "compile", "register"}
  /\ proc' = [proc EXCEPT !.at = "finish", !.status = "fatal_error"]
  /\ UNCHANGED <<pine, strategies, csv, runMeta, summary, statusFile, errorsLog, good>>

\* After a phase: the entry ends there, or the next phase begins.
After(phase, next) == IF Args.phase = phase THEN "finish" ELSE next

GetOrAddSource ==
  /\ proc.at = "ingest"
  /\ pine' = [pine EXCEPT ![Entry].row = TRUE]
  /\ proc' = [proc EXCEPT !.status = "ingested", !.at = After("ingest", "compile")]
  /\ UNCHANGED <<strategies, csv, runMeta, summary, statusFile, errorsLog, good>>

CompileSource ==
  /\ proc.at = "compile"
  /\ \E success \in BOOLEAN :
       /\ pine[Entry].artifact /\ ~Args.force => success
       /\ pine' = [pine EXCEPT ![Entry].artifact = @ \/ success]
       /\ proc' = [proc EXCEPT !.status = IF success THEN "compiled" ELSE "compile_error",
                               !.at = IF success THEN After("compile", "register") ELSE "finish"]
  /\ UNCHANGED <<strategies, csv, runMeta, summary, statusFile, errorsLog, good>>

RegisterStrategies ==
  /\ proc.at = "register"
  /\ strategies' = strategies \cup
       (IF Entry \in StrategyEntries THEN {Entry} \X wanted_charts(Args) ELSE {})
  /\ proc' = [proc EXCEPT !.status = "registered", !.at = After("register", "charts"),
                          !.charts = IF Args.phase = "run" THEN wanted_charts(Args) ELSE {}]
  /\ UNCHANGED <<pine, csv, runMeta, summary, statusFile, errorsLog, good>>

-----------------------------------------------------------------------------
(* The charts of an entry.                                                 *)

\* The bars of a chart, from the process's cache or the provider, which may deliver them
\* without their envelopes; strategies run on enveloped provider bars only, indicators
\* may have the corpus laid over a copy of them.
LoadBars(got) ==
  LET have == IF proc.bars[Chart] # "none" THEN proc.bars[Chart] ELSE got
      bars == IF have = "bare" /\ proc.bars[Chart] = "none" /\ Entry \in StrategyEntries
              THEN "none" ELSE have
  IN  [cache |-> [proc.bars EXCEPT ![Chart] = bars],
       usable |-> bars # "none" /\ (Entry \in StrategyEntries => Args.providerOnly)]

\* The chart's run up to its export: the bars, the artifact and the backend may each fail.
RunWith(loaded, works) ==
  LET ok == loaded.usable /\ works
  IN  proc' = [proc EXCEPT !.bars = loaded.cache,
                           !.outcome = IF ok THEN "ok" ELSE "run_error",
                           !.at = IF ok THEN "plots" ELSE "meta"]

RunIndicator ==
  /\ proc.at = "charts" /\ proc.charts # {} /\ Entry \notin StrategyEntries
  /\ \E got \in {"none", "bare", "canonical"}, works \in BOOLEAN : RunWith(LoadBars(got), works)
  /\ UNCHANGED <<pine, strategies, csv, runMeta, summary, statusFile, errorsLog, good>>

\* A strategy needs the envelopes of all its bars, also of bars an indicator left in the
\* process's cache, and an admitted deployment.
RunStrategy ==
  /\ proc.at = "charts" /\ proc.charts # {} /\ Entry \in StrategyEntries
  /\ \E got \in {"none", "bare", "canonical"}, works \in BOOLEAN :
       LET loaded == LoadBars(got)
       IN  RunWith([loaded EXCEPT !.usable = @ /\ loaded.cache[Chart] = "canonical"], works)
  /\ UNCHANGED <<pine, strategies, csv, runMeta, summary, statusFile, errorsLog, good>>

\* The exports, one file after the other; a failed write leaves a cut file.
NextExport == [plots |-> IF Entry \in StrategyEntries THEN "trades" ELSE "meta",
               trades |-> "equity", equity |-> "meta"]
ExportFile ==
  /\ proc.at \in Exports
  /\ \E written \in BOOLEAN :
       /\ csv' = [csv EXCEPT ![Entry][Chart][proc.at] = [by |-> proc.batch, whole |-> written]]
       /\ proc' = [proc EXCEPT !.outcome = IF written THEN @ ELSE "run_error",
                               !.at = IF written THEN NextExport[proc.at] ELSE "meta"]
  /\ UNCHANGED <<pine, strategies, runMeta, summary, statusFile, errorsLog, good>>

WriteRunMeta ==
  /\ proc.at = "meta"
  /\ runMeta' = [runMeta EXCEPT ![Entry][Chart] =
                   [by |-> proc.batch, whole |-> TRUE, valid |-> Args.revisions]]
  /\ proc' = [proc EXCEPT !.at = "summary"]
  /\ UNCHANGED <<pine, strategies, csv, summary, statusFile, errorsLog, good>>

WriteSummary ==
  /\ proc.at = "summary"
  /\ summary' = [summary EXCEPT ![Entry][Chart] =
                   [by |-> proc.batch, whole |-> TRUE, status |-> proc.outcome]]
  /\ good' = [good EXCEPT ![Entry][Chart] = IF proc.outcome = "ok" THEN proc.batch ELSE 0]
  /\ proc' = [proc EXCEPT !.at = "charts", !.charts = @ \ {Chart},
                          !.runs = Append(@, <<Chart, proc.outcome>>)]
  /\ UNCHANGED <<pine, strategies, csv, runMeta, statusFile, errorsLog>>

OkRuns == {proc.runs[i][1] : i \in {j \in DOMAIN proc.runs : proc.runs[j][2] = "ok"}}

ChartsDone ==
  /\ proc.at = "charts" /\ proc.charts = {}
  /\ proc' = [proc EXCEPT !.at = "finish",
                          !.status = IF Cardinality(OkRuns) = Len(proc.runs) THEN "ok" ELSE "partial_or_error"]
  /\ UNCHANGED <<pine, strategies, csv, runMeta, summary, statusFile, errorsLog, good>>

-----------------------------------------------------------------------------
(* The end of an entry, of the batch, and of the process.                  *)

result_has_error == proc.status \in ErrorStatuses

\* With --stop-on-error a fatal error leaves the loop before the status is written.
FinishEntry ==
  LET stops == Args.stop /\ result_has_error
      unwritten == Args.stop /\ proc.status = "fatal_error"
  IN  /\ proc.at = "finish"
      /\ statusFile' = IF unwritten THEN statusFile ELSE
           [statusFile EXCEPT ![Entry] = [by |-> proc.batch, whole |-> TRUE, phase |-> Args.phase,
                                          status |-> proc.status, ok |-> OkRuns]]
      /\ errorsLog' = IF result_has_error THEN errorsLog \cup {<<proc.batch, Entry>>} ELSE errorsLog
      /\ proc' = [proc EXCEPT !.results = Done(Entry, proc.status), !.at = "entries",
                              !.left = IF stops THEN {} ELSE Others]
      /\ UNCHANGED <<pine, strategies, csv, runMeta, summary, good>>

FinishBatch ==
  /\ proc.at = "entries" /\ proc.left = {}
  /\ proc' = BatchIdle(proc.batch)
  /\ UNCHANGED <<pine, strategies, csv, runMeta, summary, statusFile, errorsLog, good>>

\* The process is killed; the file it was writing may be left cut short.
Killed ==
  /\ proc.at # "idle"
  /\ proc' = BatchIdle(proc.batch)
  /\ \E torn \in BOOLEAN :
       LET cut(at) == torn /\ proc.at = at
           stub(r) == [r EXCEPT !.by = proc.batch, !.whole = FALSE]
       IN  /\ csv' = IF torn /\ proc.at \in Exports
                     THEN [csv EXCEPT ![Entry][Chart][proc.at] = stub(@)] ELSE csv
           /\ runMeta' = IF cut("meta") THEN [runMeta EXCEPT ![Entry][Chart] = stub(@)] ELSE runMeta
           /\ summary' = IF cut("summary") THEN [summary EXCEPT ![Entry][Chart] = stub(@)] ELSE summary
           /\ statusFile' = IF cut("finish") THEN [statusFile EXCEPT ![Entry] = stub(@)] ELSE statusFile
  /\ UNCHANGED <<pine, strategies, errorsLog, good>>

BatchNext ==
  \/ \E a \in BatchArgs : StartBatch(a)
  \/ SkipEntry \/ TakeEntry \/ EntryRaises \/ GetOrAddSource \/ CompileSource
  \/ RegisterStrategies \/ RunIndicator \/ RunStrategy \/ ExportFile \/ WriteRunMeta \/ WriteSummary
  \/ ChartsDone \/ FinishEntry \/ FinishBatch \/ Killed

BatchSpec == BatchInit /\ [][BatchNext]_batchVars

-----------------------------------------------------------------------------
(* Properties.                                                             *)

\* Whatever batches were run, with whatever filters, failures and kills in between:
\* when completed_for_selection lets an entry of the run phase be skipped, every wanted
\* chart's last recorded run ended ok, no expected output is older than that run, and no
\* chart of the entry was recorded as failing since.
SkippedWasCompleted ==
  BatchTypeOK /\
  ((proc.at = "entries" /\ proc.left # {} /\ Args.phase = "run"
     /\ completed_for_selection(Entry, Args)) =>
  \A t \in wanted_charts(Args) :
    /\ good[Entry][t] > 0
    /\ \A f \in expected_output_files(Entry) : csv[Entry][t][f].by >= good[Entry][t])

=============================================================================
