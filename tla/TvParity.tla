------------------------------ MODULE TvParity ------------------------------
(***************************************************************************)
(* gateway/routes/tv_parity.py: one POST /run, from the uploaded candles   *)
(* (or the exchange's) to the row of the run in the backtest store, its    *)
(* directory tv-parity/<run_id> with tv_parity_result.json, and the        *)
(* background task that replays the strategy, saves its result, exports    *)
(* and compares it.  Two deletion routes and a restart of the gateway meet *)
(* the task at its awaits.  Time is counted in bars; -1 stands for None.   *)
(***************************************************************************)
EXTENDS Integers, Sequences, FiniteSets, FiniteSetsExt

CONSTANTS
    LastTime,        \* open times are 1..LastTime
    CandleFiles,     \* the uploads: sequences of rows [time, exact]
    ParityTimes      \* the times a form may carry, NoTime included

ASSUME ParityAssumption ==
    /\ LastTime \in Nat
    /\ CandleFiles \subseteq Seq([time : Int, exact : BOOLEAN])
    /\ ParityTimes \subseteq Int

VARIABLES
    stage,           \* how far the request and its task have come
    parityRow,       \* the run in backtest_runs
    folder,          \* "none", "pending" (pending_<uuid>) or "run" (<run_id>)
    resultFile,      \* status in tv_parity_result.json, or "none"
    exported,        \* openpine_outputs and comparison are in the folder
    replay,          \* the parsed candles and the compared window
    runConfig        \* the BacktestRunConfig of the replay

parityVars == <<stage, parityRow, folder, resultFile, exported, replay, runConfig>>
disk == <<folder, resultFile, exported>>

NoTime == -1
Empty == [bars |-> {}, from |-> 0, to |-> 0, pre |-> 0, warmup |-> 0]
NoConfig == [start |-> 0, end |-> 0, history |-> 0]

(* Between two awaits the event loop serves nobody else.                   *)
Busy == {"create", "job", "name", "save", "export", "write", "raised", "marked"}

Stages == Busy \cup {"new", "upload", "queued", "loading", "verified", "replaying", "over"}

(* Each variable keeps its kind of value.                                  *)
ParityTypeOK ==
    /\ stage \in Stages
    /\ parityRow \in {"none", "running", "done", "failed", "deleted"}
    /\ folder \in {"none", "pending", "run"}
    /\ resultFile \in {"none", "queued", "done", "failed"}
    /\ exported \in BOOLEAN
    /\ IsFiniteSet(replay.bars)
    /\ \A b \in replay.bars : b.time \in Int
    /\ \A f \in {"from", "to", "pre", "warmup"} : replay[f] \in Int
    /\ \A c \in {"start", "end", "history"} : runConfig[c] \in Int

ParityInit ==
    /\ stage = "new" /\ parityRow = "none"
    /\ folder = "none" /\ resultFile = "none" /\ exported = FALSE
    /\ replay = Empty /\ runConfig = NoConfig

(***************************************************************************)
(* The candles.                                                            *)
(***************************************************************************)

(* parse_tradingview_candles_csv: a row whose time or prices cannot be     *)
(* read exactly is left out, a row at or after the requested end too;      *)
(* repeated times stay: a bar is a time and the row it was read from.  The *)
(* list is sorted by time, so its ends are the least and the greatest time *)
(* of the set.  The route keeps what precedes the requested start as seed  *)
(* (drop_pre_window is false).                                             *)
ParseCandles(rows, to) ==
    {[time |-> rows[i].time, row |-> i] :
        i \in {j \in DOMAIN rows : /\ rows[j].time # NoTime /\ rows[j].exact
                                   /\ to = NoTime \/ rows[j].time < to}}

Times(bars) == {b.time : b \in bars}

FirstOf(compare, requested, delivered) ==
    IF compare # NoTime THEN compare ELSE IF requested # NoTime THEN requested ELSE delivered

PreBars(bars, from) == Cardinality({b \in bars : b.time < from})

(* _exchange_data_window: the calculation reaches back for the warm-up and *)
(* must contain the compared window.                                       *)
Visible(r) == [from |-> IF r.compareFrom # NoTime THEN r.compareFrom ELSE r.from,
               to   |-> IF r.compareTo # NoTime THEN r.compareTo ELSE r.to]

Calculation(r) ==
    [from |-> CASE r.full -> IF r.from # NoTime THEN r.from ELSE 0
                [] ~r.full /\ r.warmup > 0 ->
                     IF Visible(r).from > r.warmup THEN Visible(r).from - r.warmup ELSE 0
                [] OTHER -> Visible(r).from,
     to   |-> IF r.to # NoTime THEN r.to ELSE Visible(r).to]

WindowAccepted(r) ==
    /\ Visible(r).from # NoTime /\ Visible(r).to # NoTime
    /\ Visible(r).from < Visible(r).to
    /\ Visible(r).to <= Calculation(r).to
    /\ Calculation(r).from <= Visible(r).from

Forms == [from : ParityTimes, to : ParityTimes, compareFrom : ParityTimes,
          compareTo : ParityTimes, warmup : {0, 1}, full : BOOLEAN]

(***************************************************************************)
(* POST /run.                                                              *)
(***************************************************************************)
Step(from, to) == stage = from /\ stage' = to

(* The pending directory and the uploads, each of which ends with an await. *)
StoreUploads ==
    /\ Step("new", "upload")
    /\ folder' = "pending"
    /\ UNCHANGED <<parityRow, resultFile, exported, replay, runConfig>>

(* Every refusal from here on is an HTTPException: the pending directory   *)
(* stays where it is.                                                      *)
RejectRequest ==
    /\ Step("upload", "over")
    /\ UNCHANGED <<parityRow, disk, replay, runConfig>>

CsvCandles ==
    /\ Step("upload", "create")
    /\ \E rows \in CandleFiles, r \in Forms :
         LET bars == ParseCandles(rows, r.to) IN
         /\ bars # {}
         /\ LET from == FirstOf(r.compareFrom, r.from, Min(Times(bars))) IN
            replay' = [bars |-> bars, from |-> from,
                       to   |-> FirstOf(r.compareTo, r.to, Max(Times(bars)) + 1),
                       pre  |-> PreBars(bars, from), warmup |-> r.warmup]
         /\ replay'.from < replay'.to
    /\ UNCHANGED <<parityRow, disk, runConfig>>

(* load_exchange_data_candles: the provider may return a series with gaps  *)
(* (gap_policy allow_with_metadata), but not an empty one.                 *)
ExchangeCandles ==
    /\ Step("upload", "create")
    /\ \E r \in Forms :
         /\ WindowAccepted(r)
         /\ \E S \in SUBSET (1..LastTime) :
              /\ S # {}
              /\ \A t \in S : Calculation(r).from <= t /\ t < Calculation(r).to
              /\ LET bars == {[time |-> t, row |-> t] : t \in S} IN
                 replay' = [bars |-> bars, from |-> Visible(r).from, to |-> Visible(r).to,
                            pre |-> PreBars(bars, Visible(r).from), warmup |-> r.warmup]
    /\ UNCHANGED <<parityRow, disk, runConfig>>

CreateParityRun ==
    /\ Step("create", "job")
    /\ parityRow' = "running"
    /\ UNCHANGED <<disk, replay, runConfig>>

(* persist_gateway_job may refuse; then nobody records the failure of the  *)
(* row that was just created.                                              *)
PersistParityJob ==
    /\ Step("job", "name") \/ Step("job", "over")
    /\ UNCHANGED <<parityRow, disk, replay, runConfig>>

NameFolder ==
    /\ Step("name", "queued")
    /\ folder' = "run" /\ resultFile' = "queued"
    /\ UNCHANGED <<parityRow, exported, replay, runConfig>>

(***************************************************************************)
(* _run_tv_parity_background.                                              *)
(***************************************************************************)
Raises(from) ==
    /\ Step(from, "raised")
    /\ UNCHANGED <<parityRow, disk, replay, runConfig>>

BeginReplay ==
    \/ /\ Step("queued", "loading")
       /\ UNCHANGED <<parityRow, disk, replay, runConfig>>
    \/ Raises("queued")

(* mark_failed updates the row by its id, whatever its status.             *)
MarkFailed == parityRow' = IF parityRow \in {"running", "done"} THEN "failed" ELSE parityRow

(* _write_json creates the directory when it is not there.                 *)
WriteResult(status) == folder' = "run" /\ resultFile' = status

VerifyArtifact ==
    \/ /\ Step("loading", "verified")
       /\ UNCHANGED <<parityRow, disk, replay, runConfig>>
    \/ /\ Step("loading", "over")
       /\ MarkFailed
       /\ WriteResult("failed")
       /\ UNCHANGED <<exported, replay, runConfig>>
    \/ Raises("loading")


(* _backtest_config_for_tv_replay *)
ReplayConfig ==
    [start |-> IF replay.pre > 0 THEN replay.from ELSE Min(Times(replay.bars)), end |-> replay.to,
     history |-> IF replay.pre > replay.warmup THEN replay.pre ELSE replay.warmup]

(* The configuration, the higher timeframes, the identity of the run and   *)
(* its execution context, up to the hand-over to the executor.             *)
PrepareReplay ==
    \/ /\ Step("verified", "replaying")
       /\ runConfig' = ReplayConfig
       /\ UNCHANGED <<parityRow, disk, replay>>
    \/ Raises("verified")

(* _run_isolated_tv_replay in the executor's thread. *)
ReplayReturns ==
    \/ /\ Step("replaying", "save")
       /\ UNCHANGED <<parityRow, disk, replay, runConfig>>
    \/ Raises("replaying")

(* save_result needs the row: it reads the strategy of the run from it.    *)
SaveReplay ==
    \/ /\ parityRow = "running"
       /\ Step("save", "export")
       /\ parityRow' = "done"
       /\ UNCHANGED <<disk, replay, runConfig>>
    \/ Raises("save")


\* Mutant: an export that failed is passed over.
ExportAndCompare_Lenient ==
    /\ Step("export", "write")
    /\ \E complete \in BOOLEAN : exported' = complete
    /\ folder' = "run"
    /\ UNCHANGED <<parityRow, resultFile, replay, runConfig>>

(* write_tv_parity_exports_and_comparison; the exporter creates the        *)
(* directories it writes to.                                               *)
ExportAndCompare ==
    \/ /\ Step("export", "write")
       /\ exported' = TRUE /\ folder' = "run"
       /\ UNCHANGED <<parityRow, resultFile, replay, runConfig>>
    \/ Raises("export")

WriteDone ==
    /\ Step("write", "over")
    /\ WriteResult("done")
    /\ UNCHANGED <<parityRow, exported, replay, runConfig>>

(* The except clause: an error of mark_failed is ignored.                  *)
RecordFailure ==
    /\ Step("raised", "marked")
    /\ MarkFailed \/ UNCHANGED parityRow
    /\ UNCHANGED <<disk, replay, runConfig>>

WriteFailed ==
    /\ Step("marked", "over")
    /\ WriteResult("failed")
    /\ UNCHANGED <<parityRow, exported, replay, runConfig>>

(***************************************************************************)
(* The other routes and the restart.                                       *)
(***************************************************************************)

(* _list_tv_parity_history and GET /runs/{id} show a run by its file.      *)
Shown == folder = "run" /\ resultFile # "none"

(* DELETE /api/tv-parity/runs/{id}: the directory with all it holds,       *)
(* whether or not the task is at work.                                     *)
DeleteParityRun ==
    /\ stage \notin Busy /\ folder = "run"
    /\ folder' = "none" /\ resultFile' = "none" /\ exported' = FALSE
    /\ UNCHANGED <<stage, parityRow, replay, runConfig>>

(* DELETE of the backtest routes: the row and its results, not the folder. *)
DeleteBacktestRun ==
    /\ stage \notin Busy /\ parityRow \in {"running", "done", "failed"}
    /\ parityRow' = "deleted"
    /\ UNCHANGED <<stage, disk, replay, runConfig>>

(* The gateway dies at any point; the next one fails interrupted rows      *)
(* (recover_incomplete_runs) and leaves the files alone.                   *)
GatewayRestarts ==
    /\ stage' = IF stage = "new" THEN "new" ELSE "over"
    /\ parityRow' = IF parityRow = "running" THEN "failed" ELSE parityRow
    /\ UNCHANGED <<disk, replay, runConfig>>

ParityNext ==
    \/ StoreUploads \/ RejectRequest \/ CsvCandles \/ ExchangeCandles
    \/ CreateParityRun \/ PersistParityJob \/ NameFolder
    \/ BeginReplay \/ VerifyArtifact \/ PrepareReplay \/ ReplayReturns
    \/ SaveReplay \/ ExportAndCompare \/ WriteDone \/ RecordFailure \/ WriteFailed
    \/ DeleteParityRun \/ DeleteBacktestRun \/ GatewayRestarts

ParitySpec == ParityInit /\ [][ParityNext]_parityVars

(***************************************************************************)
(* Properties.                                                             *)
(***************************************************************************)

(* A run that the history shows as done was saved in the backtest store,   *)
(* where it is done unless it was deleted, and its exports are beside the  *)
(* result file, whatever raised, was deleted or was restarted on the way   *)
(* (_run_tv_parity_background 1106-1137).                                  *)
ParityDoneIsBacked ==
    Shown /\ resultFile = "done" => parityRow \in {"done", "deleted"} /\ exported

(* The bars that the replay scores are those of the compared window, from  *)
(* either source, and its history holds every bar before it                *)
(* (_backtest_config_for_tv_replay 764-766).                               *)
ScoredIsCompared ==
    runConfig # NoConfig =>
        /\ \A t \in Times(replay.bars) :
             t >= runConfig.start /\ t < runConfig.end <=> t >= replay.from /\ t < replay.to
        /\ runConfig.history >= PreBars(replay.bars, runConfig.start)

(* A parity run shown as done is stored and exported, and scored on the    *)
(* bars it is compared on (_run_tv_parity_background).                     *)
ParityIsBacked == ParityTypeOK /\ ParityDoneIsBacked /\ ScoredIsCompared
=============================================================================
