----------------------------- MODULE BarPipeline -----------------------------
(***************************************************************************)
(* From a closed source candle to strategy accounting:                     *)
(* openpine/workers/strategy_fanout.py stores source bars, builds the bars *)
(* of the strategies' timeframes and enqueues one job per strategy and     *)
(* bar; openpine/workers/strategy_job_executor.py takes a job through the  *)
(* strategy runtime, the snapshot store and the strategy ledger.           *)
(*                                                                         *)
(* The loop that hands dequeued jobs to executors is not part of the       *)
(* package; Workers stand for its threads, each of which dequeues a job    *)
(* and calls StrategyJobExecutor.process with it.  Candles, snapshots and  *)
(* the ledger are durable; the scheduler and the workers are not.          *)
(*                                                                         *)
(* Source bar b covers [b, b+1); a bar of a strategy covers Factor[s]      *)
(* source bars and is named by its first.  Each bar closes one trade.      *)
(***************************************************************************)
EXTENDS JobScheduler

CONSTANTS
    Strategies,
    Factor,      \* the timeframe of a strategy in source bars
    MaxBar,      \* bound: source bars 0 .. MaxBar - 1
    Modes,       \* a subset of {"paper", "live", "observe"}
    Workers

ASSUME FactorAssumption == Factor \in [Strategies -> Nat \ {0}]

VARIABLES
    pool,      \* the workers there are, chosen once
    mode,      \* registry: the mode of a strategy, "off" while it is disabled
    source,    \* stored source bars
    targets,   \* stored aggregated bars, <<factor, first source bar>>
    fan,       \* process_source_bar in progress: its bar, and the modes and strategies left
    worker,    \* the executor call each worker is in
    active,    \* the active snapshot of a strategy: bar, and the bars in its state
    position,  \* ledger: last_bar_time of the position of a strategy
    trades     \* ledger: the trades recorded

pipeVars == <<pool, mode, source, targets, fan, worker, active, position, trades>>

vars == <<schedVars, pipeVars>>

SourceBars == 0..(MaxBar - 1)

NoBar == -1

JobOf(m, s, b) == <<m, s, b>>

AllJobs == Modes \X Strategies \X SourceBars

ASSUME PipelineAssumption == Jobs = AllJobs /\ MaxBar \in Nat /\ IsFiniteSet(Workers)

StrategyOf(j) == j[2]

BarOf(j) == j[3]

IdleFan == [bar |-> NoBar, todo |-> {}]

IdleWorker == [pc |-> "idle", job |-> None, base |-> {}]

NoSnapshot == [bar |-> NoBar, chain |-> {}]

Phases == {"idle", "taken", "checked", "running", "loaded", "saved", "positioned", "recorded"}

(* The types of the variables.                                             *)
TypeOK ==
    /\ SchedTypeOK
    /\ pool \subseteq Workers
    /\ mode \in [Strategies -> Modes \cup {"off"}]
    /\ source \subseteq SourceBars
    /\ targets \subseteq {Factor[s] : s \in Strategies} \X SourceBars
    /\ fan \in [bar: SourceBars \cup {NoBar}, todo: SUBSET (Modes \X Strategies)]
    /\ worker \in [Workers -> [pc: Phases, job: Jobs \cup {None}, base: SUBSET SourceBars]]
    /\ active \in [Strategies -> [bar: SourceBars \cup {NoBar}, chain: SUBSET SourceBars]]
    /\ position \in [Strategies -> SourceBars \cup {NoBar}]
    /\ trades \subseteq AllJobs

Init ==
    /\ SchedInit
    /\ pool \in SUBSET Workers \ {{}}
    /\ mode \in [Strategies -> Modes]
    /\ source = {} /\ targets = {}
    /\ fan = IdleFan
    /\ worker = [w \in Workers |-> IdleWorker]
    /\ active = [s \in Strategies |-> NoSnapshot]
    /\ position = [s \in Strategies |-> NoBar]
    /\ trades = {}

-----------------------------------------------------------------------------
(* StrategyBarFanout                                                       *)

FanOver(b, todo) == IF todo = {} THEN IdleFan ELSE [bar |-> b, todo |-> todo]

(* process_source_bar: reads the enabled strategies and stores the bar.    *)
(* Candles may come late, twice or never.                                  *)
SourceBar(b) ==
    /\ fan = IdleFan
    /\ source' = source \cup {b}
    /\ fan' = FanOver(b, {<<mode[s], s>> : s \in {x \in Strategies : mode[x] # "off"}})
    /\ UNCHANGED <<schedVars, pool, mode, targets, worker, active, position, trades>>

(* Mutant: builds the bar from the source bars there are.                  *)
TargetBar_Partial(s, b) ==
    IF (b + 1) % Factor[s] # 0 THEN NoBar ELSE b + 1 - Factor[s]

(* _target_bar_from_source: the first source bar of the strategy's bar     *)
(* that b closes, NoBar when b closes none or a source bar is missing.     *)
TargetBar(s, b) ==
    LET first == b + 1 - Factor[s]
    IN IF (b + 1) % Factor[s] = 0 /\ first..b \subseteq source THEN first ELSE NoBar

(* One turn of the loops over timeframes and strategies: the aggregate is  *)
(* stored, then the job is enqueued with the mode read at the start.       *)
FanoutStrategy(m, s, t) ==
    LET first == TargetBar(s, fan.bar)
    IN /\ <<m, s>> \in fan.todo
       /\ fan' = FanOver(fan.bar, fan.todo \ {<<m, s>>})
       /\ IF first = NoBar
          THEN UNCHANGED <<schedVars, targets>>
          ELSE /\ targets' = IF Factor[s] = 1 THEN targets ELSE targets \cup {<<Factor[s], first>>}
               /\ Enqueue(JobOf(m, s, first), t)
       /\ UNCHANGED <<pool, mode, source, worker, active, position, trades>>

(* An exception for one timeframe leaves the loop: the strategies after it *)
(* get no job for this bar.                                                *)
FanoutFails ==
    /\ fan # IdleFan
    /\ fan' = IdleFan
    /\ UNCHANGED <<schedVars, pool, mode, source, targets, worker, active, position, trades>>

(* The registry enables, disables or switches a strategy.                  *)
SetMode(s, m) ==
    /\ mode' = [mode EXCEPT ![s] = m]
    /\ UNCHANGED <<schedVars, pool, source, targets, fan, worker, active, position, trades>>

-----------------------------------------------------------------------------
(* StrategyJobExecutor.process, one step per durable effect                *)

Goto(w, pc) == worker' = [worker EXCEPT ![w].pc = pc]

Free(w) == worker' = [worker EXCEPT ![w] = IdleWorker]

Take(w) ==
    /\ w \in pool /\ worker[w].pc = "idle"
    /\ \E i \in DOMAIN queue :
         /\ Dequeue(i)
         /\ worker' = [worker EXCEPT ![w] = [IdleWorker EXCEPT !.pc = "taken", !.job = queue[i]]]
    /\ UNCHANGED <<pool, mode, source, targets, fan, active, position, trades>>

TargetStored(j) ==
    LET s == StrategyOf(j)
    IN IF Factor[s] = 1 THEN BarOf(j) \in source ELSE <<Factor[s], BarOf(j)>> \in targets

AlreadyProcessed(j) == active[StrategyOf(j)].bar >= BarOf(j)

(* Loads the target bar and compares it with the latest snapshot; a bar    *)
(* that is not newer finishes the job as "already_processed".              *)
Check(w) ==
    LET j == worker[w].job
    IN /\ worker[w].pc = "taken"
       /\ TargetStored(j)
       /\ IF AlreadyProcessed(j)
          THEN MarkDone(j) /\ Free(w)
          ELSE Goto(w, "checked") /\ UNCHANGED schedVars
       /\ UNCHANGED <<pool, mode, source, targets, fan, active, position, trades>>

Start(w) ==
    /\ worker[w].pc = "checked"
    /\ MarkRunning(worker[w].job)
    /\ Goto(w, "running")
    /\ UNCHANGED <<pool, mode, source, targets, fan, active, position, trades>>

(* Mutant: a run starts with an empty state.                               *)
ResumeChain_Scratch(j) == {}

(* load_runtime_snapshot at or before bar.time - 1, and the run: a younger *)
(* active snapshot is not loaded, and the older ones are superseded.       *)
ResumeChain(j) ==
    LET a == active[StrategyOf(j)]
    IN IF a.bar < BarOf(j) THEN a.chain ELSE {}

LoadAndRun(w) ==
    /\ worker[w].pc = "running"
    /\ worker' = [worker EXCEPT ![w].pc = "loaded", ![w].base = ResumeChain(worker[w].job)]
    /\ UNCHANGED <<schedVars, pool, mode, source, targets, fan, active, position, trades>>

SaveSnapshot(w) ==
    LET j == worker[w].job
    IN /\ worker[w].pc = "loaded"
       /\ active' = [active EXCEPT ![StrategyOf(j)] =
                        [bar |-> BarOf(j), chain |-> worker[w].base \cup {BarOf(j)}]]
       /\ Goto(w, IF j[1] = "observe" THEN "recorded" ELSE "saved")
       /\ UNCHANGED <<schedVars, pool, mode, source, targets, fan, position, trades>>

RecordPosition(w) ==
    LET j == worker[w].job
    IN /\ worker[w].pc = "saved"
       /\ position' = [position EXCEPT ![StrategyOf(j)] = BarOf(j)]
       /\ Goto(w, "positioned")
       /\ UNCHANGED <<schedVars, pool, mode, source, targets, fan, active, trades>>

(* A trade id that is in the ledger makes the insert, and the job, fail.   *)
RecordTrades(w) ==
    LET j == worker[w].job
    IN /\ worker[w].pc = "positioned"
       /\ IF j \in trades
          THEN MarkFailed(j) /\ Free(w) /\ UNCHANGED trades
          ELSE /\ trades' = trades \cup {j}
               /\ Goto(w, "recorded")
               /\ UNCHANGED schedVars
       /\ UNCHANGED <<pool, mode, source, targets, fan, active, position>>

Finish(w) ==
    /\ worker[w].pc = "recorded"
    /\ MarkDone(worker[w].job)
    /\ Free(w)
    /\ UNCHANGED <<pool, mode, source, targets, fan, active, position, trades>>

(* Any exception: a strategy that was deleted, a bar that is not stored,   *)
(* a runtime failure, an error of the snapshot store or of the ledger.     *)
Fail(w) ==
    /\ worker[w].pc \in Phases \ {"idle", "recorded"}
    /\ MarkFailed(worker[w].job)
    /\ Free(w)
    /\ UNCHANGED <<pool, mode, source, targets, fan, active, position, trades>>

Cancel(j) == CancelJob(j) /\ UNCHANGED pipeVars

(* The process dies and is started again.                                  *)
Restart ==
    /\ SchedRestart
    /\ fan' = IdleFan
    /\ worker' = [w \in Workers |-> IdleWorker]
    /\ UNCHANGED <<pool, mode, source, targets, active, position, trades>>

Next ==
    \/ \E b \in SourceBars : SourceBar(b)
    \/ \E m \in Modes, s \in Strategies, t \in Times : FanoutStrategy(m, s, t)
    \/ FanoutFails
    \/ \E s \in Strategies, m \in Modes \cup {"off"} : SetMode(s, m)
    \/ \E w \in Workers : Take(w)
    \/ \E w \in Workers : Check(w)
    \/ \E w \in Workers : Start(w)
    \/ \E w \in Workers : LoadAndRun(w)
    \/ \E w \in Workers : SaveSnapshot(w)
    \/ \E w \in Workers : RecordPosition(w)
    \/ \E w \in Workers : RecordTrades(w)
    \/ \E w \in Workers : Finish(w)
    \/ \E w \in Workers : Fail(w)
    \/ \E j \in Jobs : Cancel(j)
    \/ Restart

Spec == Init /\ [][Next]_vars

-----------------------------------------------------------------------------
(* What holds with any number of workers                                   *)

InQueue(j) == {i \in DOMAIN queue : queue[i] = j}

Holders(j) == {w \in Workers : worker[w].job = j}

(* No job is lost and none is handed out twice: a pending job is in the    *)
(* queue once or in the hands of one worker, and never both.  dequeue pops *)
(* without changing the status, and enqueue drops known keys.              *)
PendingInOnePlace ==
    /\ \A j \in Jobs : Cardinality(Holders(j)) + Cardinality(InQueue(j)) <= 1
    /\ \A j \in Jobs : status[j] = "pending" => Holders(j) # {} \/ InQueue(j) # {}

(* A serialization key is in use only for a job that runs and that some    *)
(* worker is between mark_running and the end of process with: a finished, *)
(* failed or cancelled job never blocks the later bars of its strategy.    *)
KeyHeldByWorker ==
    \A k \in SerKeys : running[k] # None =>
        /\ status[running[k]] = "running"
        /\ \E w \in Holders(running[k]) : worker[w].pc \notin {"taken", "checked"}

(* Every job is accounted for: none is lost, handed out twice or left      *)
(* holding its serialization key (JobScheduler and                         *)
(* StrategyJobExecutor.process).                                           *)
JobsAccountedFor == TypeOK /\ PendingInOnePlace /\ KeyHeldByWorker

(* The bar of every job is stored before the job can be seen, complete,    *)
(* so _load_target_bar finds exactly one bar.                              *)
JobBarComplete ==
    \A j \in Jobs : status[j] # "absent" =>
        /\ TargetStored(j)
        /\ BarOf(j)..(BarOf(j) + Factor[StrategyOf(j)] - 1) \subseteq source

-----------------------------------------------------------------------------
(* What holds with one worker, restarts included                           *)

(* With one worker the state a strategy resumes from contains every bar    *)
(* the ledger has accounted for: a position or a trade is recorded only    *)
(* after the snapshot of its bar, and no later snapshot starts from        *)
(* scratch.                                                                *)
StateCoversLedger == Cardinality(pool) = 1 =>
    /\ \A s \in Strategies : position[s] # NoBar => position[s] \in active[s].chain
    /\ \A j \in trades : BarOf(j) \in active[StrategyOf(j)].chain

-----------------------------------------------------------------------------
(* What the code's documentation says and the code does not do             *)

Processing(w) == worker[w].pc \in Phases \ {"idle", "taken", "checked"}

(* jobs/scheduler.py: "serialization_key prevents concurrent processing of *)
(* same strategy".  dequeue does not take the key, mark_running does.      *)
SerializedStrategies ==
    \A v, w \in Workers :
        v # w /\ Processing(v) /\ Processing(w) =>
            SerKey[worker[v].job] # SerKey[worker[w].job]

=============================================================================
