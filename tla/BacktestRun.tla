---------------------------- MODULE BacktestRun ----------------------------
(***************************************************************************)
(* The life of a backtest run in the gateway, openpine/gateway/routes/     *)
(* backtest.py: admission under a bounded semaphore, the background task,  *)
(* the executor thread that owns a spawned worker process, and the cancel  *)
(* handler that races with both.                                           *)
(*                                                                         *)
(* Task and handlers run on the event loop, so the code between two awaits *)
(* is one action; the thread of _execute_backtest_process runs beside them *)
(* and every section under _ACTIVE_BACKTEST_WORKERS_LOCK is an action of   *)
(* its own.  A run starts at most one worker.  Progress messages to        *)
(* browsers are left out.                                                  *)
(***************************************************************************)
EXTENDS Integers, FiniteSets

CONSTANTS
    Runs,      \* run ids
    Capacity,  \* OPENPINE_BACKTEST_MAX_CONCURRENCY
    NoOutcome  \* Python's None

ASSUME CapacityAssumption ==
    /\ Capacity \in Nat \ {0} /\ IsFiniteSet(Runs)
    /\ NoOutcome \notin {"success", "cancelled", "failed"}

VARIABLES
    row,        \* status column of backtest_runs
    permits,    \* free permits of the admission semaphore
    lease,      \* who holds the run's permit: the task, _RETAINED_BACKTEST_LEASES,
                \* or "lost", a lease no code refers to any more
    at,         \* where the background task and the thread it awaits are
    exc,        \* how the thread ends: "ok", "cancelled" or "error"
    reserved,   \* terminal_reservation of the task
    requested,  \* state.backtest_cancel_requests
    terminal,   \* _TERMINAL_BACKTEST_OUTCOMES; its keys are _TERMINAL_BACKTEST_RUNS
    starting,   \* _STARTING_BACKTEST_RUNS
    where,      \* the registry that holds the run's worker
    workerProc, \* the worker: "stopped" when it exited with its cleanup event set,
                \* "orphaned" when it exited without
    flagged,    \* runs whose worker has cancel_requested set
    handler     \* the cancel request being served for a run

runVars == <<row, permits, lease, at, exc, reserved, requested, terminal,
          starting, where, workerProc, flagged, handler>>

taskVars == <<at, exc, reserved>>
permitVars == <<permits, lease>>
registryVars == <<starting, where>>

Outcomes == {"success", "cancelled", "failed"}

TaskPoints == {"none", "strategy", "artifact", "bars", "setup", "failing", "admit",
               "start", "isolate", "register", "started", "loop", "undo", "unstart",
               "final", "drop", "returned", "saving", "failed", "finally", "done"}

Idle == [at |-> "idle", found |-> FALSE, live |-> FALSE]

RunTypeOK ==
    /\ row \in [Runs -> {"none", "running", "done", "failed", "cancelled", "deleted"}]
    /\ permits \in 0..Capacity
    /\ lease \in [Runs -> {"free", "task", "retained", "lost"}]
    /\ at \in [Runs -> TaskPoints]
    /\ exc \in [Runs -> {"ok", "cancelled", "error"}]
    /\ reserved \in [Runs -> Outcomes \cup {NoOutcome}]
    /\ requested \in SUBSET Runs
    /\ terminal \in [Runs -> Outcomes \cup {NoOutcome}]
    /\ starting \in SUBSET Runs
    /\ where \in [Runs -> {"none", "retained", "active"}]
    /\ workerProc \in [Runs -> {"none", "alive", "stopped", "orphaned"}]
    /\ flagged \in SUBSET Runs
    /\ handler \in [Runs -> [at: {"idle", "scan", "cleanup", "drop"},
                             found: BOOLEAN, live: BOOLEAN]]

RunInit ==
    /\ row = [r \in Runs |-> "none"]
    /\ permits = Capacity
    /\ lease = [r \in Runs |-> "free"]
    /\ at = [r \in Runs |-> "none"]
    /\ exc = [r \in Runs |-> "ok"]
    /\ reserved = [r \in Runs |-> NoOutcome]
    /\ requested = {}
    /\ terminal = [r \in Runs |-> NoOutcome]
    /\ starting = {}
    /\ where = [r \in Runs |-> "none"]
    /\ workerProc = [r \in Runs |-> "none"]
    /\ flagged = {}
    /\ handler = [r \in Runs |-> Idle]

(***************************************************************************)
(* Pieces shared by the actions.                                           *)
(***************************************************************************)
Goto(r, p) == at' = [at EXCEPT ![r] = p]

(* UPDATE ... WHERE run_id = ?: no effect on a row that was deleted.       *)
SetRow(r, s) ==
    row' = IF row[r] = "deleted" THEN row ELSE [row EXCEPT ![r] = s]

Owned(r) == where[r] # "none" \/ r \in starting

(* Mutant: a worker that is still starting is overlooked.                  *)
Quiescent_IgnoresStarting(r) == where[r] # "active"

Quiescent(r) == ~Owned(r)

(* The tail of _seal_backtest_terminal_if_quiescent once it found no owner. *)
SealCancelled(r) ==
    terminal' = IF terminal[r] = NoOutcome
               THEN [terminal EXCEPT ![r] = "cancelled"]
               ELSE terminal

(* _terminate_backtest_worker under worker.lock, returning ok.  A worker   *)
(* that was never started cannot be joined, and the call raises.           *)
Terminate(r, ok) ==
    CASE workerProc[r] = "alive" ->
             IF ok THEN workerProc' = [workerProc EXCEPT ![r] = "stopped"]
                   ELSE \E p \in {"alive", "orphaned"} : workerProc' = [workerProc EXCEPT ![r] = p]
      [] workerProc[r] = "stopped" -> ok /\ UNCHANGED workerProc
      [] OTHER -> ~ok /\ UNCHANGED workerProc

(* Dropping the last owner of a run whose lease was retained releases it.  *)
Unregister(r) ==
    /\ where' = [where EXCEPT ![r] = "none"]
    /\ IF r \notin starting /\ lease[r] = "retained"
       THEN /\ lease' = [lease EXCEPT ![r] = "free"]
            /\ permits' = permits + 1
       ELSE UNCHANGED permitVars

(***************************************************************************)
(* POST /run.  The handler has no await, so it is one action; it ends with *)
(* the task scheduled, with the failure of a later step undone, or with    *)
(* the job store refusing the job, which it does not undo.                 *)
(***************************************************************************)
Submit(r) ==
    /\ at[r] = "none"
    /\ permits > 0
    /\ permits' = permits - 1
    /\ lease' = [lease EXCEPT ![r] = "task"]
    /\ row' = [row EXCEPT ![r] = "running"]
    /\ Goto(r, "strategy")
    /\ UNCHANGED <<exc, reserved, requested, terminal, registryVars, workerProc, flagged, handler>>

SubmitUndone(r) ==
    /\ at[r] = "none"
    /\ permits > 0
    /\ row' = [row EXCEPT ![r] = "failed"]
    /\ Goto(r, "done")
    /\ UNCHANGED <<permitVars, exc, reserved, requested, terminal, registryVars, workerProc,
                   flagged, handler>>

SubmitWithoutJob(r) ==
    /\ at[r] = "none"
    /\ permits > 0
    /\ permits' = permits - 1
    /\ lease' = [lease EXCEPT ![r] = "lost"]
    /\ row' = [row EXCEPT ![r] = "running"]
    /\ Goto(r, "done")
    /\ UNCHANGED <<exc, reserved, requested, terminal, registryVars, workerProc, flagged, handler>>

(***************************************************************************)
(* The background task, between two of its awaits.                         *)
(***************************************************************************)
(* except Exception: reserve "failed" unless another outcome won.          *)
TaskError(r) ==
    /\ IF terminal[r] \in {NoOutcome, reserved[r]}
       THEN /\ terminal' = [terminal EXCEPT ![r] = "failed"]
            /\ reserved' = [reserved EXCEPT ![r] = "failed"]
            /\ Goto(r, "failed")
       ELSE Goto(r, "finally") /\ UNCHANGED <<terminal, reserved>>
    /\ UNCHANGED <<row, requested>>

CancelledByTask(r) ==
    /\ SealCancelled(r)
    /\ reserved' = [reserved EXCEPT ![r] = "cancelled"]
    /\ SetRow(r, "cancelled")
    /\ requested' = requested \ {r}
    /\ Goto(r, "finally")

(* cancel_if_requested when the run is requested: an outcome sealed by the *)
(* handler ends the task without a further write.                          *)
CancelHere(r) ==
    IF terminal[r] # NoOutcome
    THEN Goto(r, "finally") /\ UNCHANGED <<row, requested, terminal, reserved>>
    ELSE IF Quiescent(r) THEN CancelledByTask(r)
    ELSE TaskError(r)

NextPoint == [strategy |-> "artifact", artifact |-> "bars", bars |-> "setup",
              setup |-> "admit"]

(* Load strategy, artifact and bars, build the configuration; each stage   *)
(* ends with the check of the cancel requests and an await.                *)
LoadStage(r) ==
    /\ at[r] \in DOMAIN NextPoint
    /\ IF r \in requested
       THEN CancelHere(r)
       ELSE Goto(r, NextPoint[at[r]]) /\ UNCHANGED <<row, requested, terminal, reserved>>
    /\ UNCHANGED <<exc, permitVars, registryVars, workerProc, flagged, handler>>

(* The first three stages fail without reserving an outcome.  The missing  *)
(* strategy is recorded before the await, the other failures after it.     *)
LoadFails(r) ==
    /\ at[r] \in {"strategy", "artifact", "bars"}
    /\ IF at[r] = "strategy"
       THEN SetRow(r, "failed") /\ Goto(r, "finally")
       ELSE Goto(r, "failing") /\ UNCHANGED row
    /\ UNCHANGED <<exc, reserved, requested, terminal, permitVars, registryVars, workerProc,
                   flagged, handler>>

LoadFailed(r) ==
    /\ at[r] = "failing"
    /\ SetRow(r, "failed")
    /\ Goto(r, "finally")
    /\ UNCHANGED <<exc, reserved, requested, terminal, permitVars, registryVars, workerProc,
                   flagged, handler>>

SetupRaises(r) ==
    /\ at[r] = "setup"
    /\ r \notin requested
    /\ TaskError(r)
    /\ UNCHANGED <<exc, permitVars, registryVars, workerProc, flagged, handler>>

(* Mutant: success is reserved although a cancel was accepted.             *)
TaskReturns_NoCheck(r) ==
    /\ at[r] = "returned"
    /\ exc[r] = "ok"
    /\ Quiescent(r)
    /\ terminal[r] = NoOutcome
    /\ terminal' = [terminal EXCEPT ![r] = "success"]
    /\ reserved' = [reserved EXCEPT ![r] = "success"]
    /\ Goto(r, "saving")
    /\ UNCHANGED <<row, requested, exc, permitVars, registryVars, workerProc, flagged, handler>>

(* The thread returned a result.  Success is reserved unless a cancel was  *)
(* accepted, another outcome won or a worker is still owned.               *)
TaskReturns(r) ==
    /\ at[r] = "returned"
    /\ exc[r] = "ok"
    /\ IF r \in requested \/ terminal[r] # NoOutcome THEN CancelHere(r)
       ELSE IF Quiescent(r)
       THEN /\ terminal' = [terminal EXCEPT ![r] = "success"]
            /\ reserved' = [reserved EXCEPT ![r] = "success"]
            /\ Goto(r, "saving")
            /\ UNCHANGED <<row, requested>>
       ELSE TaskError(r)
    /\ UNCHANGED <<exc, permitVars, registryVars, workerProc, flagged, handler>>

(* The thread raised _BacktestCancelled.  A failed seal raises out of the  *)
(* task and leaves the row as it is.                                       *)
TaskCancelled(r) ==
    /\ at[r] = "returned"
    /\ exc[r] = "cancelled"
    /\ IF terminal[r] = NoOutcome /\ Quiescent(r)
       THEN CancelledByTask(r)
       ELSE Goto(r, "finally") /\ UNCHANGED <<row, requested, terminal, reserved>>
    /\ UNCHANGED <<exc, permitVars, registryVars, workerProc, flagged, handler>>

TaskRaised(r) ==
    /\ at[r] = "returned"
    /\ exc[r] = "error"
    /\ TaskError(r)
    /\ UNCHANGED <<exc, permitVars, registryVars, workerProc, flagged, handler>>

SaveResult(r) ==
    /\ at[r] = "saving"
    /\ row[r] # "deleted"
    /\ row' = [row EXCEPT ![r] = "done"]
    /\ requested' = requested \ {r}
    /\ Goto(r, "finally")
    /\ UNCHANGED <<exc, reserved, terminal, permitVars, registryVars, workerProc, flagged, handler>>

SaveFails(r) ==
    /\ at[r] = "saving"
    /\ TaskError(r)
    /\ UNCHANGED <<exc, permitVars, registryVars, workerProc, flagged, handler>>

TaskFailed(r) ==
    /\ at[r] = "failed"
    /\ SetRow(r, "failed")
    /\ requested' = requested \ {r}
    /\ Goto(r, "finally")
    /\ UNCHANGED <<exc, reserved, terminal, permitVars, registryVars, workerProc, flagged, handler>>

Retains(r) == Owned(r)

Finally(r) ==
    /\ at[r] = "finally"
    /\ IF Retains(r)
       THEN lease' = [lease EXCEPT ![r] = "retained"] /\ UNCHANGED permits
       ELSE lease' = [lease EXCEPT ![r] = "free"] /\ permits' = permits + 1
    /\ Goto(r, "done")
    /\ UNCHANGED <<row, exc, reserved, requested, terminal, registryVars, workerProc, flagged,
                   handler>>

(***************************************************************************)
(* The thread of _execute_backtest_process.                                *)
(***************************************************************************)
Admissible(r) ==
    /\ r \notin requested
    /\ terminal[r] = NoOutcome
    /\ ~Owned(r)
    /\ lease[r] # "retained"

(* _admit_backtest_worker_start retains the worker before it exists.       *)
Admit(r) ==
    /\ at[r] = "admit"
    /\ IF Admissible(r)
       THEN /\ where' = [where EXCEPT ![r] = "retained"]
            /\ starting' = starting \cup {r}
            /\ Goto(r, "start")
            /\ UNCHANGED exc
       ELSE /\ exc' = [exc EXCEPT ![r] = "cancelled"]
            /\ Goto(r, "returned")
            /\ UNCHANGED registryVars
    /\ UNCHANGED <<row, permitVars, reserved, requested, terminal, workerProc, flagged, handler>>

(* proc.start() succeeds, or raises with or without a process left behind. *)
StartProcess(r) ==
    /\ at[r] = "start"
    /\ \/ /\ workerProc' = [workerProc EXCEPT ![r] = "alive"]
          /\ \/ Goto(r, "isolate") /\ UNCHANGED exc
             \/ Goto(r, "undo") /\ exc' = [exc EXCEPT ![r] = "error"]
       \/ /\ Goto(r, "undo")
          /\ exc' = [exc EXCEPT ![r] = "error"]
          /\ UNCHANGED workerProc
    /\ UNCHANGED <<row, permitVars, reserved, requested, terminal, registryVars, flagged,
                   handler>>

(* The startup identity and the process group are proven, or setup fails.  *)
Isolate(r) ==
    /\ at[r] = "isolate"
    /\ \/ Goto(r, "register") /\ UNCHANGED exc
       \/ Goto(r, "undo") /\ exc' = [exc EXCEPT ![r] = "error"]
    /\ UNCHANGED <<row, permitVars, reserved, requested, terminal, registryVars, workerProc,
                   flagged, handler>>

(* A failed start: the worker is dropped when it is proven gone, retained  *)
(* otherwise.  A start that left no process behind may or may not prove it.*)
Undo(r) ==
    /\ at[r] = "undo"
    /\ \/ Terminate(r, TRUE) /\ Unregister(r)
       \/ Terminate(r, FALSE) /\ UNCHANGED <<where, permitVars>>
       \/ workerProc[r] = "none" /\ Unregister(r) /\ UNCHANGED workerProc
    /\ Goto(r, "unstart")
    /\ UNCHANGED <<row, exc, reserved, requested, terminal, starting, flagged, handler>>

Unstart(r) ==
    /\ at[r] = "unstart"
    /\ starting' = starting \ {r}
    /\ Goto(r, "returned")
    /\ UNCHANGED <<row, permitVars, exc, reserved, requested, terminal, where, workerProc,
                   flagged, handler>>

Register(r) ==
    /\ at[r] = "register"
    /\ where' = [where EXCEPT ![r] = "active"]
    /\ Goto(r, "started")
    /\ UNCHANGED <<row, permitVars, exc, reserved, requested, terminal, starting, workerProc,
                   flagged, handler>>

Started(r) ==
    /\ at[r] = "started"
    /\ starting' = starting \ {r}
    /\ Goto(r, "loop")
    /\ UNCHANGED <<row, permitVars, exc, reserved, requested, terminal, where, workerProc,
                   flagged, handler>>

(* Mutant: the loop looks only at the flag the handler sets on a worker.   *)
CancelSeen_FlagOnly(r) == r \in flagged

CancelSeen(r) == r \in requested \/ r \in flagged

LoopCancelled(r) ==
    /\ at[r] = "loop"
    /\ CancelSeen(r)
    /\ \E ok \in BOOLEAN :
         /\ Terminate(r, ok)
         /\ exc' = [exc EXCEPT ![r] = IF ok THEN "cancelled" ELSE "error"]
    /\ Goto(r, "final")
    /\ UNCHANGED <<row, permitVars, reserved, requested, terminal, registryVars, flagged,
                   handler>>

(* A result or an error arrives, or the worker exits without one.  The     *)
(* cancel requests were looked at before the queue was waited on.          *)
LoopEnds(r) ==
    /\ at[r] = "loop"
    /\ exc' \in {[exc EXCEPT ![r] = e] : e \in {"ok", "error"}}
    /\ Goto(r, "final")
    /\ UNCHANGED <<row, permitVars, reserved, requested, terminal, registryVars, workerProc,
                   flagged, handler>>

(* The finally clause: the worker is dropped only when proven gone.        *)
Final(r) ==
    /\ at[r] = "final"
    /\ \/ /\ Terminate(r, TRUE)
          /\ Goto(r, "drop")
          /\ UNCHANGED exc
       \/ /\ Terminate(r, FALSE)
          /\ Goto(r, "returned")
          /\ exc' = [exc EXCEPT ![r] = "error"]
    /\ UNCHANGED <<row, permitVars, reserved, requested, terminal, registryVars, flagged,
                   handler>>

(* Closing the queue may still turn the end into an error.                 *)
Drop(r) ==
    /\ at[r] = "drop"
    /\ Unregister(r)
    /\ Goto(r, "returned")
    /\ exc' \in {exc, [exc EXCEPT ![r] = "error"]}
    /\ UNCHANGED <<row, reserved, requested, terminal, starting, workerProc, flagged, handler>>

(* The worker ends by itself: its supervisor proves the family gone, or    *)
(* dies before it can.                                                     *)
WorkerExits(r) ==
    /\ workerProc[r] = "alive"
    /\ \E p \in {"stopped", "orphaned"} : workerProc' = [workerProc EXCEPT ![r] = p]
    /\ UNCHANGED <<row, permitVars, taskVars, requested, terminal, registryVars, flagged,
                   handler>>

(***************************************************************************)
(* POST /runs/{id}/action?action=cancel, one request per run at a time.    *)
(***************************************************************************)
(* The request is refused, and nothing changes, once an outcome is sealed. *)
CancelRequest(r) ==
    /\ handler[r].at = "idle"
    /\ row[r] \notin {"none", "deleted"}
    /\ terminal[r] = NoOutcome
    /\ requested' = requested \cup {r}
    /\ handler' = [handler EXCEPT ![r] = [at |-> "scan", found |-> FALSE,
                                          live |-> row[r] = "running"]]
    /\ UNCHANGED <<row, permitVars, taskVars, terminal, registryVars, workerProc, flagged>>

(* No owner is left: the run is sealed and the request answered.  The row  *)
(* is written only when a worker was found, the task is left to do it      *)
(* otherwise.                                                              *)
CancelSealed(r) ==
    /\ handler[r].at = "scan"
    /\ Quiescent(r)
    /\ SealCancelled(r)
    /\ IF handler[r].live /\ handler[r].found
       THEN SetRow(r, "cancelled")
       ELSE UNCHANGED row
    /\ requested' = IF handler[r].live /\ ~handler[r].found
                    THEN requested
                    ELSE requested \ {r}
    /\ handler' = [handler EXCEPT ![r] = Idle]
    /\ UNCHANGED <<permitVars, taskVars, registryVars, workerProc, flagged>>

CancelFinds(r) ==
    /\ handler[r].at = "scan"
    /\ where[r] # "none"
    /\ flagged' = flagged \cup {r}
    /\ handler' = [handler EXCEPT ![r].at = "cleanup", ![r].found = TRUE]
    /\ UNCHANGED <<row, permitVars, taskVars, requested, terminal, registryVars, workerProc>>

(* The worker is proven gone, or the request is answered 503.              *)
CancelTerminates(r) ==
    /\ handler[r].at = "cleanup"
    /\ \/ /\ Terminate(r, TRUE)
          /\ handler' = [handler EXCEPT ![r].at = "drop"]
       \/ /\ Terminate(r, FALSE)
          /\ handler' = [handler EXCEPT ![r] = Idle]
    /\ UNCHANGED <<row, permitVars, taskVars, requested, terminal, registryVars, flagged>>

CancelDrops(r) ==
    /\ handler[r].at = "drop"
    /\ Unregister(r)
    /\ handler' = [handler EXCEPT ![r].at = "scan"]
    /\ UNCHANGED <<row, taskVars, requested, terminal, starting, workerProc, flagged>>

(* The deadline of ten seconds passes: 503, the request stays recorded.    *)
CancelTimesOut(r) ==
    /\ handler[r].at \in {"scan", "cleanup"}
    /\ Owned(r)
    /\ handler' = [handler EXCEPT ![r] = Idle]
    /\ UNCHANGED <<row, permitVars, taskVars, requested, terminal, registryVars, workerProc,
                   flagged>>

DeleteRun(r) ==
    /\ row[r] \notin {"none", "deleted"}
    /\ row' = [row EXCEPT ![r] = "deleted"]
    /\ UNCHANGED <<permitVars, taskVars, requested, terminal, registryVars, workerProc, flagged,
                   handler>>

(***************************************************************************)
(* The specification.                                                      *)
(***************************************************************************)
Task(r) ==
    \/ LoadStage(r) \/ LoadFails(r) \/ LoadFailed(r) \/ SetupRaises(r)
    \/ TaskReturns(r) \/ TaskCancelled(r) \/ TaskRaised(r)
    \/ SaveResult(r) \/ SaveFails(r) \/ TaskFailed(r) \/ Finally(r)

Thread(r) ==
    \/ Admit(r) \/ StartProcess(r) \/ Isolate(r) \/ Undo(r) \/ Unstart(r)
    \/ Register(r) \/ Started(r) \/ LoopCancelled(r) \/ LoopEnds(r)
    \/ Final(r) \/ Drop(r)

CancelStep(r) ==
    \/ CancelSealed(r) \/ CancelFinds(r) \/ CancelTerminates(r) \/ CancelDrops(r)
    \/ CancelTimesOut(r)

RunNext ==
    \E r \in Runs :
        \/ Submit(r) \/ SubmitUndone(r) \/ SubmitWithoutJob(r)
        \/ Task(r) \/ Thread(r)
        \/ WorkerExits(r)
        \/ CancelRequest(r) \/ CancelStep(r)
        \/ DeleteRun(r)

RunSpec == RunInit /\ [][RunNext]_runVars

(* The event loop runs every ready task, the executor pool every submitted *)
(* call, and each wait of the thread is bounded except the one for the     *)
(* worker's result, which ends only when LoopCancelled or LoopEnds can.    *)
Advances(r) ==
    \/ Task(r)
    \/ Admit(r) \/ StartProcess(r) \/ Isolate(r) \/ Undo(r) \/ Unstart(r)
    \/ Register(r) \/ Started(r) \/ LoopCancelled(r) \/ Final(r) \/ Drop(r)

RunFairSpec ==
    /\ RunSpec
    /\ \A r \in Runs : WF_runVars(Advances(r)) /\ WF_runVars(CancelStep(r))

(***************************************************************************)
(* Properties.                                                             *)
(***************************************************************************)
(* Every permit is free or held on behalf of exactly one run: no path      *)
(* releases a lease twice or forgets to.  And no more worker process       *)
(* families than permits exist at any time, those whose cleanup could not  *)
(* be proven included.                                                     *)
PermitsConserved ==
    /\ permits + Cardinality({r \in Runs : lease[r] # "free"}) = Capacity
    /\ Cardinality({r \in Runs : workerProc[r] \in {"alive", "orphaned"}}) <= Capacity

(* A run sealed as cancelled or successful, or recorded as cancelled by    *)
(* whoever writes the row, owns no worker, is not starting one, and its    *)
(* worker process family has stopped (docs/api-ui-security.md).            *)
TerminalMeansStopped ==
    \A r \in Runs :
        terminal[r] \in {"cancelled", "success"} \/ row[r] = "cancelled" =>
            ~Owned(r) /\ workerProc[r] \in {"none", "stopped"}

(* A run that is over is over everywhere: its worker family has stopped    *)
(* and its permit is neither lost nor released twice                       *)
(* (_seal_backtest_terminal_if_quiescent, _BacktestAdmissionLimiter).      *)
StoppedAndReleased == RunTypeOK /\ TerminalMeansStopped /\ PermitsConserved

(* A run recorded as done had its success reserved and stays done until it *)
(* is deleted.                                                             *)
DoneIsFinal ==
    [][\A r \in Runs :
        /\ row[r] = "done" => row'[r] \in {"done", "deleted"}
        /\ row'[r] = "done" => terminal[r] = "success"]_runVars

(* An accepted cancel ends the background task of a run whose task is      *)
(* scheduled, even when its worker would run for ever.                     *)
CancelEndsTask ==
    \A r \in Runs : r \in requested ~> at[r] = "done"

(* What the API answers: a "cancelling" run is polled until it is terminal.*)
CancelSettles ==
    \A r \in Runs : r \in requested /\ lease[r] # "lost" ~> row[r] # "running"

=============================================================================
