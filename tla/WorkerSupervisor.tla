-------------------------- MODULE WorkerSupervisor --------------------------
(***************************************************************************)
(* The supervisor of the gateway's background worker process,              *)
(* openpine/gateway/worker_supervisor.py, with the fail-safe that          *)
(* gateway/server.py gives it (trip_worker_circuit of the registry), the   *)
(* worker process, the activation routes and the shutdown of the gateway.  *)
(*                                                                         *)
(* The monitor is an asyncio task; an action is its code between two       *)
(* awaits.  The fail-safe runs in a thread, and its task outlives a        *)
(* monitor that stops waiting for it.  is_alive() may raise, so a process  *)
(* is observed alive, dead or "unknown".                                   *)
(***************************************************************************)
EXTENDS StrategyRegistry

CONSTANTS
    MaxRestarts,   \* SupervisorConfig.max_restarts
    MaxAttempts    \* SupervisorConfig.fail_safe_max_attempts

ASSUME ConfigAssumption == MaxRestarts \in Nat /\ MaxAttempts \in Nat \ {0}

VARIABLES
    started,    \* _process is not None
    alive,      \* the process _process is running
    others,     \* number of running processes _process no longer refers to
    ready,      \* its ready event is set
    stale,      \* its heartbeat is missing or old
    slow,       \* the startup readiness timeout has passed
    mon,        \* where the monitor task is
    cause,      \* why it calls the fail-safe, or restarts
    neverLive,  \* _start_failed_liveness is False
    recent,     \* length of _restart_times within the window
    degraded,   \* _degraded
    reason,     \* _reason, as far as the monitor reads it
    fsStatus,   \* _fail_safe_status
    fsTask,     \* the fail-safe call in flight: running, or returned / raised
    fsAttempt,  \* _fail_safe_attempts
    stop        \* where stop() is, and what it returned

procVars == <<started, alive, others, ready, stale, slow>>
healthVars == <<degraded, reason>>
fsVars == <<fsStatus, fsTask, fsAttempt>>
superVars == <<procVars, mon, cause, neverLive, recent, healthVars, fsVars, stop>>
vars == <<registryVars, superVars>>

Causes == {"none", "stale", "slow", "unknown", "error", "exhausted", "contain"}

(* The types of the variables.                                             *)
TypeOK ==
    /\ RegistryTypeOK
    /\ started \in BOOLEAN /\ alive \in BOOLEAN /\ others \in Nat
    /\ ready \in BOOLEAN /\ stale \in BOOLEAN /\ slow \in BOOLEAN
    /\ mon \in {"off", "contain", "restart", "backoff", "poll", "fsBegin", "fsWait",
                "fsSleep", "terminate", "waitFs", "ended"}
    /\ cause \in Causes
    /\ neverLive \in BOOLEAN
    /\ recent \in 0..MaxRestarts
    /\ degraded \in BOOLEAN
    /\ reason \in {"none", "starting", "restarted", "ready", "other"}
    /\ fsStatus \in {"not_run", "running", "ok", "failed"}
    /\ fsTask \in {"none", "running", "returned", "raised"}
    /\ fsAttempt \in 0..MaxAttempts
    /\ stop \in {"none", "awaitFs", "join", "joinUnsafe", "closed", "unsafe"}

(* The strategies a previous life of the gateway left behind, before       *)
(* lifespan() starts the supervisor.                                       *)
Init ==
    /\ rows \in [Strategies -> [enabled: BOOLEAN, archived: {FALSE}, status: {"paused"}, mode: Modes]]
    /\ circuit \in BOOLEAN
    /\ circuit => \A s \in Strategies : ~rows[s].enabled
    /\ started = FALSE /\ alive = FALSE /\ others = 0
    /\ ready = FALSE /\ stale = TRUE /\ slow = FALSE
    /\ mon = "off" /\ cause = "none" /\ neverLive = FALSE
    /\ recent = 0
    /\ degraded = FALSE /\ reason = "none"
    /\ fsStatus = "not_run" /\ fsTask = "none" /\ fsAttempt = 0
    /\ stop = "none"

-----------------------------------------------------------------------------
(* Processes                                                               *)

(* What _safe_is_alive may answer.                                         *)
Observed == {"unknown", IF alive THEN "alive" ELSE "dead"}

(* The fields of a process that process.start() was called for.            *)
NewProcess(runs) ==
    /\ started' = TRUE
    /\ others' = others + (IF alive THEN 1 ELSE 0)
    /\ alive' = runs
    /\ ready' = FALSE /\ stale' = TRUE /\ slow' = FALSE

Degrade(r) == degraded' = TRUE /\ reason' = r

(* The three outcomes of _start_process.                                   *)
ProcessStarted(r) ==
    /\ NewProcess(TRUE)
    /\ mon' = "poll"
    /\ Degrade(r)
    /\ UNCHANGED <<cause, neverLive>>

FactoryFailed ==
    /\ mon' = "restart"
    /\ Degrade("other")
    /\ UNCHANGED <<procVars, cause, neverLive>>

(* process.start() raised; the process may exist all the same.             *)
StartFailed ==
    /\ \E runs \in BOOLEAN : NewProcess(runs)
    /\ \E seen \in Observed' : neverLive' = (seen = "dead")
    /\ mon' = "contain"
    /\ Degrade("other")
    /\ UNCHANGED cause

(* lifespan(): resets the circuit and calls start().                       *)
Start ==
    /\ mon = "off" /\ stop = "none" /\ ~started
    /\ ResetWorkerCircuit
    /\ \/ ProcessStarted("starting")
       \/ FactoryFailed
       \/ StartFailed
    /\ UNCHANGED <<recent, fsVars, stop>>

WorkerReady ==
    /\ alive
    /\ ready' = TRUE /\ stale' = FALSE
    /\ UNCHANGED <<registryVars, started, alive, others, slow, mon, cause, neverLive, recent, healthVars, fsVars, stop>>

HeartbeatLate ==
    /\ ready /\ ~stale
    /\ stale' = TRUE
    /\ UNCHANGED <<registryVars, started, alive, others, ready, slow, mon, cause, neverLive, recent, healthVars, fsVars, stop>>

StartupTimePasses ==
    /\ started /\ ~slow
    /\ slow' = TRUE
    /\ UNCHANGED <<registryVars, started, alive, others, ready, stale, mon, cause, neverLive, recent, healthVars, fsVars, stop>>

WorkerDies ==
    /\ alive
    /\ alive' = FALSE
    /\ UNCHANGED <<registryVars, started, others, ready, stale, slow, mon, cause, neverLive, recent, healthVars, fsVars, stop>>

RestartLeavesWindow ==
    /\ recent > 0
    /\ recent' = recent - 1
    /\ UNCHANGED <<registryVars, procVars, mon, cause, neverLive, healthVars, fsVars, stop>>

-----------------------------------------------------------------------------
(* The monitor task                                                        *)

CallFailSafe(c) == mon' = "fsBegin" /\ cause' = c

(* One round of _monitor.  The process is observed, and once more by       *)
(* snapshot() when it was alive.                                           *)
PollUnknown ==
    /\ mon = "poll"
    /\ CallFailSafe("unknown")
    /\ Degrade("other")
    /\ UNCHANGED <<registryVars, procVars, neverLive, recent, fsVars, stop>>

PollDead ==
    /\ mon = "poll" /\ ~alive
    /\ mon' = "restart" /\ cause' = "none"
    /\ UNCHANGED <<registryVars, procVars, neverLive, recent, healthVars, fsVars, stop>>

Healthy == alive /\ ready /\ ~stale

PollHealthy ==
    /\ mon = "poll" /\ Healthy
    /\ reason \in {"starting", "restarted"}
    /\ fsStatus \in {"not_run", "ok"}
    /\ degraded' = FALSE /\ reason' = "ready"
    /\ UNCHANGED <<registryVars, procVars, mon, cause, neverLive, recent, fsVars, stop>>

(* snapshot() found the heartbeat old or failed to observe the process.    *)
PollStale ==
    /\ mon = "poll" /\ alive /\ ready
    /\ \E again \in Observed : ~(again = "alive" /\ ~stale)
    /\ CallFailSafe("stale")
    /\ Degrade("other")
    /\ UNCHANGED <<registryVars, procVars, neverLive, recent, fsVars, stop>>

PollSlow ==
    /\ mon = "poll" /\ alive /\ ~ready /\ slow
    /\ CallFailSafe("slow")
    /\ Degrade("other")
    /\ UNCHANGED <<registryVars, procVars, neverLive, recent, fsVars, stop>>

(* The except clause at the end of the loop.                               *)
MonitorError ==
    /\ mon = "poll"
    /\ CallFailSafe("error")
    /\ Degrade("other")
    /\ UNCHANGED <<registryVars, procVars, neverLive, recent, fsVars, stop>>

(* _invoke_fail_safe_safely: an attempt.                                   *)
FailSafeAttempt ==
    /\ mon \in {"fsBegin", "fsSleep"}
    /\ fsAttempt' = IF mon = "fsBegin" THEN 1 ELSE fsAttempt + 1
    /\ fsStatus' = "running" /\ fsTask' = "running"
    /\ mon' = "fsWait"
    /\ UNCHANGED <<registryVars, procVars, cause, neverLive, recent, healthVars, stop>>

(* What follows the fail-safe.                                             *)
AfterFailSafe == mon' = IF cause \in {"exhausted", "contain"} THEN "ended" ELSE "terminate"

FailSafeAnswered ==
    /\ mon = "fsWait" /\ fsTask = "none"
    /\ IF fsStatus = "failed" /\ fsAttempt < MaxAttempts THEN mon' = "fsSleep" ELSE AfterFailSafe
    /\ UNCHANGED <<registryVars, procVars, cause, neverLive, recent, healthVars, fsVars, stop>>

FailSafeTimesOut ==
    /\ mon = "fsWait" /\ fsTask # "none"
    /\ fsStatus' = "running"
    /\ AfterFailSafe
    /\ UNCHANGED <<registryVars, procVars, cause, neverLive, recent, healthVars, fsTask, fsAttempt, stop>>

(* The thread of _call_fail_safe: it trips the circuit, or raises before   *)
(* or after the transaction.                                               *)
FailSafeThread ==
    /\ fsTask = "running"
    /\ \/ fsTask' = "returned" /\ TripWorkerCircuit
       \/ fsTask' = "raised" /\ TripWorkerCircuit
       \/ fsTask' = "raised" /\ UNCHANGED registryVars
    /\ UNCHANGED <<procVars, mon, cause, neverLive, recent, healthVars, fsStatus, fsAttempt, stop>>

(* Mutant: only a call that returned is cleared.                           *)
FailSafeDone_OnlyReturned ==
    /\ fsTask = "returned"
    /\ fsStatus' = "ok"
    /\ fsTask' = "none"
    /\ UNCHANGED <<registryVars, procVars, mon, cause, neverLive, recent, healthVars, fsAttempt, stop>>

(* _finish_fail_safe_task, the done callback on the event loop.            *)
FailSafeDone ==
    /\ fsTask \in {"returned", "raised"}
    /\ fsStatus' = IF fsTask = "returned" THEN "ok" ELSE "failed"
    /\ fsTask' = "none"
    /\ UNCHANGED <<registryVars, procVars, mon, cause, neverLive, recent, healthVars, fsAttempt, stop>>

(* _terminate_unhealthy_process: terminate, join, kill, join.  dead is     *)
(* what it returns; when it returns FALSE the process may be gone or not.  *)
Killed(dead) ==
    /\ alive' \in (IF dead THEN {FALSE} ELSE {alive, FALSE})
    /\ UNCHANGED <<started, others, ready, stale, slow>>

(* Mutant: the process is replaced whether or not it was seen dead.        *)
TerminateUnhealthy_Ignored ==
    /\ mon = "terminate"
    /\ \E dead \in BOOLEAN : Killed(dead)
    /\ mon' = IF cause \in {"stale", "slow"} THEN "waitFs" ELSE "ended"
    /\ UNCHANGED <<registryVars, cause, neverLive, recent, healthVars, fsVars, stop>>

TerminateUnhealthy ==
    /\ mon = "terminate"
    /\ \E dead \in BOOLEAN :
         /\ Killed(dead)
         /\ mon' = IF dead /\ cause \in {"stale", "slow"} THEN "waitFs" ELSE "ended"
         /\ IF dead THEN UNCHANGED healthVars ELSE Degrade("other")
    /\ UNCHANGED <<registryVars, cause, neverLive, recent, fsVars, stop>>

(* Mutant: the replacement does not wait for the fail-safe.                *)
WaitForFailSafe_NoWait ==
    /\ mon = "waitFs"
    /\ mon' = "restart"
    /\ UNCHANGED <<registryVars, procVars, cause, neverLive, recent, healthVars, fsVars, stop>>

(* _wait_for_fail_safe_before_restart, without a timeout.                  *)
WaitForFailSafe ==
    /\ mon = "waitFs" /\ fsTask = "none"
    /\ IF fsStatus = "ok"
       THEN mon' = "restart" /\ UNCHANGED healthVars
       ELSE mon' = "ended" /\ Degrade("other")
    /\ UNCHANGED <<registryVars, procVars, cause, neverLive, recent, fsVars, stop>>

-----------------------------------------------------------------------------
(* _restart_until_started                                                  *)

(* Mutant: a monitor that gives up after a crash loop ends silently.       *)
RestartBudget_Silent ==
    /\ mon = "restart"
    /\ IF recent >= MaxRestarts
       THEN /\ Degrade("other")
            /\ mon' = "ended" /\ UNCHANGED cause
       ELSE mon' = "backoff" /\ UNCHANGED <<cause, healthVars>>
    /\ UNCHANGED <<registryVars, procVars, neverLive, recent, fsVars, stop>>

RestartBudget ==
    /\ mon = "restart"
    /\ IF recent >= MaxRestarts
       THEN /\ Degrade("other")
            /\ IF cause = "none" THEN CallFailSafe("exhausted") ELSE mon' = "ended" /\ UNCHANGED cause
       ELSE mon' = "backoff" /\ UNCHANGED <<cause, healthVars>>
    /\ UNCHANGED <<registryVars, procVars, neverLive, recent, fsVars, stop>>

Restart ==
    /\ mon = "backoff"
    /\ recent' = recent + 1
    /\ \/ ProcessStarted("restarted")
       \/ FactoryFailed
       \/ StartFailed
    /\ UNCHANGED <<registryVars, fsVars, stop>>

(* _contain_start_failed_process and _ensure_terminal_fail_safe.           *)
ContainStartFailed ==
    /\ mon = "contain"
    /\ \E dead \in BOOLEAN :
         /\ Killed(dead)
         /\ IF dead /\ neverLive THEN mon' = "restart" /\ UNCHANGED cause
            ELSE IF fsStatus = "ok" THEN mon' = "ended" /\ UNCHANGED cause
            ELSE CallFailSafe("contain")
    /\ UNCHANGED <<registryVars, neverLive, recent, healthVars, fsVars, stop>>

-----------------------------------------------------------------------------
(* Shutdown: stop(), and lifespan() closing the state when it returns TRUE *)

(* The monitor is cancelled at the await it is in.                         *)
StopBegin ==
    /\ stop = "none" /\ mon # "off"
    /\ mon' = "off"
    /\ stop' = "awaitFs"
    /\ UNCHANGED <<registryVars, procVars, cause, neverLive, recent, healthVars, fsVars>>

(* _await_fail_safe_completion: done, or a timeout.                        *)
StopAwaitsFailSafe ==
    /\ stop = "awaitFs"
    /\ IF fsTask = "none"
       THEN stop' \in (IF fsStatus = "failed" THEN {"join", "joinUnsafe"} ELSE {"join"})
       ELSE stop' = "joinUnsafe"
    /\ IF stop' = "joinUnsafe" THEN Degrade("other") ELSE UNCHANGED healthVars
    /\ UNCHANGED <<registryVars, procVars, mon, cause, neverLive, recent, fsVars>>

(* stop_event, join, terminate, kill.                                      *)
StopProcess ==
    /\ stop \in {"join", "joinUnsafe"}
    /\ IF ~started
       THEN /\ stop' = IF stop = "join" THEN "closed" ELSE "unsafe"
            /\ UNCHANGED <<procVars, healthVars>>
       ELSE \E dead \in BOOLEAN :
              /\ Killed(dead)
              /\ stop' = IF dead /\ stop = "join" THEN "closed" ELSE "unsafe"
              /\ IF dead THEN UNCHANGED healthVars ELSE Degrade("other")
    /\ UNCHANGED <<registryVars, mon, cause, neverLive, recent, fsVars>>

-----------------------------------------------------------------------------
(* The API                                                                 *)

SupervisorUnchanged == UNCHANGED superVars

(* guarded_strategy_activation: the worker's health and the registry       *)
(* transaction are under the lock that the fail-safe takes too.            *)
Accepting == Healthy /\ ~degraded /\ stop = "none"

(* start_paper, start_live and the action "start": m is given or kept.     *)
StartRoute(s, m) ==
    /\ Accepting
    /\ s \in DOMAIN rows /\ rows[s].status # "error"
    /\ ActivateStrategy(s, "running", m)
    /\ SupervisorUnchanged

(* strategy_enable and the action "enable" keep status and mode.           *)
EnableRoute(s) ==
    /\ Accepting
    /\ s \in DOMAIN rows /\ ActivateStrategy(s, rows[s].status, rows[s].mode)
    /\ SupervisorUnchanged

(* stop_paper and the actions "stop" and "pause"; stop_live disables.      *)
StopRoute(s, st) ==
    /\ st \in {"paused", "disabled"}
    /\ s \in DOMAIN rows /\ TransitionStrategy(s, FALSE, st, rows[s].mode)
    /\ SupervisorUnchanged

ClearErrorRoute(s) ==
    /\ s \in DOMAIN rows /\ rows[s].status = "error"
    /\ TransitionStrategy(s, rows[s].enabled, "paused", rows[s].mode)
    /\ SupervisorUnchanged

(* update_strategy: only a patch that sets "enabled" asks for the worker.  *)
PatchRoute(s, e, a, st) ==
    /\ TRUE \in e => Accepting /\ TRUE \notin a
    /\ PatchStrategy(s, e, a, st)
    /\ SupervisorUnchanged

(* The other routes and the commands, which never enable a strategy.       *)
CreateRoute(s, m) == CreateStrategy(s, m) /\ SupervisorUnchanged

ArchiveRoute(s, a) == SetArchived(s, a) /\ SupervisorUnchanged

DisableRoute(s) == SetEnabled(s, FALSE) /\ SupervisorUnchanged

DeleteRoute(s) == DeleteStrategy(s) /\ SupervisorUnchanged

(* The openpine commands and a replay write the status by itself.          *)
StatusWrite(s) ==
    /\ \/ \E st \in Statuses : UpdateStatus(s, st)
       \/ \E m \in Modes : UpdateMode(s, m)
    /\ SupervisorUnchanged

(* A health request whose snapshot() fails to observe the process.         *)
HealthProbeFails ==
    /\ started /\ stop = "none"
    /\ Degrade("other")
    /\ UNCHANGED <<registryVars, procVars, mon, cause, neverLive, recent, fsVars, stop>>

-----------------------------------------------------------------------------
MonitorStep ==
    \/ PollUnknown \/ PollDead \/ PollHealthy \/ PollStale \/ PollSlow \/ MonitorError
    \/ FailSafeAttempt \/ FailSafeAnswered \/ FailSafeTimesOut
    \/ TerminateUnhealthy \/ WaitForFailSafe
    \/ RestartBudget \/ Restart \/ ContainStartFailed

StopStep == StopAwaitsFailSafe \/ StopProcess

Environment ==
    \/ WorkerReady \/ HeartbeatLate \/ StartupTimePasses \/ WorkerDies
    \/ RestartLeavesWindow \/ HealthProbeFails
    \/ \E s \in Strategies :
        \/ \E m \in Modes : StartRoute(s, m) \/ CreateRoute(s, m)
        \/ EnableRoute(s) \/ ClearErrorRoute(s) \/ DisableRoute(s) \/ DeleteRoute(s)
        \/ \E st \in Statuses : StopRoute(s, st)
        \/ \E a \in BOOLEAN : ArchiveRoute(s, a)
        \/ \E e, a \in Given(BOOLEAN), st \in Given(Statuses) : PatchRoute(s, e, a, st)
        \/ StatusWrite(s)

Next ==
    \/ Start
    \/ MonitorStep
    \/ FailSafeThread
    \/ FailSafeDone
    \/ StopBegin
    \/ StopStep
    \/ Environment

Spec == Init /\ [][Next]_vars

(* The event loop runs a task that can go on and a callback that is due;   *)
(* a join, a sleep and a wait with a timeout end.                          *)
FairSpec ==
    /\ Spec
    /\ WF_vars(MonitorStep)
    /\ WF_vars(FailSafeDone)
    /\ WF_vars(StopStep)

-----------------------------------------------------------------------------
(* Properties                                                              *)

(* The supervisor never has two workers: a process that it replaced, after *)
(* a crash, a stale heartbeat, a slow start or a start that raised, is     *)
(* dead, although is_alive may fail at any moment.                         *)
OneWorker == others = 0

(* A worker is replaced only once the fail-safe of the incident before has *)
(* ended, and after a stale heartbeat or a slow start only with the        *)
(* circuit open: no replacement runs strategies that were being paused.    *)
ReplacementIsSafe ==
    [][Restart => fsTask = "none" /\ (cause \in {"stale", "slow"} => circuit)]_vars

(* A monitor that gave up has called the fail-safe, and if it succeeded no *)
(* strategy is enabled from then on: no route brings one back for a worker *)
(* that nobody watches.                                                    *)
GivenUpIsFailClosed ==
    mon = "ended" =>
        /\ fsStatus # "not_run"
        /\ fsStatus = "ok" => circuit /\ \A s \in DOMAIN rows : ~rows[s].enabled

(* lifespan closes the databases only when no worker process and no        *)
(* fail-safe thread can still use them.                                    *)
ClosedIsQuiet == stop = "closed" => ~alive /\ others = 0 /\ fsTask = "none"

(* When nobody watches the worker any more nothing is left to run: a       *)
(* monitor that gave up leaves every strategy paused behind the circuit    *)
(* (_restart_until_started), and the databases are closed with no worker   *)
(* and no fail-safe thread left (stop, lifespan).                          *)
FailClosed == TypeOK /\ GivenUpIsFailClosed /\ ClosedIsQuiet

(* An incident is always dealt with: a monitor that calls the fail-safe    *)
(* comes to a restart or to its end, although it waits for the fail-safe   *)
(* without a timeout.  The fail-safe's thread has to end, which the busy   *)
(* timeout of its database connection makes it do.                         *)
IncidentSettles ==
    WF_vars(FailSafeThread) =>
        (mon \in {"fsBegin", "fsWait", "fsSleep", "terminate", "waitFs"}
            ~> mon \in {"restart", "ended", "off"})

(* stop() returns, whatever the worker process and the fail-safe's thread  *)
(* do: every wait in it has a timeout.                                     *)
StopReturns == stop = "awaitFs" ~> stop \in {"closed", "unsafe"}
=============================================================================
