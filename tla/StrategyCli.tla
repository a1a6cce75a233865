----------------------------- MODULE StrategyCli -----------------------------
(***************************************************************************)
(* The `openpine strategy` and `openpine data repair` commands             *)
(* (cli/main.py, cli/runtime_helpers.py, cli/data.py) beside the gateway.  *)
(*                                                                         *)
(* A command is a process with a registry connection of its own: it reads  *)
(* the row in one transaction and writes it in later ones.  Commands that  *)
(* enable a strategy ask the gateway over HTTP.  The gateway's fan-out     *)
(* makes a job of every closed bar for the strategies that are enabled.    *)
(***************************************************************************)
EXTENDS StrategyRegistry

CONSTANTS
    CliProcs,    \* command line processes
    MaxCommands  \* bound: commands per process

ASSUME CliAssumption ==
    /\ {"error", "disabled"} \subseteq Statuses /\ "none" \notin Statuses
    /\ {"paper", "live"} \subseteq Modes /\ MaxCommands \in Nat

VARIABLES
    cli,     \* the command each process runs
    fanned,  \* strategies the latest bar made jobs for
    halted   \* strategies paused by `strategy pause` and not started since

cliVars == <<rows, circuit, cli, fanned, halted>>

Commands ==
    {"pause", "resume", "remove", "update", "enable", "disable", "paper start", "paper stop",
     "live enable", "live start", "live stop", "error clear", "repair", "backtest", "replay",
     "create"}

Steps ==
    {"none", "got", "created", "ready", "window", "artifact", "bars", "config", "bind", "run", "persist",
     "snapshot", "settle", "end"}

NoCommand == [cmd |-> "none", sid |-> "none", at |-> "none", seen |-> "none", wrote |-> "none",
         result |-> "none", left |-> MaxCommands]

(* The types of the variables.                                             *)
CliTypeOK ==
    /\ RegistryTypeOK
    /\ cli \in [CliProcs -> [cmd: Commands \cup {"none"}, sid: Strategies \cup {"none"},
                             at: Steps, seen: Statuses \cup {"none"},
                             wrote: Statuses \cup {"none"},
                             result: {"none", "ok", "refused", "failed", "raised"},
                             left: 0 .. MaxCommands]]
    /\ fanned \subseteq Strategies /\ halted \subseteq Strategies

CliInit ==
    /\ RegistryInit
    /\ cli = [p \in CliProcs |-> NoCommand]
    /\ fanned = {} /\ halted = {}

-----------------------------------------------------------------------------
(* Steps of a command *)

At(p, cmds, step) == cli[p].cmd \in cmds /\ cli[p].at = step

Goes(p, step) == cli' = [cli EXCEPT ![p].at = step]

Ends(p, result) == cli' = [cli EXCEPT ![p].at = "end", ![p].result = result]

(* registry.update_status: raises when the row is gone by now.             *)
WritesAnd(p, st, step, result) ==
    LET s == cli[p].sid
    IN \/ /\ UpdateStatus(s, st)
          /\ cli' = [cli EXCEPT ![p].at = step, ![p].result = result, ![p].wrote = st]
       \/ /\ s \notin DOMAIN rows
          /\ Ends(p, "raised")
          /\ UNCHANGED registryVars

(* The command is started and reads the strategy; an unknown one ends it.  *)
Begin(p, c, s) ==
    /\ cli[p].at \in {"none", "end"} /\ cli[p].left > 0
    /\ cli' = [cli EXCEPT ![p] =
                  [cmd |-> c, sid |-> s, left |-> @.left - 1, wrote |-> "none",
                   at |-> IF s \in DOMAIN rows THEN "got" ELSE "end",
                   seen |-> IF s \in DOMAIN rows THEN rows[s].status ELSE "none",
                   result |-> IF s \in DOMAIN rows THEN "none" ELSE "refused"]]
    /\ UNCHANGED <<rows, circuit, fanned, halted>>

(* strategy pause: the status only, enabled stays as it is.                *)
Pause(p) ==
    /\ At(p, {"pause"}, "got")
    /\ WritesAnd(p, "paused", "end", "ok")
    /\ halted' = halted \cup ({cli[p].sid} \cap DOMAIN rows)
    /\ UNCHANGED fanned

(* strategy resume: also ends in "paused", unless the strategy failed.     *)
Resume(p) ==
    /\ At(p, {"resume"}, "got")
    /\ \/ cli[p].seen = "error" /\ Ends(p, "refused") /\ UNCHANGED registryVars
       \/ cli[p].seen # "error" /\ WritesAnd(p, "paused", "end", "ok")
    /\ UNCHANGED <<fanned, halted>>

RemoveStrategy(p) ==
    /\ At(p, {"remove"}, "got")
    /\ \/ DeleteStrategy(cli[p].sid) /\ Ends(p, "ok")
       \/ cli[p].sid \notin DOMAIN rows /\ Ends(p, "raised") /\ UNCHANGED registryVars
    /\ UNCHANGED <<fanned, halted>>

(* strategy update: the parameters are written by patch_strategy_atomic,   *)
(* which checks what an enabled strategy must satisfy.                     *)
Update(p) ==
    /\ At(p, {"update"}, "got")
    /\ \/ PatchStrategy(cli[p].sid, {}, {}, {}) /\ Ends(p, "ok")
       \/ ~ENABLED PatchStrategy(cli[p].sid, {}, {}, {}) /\ Ends(p, "raised") /\ UNCHANGED registryVars
    /\ UNCHANGED <<fanned, halted>>

Disable(p) ==
    /\ At(p, {"disable"}, "got")
    /\ \/ SetEnabled(cli[p].sid, FALSE) /\ Ends(p, "ok")
       \/ cli[p].sid \notin DOMAIN rows /\ Ends(p, "raised") /\ UNCHANGED registryVars
    /\ UNCHANGED <<fanned, halted>>

(* strategy error clear --to st.                                           *)
ErrorClear(p, st) ==
    /\ At(p, {"error clear"}, "got") /\ st \in {"paused", "disabled"}
    /\ \/ cli[p].seen # "error" /\ Ends(p, "refused") /\ UNCHANGED registryVars
       \/ cli[p].seen = "error" /\ WritesAnd(p, st, "end", "ok")
    /\ UNCHANGED <<fanned, halted>>

(* data repair queues a backfill job and pauses the strategies of the      *)
(* market that it read as running.                                         *)
Repair(p) ==
    /\ At(p, {"repair"}, "got")
    /\ \/ cli[p].seen # "running" /\ Ends(p, "ok") /\ UNCHANGED registryVars
       \/ cli[p].seen = "running" /\ WritesAnd(p, "paused", "end", "ok")
    /\ UNCHANGED <<fanned, halted>>

(* _strategy_transition_via_gateway: the gateway answers with an error, or *)
(* does what the endpoint does (StartRoute, EnableRoute and StopRoute of   *)
(* WorkerSupervisor), or cannot be reached.                                *)
Endpoint(c, s) ==
    CASE c \in {"enable", "live enable"} -> ActivateStrategy(s, rows[s].status, rows[s].mode)
      [] c = "paper start" -> rows[s].status # "error" /\ ActivateStrategy(s, "running", "paper")
      [] c = "live start"  -> rows[s].status # "error" /\ ActivateStrategy(s, "running", "live")
      [] c = "paper stop"  -> TransitionStrategy(s, FALSE, "paused", rows[s].mode)
      [] OTHER             -> TransitionStrategy(s, FALSE, "disabled", rows[s].mode)

ViaGateway(p) ==
    LET c == cli[p].cmd
        s == cli[p].sid
        refused == c \in {"paper start", "live enable", "live start"} /\ cli[p].seen = "error"
    IN /\ At(p, {"enable", "paper start", "paper stop", "live enable", "live start", "live stop"}, "got")
       /\ \/ /\ ~refused /\ s \in DOMAIN rows /\ Endpoint(c, s) /\ Ends(p, "ok")
             /\ halted' = IF c \in {"paper stop", "live stop"} THEN halted ELSE halted \ {s}
          \/ Ends(p, "refused") /\ UNCHANGED <<rows, circuit, halted>>
       /\ UNCHANGED fanned

-----------------------------------------------------------------------------
(* strategy backtest and strategy replay *)

RunCommands == {"backtest", "replay"}

(* The backtest marks the strategy as running before it looks at it.       *)
MarkRunning(p) ==
    /\ At(p, RunCommands, "got")
    /\ IF cli[p].cmd = "backtest"
       THEN WritesAnd(p, "running", "ready", "none")
       ELSE Goes(p, "ready") /\ UNCHANGED registryVars
    /\ UNCHANGED <<fanned, halted>>

(* The checks, each of which pauses the strategy and exits when it fails:  *)
(* no source or artifact, an empty window, an artifact that cannot be      *)
(* captured, no bars.                                                      *)
Checks == {"ready", "window", "artifact", "bars"}
CommandAfter == [ready |-> "window", window |-> "artifact", artifact |-> "bars", bars |-> "config"]

CheckPasses(p) ==
    /\ \E step \in Checks : At(p, RunCommands, step) /\ Goes(p, CommandAfter[step])
    /\ UNCHANGED <<rows, circuit, fanned, halted>>

(* Mutant: the check exits without putting the status back.                *)
CheckFails_Bare(p) ==
    /\ \E step \in Checks : At(p, RunCommands, step) /\ Ends(p, "refused")
    /\ UNCHANGED <<rows, circuit, fanned, halted>>

CheckFails(p) ==
    /\ \E step \in Checks : At(p, RunCommands, step) /\ WritesAnd(p, "paused", "end", "refused")
    /\ UNCHANGED <<fanned, halted>>

(* Loading the bars (a gap under the default policy "fail"), the artifact's*)
(* declaration, the configuration or the MTF series may raise, which no    *)
(* command catches; the replay also binds its identity outside the try.    *)
PrepareRaises(p) ==
    /\ \/ \E step \in {"window", "bars", "config"} : At(p, RunCommands, step)
       \/ At(p, {"replay"}, "bind")
    /\ Ends(p, "raised")
    /\ UNCHANGED <<rows, circuit, fanned, halted>>

Configured(p) ==
    /\ At(p, RunCommands, "config")
    /\ Goes(p, "bind")
    /\ UNCHANGED <<rows, circuit, fanned, halted>>

MarkRunningAgain(p) ==
    /\ At(p, RunCommands, "bind")
    /\ WritesAnd(p, "running", "run", "none")
    /\ UNCHANGED <<fanned, halted>>

RunReturns(p) ==
    /\ At(p, RunCommands, "run")
    /\ Goes(p, IF cli[p].cmd = "backtest" THEN "persist" ELSE "settle")
    /\ UNCHANGED <<rows, circuit, fanned, halted>>

(* The isolated run, or binding it, fails: the strategy is in error.       *)
RunFails(p) ==
    /\ At(p, RunCommands, "run")
    /\ WritesAnd(p, "error", "end", "failed")
    /\ UNCHANGED <<fanned, halted>>

(* Saving the result; a failure is only reported.                          *)
PersistResult(p) ==
    /\ At(p, {"backtest"}, "persist")
    /\ Goes(p, "snapshot")
    /\ UNCHANGED <<rows, circuit, fanned, halted>>

(* Saving the resume snapshot, when the result has one.                    *)
SaveSnapshot(p) ==
    /\ At(p, {"backtest"}, "snapshot")
    /\ Goes(p, "settle")
    /\ UNCHANGED <<rows, circuit, fanned, halted>>

Settle(p) ==
    /\ At(p, RunCommands, "settle")
    /\ WritesAnd(p, "paused", "end", "ok")
    /\ UNCHANGED <<fanned, halted>>

-----------------------------------------------------------------------------
(* Creating a strategy takes two transactions: the row, then the status    *)
(* that goes with the mode.                                                *)
InitialStatus(m) ==
    CASE m \in {"observe", "paper"} -> "paused"
      [] m = "live"                 -> "disabled"
      [] OTHER                      -> "pending"

Create(p, s, m) ==
    /\ cli[p].at \in {"none", "end"} /\ cli[p].left > 0
    /\ CreateStrategy(s, m)
    /\ cli' = [cli EXCEPT ![p] = [NoCommand EXCEPT !.cmd = "create", !.sid = s, !.at = "created",
                                             !.left = cli[p].left - 1]]
    /\ UNCHANGED <<fanned, halted>>

CreateStatus(p, m) ==
    /\ At(p, {"create"}, "created")
    /\ cli[p].sid \in DOMAIN rows => rows[cli[p].sid].mode = m
    /\ WritesAnd(p, InitialStatus(m), "end", "ok")
    /\ UNCHANGED <<fanned, halted>>

(* The background worker trips the circuit; an operator resets it.         *)
Trip == (TripWorkerCircuit \/ ResetWorkerCircuit) /\ UNCHANGED <<cli, fanned, halted>>

(* A strategy registered through the gateway.                              *)
Registered ==
    /\ \E s \in Strategies, m \in Modes : CreateStrategy(s, m)
    /\ UNCHANGED <<cli, fanned, halted>>

(* A closed bar: _enabled_strategies_for_market and one job for each.      *)
FanOut ==
    /\ fanned' = {s \in DOMAIN rows : rows[s].enabled}
    /\ UNCHANGED <<rows, circuit, cli, halted>>

CliNext ==
    \/ \E p \in CliProcs :
        \/ \E c \in Commands \ {"create"}, s \in Strategies : Begin(p, c, s)
        \/ Pause(p) \/ Resume(p) \/ RemoveStrategy(p) \/ Update(p) \/ Disable(p) \/ Repair(p)
        \/ \E st \in {"paused", "disabled"} : ErrorClear(p, st)
        \/ ViaGateway(p)
        \/ MarkRunning(p) \/ CheckPasses(p) \/ CheckFails(p) \/ PrepareRaises(p)
        \/ Configured(p) \/ MarkRunningAgain(p) \/ RunReturns(p) \/ RunFails(p)
        \/ PersistResult(p) \/ SaveSnapshot(p) \/ Settle(p)
        \/ \E s \in Strategies, m \in Modes : Create(p, s, m)
        \/ \E m \in Modes : CreateStatus(p, m)
    \/ Registered
    \/ Trip
    \/ FanOut

CliSpec == CliInit /\ [][CliNext]_cliVars

-----------------------------------------------------------------------------
VerdictMatches ==
    \A p \in CliProcs :
        cli[p].cmd \in RunCommands /\ cli[p].at = "end" /\ cli[p].result \in {"ok", "refused", "failed"} =>
            cli[p].wrote = CASE cli[p].result = "failed" -> "error"
                             [] cli[p].seen = "none"     -> "none"
                             [] OTHER                    -> "paused"

(* A backtest or replay that reports its outcome, at whichever check it    *)
(* exits, has put the status it set to "running" back: to "paused", or to  *)
(* "error" when the run failed.                                            *)
VerdictIsWritten == CliTypeOK /\ VerdictMatches

(* A strategy that `strategy pause` has paused gets no bars to process     *)
(* until it is started or enabled again.                                   *)
PausedGetsNoBars == [][fanned' = fanned \/ fanned' \cap halted = {}]_cliVars
=============================================================================
