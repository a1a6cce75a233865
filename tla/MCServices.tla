----------------------------- MODULE MCServices -----------------------------
(***************************************************************************)
(* The long-running services for TLC: the gateway's supervised worker with *)
(* the strategy registry, the daemon's Telegram bot, and the bot's menus.  *)
(* They share no state, so `part` chooses the one a behaviour is about.    *)
(***************************************************************************)
EXTENDS WorkerSupervisor, TelegramService

VARIABLE part

servicesVars == <<vars, botVars, menuVars, part>>

ServicesInit ==
    /\ part \in {"supervisor", "bot", "menu"}
    /\ Init /\ BotInit /\ MenuInit
    /\ part # "supervisor" => circuit

(* The daemon is not running and nobody starts it.                         *)
BotRests == part = "bot" /\ service = "stopped" /\ boots = MaxBoots /\ UNCHANGED servicesVars

ServicesNext ==
    \/ part = "supervisor" /\ Next /\ UNCHANGED <<botVars, menuVars, part>>
    \/ part = "bot" /\ BotNext /\ UNCHANGED <<vars, menuVars, part>>
    \/ part = "menu" /\ MenuNext /\ UNCHANGED <<vars, botVars, part>>
    \/ BotRests

(* The fairness of FairSpec and BotSpec, each for its own part.            *)
ServicesSpec ==
    /\ ServicesInit /\ [][ServicesNext]_servicesVars
    /\ WF_vars(part = "supervisor" /\ MonitorStep)
    /\ WF_vars(part = "supervisor" /\ FailSafeDone)
    /\ WF_vars(part = "supervisor" /\ StopStep)
    /\ WF_botVars(part = "bot" /\ BeginPoll)
    /\ SF_botVars(part = "bot" /\ UpdatesArrive)
    /\ WF_botVars(part = "bot" /\ Process)

(* A supervisor always comes to an end with what it does: an incident to a *)
(* restart or to giving up (_monitor), a shutdown to its return (stop),    *)
(* although the worker and the fail-safe's thread may hang.                *)
SupervisorSettles == IncidentSettles /\ StopReturns
=============================================================================
