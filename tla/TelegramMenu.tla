---------------------------- MODULE TelegramMenu ----------------------------
(***************************************************************************)
(* The inline keyboards of the Telegram bot (telegram_commands.py) and how *)
(* TelegramBotHandler answers a press (notifications/telegram.py): every   *)
(* keyboard a chat can be shown, the callback data of its buttons, and the *)
(* mapping from callback data to a command line or a menu.                 *)
(*                                                                         *)
(* Callback data is <<domain, action, argument>>: the colon-separated text *)
(* "op:domain:action:argument" with "" for a part that is left out.        *)
(***************************************************************************)
EXTENDS Integers, Sequences

CONSTANTS
    StrategyIds,  \* strategies that may be registered
    SourceIds     \* Pine sources that may be registered

(* No id is empty: _clean_callback_arg refuses to build a button for one.  *)
ASSUME MenuAssumption == "" \notin StrategyIds \cup SourceIds

VARIABLES
    statusOf,  \* registered strategies and their status
    sources,   \* registered Pine sources
    shown,     \* buttons of the keyboards in the chat
    answer     \* what the latest press led to

menuVars == <<statusOf, sources, shown, answer>>

Op(d, a, x) == <<"op", d, a, x>>
NoArg == ""

MenuStatuses == {"pending", "paused", "running", "error", "disabled"}

MenuInit ==
    /\ statusOf = << >> /\ sources = {}
    /\ shown = {} /\ answer = "none"

-----------------------------------------------------------------------------
(* The keyboards *)

home_menu_keyboard ==
    {Op("status", "", ""), Op("strategies", "list", ""), Op("pine", "list", ""),
     Op("risk", "status", ""), Op("menu", "data_jobs", ""), Op("reports", "list", ""),
     Op("plugins", "list", ""), Op("streams", "status", ""), Op("config", "show", "")}

confirm_delete_keyboard(s) == {Op("strat", "delete", s), Op("strat", "cancel_delete", "")}

(* The row of a strategy.  A registered strategy has mode and status; the  *)
(* statuses "live" and "paper" the keyboard asks for never occur, so the   *)
(* start buttons are always the ones shown.                                *)
StrategyRow(s, st) ==
    {Op("strat", "show", s),
     Op("strat", IF st = "paused" THEN "resume" ELSE "pause", s),
     Op("strat", IF st = "live" THEN "live_stop" ELSE "live_enable", s),
     Op("strat", IF st = "paper" THEN "paper_stop" ELSE "paper_start", s),
     Op("strat", "confirm_delete", s)}

strategy_list_keyboard ==
    (UNION {StrategyRow(s, statusOf[s]) : s \in DOMAIN statusOf})
        \cup {Op("strat", "refresh", ""), Op("home", "", "")}

PineRow(x) == {Op("pine", a, x) : a \in {"show", "compile", "activate", "remove"}}

pine_list_keyboard ==
    (UNION {PineRow(x) : x \in sources})
        \cup {Op("pine", "refresh", ""), Op("home", "", "")}

strategy_actions_keyboard(s) ==
    {Op("strategy", a, s) :
        a \in {"show", "status", "backtest", "replay", "pause", "resume", "paper_start",
               "paper_stop", "live_enable", "live_stop", "error_clear"}}

risk_keyboard ==
    {Op("risk", a, "") : a \in {"status", "kill_switch_on", "kill_switch_off"}}

data_jobs_keyboard ==
    {Op("data", "status", ""), Op("data", "plan", ""), Op("jobs", "list", ""),
     Op("queue", "status", ""), Op("workers", "status", ""), Op("providers", "list", "")}

reports_keyboard ==
    {Op("reports", "list", "")}
        \cup {Op("reports", "show", r) : r \in {"strategy_summary", "data_coverage", "worker_health"}}

(* The menu the command `plugins telegram send-menu` posts.                *)
telegram_menu_markup ==
    {<<"openpine", a, "", "">> : a \in {"strategies", "risk", "data", "reports", "pause", "resume"}}

-----------------------------------------------------------------------------
(* From callback data to a command line: an argv, the menu <<>>, or Error. *)

Menu  == <<>>
Error == <<"error">>

MenuCallbacks ==
    {Op("home", "", ""), Op("menu", "", ""), Op("menu", "data_jobs", ""), Op("pine", "list", ""),
     Op("strategies", "list", ""), Op("strat", "refresh", ""), Op("strat", "cancel_delete", ""),
     Op("pine", "refresh", "")}

CommandCallbacks ==
    {Op("status", "", ""), Op("strategies", "", "")}
        \cup risk_keyboard \cup data_jobs_keyboard
        \cup {Op("reports", "list", ""), Op("plugins", "list", ""),
              Op("streams", "status", ""), Op("config", "show", "")}

(* Actions the two strategy mappings share; they differ in how a strategy  *)
(* is removed.                                                             *)
StrategyActions ==
    {"show", "status", "pause", "resume", "backtest", "replay", "paper_start", "paper_stop",
     "live_enable", "live_start", "live_stop", "error_clear"}

map_strategy_callback(a, s) ==
    IF a \in StrategyActions \cup {"remove"} THEN <<"strategy", a, s>> ELSE Error

map_strat_list_callback(a, s) ==
    CASE a = "delete"           -> <<"strategy", "remove", s>>
      [] a \in StrategyActions  -> <<"strategy", a, s>>
      [] OTHER                  -> Error

(* Mutant: the case of the Activate button is left out.                    *)
map_pine_callback_NoActivate(a, x) ==
    IF a \in {"show", "compile", "remove", "artifacts", "inspect", "versions"} THEN <<"pine", a, x>>
    ELSE Error

map_pine_callback(a, x) ==
    CASE a \in {"show", "compile", "remove", "artifacts", "inspect", "versions"} -> <<"pine", a, x>>
      [] a = "activate" -> <<"pine", "artifacts", x>>
      [] OTHER          -> Error

map_callback_data(b) ==
    IF b \in MenuCallbacks THEN Menu
    ELSE IF b \in CommandCallbacks THEN <<b[2], b[3]>>
    ELSE IF b[1] # "op" \/ b[4] = NoArg THEN Error
    ELSE CASE b[2] = "strategy"                 -> map_strategy_callback(b[3], b[4])
           [] b[2] = "strat"                    -> map_strat_list_callback(b[3], b[4])
           [] b[2] = "pine"                     -> map_pine_callback(b[3], b[4])
           [] b[2] = "reports" /\ b[3] = "show" -> <<"reports", "show", b[4]>>
           [] OTHER                             -> Error

-----------------------------------------------------------------------------
(* The handler *)

(* The keyboard _render_menu_callback puts in place.                       *)
MenuFor(b) ==
    CASE b = Op("menu", "data_jobs", "")    -> data_jobs_keyboard
      [] b \in {Op("strategies", "list", ""), Op("strat", "refresh", ""),
                Op("strat", "cancel_delete", "")} -> strategy_list_keyboard
      [] b[2] = "strat" /\ b[3] = "confirm_delete" -> confirm_delete_keyboard(b[4])
      [] b \in {Op("pine", "list", ""), Op("pine", "refresh", "")} -> pine_list_keyboard
      [] OTHER                              -> home_menu_keyboard

(* The keyboard _run_cli_and_respond sends along with the output.          *)
MenuAfter(b) ==
    CASE b[2] = "strategy" -> strategy_actions_keyboard(b[4])
      [] b[2] = "reports"  -> reports_keyboard
      [] b[2] = "risk"     -> risk_keyboard
      [] OTHER             -> home_menu_keyboard

(* What the command line does to the registered strategies and sources.    *)
StatusAfter(argv) ==
    CASE argv[1] = "strategy" /\ argv[2] = "remove" ->
            [s \in DOMAIN statusOf \ {argv[3]} |-> statusOf[s]]
      [] argv[1] = "strategy" /\ argv[2] = "pause" /\ argv[3] \in DOMAIN statusOf ->
            [statusOf EXCEPT ![argv[3]] = "paused"]
      [] argv[1] = "strategy" /\ argv[2] = "resume" /\ argv[3] \in DOMAIN statusOf ->
            [statusOf EXCEPT ![argv[3]] = IF @ = "error" THEN @ ELSE "paused"]
      [] OTHER -> statusOf

SourcesAfter(argv) ==
    IF argv[1] = "pine" /\ argv[2] = "remove" THEN sources \ {argv[3]} ELSE sources

(* A menu replaces the keyboard of its message; output comes as a new      *)
(* message, and the keyboards above it stay usable.                        *)
Press(b) ==
    LET argv == map_callback_data(b)
    IN /\ b \in shown
       /\ answer' = CASE argv = Error -> "alert" [] argv = Menu -> "menu" [] OTHER -> "output"
       /\ shown' = CASE argv = Error -> shown
                     [] argv = Menu  -> MenuFor(b)
                     [] OTHER        -> shown \cup MenuAfter(b)
       /\ statusOf' = IF argv \in {Error, Menu} THEN statusOf ELSE StatusAfter(argv)
       /\ sources' = IF argv \in {Error, Menu} THEN sources ELSE SourcesAfter(argv)

(* /menu and /help come with the home keyboard.                            *)
MenuCommand ==
    /\ shown' = home_menu_keyboard
    /\ answer' = "menu"
    /\ UNCHANGED <<statusOf, sources>>

(* `plugins telegram send-menu` on the command line.                       *)
SendMenu ==
    /\ shown' = shown \cup telegram_menu_markup
    /\ UNCHANGED <<statusOf, sources, answer>>

(* Strategies and sources come and go by other means.                      *)
RegisteredElsewhere ==
    /\ \/ \E s \in StrategyIds, st \in MenuStatuses :
             /\ s \notin DOMAIN statusOf
             /\ statusOf' = [x \in DOMAIN statusOf \cup {s} |-> IF x = s THEN st ELSE statusOf[x]]
             /\ UNCHANGED sources
       \/ \E x \in SourceIds \ sources : sources' = sources \cup {x} /\ UNCHANGED statusOf
    /\ UNCHANGED <<shown, answer>>

MenuNext == MenuCommand \/ SendMenu \/ RegisteredElsewhere \/ \E b \in shown : Press(b)

MenuSpec == MenuInit /\ [][MenuNext]_menuVars

(* The keyboards and the mapping of callbacks are written apart; they      *)
(* agree on every button of every keyboard a chat can come to be shown,    *)
(* from any order of presses, commands and changes of the registries: the  *)
(* press runs a command or shows a menu.  The one exception is the Delete  *)
(* button of the strategy list: map_callback_data has no case for          *)
(* "confirm_delete", so the confirmation _render_menu_callback would show  *)
(* is never reached and the press is answered with an alert.               *)
ButtonsAreAnswered ==
    \A b \in shown : b[1] = "op" /\ b[3] # "confirm_delete" => map_callback_data(b) # Error
=============================================================================
