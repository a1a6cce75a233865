-------------------------- MODULE TelegramService ---------------------------
(***************************************************************************)
(* The Telegram bot as its users meet it: the thread that takes up their   *)
(* updates (TelegramBot) and the menus it shows them (TelegramMenu).  They *)
(* share no state.                                                         *)
(***************************************************************************)
EXTENDS TelegramBot, TelegramMenu

(* The bot serves its users: it takes up each update once in a life of the *)
(* daemon (_poll_once), and the buttons it shows do something              *)
(* (map_callback_data).                                                    *)
BotServes == BotTypeOK /\ NoneLostNoneRepeated /\ ButtonsAreAnswered
=============================================================================
