----------------------------- MODULE TelegramBot -----------------------------
(***************************************************************************)
(* The Telegram bot of the daemon (notifications/telegram.py,              *)
(* daemon/service.py, daemon/telegram_service.py): the polling loop of     *)
(* TelegramBotHandler in a daemon process that is started, stopped by a    *)
(* signal and killed.                                                      *)
(*                                                                         *)
(* The loop runs _poll_once in a thread.  Stopping the service cancels the *)
(* loop and not the thread; the process exits when the thread is done.     *)
(* Telegram numbers the updates, gives out the ones it holds and forgets   *)
(* those below the offset of the latest request.                           *)
(***************************************************************************)
EXTENDS Integers, Sequences

CONSTANTS
    MaxUpdates,  \* bound: updates users send
    BatchLimit,  \* getUpdates limit
    MaxBoots     \* bound: starts of the daemon

ASSUME BotAssumption == MaxUpdates \in Nat /\ BatchLimit \in Nat \ {0} /\ MaxBoots \in Nat

VARIABLES
    inbox,      \* the updates sent so far, in order
    forgotten,  \* Telegram holds the updates after this one
    service,    \* state of the TelegramDaemonService of the process
    thread,     \* what the executor thread does
    offset,     \* _offset of the handler, 0 for None
    batch,      \* updates of the current poll still to be processed
    attempted,  \* updates some handler has taken up
    ran,        \* updates whose command line was run, and how often
    replies,    \* updates that got a message or a keyboard back
    boots       \* starts of the daemon

botVars == <<inbox, forgotten, service, thread, offset, batch, attempted, ran, replies, boots>>

(* What an update can be: a press of a button, a slash command, a Pine     *)
(* file, some other message, or anything from a chat not in the allowlist. *)
Kinds == {"button", "command", "document", "text", "foreign"}

Sent == DOMAIN inbox

(* The types of the variables.                                             *)
BotTypeOK ==
    /\ inbox \in Seq(Kinds) /\ forgotten \in 0 .. Len(inbox)
    /\ service \in {"stopped", "running", "stopping"}
    /\ thread \in {"none", "idle", "polling", "batch"}
    /\ offset \in 0 .. Len(inbox) + 1
    /\ batch \in Seq(Sent)
    /\ attempted \subseteq Sent /\ replies \subseteq attempted
    /\ ran \in [1..MaxUpdates -> Nat]

BotInit ==
    /\ inbox = <<>> /\ forgotten = 0
    /\ service = "stopped" /\ thread = "none"
    /\ offset = 0 /\ batch = <<>>
    /\ attempted = {} /\ replies = {}
    /\ ran = [u \in 1..MaxUpdates |-> 0]
    /\ boots = 0

-----------------------------------------------------------------------------
(* The users and the process *)

UserSends(k) ==
    /\ Len(inbox) < MaxUpdates
    /\ inbox' = Append(inbox, k)
    /\ UNCHANGED <<forgotten, service, thread, offset, batch, attempted, ran, replies, boots>>

(* daemon_run starts the service; a new handler knows no offset.           *)
StartDaemon ==
    /\ service = "stopped" /\ thread = "none" /\ boots < MaxBoots
    /\ service' = "running" /\ thread' = "idle"
    /\ offset' = 0 /\ batch' = <<>>
    /\ boots' = boots + 1
    /\ UNCHANGED <<inbox, forgotten, attempted, ran, replies>>

(* A signal: _on_stop sets the stop event and cancels the polling task.    *)
StopDaemon ==
    /\ service = "running"
    /\ service' = "stopping"
    /\ UNCHANGED <<inbox, forgotten, thread, offset, batch, attempted, ran, replies, boots>>

(* The executor has no work left and the interpreter exits.                *)
DaemonExits ==
    /\ service = "stopping" /\ thread = "idle"
    /\ service' = "stopped" /\ thread' = "none"
    /\ UNCHANGED <<inbox, forgotten, offset, batch, attempted, ran, replies, boots>>

DaemonKilled ==
    /\ service # "stopped"
    /\ service' = "stopped" /\ thread' = "none" /\ batch' = <<>>
    /\ UNCHANGED <<inbox, forgotten, offset, attempted, ran, replies, boots>>

-----------------------------------------------------------------------------
(* The polling loop *)

(* run hands _poll_once to the executor.                                   *)
BeginPoll ==
    /\ service = "running" /\ thread = "idle"
    /\ thread' = "polling"
    /\ UNCHANGED <<inbox, forgotten, service, offset, batch, attempted, ran, replies, boots>>

(* getUpdates answers: everything below the offset is forgotten.           *)
UpdatesArrive ==
    LET low  == IF offset - 1 > forgotten THEN offset - 1 ELSE forgotten
        high == IF low + BatchLimit < Len(inbox) THEN low + BatchLimit ELSE Len(inbox)
    IN /\ thread = "polling"
       /\ forgotten' = low
       /\ batch' = [i \in 1 .. high - low |-> low + i]
       /\ thread' = IF high = low THEN "idle" ELSE "batch"
       /\ UNCHANGED <<inbox, service, offset, attempted, ran, replies, boots>>

(* getUpdates raises or answers that it failed.                            *)
PollFails ==
    /\ thread = "polling"
    /\ thread' = "idle"
    /\ UNCHANGED <<inbox, forgotten, service, offset, batch, attempted, ran, replies, boots>>

(* What _process_update can come to for an update of kind k: whether it    *)
(* runs a command line, whether it answers, whether it raises.             *)
Outcome(run, reply, raise) == [run |-> run, reply |-> reply, raise |-> raise]

(* is_update_allowed fails: the update is ignored.                         *)
Ignored == {Outcome(FALSE, FALSE, FALSE)}

(* _handle_callback_query: the first acknowledgement may raise; a callback *)
(* that cannot be mapped is answered with an alert; a menu is rendered; a  *)
(* command is run and its output sent.  _send_message never raises.        *)
CallbackOutcomes ==
    {Outcome(FALSE, FALSE, TRUE)} \cup {Outcome(r, s, FALSE) : r, s \in BOOLEAN}

(* _handle_command_message: an unknown command is answered with the error. *)
CommandOutcomes == {Outcome(r, s, FALSE) : r, s \in BOOLEAN}

(* _handle_document_message: a file without an id, with another extension  *)
(* or that cannot be had is answered; a good one is added as a source.     *)
DocumentOutcomes == {Outcome(r, s, FALSE) : r, s \in BOOLEAN}

Outcomes(k) ==
    CASE k = "button"   -> CallbackOutcomes
      [] k = "command"  -> CommandOutcomes
      [] k = "document" -> DocumentOutcomes
      [] OTHER          -> Ignored

Past(u) == IF u + 1 > offset THEN u + 1 ELSE offset

(* Mutant: an update that raises is taken up again.                        *)
ProcessUpdate_Retry(o) ==
    LET u == Head(batch)
    IN /\ thread = "batch"
       /\ o \in Outcomes(inbox[u])
       /\ attempted' = attempted \cup {u}
       /\ ran' = [ran EXCEPT ![u] = IF o.run /\ @ < 2 THEN @ + 1 ELSE @]
       /\ replies' = IF o.reply THEN replies \cup {u} ELSE replies
       /\ batch' = IF o.raise THEN <<>> ELSE Tail(batch)
       /\ offset' = IF o.raise THEN offset ELSE Past(u)
       /\ thread' = IF o.raise \/ Len(batch) = 1 THEN "idle" ELSE "batch"
       /\ UNCHANGED <<inbox, forgotten, service, boots>>

(* One update of _poll_once.  The offset moves past it also when it raised.*)
ProcessUpdate(o) ==
    LET u == Head(batch)
    IN /\ thread = "batch"
       /\ o \in Outcomes(inbox[u])
       /\ attempted' = attempted \cup {u}
       /\ ran' = [ran EXCEPT ![u] = IF o.run THEN @ + 1 ELSE @]
       /\ replies' = IF o.reply THEN replies \cup {u} ELSE replies
       /\ batch' = Tail(batch)
       /\ offset' = Past(u)
       /\ thread' = IF Len(batch) = 1 THEN "idle" ELSE "batch"
       /\ UNCHANGED <<inbox, forgotten, service, boots>>

Process == \E r, s, x \in BOOLEAN : ProcessUpdate(Outcome(r, s, x))

BotNext ==
    \/ \E k \in Kinds : UserSends(k)
    \/ StartDaemon \/ StopDaemon \/ DaemonExits \/ DaemonKilled
    \/ BeginPoll \/ UpdatesArrive \/ PollFails \/ Process

(* The event loop keeps polling while the service runs, requests to        *)
(* Telegram do not fail for ever, and a command line ends (it is killed    *)
(* after 60 s).                                                            *)
BotFairness ==
    /\ WF_botVars(BeginPoll)
    /\ SF_botVars(UpdatesArrive)
    /\ WF_botVars(Process)

BotSpec == BotInit /\ [][BotNext]_botVars /\ BotFairness

-----------------------------------------------------------------------------
(* No update is lost: what Telegram was told to forget, some handler took  *)
(* up, through any crash between fetching a batch and processing it.  And  *)
(* no life of the daemon runs the command of an update twice, although     *)
(* the offset is confirmed only by the next poll and a failed poll is      *)
(* repeated.                                                               *)
NoneLostNoneRepeated ==
    /\ \A u \in 1 .. forgotten : u \in attempted
    /\ \A u \in 1 .. MaxUpdates : ran[u] <= boots

(* An update that raises does not hold up the ones after it: a service     *)
(* that keeps running takes up every update that was sent.                 *)
UpdatesAreTakenUp ==
    \A u \in 1..MaxUpdates :
        (u \in Sent) ~> (u \in attempted \/ service # "running")
=============================================================================
