---------------------------- MODULE OrderExecution ----------------------------
(***************************************************************************)
(* The way of an order intent: the accounts (openpine/accounts), the risk  *)
(* manager's rules (openpine/risk) and the router with its paper and       *)
(* exchange adapters (openpine/execution).                                 *)
(* Several strategies submit concurrently; the only suspension point is    *)
(* the call to the exchange, whose answer may be lost.  The kill switch    *)
(* lives in the gateway's memory and, for the next start, in the config    *)
(* file.  Prices and quantities are whole multiples of a common unit.      *)
(***************************************************************************)
EXTENDS Integers, Sequences, FiniteSets

CONSTANTS Accounts,      \* account ids
          Submitters,    \* strategies, one call in flight each
          Intents,       \* the order intents considered (see IntentType)
          Rules,         \* the risk manager's rules, in order; the first is "kill"
          MaxOrders,     \* orders per account and minute
          Window,        \* the minute, in ticks of the model's clock
          MaxNotional,   \* the position size rule's limit
          InstrumentRule,\* [tick, step, minQty, maxQty, minNotional, market]
          Exchange,      \* "binance" or "bybit"
          RawStatuses,   \* the statuses the exchange may answer with
          MaxNow, MaxPlaced, MaxStarts   \* bounds: clock, exchange orders, gateway starts

\* The kill switch is always the first rule, and is there without being asked for.
ASSUME OrderAssumption ==
  /\ Intents # {} /\ \A i \in Intents : i.acct \in Accounts
  /\ Rules \in Seq({"kill", "size", "rate"}) /\ Rules # <<>> /\ Rules[1] = "kill"
  /\ MaxOrders \in Nat /\ Window \in Nat \ {0}

VARIABLES acct,      \* account -> [exists, mode, live]
          killFile,  \* the config file's kill_switch
          kill,      \* the running risk manager's
          now, starts,
          stamps,    \* account -> what the rate rule has recorded: <<time, n>> is the n-th at that time
          call,      \* submitter -> its call of the router
          placed,    \* the exchange's orders: [client, acct, live, status, id]
          fills,     \* the paper adapter's fills: client ids
          tracked,   \* the adapter's exchange order ids
          approvals  \* every approval of this gateway: [acct, at, killed]

orderVars == <<acct, killFile, kill, now, starts, stamps, call, placed, fills, tracked, approvals>>

\* price 0 stands for a market order's missing price.
IntentType == [client : STRING, acct : Accounts, qty : Nat, price : Nat]
AccountTypes == {"live", "paper", "backtest"}
Ready == [at |-> "idle", intent |-> CHOOSE i \in Intents : TRUE, raw |-> "none", reply |-> "none"]

OrderTypeOK ==
  /\ acct \in [Accounts -> [exists : BOOLEAN, mode : AccountTypes, live : BOOLEAN]]
  /\ kill \in BOOLEAN /\ killFile \in BOOLEAN
  /\ \A s \in Submitters : call[s].at \in {"idle", "sent", "answered"} /\ call[s].intent \in Intents
  /\ tracked \subseteq 1..Len(placed)

OrderInit ==
  /\ acct = [a \in Accounts |-> [exists |-> FALSE, mode |-> "paper", live |-> FALSE]]
  /\ killFile = FALSE /\ kill = FALSE
  /\ now = 0 /\ starts = 1
  /\ stamps = [a \in Accounts |-> {}]
  /\ call = [s \in Submitters |-> Ready]
  /\ placed = <<>> /\ fills = {} /\ tracked = {} /\ approvals = <<>>

-----------------------------------------------------------------------------
(* Accounts and the kill switch.                                           *)

CreateAccount(a, m, live) ==
  /\ ~acct[a].exists
  /\ acct' = [acct EXCEPT ![a] = [exists |-> TRUE, mode |-> m, live |-> live]]
  /\ UNCHANGED <<killFile, kill, now, starts, stamps, call, placed, fills, tracked, approvals>>

\* openpine accounts add: a mode other than "paper" is live, and live is enabled with it.
AccountsAdd(a) == CreateAccount(a, "paper", FALSE) \/ CreateAccount(a, "live", TRUE)

SetLiveEnabled(a, on) ==
  /\ acct[a].exists
  /\ acct' = [acct EXCEPT ![a].live = on]
  /\ UNCHANGED <<killFile, kill, now, starts, stamps, call, placed, fills, tracked, approvals>>

DeleteAccount(a) ==
  /\ acct[a].exists
  /\ acct' = [acct EXCEPT ![a] = [exists |-> FALSE, mode |-> "paper", live |-> FALSE]]
  /\ UNCHANGED <<killFile, kill, now, starts, stamps, call, placed, fills, tracked, approvals>>

\* POST /risk/kill-switch: the running gateway's switch, not the file.
ToggleKillSwitch(on) ==
  /\ kill' = on
  /\ UNCHANGED <<acct, killFile, now, starts, stamps, call, placed, fills, tracked, approvals>>

\* openpine risk kill-switch: the file, not the running gateway.
RiskKillSwitch(on) ==
  /\ killFile # on
  /\ killFile' = on
  /\ UNCHANGED <<acct, kill, now, starts, stamps, call, placed, fills, tracked, approvals>>

Tick ==
  /\ now < MaxNow
  /\ now' = now + 1
  /\ UNCHANGED <<acct, killFile, kill, starts, stamps, call, placed, fills, tracked, approvals>>

\* The gateway starts anew: the accounts and the config file are what is left.
RestartOrders ==
  /\ starts < MaxStarts
  /\ starts' = starts + 1
  /\ kill' = killFile
  /\ stamps' = [a \in Accounts |-> {}]
  /\ call' = [s \in Submitters |-> Ready]
  /\ fills' = {} /\ tracked' = {} /\ approvals' = <<>>
  /\ UNCHANGED <<acct, killFile, now, placed>>

-----------------------------------------------------------------------------
(* RiskManager.check_order: the rules in order, the first that fails ends  *)
(* the check; the rate rule records the order when it lets it pass.        *)

\* Mutant: the window is one tick short.
Recent_Inclusive(a) == {x \in stamps[a] : x[1] > now - (Window - 1)}

Recent(a) == {x \in stamps[a] : x[1] > now - Window}

Passes(rule, i) ==
  CASE rule = "kill" -> ~kill
    [] rule = "size" -> i.price = 0 \/ i.price * i.qty <= MaxNotional
    [] rule = "rate" -> Cardinality(Recent(i.acct)) < MaxOrders

Failing(i) == {n \in DOMAIN Rules : ~Passes(Rules[n], i)}
Allowed(i) == Failing(i) = {}

\* The rate rule is asked when no rule before it fails, and records the order when it lets
\* it pass.
RateAsked(i) == \E n \in DOMAIN Rules : Rules[n] = "rate" /\ \A m \in Failing(i) : n <= m
RatePassed(i) == \E n \in DOMAIN Rules : Rules[n] = "rate" /\ \A m \in Failing(i) : n < m

Stamp(a) == <<now, Cardinality({x \in Recent(a) : x[1] = now})>>

\* What the rate rule remembers afterwards: nothing new when an earlier rule failed.
StampsAfter(i) ==
  IF RateAsked(i)
  THEN [stamps EXCEPT ![i.acct] = Recent(i.acct) \cup (IF RatePassed(i) THEN {Stamp(i.acct)} ELSE {})]
  ELSE stamps

-----------------------------------------------------------------------------
(* InstrumentRules.validate_order.                                         *)

validate_quantity(q) ==
  /\ q > 0 /\ q % InstrumentRule.step = 0
  /\ q >= InstrumentRule.minQty
  /\ InstrumentRule.maxQty # 0 => q <= InstrumentRule.maxQty
validate_price(p) == p = 0 \/ p % InstrumentRule.tick = 0
validate_notional(q, p) == p = 0 \/ p * q >= InstrumentRule.minNotional
validate_order(i) ==
  /\ i.price = 0 => InstrumentRule.market
  /\ validate_quantity(i.qty) /\ validate_price(i.price) /\ validate_notional(i.qty, i.price)

-----------------------------------------------------------------------------
(* ExecutionRouter.submit_order and the adapters.                          *)

Reply(s, i, status) == call' = [call EXCEPT ![s] = [Ready EXCEPT !.intent = i, !.reply = status]]

\* No account, or a rule says no; the rules may have recorded something all the same.
Rejected(s, i) ==
  /\ call[s].at = "idle"
  /\ ~acct[i.acct].exists \/ ~Allowed(i)
  /\ stamps' = IF acct[i.acct].exists THEN StampsAfter(i) ELSE stamps
  /\ Reply(s, i, "rejected")
  /\ UNCHANGED <<acct, killFile, kill, now, starts, placed, fills, tracked, approvals>>

Approve(i) ==
  /\ acct[i.acct].exists /\ Allowed(i)
  /\ stamps' = StampsAfter(i)
  /\ approvals' = Append(approvals, [acct |-> i.acct, at |-> now, killed |-> kill])
  /\ Len(approvals) < MaxPlaced + 2
  /\ UNCHANGED <<acct, killFile, kill, now, starts>>

\* The paper adapter fills at once; the backtest mode has no adapter.
SubmitPaper(s, i) ==
  /\ call[s].at = "idle" /\ acct[i.acct].mode = "paper"
  /\ Approve(i)
  /\ fills' = fills \cup {i.client}
  /\ Reply(s, i, "filled")
  /\ UNCHANGED <<placed, tracked>>

SubmitUnrouted(s, i) ==
  /\ call[s].at = "idle"
  /\ acct[i.acct].mode = "backtest" \/ (acct[i.acct].mode = "live" /\ ~validate_order(i))
  /\ Approve(i)
  /\ Reply(s, i, "rejected")
  /\ UNCHANGED <<placed, fills, tracked>>

SubmitLive(s, i) ==
  /\ call[s].at = "idle" /\ acct[i.acct].mode = "live" /\ validate_order(i)
  /\ Approve(i)
  /\ call' = [call EXCEPT ![s] = [Ready EXCEPT !.at = "sent", !.intent = i]]
  /\ UNCHANGED <<placed, fills, tracked>>

\* The exchange takes the order and answers with a status of its own.
ExchangeTakes(s, raw) ==
  LET i == call[s].intent
  IN  /\ call[s].at = "sent" /\ Len(placed) < MaxPlaced
      /\ placed' = Append(placed, [client |-> i.client, acct |-> i.acct, live |-> acct[i.acct].live,
                                   status |-> raw, id |-> Len(placed) + 1])
      /\ call' = [call EXCEPT ![s].at = "answered", ![s].raw = raw]
      /\ UNCHANGED <<acct, killFile, kill, now, starts, stamps, fills, tracked, approvals>>

map_binance_status(raw) ==
  CASE raw = "New" -> "new" [] raw = "Filled" -> "filled" [] raw \in {"Canceled", "Cancelled", "Expired"} -> "cancelled"
    [] raw = "Rejected" -> "rejected" [] OTHER -> "unknown"
map_bybit_status(raw) ==
  CASE raw \in {"Created", "New"} -> "new" [] raw = "Filled" -> "filled" [] raw = "PartiallyFilled" -> "partial"
    [] raw \in {"Canceled", "Cancelled", "Expired"} -> "cancelled" [] raw = "Rejected" -> "rejected" [] OTHER -> "unknown"

\* _parse_client_response and _result_to_order: anything but new, partial and filled is
\* reported as a rejection.
ParseBinance(raw) == IF map_binance_status(raw) \in {"new", "partial", "filled"} THEN map_binance_status(raw) ELSE "rejected"
ParseBybit(raw) == IF map_bybit_status(raw) \in {"new", "partial", "filled"} THEN map_bybit_status(raw) ELSE "rejected"
Parse(raw) == IF Exchange = "binance" THEN ParseBinance(raw) ELSE ParseBybit(raw)

\* _response_to_order_status: only an unknown status is reported as a rejection.
StatusReport(raw) ==
  LET status == IF Exchange = "binance" THEN map_binance_status(raw) ELSE map_bybit_status(raw)
  IN  IF status = "unknown" THEN "rejected" ELSE status

\* The id of the exchange's order of this call.
PlacedBy(s) == CHOOSE n \in DOMAIN placed :
                 placed[n].client = call[s].intent.client /\ \A m \in DOMAIN placed : placed[m].client = placed[n].client => m <= n

\* The exchange's id of the order is remembered for cancel and status calls.
Answered(s) ==
  /\ call[s].at = "answered"
  /\ tracked' = tracked \cup {PlacedBy(s)}
  /\ Reply(s, call[s].intent, Parse(call[s].raw))
  /\ UNCHANGED <<acct, killFile, kill, now, starts, stamps, placed, fills, approvals>>

\* The call fails before or after the exchange has acted on it.
CallFails(s) ==
  /\ call[s].at \in {"sent", "answered"}
  /\ Reply(s, call[s].intent, "rejected")
  /\ UNCHANGED <<acct, killFile, kill, now, starts, stamps, placed, fills, tracked, approvals>>

\* cancel_order by exchange id; an id that is not tracked raises.
CancelOrder(n) ==
  /\ n \in tracked
  /\ placed[n].status \in {"New", "Created", "PartiallyFilled", "open"}
  /\ placed' = [placed EXCEPT ![n].status = "Canceled"]
  /\ UNCHANGED <<acct, killFile, kill, now, starts, stamps, call, fills, tracked, approvals>>

\* ExecutionRouter.cancel_order with the id submit_order has returned: a paper order is
\* filled already, and the live adapter knows the exchange's ids only.
CancelReturned(s) ==
  /\ call[s].at = "idle" /\ call[s].reply \in {"new", "partial", "filled"}
  /\ LET a == acct[call[s].intent.acct]
     IN  Reply(s, call[s].intent, IF ~a.exists \/ a.mode = "paper" THEN "not_cancelled" ELSE "unavailable")
  /\ UNCHANGED <<acct, killFile, kill, now, starts, stamps, placed, fills, tracked, approvals>>

\* get_order_status by exchange id.
QueryStatus(s, n) ==
  /\ call[s].at = "idle" /\ n \in tracked
  /\ Reply(s, CHOOSE i \in Intents : i.client = placed[n].client, StatusReport(placed[n].status))
  /\ UNCHANGED <<acct, killFile, kill, now, starts, stamps, placed, fills, tracked, approvals>>

\* reconcile: the exchange's open orders are tracked.
Reconcile ==
  /\ tracked' = tracked \cup {n \in DOMAIN placed : placed[n].status \in {"New", "Created", "PartiallyFilled", "open"}}
  /\ UNCHANGED <<acct, killFile, kill, now, starts, stamps, call, placed, fills, approvals>>

OrderNext ==
  \/ \E a \in Accounts : AccountsAdd(a) \/ DeleteAccount(a) \/ CreateAccount(a, "live", FALSE) \/ CreateAccount(a, "backtest", FALSE)
  \/ \E a \in Accounts, on \in BOOLEAN : SetLiveEnabled(a, on)
  \/ \E on \in BOOLEAN : ToggleKillSwitch(on) \/ RiskKillSwitch(on)
  \/ Tick \/ RestartOrders \/ Reconcile
  \/ \E s \in Submitters, i \in Intents :
       Rejected(s, i) \/ SubmitPaper(s, i) \/ SubmitUnrouted(s, i) \/ SubmitLive(s, i)
  \/ \E s \in Submitters : CallFails(s) \/ Answered(s) \/ \E raw \in RawStatuses : ExchangeTakes(s, raw)
  \/ \E n \in tracked : CancelOrder(n) \/ \E s \in Submitters : QueryStatus(s, n)
  \/ \E s \in Submitters : CancelReturned(s)

OrderSpec == OrderInit /\ [][OrderNext]_orderVars

-----------------------------------------------------------------------------
(* Properties.                                                             *)

\* Within one life of the gateway no order is approved while its kill switch is on, and in
\* no minute are more than MaxOrders orders of an account approved, however the calls of
\* the strategies overlap and whatever other rules refuse in between.
ApprovedWithinLimits ==
  /\ \A n \in DOMAIN approvals : ~approvals[n].killed
  /\ (\E r \in DOMAIN Rules : Rules[r] = "rate") =>
     \A n \in DOMAIN approvals :
       Cardinality({m \in 1..n : /\ approvals[m].acct = approvals[n].acct
                                 /\ approvals[m].at > approvals[n].at - Window}) <= MaxOrders

\* An order the router reports as new, partial or filled exists: at the exchange, or among
\* the paper fills.
RepliesAreBacked ==
  \A s \in Submitters :
    call[s].reply \in {"new", "partial", "filled"} =>
      \/ call[s].intent.client \in fills
      \/ \E n \in DOMAIN placed : placed[n].client = call[s].intent.client

\* An order is placed only within the limits, counted over every order the window saw, and
\* a caller is never told of an order that the exchange does not have
\* (RiskManager.check_order, ExecutionRouter.submit_order).
OrdersAreBacked == OrderTypeOK /\ ApprovedWithinLimits /\ RepliesAreBacked

=============================================================================
