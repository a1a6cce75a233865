----------------------------- MODULE MCTrading -----------------------------
(***************************************************************************)
(* The path from a closed candle to an order, for TLC: the bar pipeline,   *)
(* the execution router and the order table.  The three share no state in  *)
(* the program (the executor does not place orders), so a behaviour of     *)
(* this module is one of one of them: `part` is chosen once and the others *)
(* stay as they start.                                                     *)
(***************************************************************************)
EXTENDS MCBarPipeline, OrderExecution, OrderTable

VARIABLE part

tradingVars == <<vars, orderVars, tableVars, part>>

MCIntents == {[client |-> "c1", acct |-> "a1", qty |-> 2, price |-> 4],
              [client |-> "c3", acct |-> "a1", qty |-> 4, price |-> 4]}

MCRules == <<"kill", "size", "rate">>

MCInstrument == [tick |-> 2, step |-> 2, minQty |-> 2, maxQty |-> 0, minNotional |-> 4,
                 market |-> TRUE]

TradingInit ==
    /\ part \in {"pipeline", "execution", "orders"}
    /\ Init /\ OrderInit /\ TableInit
    /\ part # "pipeline" => pool = Workers /\ mode = CHOOSE m \in [Strategies -> Modes] : TRUE

TradingNext ==
    \/ part = "pipeline" /\ Next /\ UNCHANGED <<orderVars, tableVars, part>>
    \/ part = "execution" /\ OrderNext /\ UNCHANGED <<vars, tableVars, part>>
    \/ part = "orders" /\ TableNext /\ UNCHANGED <<vars, orderVars, part>>

TradingSpec == TradingInit /\ [][TradingNext]_tradingVars
=============================================================================
