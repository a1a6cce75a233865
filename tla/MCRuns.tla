------------------------------- MODULE MCRuns -------------------------------
(***************************************************************************)
(* What executes a run, for TLC: the background task of a backtest, the    *)
(* session with the sandboxed worker, and the TradingView parity replay.   *)
(* Each is checked by itself: `part` chooses the one a behaviour is about. *)
(***************************************************************************)
EXTENDS BacktestRun, WorkerSession, TvParity

VARIABLE part

executionVars == <<runVars, vars, parityVars, part>>

Candle(t, exact) == [time |-> t, exact |-> exact]

(* Uploads: newest first, with a time between two bars, with a duplicate   *)
(* and a line that cannot be read, and without any bar on the grid.        *)
MCFiles ==
    {<<Candle(2, TRUE), Candle(1, TRUE)>>,
     <<Candle(1, TRUE), Candle(2, FALSE), Candle(3, TRUE)>>,
     <<Candle(3, TRUE), Candle(3, TRUE), Candle(-1, TRUE)>>,
     <<Candle(2, FALSE)>>}

MCTimes == {-1, 1, 2, 3}

RunsInit ==
    /\ part \in {"backtest", "session", "parity"}
    /\ RunInit /\ Init /\ ParityInit
    /\ part # "session" => nbars = 0

RunsNext ==
    \/ part = "backtest" /\ RunNext /\ UNCHANGED <<vars, parityVars, part>>
    \/ part = "session" /\ Next /\ UNCHANGED <<runVars, parityVars, part>>
    \/ part = "parity" /\ ParityNext /\ UNCHANGED <<runVars, vars, part>>

(* The fairness of RunFairSpec and of WorkerSession, each for its part.    *)
RunsSpec ==
    /\ RunsInit /\ [][RunsNext]_executionVars
    /\ \A r \in Runs : /\ WF_runVars(part = "backtest" /\ Advances(r))
                       /\ WF_runVars(part = "backtest" /\ CancelStep(r))
    /\ WF_vars(part = "session" /\ ParentStep)

(* A session with the worker ends although the worker may hang at any      *)
(* point: every wait of the parent has a timeout.                          *)
SessionsEnd == part = "session" ~> ppc = "over"
=============================================================================
