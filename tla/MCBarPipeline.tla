--------------------------- MODULE MCBarPipeline ---------------------------
(* Instances of BarPipeline for TLC.                                       *)
EXTENDS BarPipeline, TLC

MCSerKey == [j \in Jobs |-> StrategyOf(j)]

MCPriority == [j \in Jobs |-> 50]

DoubleTimeframe == [s \in Strategies |-> 2]

(* Bound: two workers share paper jobs only, one worker has jobs of both   *)
(* modes, at most three.                                                   *)
ModesBound ==
    LET known == {j \in Jobs : status[j] # "absent"}
    IN IF Cardinality(pool) = 1 THEN Cardinality(known) <= 3
       ELSE \A j \in known : j[1] = "paper"

WorkerSymmetry == Permutations(Workers)
=============================================================================
