------------------------------ MODULE MCStores ------------------------------
(***************************************************************************)
(* What the program keeps, and who writes it, for TLC: the results of      *)
(* backtests, the idempotency table, the state snapshots, the Pine sources *)
(* and their artifacts, the compile adapter, the outputs of a batch, the   *)
(* strategies as the command line writes them, and the identities of runs  *)
(* with the jobs of optimizer searches.  The stores are independent:       *)
(* `part` chooses the one a behaviour is about.                            *)
(***************************************************************************)
EXTENDS BacktestPublication, BacktestIdempotency, SnapshotStore, CompileAdapter,
        BatchRunner, StrategyCli, OptimizerSearch

VARIABLE part

MCBatchEntries == <<"e1", "e2">>

(* Command lines of the batch runner: one that skips what is done and      *)
(* stops on errors, one for one timeframe of the first entry without       *)
(* provider revisions, and a forced compilation of one strategy.           *)
SkipDone == [phase |-> "run", timeframe |-> "all", skip |-> TRUE, stop |-> TRUE, force |-> FALSE,
             providerOnly |-> TRUE, revisions |-> TRUE, kind |-> "all", limit |-> 0]

MCBatchArgs ==
    {SkipDone,
     [SkipDone EXCEPT !.timeframe = "1h", !.skip = FALSE, !.stop = FALSE, !.revisions = FALSE,
                      !.limit = 1],
     [SkipDone EXCEPT !.phase = "compile", !.skip = FALSE, !.stop = FALSE, !.force = TRUE,
                      !.kind = "strategy", !.limit = 1]}

Parts == {"results", "requests", "snapshots", "sources", "compile", "batch", "cli", "search"}

(* The stacks are interchangeable; the manifest starts with this one.      *)
OneStack == CHOOSE s \in Stacks : TRUE

(* One request of the compile adapter stands in for all while another part *)
(* is checked.                                                             *)
StoresInit ==
    /\ part \in Parts
    /\ Init
    /\ IF part = "requests" THEN TRUE
       ELSE /\ hash = [k \in Keys |-> CHOOSE b \in Bodies : TRUE]
            /\ key = [q \in Requests |-> CHOOSE k \in Keys : TRUE]
            /\ body = [q \in Requests |-> CHOOSE b \in Bodies : TRUE]
    /\ IdemInit /\ SnapInit /\ PineInit
    /\ IF part = "compile" THEN TRUE ELSE request = CHOOSE x \in CompileRequests : TRUE
    /\ CompInit /\ BatchInit /\ CliInit
    /\ manifest = [stack |-> OneStack, sound |-> TRUE]
    /\ IF part = "search" THEN TRUE
       ELSE /\ wheelhouse = OneStack /\ installed = OneStack
            /\ runArtifact = [stack |-> OneStack, sealed |-> TRUE]
    /\ OptimizerInit

StoresNext ==
    \/ /\ part = "results" /\ Next
       /\ UNCHANGED <<idemVars, snapVars, pineVars, compVars, batchVars, cliVars, optimizerVars, part>>
    \/ /\ part = "requests" /\ IdemNext
       /\ UNCHANGED <<vars, snapVars, pineVars, compVars, batchVars, cliVars, optimizerVars, part>>
    \/ /\ part = "snapshots" /\ SnapNext
       /\ UNCHANGED <<vars, idemVars, pineVars, compVars, batchVars, cliVars, optimizerVars, part>>
    \/ /\ part = "sources" /\ PineNext
       /\ UNCHANGED <<vars, idemVars, snapVars, compVars, batchVars, cliVars, optimizerVars, part>>
    \/ /\ part = "compile" /\ CompNext
       /\ UNCHANGED <<vars, idemVars, snapVars, pineVars, batchVars, cliVars, optimizerVars, part>>
    \/ /\ part = "batch" /\ BatchNext
       /\ UNCHANGED <<vars, idemVars, snapVars, pineVars, compVars, cliVars, optimizerVars, part>>
    \/ /\ part = "cli" /\ CliNext
       /\ UNCHANGED <<vars, idemVars, snapVars, pineVars, compVars, batchVars, optimizerVars, part>>
    \/ /\ part = "search" /\ OptimizerNext
       /\ UNCHANGED <<vars, idemVars, snapVars, pineVars, compVars, batchVars, cliVars, part>>

storesVars == <<vars, idemVars, snapVars, pineVars, compVars, batchVars, cliVars, optimizerVars, part>>

StoresSpec == StoresInit /\ [][StoresNext]_storesVars
=============================================================================
