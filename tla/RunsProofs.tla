----------------------------- MODULE RunsProofs -----------------------------
(***************************************************************************)
(* What a run executes, for all inputs: a backtest that is over has        *)
(* stopped its worker and given back its permit, a parity run that is      *)
(* shown as done is stored and scored on what it is compared on, and the   *)
(* bars of a corpus chart are merged in order and aligned with the chart.  *)
(***************************************************************************)
EXTENDS BacktestRun, TvParity, TvCorpus, FiniteSetTheorems, WellFoundedInduction,
        NaturalsInduction, TLAPS

(* The points at which the thread is starting its worker, and those before *)
(* it was admitted.                                                        *)
Spawning == {"start", "isolate", "undo", "unstart", "register", "started"}
Early == {"none", "strategy", "artifact", "bars", "setup", "failing", "admit"}

(* Who holds the permit of a run.                                          *)
LeaseOf(r) ==
    /\ at[r] = "none" => lease[r] = "free"
    /\ at[r] \notin {"none", "done"} => lease[r] = "task"
    /\ where[r] # "none" => lease[r] # "free"

(* A run is starting as long as its thread says so, and a worker that no   *)
(* registry holds has stopped.                                             *)
WorkerOf(r) ==
    /\ r \in starting <=> at[r] \in Spawning
    /\ at[r] \in Early => where[r] = "none"
    /\ at[r] \in Early \cup {"start"} => workerProc[r] = "none"
    /\ at[r] = "start" => where[r] = "retained"
    /\ where[r] = "none" => workerProc[r] \in {"none", "stopped"}
    /\ at[r] = "drop" => workerProc[r] = "stopped"
    /\ handler[r].at = "drop" => workerProc[r] = "stopped"

(* Nobody takes an outcome back, and a cancel being served has either      *)
(* reached the task or come too late.                                      *)
OutcomeOf(r) ==
    /\ at[r] = "saving" => terminal[r] = "success"
    /\ at[r] = "failed" => terminal[r] = "failed"
    /\ row[r] = "done" => terminal[r] = "success" /\ at[r] \in {"finally", "done"}
    /\ row[r] = "cancelled" => terminal[r] # NoOutcome
    /\ handler[r].at # "idle" =>
         terminal[r] \in {"cancelled", "failed"} \/ (r \in requested /\ terminal[r] = NoOutcome)
    /\ terminal[r] \in {"cancelled", "success"} \/ row[r] = "cancelled" => ~Owned(r)

Holders == {r \in Runs : lease[r] # "free"}

RunInv ==
    /\ RunTypeOK
    /\ \A r \in Runs : LeaseOf(r) /\ WorkerOf(r) /\ OutcomeOf(r)
    /\ permits + Cardinality(Holders) = Capacity

(* The state of one run.                                                   *)
Same(d) ==
    /\ row'[d] = row[d] /\ lease'[d] = lease[d] /\ at'[d] = at[d]
    /\ terminal'[d] = terminal[d] /\ where'[d] = where[d] /\ workerProc'[d] = workerProc[d]
    /\ handler'[d] = handler[d]
    /\ d \in starting' <=> d \in starting
    /\ d \in requested' <=> d \in requested

(* A run nothing happened to keeps its part of the invariant.              *)
LEMMA SameKeeps ==
    ASSUME NEW d, Same(d), LeaseOf(d), WorkerOf(d), OutcomeOf(d)
    PROVE  LeaseOf(d)' /\ WorkerOf(d)' /\ OutcomeOf(d)'
BY Zenon DEF Same, LeaseOf, WorkerOf, OutcomeOf, Owned

(* The three things that happen to the permits.                            *)
PermitMoves(r) ==
    \/ permits' = permits /\ lease'[r] = lease[r]
    \/ permits' = permits /\ lease[r] # "free" /\ lease'[r] # "free"
    \/ permits > 0 /\ permits' = permits - 1 /\ lease[r] = "free" /\ lease'[r] # "free"
    \/ permits' = permits + 1 /\ lease[r] # "free" /\ lease'[r] = "free"

(* The permits and their holders always add up to the capacity.            *)
LEMMA PermitsAddUp ==
    ASSUME RunInv, NEW r \in Runs, PermitMoves(r), \A d \in Runs \ {r} : lease'[d] = lease[d]
    PROVE  permits' + Cardinality(Holders') = Capacity /\ permits' \in 0..Capacity
<1>1. IsFiniteSet(Holders) /\ IsFiniteSet(Runs)
  BY CapacityAssumption, FS_Subset, Zenon DEF Holders
<1>2. Cardinality(Holders) \in Nat /\ permits \in 0..Capacity /\ Capacity \in Nat
      /\ permits + Cardinality(Holders) = Capacity
  BY <1>1, FS_CardinalityType, CapacityAssumption, Zenon DEF RunInv, RunTypeOK
<1>3. CASE permits' = permits /\ (lease[r] = "free" <=> lease'[r] = "free")
  <2>1. Holders' = Holders
    BY <1>3, Zenon DEF Holders
  <2> QED BY <1>2, <1>3, <2>1, Zenon
<1>4. CASE permits > 0 /\ permits' = permits - 1 /\ lease[r] = "free" /\ lease'[r] # "free"
  <2>1. Holders' = Holders \cup {r} /\ r \notin Holders
    BY <1>4, Zenon DEF Holders
  <2>2. Cardinality(Holders') = Cardinality(Holders) + 1
    BY <1>1, <2>1, FS_AddElement, Zenon
  <2> QED BY <1>2, <1>4, <2>2
<1>5. CASE permits' = permits + 1 /\ lease[r] # "free" /\ lease'[r] = "free"
  <2>1. Holders' = Holders \ {r} /\ r \in Holders
    BY <1>5, Zenon DEF Holders
  <2>2. Cardinality(Holders') = Cardinality(Holders) - 1
    BY <1>1, <2>1, FS_RemoveElement, Zenon
  <2>3. Cardinality(Holders') \in Nat
    BY <1>1, <2>1, FS_Subset, FS_CardinalityType, Zenon
  <2> QED BY <1>2, <1>5, <2>2, <2>3
<1> QED BY <1>3, <1>4, <1>5, Zenon DEF PermitMoves

(* _terminate_backtest_worker: only a worker that runs is changed, and one *)
(* that is proven gone has stopped.                                        *)
LEMMA TerminateMeans ==
    ASSUME NEW r \in Runs, NEW ok \in BOOLEAN, RunTypeOK, Terminate(r, ok)
    PROVE  /\ workerProc' \in [Runs -> {"none", "alive", "stopped", "orphaned"}]
           /\ \A d \in Runs \ {r} : workerProc'[d] = workerProc[d]
           /\ ok => workerProc[r] \in {"alive", "stopped"} /\ workerProc'[r] = "stopped"
           /\ ~ok => workerProc[r] # "stopped"
           /\ workerProc[r] # "alive" => workerProc'[r] = workerProc[r]
<1>1. CASE workerProc[r] = "alive"
  BY <1>1 DEF Terminate, RunTypeOK
<1>2. CASE workerProc[r] = "stopped"
  BY <1>2 DEF Terminate, RunTypeOK
<1>3. CASE workerProc[r] \in {"none", "orphaned"}
  BY <1>3, Zenon DEF Terminate, RunTypeOK
<1> QED BY <1>1, <1>2, <1>3, Zenon DEF RunTypeOK

(* Unregister releases the permit of the last owner only.                  *)
LEMMA UnregisterMeans ==
    ASSUME NEW r \in Runs, RunTypeOK, Unregister(r)
    PROVE  /\ where' \in [Runs -> {"none", "retained", "active"}]
           /\ lease' \in [Runs -> {"free", "task", "retained", "lost"}]
           /\ \A d \in Runs \ {r} : where'[d] = where[d] /\ lease'[d] = lease[d]
           /\ where'[r] = "none"
           /\ lease'[r] = lease[r] \/ (lease[r] = "retained" /\ r \notin starting)
           /\ PermitMoves(r)
BY Zenon DEF Unregister, permitVars, RunTypeOK, PermitMoves

(* The types, the permits' bound aside.                                    *)
Shape ==
    /\ row \in [Runs -> {"none", "running", "done", "failed", "cancelled", "deleted"}]
    /\ lease \in [Runs -> {"free", "task", "retained", "lost"}]
    /\ at \in [Runs -> TaskPoints]
    /\ exc \in [Runs -> {"ok", "cancelled", "error"}]
    /\ reserved \in [Runs -> Outcomes \cup {NoOutcome}]
    /\ requested \in SUBSET Runs
    /\ terminal \in [Runs -> Outcomes \cup {NoOutcome}]
    /\ starting \in SUBSET Runs
    /\ where \in [Runs -> {"none", "retained", "active"}]
    /\ workerProc \in [Runs -> {"none", "alive", "stopped", "orphaned"}]
    /\ flagged \in SUBSET Runs
    /\ handler \in [Runs -> [at: {"idle", "scan", "cleanup", "drop"},
                             found: BOOLEAN, live: BOOLEAN]]

(* A step is about one run: what is left to show for it.                   *)
LEMMA RunCloses ==
    ASSUME RunInv, NEW r \in Runs, Shape', PermitMoves(r),
           \A d \in Runs \ {r} : Same(d),
           LeaseOf(r)', WorkerOf(r)', OutcomeOf(r)'
    PROVE  RunInv'
<1>1. \A d \in Runs \ {r} : lease'[d] = lease[d]
  BY Zenon DEF Same
<1>2. permits' + Cardinality(Holders') = Capacity /\ permits' \in 0..Capacity
  BY <1>1, PermitsAddUp, Zenon
<1>3. RunTypeOK'
  BY <1>2, Zenon DEF Shape, RunTypeOK
<1>4. \A d \in Runs \ {r} : LeaseOf(d)' /\ WorkerOf(d)' /\ OutcomeOf(d)'
  BY SameKeeps, Zenon DEF RunInv
<1>5. \A d \in Runs : LeaseOf(d)' /\ WorkerOf(d)' /\ OutcomeOf(d)'
  BY <1>4, Zenon
<1> QED BY <1>2, <1>3, <1>5, Zenon DEF RunInv

(* What the task writes when it is cancelled or fails stays within the     *)
(* types.                                                                  *)
LEMMA TaskWrites ==
    ASSUME Shape, NEW r \in Runs, CancelHere(r) \/ TaskError(r) \/ CancelledByTask(r)
    PROVE  /\ row' \in [Runs -> {"none", "running", "done", "failed", "cancelled", "deleted"}]
           /\ at' \in [Runs -> TaskPoints]
           /\ reserved' \in [Runs -> Outcomes \cup {NoOutcome}]
           /\ requested' \in SUBSET Runs
           /\ terminal' \in [Runs -> Outcomes \cup {NoOutcome}]
<1> DEFINE Goal == /\ row' \in [Runs -> {"none", "running", "done", "failed", "cancelled", "deleted"}]
                   /\ at' \in [Runs -> TaskPoints]
                   /\ reserved' \in [Runs -> Outcomes \cup {NoOutcome}]
                   /\ requested' \in SUBSET Runs
                   /\ terminal' \in [Runs -> Outcomes \cup {NoOutcome}]
<1>1. CASE TaskError(r)
  <2>1. "failed" \in Outcomes \cup {NoOutcome} /\ "failed" \in TaskPoints /\ "finally" \in TaskPoints
    BY Zenon DEF Outcomes, TaskPoints
  <2>2. CASE terminal[r] \in {NoOutcome, reserved[r]}
    <3>1. /\ terminal' = [terminal EXCEPT ![r] = "failed"]
          /\ reserved' = [reserved EXCEPT ![r] = "failed"]
          /\ at' = [at EXCEPT ![r] = "failed"]
          /\ row' = row /\ requested' = requested
      BY <1>1, <2>2, Zenon DEF TaskError, Goto
    <3> QED BY <2>1, <3>1, Zenon DEF Shape
  <2>3. CASE terminal[r] \notin {NoOutcome, reserved[r]}
    BY <1>1, <2>1, <2>3 DEF TaskError, Goto, Shape
  <2> QED BY <2>2, <2>3, Zenon
<1>2. CASE CancelledByTask(r)
  BY <1>2, Zenon DEF CancelledByTask, SealCancelled, SetRow, Goto, Shape, TaskPoints, Outcomes
<1>3. CASE Goto(r, "finally") /\ UNCHANGED <<row, requested, terminal, reserved>>
  BY <1>3, Zenon DEF Goto, Shape, TaskPoints
<1> HIDE DEF Goal
<1>4. Goal
  BY <1>1, <1>2, <1>3, Zenon DEF CancelHere, Goal
<1> QED BY <1>4, Zenon DEF Goal

(* Every step keeps the invariant, one action at a time.                   *)
LEMMA RunStep ==
    ASSUME RunInv, NEW r \in Runs
    PROVE  \/ Submit(r) \/ SubmitUndone(r) \/ SubmitWithoutJob(r)
           \/ Task(r) \/ Thread(r)
           \/ WorkerExits(r)
           \/ CancelRequest(r) \/ CancelStep(r)
           \/ DeleteRun(r)
           => RunInv'
<1> USE CapacityAssumption
<1>s. Shape
  BY Zenon DEF RunInv, RunTypeOK, Shape
<1>t. RunTypeOK
  BY Zenon DEF RunInv
<1>r. LeaseOf(r) /\ WorkerOf(r) /\ OutcomeOf(r)
  BY Zenon DEF RunInv
<1>1. CASE Submit(r)
  <2>1. Shape'
    BY <1>1, <1>s, Zenon DEF Submit, Goto, registryVars, Shape, TaskPoints, Outcomes
  <2>2. PermitMoves(r)
    BY <1>1, <1>s, <1>r, Zenon DEF Submit, Goto, registryVars, Shape, PermitMoves, LeaseOf
  <2>3. \A d \in Runs \ {r} : Same(d)
    BY <1>1, <1>s, Zenon DEF Submit, Goto, registryVars, Shape, Same
  <2>4. LeaseOf(r)'
    BY <1>1, <1>s, <1>r, Zenon DEF Submit, Goto, registryVars, Shape, LeaseOf, WorkerOf, Owned
  <2>5. WorkerOf(r)'
    BY <1>1, <1>s, <1>r, Zenon DEF Submit, Goto, registryVars, Shape, WorkerOf, Spawning, Early, Owned
  <2>6. OutcomeOf(r)'
    BY <1>1, <1>s, <1>r, Zenon DEF Submit, Goto, registryVars, Shape, OutcomeOf, WorkerOf, Spawning, Early,
       Owned
  <2> QED BY <2>1, <2>2, <2>3, <2>4, <2>5, <2>6, RunCloses, Zenon
<1>2. CASE SubmitUndone(r)
  <2>1. Shape'
    BY <1>2, <1>s, Zenon DEF SubmitUndone, Goto, permitVars, registryVars, Shape, TaskPoints, Outcomes
  <2>2. PermitMoves(r)
    BY <1>2, <1>s, <1>r, Zenon DEF SubmitUndone, Goto, permitVars, registryVars, Shape, PermitMoves
  <2>3. \A d \in Runs \ {r} : Same(d)
    BY <1>2, <1>s, Zenon DEF SubmitUndone, Goto, permitVars, registryVars, Shape, Same
  <2>4. LeaseOf(r)'
    BY <1>2, <1>s, <1>r, Zenon DEF SubmitUndone, Goto, permitVars, registryVars, Shape, LeaseOf, WorkerOf,
       Owned
  <2>5. WorkerOf(r)'
    BY <1>2, <1>s, <1>r, Zenon DEF SubmitUndone, Goto, permitVars, registryVars, Shape, WorkerOf, Spawning,
       Early,
       Owned
  <2>6. OutcomeOf(r)'
    BY <1>2, <1>s, <1>r, Zenon DEF SubmitUndone, Goto, permitVars, registryVars, Shape, OutcomeOf, WorkerOf,
       Spawning, Early, Owned
  <2> QED BY <2>1, <2>2, <2>3, <2>4, <2>5, <2>6, RunCloses, Zenon
<1>3. CASE SubmitWithoutJob(r)
  <2>1. Shape'
    BY <1>3, <1>s, Zenon DEF SubmitWithoutJob, Goto, registryVars, Shape, TaskPoints, Outcomes
  <2>2. PermitMoves(r)
    BY <1>3, <1>s, <1>r, Zenon DEF SubmitWithoutJob, Goto, registryVars, Shape, PermitMoves, LeaseOf
  <2>3. \A d \in Runs \ {r} : Same(d)
    BY <1>3, <1>s, Zenon DEF SubmitWithoutJob, Goto, registryVars, Shape, Same
  <2>4. LeaseOf(r)'
    BY <1>3, <1>s, <1>r, Zenon DEF SubmitWithoutJob, Goto, registryVars, Shape, LeaseOf, WorkerOf, Owned
  <2>5. WorkerOf(r)'
    BY <1>3, <1>s, <1>r, Zenon DEF SubmitWithoutJob, Goto, registryVars, Shape, WorkerOf, Spawning, Early,
       Owned
  <2>6. OutcomeOf(r)'
    BY <1>3, <1>s, <1>r, Zenon DEF SubmitWithoutJob, Goto, registryVars, Shape, OutcomeOf, WorkerOf, Spawning,
       Early, Owned
  <2> QED BY <2>1, <2>2, <2>3, <2>4, <2>5, <2>6, RunCloses, Zenon
<1>4. CASE LoadStage(r)
  <2>1. Shape'
    <3>1. CASE CancelHere(r)
      BY <1>4, <1>s, <3>1, TaskWrites, Zenon DEF LoadStage, permitVars, registryVars, Shape
    <3>2. CASE Goto(r, NextPoint[at[r]]) /\ UNCHANGED <<row, requested, terminal, reserved>>
      <4>1. NextPoint[at[r]] \in TaskPoints
        BY <1>4 DEF LoadStage, NextPoint, TaskPoints
      <4> QED BY <1>4, <1>s, <3>2, <4>1, Zenon DEF LoadStage, Goto, permitVars, registryVars, Shape
    <3> QED BY <1>4, <3>1, <3>2, Zenon DEF LoadStage
  <2>2. PermitMoves(r)
    BY <1>4, <1>s, <1>r, Zenon DEF LoadStage, CancelHere, NextPoint, Goto, Quiescent, TaskError,
       CancelledByTask,
       SetRow, SealCancelled, permitVars, registryVars, Shape, PermitMoves
  <2>3. \A d \in Runs \ {r} : Same(d)
    BY <1>4, <1>s DEF LoadStage, CancelHere, NextPoint, Goto, Quiescent, TaskError, CancelledByTask,
       SetRow, SealCancelled, permitVars, registryVars, Shape, Same
  <2>4. LeaseOf(r)'
    BY <1>4, <1>s, <1>r DEF LoadStage, CancelHere, NextPoint, Goto, Quiescent, TaskError, CancelledByTask,
       SetRow, SealCancelled, permitVars, registryVars, Shape, LeaseOf, WorkerOf, Owned
  <2>5. WorkerOf(r)'
    BY <1>4, <1>s, <1>r DEF LoadStage, CancelHere, NextPoint, Goto, Quiescent, TaskError, CancelledByTask,
       SetRow, SealCancelled, permitVars, registryVars, Shape, WorkerOf, Spawning, Early, Owned
  <2>6. OutcomeOf(r)'
    BY <1>4, <1>s, <1>r DEF LoadStage, CancelHere, NextPoint, Goto, Quiescent, TaskError, CancelledByTask,
       SetRow, SealCancelled, permitVars, registryVars, Shape, OutcomeOf, WorkerOf, Spawning, Early, Owned
  <2> QED BY <2>1, <2>2, <2>3, <2>4, <2>5, <2>6, RunCloses, Zenon
<1>5. CASE LoadFails(r)
  <2>1. Shape'
    BY <1>5, <1>s, ZenonT(40) DEF LoadFails, SetRow, Goto, permitVars, registryVars, Shape, TaskPoints,
       Outcomes
  <2>2. PermitMoves(r)
    BY <1>5, <1>s, <1>r, Zenon DEF LoadFails, SetRow, Goto, permitVars, registryVars, Shape, PermitMoves
  <2>3. \A d \in Runs \ {r} : Same(d)
    BY <1>5, <1>s DEF LoadFails, SetRow, Goto, permitVars, registryVars, Shape, Same
  <2>4. LeaseOf(r)'
    BY <1>5, <1>s, <1>r, Zenon DEF LoadFails, SetRow, Goto, permitVars, registryVars, Shape, LeaseOf,
       WorkerOf, Owned
  <2>5. WorkerOf(r)'
    BY <1>5, <1>s, <1>r DEF LoadFails, SetRow, Goto, permitVars, registryVars, Shape, WorkerOf, Spawning,
       Early, Owned
  <2>6. OutcomeOf(r)'
    BY <1>5, <1>s, <1>r DEF LoadFails, SetRow, Goto, permitVars, registryVars, Shape, OutcomeOf, WorkerOf,
       Spawning, Early, Owned
  <2> QED BY <2>1, <2>2, <2>3, <2>4, <2>5, <2>6, RunCloses, Zenon
<1>6. CASE LoadFailed(r)
  <2>1. Shape'
    BY <1>6, <1>s, Zenon DEF LoadFailed, SetRow, Goto, permitVars, registryVars, Shape, TaskPoints, Outcomes
  <2>2. PermitMoves(r)
    BY <1>6, <1>s, <1>r, Zenon DEF LoadFailed, SetRow, Goto, permitVars, registryVars, Shape, PermitMoves
  <2>3. \A d \in Runs \ {r} : Same(d)
    BY <1>6, <1>s, Zenon DEF LoadFailed, SetRow, Goto, permitVars, registryVars, Shape, Same
  <2>4. LeaseOf(r)'
    BY <1>6, <1>s, <1>r, Zenon DEF LoadFailed, SetRow, Goto, permitVars, registryVars, Shape, LeaseOf,
       WorkerOf,
       Owned
  <2>5. WorkerOf(r)'
    BY <1>6, <1>s, <1>r, Zenon DEF LoadFailed, SetRow, Goto, permitVars, registryVars, Shape, WorkerOf,
       Spawning,
       Early, Owned
  <2>6. OutcomeOf(r)'
    BY <1>6, <1>s, <1>r, Zenon DEF LoadFailed, SetRow, Goto, permitVars, registryVars, Shape, OutcomeOf,
       WorkerOf,
       Spawning, Early, Owned
  <2> QED BY <2>1, <2>2, <2>3, <2>4, <2>5, <2>6, RunCloses, Zenon
<1>7. CASE SetupRaises(r)
  <2>1. Shape'
    <3>1. TaskError(r) /\ UNCHANGED <<exc, permitVars, registryVars, workerProc, flagged, handler>>
      BY <1>7, Zenon DEF SetupRaises
    <3> QED BY <1>s, <3>1, TaskWrites, Zenon DEF permitVars, registryVars, Shape
  <2>2. PermitMoves(r)
    BY <1>7, <1>s, <1>r, Zenon DEF SetupRaises, TaskError, Goto, permitVars, registryVars, Shape, PermitMoves
  <2>3. \A d \in Runs \ {r} : Same(d)
    BY <1>7, <1>s DEF SetupRaises, TaskError, Goto, permitVars, registryVars, Shape, Same
  <2>4. LeaseOf(r)'
    BY <1>7, <1>s, <1>r, Zenon DEF SetupRaises, TaskError, Goto, permitVars, registryVars, Shape, LeaseOf,
       WorkerOf, Owned
  <2>5. WorkerOf(r)'
    BY <1>7, <1>s, <1>r DEF SetupRaises, TaskError, Goto, permitVars, registryVars, Shape, WorkerOf,
       Spawning, Early, Owned
  <2>6. OutcomeOf(r)'
    BY <1>7, <1>s, <1>r DEF SetupRaises, TaskError, Goto, permitVars, registryVars, Shape, OutcomeOf,
       WorkerOf, Spawning, Early, Owned
  <2> QED BY <2>1, <2>2, <2>3, <2>4, <2>5, <2>6, RunCloses, Zenon
<1>8. CASE TaskReturns(r)
  <2>1. Shape'
    <3>1. CASE CancelHere(r) \/ TaskError(r)
      BY <1>8, <1>s, <3>1, TaskWrites, Zenon DEF TaskReturns, permitVars, registryVars, Shape
    <3>2. CASE /\ terminal' = [terminal EXCEPT ![r] = "success"]
               /\ reserved' = [reserved EXCEPT ![r] = "success"]
               /\ Goto(r, "saving") /\ UNCHANGED <<row, requested>>
      BY <1>8, <1>s, <3>2, Zenon DEF TaskReturns, Goto, permitVars, registryVars, Shape, TaskPoints, Outcomes
    <3> QED BY <1>8, <3>1, <3>2, Zenon DEF TaskReturns
  <2>2. PermitMoves(r)
    BY <1>8, <1>s, <1>r, Zenon DEF TaskReturns, Quiescent, TaskError, CancelHere, Goto, CancelledByTask,
       SetRow,
       SealCancelled, permitVars, registryVars, Shape, PermitMoves
  <2>3. \A d \in Runs \ {r} : Same(d)
    BY <1>8, <1>s DEF TaskReturns, Quiescent, TaskError, CancelHere, Goto, CancelledByTask, SetRow,
       SealCancelled, permitVars, registryVars, Shape, Same
  <2>4. LeaseOf(r)'
    BY <1>8, <1>s, <1>r, Zenon DEF TaskReturns, Quiescent, TaskError, CancelHere, Goto, CancelledByTask,
       SetRow,
       SealCancelled, permitVars, registryVars, Shape, LeaseOf, WorkerOf, Owned
  <2>5. WorkerOf(r)'
    BY <1>8, <1>s, <1>r DEF TaskReturns, Quiescent, TaskError, CancelHere, Goto, CancelledByTask, SetRow,
       SealCancelled, permitVars, registryVars, Shape, WorkerOf, Spawning, Early, Owned
  <2>6. OutcomeOf(r)'
    BY <1>8, <1>s, <1>r DEF TaskReturns, Quiescent, TaskError, CancelHere, Goto, CancelledByTask, SetRow,
       SealCancelled, permitVars, registryVars, Shape, OutcomeOf, WorkerOf, Spawning, Early, Owned
  <2> QED BY <2>1, <2>2, <2>3, <2>4, <2>5, <2>6, RunCloses, Zenon
<1>9. CASE TaskCancelled(r)
  <2>1. Shape'
    <3>1. CASE CancelledByTask(r)
      BY <1>9, <1>s, <3>1, TaskWrites, Zenon DEF TaskCancelled, permitVars, registryVars, Shape
    <3>2. CASE Goto(r, "finally") /\ UNCHANGED <<row, requested, terminal, reserved>>
      BY <1>9, <1>s, <3>2, Zenon DEF TaskCancelled, Goto, permitVars, registryVars, Shape, TaskPoints
    <3> QED BY <1>9, <3>1, <3>2, Zenon DEF TaskCancelled
  <2>2. PermitMoves(r)
    BY <1>9, <1>s, <1>r, Zenon DEF TaskCancelled, Quiescent, CancelledByTask, Goto, SetRow, SealCancelled,
       permitVars, registryVars, Shape, PermitMoves
  <2>3. \A d \in Runs \ {r} : Same(d)
    BY <1>9, <1>s DEF TaskCancelled, Quiescent, CancelledByTask, Goto, SetRow, SealCancelled, permitVars,
       registryVars, Shape, Same
  <2>4. LeaseOf(r)'
    BY <1>9, <1>s, <1>r, Zenon DEF TaskCancelled, Quiescent, CancelledByTask, Goto, SetRow, SealCancelled,
       permitVars, registryVars, Shape, LeaseOf, WorkerOf, Owned
  <2>5. WorkerOf(r)'
    BY <1>9, <1>s, <1>r DEF TaskCancelled, Quiescent, CancelledByTask, Goto, SetRow, SealCancelled,
       permitVars, registryVars, Shape, WorkerOf, Spawning, Early, Owned
  <2>6. OutcomeOf(r)'
    BY <1>9, <1>s, <1>r DEF TaskCancelled, Quiescent, CancelledByTask, Goto, SetRow, SealCancelled,
       permitVars, registryVars, Shape, OutcomeOf, WorkerOf, Spawning, Early, Owned
  <2> QED BY <2>1, <2>2, <2>3, <2>4, <2>5, <2>6, RunCloses, Zenon
<1>10. CASE TaskRaised(r)
  <2>1. Shape'
    BY <1>10, <1>s, ZenonT(40) DEF TaskRaised, TaskError, Goto, permitVars, registryVars, Shape, TaskPoints,
       Outcomes
  <2>2. PermitMoves(r)
    BY <1>10, <1>s, <1>r, Zenon DEF TaskRaised, TaskError, Goto, permitVars, registryVars, Shape, PermitMoves
  <2>3. \A d \in Runs \ {r} : Same(d)
    BY <1>10, <1>s DEF TaskRaised, TaskError, Goto, permitVars, registryVars, Shape, Same
  <2>4. LeaseOf(r)'
    BY <1>10, <1>s, <1>r, Zenon DEF TaskRaised, TaskError, Goto, permitVars, registryVars, Shape, LeaseOf,
       WorkerOf, Owned
  <2>5. WorkerOf(r)'
    BY <1>10, <1>s, <1>r DEF TaskRaised, TaskError, Goto, permitVars, registryVars, Shape, WorkerOf,
       Spawning, Early, Owned
  <2>6. OutcomeOf(r)'
    BY <1>10, <1>s, <1>r DEF TaskRaised, TaskError, Goto, permitVars, registryVars, Shape, OutcomeOf,
       WorkerOf, Spawning, Early, Owned
  <2> QED BY <2>1, <2>2, <2>3, <2>4, <2>5, <2>6, RunCloses, Zenon
<1>11. CASE SaveResult(r)
  <2>1. Shape'
    BY <1>11, <1>s, Zenon DEF SaveResult, Goto, permitVars, registryVars, Shape, TaskPoints, Outcomes
  <2>2. PermitMoves(r)
    BY <1>11, <1>s, <1>r, Zenon DEF SaveResult, Goto, permitVars, registryVars, Shape, PermitMoves
  <2>3. \A d \in Runs \ {r} : Same(d)
    BY <1>11, <1>s, Zenon DEF SaveResult, Goto, permitVars, registryVars, Shape, Same
  <2>4. LeaseOf(r)'
    BY <1>11, <1>s, <1>r, Zenon DEF SaveResult, Goto, permitVars, registryVars, Shape, LeaseOf, WorkerOf,
       Owned
  <2>5. WorkerOf(r)'
    BY <1>11, <1>s, <1>r, Zenon DEF SaveResult, Goto, permitVars, registryVars, Shape, WorkerOf, Spawning,
       Early,
       Owned
  <2>6. OutcomeOf(r)'
    BY <1>11, <1>s, <1>r, Zenon DEF SaveResult, Goto, permitVars, registryVars, Shape, OutcomeOf, WorkerOf,
       Spawning, Early, Owned
  <2> QED BY <2>1, <2>2, <2>3, <2>4, <2>5, <2>6, RunCloses, Zenon
<1>12. CASE SaveFails(r)
  <2>1. Shape'
    <3>1. TaskError(r) /\ UNCHANGED <<exc, permitVars, registryVars, workerProc, flagged, handler>>
      BY <1>12, Zenon DEF SaveFails
    <3> QED BY <1>s, <3>1, TaskWrites, Zenon DEF permitVars, registryVars, Shape
  <2>2. PermitMoves(r)
    BY <1>12, <1>s, <1>r, Zenon DEF SaveFails, TaskError, Goto, permitVars, registryVars, Shape, PermitMoves
  <2>3. \A d \in Runs \ {r} : Same(d)
    BY <1>12, <1>s DEF SaveFails, TaskError, Goto, permitVars, registryVars, Shape, Same
  <2>4. LeaseOf(r)'
    BY <1>12, <1>s, <1>r, Zenon DEF SaveFails, TaskError, Goto, permitVars, registryVars, Shape, LeaseOf,
       WorkerOf, Owned
  <2>5. WorkerOf(r)'
    BY <1>12, <1>s, <1>r DEF SaveFails, TaskError, Goto, permitVars, registryVars, Shape, WorkerOf,
       Spawning, Early, Owned
  <2>6. OutcomeOf(r)'
    BY <1>12, <1>s, <1>r DEF SaveFails, TaskError, Goto, permitVars, registryVars, Shape, OutcomeOf,
       WorkerOf, Spawning, Early, Owned
  <2> QED BY <2>1, <2>2, <2>3, <2>4, <2>5, <2>6, RunCloses, Zenon
<1>13. CASE TaskFailed(r)
  <2>1. Shape'
    BY <1>13, <1>s, Zenon DEF TaskFailed, SetRow, Goto, permitVars, registryVars, Shape, TaskPoints, Outcomes
  <2>2. PermitMoves(r)
    BY <1>13, <1>s, <1>r, Zenon DEF TaskFailed, SetRow, Goto, permitVars, registryVars, Shape, PermitMoves
  <2>3. \A d \in Runs \ {r} : Same(d)
    BY <1>13, <1>s, Zenon DEF TaskFailed, SetRow, Goto, permitVars, registryVars, Shape, Same
  <2>4. LeaseOf(r)'
    BY <1>13, <1>s, <1>r, Zenon DEF TaskFailed, SetRow, Goto, permitVars, registryVars, Shape, LeaseOf,
       WorkerOf,
       Owned
  <2>5. WorkerOf(r)'
    BY <1>13, <1>s, <1>r, Zenon DEF TaskFailed, SetRow, Goto, permitVars, registryVars, Shape, WorkerOf,
       Spawning,
       Early, Owned
  <2>6. OutcomeOf(r)'
    BY <1>13, <1>s, <1>r, Zenon DEF TaskFailed, SetRow, Goto, permitVars, registryVars, Shape, OutcomeOf,
       WorkerOf, Spawning, Early, Owned
  <2> QED BY <2>1, <2>2, <2>3, <2>4, <2>5, <2>6, RunCloses, Zenon
<1>14. CASE Finally(r)
  <2>1. Shape'
    BY <1>14, <1>s, Zenon DEF Finally, Retains, Goto, registryVars, Shape, TaskPoints, Outcomes
  <2>2. PermitMoves(r)
    BY <1>14, <1>s, <1>r, Zenon DEF Finally, Retains, Goto, registryVars, Shape, PermitMoves, LeaseOf
  <2>3. \A d \in Runs \ {r} : Same(d)
    BY <1>14, <1>s, Zenon DEF Finally, Retains, Goto, registryVars, Shape, Same
  <2>4. LeaseOf(r)'
    BY <1>14, <1>s, <1>r, Zenon DEF Finally, Retains, Goto, registryVars, Shape, LeaseOf, WorkerOf, Owned
  <2>5. WorkerOf(r)'
    BY <1>14, <1>s, <1>r, Zenon DEF Finally, Retains, Goto, registryVars, Shape, WorkerOf, Spawning, Early,
       Owned
  <2>6. OutcomeOf(r)'
    BY <1>14, <1>s, <1>r, Zenon DEF Finally, Retains, Goto, registryVars, Shape, OutcomeOf, WorkerOf,
       Spawning,
       Early, Owned
  <2> QED BY <2>1, <2>2, <2>3, <2>4, <2>5, <2>6, RunCloses, Zenon
<1>15. CASE Admit(r)
  <2>1. Shape'
    <3>1. CASE Admissible(r)
      <4>1. where' \in [Runs -> {"none", "retained", "active"}] /\ starting' \in SUBSET Runs
        BY <1>15, <1>s, <3>1 DEF Admit, Shape
      <4>2. at' \in [Runs -> TaskPoints]
        BY <1>15, <1>s, <3>1 DEF Admit, Goto, Shape, TaskPoints
      <4> QED BY <1>15, <1>s, <3>1, <4>1, <4>2, Zenon DEF Admit, permitVars, Shape
    <3>2. CASE ~Admissible(r)
      BY <1>15, <1>s, <3>2, Zenon DEF Admit, Goto, permitVars, registryVars, Shape, TaskPoints
    <3> QED BY <3>1, <3>2, Zenon
  <2>2. PermitMoves(r)
    BY <1>15, <1>s, <1>r, Zenon DEF Admit, Admissible, Goto, permitVars, registryVars, Shape, PermitMoves
  <2>3. \A d \in Runs \ {r} : Same(d)
    BY <1>15, <1>s DEF Admit, Admissible, Goto, permitVars, registryVars, Shape, Same
  <2>4. LeaseOf(r)'
    BY <1>15, <1>s, <1>r, Zenon DEF Admit, Admissible, Goto, permitVars, registryVars, Shape, LeaseOf,
       WorkerOf,
       Owned
  <2>5. WorkerOf(r)'
    BY <1>15, <1>s, <1>r DEF Admit, Admissible, Goto, permitVars, registryVars, Shape, WorkerOf, Spawning,
       Early, Owned
  <2>6. OutcomeOf(r)'
    BY <1>15, <1>s, <1>r DEF Admit, Admissible, Goto, permitVars, registryVars, Shape, OutcomeOf, WorkerOf,
       Spawning, Early, Owned
  <2> QED BY <2>1, <2>2, <2>3, <2>4, <2>5, <2>6, RunCloses, Zenon
<1>16. CASE StartProcess(r)
  <2>1. Shape'
    BY <1>16, <1>s, ZenonT(40) DEF StartProcess, Goto, permitVars, registryVars, Shape, TaskPoints, Outcomes
  <2>2. PermitMoves(r)
    BY <1>16, <1>s, <1>r, Zenon DEF StartProcess, Goto, permitVars, registryVars, Shape, PermitMoves
  <2>3. \A d \in Runs \ {r} : Same(d)
    BY <1>16, <1>s DEF StartProcess, Goto, permitVars, registryVars, Shape, Same
  <2>4. LeaseOf(r)'
    BY <1>16, <1>s, <1>r, Zenon DEF StartProcess, Goto, permitVars, registryVars, Shape, LeaseOf, WorkerOf,
       Owned
  <2>5. WorkerOf(r)'
    BY <1>16, <1>s, <1>r DEF StartProcess, Goto, permitVars, registryVars, Shape, WorkerOf, Spawning,
       Early, Owned
  <2>6. OutcomeOf(r)'
    BY <1>16, <1>s, <1>r, Zenon DEF StartProcess, Goto, permitVars, registryVars, Shape, OutcomeOf, WorkerOf,
       Spawning, Early, Owned
  <2> QED BY <2>1, <2>2, <2>3, <2>4, <2>5, <2>6, RunCloses, Zenon
<1>17. CASE Isolate(r)
  <2>1. Shape'
    BY <1>17, <1>s DEF Isolate, Goto, permitVars, registryVars, Shape, TaskPoints, Outcomes
  <2>2. PermitMoves(r)
    BY <1>17, <1>s, <1>r, Zenon DEF Isolate, Goto, permitVars, registryVars, Shape, PermitMoves
  <2>3. \A d \in Runs \ {r} : Same(d)
    BY <1>17, <1>s, Zenon DEF Isolate, Goto, permitVars, registryVars, Shape, Same
  <2>4. LeaseOf(r)'
    BY <1>17, <1>s, <1>r, Zenon DEF Isolate, Goto, permitVars, registryVars, Shape, LeaseOf, WorkerOf, Owned
  <2>5. WorkerOf(r)'
    BY <1>17, <1>s, <1>r DEF Isolate, Goto, permitVars, registryVars, Shape, WorkerOf, Spawning, Early, Owned
  <2>6. OutcomeOf(r)'
    BY <1>17, <1>s, <1>r, Zenon DEF Isolate, Goto, permitVars, registryVars, Shape, OutcomeOf, WorkerOf,
       Spawning,
       Early, Owned
  <2> QED BY <2>1, <2>2, <2>3, <2>4, <2>5, <2>6, RunCloses, Zenon
<1>18. CASE Undo(r)
  <2>u. lease[r] = "task" /\ lease'[r] = "task" /\ at'[r] = "unstart"
    <3>1. lease[r] = "task"
      BY <1>18, <1>r, Zenon DEF Undo, LeaseOf
    <3>2. lease'[r] = lease[r]
      <4>1. CASE Unregister(r)
        BY <4>1, <3>1, <1>t, UnregisterMeans, Zenon
      <4>2. CASE UNCHANGED permitVars
        BY <4>2, Zenon DEF permitVars
      <4> QED BY <1>18, <4>1, <4>2, Zenon DEF Undo
    <3>3. at'[r] = "unstart"
      BY <1>18, <1>s, Zenon DEF Undo, Goto, Shape
    <3> QED BY <3>1, <3>2, <3>3, Zenon
  <2>w. /\ where'[r] = "none" => workerProc'[r] \in {"none", "stopped"}
        /\ workerProc[r] = "stopped" => workerProc'[r] = "stopped"
    <3>1. CASE Terminate(r, TRUE)
      BY <3>1, <1>t, TerminateMeans, Zenon
    <3>2. CASE Terminate(r, FALSE) /\ UNCHANGED where
      <4>1. workerProc[r] # "stopped" /\ (workerProc[r] # "alive" => workerProc'[r] = workerProc[r])
        BY <3>2, <1>t, TerminateMeans, Zenon
      <4> QED BY <3>2, <4>1, <1>r, Zenon DEF WorkerOf
    <3>3. CASE workerProc[r] = "none" /\ UNCHANGED workerProc
      BY <3>3, Zenon
    <3> QED BY <1>18, <3>1, <3>2, <3>3, Zenon DEF Undo
  <2>1. Shape'
    BY <1>18, <1>s, <1>t, TerminateMeans, UnregisterMeans, Zenon DEF Undo, Goto, permitVars, Shape,
       TaskPoints,
       Outcomes
  <2>2. PermitMoves(r)
    BY <1>18, <1>s, <1>r, <1>t, TerminateMeans, UnregisterMeans, Zenon DEF Undo, Goto, permitVars, Shape,
       PermitMoves
  <2>3. \A d \in Runs \ {r} : Same(d)
    <3>1. \A d \in Runs \ {r} : workerProc'[d] = workerProc[d]
      BY <1>18, <1>t, TerminateMeans, Zenon DEF Undo
    <3>2. \A d \in Runs \ {r} : where'[d] = where[d] /\ lease'[d] = lease[d]
      BY <1>18, <1>t, UnregisterMeans, Zenon DEF Undo, permitVars
    <3> QED BY <1>18, <1>s, <3>1, <3>2, Zenon DEF Undo, Goto, Shape, Same
  <2>4. LeaseOf(r)'
    BY <2>u, <1>18, <1>r, Zenon DEF Undo, LeaseOf
  <2>5. WorkerOf(r)'
    BY <2>u, <2>w, <1>18, <1>r, Zenon DEF Undo, WorkerOf, Spawning, Early
  <2>6. OutcomeOf(r)'
    BY <1>18, <1>s, <1>r, <1>t, TerminateMeans, UnregisterMeans DEF Undo, Goto, permitVars, Shape,
       OutcomeOf, WorkerOf, Spawning, Early, Owned
  <2> QED BY <2>1, <2>2, <2>3, <2>4, <2>5, <2>6, RunCloses, Zenon
<1>19. CASE Unstart(r)
  <2>1. Shape'
    BY <1>19, <1>s, Zenon DEF Unstart, Goto, permitVars, Shape, TaskPoints, Outcomes
  <2>2. PermitMoves(r)
    BY <1>19, <1>s, <1>r, Zenon DEF Unstart, Goto, permitVars, Shape, PermitMoves
  <2>3. \A d \in Runs \ {r} : Same(d)
    BY <1>19, <1>s, Zenon DEF Unstart, Goto, permitVars, Shape, Same
  <2>4. LeaseOf(r)'
    BY <1>19, <1>s, <1>r, Zenon DEF Unstart, Goto, permitVars, Shape, LeaseOf, WorkerOf, Owned
  <2>5. WorkerOf(r)'
    BY <1>19, <1>s, <1>r, Zenon DEF Unstart, Goto, permitVars, Shape, WorkerOf, Spawning, Early, Owned
  <2>6. OutcomeOf(r)'
    BY <1>19, <1>s, <1>r, Zenon DEF Unstart, Goto, permitVars, Shape, OutcomeOf, WorkerOf, Spawning, Early,
       Owned
  <2> QED BY <2>1, <2>2, <2>3, <2>4, <2>5, <2>6, RunCloses, Zenon
<1>20. CASE Register(r)
  <2>1. Shape'
    BY <1>20, <1>s, Zenon DEF Register, Goto, permitVars, Shape, TaskPoints, Outcomes
  <2>2. PermitMoves(r)
    BY <1>20, <1>s, <1>r, Zenon DEF Register, Goto, permitVars, Shape, PermitMoves
  <2>3. \A d \in Runs \ {r} : Same(d)
    BY <1>20, <1>s, Zenon DEF Register, Goto, permitVars, Shape, Same
  <2>4. LeaseOf(r)'
    BY <1>20, <1>s, <1>r, Zenon DEF Register, Goto, permitVars, Shape, LeaseOf, WorkerOf, Owned
  <2>5. WorkerOf(r)'
    BY <1>20, <1>s, <1>r, Zenon DEF Register, Goto, permitVars, Shape, WorkerOf, Spawning, Early, Owned
  <2>6. OutcomeOf(r)'
    BY <1>20, <1>s, <1>r, Zenon DEF Register, Goto, permitVars, Shape, OutcomeOf, WorkerOf, Spawning,
       Early, Owned
  <2> QED BY <2>1, <2>2, <2>3, <2>4, <2>5, <2>6, RunCloses, Zenon
<1>21. CASE Started(r)
  <2>1. Shape'
    BY <1>21, <1>s, Zenon DEF Started, Goto, permitVars, Shape, TaskPoints, Outcomes
  <2>2. PermitMoves(r)
    BY <1>21, <1>s, <1>r, Zenon DEF Started, Goto, permitVars, Shape, PermitMoves
  <2>3. \A d \in Runs \ {r} : Same(d)
    BY <1>21, <1>s, Zenon DEF Started, Goto, permitVars, Shape, Same
  <2>4. LeaseOf(r)'
    BY <1>21, <1>s, <1>r, Zenon DEF Started, Goto, permitVars, Shape, LeaseOf, WorkerOf, Owned
  <2>5. WorkerOf(r)'
    BY <1>21, <1>s, <1>r, Zenon DEF Started, Goto, permitVars, Shape, WorkerOf, Spawning, Early, Owned
  <2>6. OutcomeOf(r)'
    BY <1>21, <1>s, <1>r, Zenon DEF Started, Goto, permitVars, Shape, OutcomeOf, WorkerOf, Spawning, Early,
       Owned
  <2> QED BY <2>1, <2>2, <2>3, <2>4, <2>5, <2>6, RunCloses, Zenon
<1>22. CASE LoopCancelled(r)
  <2>1. Shape'
    BY <1>22, <1>s, <1>t, TerminateMeans DEF LoopCancelled, CancelSeen, Goto, permitVars, registryVars,
       Shape, TaskPoints, Outcomes
  <2>2. PermitMoves(r)
    BY <1>22, <1>s, <1>r, <1>t, TerminateMeans, Zenon DEF LoopCancelled, CancelSeen, Goto, permitVars,
       registryVars, Shape, PermitMoves
  <2>3. \A d \in Runs \ {r} : Same(d)
    BY <1>22, <1>s, <1>t, TerminateMeans DEF LoopCancelled, CancelSeen, Goto, permitVars, registryVars,
       Shape, Same
  <2>4. LeaseOf(r)'
    BY <1>22, <1>s, <1>r, <1>t, TerminateMeans, Zenon DEF LoopCancelled, CancelSeen, Goto, permitVars,
       registryVars, Shape, LeaseOf, WorkerOf, Owned
  <2>5. WorkerOf(r)'
    BY <1>22, <1>s, <1>r, <1>t, TerminateMeans DEF LoopCancelled, CancelSeen, Goto, permitVars,
       registryVars, Shape, WorkerOf, Spawning, Early, Owned
  <2>6. OutcomeOf(r)'
    BY <1>22, <1>s, <1>r, <1>t, TerminateMeans DEF LoopCancelled, CancelSeen, Goto, permitVars,
       registryVars, Shape, OutcomeOf, WorkerOf, Spawning, Early, Owned
  <2> QED BY <2>1, <2>2, <2>3, <2>4, <2>5, <2>6, RunCloses, Zenon
<1>23. CASE LoopEnds(r)
  <2>1. Shape'
    BY <1>23, <1>s DEF LoopEnds, Goto, permitVars, registryVars, Shape, TaskPoints, Outcomes
  <2>2. PermitMoves(r)
    BY <1>23, <1>s, <1>r, Zenon DEF LoopEnds, Goto, permitVars, registryVars, Shape, PermitMoves
  <2>3. \A d \in Runs \ {r} : Same(d)
    BY <1>23, <1>s, Zenon DEF LoopEnds, Goto, permitVars, registryVars, Shape, Same
  <2>4. LeaseOf(r)'
    BY <1>23, <1>s, <1>r, Zenon DEF LoopEnds, Goto, permitVars, registryVars, Shape, LeaseOf, WorkerOf, Owned
  <2>5. WorkerOf(r)'
    BY <1>23, <1>s, <1>r, Zenon DEF LoopEnds, Goto, permitVars, registryVars, Shape, WorkerOf, Spawning,
       Early, Owned
  <2>6. OutcomeOf(r)'
    BY <1>23, <1>s, <1>r, Zenon DEF LoopEnds, Goto, permitVars, registryVars, Shape, OutcomeOf, WorkerOf,
       Spawning, Early, Owned
  <2> QED BY <2>1, <2>2, <2>3, <2>4, <2>5, <2>6, RunCloses, Zenon
<1>24. CASE Final(r)
  <2>1. Shape'
    <3>1. workerProc' \in [Runs -> {"none", "alive", "stopped", "orphaned"}]
      BY <1>24, <1>t, TerminateMeans, Zenon DEF Final
    <3>2. /\ at' = [at EXCEPT ![r] = "drop"] \/ at' = [at EXCEPT ![r] = "returned"]
          /\ exc' = exc \/ exc' = [exc EXCEPT ![r] = "error"]
          /\ UNCHANGED <<row, permitVars, reserved, requested, terminal, registryVars, flagged, handler>>
      BY <1>24, Zenon DEF Final, Goto
    <3>3. at' \in [Runs -> TaskPoints]
      BY <1>s, <3>2 DEF Shape, TaskPoints
    <3>4. exc' \in [Runs -> {"ok", "cancelled", "error"}]
      BY <1>s, <3>2, Zenon DEF Shape
    <3> QED BY <1>s, <3>1, <3>2, <3>3, <3>4, Zenon DEF Shape, permitVars, registryVars
  <2>2. PermitMoves(r)
    BY <1>24, <1>s, <1>r, <1>t, TerminateMeans, Zenon DEF Final, Goto, permitVars, registryVars, Shape,
       PermitMoves
  <2>3. \A d \in Runs \ {r} : Same(d)
    <3>1. \A d \in Runs \ {r} : workerProc'[d] = workerProc[d]
      BY <1>24, <1>t, TerminateMeans, Zenon DEF Final
    <3> QED BY <1>24, <1>s, <3>1, ZenonT(40) DEF Final, Goto, permitVars, registryVars, Shape, Same
  <2>4. LeaseOf(r)'
    BY <1>24, <1>s, <1>r, <1>t, TerminateMeans, Zenon DEF Final, Goto, permitVars, registryVars, Shape,
       LeaseOf,
       WorkerOf, Owned
  <2>5. WorkerOf(r)'
    <3>1. CASE Terminate(r, TRUE) /\ Goto(r, "drop")
      <4>1. workerProc'[r] = "stopped"
        BY <1>t, <3>1, TerminateMeans, Zenon
      <4> QED BY <1>24, <1>s, <1>r, <3>1, <4>1, Zenon DEF Final, Goto, registryVars, Shape, WorkerOf,
      Spawning, Early
    <3>2. CASE Terminate(r, FALSE) /\ Goto(r, "returned")
      <4>1. workerProc[r] # "alive" => workerProc'[r] = workerProc[r]
        BY <1>t, <3>2, TerminateMeans, Zenon
      <4> QED BY <1>24, <1>s, <1>r, <3>2, <4>1, Zenon DEF Final, Goto, registryVars, Shape, WorkerOf,
      Spawning, Early
    <3> QED BY <1>24, <3>1, <3>2, Zenon DEF Final
  <2>6. OutcomeOf(r)'
    BY <1>24, <1>s, <1>r, <1>t, TerminateMeans, ZenonT(40) DEF Final, Goto, permitVars, registryVars, Shape,
       OutcomeOf,
       WorkerOf, Spawning, Early, Owned
  <2> QED BY <2>1, <2>2, <2>3, <2>4, <2>5, <2>6, RunCloses, Zenon
<1>25. CASE Drop(r)
  <2>1. Shape'
    BY <1>25, <1>s, <1>t, UnregisterMeans DEF Drop, Goto, Shape, TaskPoints, Outcomes
  <2>2. PermitMoves(r)
    BY <1>25, <1>s, <1>r, <1>t, UnregisterMeans, Zenon DEF Drop, Goto, Shape, PermitMoves
  <2>3. \A d \in Runs \ {r} : Same(d)
    BY <1>25, <1>s, <1>t, UnregisterMeans DEF Drop, Goto, Shape, Same
  <2>4. LeaseOf(r)'
    BY <1>25, <1>s, <1>r, <1>t, UnregisterMeans DEF Drop, Goto, Shape, LeaseOf, WorkerOf, Owned
  <2>5. WorkerOf(r)'
    BY <1>25, <1>s, <1>r, <1>t, UnregisterMeans DEF Drop, Goto, Shape, WorkerOf, Spawning, Early, Owned
  <2>6. OutcomeOf(r)'
    BY <1>25, <1>s, <1>r, <1>t, UnregisterMeans DEF Drop, Goto, Shape, OutcomeOf, WorkerOf, Spawning,
       Early, Owned
  <2> QED BY <2>1, <2>2, <2>3, <2>4, <2>5, <2>6, RunCloses, Zenon
<1>26. CASE WorkerExits(r)
  <2>1. Shape'
    BY <1>26, <1>s DEF WorkerExits, taskVars, permitVars, registryVars, Shape, TaskPoints, Outcomes
  <2>2. PermitMoves(r)
    BY <1>26, <1>s, <1>r, Zenon DEF WorkerExits, taskVars, permitVars, registryVars, Shape, PermitMoves
  <2>3. \A d \in Runs \ {r} : Same(d)
    BY <1>26, <1>s, Zenon DEF WorkerExits, taskVars, permitVars, registryVars, Shape, Same
  <2>4. LeaseOf(r)'
    BY <1>26, <1>s, <1>r, Zenon DEF WorkerExits, taskVars, permitVars, registryVars, Shape, LeaseOf,
       WorkerOf, Owned
  <2>5. WorkerOf(r)'
    BY <1>26, <1>s, <1>r, Zenon DEF WorkerExits, taskVars, permitVars, registryVars, Shape, WorkerOf,
       Spawning,
       Early, Owned
  <2>6. OutcomeOf(r)'
    BY <1>26, <1>s, <1>r, Zenon DEF WorkerExits, taskVars, permitVars, registryVars, Shape, OutcomeOf,
       WorkerOf,
       Spawning, Early, Owned
  <2> QED BY <2>1, <2>2, <2>3, <2>4, <2>5, <2>6, RunCloses, Zenon
<1>27. CASE CancelRequest(r)
  <2>1. Shape'
    BY <1>27, <1>s, Zenon DEF CancelRequest, taskVars, permitVars, registryVars, Shape, TaskPoints, Outcomes
  <2>2. PermitMoves(r)
    BY <1>27, <1>s, <1>r, Zenon DEF CancelRequest, taskVars, permitVars, registryVars, Shape, PermitMoves
  <2>3. \A d \in Runs \ {r} : Same(d)
    BY <1>27, <1>s, Zenon DEF CancelRequest, taskVars, permitVars, registryVars, Shape, Same
  <2>4. LeaseOf(r)'
    BY <1>27, <1>s, <1>r, Zenon DEF CancelRequest, taskVars, permitVars, registryVars, Shape, LeaseOf,
       WorkerOf,
       Owned
  <2>5. WorkerOf(r)'
    BY <1>27, <1>s, <1>r, Zenon DEF CancelRequest, taskVars, permitVars, registryVars, Shape, WorkerOf,
       Spawning,
       Early, Owned
  <2>6. OutcomeOf(r)'
    BY <1>27, <1>s, <1>r, Zenon DEF CancelRequest, taskVars, permitVars, registryVars, Shape, OutcomeOf,
       WorkerOf,
       Spawning, Early, Owned
  <2> QED BY <2>1, <2>2, <2>3, <2>4, <2>5, <2>6, RunCloses, Zenon
<1>28. CASE CancelSealed(r)
  <2>1. Shape'
    BY <1>28, <1>s, Zenon DEF CancelSealed, SetRow, SealCancelled, Quiescent, Idle, taskVars, permitVars,
       registryVars, Shape, TaskPoints, Outcomes
  <2>2. PermitMoves(r)
    BY <1>28, <1>s, <1>r, Zenon DEF CancelSealed, SetRow, SealCancelled, Quiescent, Idle, taskVars,
       permitVars,
       registryVars, Shape, PermitMoves
  <2>3. \A d \in Runs \ {r} : Same(d)
    BY <1>28, <1>s, Zenon DEF CancelSealed, SetRow, SealCancelled, Quiescent, Idle, taskVars, permitVars,
       registryVars, Shape, Same
  <2>4. LeaseOf(r)'
    BY <1>28, <1>s, <1>r, Zenon DEF CancelSealed, SetRow, SealCancelled, Quiescent, Idle, taskVars,
       permitVars,
       registryVars, Shape, LeaseOf, WorkerOf, Owned
  <2>5. WorkerOf(r)'
    BY <1>28, <1>s, <1>r, Zenon DEF CancelSealed, SetRow, SealCancelled, Quiescent, Idle, taskVars,
       permitVars,
       registryVars, Shape, WorkerOf, Spawning, Early, Owned
  <2>6. OutcomeOf(r)'
    BY <1>28, <1>s, <1>r, Zenon DEF CancelSealed, SetRow, SealCancelled, Quiescent, Idle, taskVars,
       permitVars,
       registryVars, Shape, OutcomeOf, WorkerOf, Spawning, Early, Owned
  <2> QED BY <2>1, <2>2, <2>3, <2>4, <2>5, <2>6, RunCloses, Zenon
<1>29. CASE CancelFinds(r)
  <2>1. Shape'
    <3> DEFINE h == [handler[r] EXCEPT !.at = "cleanup", !.found = TRUE]
    <3>1. handler[r] \in [at: {"idle", "scan", "cleanup", "drop"}, found: BOOLEAN, live: BOOLEAN]
      BY <1>s, Zenon DEF Shape
    <3>2. h \in [at: {"idle", "scan", "cleanup", "drop"}, found: BOOLEAN, live: BOOLEAN]
      BY <3>1, Zenon
    <3>3. handler' = [handler EXCEPT ![r] = h]
      BY <1>29, <1>s, Zenon DEF CancelFinds, Shape
    <3> HIDE DEF h
    <3>4. handler' \in [Runs -> [at: {"idle", "scan", "cleanup", "drop"}, found: BOOLEAN, live: BOOLEAN]]
      BY <1>s, <3>2, <3>3, Zenon DEF Shape
    <3>5. flagged' \in SUBSET Runs
      BY <1>29, <1>s, Zenon DEF CancelFinds, Shape
    <3> QED BY <1>29, <1>s, <3>4, <3>5, Zenon DEF CancelFinds, taskVars, permitVars, registryVars, Shape
  <2>2. PermitMoves(r)
    BY <1>29, <1>s, <1>r, Zenon DEF CancelFinds, taskVars, permitVars, registryVars, Shape, PermitMoves
  <2>3. \A d \in Runs \ {r} : Same(d)
    BY <1>29, <1>s, Zenon DEF CancelFinds, taskVars, permitVars, registryVars, Shape, Same
  <2>4. LeaseOf(r)'
    BY <1>29, <1>s, <1>r, Zenon DEF CancelFinds, taskVars, permitVars, registryVars, Shape, LeaseOf,
       WorkerOf, Owned
  <2>5. WorkerOf(r)'
    BY <1>29, <1>s, <1>r DEF CancelFinds, taskVars, permitVars, registryVars, Shape, WorkerOf, Spawning,
       Early, Owned
  <2>6. OutcomeOf(r)'
    BY <1>29, <1>s, <1>r, Zenon DEF CancelFinds, taskVars, permitVars, registryVars, Shape, OutcomeOf,
       WorkerOf,
       Spawning, Early, Owned
  <2> QED BY <2>1, <2>2, <2>3, <2>4, <2>5, <2>6, RunCloses, Zenon
<1>30. CASE CancelTerminates(r)
  <2>1. Shape'
    <3>1. workerProc' \in [Runs -> {"none", "alive", "stopped", "orphaned"}]
      BY <1>30, <1>t, TerminateMeans, Zenon DEF CancelTerminates
    <3>2. handler' \in [Runs -> [at: {"idle", "scan", "cleanup", "drop"}, found: BOOLEAN, live: BOOLEAN]]
      <4>1. handler[r] \in [at: {"idle", "scan", "cleanup", "drop"}, found: BOOLEAN, live: BOOLEAN]
        BY <1>s, Zenon DEF Shape
      <4>2. Idle \in [at: {"idle", "scan", "cleanup", "drop"}, found: BOOLEAN, live: BOOLEAN]
        BY Zenon DEF Idle
      <4>3. [handler[r] EXCEPT !.at = "drop"] \in [at: {"idle", "scan", "cleanup", "drop"}, found: BOOLEAN, live: BOOLEAN]
        BY <4>1, Zenon
      <4>4. \E h \in [at: {"idle", "scan", "cleanup", "drop"}, found: BOOLEAN, live: BOOLEAN] : handler' = [handler EXCEPT ![r] = h]
        BY <1>30, <4>2, <4>3, Zenon DEF CancelTerminates
      <4> QED BY <1>s, <4>4 DEF Shape
    <3> QED BY <1>30, <1>s, <3>1, <3>2, Zenon DEF CancelTerminates, taskVars, permitVars, registryVars, Shape
  <2>2. PermitMoves(r)
    BY <1>30, <1>s, <1>r, <1>t, TerminateMeans, Zenon DEF CancelTerminates, Idle, taskVars, permitVars,
       registryVars, Shape, PermitMoves
  <2>3. \A d \in Runs \ {r} : Same(d)
    <3>1. \A d \in Runs \ {r} : workerProc'[d] = workerProc[d]
      BY <1>30, <1>t, TerminateMeans, Zenon DEF CancelTerminates
    <3> QED BY <1>30, <1>s, <3>1, Zenon DEF CancelTerminates, taskVars, permitVars, registryVars, Shape, Same
  <2>4. LeaseOf(r)'
    BY <1>30, <1>s, <1>r, <1>t, TerminateMeans, Zenon DEF CancelTerminates, Idle, taskVars, permitVars,
       registryVars, Shape, LeaseOf, WorkerOf, Owned
  <2>5. WorkerOf(r)'
    <3>1. CASE Terminate(r, TRUE) /\ handler' = [handler EXCEPT ![r].at = "drop"]
      <4>1. workerProc[r] \in {"alive", "stopped"} /\ workerProc'[r] = "stopped"
        BY <1>t, <3>1, TerminateMeans, Zenon
      <4> QED BY <1>30, <1>s, <1>r, <4>1, Zenon DEF CancelTerminates, taskVars, registryVars, Shape, WorkerOf
    <3>2. CASE Terminate(r, FALSE) /\ handler' = [handler EXCEPT ![r] = Idle]
      <4>1. workerProc[r] # "stopped" /\ (workerProc[r] # "alive" => workerProc'[r] = workerProc[r])
        BY <1>t, <3>2, TerminateMeans, Zenon
      <4> QED BY <1>30, <1>s, <1>r, <3>2, <4>1, Zenon
          DEF CancelTerminates, Idle, taskVars, registryVars, Shape, WorkerOf
    <3> QED BY <1>30, <3>1, <3>2, Zenon DEF CancelTerminates
  <2>6. OutcomeOf(r)'
    <3>1. CASE Terminate(r, TRUE) /\ handler' = [handler EXCEPT ![r].at = "drop"]
      BY <1>30, <1>s, <1>r, <3>1, Zenon DEF CancelTerminates, taskVars, registryVars, Shape, OutcomeOf, Owned
    <3>2. CASE Terminate(r, FALSE) /\ handler' = [handler EXCEPT ![r] = Idle]
      BY <1>30, <1>s, <1>r, <3>2, Zenon DEF CancelTerminates, Idle, taskVars, registryVars, Shape,
         OutcomeOf, Owned
    <3> QED BY <1>30, <3>1, <3>2, Zenon DEF CancelTerminates
  <2> QED BY <2>1, <2>2, <2>3, <2>4, <2>5, <2>6, RunCloses, Zenon
<1>31. CASE CancelDrops(r)
  <2>1. Shape'
    BY <1>31, <1>s, <1>t, UnregisterMeans, SMTT(30) DEF CancelDrops, taskVars, Shape, TaskPoints, Outcomes
  <2>2. PermitMoves(r)
    BY <1>31, <1>s, <1>r, <1>t, UnregisterMeans, Zenon DEF CancelDrops, taskVars, Shape, PermitMoves
  <2>3. \A d \in Runs \ {r} : Same(d)
    BY <1>31, <1>s, <1>t, UnregisterMeans DEF CancelDrops, taskVars, Shape, Same
  <2>4. LeaseOf(r)'
    BY <1>31, <1>s, <1>r, <1>t, UnregisterMeans, Zenon DEF CancelDrops, taskVars, Shape, LeaseOf, WorkerOf,
       Owned
  <2>5. WorkerOf(r)'
    BY <1>31, <1>s, <1>r, <1>t, UnregisterMeans, Zenon DEF CancelDrops, taskVars, Shape, WorkerOf, Spawning,
       Early, Owned
  <2>6. OutcomeOf(r)'
    BY <1>31, <1>s, <1>r, <1>t, UnregisterMeans, Zenon DEF CancelDrops, taskVars, Shape, OutcomeOf, WorkerOf,
       Spawning, Early, Owned
  <2> QED BY <2>1, <2>2, <2>3, <2>4, <2>5, <2>6, RunCloses, Zenon
<1>32. CASE CancelTimesOut(r)
  <2>1. Shape'
    BY <1>32, <1>s, Zenon DEF CancelTimesOut, Idle, taskVars, permitVars, registryVars, Shape, TaskPoints,
       Outcomes
  <2>2. PermitMoves(r)
    BY <1>32, <1>s, <1>r, Zenon DEF CancelTimesOut, Idle, taskVars, permitVars, registryVars, Shape,
       PermitMoves
  <2>3. \A d \in Runs \ {r} : Same(d)
    BY <1>32, <1>s, Zenon DEF CancelTimesOut, Idle, taskVars, permitVars, registryVars, Shape, Same
  <2>4. LeaseOf(r)'
    BY <1>32, <1>s, <1>r, Zenon DEF CancelTimesOut, Idle, taskVars, permitVars, registryVars, Shape, LeaseOf,
       WorkerOf, Owned
  <2>5. WorkerOf(r)'
    BY <1>32, <1>s, <1>r, Zenon DEF CancelTimesOut, Idle, taskVars, permitVars, registryVars, Shape, WorkerOf,
       Spawning, Early, Owned
  <2>6. OutcomeOf(r)'
    BY <1>32, <1>s, <1>r, Zenon DEF CancelTimesOut, Idle, taskVars, permitVars, registryVars, Shape,
       OutcomeOf,
       WorkerOf, Spawning, Early, Owned
  <2> QED BY <2>1, <2>2, <2>3, <2>4, <2>5, <2>6, RunCloses, Zenon
<1>33. CASE DeleteRun(r)
  <2>1. Shape'
    BY <1>33, <1>s, Zenon DEF DeleteRun, taskVars, permitVars, registryVars, Shape, TaskPoints, Outcomes
  <2>2. PermitMoves(r)
    BY <1>33, <1>s, <1>r, Zenon DEF DeleteRun, taskVars, permitVars, registryVars, Shape, PermitMoves
  <2>3. \A d \in Runs \ {r} : Same(d)
    BY <1>33, <1>s, Zenon DEF DeleteRun, taskVars, permitVars, registryVars, Shape, Same
  <2>4. LeaseOf(r)'
    BY <1>33, <1>s, <1>r, Zenon DEF DeleteRun, taskVars, permitVars, registryVars, Shape, LeaseOf,
       WorkerOf, Owned
  <2>5. WorkerOf(r)'
    BY <1>33, <1>s, <1>r, Zenon DEF DeleteRun, taskVars, permitVars, registryVars, Shape, WorkerOf, Spawning,
       Early, Owned
  <2>6. OutcomeOf(r)'
    BY <1>33, <1>s, <1>r, Zenon DEF DeleteRun, taskVars, permitVars, registryVars, Shape, OutcomeOf, WorkerOf,
       Spawning, Early, Owned
  <2> QED BY <2>1, <2>2, <2>3, <2>4, <2>5, <2>6, RunCloses, Zenon
<1> QED
  BY <1>1, <1>2, <1>3, <1>4, <1>5, <1>6, <1>7, <1>8, <1>9, <1>10, <1>11, <1>12, <1>13, <1>14, <1>15, <1>16,
     <1>17, <1>18, <1>19, <1>20, <1>21, <1>22, <1>23, <1>24, <1>25, <1>26, <1>27, <1>28, <1>29, <1>30,
     <1>31, <1>32, <1>33, Zenon
  DEF Task, Thread, CancelStep

LEMMA RunStarts == RunInit => RunInv
<1> SUFFICES ASSUME RunInit PROVE RunInv
  BY Zenon
<1>1. RunTypeOK
  BY CapacityAssumption DEF RunInit, RunTypeOK, TaskPoints, Idle
<1>2. \A r \in Runs : LeaseOf(r) /\ WorkerOf(r) /\ OutcomeOf(r)
  BY CapacityAssumption, Zenon
     DEF RunInit, LeaseOf, WorkerOf, OutcomeOf, Spawning, Early, Owned, Idle
<1>3. permits + Cardinality(Holders) = Capacity
  <2>1. Holders = {}
    BY Zenon DEF RunInit, Holders
  <2>2. Cardinality(Holders) = 0
    BY <2>1, FS_EmptySet, Zenon
  <2> QED BY <2>2, CapacityAssumption DEF RunInit
<1> QED BY <1>1, <1>2, <1>3, Zenon DEF RunInv

(* The background tasks, the threads, the workers that end by themselves,  *)
(* the cancel requests and the deletions of any number of runs interleave  *)
(* without breaking the invariant.                                         *)
THEOREM RunInductive == RunSpec => []RunInv
<1>1. RunInv /\ [RunNext]_runVars => RunInv'
  <2> SUFFICES ASSUME RunInv, [RunNext]_runVars PROVE RunInv'
    BY Zenon
  <2>1. CASE RunNext
    BY <2>1, RunStep, Zenon DEF RunNext
  <2>2. CASE UNCHANGED runVars
    BY <2>2, SMTT(30) DEF runVars, RunInv, RunTypeOK, Holders, LeaseOf, WorkerOf, OutcomeOf, Owned
  <2> QED BY <2>1, <2>2, Zenon
<1> QED BY <1>1, RunStarts, PTL DEF RunSpec

(* A run sealed as cancelled or successful, or recorded as cancelled, owns *)
(* no worker and its worker family has stopped; every permit is free or    *)
(* held for exactly one run, and there are never more worker families than *)
(* permits, those whose cleanup could not be proven included.              *)
THEOREM RunStoppedAndReleased == RunSpec => []StoppedAndReleased
<1>1. RunInv => StoppedAndReleased
  <2> SUFFICES ASSUME RunInv PROVE StoppedAndReleased
    BY Zenon
  <2>1. TerminalMeansStopped
    BY Zenon DEF RunInv, WorkerOf, OutcomeOf, TerminalMeansStopped, Owned
  <2> DEFINE Families == {r \in Runs : workerProc[r] \in {"alive", "orphaned"}}
  <2>2. Families \subseteq Holders
    BY Zenon DEF RunInv, LeaseOf, WorkerOf, Holders
  <2>3. IsFiniteSet(Holders)
    BY CapacityAssumption, FS_Subset, Zenon DEF Holders
  <2>4. Cardinality(Families) <= Cardinality(Holders) /\ Cardinality(Families) \in Nat
        /\ Cardinality(Holders) \in Nat
    BY <2>2, <2>3, FS_Subset, FS_CardinalityType, Zenon
  <2>5. permits \in Nat /\ Capacity \in Nat /\ permits + Cardinality(Holders) = Capacity
    BY CapacityAssumption DEF RunInv, RunTypeOK
  <2>6. PermitsConserved
    BY <2>4, <2>5 DEF PermitsConserved, Holders
  <2> QED BY <2>1, <2>6, Zenon DEF RunInv, StoppedAndReleased
<1> QED BY <1>1, RunInductive, PTL

(* What a step may do to the status of a run.                              *)
RowMoves(d) ==
    \/ row'[d] = row[d]
    \/ row'[d] = "deleted"
    \/ row[d] # "done" /\ row'[d] # "done"
    \/ at[d] = "saving" /\ row[d] # "done"

LEMMA RunRows ==
    ASSUME RunInv, RunNext, NEW d \in Runs
    PROVE  RowMoves(d)
<1>1. PICK r \in Runs :
        \/ Submit(r) \/ SubmitUndone(r) \/ SubmitWithoutJob(r) \/ Task(r) \/ Thread(r)
        \/ WorkerExits(r) \/ CancelRequest(r) \/ CancelStep(r) \/ DeleteRun(r)
  BY Zenon DEF RunNext
<1>2. row \in [Runs -> {"none", "running", "done", "failed", "cancelled", "deleted"}]
      /\ OutcomeOf(r)
  BY Zenon DEF RunInv, RunTypeOK
<1>3. CASE Submit(r) \/ SubmitUndone(r) \/ SubmitWithoutJob(r)
  BY <1>2, <1>3, Zenon DEF Submit, SubmitUndone, SubmitWithoutJob, RowMoves, OutcomeOf
<1>4. CASE Thread(r) \/ WorkerExits(r) \/ CancelRequest(r)
  <2>1. UNCHANGED row
    BY <1>4, Zenon DEF Thread, Admit, StartProcess, Isolate, Undo, Unstart, Register, Started,
       LoopCancelled, LoopEnds, Final, Drop, WorkerExits, CancelRequest
  <2> QED BY <2>1, Zenon DEF RowMoves
<1>5. CASE CancelStep(r)
  <2>1. CASE CancelSealed(r)
    BY <1>2, <2>1, CapacityAssumption, Zenon DEF CancelSealed, SetRow, RowMoves, OutcomeOf
  <2>2. CASE CancelFinds(r) \/ CancelTerminates(r) \/ CancelDrops(r) \/ CancelTimesOut(r)
    BY <2>2, Zenon DEF CancelFinds, CancelTerminates, CancelDrops, CancelTimesOut, RowMoves
  <2> QED BY <1>5, <2>1, <2>2, Zenon DEF CancelStep
<1>6. CASE DeleteRun(r)
  BY <1>2, <1>6, Zenon DEF DeleteRun, RowMoves
<1>7. CASE Task(r)
  <2>1. CASE UNCHANGED row
    BY <2>1, Zenon DEF RowMoves
  <2>2. CASE SaveResult(r)
    BY <1>2, <2>2, Zenon DEF SaveResult, RowMoves, OutcomeOf
  <2>3. ASSUME NEW st \in {"failed", "cancelled"}, SetRow(r, st), at[r] \notin {"finally", "done"}
        PROVE  RowMoves(d)
    BY <1>2, <2>3, Zenon DEF SetRow, RowMoves, OutcomeOf
  <2>4. CASE LoadStage(r) \/ TaskReturns(r) \/ TaskCancelled(r)
    <3>1. at[r] \notin {"finally", "done"}
      BY <2>4, Zenon DEF LoadStage, NextPoint, TaskReturns, TaskCancelled
    <3>2. UNCHANGED row \/ SetRow(r, "cancelled")
      BY <2>4, Zenon DEF LoadStage, TaskReturns, TaskCancelled, CancelHere, CancelledByTask, TaskError
    <3> QED BY <2>1, <2>3, <3>1, <3>2, Zenon
  <2>5. CASE LoadFails(r) \/ LoadFailed(r) \/ TaskFailed(r)
    <3>1. at[r] \notin {"finally", "done"}
      BY <2>5, Zenon DEF LoadFails, LoadFailed, TaskFailed
    <3>2. UNCHANGED row \/ SetRow(r, "failed")
      BY <2>5, Zenon DEF LoadFails, LoadFailed, TaskFailed
    <3> QED BY <2>1, <2>3, <3>1, <3>2, Zenon
  <2>6. CASE SetupRaises(r) \/ TaskRaised(r) \/ SaveFails(r) \/ Finally(r)
    BY <2>1, <2>6, Zenon DEF SetupRaises, TaskRaised, SaveFails, Finally, TaskError
  <2> QED BY <1>7, <2>2, <2>4, <2>5, <2>6, Zenon DEF Task
<1> QED BY <1>1, <1>3, <1>4, <1>5, <1>6, <1>7, Zenon

(* Only a run whose success was reserved is recorded as done, and neither  *)
(* a cancel request that is still being served nor a failing save takes    *)
(* that back.                                                              *)
THEOREM RunDoneIsFinal == RunSpec => DoneIsFinal
<1> DEFINE Keeps == \A r \in Runs :
                      /\ row[r] = "done" => row'[r] \in {"done", "deleted"}
                      /\ row'[r] = "done" => terminal[r] = "success"
<1>1. RunInv /\ [RunNext]_runVars => [Keeps]_runVars
  <2> SUFFICES ASSUME RunInv, RunNext, NEW r \in Runs
               PROVE  /\ row[r] = "done" => row'[r] \in {"done", "deleted"}
                      /\ row'[r] = "done" => terminal[r] = "success"
    BY Zenon
  <2>1. OutcomeOf(r) /\ RowMoves(r)
    BY RunRows, Zenon DEF RunInv
  <2> QED BY <2>1, Zenon DEF OutcomeOf, RowMoves
<1>2. DoneIsFinal <=> [][Keeps]_runVars
  BY Zenon DEF DoneIsFinal
<1> HIDE DEF Keeps
<1> QED BY <1>1, <1>2, RunInductive, PTL DEF RunSpec

-----------------------------------------------------------------------------
(* The TradingView parity replay                                           *)

(* What the candles of a request, once parsed, are known to be: at least   *)
(* one bar, and `pre` counts those before the compared window.             *)
ReplayFits(r) ==
    /\ r.bars # {}
    /\ r.pre = PreBars(r.bars, r.from)

ReplayType ==
    [bars : {B \in SUBSET [time : Int, row : Int] : IsFiniteSet(B)},
     from : Int, to : Int, pre : Int, warmup : {0, 1}]

(* The stages at which the task has its candles and no configuration yet.  *)
Ahead == {"create", "job", "name", "queued", "loading", "verified"}

ConfigType == [start : Int, end : Int, history : Int]

(* How far a run has come, and what it has left behind by then.            *)
ParityFlow ==
    /\ stage \in Stages
    /\ parityRow \in {"none", "running", "done", "failed", "deleted"}
    /\ folder \in {"none", "pending", "run"}
    /\ resultFile \in {"none", "queued", "done", "failed"}
    /\ exported \in BOOLEAN
    /\ stage \in {"export", "write"} => parityRow = "done"
    /\ stage = "write" => exported
    /\ resultFile = "done" => stage = "over" /\ parityRow \in {"done", "deleted"} /\ exported

(* What the task replays.                                                  *)
ParityData ==
    /\ replay \in ReplayType
    /\ runConfig \in ConfigType
    /\ stage \in Ahead => ReplayFits(replay)
    /\ stage \in Ahead \cup {"new", "upload"} => runConfig = NoConfig
    /\ ScoredIsCompared

ParityInv == ParityFlow /\ ParityData

(* A set of naturals that is not empty has a least element.                *)
LEMMA LeastNat ==
    ASSUME NEW T \in SUBSET Nat, T # {}
    PROVE  \E n \in T : \A m \in T : n <= m
<1>1. PICK n \in T : \A m \in T : ~(<<m, n>> \in OpToRel(<, Nat))
  BY NatLessThanWellFounded, WFMin, Zenon
<1>2. ASSUME NEW m \in T PROVE n <= m
  <2>1. m \in Nat /\ n \in Nat
    BY Zenon
  <2>2. <<m, n>> \in Nat \X Nat /\ <<m, n>>[1] = m /\ <<m, n>>[2] = n
    BY <2>1, Zenon
  <2>3. m < n => <<m, n>> \in OpToRel(<, Nat)
    BY <2>2, Zenon DEF OpToRel
  <2>4. ~(m < n)
    BY <1>1, <2>3, Zenon
  <2> QED BY <2>1, <2>4
<1> QED BY <1>2, Zenon

HasEnds(S) ==
    /\ \E t \in S : \A u \in S : t <= u
    /\ \E t \in S : \A u \in S : t >= u

(* A finite set of times has a first and a last one: a smallest set that   *)
(* had none would have one after all, by the ends of the set without one   *)
(* of its elements.                                                        *)
LEMMA FiniteEnds ==
    \A S \in SUBSET Int : IsFiniteSet(S) /\ S # {} => HasEnds(S)
<1> DEFINE Bad(n) == \E S \in SUBSET Int :
                       IsFiniteSet(S) /\ S # {} /\ Cardinality(S) = n /\ ~HasEnds(S)
           W == {n \in Nat : Bad(n)}
<1>1. SUFFICES W = {}
  <2> SUFFICES ASSUME NEW S \in SUBSET Int, IsFiniteSet(S), S # {}, ~HasEnds(S) PROVE FALSE
    BY Zenon
  <2>1. Cardinality(S) \in Nat
    BY FS_CardinalityType, Zenon
  <2>2. Bad(Cardinality(S))
    BY Zenon
  <2> QED BY <1>1, <2>1, <2>2, Zenon
<1>2. SUFFICES ASSUME W # {} PROVE FALSE
  BY Zenon
<1>3. W \in SUBSET Nat
  BY Zenon
<1>4. PICK n \in W : \A m \in W : n <= m
  <2> HIDE DEF W
  <2> QED BY <1>2, <1>3, LeastNat, Zenon
<1>5. PICK S \in SUBSET Int : IsFiniteSet(S) /\ S # {} /\ Cardinality(S) = n /\ ~HasEnds(S)
  BY <1>4, Zenon
<1>6. PICK x \in S : TRUE
  BY <1>5, Zenon
<1> DEFINE R == S \ {x}
<1>7. IsFiniteSet(R) /\ Cardinality(R) = n - 1 /\ n \in Nat /\ R \in SUBSET Int
  BY <1>4, <1>5, <1>6, FS_RemoveElement, Zenon
<1>8. CASE R = {}
  <2>1. S = {x} /\ x \in Int
    BY <1>5, <1>6, <1>8, Zenon
  <2> QED BY <2>1, <1>5 DEF HasEnds
<1>9. CASE R # {}
  <2>1. HasEnds(R)
    <3>1. n - 1 \in Nat
      BY <1>7, <1>9, FS_EmptySet, FS_CardinalityType, Zenon
    <3>2. SUFFICES ASSUME ~HasEnds(R) PROVE FALSE
      BY Zenon
    <3>3. n - 1 \in W
      BY <1>7, <1>9, <3>1, <3>2, Zenon
    <3>4. n <= n - 1
      BY <1>4, <3>3, Zenon
    <3> QED BY <1>7, <3>4
  <2>2. PICK lo \in R : \A u \in R : lo <= u
    BY <2>1, Zenon DEF HasEnds
  <2>3. PICK hi \in R : \A u \in R : hi >= u
    BY <2>1, Zenon DEF HasEnds
  <2>4. \A u \in S : u = x \/ u \in R
    BY Zenon
  <2>5. lo \in S /\ hi \in S /\ x \in S /\ lo \in Int /\ hi \in Int /\ x \in Int
    BY <1>5, <1>6, Zenon
  <2> HIDE DEF R
  <2>6. \E t \in S : \A u \in S : t <= u
    <3>1. CASE lo <= x
      BY <2>2, <2>4, <2>5, <3>1, Zenon
    <3>2. CASE ~(lo <= x)
      <4>1. \A u \in S : u \in Int
        BY <1>5, Zenon
      <4>2. \A u \in S : x <= u
        BY <2>2, <2>4, <2>5, <3>2, <4>1
      <4> QED BY <2>5, <4>2, Zenon
    <3> QED BY <3>1, <3>2, Zenon
  <2>7. \E t \in S : \A u \in S : t >= u
    <3>1. CASE hi >= x
      BY <2>3, <2>4, <2>5, <3>1, Zenon
    <3>2. CASE ~(hi >= x)
      <4>1. \A u \in S : u \in Int
        BY <1>5, Zenon
      <4>2. \A u \in S : x >= u
        BY <2>3, <2>4, <2>5, <3>2, <4>1
      <4> QED BY <2>5, <4>2, Zenon
    <3> QED BY <3>1, <3>2, Zenon
  <2> QED BY <1>5, <2>6, <2>7, Zenon DEF HasEnds
<1> QED BY <1>8, <1>9, Zenon

(* Min and Max choose them.                                                *)
LEMMA EndsOfTimes ==
    ASSUME NEW S \in SUBSET Int, IsFiniteSet(S), S # {}
    PROVE  /\ Min(S) \in S /\ \A u \in S : Min(S) <= u
           /\ Max(S) \in S /\ \A u \in S : Max(S) >= u
<1>1. HasEnds(S)
  BY FiniteEnds, Zenon
<1> QED BY <1>1, Zenon DEF HasEnds, Min, Max

LEMMA PreBarsType ==
    ASSUME NEW B \in SUBSET [time : Int, row : Int], IsFiniteSet(B), NEW t \in Int
    PROVE  /\ PreBars(B, t) \in Nat
           /\ PreBars(B, t) = 0 => \A b \in B : b.time >= t
           /\ (\A b \in B : b.time >= t) => PreBars(B, t) = 0
<1> DEFINE E == {b \in B : b.time < t}
<1>1. IsFiniteSet(E) BY FS_Subset, Zenon
<1>2. Cardinality(E) \in Nat BY <1>1, FS_CardinalityType, Zenon
<1>3. Cardinality(E) = 0 <=> E = {} BY <1>1, FS_EmptySet, Zenon
<1>4. PreBars(B, t) = Cardinality(E) BY Zenon DEF PreBars
<1>5. E = {} => \A b \in B : b.time >= t BY SMT
<1>6. (\A b \in B : b.time >= t) => E = {} BY SMT
<1> HIDE DEF E
<1> QED BY <1>2, <1>3, <1>4, <1>5, <1>6, Zenon

LEMMA ParityInitInv == ParityInit => ParityInv
<1> SUFFICES ASSUME ParityInit PROVE ParityInv
  BY Zenon
<1>1. ParityFlow
  BY Zenon DEF ParityInit, ParityFlow, Stages, Busy
<1>2. replay \in ReplayType /\ runConfig \in ConfigType
  <2>1. IsFiniteSet({})
    BY FS_EmptySet, Zenon
  <2>2. Empty \in ReplayType
    BY <2>1 DEF Empty, ReplayType
  <2> QED BY <2>2 DEF ParityInit, NoConfig, ConfigType
<1>3. stage \notin Ahead /\ runConfig = NoConfig
  BY Zenon DEF ParityInit, Ahead
<1>4. ScoredIsCompared
  BY <1>3, Zenon DEF ScoredIsCompared
<1> QED BY <1>1, <1>2, <1>3, <1>4, Zenon DEF ParityInv, ParityData

(* A step that leaves the candles and the configuration alone keeps what   *)
(* is known of them.                                                       *)
LEMMA DataKeeps ==
    ASSUME ParityData, UNCHANGED <<replay, runConfig>>,
           stage' \in Ahead => stage \in Ahead,
           stage' \in {"new", "upload"} => stage \in {"new", "upload"}
    PROVE  ParityData'
<1>1. replay' = replay /\ runConfig' = runConfig
  BY Zenon
<1>2. ScoredIsCompared' <=> ScoredIsCompared
  BY <1>1, Zenon DEF ScoredIsCompared
<1>3. stage' \in Ahead \cup {"new", "upload"} => stage \in Ahead \cup {"new", "upload"}
  BY Zenon
<1> QED BY <1>1, <1>2, <1>3, Zenon DEF ParityData

(* Candles that a request brings.                                          *)
LEMMA CandlesKeep ==
    ASSUME ParityData, stage = "upload", stage' = "create", runConfig' = runConfig,
           replay' \in ReplayType, ReplayFits(replay')
    PROVE  ParityData'
<1>1. runConfig = NoConfig
  BY Zenon DEF ParityData
<1>2. ScoredIsCompared'
  BY <1>1, Zenon DEF ScoredIsCompared
<1> QED BY <1>1, <1>2, Zenon DEF ParityData

(* The values of a function on a finite set are finitely many.             *)
LEMMA FiniteImage ==
    ASSUME NEW S, IsFiniteSet(S), NEW f, f = [x \in S |-> f[x]]
    PROVE  IsFiniteSet({f[x] : x \in S})
<1> DEFINE T == {f[x] : x \in S}
<1>1. f \in [S -> T]
  BY Zenon
<1>2. \A t \in T : \E x \in S : f[x] = t
  BY Zenon
<1>3. f \in Surjection(S, T)
  BY <1>1, <1>2, Zenon DEF Surjection
<1> HIDE DEF T
<1>4. IsFiniteSet(T)
  BY <1>3, FS_Surjection, Zenon
<1> QED BY <1>4, Zenon DEF T

(* The times of finitely many candles.                                        *)
LEMMA TimesAreFinite ==
    ASSUME NEW B \in SUBSET [time : Int, row : Int], IsFiniteSet(B)
    PROVE  Times(B) \in SUBSET Int /\ IsFiniteSet(Times(B)) /\ (B # {} => Times(B) # {})
<1> DEFINE f == [b \in B |-> b.time]
<1>1. Times(B) = {f[b] : b \in B}
  BY Zenon DEF Times
<1>2. IsFiniteSet({f[b] : b \in B})
  <2>1. f = [b \in B |-> f[b]]
    BY Zenon
  <2> HIDE DEF f
  <2> QED BY <2>1, FiniteImage, Zenon
<1>3. Times(B) \in SUBSET Int
  BY Zenon DEF Times
<1>4. B # {} => Times(B) # {}
  BY Zenon DEF Times
<1> QED BY <1>1, <1>2, <1>3, <1>4, Zenon

(* parse_tradingview_candles_csv returns finitely many candles, one for each  *)
(* row it could read.                                                      *)
LEMMA ParsedBars ==
    ASSUME NEW rows \in CandleFiles, NEW to
    PROVE  /\ ParseCandles(rows, to) \in SUBSET [time : Int, row : Int]
           /\ IsFiniteSet(ParseCandles(rows, to))
<1>1. rows \in Seq([time : Int, exact : BOOLEAN])
  BY ParityAssumption, Zenon
<1> DEFINE D == {j \in DOMAIN rows : /\ rows[j].time # NoTime /\ rows[j].exact
                                     /\ to = NoTime \/ rows[j].time < to}
           f == [i \in D |-> [time |-> rows[i].time, row |-> i]]
<1>2. D \subseteq 1..Len(rows) /\ Len(rows) \in Nat
  BY <1>1
<1>3. IsFiniteSet(D)
  BY <1>2, FS_Interval, FS_Subset
<1>4. ParseCandles(rows, to) = {f[i] : i \in D}
  BY Zenon DEF ParseCandles
<1>5. \A i \in D : f[i] \in [time : Int, row : Int]
  <2> SUFFICES ASSUME NEW i \in D PROVE f[i] \in [time : Int, row : Int]
    BY Zenon
  <2>1. f[i] = [time |-> rows[i].time, row |-> i]
    BY Zenon
  <2>2. i \in 1..Len(rows)
    BY <1>2, Zenon
  <2>3. rows[i] \in [time : Int, exact : BOOLEAN]
    <3> DEFINE R == [time : Int, exact : BOOLEAN]
    <3>1. rows \in Seq(R)
      BY <1>1, Zenon
    <3> HIDE DEF D, f, R
    <3>2. rows[i] \in R
      BY <2>2, <3>1
    <3> QED BY <3>2, Zenon DEF R
  <2> QED BY <2>1, <2>2, <2>3
<1>6. f = [i \in D |-> f[i]]
  BY Zenon
<1> HIDE DEF D, f
<1>7. IsFiniteSet({f[i] : i \in D})
  BY <1>3, <1>6, FiniteImage, Zenon
<1> QED BY <1>4, <1>5, <1>7, Zenon

LEMMA CsvCandlesStep == ParityData /\ CsvCandles => ParityData'
<1> SUFFICES ASSUME ParityData, CsvCandles PROVE ParityData'
  BY Zenon
<1>1. PICK rows \in CandleFiles, r \in Forms :
         LET candles == ParseCandles(rows, r.to) IN
         /\ candles # {}
         /\ LET from == FirstOf(r.compareFrom, r.from, Min(Times(candles))) IN
            replay' = [bars |-> candles, from |-> from,
                       to   |-> FirstOf(r.compareTo, r.to, Max(Times(candles)) + 1),
                       pre  |-> PreBars(candles, from), warmup |-> r.warmup]
  BY Zenon DEF CsvCandles
<1> DEFINE candles == ParseCandles(rows, r.to)
           from == FirstOf(r.compareFrom, r.from, Min(Times(candles)))
           to == FirstOf(r.compareTo, r.to, Max(Times(candles)) + 1)
<1>2. candles # {} /\ replay' = [bars |-> candles, from |-> from, to |-> to,
                              pre |-> PreBars(candles, from), warmup |-> r.warmup]
  BY <1>1, Zenon
<1>3. candles \in SUBSET [time : Int, row : Int] /\ IsFiniteSet(candles)
  BY ParsedBars, Zenon
<1>4. /\ r.compareFrom \in Int /\ r.from \in Int /\ r.compareTo \in Int /\ r.to \in Int
      /\ r.warmup \in {0, 1}
  BY ParityAssumption, Zenon DEF Forms
<1> HIDE DEF candles
<1>5. Min(Times(candles)) \in Int /\ Max(Times(candles)) \in Int
  <2>1. Times(candles) \in SUBSET Int /\ IsFiniteSet(Times(candles)) /\ Times(candles) # {}
    BY <1>2, <1>3, TimesAreFinite, Zenon
  <2> DEFINE T == Times(candles)
  <2> HIDE DEF T
  <2>2. T \in SUBSET Int /\ IsFiniteSet(T) /\ T # {}
    BY <2>1, Zenon DEF T
  <2>3. Min(T) \in T /\ Max(T) \in T
    BY <2>2, EndsOfTimes, Zenon
  <2>4. Min(T) \in Int /\ Max(T) \in Int
    BY <2>2, <2>3, Zenon
  <2> QED BY <2>4, Zenon DEF T
<1>6. from \in Int /\ to \in Int
  BY <1>4, <1>5 DEF FirstOf
<1> HIDE DEF from, to
<1>7. PreBars(candles, from) \in Int
  <2>1. PreBars(candles, from) \in Nat
    BY <1>3, <1>6, PreBarsType, Zenon
  <2> QED BY <2>1
<1> DEFINE pre == PreBars(candles, from)
<1> HIDE DEF pre
<1>8. replay' = [bars |-> candles, from |-> from, to |-> to, pre |-> pre, warmup |-> r.warmup]
      /\ pre \in Int
  BY <1>2, <1>7, Zenon DEF pre
<1>9. replay' \in ReplayType
  BY <1>3, <1>4, <1>6, <1>8, Zenon DEF ReplayType
<1>10. replay'.bars = candles /\ replay'.from = from /\ replay'.pre = pre
  BY <1>8, Zenon
<1>11. ReplayFits(replay')
  BY <1>2, <1>10, Zenon DEF ReplayFits, pre
<1>12. stage = "upload" /\ stage' = "create" /\ runConfig' = runConfig
  BY Zenon DEF CsvCandles, Step
<1> QED BY <1>9, <1>11, <1>12, CandlesKeep, Zenon

LEMMA ExchangeCandlesStep == ParityData /\ ExchangeCandles => ParityData'
<1> SUFFICES ASSUME ParityData, ExchangeCandles PROVE ParityData'
  BY Zenon
<1>1. PICK r \in Forms, S \in SUBSET (1..LastTime) :
         /\ S # {}
         /\ LET candles == {[time |-> t, row |-> t] : t \in S} IN
            replay' = [bars |-> candles, from |-> Visible(r).from, to |-> Visible(r).to,
                       pre |-> PreBars(candles, Visible(r).from), warmup |-> r.warmup]
  BY Zenon DEF ExchangeCandles
<1> DEFINE f == [t \in S |-> [time |-> t, row |-> t]]
           candles == {f[t] : t \in S}
           from == Visible(r).from
           to == Visible(r).to
<1>2. candles = {[time |-> t, row |-> t] : t \in S}
  BY Zenon
<1>3. candles # {}
  BY <1>1, Zenon
<1>4. candles \in SUBSET [time : Int, row : Int]
  BY ParityAssumption
<1>5. IsFiniteSet(candles)
  <2>1. IsFiniteSet(S)
    <3>1. LastTime \in Int /\ 1 \in Int
      BY ParityAssumption
    <3>2. IsFiniteSet(1..LastTime)
      BY <3>1, FS_Interval, Zenon
    <3> QED BY <3>2, FS_Subset, Zenon
  <2>2. f = [t \in S |-> f[t]]
    BY Zenon
  <2> HIDE DEF f
  <2> QED BY <2>1, <2>2, FiniteImage, Zenon
<1>6. from \in Int /\ to \in Int /\ r.warmup \in {0, 1}
  BY ParityAssumption, Zenon DEF Forms, Visible
<1>7. replay' = [bars |-> candles, from |-> from, to |-> to,
                 pre |-> PreBars(candles, from), warmup |-> r.warmup]
  BY <1>1, <1>2, Zenon
<1> HIDE DEF candles, from, to
<1> DEFINE pre == PreBars(candles, from)
<1>8. pre \in Int
  <2>1. pre \in Nat
    BY <1>4, <1>5, <1>6, PreBarsType, Zenon
  <2> HIDE DEF pre
  <2> QED BY <2>1
<1> HIDE DEF pre
<1>9. replay' = [bars |-> candles, from |-> from, to |-> to, pre |-> pre, warmup |-> r.warmup]
  BY <1>7, Zenon DEF pre
<1>10. replay' \in ReplayType
  BY <1>4, <1>5, <1>6, <1>8, <1>9, Zenon DEF ReplayType
<1>11. replay'.bars = candles /\ replay'.from = from /\ replay'.pre = pre
  BY <1>9, Zenon
<1>12. ReplayFits(replay')
  BY <1>3, <1>11, Zenon DEF ReplayFits, pre
<1>13. stage = "upload" /\ stage' = "create" /\ runConfig' = runConfig
  BY Zenon DEF ExchangeCandles, Step
<1> QED BY <1>10, <1>12, <1>13, CandlesKeep, Zenon

(* _backtest_config_for_tv_replay: when candles precede the compared window   *)
(* the replay starts with it, otherwise with the first bar, which the      *)
(* window then contains.                                                   *)
LEMMA ReplayConfigScores ==
    ASSUME replay \in ReplayType, ReplayFits(replay)
    PROVE  /\ ReplayConfig \in ConfigType
           /\ \A t \in Times(replay.bars) :
                t >= ReplayConfig.start /\ t < ReplayConfig.end
                  <=> t >= replay.from /\ t < replay.to
           /\ ReplayConfig.history >= PreBars(replay.bars, ReplayConfig.start)
<1> DEFINE B == replay.bars
           T == Times(B)
           from == replay.from
           to == replay.to
           pre == replay.pre
           warmup == replay.warmup
<1>1. /\ B \in SUBSET [time : Int, row : Int] /\ IsFiniteSet(B)
      /\ from \in Int /\ to \in Int /\ pre \in Int /\ warmup \in {0, 1}
  BY Zenon DEF ReplayType
<1>2. B # {} /\ pre = PreBars(B, from)
  BY Zenon DEF ReplayFits
<1>3. ReplayConfig = [start |-> IF pre > 0 THEN from ELSE Min(T), end |-> to,
                      history |-> IF pre > warmup THEN pre ELSE warmup]
  BY Zenon DEF ReplayConfig
<1>4. T = Times(B)
  BY Zenon
<1>5. ReplayConfig.start = (IF pre > 0 THEN from ELSE Min(T)) /\ ReplayConfig.end = to
      /\ ReplayConfig.history = (IF pre > warmup THEN pre ELSE warmup)
  BY <1>3, Zenon
<1> HIDE DEF B, T, from, to, pre, warmup
<1>6. T \in SUBSET Int /\ IsFiniteSet(T) /\ T # {}
  BY <1>1, <1>2, <1>4, TimesAreFinite, Zenon
<1>7. Min(T) \in T /\ \A u \in T : Min(T) <= u
  BY <1>6, EndsOfTimes, Zenon
<1>8. Min(T) \in Int
  BY <1>6, <1>7, Zenon
<1>9. ReplayConfig \in ConfigType
  BY <1>1, <1>3, <1>8 DEF ConfigType
<1> DEFINE start == ReplayConfig.start
           history == ReplayConfig.history
<1>10. /\ \A t \in T : t >= start /\ t < to <=> t >= from /\ t < to
       /\ history >= PreBars(B, start)
  <2>1. CASE pre > 0
    <3>1. start = from /\ history >= pre
      BY <1>1, <1>5, <2>1
    <3> HIDE DEF start, history
    <3> QED BY <1>2, <3>1, Zenon
  <2>2. CASE ~(pre > 0)
    <3>1. start = Min(T) /\ history >= 0
      BY <1>1, <1>5, <2>2
    <3>2. pre = 0
      <4>1. PreBars(B, from) \in Nat
        BY <1>1, PreBarsType, Zenon
      <4> QED BY <1>2, <2>2, <4>1
    <3>3. \A b \in B : b.time >= from
      BY <1>1, <1>2, <3>2, PreBarsType, Zenon
    <3>4. \A t \in T : t >= from
      BY <1>4, <3>3, Zenon DEF Times
    <3>5. \A b \in B : b.time \in T
      BY <1>4, Zenon DEF Times
    <3>6. \A b \in B : b.time >= Min(T)
      <4>1. \A b \in B : Min(T) <= b.time /\ b.time \in Int
        BY <1>6, <1>7, <3>5, Zenon
      <4> QED BY <1>8, <4>1, Zenon
    <3>7. PreBars(B, Min(T)) = 0
      BY <1>1, <1>8, <3>6, PreBarsType, Zenon
    <3>8. \A t \in T : t >= Min(T)
      BY <1>6, <1>7, <1>8, Zenon
    <3> HIDE DEF start, history
    <3> QED BY <3>1, <3>4, <3>7, <3>8, Zenon
  <2> QED BY <2>1, <2>2, Zenon
<1>11. start = ReplayConfig.start /\ history = ReplayConfig.history
  BY Zenon
<1> HIDE DEF start, history
<1> QED BY <1>4, <1>5, <1>9, <1>10, <1>11, Zenon DEF B, T, from, to

LEMMA PrepareReplayStep == ParityData /\ PrepareReplay => ParityData'
<1> SUFFICES ASSUME ParityData, PrepareReplay PROVE ParityData'
  BY Zenon
<1>1. CASE Raises("verified")
  <2>1. stage' = "raised" /\ UNCHANGED <<replay, runConfig>>
    BY <1>1, Zenon DEF Raises, Step
  <2> QED BY <2>1, DataKeeps, Zenon DEF Ahead
<1>2. CASE Step("verified", "replaying") /\ runConfig' = ReplayConfig /\ replay' = replay
  <2>1. stage = "verified" /\ stage' = "replaying"
    BY <1>2, Zenon DEF Step
  <2>2. replay \in ReplayType /\ ReplayFits(replay)
    BY <2>1, Zenon DEF ParityData, Ahead
  <2>3. /\ ReplayConfig \in ConfigType
        /\ \A t \in Times(replay.bars) :
             t >= ReplayConfig.start /\ t < ReplayConfig.end
               <=> t >= replay.from /\ t < replay.to
        /\ ReplayConfig.history >= PreBars(replay.bars, ReplayConfig.start)
    BY <2>2, ReplayConfigScores, Zenon
  <2>4. ScoredIsCompared'
    BY <1>2, <2>3, Zenon DEF ScoredIsCompared
  <2>5. stage' \notin Ahead \cup {"new", "upload"}
    BY <2>1, Zenon DEF Ahead
  <2> QED BY <1>2, <2>2, <2>3, <2>4, <2>5, Zenon DEF ParityData
<1> QED BY <1>1, <1>2, Zenon DEF PrepareReplay

(* The steps of the request and of its task, the routes that delete and    *)
(* the restart: every one leaves the invariant as it was.                  *)
LEMMA ParityFlowStep == ParityFlow /\ ParityNext => ParityFlow'
<1> SUFFICES ASSUME ParityFlow, ParityNext PROVE ParityFlow'
  BY Zenon
<1> USE DEF ParityFlow, Stages, Busy, Step, disk
<1>1. CASE StoreUploads
  BY <1>1, Zenon DEF StoreUploads
<1>2. CASE RejectRequest
  BY <1>2, Zenon DEF RejectRequest
<1>3. CASE CsvCandles
  <2>1. stage = "upload" /\ stage' = "create" /\ UNCHANGED <<parityRow, disk>>
    BY <1>3, Zenon DEF CsvCandles
  <2> QED BY <2>1, Zenon
<1>4. CASE ExchangeCandles
  <2>1. stage = "upload" /\ stage' = "create" /\ UNCHANGED <<parityRow, disk>>
    BY <1>4, Zenon DEF ExchangeCandles
  <2> QED BY <2>1, Zenon
<1>5. CASE CreateParityRun
  BY <1>5, Zenon DEF CreateParityRun
<1>6. CASE PersistParityJob
  BY <1>6, Zenon DEF PersistParityJob
<1>7. CASE NameFolder
  BY <1>7, Zenon DEF NameFolder
<1>8. CASE BeginReplay
  BY <1>8, Zenon DEF BeginReplay, Raises
<1>9. CASE VerifyArtifact
  BY <1>9, Zenon DEF VerifyArtifact, Raises, MarkFailed, WriteResult
<1>10. CASE PrepareReplay
  <2>1. stage = "verified" /\ stage' \in {"replaying", "raised"} /\ UNCHANGED <<parityRow, disk>>
    BY <1>10, Zenon DEF PrepareReplay, Raises
  <2> QED BY <2>1, Zenon
<1>11. CASE ReplayReturns
  BY <1>11, Zenon DEF ReplayReturns, Raises
<1>12. CASE SaveReplay
  BY <1>12, Zenon DEF SaveReplay, Raises
<1>13. CASE ExportAndCompare
  BY <1>13, Zenon DEF ExportAndCompare, Raises
<1>14. CASE WriteDone
  BY <1>14, Zenon DEF WriteDone, WriteResult
<1>15. CASE RecordFailure
  BY <1>15, Zenon DEF RecordFailure, MarkFailed
<1>16. CASE WriteFailed
  BY <1>16, Zenon DEF WriteFailed, WriteResult
<1>17. CASE DeleteParityRun
  BY <1>17, Zenon DEF DeleteParityRun
<1>18. CASE DeleteBacktestRun
  BY <1>18, Zenon DEF DeleteBacktestRun
<1>19. CASE GatewayRestarts
  BY <1>19, Zenon DEF GatewayRestarts
<1> HIDE DEF ParityFlow
<1> QED BY <1>1, <1>2, <1>3, <1>4, <1>5, <1>6, <1>7, <1>8, <1>9, <1>10, <1>11, <1>12,
           <1>13, <1>14, <1>15, <1>16, <1>17, <1>18, <1>19, Zenon DEF ParityNext

LEMMA ParityDataStep == ParityData /\ ParityNext => ParityData'
<1> SUFFICES ASSUME ParityData, ParityNext PROVE ParityData'
  BY Zenon
<1>1. CASE CsvCandles
  BY <1>1, CsvCandlesStep, Zenon
<1>2. CASE ExchangeCandles
  BY <1>2, ExchangeCandlesStep, Zenon
<1>3. CASE PrepareReplay
  BY <1>3, PrepareReplayStep, Zenon
<1>4. CASE ParityNext /\ ~CsvCandles /\ ~ExchangeCandles /\ ~PrepareReplay
  <2> DEFINE Quiet ==
        /\ UNCHANGED <<replay, runConfig>>
        /\ stage' \in Ahead => stage \in Ahead
        /\ stage' \in {"new", "upload"} => stage \in {"new", "upload"}
  <2> USE DEF Step, Ahead
  <2>1. CASE StoreUploads
    <3>1. Quiet BY <2>1, Zenon DEF StoreUploads
    <3> QED BY <3>1, DataKeeps, Zenon
  <2>2. CASE RejectRequest \/ CreateParityRun \/ PersistParityJob \/ NameFolder
    <3>1. Quiet BY <2>2, Zenon DEF RejectRequest, CreateParityRun, PersistParityJob, NameFolder
    <3> QED BY <3>1, DataKeeps, Zenon
  <2>3. CASE BeginReplay \/ VerifyArtifact
    <3>1. Quiet BY <2>3, Zenon DEF BeginReplay, VerifyArtifact, Raises
    <3> QED BY <3>1, DataKeeps, Zenon
  <2>4. CASE ReplayReturns \/ SaveReplay \/ ExportAndCompare \/ WriteDone
    <3>1. Quiet BY <2>4, Zenon DEF ReplayReturns, SaveReplay, ExportAndCompare, WriteDone, Raises
    <3> QED BY <3>1, DataKeeps, Zenon
  <2>5. CASE RecordFailure \/ WriteFailed \/ DeleteParityRun \/ DeleteBacktestRun
    <3>1. Quiet BY <2>5, Zenon DEF RecordFailure, WriteFailed, DeleteParityRun, DeleteBacktestRun
    <3> QED BY <3>1, DataKeeps, Zenon
  <2>6. CASE GatewayRestarts
    <3>1. Quiet BY <2>6, Zenon DEF GatewayRestarts
    <3> QED BY <3>1, DataKeeps, Zenon
  <2> QED BY <1>4, <2>1, <2>2, <2>3, <2>4, <2>5, <2>6, Zenon DEF ParityNext
<1> QED BY <1>1, <1>2, <1>3, <1>4, Zenon

(* The invariant of a parity run: until the replay is prepared there is no *)
(* configuration, from the save on the row is done, and the result file    *)
(* says done only after the export (_run_tv_parity_background).            *)
THEOREM ParityInductive == ParitySpec => []ParityInv
<1>1. ParityInit => ParityInv
  BY ParityInitInv, Zenon
<1>2. ParityInv /\ [ParityNext]_parityVars => ParityInv'
  <2> SUFFICES ASSUME ParityInv, [ParityNext]_parityVars PROVE ParityInv'
    BY Zenon
  <2>1. CASE ParityNext
    BY <2>1, ParityFlowStep, ParityDataStep, Zenon DEF ParityInv
  <2>2. CASE UNCHANGED parityVars
    <3>1. UNCHANGED <<replay, runConfig, stage>>
      BY <2>2, Zenon DEF parityVars
    <3>2. ParityData'
      BY <3>1, DataKeeps, Zenon DEF ParityInv
    <3>3. ParityFlow'
      BY <2>2, Zenon DEF ParityInv, ParityFlow, parityVars
    <3> QED BY <3>2, <3>3, Zenon DEF ParityInv
  <2> QED BY <2>1, <2>2, Zenon
<1> QED BY <1>1, <1>2, PTL DEF ParitySpec

(* A parity run shown as done is saved and exported, and its replay scores *)
(* the candles of the compared window, for any uploads and any forms, at      *)
(* whatever await a deletion or a restart meets it.                        *)
THEOREM ParityStaysBacked == ParitySpec => []ParityIsBacked
<1>1. ParityInv => ParityIsBacked
  <2> SUFFICES ASSUME ParityInv PROVE ParityIsBacked
    BY Zenon
  <2>1. ParityDoneIsBacked
    BY Zenon DEF ParityInv, ParityFlow, ParityDoneIsBacked
  <2>2. ScoredIsCompared
    BY Zenon DEF ParityInv, ParityData
  <2>3. ParityTypeOK
    <3>1. replay \in ReplayType /\ runConfig \in ConfigType
      BY Zenon DEF ParityInv, ParityData
    <3>2. \A b \in replay.bars : b.time \in Int
      BY <3>1, Zenon DEF ReplayType
    <3>3. IsFiniteSet(replay.bars)
      BY <3>1, Zenon DEF ReplayType
    <3>4. replay["from"] \in Int /\ replay["to"] \in Int /\ replay["pre"] \in Int
          /\ replay["warmup"] \in Int
      BY <3>1 DEF ReplayType
    <3>5. runConfig["start"] \in Int /\ runConfig["end"] \in Int /\ runConfig["history"] \in Int
      BY <3>1, Zenon DEF ConfigType
    <3> QED BY <3>2, <3>3, <3>4, <3>5, Zenon DEF ParityInv, ParityFlow, ParityTypeOK
  <2> QED BY <2>1, <2>2, <2>3, Zenon DEF ParityIsBacked
<1> QED BY <1>1, ParityInductive, PTL

-----------------------------------------------------------------------------
(* The bars and offsets of a TradingView corpus: arithmetic                *)

Pos == Nat \ {0}
Dvd(d, x) == \E k \in Int : x = k * d

LEMMA MulInt == \A a, b \in Int : a * b \in Int
BY SMT

LEMMA DivMod ==
    ASSUME NEW a \in Int, NEW n \in Pos
    PROVE  a % n \in 0..(n - 1) /\ a \div n \in Int /\ a = (a \div n) * n + (a % n)
BY SMT DEF Pos

LEMMA MulGrows ==
    ASSUME NEW d \in Int, NEW n \in Pos, d >= 1
    PROVE  d * n >= n
BY SMT DEF Pos

LEMMA MulShrinks ==
    ASSUME NEW d \in Int, NEW n \in Pos, d <= -1
    PROVE  d * n <= -n
BY SMT DEF Pos

LEMMA MulLess ==
    ASSUME NEW q \in Int, NEW p \in Int, NEW n \in Int
    PROVE  (q - p) * n = q * n - p * n
BY SMT

LEMMA ModUnique ==
    ASSUME NEW n \in Pos, NEW q \in Int, NEW r \in 0..(n - 1)
    PROVE  (q * n + r) % n = r /\ (q * n + r) \div n = q
<1> DEFINE a == q * n + r
           p == a \div n
           s == a % n
<1>1. a \in Int /\ n \in Int /\ r \in Int
  BY MulInt DEF Pos
<1>2. s \in 0..(n - 1) /\ p \in Int /\ a = p * n + s
  <2> HIDE DEF a
  <2> QED BY <1>1, DivMod, Zenon
<1>3. a = q * n + r
  BY Zenon
<1> HIDE DEF a, p, s
<1>4. (q - p) * n = s - r
  <2>1. (q - p) * n = q * n - p * n /\ q * n \in Int /\ p * n \in Int
    BY <1>1, <1>2, MulLess, MulInt
  <2> QED BY <1>1, <1>2, <1>3, <2>1
<1>5. ~(q - p >= 1)
  BY <1>1, <1>2, <1>4, MulGrows DEF Pos
<1>6. ~(q - p <= -1)
  BY <1>1, <1>2, <1>4, MulShrinks DEF Pos
<1>7. q = p
  BY <1>2, <1>5, <1>6
<1>8. s = r
  BY <1>1, <1>2, <1>3, <1>7, MulInt
<1> QED BY <1>7, <1>8, Zenon DEF a, p, s

LEMMA ModZero ==
    ASSUME NEW n \in Pos, NEW x \in Int
    PROVE  x % n = 0 <=> Dvd(n, x)
<1>1. ASSUME x % n = 0 PROVE Dvd(n, x)
  <2>1. x \div n \in Int /\ x = (x \div n) * n + 0 /\ (x \div n) * n \in Int
    BY <1>1, DivMod, MulInt DEF Pos
  <2> HIDE DEF Pos
  <2>2. x = (x \div n) * n
    BY <2>1
  <2> QED BY <2>1, <2>2, Zenon DEF Dvd
<1>2. ASSUME Dvd(n, x) PROVE x % n = 0
  <2>1. PICK k \in Int : x = k * n
    BY <1>2, Zenon DEF Dvd
  <2>2. k * n \in Int /\ 0 \in 0..(n - 1)
    BY MulInt DEF Pos
  <2>3. (k * n + 0) % n = 0
    BY <2>2, ModUnique, Zenon
  <2>4. k * n + 0 = k * n
    BY <2>2
  <2> QED BY <2>1, <2>3, <2>4, Zenon
<1> QED BY <1>1, <1>2, Zenon

LEMMA DvdLinear ==
    ASSUME NEW d \in Int, NEW x \in Int, NEW y \in Int, NEW a \in Int, NEW b \in Int,
           Dvd(d, x), Dvd(d, y)
    PROVE  Dvd(d, a * x + b * y)
<1>1. PICK j \in Int : x = j * d
  BY Zenon DEF Dvd
<1>2. PICK k \in Int : y = k * d
  BY Zenon DEF Dvd
<1>3. a * j + b * k \in Int
  BY MulInt
<1>4. a * (j * d) + b * (k * d) = (a * j + b * k) * d
  BY SMT
<1> QED BY <1>1, <1>2, <1>3, <1>4, Zenon DEF Dvd

LEMMA DvdSum ==
    ASSUME NEW d \in Int, NEW x \in Int, NEW y \in Int, Dvd(d, x), Dvd(d, y)
    PROVE  Dvd(d, x + y)
<1>1. Dvd(d, 1 * x + 1 * y)
  <2>1. 1 \in Int
    OBVIOUS
  <2> QED BY <2>1, DvdLinear, Zenon
<1>2. 1 * x + 1 * y = x + y
  OBVIOUS
<1> QED BY <1>1, <1>2, Zenon

LEMMA DvdMultiple ==
    ASSUME NEW d \in Int, NEW x \in Int, NEW k \in Int, Dvd(d, x)
    PROVE  Dvd(d, k * x)
<1>1. PICK j \in Int : x = j * d
  BY Zenon DEF Dvd
<1>2. k * (j * d) = (k * j) * d /\ k * j \in Int
  OBVIOUS
<1> QED BY <1>1, <1>2, Zenon DEF Dvd

LEMMA DvdBound ==
    ASSUME NEW d \in Pos, NEW x \in Pos, Dvd(d, x)
    PROVE  d <= x
<1>1. PICK k \in Int : x = k * d
  BY Zenon DEF Dvd
<1>2. CASE k >= 1
  BY <1>1, <1>2, MulGrows, Zenon DEF Pos
<1>3. CASE k <= -1
  BY <1>1, <1>3, MulShrinks DEF Pos
<1>4. CASE k = 0
  BY <1>1, <1>4 DEF Pos
<1> QED BY <1>2, <1>3, <1>4

(* A bounded set of naturals has a greatest element, which Max chooses.    *)
LEMMA MaxOfBounded ==
    ASSUME NEW T, T # {}, NEW b \in Nat, T \subseteq 0..b
    PROVE  Max(T) \in T /\ \A x \in T : x <= Max(T)
<1> DEFINE D == {n \in Nat : b - n \in T}
<1>1. D \in SUBSET Nat
  BY Zenon
<1>2. D # {}
  <2>1. PICK x \in T : TRUE
    BY Zenon
  <2>2. x \in 0..b /\ b - x \in Nat /\ b - (b - x) = x
    BY <2>1
  <2> QED BY <2>1, <2>2, Zenon
<1>3. PICK n \in D : \A m \in D : n <= m
  <2> HIDE DEF D
  <2> QED BY <1>1, <1>2, LeastNat, Zenon
<1>4. b - n \in T /\ n \in Nat
  BY <1>3, Zenon
<1>5. ASSUME NEW x \in T PROVE b - n >= x
  <2>1. x \in 0..b /\ b - x \in Nat /\ b - (b - x) = x
    BY <1>5
  <2>2. b - x \in D
    BY <2>1, Zenon
  <2>3. n <= b - x
    BY <1>3, <2>2, Zenon
  <2> QED BY <1>4, <2>1, <2>3
<1>6. \E x \in T : \A y \in T : x >= y
  BY <1>4, <1>5, Zenon
<1>7. Max(T) \in T /\ \A y \in T : Max(T) >= y
  BY <1>6, Zenon DEF Max
<1>8. \A y \in T : y \in Int
  OBVIOUS
<1> QED BY <1>7, <1>8, Zenon

(* The sums of multiples of m and n, and the least positive one of them.   *)
Sums(m, n) == {d \in Pos : \E x, y \in Int : d = x * m + y * n}

LEMMA LeastSumDivides ==
    ASSUME NEW m \in Pos, NEW n \in Pos, NEW d \in Sums(m, n),
           \A e \in Sums(m, n) : d <= e, NEW z \in {m, n}
    PROVE  Dvd(d, z)
<1>1. d \in Pos /\ z \in Pos /\ m \in Int /\ n \in Int /\ d \in Int /\ z \in Int
  BY DEF Sums, Pos
<1>2. PICK x \in Int, y \in Int : d = x * m + y * n
  BY Zenon DEF Sums
<1>3. PICK u \in Int, v \in Int : z = u * m + v * n
  <2>1. m = 1 * m + 0 * n /\ n = 0 * m + 1 * n
    BY <1>1
  <2>2. 0 \in Int /\ 1 \in Int
    OBVIOUS
  <2> QED BY <2>1, <2>2, Zenon
<1> DEFINE q == z \div d
           r == z % d
<1>4. q \in Int /\ r \in 0..(d - 1) /\ z = q * d + r
  BY <1>1, DivMod, Zenon
<1> HIDE DEF q, r
<1>5. r = (u - q * x) * m + (v - q * y) * n
  <2>1. r = z - q * d
    BY <1>1, <1>4, MulInt
  <2>2. (u * m + v * n) - q * (x * m + y * n) = (u - q * x) * m + (v - q * y) * n
    BY <1>1, <1>2, <1>3, <1>4
  <2> QED BY <1>2, <1>3, <2>1, <2>2, Zenon
<1>6. u - q * x \in Int /\ v - q * y \in Int
  BY <1>4, MulInt
<1>7. r \notin Pos
  <2> SUFFICES ASSUME r \in Pos PROVE FALSE
    BY Zenon
  <2>1. r \in Sums(m, n)
    BY <1>5, <1>6, Zenon DEF Sums
  <2>2. d <= r
    BY <2>1, Zenon
  <2> QED BY <1>1, <1>4, <2>2
<1>8. r = 0
  BY <1>1, <1>4, <1>7 DEF Pos
<1>9. z = q * d
  BY <1>1, <1>4, <1>8, MulInt
<1> QED BY <1>4, <1>9, Zenon DEF Dvd

(* math.gcd: a common divisor that is a sum of multiples of both.          *)
LEMMA GcdFacts ==
    ASSUME NEW m \in Pos, NEW n \in Pos
    PROVE  /\ Gcd(m, n) \in Pos /\ Dvd(Gcd(m, n), m) /\ Dvd(Gcd(m, n), n)
           /\ \E x, y \in Int : Gcd(m, n) = x * m + y * n
<1> DEFINE C == {d \in 1..m : m % d = 0 /\ n % d = 0}
           g == Gcd(m, n)
<1>1. m \in Int /\ n \in Int /\ m \in Nat /\ m >= 1
  BY DEF Pos
<1>2. \A d \in 1..m : d \in Pos
  BY <1>1 DEF Pos
<1>3. \A d \in 1..m : d \in C <=> Dvd(d, m) /\ Dvd(d, n)
  <2> SUFFICES ASSUME NEW d \in 1..m PROVE d \in C <=> Dvd(d, m) /\ Dvd(d, n)
    BY Zenon
  <2>1. (m % d = 0 <=> Dvd(d, m)) /\ (n % d = 0 <=> Dvd(d, n))
    BY <1>1, <1>2, ModZero, Zenon
  <2> QED BY <2>1, Zenon
<1>4. C \subseteq 0..m
  BY <1>1
<1>5. g = Max(C)
  BY Zenon DEF Gcd
<1>6. m \in Sums(m, n)
  <2>1. m = 1 * m + 0 * n /\ 1 \in Int /\ 0 \in Int
    BY <1>1
  <2> QED BY <2>1, Zenon DEF Sums
<1>7. Sums(m, n) \in SUBSET Nat /\ Sums(m, n) \in SUBSET Pos
  BY Zenon DEF Sums, Pos
<1> DEFINE S == Sums(m, n)
<1> HIDE DEF S
<1>8. PICK d \in S : \A e \in S : d <= e
  <2>1. S \in SUBSET Nat /\ S # {}
    BY <1>6, <1>7, Zenon DEF S
  <2> QED BY <2>1, LeastNat, Zenon
<1>9. d \in Pos /\ Dvd(d, m) /\ Dvd(d, n)
  <2>1. d \in Sums(m, n) /\ \A e \in Sums(m, n) : d <= e
    BY <1>8, Zenon DEF S
  <2> QED BY <1>7, <2>1, LeastSumDivides, Zenon
<1>10. d \in C
  <2>1. d <= m
    BY <1>9, DvdBound, Zenon
  <2>2. d \in 1..m
    BY <1>1, <1>9, <2>1 DEF Pos
  <2> QED BY <1>3, <1>9, <2>2, Zenon
<1> HIDE DEF C, g
<1>11. g \in C /\ d <= g
  BY <1>1, <1>4, <1>5, <1>10, MaxOfBounded, Zenon
<1>12. g \in 1..m
  BY <1>11, Zenon DEF C
<1>13. g \in Pos /\ Dvd(g, m) /\ Dvd(g, n)
  BY <1>2, <1>3, <1>11, <1>12, Zenon
<1>14. PICK x \in Int, y \in Int : d = x * m + y * n
  BY <1>8, Zenon DEF S, Sums
<1>15. Dvd(g, d)
  <2>1. g \in Int
    BY <1>12
  <2> QED BY <1>1, <1>13, <1>14, <2>1, DvdLinear, Zenon
<1>16. g <= d
  BY <1>9, <1>13, <1>15, DvdBound, Zenon
<1>17. g = d
  BY <1>9, <1>11, <1>13, <1>16 DEF Pos
<1>18. g = Gcd(m, n)
  BY Zenon DEF g
<1> QED BY <1>13, <1>14, <1>17, <1>18, Zenon

(* math.lcm: a multiple of both.                                           *)
LEMMA LcmFacts ==
    ASSUME NEW m \in Pos, NEW n \in Pos
    PROVE  Lcm(m, n) \in Pos /\ Dvd(m, Lcm(m, n)) /\ Dvd(n, Lcm(m, n))
<1> DEFINE g == Gcd(m, n)
<1>1. g \in Pos /\ Dvd(g, m) /\ Dvd(g, n)
  BY GcdFacts, Zenon
<1>2. Lcm(m, n) = (m * n) \div g
  BY Zenon DEF Lcm
<1> HIDE DEF g
<1>3. PICK i \in Int : m = i * g
  BY <1>1, Zenon DEF Dvd
<1>4. PICK j \in Int : n = j * g
  BY <1>1, Zenon DEF Dvd
<1>5. m \in Int /\ n \in Int /\ g \in Int /\ m * j \in Int
  BY <1>1, MulInt DEF Pos
<1>6. m * n = (m * j) * g
  <2>1. m * (j * g) = (m * j) * g
    BY <1>5
  <2> QED BY <1>4, <2>1, Zenon
<1>7. (m * n) \div g = m * j
  <2>1. 0 \in 0..(g - 1) /\ (m * j) * g \in Int
    BY <1>1, <1>5, MulInt DEF Pos
  <2>2. ((m * j) * g + 0) \div g = m * j
    BY <1>1, <1>5, <2>1, ModUnique, Zenon
  <2>3. (m * j) * g + 0 = (m * j) * g
    BY <2>1
  <2> QED BY <1>6, <2>2, <2>3, Zenon
<1>8. m * j = j * m /\ m * j = i * n
  <2>1. (i * g) * j = i * (j * g)
    BY <1>5
  <2>2. m * j = j * m
    BY <1>5
  <2> QED BY <1>3, <1>4, <2>1, <2>2, Zenon
<1>9. j >= 1
  <2>1. ~(j <= -1)
    BY <1>1, <1>4, MulShrinks DEF Pos
  <2>2. j # 0
    BY <1>1, <1>4, <1>5 DEF Pos
  <2> QED BY <2>1, <2>2
<1>10. m * j \in Pos
  <2>1. j * m >= m
    BY <1>9, MulGrows, Zenon
  <2> QED BY <1>5, <1>8, <2>1 DEF Pos
<1> QED BY <1>2, <1>4, <1>3, <1>7, <1>8, <1>10, Zenon DEF Dvd

(* The Chinese remainder theorem, for the generator that next() is called  *)
(* on: when the residues agree modulo the gcd it yields a candidate.       *)
LEMMA CandidatesExist ==
    ASSUME NEW m \in Pos, NEW p \in Pos, NEW residue \in 0..(m - 1), NEW rest \in 0..(p - 1),
           (rest - residue) % Gcd(m, p) = 0
    PROVE  Candidates(m, residue, p, rest) # {}
<1> DEFINE g == Gcd(m, p)
           l == Lcm(m, p)
<1>1. g \in Pos /\ \E x, y \in Int : g = x * m + y * p
  BY GcdFacts, Zenon
<1>2. l \in Pos /\ Dvd(m, l) /\ Dvd(p, l)
  BY LcmFacts, Zenon
<1>3. (rest - residue) % g = 0
  BY Zenon
<1>4. Candidates(m, residue, p, rest) =
        {c \in residue..(l - 1) : (c - residue) % m = 0 /\ c % p = rest}
  BY Zenon DEF Candidates
<1> HIDE DEF g, l
<1>5. m \in Int /\ p \in Int /\ residue \in Int /\ rest \in Int /\ l \in Int /\ g \in Int
      /\ rest - residue \in Int
  BY <1>1, <1>2 DEF Pos
<1>6. PICK x \in Int, y \in Int : g = x * m + y * p
  BY <1>1, Zenon
<1>7. PICK k \in Int : rest - residue = k * g
  BY <1>1, <1>3, <1>5, ModZero, Zenon DEF Dvd
<1>8. PICK i \in Int : l = i * m
  BY <1>2, Zenon DEF Dvd
<1>9. PICK j \in Int : l = j * p
  BY <1>2, Zenon DEF Dvd
<1> DEFINE a == residue + (k * x) * m
           z == a \div l
           c == a % l
<1>10. a \in Int /\ k * x \in Int /\ k * y \in Int /\ (k * x) * m \in Int /\ (k * y) * p \in Int
  BY <1>5, MulInt
<1>11. a = rest - (k * y) * p
  <2>1. k * (x * m + y * p) = (k * x) * m + (k * y) * p
    BY <1>5
  <2> QED BY <1>5, <1>6, <1>7, <1>10, <2>1
<1>12. a = residue + (k * x) * m
  BY Zenon
<1> HIDE DEF a
<1>13. z \in Int /\ c \in 0..(l - 1) /\ a = z * l + c
  BY <1>2, <1>10, DivMod, Zenon
<1> HIDE DEF z, c
<1>14. z * i \in Int /\ z * j \in Int /\ z * l \in Int /\ c \in Int
  BY <1>5, <1>13, MulInt
<1>15. c - residue = (k * x - z * i) * m
  <2>1. z * (i * m) = (z * i) * m /\ (z * i) * m \in Int
    BY <1>5, <1>13, MulInt
  <2>2. (k * x - z * i) * m = (k * x) * m - (z * i) * m
    BY <1>5, <1>10, <1>14, MulLess
  <2>3. z * l = (z * i) * m
    BY <1>8, <2>1, Zenon
  <2> QED BY <1>5, <1>10, <1>12, <1>13, <1>14, <2>1, <2>2, <2>3
<1>16. c = (-(k * y) - z * j) * p + rest
  <2>1. z * (j * p) = (z * j) * p /\ (z * j) * p \in Int
    BY <1>5, <1>13, MulInt
  <2>2. (-(k * y) - z * j) * p = (-(k * y)) * p - (z * j) * p /\ -(k * y) \in Int
    BY <1>5, <1>10, <1>14, MulLess
  <2>3. (-(k * y)) * p = -((k * y) * p)
    BY <1>5, <1>10
  <2>4. z * l = (z * j) * p
    BY <1>9, <2>1, Zenon
  <2> QED BY <1>5, <1>10, <1>11, <1>13, <1>14, <2>1, <2>2, <2>3, <2>4
<1> DEFINE u == k * x - z * i
           v == -(k * y) - z * j
<1>17. u \in Int /\ v \in Int /\ c - residue = u * m /\ c = v * p + rest
  BY <1>10, <1>14, <1>15, <1>16
<1> HIDE DEF u, v
<1>18. (c - residue) % m = 0
  <2>1. Dvd(m, c - residue)
    BY <1>17, Zenon DEF Dvd
  <2>2. c - residue \in Int
    BY <1>5, <1>14
  <2> QED BY <2>1, <2>2, ModZero, Zenon
<1>19. c % p = rest
  BY <1>17, ModUnique, Zenon
<1>20. c >= residue
  <2>1. ~(u <= -1)
    <3> SUFFICES ASSUME u <= -1 PROVE FALSE
      BY Zenon
    <3>1. u * m <= -m
      BY <1>17, MulShrinks, Zenon
    <3> QED BY <1>5, <1>13, <1>14, <1>17, <3>1
  <2>2. u * m >= 0
    BY <1>5, <1>17, <2>1 DEF Pos
  <2> QED BY <1>5, <1>14, <1>17, <2>2
<1>21. c \in residue..(l - 1)
  BY <1>5, <1>13, <1>14, <1>20
<1> QED BY <1>4, <1>18, <1>19, <1>21, Zenon

(* The rows of a periodic column lie whole periods after its first one.    *)
LEMMA PeriodicRows ==
    ASSUME NEW na \in SUBSET Nat, IsPeriodic(na), NEW r \in na
    PROVE  /\ Min(na) \in Nat /\ Period(na) \in Pos
           /\ Dvd(Period(na), r - Min(na))
<1> DEFINE p == Period(na)
           first == Min(na)
           Off == {place \in na : ~Dvd(p, place - first)}
<1>1. p \in 2..128
  BY Zenon DEF IsPeriodic
<1>2. p \in Pos /\ p \in Int
  BY <1>1 DEF Pos
<1>3. \A place \in na : (\E later \in na : later > place) => Gap(na, place) = p
  BY Zenon DEF IsPeriodic
<1>4. first \in na /\ \A place \in na : first <= place
  <2>1. na # {}
    BY Zenon
  <2>2. PICK n \in na : \A place \in na : n <= place
    BY <2>1, LeastNat, Zenon
  <2> QED BY <2>2, Zenon DEF Min
<1>5. first \in Nat
  BY <1>4, Zenon
<1> HIDE DEF p, first
<1>6. Off = {}
  <2>1. SUFFICES ASSUME Off # {} PROVE FALSE
    BY Zenon
  <2>2. Off \in SUBSET Nat
    BY Zenon
  <2>3. PICK w \in Off : \A place \in Off : w <= place
    <3> HIDE DEF Off
    <3> QED BY <2>1, <2>2, LeastNat, Zenon
  <2>4. w \in na /\ ~Dvd(p, w - first) /\ w \in Nat
    BY <2>3, Zenon
  <2> DEFINE before == {place \in na : place < w}
             last == Max(before)
  <2>5. w # first
    <3> SUFFICES ASSUME w = first PROVE FALSE
      BY Zenon
    <3>1. w - first = 0 * p /\ 0 \in Int
      BY <1>2, <2>4, <1>5
    <3> QED BY <2>4, <3>1, Zenon DEF Dvd
  <2>6. first \in before /\ before \subseteq 0..w
    <3>1. first <= w
      BY <1>4, <2>4, Zenon
    <3>2. first < w
      BY <1>5, <2>4, <2>5, <3>1
    <3>3. \A place \in na : place \in Nat
      BY Zenon
    <3>4. \A place \in before : place \in 0..w
      BY <2>4, <3>3
    <3> QED BY <1>4, <3>2, <3>4, Zenon
  <2> HIDE DEF before
  <2>7. last \in before /\ \A place \in before : place <= last
    BY <2>4, <2>6, MaxOfBounded, Zenon
  <2> HIDE DEF last
  <2>8. last \in na /\ last < w /\ last \in Nat
    BY <2>7, Zenon DEF before
  <2>9. Min({later \in na : later > last}) = w
    <3> DEFINE Later == {later \in na : later > last}
    <3>1. w \in Later
      BY <2>4, <2>8, Zenon
    <3>2. \A place \in Later : w <= place
      <4> SUFFICES ASSUME NEW place \in Later, ~(w <= place) PROVE FALSE
        BY Zenon
      <4>1. place \in na /\ place > last /\ place \in Nat
        BY Zenon
      <4>2. place < w
        BY <2>4, <4>1
      <4>3. place \in before
        BY <4>1, <4>2, Zenon DEF before
      <4>4. place <= last
        BY <2>7, <4>3, Zenon
      <4> QED BY <2>8, <4>1, <4>4
    <3>3. \A place \in Later : place \in Nat
      BY Zenon
    <3> HIDE DEF Later
    <3>4. \A y \in Later : (\A place \in Later : y <= place) => y = w
      BY <3>1, <3>2, <3>3
    <3>5. Min(Later) = w
      BY <3>1, <3>2, <3>4, Zenon DEF Min
    <3> QED BY <3>5, Zenon DEF Later
  <2>10. \E later \in na : later > last
    BY <2>4, <2>8, Zenon
  <2>11. w - last = p
    BY <1>3, <2>8, <2>9, <2>10, Zenon DEF Gap
  <2>12. Dvd(p, last - first)
    <3> SUFFICES ASSUME ~Dvd(p, last - first) PROVE FALSE
      BY Zenon
    <3>1. last \in Off
      BY <2>8, Zenon
    <3>2. w <= last
      BY <2>3, <3>1, Zenon
    <3> QED BY <2>4, <2>8, <3>2
  <2>13. PICK k \in Int : last - first = k * p
    BY <2>12, Zenon DEF Dvd
  <2>14. w - first = (k + 1) * p /\ k + 1 \in Int
    <3>1. k * p \in Int /\ (k + 1) * p = k * p + p
      BY <1>2
    <3> QED BY <1>2, <1>5, <2>4, <2>8, <2>11, <2>13, <3>1
  <2> QED BY <2>4, <2>14, Zenon DEF Dvd
<1>7. Dvd(p, r - first)
  BY <1>6, Zenon
<1> QED BY <1>2, <1>5, <1>7, Zenon DEF p, first

-----------------------------------------------------------------------------
(* The bars                                                                *)

(* What is known of the bars once they are loaded.                         *)
Merged ==
    /\ \A b, c \in bars : b.time = c.time => b = c
    /\ {b.time : b \in bars} =
         (IF tvReq.authoritative THEN {} ELSE tvReq.provider)
           \cup (IF tvReq.providerOnly /\ ~tvReq.authoritative THEN {} ELSE tvReq.chart)
    /\ \A b \in bars :
         /\ tvReq.kind = "strategy" => b.from = "provider"
         /\ b.from # "chart" => tvReq.providerOnly \/ b.time \notin tvReq.chart
         /\ b.from = "provider" => tvReq.providerOnly \/ Shows(b.time) = {}
         /\ b.from = "corpus" => \A i \in 1..(b.nth - 1) : b.time \notin tvReq.corpus[i]

BarsInv ==
    /\ tvReq \in TvRequests
    /\ bars \subseteq BarType
    /\ tvStep \in {"align", "columns", "done"} => Merged

LEMMA RequestFacts ==
    ASSUME NEW r \in TvRequests
    PROVE  /\ r.provider \subseteq TvTimes /\ r.chart \subseteq TvTimes
           /\ r.corpus \in Seq(SUBSET TvTimes)
           /\ r.kind \in {"indicator", "strategy"}
           /\ r.authoritative \in BOOLEAN /\ r.providerOnly \in BOOLEAN
           /\ r.barColumns \in Seq(Nat) /\ r.naColumns \in Seq(SUBSET Nat)
<1>1. r \in RequestType
  BY CorpusAssumption, Zenon
<1> QED BY <1>1, Zenon DEF RequestType

(* Of the charts that show a time CorpusChart is the first.                *)
LEMMA FirstChart ==
    ASSUME tvReq \in TvRequests, NEW t, Shows(t) # {}
    PROVE  /\ CorpusChart(t) \in Nat
           /\ \A i \in 1..(CorpusChart(t) - 1) : t \notin tvReq.corpus[i]
<1>1. tvReq.corpus \in Seq(SUBSET TvTimes)
  BY RequestFacts, Zenon
<1> DEFINE charts == tvReq.corpus
<1> HIDE DEF charts
<1>2. Shows(t) = {i \in DOMAIN charts : t \in charts[i]}
  BY Zenon DEF Shows, charts
<1>3. DOMAIN charts = 1..Len(charts) /\ Len(charts) \in Nat
  BY <1>1 DEF charts
<1>4. Shows(t) \in SUBSET Nat
  BY <1>2, <1>3
<1> DEFINE S == Shows(t)
<1> HIDE DEF S
<1>5. S \in SUBSET Nat /\ S # {}
  BY <1>4, Zenon DEF S
<1>6. PICK n \in S : \A i \in S : n <= i
  BY <1>5, LeastNat, Zenon
<1>7. Min(S) \in S /\ \A i \in S : Min(S) <= i
  BY <1>6, Zenon DEF Min
<1>8. CorpusChart(t) = Min(S)
  BY Zenon DEF CorpusChart, S
<1> DEFINE k == CorpusChart(t)
<1> HIDE DEF k
<1>9. k \in S /\ k \in Nat /\ \A i \in S : k <= i
  BY <1>5, <1>7, <1>8, Zenon DEF k
<1>10. k \in 1..Len(charts)
  BY <1>2, <1>3, <1>9, Zenon DEF S
<1>11. \A i \in 1..(k - 1) : i \notin S
  BY <1>9
<1>12. \A i \in 1..(k - 1) : i \in DOMAIN charts
  BY <1>3, <1>10
<1>13. \A i \in 1..(k - 1) : t \notin charts[i]
  BY <1>2, <1>11, <1>12, Zenon DEF S
<1> QED BY <1>9, <1>13, Zenon DEF k, charts

(* The bar of a time after merge_visible_bars.                             *)
CorpusBar(t) ==
    IF Shows(t) = {} THEN [time |-> t, from |-> "provider", nth |-> 0]
    ELSE [time |-> t, from |-> "corpus", nth |-> CorpusChart(t)]

LEMMA CorpusBarFacts ==
    ASSUME tvReq \in TvRequests, NEW t \in TvTimes
    PROVE  /\ CorpusBar(t) \in BarType /\ CorpusBar(t).time = t
           /\ CorpusBar(t).from # "chart"
           /\ CorpusBar(t).from = "provider" => Shows(t) = {}
           /\ CorpusBar(t).from = "corpus" =>
                \A i \in 1..(CorpusBar(t).nth - 1) : t \notin tvReq.corpus[i]
<1>1. CASE Shows(t) = {}
  <2>1. CorpusBar(t) = [time |-> t, from |-> "provider", nth |-> 0]
    BY <1>1, Zenon DEF CorpusBar
  <2> QED BY <1>1, <2>1 DEF BarType
<1>2. CASE Shows(t) # {}
  <2>1. CorpusBar(t) = [time |-> t, from |-> "corpus", nth |-> CorpusChart(t)]
    BY <1>2, Zenon DEF CorpusBar
  <2> DEFINE k == CorpusChart(t)
  <2>2. k \in Nat /\ \A i \in 1..(k - 1) : t \notin tvReq.corpus[i]
    BY <1>2, FirstChart, Zenon
  <2> HIDE DEF k
  <2>3. CorpusBar(t) = [time |-> t, from |-> "corpus", nth |-> k]
    BY <2>1, Zenon DEF k
  <2>4. CorpusBar(t) \in BarType
    BY <2>2, <2>3 DEF BarType
  <2>5. CorpusBar(t).time = t /\ CorpusBar(t).from = "corpus" /\ CorpusBar(t).nth = k
    BY <2>3
  <2>6. CorpusBar(t).from # "provider" /\ CorpusBar(t).from # "chart"
    BY <2>5, Zenon
  <2> QED BY <2>2, <2>4, <2>5, <2>6, Zenon
<1> QED BY <1>1, <1>2, Zenon

LEMMA TimesOf ==
    ASSUME NEW B, NEW T, \A b \in B : b.time \in T, \A t \in T : \E b \in B : b.time = t
    PROVE  {b.time : b \in B} = T
BY Zenon

(* Bars made from times, each with its time.                               *)
LEMMA RowsOf ==
    ASSUME NEW T, NEW f, \A t \in T : f[t].time = t
    PROVE  LET B == {f[t] : t \in T}
           IN  /\ \A b \in B : b.time \in T /\ b = f[b.time]
               /\ \A t \in T : \E b \in B : b.time = t
               /\ \A b, c \in B : b.time = c.time => b = c
<1> DEFINE B == {f[t] : t \in T}
<1>1. ASSUME NEW b \in B PROVE b.time \in T /\ b = f[b.time]
  <2>1. PICK t \in T : b = f[t]
    BY Zenon
  <2>2. b.time = t
    BY <2>1, Zenon
  <2> QED BY <2>1, <2>2, Zenon
<1>2. ASSUME NEW t \in T PROVE \E b \in B : b.time = t
  <2>1. f[t] \in B /\ f[t].time = t
    BY Zenon
  <2> QED BY <2>1, Zenon
<1> HIDE DEF B
<1>3. \A b, c \in B : b.time = c.time => b = c
  BY <1>1, Zenon
<1>4. /\ \A b \in B : b.time \in T /\ b = f[b.time]
      /\ \A t \in T : \E b \in B : b.time = t
      /\ \A b, c \in B : b.time = c.time => b = c
  BY <1>1, <1>2, <1>3, Zenon
<1> QED BY <1>4, Zenon DEF B

LEMMA ChartRowFacts ==
    ASSUME tvReq \in TvRequests
    PROVE  /\ ChartRows \subseteq BarType
           /\ \A b \in ChartRows : b.time \in tvReq.chart /\ b.from = "chart"
           /\ \A t \in tvReq.chart : \E b \in ChartRows : b.time = t
           /\ \A b, c \in ChartRows : b.time = c.time => b = c
<1>1. tvReq.chart \subseteq TvTimes
  BY RequestFacts, Zenon
<1> DEFINE f == [t \in tvReq.chart |-> [time |-> t, from |-> "chart", nth |-> 0]]
<1>2. \A t \in tvReq.chart : f[t] \in BarType /\ f[t].time = t /\ f[t].from = "chart"
  BY <1>1, Zenon DEF BarType
<1>3. ChartRows = {f[t] : t \in tvReq.chart}
  BY Zenon DEF ChartRows
<1> HIDE DEF f
<1>4. /\ \A b \in ChartRows : b.time \in tvReq.chart /\ b = f[b.time]
      /\ \A t \in tvReq.chart : \E b \in ChartRows : b.time = t
      /\ \A b, c \in ChartRows : b.time = c.time => b = c
  BY <1>2, <1>3, RowsOf, SMTT(30)
<1>5. \A b \in ChartRows : b \in BarType /\ b.from = "chart"
  BY <1>2, <1>4
<1> QED BY <1>4, <1>5, Zenon

LEMMA AuthoritativeMerged ==
    ASSUME tvReq \in TvRequests, tvReq' = tvReq, tvReq.authoritative,
           tvReq.kind # "strategy", bars' = MergeTvVisibleBars({})
    PROVE  Merged' /\ bars' \subseteq BarType
<1>1. bars' = ChartRows
  BY Zenon DEF MergeTvVisibleBars
<1>2. \A b \in bars' : b.from = "chart" /\ b.time \in tvReq.chart
  BY <1>1, ChartRowFacts, Zenon
<1>3. \A b \in bars' : b.from # "provider" /\ b.from # "corpus"
  BY <1>2, Zenon
<1>4. {b.time : b \in bars'} = tvReq.chart
  <2>1. \A t \in tvReq.chart : \E b \in bars' : b.time = t
    BY <1>1, ChartRowFacts, Zenon
  <2> QED BY <1>2, <2>1, TimesOf, SMTT(30)
<1>5. {b.time : b \in bars'} = {} \cup tvReq.chart
  BY <1>4, Zenon
<1>6. \A b, c \in bars' : b.time = c.time => b = c
  BY <1>1, ChartRowFacts, Zenon
<1>7. bars' \subseteq BarType
  BY <1>1, ChartRowFacts, Zenon
<1> QED BY <1>2, <1>3, <1>5, <1>6, <1>7, Zenon DEF Merged

LEMMA ProviderOnlyMerged ==
    ASSUME tvReq \in TvRequests, tvReq' = tvReq, ~tvReq.authoritative, tvReq.providerOnly,
           bars' = {[time |-> t, from |-> "provider", nth |-> 0] : t \in tvReq.provider}
    PROVE  Merged' /\ bars' \subseteq BarType
<1>1. tvReq.provider \subseteq TvTimes
  BY RequestFacts, Zenon
<1> DEFINE f == [t \in tvReq.provider |-> [time |-> t, from |-> "provider", nth |-> 0]]
<1>2. \A t \in tvReq.provider : f[t] \in BarType /\ f[t].time = t /\ f[t].from = "provider"
  BY <1>1, Zenon DEF BarType
<1>3. bars' = {f[t] : t \in tvReq.provider}
  BY Zenon
<1> HIDE DEF f
<1>4. /\ \A b \in bars' : b.time \in tvReq.provider /\ b = f[b.time]
      /\ \A t \in tvReq.provider : \E b \in bars' : b.time = t
      /\ \A b, c \in bars' : b.time = c.time => b = c
  BY <1>2, <1>3, RowsOf, SMTT(30)
<1>5. bars' \subseteq BarType /\ \A b \in bars' : b.from = "provider"
  BY <1>2, <1>4, SMTT(30)
<1>6. \A b \in bars' : b.from # "corpus" /\ b.from # "chart"
  BY <1>5, Zenon
<1>7. {b.time : b \in bars'} = tvReq.provider
  BY <1>4, TimesOf, SMTT(30)
<1>8. {b.time : b \in bars'} = tvReq.provider \cup {}
  BY <1>7, Zenon
<1> QED BY <1>4, <1>5, <1>6, <1>8, Zenon DEF Merged

LEMMA ProviderMerged ==
    ASSUME tvReq \in TvRequests, tvReq' = tvReq, ~tvReq.authoritative, ~tvReq.providerOnly,
           tvReq.kind # "strategy",
           bars' = MergeTvVisibleBars(MergeVisibleBars(
                     {[time |-> t, from |-> "provider", nth |-> 0] : t \in tvReq.provider}))
    PROVE  Merged' /\ bars' \subseteq BarType
<1>1. tvReq.provider \subseteq TvTimes
  BY RequestFacts, Zenon
<1> DEFINE Row(t) == [time |-> t, from |-> "provider", nth |-> 0]
           loaded == {Row(t) : t \in tvReq.provider}
           M == MergeVisibleBars(loaded)
<1>2. M = {CorpusBar(t) : t \in tvReq.provider}
  <2>1. \A t \in tvReq.provider : Row(t).time = t
    BY Zenon
  <2> DEFINE Over(b) == IF Shows(b.time) = {} THEN b
                        ELSE [time |-> b.time, from |-> "corpus", nth |-> CorpusChart(b.time)]
  <2>2. \A t \in tvReq.provider : Over(Row(t)) = CorpusBar(t)
    BY <2>1, Zenon DEF CorpusBar
  <2>3. M = {Over(b) : b \in loaded}
    BY Zenon DEF MergeVisibleBars
  <2> HIDE DEF Over, Row, M
  <2> QED BY <2>2, <2>3, Zenon
<1>3. bars' = {b \in M : b.time \notin tvReq.chart} \cup ChartRows
  BY Zenon DEF MergeTvVisibleBars
<1> HIDE DEF M, loaded, Row
<1>4. /\ M \subseteq BarType
      /\ \A b \in M : /\ b.time \in tvReq.provider /\ b = CorpusBar(b.time)
                      /\ b.from # "chart"
                      /\ b.from = "provider" => Shows(b.time) = {}
                      /\ b.from = "corpus" =>
                           \A i \in 1..(b.nth - 1) : b.time \notin tvReq.corpus[i]
  <2> SUFFICES ASSUME NEW b \in M
               PROVE  /\ b \in BarType
                      /\ b.time \in tvReq.provider /\ b = CorpusBar(b.time)
                      /\ b.from # "chart"
                      /\ b.from = "provider" => Shows(b.time) = {}
                      /\ b.from = "corpus" =>
                           \A i \in 1..(b.nth - 1) : b.time \notin tvReq.corpus[i]
    BY Zenon
  <2>1. PICK t \in tvReq.provider : b = CorpusBar(t)
    BY <1>2, Zenon
  <2>2. t \in TvTimes
    BY <1>1, Zenon
  <2>3. b.time = t
    BY <2>1, <2>2, CorpusBarFacts, Zenon
  <2> QED BY <2>1, <2>2, <2>3, CorpusBarFacts, Zenon
<1>5. \A t \in tvReq.provider : CorpusBar(t) \in M /\ CorpusBar(t).time = t
  BY <1>1, <1>2, CorpusBarFacts, Zenon
<1>6. /\ ChartRows \subseteq BarType
      /\ \A b \in ChartRows : b.time \in tvReq.chart /\ b.from = "chart"
      /\ \A t \in tvReq.chart : \E b \in ChartRows : b.time = t
      /\ \A b, c \in ChartRows : b.time = c.time => b = c
  BY ChartRowFacts, Zenon
<1>7. bars' \subseteq BarType
  BY <1>3, <1>4, <1>6, Zenon
<1>8. \A b \in bars' : (b \in M /\ b.time \notin tvReq.chart) \/ b \in ChartRows
  BY <1>3, Zenon
<1>9. \A b \in ChartRows : b.from # "provider" /\ b.from # "corpus"
  BY <1>6, Zenon
<1>10. \A b, c \in bars' : b.time = c.time => b = c
  <2> SUFFICES ASSUME NEW b \in bars', NEW c \in bars', b.time = c.time PROVE b = c
    BY Zenon
  <2>1. CASE b \in ChartRows
    <3>1. c \in ChartRows
      BY <1>6, <1>8, <2>1, Zenon
    <3> QED BY <1>6, <2>1, <3>1, Zenon
  <2>2. CASE b \in M /\ b.time \notin tvReq.chart
    <3>1. c \in M
      BY <1>6, <1>8, <2>2, Zenon
    <3>2. b = CorpusBar(b.time) /\ c = CorpusBar(c.time)
      BY <1>4, <2>2, <3>1, Zenon
    <3> QED BY <3>2, Zenon
  <2> QED BY <1>8, <2>1, <2>2, Zenon
<1>11. {b.time : b \in bars'} = tvReq.provider \cup tvReq.chart
  <2>1. \A b \in bars' : b.time \in tvReq.provider \cup tvReq.chart
    BY <1>4, <1>6, <1>8, Zenon
  <2>2. \A t \in tvReq.provider \cup tvReq.chart : \E b \in bars' : b.time = t
    <3> SUFFICES ASSUME NEW t \in tvReq.provider \cup tvReq.chart
                 PROVE  \E b \in bars' : b.time = t
      BY Zenon
    <3>1. CASE t \in tvReq.chart
      BY <1>3, <1>6, <3>1, Zenon
    <3>2. CASE t \notin tvReq.chart
      BY <1>3, <1>5, <3>2, Zenon
    <3> QED BY <3>1, <3>2, Zenon
  <2> DEFINE T == tvReq.provider \cup tvReq.chart
             B == bars'
  <2>3. (\A b \in B : b.time \in T) /\ (\A t \in T : \E b \in B : b.time = t)
    BY <2>1, <2>2, Zenon
  <2> HIDE DEF T, B
  <2>4. {b.time : b \in B} = T
    BY <2>3, TimesOf, Zenon
  <2> QED BY <2>4, Zenon DEF T, B
<1>12. \A b \in bars' :
         /\ b.from # "chart" => b.time \notin tvReq.chart
         /\ b.from = "provider" => Shows(b.time) = {}
         /\ b.from = "corpus" => \A i \in 1..(b.nth - 1) : b.time \notin tvReq.corpus[i]
  BY <1>4, <1>6, <1>8, <1>9, Zenon
<1> DEFINE times == {b.time : b \in bars'}
<1>13. times = (IF tvReq.authoritative THEN {} ELSE tvReq.provider)
         \cup (IF tvReq.providerOnly /\ ~tvReq.authoritative THEN {} ELSE tvReq.chart)
  <2> HIDE DEF times
  <2> QED BY <1>11, Zenon DEF times
<1>14. \A b \in bars' : Shows(b.time)' = Shows(b.time)
  BY Zenon DEF Shows
<1> QED BY <1>7, <1>10, <1>12, <1>13, <1>14, Zenon DEF Merged, Shows

-----------------------------------------------------------------------------
(* The alignment                                                           *)

(* A column that was used: the modulus is a multiple of its period, and    *)
(* the residue is its own.                                                 *)
Agrees(na, f) ==
    /\ IsPeriodic(na)
    /\ Dvd(Period(na), f.modulus)
    /\ Dvd(Period(na), f.residue - Residue(na))

FitInv ==
    /\ fit.modulus \in Pos /\ fit.residue \in 0..(fit.modulus - 1)
    /\ fit.column \in 1..(Len(tvReq.naColumns) + 1)
    /\ fit.used \subseteq DOMAIN tvReq.naColumns
    /\ \A i \in fit.used : Agrees(tvReq.naColumns[i], fit)

ShiftInv ==
    /\ shift.offset \in Int /\ shift.used \subseteq fit.used
    /\ tvStep # "done" => shift = NoShift
    /\ OffsetFitsChart

TvInv ==
    /\ tvStep \in {"load", "align", "columns", "done", "raised"}
    /\ BarsInv /\ FitInv /\ ShiftInv

LEMMA ColumnFacts ==
    ASSUME tvReq \in TvRequests, NEW i \in DOMAIN tvReq.naColumns
    PROVE  tvReq.naColumns[i] \in SUBSET Nat
<1> DEFINE columns == tvReq.naColumns
<1>1. columns \in Seq(SUBSET Nat)
  BY RequestFacts, Zenon
<1>2. i \in DOMAIN columns
  BY Zenon
<1> HIDE DEF columns
<1>3. columns[i] \in SUBSET Nat
  BY <1>1, <1>2
<1> QED BY <1>3, Zenon DEF columns

(* What a periodic column says of the first place of the chart.              *)
LEMMA PeriodicFacts ==
    ASSUME NEW na \in SUBSET Nat, IsPeriodic(na)
    PROVE  /\ Period(na) \in Pos /\ Residue(na) \in 0..(Period(na) - 1)
           /\ \A place \in na : Dvd(Period(na), place + Residue(na))
<1> DEFINE p == Period(na)
           first == Min(na)
           rest == Residue(na)
<1>1. p \in Pos /\ p \in Int
  <2>1. p \in 2..128
    BY Zenon DEF IsPeriodic
  <2> QED BY <2>1 DEF Pos
<1>2. na # {}
  <2> SUFFICES ASSUME na = {} PROVE FALSE
    BY Zenon
  <2>1. Cardinality({}) = 0
    BY FS_EmptySet, Zenon
  <2>2. Cardinality({}) >= 3
    BY Zenon DEF IsPeriodic
  <2> QED BY <2>1, <2>2
<1>3. first \in Nat /\ \A place \in na : Dvd(p, place - first)
  BY <1>2, PeriodicRows, Zenon
<1>4. rest = (-first) % p
  BY Zenon DEF Residue
<1> HIDE DEF p, first, rest
<1>5. rest \in 0..(p - 1) /\ (-first) \div p \in Int /\ -first = ((-first) \div p) * p + rest
  <2>1. -first \in Int
    BY <1>3
  <2> QED BY <1>1, <1>4, <2>1, DivMod, Zenon
<1>6. ASSUME NEW place \in na PROVE Dvd(p, place + rest)
  <2>1. PICK k \in Int : place - first = k * p
    BY <1>3, Zenon DEF Dvd
  <2> DEFINE q == (-first) \div p
  <2>2. q \in Int /\ -first = q * p + rest
    BY <1>5, Zenon
  <2> HIDE DEF q
  <2>3. (k - q) * p = k * p - q * p /\ k * p \in Int /\ q * p \in Int /\ k - q \in Int
    BY <1>1, <2>2, MulLess, MulInt
  <2>4. place \in Int /\ rest \in Int
    BY <1>5, <1>1
  <2>5. place + rest = (k - q) * p
    BY <1>3, <2>1, <2>2, <2>3, <2>4
  <2> QED BY <2>3, <2>5, Zenon DEF Dvd
<1> QED BY <1>1, <1>5, <1>6, Zenon DEF p, rest

(* A constraint that is taken leaves those before it in force.             *)
LEMMA StillAgrees ==
    ASSUME NEW na \in SUBSET Nat, NEW m \in Int, NEW c \in Int, NEW l \in Int, NEW residue \in Int,
           IsPeriodic(na), Dvd(Period(na), m), Dvd(Period(na), residue - Residue(na)),
           Dvd(m, l), Dvd(m, c - residue)
    PROVE  Dvd(Period(na), l) /\ Dvd(Period(na), c - Residue(na))
<1> DEFINE p == Period(na)
           rest == Residue(na)
<1>1. p \in Int /\ rest \in Int
  <2>1. p \in Pos /\ rest \in 0..(p - 1)
    BY PeriodicFacts, Zenon
  <2>2. p \in Int
    BY <2>1 DEF Pos
  <2> HIDE DEF p, rest
  <2> QED BY <2>1, <2>2
<1>2. Dvd(p, m) /\ Dvd(p, residue - rest)
  BY Zenon
<1> HIDE DEF p, rest
<1>3. PICK a \in Int : m = a * p
  BY <1>2, Zenon DEF Dvd
<1>4. PICK b \in Int : residue - rest = b * p
  BY <1>2, Zenon DEF Dvd
<1>5. PICK d \in Int : l = d * m
  BY Zenon DEF Dvd
<1>6. PICK e \in Int : c - residue = e * m
  BY Zenon DEF Dvd
<1>7. d * (a * p) = (d * a) * p /\ d * a \in Int
  BY <1>1
<1>8. Dvd(p, l)
  BY <1>3, <1>5, <1>7, Zenon DEF Dvd
<1>9. e * (a * p) = (e * a) * p /\ e * a \in Int /\ (e * a) * p \in Int
      /\ (e * a + b) * p = (e * a) * p + b * p /\ b * p \in Int /\ e * a + b \in Int
  BY <1>1
<1>10. c - residue = (e * a) * p
  BY <1>3, <1>6, <1>9, Zenon
<1>11. c - rest = (e * a + b) * p
  BY <1>1, <1>4, <1>9, <1>10
<1>12. Dvd(p, c - rest)
  BY <1>9, <1>11, Zenon DEF Dvd
<1> QED BY <1>8, <1>12, Zenon DEF p, rest

LEMMA TakeColumnStep ==
    ASSUME tvReq \in TvRequests, FitInv, TakeColumn
    PROVE  FitInv'
<1> DEFINE na == Column
           p == Period(na)
           rest == Residue(na)
           m == fit.modulus
           residue == fit.residue
           columns == tvReq.naColumns
<1>1. tvReq' = tvReq /\ fit.column <= Len(columns)
  BY Zenon DEF TakeColumn
<1>2. /\ m \in Pos /\ residue \in 0..(m - 1) /\ fit.column \in 1..(Len(columns) + 1)
      /\ fit.used \subseteq DOMAIN columns
      /\ \A i \in fit.used : Agrees(columns[i], fit)
  BY Zenon DEF FitInv
<1>3. columns \in Seq(SUBSET Nat)
  BY RequestFacts, Zenon
<1>4. na = columns[fit.column]
  BY Zenon DEF Column
<1>5. \A i \in DOMAIN columns : columns[i] \in SUBSET Nat
  BY ColumnFacts, Zenon
<1> DEFINE skip == \/ ~IsPeriodic(na) \/ (rest - residue) % Gcd(m, p) # 0
<1>6. fit' = IF skip THEN [fit EXCEPT !.column = @ + 1]
             ELSE [column |-> fit.column + 1, used |-> fit.used \cup {fit.column},
                   modulus |-> Lcm(m, p), residue |-> Min(Candidates(m, residue, p, rest))]
  BY Zenon DEF TakeColumn
<1> HIDE DEF columns, na
<1>7. fit.column \in DOMAIN columns /\ fit.column + 1 \in 1..(Len(columns) + 1)
      /\ na \in SUBSET Nat
  <2>1. fit.column \in 1..Len(columns) /\ Len(columns) \in Nat /\ DOMAIN columns = 1..Len(columns)
    BY <1>1, <1>2, <1>3
  <2>2. fit.column \in DOMAIN columns /\ fit.column + 1 \in 1..(Len(columns) + 1)
    BY <2>1
  <2> QED BY <1>4, <1>5, <2>2, Zenon
<1> HIDE DEF p, rest
<1>8. CASE skip
  <2>1. fit' = [fit EXCEPT !.column = @ + 1]
    BY <1>6, <1>8, Zenon
  <2>2. /\ fit'.modulus = fit.modulus /\ fit'.residue = fit.residue /\ fit'.used = fit.used
        /\ fit'.column = fit.column + 1
    BY <2>1
  <2>3. \A i \in fit'.used : Agrees(columns[i], fit')
    BY <1>2, <2>2, Zenon DEF Agrees
  <2>4. fit'.column \in 1..(Len(columns) + 1)
    BY <1>7, <2>2, Zenon
  <2> QED BY <1>1, <1>2, <2>2, <2>3, <2>4, Zenon DEF FitInv, columns
<1>9. CASE ~skip
  <2> DEFINE C == Candidates(m, residue, p, rest)
             c == Min(C)
             l == Lcm(m, p)
  <2>1. IsPeriodic(na) /\ (rest - residue) % Gcd(m, p) = 0
    BY <1>9, Zenon
  <2>2. p \in Pos /\ rest \in 0..(p - 1)
    BY <1>7, <2>1, PeriodicFacts, Zenon DEF p, rest
  <2> HIDE DEF m, residue
  <2>3. C # {}
    BY <1>2, <2>1, <2>2, CandidatesExist, Zenon
  <2>4. l \in Pos /\ Dvd(m, l) /\ Dvd(p, l)
    BY <1>2, <2>2, LcmFacts, Zenon
  <2>5. C = {x \in residue..(l - 1) : (x - residue) % m = 0 /\ x % p = rest}
    BY Zenon DEF Candidates
  <2>6. fit' = [column |-> fit.column + 1, used |-> fit.used \cup {fit.column},
                modulus |-> l, residue |-> c]
    BY <1>6, <1>9, Zenon
  <2> HIDE DEF C, l
  <2>7. residue \in Nat /\ m \in Int /\ p \in Int /\ l \in Int
    BY <1>2, <2>2, <2>4 DEF Pos
  <2>8. c \in C
    <3>1. C \in SUBSET Nat
      BY <2>5, <2>7
    <3>2. PICK n \in C : \A x \in C : n <= x
      BY <2>3, <3>1, LeastNat, Zenon
    <3> QED BY <3>2, Zenon DEF Min
  <2> HIDE DEF c
  <2>9. c \in residue..(l - 1) /\ (c - residue) % m = 0 /\ c % p = rest
    BY <2>5, <2>8, Zenon
  <2>10. c \in 0..(l - 1) /\ c \in Int
    BY <2>7, <2>9
  <2>11. Dvd(m, c - residue)
    <3>1. c - residue \in Int
      BY <2>7, <2>10
    <3> QED BY <1>2, <2>9, <3>1, ModZero, Zenon
  <2>12. Dvd(p, c - rest)
    <3>1. c \div p \in Int /\ c = (c \div p) * p + (c % p) /\ (c \div p) * p \in Int
      BY <2>2, <2>7, <2>10, DivMod, MulInt, Zenon
    <3>2. rest \in Int
      BY <2>2, <2>7
    <3>3. c - rest = (c \div p) * p
      BY <2>9, <2>10, <3>1, <3>2
    <3> QED BY <3>1, <3>3, Zenon DEF Dvd
  <2>13. /\ fit'.modulus = l /\ fit'.residue = c /\ fit'.column = fit.column + 1
         /\ fit'.used = fit.used \cup {fit.column}
    BY <2>6, Zenon
  <2>14. Agrees(na, fit')
    BY <2>1, <2>4, <2>12, <2>13, Zenon DEF Agrees, p, rest
  <2>15. \A i \in fit.used : Agrees(columns[i], fit')
    <3> SUFFICES ASSUME NEW i \in fit.used PROVE Agrees(columns[i], fit')
      BY Zenon
    <3> DEFINE other == columns[i]
    <3>1. other \in SUBSET Nat /\ Agrees(other, fit)
      BY <1>2, <1>5, Zenon
    <3> HIDE DEF other
    <3>2. IsPeriodic(other) /\ Dvd(Period(other), m) /\ Dvd(Period(other), residue - Residue(other))
      BY <3>1, Zenon DEF Agrees, m, residue
    <3>3. residue \in Int
      BY <2>7
    <3>4. Dvd(Period(other), l) /\ Dvd(Period(other), c - Residue(other))
      BY <2>4, <2>7, <2>10, <2>11, <3>1, <3>2, <3>3, StillAgrees, Zenon
    <3>5. Agrees(other, fit')
      BY <2>13, <3>2, <3>4, Zenon DEF Agrees
    <3> QED BY <3>5, Zenon DEF other
  <2>16. \A i \in fit'.used : Agrees(columns[i], fit')
    BY <1>4, <2>13, <2>14, <2>15, Zenon
  <2>17. fit'.used \subseteq DOMAIN columns /\ fit'.column \in 1..(Len(columns) + 1)
    BY <1>2, <1>7, <2>13, Zenon
  <2> QED BY <1>1, <2>4, <2>10, <2>13, <2>16, <2>17, Zenon DEF FitInv, columns
<1> QED BY <1>8, <1>9, Zenon

(* With one bar per time the bars are finitely many, and the index of the  *)
(* first bar shown is a number.                                            *)
LEMMA FirstVisibleType ==
    ASSUME tvReq \in TvRequests, bars \subseteq BarType, Merged
    PROVE  FirstVisible \in Int
<1> DEFINE T == {b.time : b \in bars}
           f == [t \in T |-> CHOOSE b \in bars : b.time = t]
           B == {f[t] : t \in T}
<1>1. T \subseteq TvTimes
  BY Zenon DEF BarType
<1>2. IsFiniteSet(T)
  BY <1>1, CorpusAssumption, FS_Subset, Zenon
<1>3. \A b \in bars : b = f[b.time] /\ b.time \in T
  <2> SUFFICES ASSUME NEW b \in bars PROVE b = f[b.time] /\ b.time \in T
    BY Zenon
  <2>1. b.time \in T
    BY Zenon
  <2>2. f[b.time] = CHOOSE c \in bars : c.time = b.time
    BY <2>1, Zenon
  <2>3. f[b.time] \in bars /\ f[b.time].time = b.time
    BY <2>2, Zenon
  <2>4. \A c \in bars : c.time = b.time => c = b
    BY Zenon DEF Merged
  <2> HIDE DEF f, T
  <2> QED BY <2>1, <2>3, <2>4, Zenon
<1> HIDE DEF T
<1>4. f = [t \in T |-> f[t]]
  OBVIOUS
<1> HIDE DEF f
<1>5. bars \subseteq B
  BY <1>3, Zenon
<1>6. IsFiniteSet(B)
  BY <1>2, <1>4, FiniteImage, Zenon
<1> HIDE DEF B
<1> DEFINE E == {b \in bars : b.time < Min(tvReq.chart)}
<1>7. E \in SUBSET B
  BY <1>5, Zenon
<1>8. FirstVisible = IF \E b \in bars : b.time >= Min(tvReq.chart) THEN Cardinality(E) ELSE -1
  BY Zenon DEF FirstVisible
<1> HIDE DEF E
<1>9. IsFiniteSet(E)
  BY <1>6, <1>7, FS_Subset, Zenon
<1>10. Cardinality(E) \in Nat
  BY <1>9, FS_CardinalityType, Zenon
<1> QED BY <1>8, <1>10

(* The offset turns the residue of the first place into a bar index: every   *)
(* place of a column that was used lands on a multiple of its period.        *)
LEMMA OffsetFits ==
    ASSUME NEW na \in SUBSET Nat, Agrees(na, fit), fit.modulus \in Pos, fit.residue \in Int,
           NEW first \in Int, NEW place \in na
    PROVE  (first + place + ((fit.residue - (first % fit.modulus)) % fit.modulus)) % Period(na) = 0
<1> DEFINE p == Period(na)
           rest == Residue(na)
           m == fit.modulus
           residue == fit.residue
           offset == (residue - (first % m)) % m
<1>1. p \in Pos /\ rest \in 0..(p - 1) /\ Dvd(p, place + rest)
  BY PeriodicFacts, Zenon DEF Agrees
<1>2. Dvd(p, m) /\ Dvd(p, residue - rest) /\ m \in Pos /\ residue \in Int
  BY Zenon DEF Agrees
<1> HIDE DEF p, rest, m, residue
<1>3. p \in Int /\ rest \in Int /\ m \in Int /\ place \in Int
  BY <1>1, <1>2 DEF Pos
<1>4. first % m \in Int /\ first \div m \in Int /\ first = (first \div m) * m + (first % m)
  <2>1. first % m \in 0..(m - 1) /\ first \div m \in Int /\ first = (first \div m) * m + (first % m)
    BY <1>2, DivMod, Zenon
  <2> QED BY <1>3, <2>1
<1> DEFINE a == residue - (first % m)
           q == first \div m
           z == a \div m
<1>5. a \in Int
  BY <1>2, <1>4
<1>6. a % m \in 0..(m - 1) /\ z \in Int /\ a = z * m + (a % m)
  <2> HIDE DEF a
  <2> QED BY <1>2, <1>5, DivMod, Zenon
<1>7. offset = a % m /\ a = residue - (first % m) /\ q \in Int /\ first = q * m + (first % m)
  BY <1>4, Zenon
<1> HIDE DEF a, q, z, offset
<1>8. offset \in Int /\ (q - z) * m = q * m - z * m /\ q * m \in Int /\ z * m \in Int /\ q - z \in Int
  BY <1>3, <1>6, <1>7, MulLess, MulInt
<1> DEFINE x == place + rest
           y == residue - rest
           w == (q - z) * m
<1>9. Dvd(p, x) /\ Dvd(p, y) /\ x \in Int /\ y \in Int
  BY <1>1, <1>2, <1>3
<1>10. Dvd(p, w) /\ w \in Int
  <2>1. Dvd(p, w)
    BY <1>2, <1>3, <1>8, DvdMultiple, Zenon
  <2> QED BY <1>3, <1>8, <2>1, MulInt, Zenon
<1>11. first + place + offset = (x + y) + w
  <2> DEFINE A == q * m
             Z == z * m
             h == first % m
             o == a % m
  <2>1. /\ A \in Int /\ Z \in Int /\ h \in Int /\ o \in Int /\ w = A - Z
        /\ first = A + h /\ a = Z + o /\ a = residue - h /\ offset = o
    BY <1>4, <1>6, <1>7, <1>8, Zenon
  <2> HIDE DEF A, Z, h, o, w
  <2> QED BY <1>2, <1>3, <1>5, <2>1
<1> HIDE DEF x, y, w
<1>12. Dvd(p, x + y) /\ x + y \in Int
  BY <1>3, <1>9, DvdSum
<1>13. Dvd(p, (x + y) + w) /\ (x + y) + w \in Int
  <2> DEFINE u == x + y
  <2>1. Dvd(p, u) /\ u \in Int
    BY <1>12, Zenon
  <2> HIDE DEF u
  <2>2. Dvd(p, u + w) /\ u + w \in Int
    BY <1>3, <1>10, <2>1, DvdSum
  <2> QED BY <2>2, Zenon DEF u
<1>14. ((x + y) + w) % p = 0
  BY <1>1, <1>13, ModZero, Zenon
<1>15. (first + place + offset) % p = 0
  BY <1>11, <1>14, Zenon
<1> QED BY <1>15, Zenon DEF offset, p, m, residue

LEMMA UseColumnsStep ==
    ASSUME tvReq \in TvRequests, bars \subseteq BarType, Merged, FitInv, ShiftInv, UseColumns
    PROVE  ShiftInv'
<1>1. /\ tvStep' = "done" /\ tvReq' = tvReq /\ bars' = bars /\ fit' = fit
      /\ shift' = IF Cardinality(fit.used) < 2 \/ fit.modulus <= 1 THEN NoShift
                  ELSE [offset |-> (fit.residue - (FirstVisible % fit.modulus)) % fit.modulus,
                        used |-> fit.used]
  BY Zenon DEF UseColumns
<1>2. FirstVisible' = FirstVisible
  BY <1>1, Zenon DEF FirstVisible
<1>3. CASE shift' = NoShift
  <2>1. shift'.offset = 0 /\ shift'.used = {}
    BY <1>3, Zenon DEF NoShift
  <2>2. OffsetFitsChart'
    BY <2>1, Zenon DEF OffsetFitsChart
  <2> QED BY <1>1, <2>1, <2>2 DEF ShiftInv
<1>4. CASE shift' = [offset |-> (fit.residue - (FirstVisible % fit.modulus)) % fit.modulus,
                     used |-> fit.used]
  <2> DEFINE first == FirstVisible
             offset == (fit.residue - (first % fit.modulus)) % fit.modulus
  <2>1. shift'.offset = offset /\ shift'.used = fit.used
    BY <1>4, Zenon
  <2>2. first \in Int
    BY FirstVisibleType, Zenon
  <2>3. fit.modulus \in Pos /\ fit.residue \in Int
    BY DEF FitInv, Pos
  <2>4. \A i \in fit.used : \A place \in tvReq.naColumns[i] :
          (first + place + offset) % Period(tvReq.naColumns[i]) = 0
    <3> SUFFICES ASSUME NEW i \in fit.used, NEW place \in tvReq.naColumns[i]
                 PROVE  (first + place + offset) % Period(tvReq.naColumns[i]) = 0
      BY Zenon
    <3>1. tvReq.naColumns[i] \in SUBSET Nat /\ Agrees(tvReq.naColumns[i], fit)
      BY ColumnFacts, Zenon DEF FitInv
    <3> HIDE DEF first
    <3> QED BY <2>2, <2>3, <3>1, OffsetFits, Zenon
  <2>5. OffsetFitsChart'
    BY <1>1, <1>2, <2>1, <2>4, Zenon DEF OffsetFitsChart
  <2>6. offset \in Int
    <3>1. first % fit.modulus \in Int
      <4> HIDE DEF first
      <4>1. first % fit.modulus \in 0..(fit.modulus - 1)
        BY <2>2, <2>3, DivMod, Zenon
      <4> QED BY <2>3, <4>1 DEF Pos
    <3> DEFINE d == fit.residue - (first % fit.modulus)
    <3>2. d \in Int
      BY <2>3, <3>1
    <3> HIDE DEF d
    <3>3. d % fit.modulus \in 0..(fit.modulus - 1)
      BY <2>3, <3>2, DivMod, Zenon
    <3>4. d % fit.modulus \in Int
      BY <2>3, <3>3 DEF Pos
    <3> QED BY <3>4, Zenon DEF d
  <2> HIDE DEF offset
  <2> QED BY <1>1, <2>1, <2>5, <2>6, Zenon DEF ShiftInv
<1> QED BY <1>1, <1>3, <1>4, Zenon

LEMMA InferOffsetStep ==
    ASSUME tvReq \in TvRequests, bars \subseteq BarType, Merged, FitInv, ShiftInv, InferOffset
    PROVE  ShiftInv'
<1> DEFINE first == FirstVisible
           offsets == {tvReq.barColumns[i] - first : i \in DOMAIN tvReq.barColumns}
<1>1. /\ tvReq' = tvReq /\ bars' = bars /\ fit' = fit
      /\ tvStep' = IF first # -1 /\ offsets = {} THEN "columns" ELSE "done"
      /\ shift' = IF first # -1 /\ Cardinality(offsets) = 1
                  THEN [offset |-> CHOOSE o \in offsets : TRUE, used |-> {}] ELSE NoShift
  BY Zenon DEF InferOffset
<1>2. offsets \subseteq Int
  <2>1. tvReq.barColumns \in Seq(Nat)
    BY RequestFacts, Zenon
  <2>2. first \in Int
    BY FirstVisibleType, Zenon
  <2> DEFINE columns == tvReq.barColumns
  <2>3. \A i \in DOMAIN columns : columns[i] \in Int
    <3> HIDE DEF columns
    <3>1. columns \in Seq(Nat)
      BY <2>1, Zenon DEF columns
    <3> QED BY <3>1
  <2> HIDE DEF first, columns
  <2>4. \A i \in DOMAIN columns : columns[i] - first \in Int
    BY <2>2, <2>3
  <2> QED BY <2>4, Zenon DEF columns
<1> HIDE DEF first, offsets
<1>3. offsets = {} => Cardinality(offsets) = 0
  BY FS_EmptySet, Zenon
<1>4. Cardinality(offsets) = 1 => (CHOOSE o \in offsets : TRUE) \in Int
  <2> SUFFICES ASSUME Cardinality(offsets) = 1 PROVE (CHOOSE o \in offsets : TRUE) \in Int
    BY Zenon
  <2>1. offsets # {}
    BY <1>3
  <2>2. (CHOOSE o \in offsets : TRUE) \in offsets
    BY <2>1, Zenon
  <2> QED BY <1>2, <2>2, Zenon
<1>5. CASE shift' = NoShift
  <2>1. shift'.offset = 0 /\ shift'.used = {}
    BY <1>5, Zenon DEF NoShift
  <2>2. OffsetFitsChart'
    BY <2>1, Zenon DEF OffsetFitsChart
  <2>3. shift'.offset \in Int /\ shift'.used \subseteq fit'.used
    BY <2>1
  <2> QED BY <1>5, <2>2, <2>3, Zenon DEF ShiftInv
<1>6. CASE Cardinality(offsets) = 1 /\ first # -1
  <2> DEFINE o == CHOOSE x \in offsets : TRUE
  <2>1. shift' = [offset |-> o, used |-> {}] /\ o \in Int
    BY <1>1, <1>4, <1>6, Zenon
  <2> HIDE DEF o
  <2>2. shift'.offset \in Int /\ shift'.used = {}
    BY <2>1, Zenon
  <2>3. OffsetFitsChart'
    BY <2>2, Zenon DEF OffsetFitsChart
  <2>4. offsets # {}
    BY <1>3, <1>6
  <2>5. tvStep' = "done"
    BY <1>1, <2>4, Zenon
  <2> QED BY <1>1, <2>2, <2>3, <2>5, Zenon DEF ShiftInv
<1> QED BY <1>1, <1>5, <1>6, Zenon

LEMMA TvQuiet ==
    ASSUME FitInv, ShiftInv, tvStep # "done", tvStep' # "done", UNCHANGED <<tvReq, fit, shift>>
    PROVE  FitInv' /\ ShiftInv'
<1>1. FitInv'
  BY Zenon DEF FitInv, Agrees
<1>2. OffsetFitsChart'
  BY Zenon DEF OffsetFitsChart
<1> QED BY <1>1, <1>2, Zenon DEF ShiftInv

LEMMA TvStepInv == TvInv /\ [TvNext]_tvVars => TvInv'
<1> SUFFICES ASSUME TvInv, [TvNext]_tvVars PROVE TvInv'
  BY Zenon
<1> DEFINE Steps == {"load", "align", "columns", "done", "raised"}
<1>1. tvReq \in TvRequests /\ bars \subseteq BarType
      /\ (tvStep \in {"align", "columns", "done"} => Merged) /\ FitInv /\ ShiftInv /\ tvStep \in Steps
  BY Zenon DEF TvInv, BarsInv
<1>2. tvReq' = tvReq /\ bars' = bars => (Merged' <=> Merged)
  BY Zenon DEF Merged, Shows
<1>3. CASE tvStep = "load" /\ TvRaise
  <2>1. tvStep' = "raised" /\ UNCHANGED <<tvReq, bars, fit, shift>>
    BY <1>3, Zenon DEF TvRaise
  <2>2. FitInv' /\ ShiftInv'
    BY <1>1, <1>3, <2>1, TvQuiet, Zenon
  <2> QED BY <1>1, <2>1, <2>2, Zenon DEF TvInv, BarsInv
<1>4. CASE AuthoritativeBars /\ ~TvRaise
  <2>1. /\ tvStep = "load" /\ tvReq.authoritative /\ tvReq.kind # "strategy"
        /\ bars' = MergeTvVisibleBars({}) /\ tvStep' = "align" /\ UNCHANGED <<tvReq, fit, shift>>
    BY <1>4, Zenon DEF AuthoritativeBars
  <2>2. Merged' /\ bars' \subseteq BarType
    BY <1>1, <2>1, AuthoritativeMerged, Zenon
  <2>3. FitInv' /\ ShiftInv'
    BY <1>1, <2>1, TvQuiet, Zenon
  <2> QED BY <1>1, <2>1, <2>2, <2>3, Zenon DEF TvInv, BarsInv
<1>5. CASE ProviderBars /\ ~TvRaise
  <2> DEFINE loaded == {[time |-> t, from |-> "provider", nth |-> 0] : t \in tvReq.provider}
  <2>1. /\ tvStep = "load" /\ ~tvReq.authoritative
        /\ tvReq.providerOnly \/ tvReq.kind # "strategy"
        /\ bars' = IF tvReq.providerOnly THEN loaded ELSE MergeTvVisibleBars(MergeVisibleBars(loaded))
        /\ tvStep' = "align" /\ UNCHANGED <<tvReq, fit, shift>>
    BY <1>5, Zenon DEF ProviderBars
  <2>2. Merged' /\ bars' \subseteq BarType
    <3>1. CASE tvReq.providerOnly
      <4>1. bars' = loaded
        BY <2>1, <3>1, Zenon
      <4> QED BY <1>1, <2>1, <3>1, <4>1, ProviderOnlyMerged, Zenon
    <3>2. CASE ~tvReq.providerOnly
      <4>1. bars' = MergeTvVisibleBars(MergeVisibleBars(loaded)) /\ tvReq.kind # "strategy"
        BY <2>1, <3>2, Zenon
      <4> QED BY <1>1, <2>1, <3>2, <4>1, ProviderMerged, Zenon
    <3> QED BY <3>1, <3>2, Zenon
  <2>3. FitInv' /\ ShiftInv'
    BY <1>1, <2>1, TvQuiet, Zenon
  <2> QED BY <1>1, <2>1, <2>2, <2>3, Zenon DEF TvInv, BarsInv
<1>6. CASE InferOffset
  <2>1. tvStep = "align" /\ UNCHANGED <<tvReq, bars, fit>> /\ tvStep' \in {"columns", "done"}
    BY <1>6, Zenon DEF InferOffset
  <2>2. Merged /\ Merged'
    BY <1>1, <1>2, <2>1, Zenon
  <2>3. ShiftInv'
    BY <1>1, <1>6, <2>2, InferOffsetStep, Zenon
  <2>4. FitInv'
    BY <1>1, <2>1, Zenon DEF FitInv, Agrees
  <2> QED BY <1>1, <2>1, <2>2, <2>3, <2>4, Zenon DEF TvInv, BarsInv
<1>7. CASE TakeColumn
  <2>1. tvStep = "columns" /\ UNCHANGED <<tvReq, tvStep, bars, shift>>
    BY <1>7, Zenon DEF TakeColumn
  <2>2. FitInv'
    BY <1>1, <1>7, TakeColumnStep, Zenon
  <2>3. shift' = NoShift /\ tvStep' # "done"
    BY <1>1, <2>1, Zenon DEF ShiftInv
  <2>4. shift'.offset = 0 /\ shift'.used = {}
    BY <2>3, Zenon DEF NoShift
  <2>5. OffsetFitsChart'
    BY <2>3, Zenon DEF OffsetFitsChart
  <2>6. ShiftInv'
    BY <2>3, <2>4, <2>5 DEF ShiftInv
  <2>7. Merged'
    BY <1>1, <1>2, <2>1, Zenon
  <2> QED BY <1>1, <2>1, <2>2, <2>6, <2>7, Zenon DEF TvInv, BarsInv
<1>8. CASE UseColumns
  <2>1. tvStep = "columns" /\ tvStep' = "done" /\ UNCHANGED <<tvReq, bars, fit>>
    BY <1>8, Zenon DEF UseColumns
  <2>2. Merged /\ Merged'
    BY <1>1, <1>2, <2>1, Zenon
  <2>3. ShiftInv'
    BY <1>1, <1>8, <2>2, UseColumnsStep, Zenon
  <2>4. FitInv'
    BY <1>1, <2>1, Zenon DEF FitInv, Agrees
  <2> QED BY <1>1, <2>1, <2>2, <2>3, <2>4, Zenon DEF TvInv, BarsInv
<1>9. CASE UNCHANGED tvVars
  <2>1. UNCHANGED <<tvReq, tvStep, bars, fit, shift>>
    BY <1>9, Zenon DEF tvVars
  <2>2. FitInv'
    BY <1>1, <2>1, Zenon DEF FitInv, Agrees
  <2>3. FirstVisible' = FirstVisible
    BY <2>1, Zenon DEF FirstVisible
  <2>4. OffsetFitsChart' <=> OffsetFitsChart
    BY <2>1, <2>3, Zenon DEF OffsetFitsChart
  <2>5. ShiftInv'
    BY <1>1, <2>1, <2>4, Zenon DEF ShiftInv
  <2> QED BY <1>1, <1>2, <2>1, <2>2, <2>5, Zenon DEF TvInv, BarsInv
<1>10. CASE TvServed
  BY <1>9, <1>10, Zenon DEF TvServed
<1>11. AuthoritativeBars \/ ProviderBars => tvStep = "load"
  BY Zenon DEF AuthoritativeBars, ProviderBars
<1> QED BY <1>3, <1>4, <1>5, <1>6, <1>7, <1>8, <1>9, <1>10, <1>11, Zenon DEF TvNext

(* The invariant of a corpus request: once loaded the bars are merged, and *)
(* the constraints taken so far hold modulo their least common multiple    *)
(* (_infer_tv_bar_index_offset_from_periodic_na).                          *)
THEOREM TvInductive == TvSpec => []TvInv
<1>1. TvInit => TvInv
  <2> SUFFICES ASSUME TvInit PROVE TvInv
    BY Zenon
  <2>1. tvReq \in TvRequests /\ tvStep = "load" /\ bars = {} /\ fit = NoFit /\ shift = NoShift
    BY Zenon DEF TvInit
  <2>2. fit.column = 1 /\ fit.modulus = 1 /\ fit.residue = 0 /\ fit.used = {}
    BY <2>1, Zenon DEF NoFit
  <2>3. shift.offset = 0 /\ shift.used = {}
    BY <2>1, Zenon DEF NoShift
  <2>4. Len(tvReq.naColumns) \in Nat
    BY <2>1, RequestFacts
  <2>5. FitInv
    BY <2>2, <2>4 DEF FitInv, Pos
  <2>6. ShiftInv
    BY <2>1, <2>2, <2>3 DEF ShiftInv, OffsetFitsChart
  <2> QED BY <2>1, <2>5, <2>6, Zenon DEF TvInv, BarsInv
<1>2. TvInv /\ [TvNext]_tvVars => TvInv'
  BY TvStepInv, Zenon
<1> QED BY <1>1, <1>2, PTL DEF TvSpec

(* The bars a corpus run calculates on are merged as they should be, and   *)
(* the offset read off any number of na columns of any periods reproduces  *)
(* the chart's bar_index.                                                  *)
THEOREM TvCorpusFitsChart == TvSpec => []CorpusFitsChart
<1>1. TvInv => CorpusFitsChart
  <2> SUFFICES ASSUME TvInv PROVE CorpusFitsChart
    BY Zenon
  <2>1. TvTypeOK
    BY Zenon DEF TvInv, BarsInv, FitInv, ShiftInv, TvTypeOK, Pos
  <2>2. CalculationBarsAreMerged
    BY Zenon DEF TvInv, BarsInv, Merged, CalculationBarsAreMerged
  <2>3. OffsetFitsChart
    BY Zenon DEF TvInv, ShiftInv
  <2> QED BY <2>1, <2>2, <2>3, Zenon DEF CorpusFitsChart
<1> QED BY <1>1, TvInductive, PTL
=============================================================================
