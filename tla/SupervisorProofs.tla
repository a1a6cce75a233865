-------------------------- MODULE SupervisorProofs --------------------------
(***************************************************************************)
(* What holds for any strategies, statuses, modes and commands: the        *)
(* registry's operations keep the worker circuit a latch and archived      *)
(* strategies disabled, because every operation writes rows that are       *)
(* lawful for the circuit; the supervisor has one worker at a time and     *)
(* fails closed; a command that runs a strategy writes the status that     *)
(* goes with the outcome it reports; and the Telegram bot takes up each    *)
(* update once and answers the buttons it shows.                           *)
(***************************************************************************)
EXTENDS WorkerSupervisor, StrategyCli, TelegramService, TLAPS

(* What the circuit c allows a row to be.                                  *)
Lawful(row, c) ==
    /\ row \in Row
    /\ row.enabled => ~row.archived /\ ~c

RegistryInv ==
    /\ DOMAIN rows \subseteq Strategies
    /\ rows = [s \in DOMAIN rows |-> rows[s]]
    /\ circuit \in BOOLEAN
    /\ \A s \in DOMAIN rows : Lawful(rows[s], circuit)

(* RegistryInv is the conjunction of the checked properties.                       *)
LEMMA RegistryInvMeans == RegistryInv => RegistryTypeOK /\ EnabledIsAllowed
<1> SUFFICES ASSUME RegistryInv PROVE RegistryTypeOK /\ EnabledIsAllowed
  OBVIOUS
<1>1. rows \in [DOMAIN rows -> Row]
  BY DEF RegistryInv, Lawful
<1>2. EnabledIsAllowed
  BY DEF RegistryInv, Lawful, EnabledIsAllowed
<1> QED
  BY <1>1, <1>2 DEF RegistryTypeOK, RegistryInv

(* Writing one lawful row.                                                 *)
LEMMA WriteKeeps ==
    ASSUME RegistryInv, NEW s \in DOMAIN rows, NEW row, Lawful(row, circuit),
           Write(s, row), UNCHANGED circuit
    PROVE  RegistryInv'
<1>1. /\ DOMAIN rows' = DOMAIN rows
      /\ rows' = [x \in DOMAIN rows' |-> rows'[x]]
      /\ \A x \in DOMAIN rows : rows'[x] = IF x = s THEN row ELSE rows[x]
  BY Zenon DEF Write, RegistryInv
<1>2. \A x \in DOMAIN rows' : Lawful(rows'[x], circuit')
  BY <1>1 DEF RegistryInv
<1> QED
  BY <1>1, <1>2 DEF RegistryInv

(* A paused row is lawful for any circuit.                                 *)
LEMMA PausedLawful ==
    ASSUME NEW row, NEW c \in BOOLEAN, NEW d \in BOOLEAN, Lawful(row, c)
    PROVE  Lawful(Paused(row), d)
<1>1. CASE row.enabled
  <2>1. Paused(row) = [row EXCEPT !.enabled = FALSE, !.status = "paused"]
    BY <1>1 DEF Paused
  <2>2. "paused" \in Statuses
    BY StatusAssumption
  <2> QED BY <2>1, <2>2, Zenon DEF Lawful, Row
<1>2. CASE ~row.enabled
  BY <1>2 DEF Paused, Lawful, Row
<1> QED BY <1>1, <1>2

(* PauseAllEnabled and TripWorkerCircuit pause every enabled row.          *)
LEMMA PauseKeeps ==
    ASSUME RegistryInv, rows' = [s \in DOMAIN rows |-> Paused(rows[s])], circuit' \in BOOLEAN
    PROVE  RegistryInv'
<1>1. ASSUME NEW s \in DOMAIN rows PROVE Lawful(Paused(rows[s]), circuit')
  BY PausedLawful DEF RegistryInv
<1> QED
  BY <1>1 DEF RegistryInv

(* Every operation keeps the invariant.                                    *)
LEMMA RegistryStep == RegistryInv /\ [RegistryNext]_registryVars => RegistryInv'
<1> SUFFICES ASSUME RegistryInv, [RegistryNext]_registryVars PROVE RegistryInv'
  OBVIOUS
<1>c. circuit \in BOOLEAN
  BY DEF RegistryInv
<1>r. ASSUME NEW s \in DOMAIN rows
      PROVE  /\ rows[s] \in Row
             /\ rows[s].enabled \in BOOLEAN /\ rows[s].archived \in BOOLEAN
             /\ rows[s].status \in Statuses /\ rows[s].mode \in Modes
             /\ rows[s].enabled => ~rows[s].archived /\ ~circuit
  BY DEF RegistryInv, Lawful, Row
<1>1. ASSUME NEW s \in Strategies, NEW m \in Modes, CreateStrategy(s, m) PROVE RegistryInv'
  <2> DEFINE row == [enabled |-> FALSE, archived |-> FALSE, status |-> "pending", mode |-> m]
  <2>1. Lawful(row, circuit)
    BY StatusAssumption DEF Lawful, Row
  <2>2. rows' = [x \in DOMAIN rows \cup {s} |-> IF x = s THEN row ELSE rows[x]]
        /\ circuit' = circuit
    BY <1>1 DEF CreateStrategy
  <2> HIDE DEF row
  <2> QED BY <2>1, <2>2 DEF RegistryInv
<1>2. ASSUME NEW s \in Strategies, NEW e \in BOOLEAN, SetEnabled(s, e) PROVE RegistryInv'
  <2>1. s \in DOMAIN rows /\ (e => ~rows[s].archived /\ ~circuit)
    BY <1>2 DEF SetEnabled, MayEnable
  <2>2. Lawful([rows[s] EXCEPT !.enabled = e], circuit)
    BY <2>1, <1>r DEF Lawful, Row
  <2> QED BY <1>2, <2>1, <2>2, WriteKeeps DEF SetEnabled
<1>3. ASSUME NEW s \in Strategies, NEW e \in BOOLEAN, NEW st \in Statuses, NEW m \in Modes,
             TransitionStrategy(s, e, st, m)
      PROVE RegistryInv'
  <2>1. s \in DOMAIN rows /\ (e => ~rows[s].archived /\ ~circuit)
    BY <1>3 DEF TransitionStrategy, MayEnable
  <2>2. Lawful([rows[s] EXCEPT !.enabled = e, !.status = st, !.mode = m], circuit)
    BY <2>1, <1>r, Zenon DEF Lawful, Row
  <2> QED BY <1>3, <2>1, <2>2, WriteKeeps DEF TransitionStrategy
<1>4. ASSUME NEW s \in Strategies, NEW st \in Statuses, NEW m \in Modes, ActivateStrategy(s, st, m)
      PROVE RegistryInv'
  <2>1. s \in DOMAIN rows /\ ~rows[s].archived /\ ~circuit
    BY <1>4 DEF ActivateStrategy, MayEnable
  <2>2. Lawful([rows[s] EXCEPT !.enabled = TRUE, !.status = st, !.mode = m], circuit)
    BY <2>1, <1>r, Zenon DEF Lawful, Row
  <2> QED BY <1>4, <2>1, <2>2, WriteKeeps DEF ActivateStrategy
<1>5. ASSUME NEW s \in Strategies, NEW e \in Given(BOOLEAN), NEW a \in Given(BOOLEAN),
             NEW st \in Given(Statuses), PatchStrategy(s, e, a, st)
      PROVE RegistryInv'
  <2> DEFINE archived == IF a = {} THEN rows[s].archived ELSE TRUE \in a
             enabled == TRUE \notin a /\ (IF e = {} THEN rows[s].enabled ELSE TRUE \in e)
             status == IF st = {} THEN rows[s].status ELSE CHOOSE x \in st : TRUE
             new == IF TRUE \in a THEN PausedIfActive(status) ELSE status
  <2>1. /\ s \in DOMAIN rows
        /\ ~(TRUE \in e /\ archived) /\ ~(enabled /\ circuit)
        /\ Write(s, [rows[s] EXCEPT !.enabled = enabled, !.archived = archived, !.status = new])
        /\ UNCHANGED circuit
    BY <1>5, Zenon DEF PatchStrategy
  <2>2. archived \in BOOLEAN /\ enabled \in BOOLEAN
    <3>1. rows[s].archived \in BOOLEAN /\ rows[s].enabled \in BOOLEAN
      BY <2>1, <1>r
    <3>2. (TRUE \in a) \in BOOLEAN /\ (TRUE \in e) \in BOOLEAN
      OBVIOUS
    <3>3. archived \in BOOLEAN
      BY <3>1, <3>2, Zenon
    <3>4. enabled \in BOOLEAN
      BY Zenon
    <3> QED BY <3>3, <3>4, Zenon
  <2>3. enabled => ~archived
    <3> SUFFICES ASSUME enabled PROVE ~archived
      BY Zenon
    <3>1. CASE e = {}
      BY <3>1, <2>1, <1>r, Zenon
    <3>2. CASE e # {}
      BY <3>2, <2>1, Zenon
    <3> QED BY <3>1, <3>2, Zenon
  <2>4. new \in Statuses
    <3>1. status \in Statuses
      BY <2>1, <1>r DEF Given
    <3> QED BY <3>1, StatusAssumption, Zenon DEF PausedIfActive
  <2> HIDE DEF archived, enabled, status, new
  <2>5. Lawful([rows[s] EXCEPT !.enabled = enabled, !.archived = archived, !.status = new], circuit)
    BY <2>1, <2>2, <2>3, <2>4, <1>r, Zenon DEF Lawful, Row
  <2> QED BY <2>1, <2>5, WriteKeeps
<1>6. ASSUME NEW s \in Strategies, NEW a \in BOOLEAN, SetArchived(s, a) PROVE RegistryInv'
  <2> DEFINE e == IF a THEN FALSE ELSE rows[s].enabled
             st == IF a THEN PausedIfActive(rows[s].status) ELSE rows[s].status
  <2>1. s \in DOMAIN rows /\ UNCHANGED circuit
    BY <1>6 DEF SetArchived
  <2>2. e \in BOOLEAN /\ st \in Statuses /\ (e => ~a /\ ~circuit)
    BY <2>1, <1>r, StatusAssumption, Zenon DEF PausedIfActive
  <2>3. Write(s, [rows[s] EXCEPT !.archived = a, !.enabled = e, !.status = st])
    BY <1>6, <2>1, <1>r DEF SetArchived, Row
  <2> HIDE DEF e, st
  <2>4. Lawful([rows[s] EXCEPT !.archived = a, !.enabled = e, !.status = st], circuit)
    BY <2>1, <2>2, <1>r, Zenon DEF Lawful, Row
  <2> QED BY <2>1, <2>3, <2>4, WriteKeeps
<1>7. ASSUME NEW s \in Strategies, NEW st \in Statuses, UpdateStatus(s, st) PROVE RegistryInv'
  <2>1. s \in DOMAIN rows
    BY <1>7 DEF UpdateStatus
  <2>2. Lawful([rows[s] EXCEPT !.status = st], circuit)
    BY <2>1, <1>r DEF Lawful, Row
  <2> QED BY <1>7, <2>1, <2>2, WriteKeeps DEF UpdateStatus
<1>8. ASSUME NEW s \in Strategies, NEW m \in Modes, UpdateMode(s, m) PROVE RegistryInv'
  <2>1. s \in DOMAIN rows
    BY <1>8 DEF UpdateMode
  <2>2. Lawful([rows[s] EXCEPT !.mode = m], circuit)
    BY <2>1, <1>r DEF Lawful, Row
  <2> QED BY <1>8, <2>1, <2>2, WriteKeeps DEF UpdateMode
<1>9. ASSUME NEW s \in Strategies, DeleteStrategy(s) PROVE RegistryInv'
  BY <1>9 DEF DeleteStrategy, RegistryInv
<1>10. CASE PauseAllEnabled
  BY <1>10, <1>c, PauseKeeps DEF PauseAllEnabled
<1>11. CASE TripWorkerCircuit
  BY <1>11, PauseKeeps DEF TripWorkerCircuit
<1>12. CASE ResetWorkerCircuit
  BY <1>12, Zenon DEF ResetWorkerCircuit, RegistryInv, Lawful
<1>13. CASE UNCHANGED registryVars
  BY <1>13 DEF registryVars, RegistryInv
<1> QED
  BY <1>1, <1>2, <1>3, <1>4, <1>5, <1>6, <1>7, <1>8, <1>9, <1>10, <1>11, <1>12, <1>13
  DEF RegistryNext

(* The registry starts without rows.                                       *)
LEMMA RegistryStarts == RegistryInit => RegistryInv
BY Zenon DEF RegistryInit, RegistryInv

(* Every row any operation leaves behind is lawful for the circuit.        *)
THEOREM RegistryInvariant == RegistrySpec => []RegistryInv
BY RegistryStarts, RegistryStep, PTL DEF RegistrySpec

(* The registry's variables keep their types.                              *)
THEOREM RegistryTypes == RegistrySpec => []RegistryTypeOK
BY RegistryInvariant, RegistryInvMeans, PTL

(* No operation leaves a strategy enabled that is archived, or while the   *)
(* circuit that trip_worker_circuit opened is open.                        *)
THEOREM RegistryEnabledIsAllowed == RegistrySpec => []EnabledIsAllowed
BY RegistryInvariant, RegistryInvMeans, PTL

-----------------------------------------------------------------------------
(* The supervisor                                                          *)

(* Before lifespan() calls start(), and what a shutdown leaves.            *)
Phases ==
    /\ mon = "off" /\ stop = "none" => ~started /\ cause = "none" /\ fsStatus = "not_run" /\ fsTask = "none"
    /\ ~started => ~alive
    /\ stop # "none" => mon = "off"
    /\ stop \in {"join", "closed"} => fsTask = "none"
    /\ stop = "closed" => ~alive

(* The worker is dead wherever the monitor is about to replace it.         *)
Replaceable ==
    /\ others = 0
    /\ mon \in {"restart", "backoff", "waitFs"} => ~alive
    /\ mon = "backoff" => recent < MaxRestarts

(* The fail-safe is in flight only where the monitor waits for it, and it  *)
(* has succeeded where a stale or slow worker is about to be replaced.     *)
FailSafeFirst ==
    /\ mon \in {"restart", "backoff", "poll", "contain", "fsBegin", "fsSleep"} => fsTask = "none"
    /\ mon \in {"fsWait", "fsSleep", "terminate", "waitFs", "ended"} => fsStatus # "not_run"
    /\ cause # "none" /\ mon \notin {"off", "fsBegin"} => fsStatus # "not_run"
    /\ cause \in {"stale", "slow"} /\ mon \in {"restart", "backoff", "poll", "contain"} => fsStatus = "ok"
    /\ mon = "fsSleep" => fsAttempt < MaxAttempts

(* The circuit is a latch: a fail-safe that succeeded has opened it.       *)
Latched == fsStatus = "ok" \/ fsTask = "returned" => circuit

SupervisorInv == TypeOK /\ RegistryInv /\ Phases /\ Replaceable /\ FailSafeFirst /\ Latched

LEMMA SupervisorStarts == Init => SupervisorInv
<1> SUFFICES ASSUME Init PROVE SupervisorInv
  OBVIOUS
<1>1. RegistryInv
  <2>1. rows \in [Strategies -> [enabled: BOOLEAN, archived: {FALSE}, status: {"paused"}, mode: Modes]]
        /\ circuit \in BOOLEAN /\ (circuit => \A s \in Strategies : ~rows[s].enabled)
    BY Zenon DEF Init
  <2>2. \A s \in Strategies : Lawful(rows[s], circuit)
    BY <2>1, StatusAssumption, Zenon DEF Lawful, Row
  <2> QED BY <2>1, <2>2 DEF RegistryInv
<1>2. TypeOK
  <2>1. RegistryTypeOK
    BY <1>1, RegistryInvMeans
  <2>2. recent \in 0..MaxRestarts /\ fsAttempt \in 0..MaxAttempts /\ others \in Nat
    BY ConfigAssumption DEF Init
  <2> QED BY <2>1, <2>2, Zenon DEF Init, TypeOK, Causes
<1> QED BY <1>1, <1>2 DEF Init, SupervisorInv, Phases, Replaceable, FailSafeFirst, Latched

(* Whatever the supervisor does to the registry is one of its operations.  *)
LEMMA StepsOfRegistry ==
    ASSUME SupervisorInv, [Next]_vars
    PROVE  [RegistryNext]_registryVars
<1>1. CASE UNCHANGED registryVars
  BY <1>1
<1>2. CASE Start
  BY <1>2 DEF Start, RegistryNext
<1>3. CASE FailSafeThread
  BY <1>3 DEF FailSafeThread, RegistryNext
<1>r. ASSUME NEW s \in DOMAIN rows
      PROVE  rows[s].enabled \in BOOLEAN /\ rows[s].status \in Statuses /\ rows[s].mode \in Modes
  BY DEF SupervisorInv, RegistryInv, Lawful, Row
<1>s. {"paused"} \subseteq Statuses
  BY StatusAssumption
<1>4. ASSUME NEW s \in Strategies,
             \/ \E m \in Modes : StartRoute(s, m) \/ CreateRoute(s, m)
             \/ EnableRoute(s) \/ ClearErrorRoute(s) \/ DisableRoute(s) \/ DeleteRoute(s)
             \/ \E st \in Statuses : StopRoute(s, st)
             \/ \E a \in BOOLEAN : ArchiveRoute(s, a)
             \/ \E e, a \in Given(BOOLEAN), st \in Given(Statuses) : PatchRoute(s, e, a, st)
             \/ StatusWrite(s)
      PROVE  RegistryNext
  <2>1. ASSUME NEW m \in Modes, StartRoute(s, m) PROVE RegistryNext
    <3>1. "running" \in Statuses /\ ActivateStrategy(s, "running", m)
      BY <2>1, StatusAssumption DEF StartRoute
    <3> QED BY <3>1, Zenon DEF RegistryNext
  <2>2. ASSUME NEW m \in Modes, CreateRoute(s, m) PROVE RegistryNext
    BY <2>2, Zenon DEF CreateRoute, RegistryNext
  <2>3. CASE EnableRoute(s)
    <3>1. s \in DOMAIN rows /\ ActivateStrategy(s, rows[s].status, rows[s].mode)
      BY <2>3 DEF EnableRoute
    <3> QED BY <3>1, <1>r, Zenon DEF RegistryNext
  <2>4. CASE ClearErrorRoute(s)
    <3>1. s \in DOMAIN rows /\ TransitionStrategy(s, rows[s].enabled, "paused", rows[s].mode)
      BY <2>4 DEF ClearErrorRoute
    <3>2. "paused" \in Statuses
      BY <1>s
    <3> QED BY <3>1, <3>2, <1>r, Zenon DEF RegistryNext
  <2>5. CASE DisableRoute(s)
    BY <2>5, Zenon DEF DisableRoute, RegistryNext
  <2>6. CASE DeleteRoute(s)
    BY <2>6, Zenon DEF DeleteRoute, RegistryNext
  <2>7. ASSUME NEW st \in Statuses, StopRoute(s, st) PROVE RegistryNext
    <3>1. s \in DOMAIN rows /\ TransitionStrategy(s, FALSE, st, rows[s].mode)
      BY <2>7, Zenon DEF StopRoute
    <3> QED BY <3>1, <1>r, Zenon DEF RegistryNext
  <2>8. ASSUME NEW a \in BOOLEAN, ArchiveRoute(s, a) PROVE RegistryNext
    BY <2>8, Zenon DEF ArchiveRoute, RegistryNext
  <2>9. ASSUME NEW e \in Given(BOOLEAN), NEW a \in Given(BOOLEAN), NEW st \in Given(Statuses),
               PatchRoute(s, e, a, st)
        PROVE  RegistryNext
    BY <2>9, Zenon DEF PatchRoute, RegistryNext
  <2>10. CASE StatusWrite(s)
    BY <2>10, Zenon DEF StatusWrite, RegistryNext
  <2> QED BY <1>4, <2>1, <2>2, <2>3, <2>4, <2>5, <2>6, <2>7, <2>8, <2>9, <2>10, Zenon
<1>5. CASE MonitorStep
  <2>1. UNCHANGED registryVars
    BY <1>5, Zenon DEF MonitorStep, PollUnknown, PollDead, PollHealthy, PollStale, PollSlow, MonitorError,
       FailSafeAttempt, FailSafeAnswered, FailSafeTimesOut, TerminateUnhealthy, WaitForFailSafe,
       RestartBudget, Restart, ContainStartFailed
  <2> QED BY <2>1
<1>6. CASE FailSafeDone \/ StopBegin \/ StopStep
  <2>1. UNCHANGED registryVars
    BY <1>6, Zenon DEF FailSafeDone, StopBegin, StopStep, StopAwaitsFailSafe, StopProcess
  <2> QED BY <2>1
<1>7. CASE Environment
  <2>1. CASE WorkerReady \/ HeartbeatLate \/ StartupTimePasses \/ WorkerDies
             \/ RestartLeavesWindow \/ HealthProbeFails
    <3>1. UNCHANGED registryVars
      BY <2>1, Zenon DEF WorkerReady, HeartbeatLate, StartupTimePasses, WorkerDies,
         RestartLeavesWindow, HealthProbeFails
    <3> QED BY <3>1
  <2> QED BY <1>4, <1>7, <2>1, Zenon DEF Environment
<1>8. CASE UNCHANGED vars
  BY <1>8 DEF vars, registryVars
<1> QED BY <1>1, <1>2, <1>3, <1>5, <1>6, <1>7, <1>8 DEF Next

(* The parts of the invariant that are about the supervisor.               *)
Parts == TypeOK /\ Phases /\ Replaceable /\ FailSafeFirst /\ Latched

(* TypeOK, one kind of variable at a time.                                 *)
Flags == /\ started \in BOOLEAN /\ alive \in BOOLEAN /\ ready \in BOOLEAN /\ stale \in BOOLEAN
         /\ slow \in BOOLEAN /\ neverLive \in BOOLEAN /\ degraded \in BOOLEAN

Names == /\ mon \in {"off", "contain", "restart", "backoff", "poll", "fsBegin", "fsWait",
                     "fsSleep", "terminate", "waitFs", "ended"}
         /\ cause \in Causes
         /\ reason \in {"none", "starting", "restarted", "ready", "other"}
         /\ fsStatus \in {"not_run", "running", "ok", "failed"}
         /\ fsTask \in {"none", "running", "returned", "raised"}
         /\ stop \in {"none", "awaitFs", "join", "joinUnsafe", "closed", "unsafe"}

Counts == others \in Nat /\ recent \in 0..MaxRestarts /\ fsAttempt \in 0..MaxAttempts

LEMMA TypeParts == TypeOK <=> RegistryTypeOK /\ Flags /\ Names /\ Counts
BY Zenon DEF TypeOK, Flags, Names, Counts

(* What terminate, join and kill do to the process (Killed).               *)
LEMMA KilledMeans ==
    ASSUME Flags, NEW dead \in BOOLEAN, Killed(dead)
    PROVE  (alive' => alive) /\ (dead => ~alive') /\ started' = started /\ others' = others
BY Zenon DEF Flags, Killed

(* Starting a process where none runs leaves no other behind.              *)
LEMMA StartedMeans ==
    ASSUME ~alive, others = 0, NEW r,
           ProcessStarted(r) \/ FactoryFailed \/ StartFailed
    PROVE  /\ others' = 0 /\ (mon' = "restart" => ~alive')
           /\ mon' \in {"poll", "restart", "contain"}
<1>1. CASE ProcessStarted(r)
  BY <1>1 DEF ProcessStarted, NewProcess
<1>2. CASE FactoryFailed
  BY <1>2 DEF FactoryFailed, procVars
<1>3. CASE StartFailed
  BY <1>3 DEF StartFailed, NewProcess
<1> QED BY <1>1, <1>2, <1>3

(* Every step of the supervisor keeps them, one action at a time.          *)
LEMMA PartsStep ==
    ASSUME Parts, [Next]_vars, RegistryTypeOK'
    PROVE  Parts'
<1> USE ConfigAssumption
<1>0. ASSUME UNCHANGED superVars, circuit => circuit' PROVE Parts'
  BY <1>0 DEF superVars, procVars, healthVars, fsVars, TypeOK, Causes, Phases, Replaceable, FailSafeFirst,
     Latched, Parts
<1>1. CASE Start
  <2>1. TypeOK'
    <3>1. Flags'
      BY <1>1, TypeParts, Zenon DEF Start, ResetWorkerCircuit, ProcessStarted, FactoryFailed, StartFailed,
         NewProcess, Degrade, Observed, procVars, fsVars, Parts, Flags
    <3>2. Names'
      BY <1>1, TypeParts DEF Start, ResetWorkerCircuit, ProcessStarted, FactoryFailed, StartFailed,
         NewProcess, Degrade, Observed, procVars, fsVars, Parts, Names, Causes
    <3>3. Counts'
      BY <1>1, TypeParts DEF Start, ResetWorkerCircuit, ProcessStarted, FactoryFailed, StartFailed,
         NewProcess, Degrade, Observed, procVars, fsVars, Parts, Counts, Replaceable
    <3> QED BY <3>1, <3>2, <3>3 DEF TypeOK, Flags, Names, Counts
  <2>2. Phases'
    BY <1>1 DEF Start, ResetWorkerCircuit, ProcessStarted, FactoryFailed, StartFailed, NewProcess, Degrade,
       Observed, procVars, fsVars, Parts, TypeOK, Causes, Phases, Replaceable, FailSafeFirst
  <2>3. Replaceable'
    <3>1. ~alive /\ others = 0
      BY <1>1 DEF Start, Parts, Phases, Replaceable
    <3>2. ProcessStarted("starting") \/ FactoryFailed \/ StartFailed
      BY <1>1 DEF Start
    <3> QED BY <3>1, <3>2, StartedMeans DEF Replaceable
  <2>4. FailSafeFirst'
    BY <1>1 DEF Start, ResetWorkerCircuit, ProcessStarted, FactoryFailed, StartFailed, NewProcess, Degrade,
       Observed, procVars, fsVars, Parts, TypeOK, Causes, Phases, Replaceable, FailSafeFirst
  <2>5. Latched'
    BY <1>1 DEF Start, ResetWorkerCircuit, ProcessStarted, FactoryFailed, StartFailed, NewProcess, Degrade,
       Observed, procVars, fsVars, Parts, TypeOK, Causes, Phases, Replaceable, FailSafeFirst, Latched
  <2> QED BY <2>1, <2>2, <2>3, <2>4, <2>5 DEF Parts
<1>2. CASE PollUnknown
  BY <1>2 DEF PollUnknown, CallFailSafe, Degrade, procVars, fsVars, registryVars, Parts, TypeOK, Causes,
     Phases, Replaceable, FailSafeFirst, Latched
<1>3. CASE PollDead
  BY <1>3 DEF PollDead, procVars, healthVars, fsVars, registryVars, Parts, TypeOK, Causes, Phases,
     Replaceable, FailSafeFirst, Latched
<1>4. CASE PollHealthy
  BY <1>4, ZenonT(40) DEF PollHealthy, procVars, fsVars, registryVars, Parts, TypeOK, Causes, Phases,
     Replaceable, FailSafeFirst, Latched
<1>5. CASE PollStale
  BY <1>5 DEF PollStale, CallFailSafe, Degrade, procVars, fsVars, registryVars, Parts, TypeOK, Causes,
     Phases, Replaceable, FailSafeFirst, Latched
<1>6. CASE PollSlow
  BY <1>6 DEF PollSlow, CallFailSafe, Degrade, procVars, fsVars, registryVars, Parts, TypeOK, Causes,
     Phases, Replaceable, FailSafeFirst, Latched
<1>7. CASE MonitorError
  BY <1>7 DEF MonitorError, CallFailSafe, Degrade, procVars, fsVars, registryVars, Parts, TypeOK, Causes,
     Phases, Replaceable, FailSafeFirst, Latched
<1>8. CASE FailSafeAttempt
  BY <1>8 DEF FailSafeAttempt, procVars, healthVars, registryVars, Parts, TypeOK, Causes, Phases,
     Replaceable, FailSafeFirst, Latched
<1>9. CASE FailSafeAnswered
  BY <1>9 DEF FailSafeAnswered, AfterFailSafe, procVars, healthVars, fsVars, registryVars, Parts, TypeOK,
     Causes, Phases, Replaceable, FailSafeFirst, Latched
<1>10. CASE FailSafeTimesOut
  BY <1>10 DEF FailSafeTimesOut, AfterFailSafe, procVars, healthVars, registryVars, Parts, TypeOK, Causes,
     Phases, Replaceable, FailSafeFirst, Latched
<1>11. CASE TerminateUnhealthy
  <2>1. TypeOK'
    <3>1. Flags'
      BY <1>11, TypeParts, Zenon DEF TerminateUnhealthy, Killed, Degrade, healthVars, fsVars, registryVars,
         Parts, Flags
    <3>2. Names'
      BY <1>11, TypeParts DEF TerminateUnhealthy, Killed, Degrade, healthVars, fsVars, registryVars, Parts,
         Names, Causes
    <3>3. Counts'
      BY <1>11, TypeParts DEF TerminateUnhealthy, Killed, Degrade, healthVars, fsVars, registryVars, Parts,
         Counts, Replaceable
    <3> QED BY <3>1, <3>2, <3>3 DEF TypeOK, Flags, Names, Counts
  <2>2. Phases'
    BY <1>11, TypeParts, KilledMeans DEF TerminateUnhealthy, CallFailSafe, fsVars, Parts, Phases
  <2>3. Replaceable'
    BY <1>11, TypeParts, KilledMeans DEF TerminateUnhealthy, CallFailSafe, fsVars, Parts, Replaceable
  <2>4. FailSafeFirst'
    BY <1>11 DEF TerminateUnhealthy, Killed, Degrade, healthVars, fsVars, registryVars, Parts, TypeOK,
       Causes, Phases, Replaceable, FailSafeFirst
  <2>5. Latched'
    BY <1>11 DEF TerminateUnhealthy, Killed, Degrade, healthVars, fsVars, registryVars, Parts, TypeOK,
       Causes, Phases, Replaceable, FailSafeFirst, Latched
  <2> QED BY <2>1, <2>2, <2>3, <2>4, <2>5 DEF Parts
<1>12. CASE WaitForFailSafe
  <2>1. TypeOK'
    <3>1. Flags'
      BY <1>12, TypeParts, Zenon DEF WaitForFailSafe, Degrade, procVars, healthVars, fsVars, registryVars,
         Parts, Flags
    <3>2. Names'
      BY <1>12, TypeParts DEF WaitForFailSafe, Degrade, procVars, healthVars, fsVars, registryVars, Parts,
         Names, Causes
    <3>3. Counts'
      BY <1>12, TypeParts DEF WaitForFailSafe, Degrade, procVars, healthVars, fsVars, registryVars, Parts,
         Counts, Replaceable
    <3> QED BY <3>1, <3>2, <3>3 DEF TypeOK, Flags, Names, Counts
  <2>2. Phases'
    BY <1>12 DEF WaitForFailSafe, Degrade, procVars, healthVars, fsVars, registryVars, Parts, TypeOK,
       Causes, Phases, Replaceable, FailSafeFirst
  <2>3. Replaceable'
    BY <1>12 DEF WaitForFailSafe, Degrade, procVars, healthVars, fsVars, registryVars, Parts, TypeOK,
       Causes, Phases, Replaceable, FailSafeFirst
  <2>4. FailSafeFirst'
    BY <1>12 DEF WaitForFailSafe, Degrade, procVars, healthVars, fsVars, registryVars, Parts, TypeOK,
       Causes, Phases, Replaceable, FailSafeFirst
  <2>5. Latched'
    BY <1>12 DEF WaitForFailSafe, Degrade, procVars, healthVars, fsVars, registryVars, Parts, TypeOK,
       Causes, Phases, Replaceable, FailSafeFirst, Latched
  <2> QED BY <2>1, <2>2, <2>3, <2>4, <2>5 DEF Parts
<1>13. CASE RestartBudget
  <2>1. TypeOK'
    <3>1. Flags'
      BY <1>13, TypeParts, Zenon DEF RestartBudget, CallFailSafe, Degrade, procVars, healthVars, fsVars,
         registryVars, Parts, Flags
    <3>2. Names'
      BY <1>13, TypeParts DEF RestartBudget, CallFailSafe, Degrade, procVars, healthVars, fsVars,
         registryVars, Parts, Names, Causes
    <3>3. Counts'
      BY <1>13, TypeParts DEF RestartBudget, CallFailSafe, Degrade, procVars, healthVars, fsVars,
         registryVars, Parts, Counts, Replaceable
    <3> QED BY <3>1, <3>2, <3>3 DEF TypeOK, Flags, Names, Counts
  <2>2. Phases'
    BY <1>13 DEF RestartBudget, CallFailSafe, Degrade, procVars, healthVars, fsVars, registryVars, Parts,
       TypeOK, Causes, Phases, Replaceable, FailSafeFirst
  <2>3. Replaceable'
    BY <1>13 DEF RestartBudget, CallFailSafe, Degrade, procVars, healthVars, fsVars, registryVars, Parts,
       TypeOK, Causes, Phases, Replaceable, FailSafeFirst
  <2>4. FailSafeFirst'
    BY <1>13 DEF RestartBudget, CallFailSafe, Degrade, procVars, healthVars, fsVars, registryVars, Parts,
       TypeOK, Causes, Phases, Replaceable, FailSafeFirst
  <2>5. Latched'
    BY <1>13 DEF RestartBudget, CallFailSafe, Degrade, procVars, healthVars, fsVars, registryVars, Parts,
       TypeOK, Causes, Phases, Replaceable, FailSafeFirst, Latched
  <2> QED BY <2>1, <2>2, <2>3, <2>4, <2>5 DEF Parts
<1>14. CASE Restart
  <2>1. TypeOK'
    <3>1. Flags'
      BY <1>14, TypeParts, Zenon DEF Restart, ProcessStarted, FactoryFailed, StartFailed, NewProcess,
         Degrade, Observed, procVars, fsVars, registryVars, Parts, Flags
    <3>2. Names'
      BY <1>14, TypeParts DEF Restart, ProcessStarted, FactoryFailed, StartFailed, NewProcess, Degrade,
         Observed, procVars, fsVars, registryVars, Parts, Names, Causes
    <3>3. Counts'
      BY <1>14, TypeParts DEF Restart, ProcessStarted, FactoryFailed, StartFailed, NewProcess, Degrade,
         Observed, procVars, fsVars, registryVars, Parts, Counts, Replaceable
    <3> QED BY <3>1, <3>2, <3>3 DEF TypeOK, Flags, Names, Counts
  <2>2. Phases'
    BY <1>14 DEF Restart, ProcessStarted, FactoryFailed, StartFailed, NewProcess, Degrade, Observed,
       procVars, fsVars, registryVars, Parts, TypeOK, Causes, Phases, Replaceable, FailSafeFirst
  <2>3. Replaceable'
    <3>1. ~alive /\ others = 0
      BY <1>14 DEF Restart, Parts, Replaceable
    <3>2. ProcessStarted("restarted") \/ FactoryFailed \/ StartFailed
      BY <1>14 DEF Restart
    <3> QED BY <3>1, <3>2, StartedMeans DEF Replaceable
  <2>4. FailSafeFirst'
    BY <1>14 DEF Restart, ProcessStarted, FactoryFailed, StartFailed, NewProcess, Degrade, Observed,
       procVars, fsVars, registryVars, Parts, TypeOK, Causes, Phases, Replaceable, FailSafeFirst
  <2>5. Latched'
    BY <1>14 DEF Restart, ProcessStarted, FactoryFailed, StartFailed, NewProcess, Degrade, Observed,
       procVars, fsVars, registryVars, Parts, TypeOK, Causes, Phases, Replaceable, FailSafeFirst, Latched
  <2> QED BY <2>1, <2>2, <2>3, <2>4, <2>5 DEF Parts
<1>15. CASE ContainStartFailed
  <2>1. TypeOK'
    <3>1. Flags'
      BY <1>15, TypeParts, Zenon DEF ContainStartFailed, Killed, CallFailSafe, healthVars, fsVars,
         registryVars, Parts, Flags
    <3>2. Names'
      BY <1>15, TypeParts DEF ContainStartFailed, Killed, CallFailSafe, healthVars, fsVars, registryVars,
         Parts, Names, Causes
    <3>3. Counts'
      BY <1>15, TypeParts DEF ContainStartFailed, Killed, CallFailSafe, healthVars, fsVars, registryVars,
         Parts, Counts, Replaceable
    <3> QED BY <3>1, <3>2, <3>3 DEF TypeOK, Flags, Names, Counts
  <2>2. Phases'
    BY <1>15, TypeParts, KilledMeans DEF ContainStartFailed, CallFailSafe, fsVars, Parts, Phases
  <2>3. Replaceable'
    BY <1>15, TypeParts, KilledMeans DEF ContainStartFailed, CallFailSafe, fsVars, Parts, Replaceable
  <2>4. FailSafeFirst'
    BY <1>15 DEF ContainStartFailed, Killed, CallFailSafe, healthVars, fsVars, registryVars, Parts, TypeOK,
       Causes, Phases, Replaceable, FailSafeFirst
  <2>5. Latched'
    BY <1>15 DEF ContainStartFailed, Killed, CallFailSafe, healthVars, fsVars, registryVars, Parts, TypeOK,
       Causes, Phases, Replaceable, FailSafeFirst, Latched
  <2> QED BY <2>1, <2>2, <2>3, <2>4, <2>5 DEF Parts
<1>16. CASE FailSafeThread
  BY <1>16 DEF FailSafeThread, TripWorkerCircuit, procVars, healthVars, registryVars, Parts, TypeOK,
     Causes, Phases, Replaceable, FailSafeFirst, Latched
<1>17. CASE FailSafeDone
  BY <1>17 DEF FailSafeDone, procVars, healthVars, registryVars, Parts, TypeOK, Causes, Phases,
     Replaceable, FailSafeFirst, Latched
<1>18. CASE StopBegin
  BY <1>18 DEF StopBegin, procVars, healthVars, fsVars, registryVars, Parts, TypeOK, Causes, Phases,
     Replaceable, FailSafeFirst, Latched
<1>19. CASE StopAwaitsFailSafe
  <2>1. TypeOK'
    <3>1. Flags'
      BY <1>19, TypeParts, Zenon DEF StopAwaitsFailSafe, Degrade, procVars, healthVars, fsVars,
         registryVars, Parts, Flags
    <3>2. Names'
      BY <1>19, TypeParts DEF StopAwaitsFailSafe, Degrade, procVars, healthVars, fsVars, registryVars,
         Parts, Names, Causes
    <3>3. Counts'
      BY <1>19, TypeParts DEF StopAwaitsFailSafe, Degrade, procVars, healthVars, fsVars, registryVars,
         Parts, Counts, Replaceable
    <3> QED BY <3>1, <3>2, <3>3 DEF TypeOK, Flags, Names, Counts
  <2>2. Phases'
    BY <1>19 DEF StopAwaitsFailSafe, Degrade, procVars, healthVars, fsVars, registryVars, Parts, TypeOK,
       Causes, Phases, Replaceable, FailSafeFirst
  <2>3. Replaceable'
    BY <1>19 DEF StopAwaitsFailSafe, Degrade, procVars, healthVars, fsVars, registryVars, Parts, TypeOK,
       Causes, Phases, Replaceable, FailSafeFirst
  <2>4. FailSafeFirst'
    BY <1>19 DEF StopAwaitsFailSafe, Degrade, procVars, healthVars, fsVars, registryVars, Parts, TypeOK,
       Causes, Phases, Replaceable, FailSafeFirst
  <2>5. Latched'
    BY <1>19 DEF StopAwaitsFailSafe, Degrade, procVars, healthVars, fsVars, registryVars, Parts, TypeOK,
       Causes, Phases, Replaceable, FailSafeFirst, Latched
  <2> QED BY <2>1, <2>2, <2>3, <2>4, <2>5 DEF Parts
<1>20. CASE StopProcess
  <2>1. TypeOK'
    <3>1. Flags'
      BY <1>20, TypeParts, Zenon DEF StopProcess, Killed, Degrade, procVars, healthVars, fsVars,
         registryVars, Parts, Flags
    <3>2. Names'
      BY <1>20, TypeParts, Zenon DEF StopProcess, Degrade, healthVars, fsVars, Parts, Names
    <3>3. Counts'
      BY <1>20, TypeParts, Zenon DEF StopProcess, Killed, Degrade, procVars, healthVars, fsVars,
         registryVars, Parts, Counts, Replaceable
    <3> QED BY <3>1, <3>2, <3>3 DEF TypeOK, Flags, Names, Counts
  <2>2. Phases'
    BY <1>20, TypeParts, KilledMeans DEF StopProcess, procVars, fsVars, Parts, Phases
  <2>3. Replaceable'
    BY <1>20, TypeParts, KilledMeans DEF StopProcess, procVars, fsVars, Parts, Phases, Replaceable
  <2>4. FailSafeFirst'
    BY <1>20 DEF StopProcess, Killed, Degrade, procVars, healthVars, fsVars, registryVars, Parts, TypeOK,
       Causes, Phases, Replaceable, FailSafeFirst
  <2>5. Latched'
    BY <1>20 DEF StopProcess, Killed, Degrade, procVars, healthVars, fsVars, registryVars, Parts, TypeOK,
       Causes, Phases, Replaceable, FailSafeFirst, Latched
  <2> QED BY <2>1, <2>2, <2>3, <2>4, <2>5 DEF Parts
<1>21. CASE WorkerReady
  <2>1. TypeOK'
    <3>1. Flags'
      BY <1>21, TypeParts, Zenon DEF WorkerReady, healthVars, fsVars, registryVars, Parts, Flags
    <3>2. Names'
      BY <1>21, TypeParts DEF WorkerReady, healthVars, fsVars, registryVars, Parts, Names, Causes
    <3>3. Counts'
      BY <1>21, TypeParts DEF WorkerReady, healthVars, fsVars, registryVars, Parts, Counts, Replaceable
    <3> QED BY <3>1, <3>2, <3>3 DEF TypeOK, Flags, Names, Counts
  <2>2. Phases'
    BY <1>21 DEF WorkerReady, healthVars, fsVars, registryVars, Parts, TypeOK, Causes, Phases, Replaceable,
       FailSafeFirst
  <2>3. Replaceable'
    BY <1>21 DEF WorkerReady, healthVars, fsVars, registryVars, Parts, TypeOK, Causes, Phases, Replaceable,
       FailSafeFirst
  <2>4. FailSafeFirst'
    BY <1>21 DEF WorkerReady, healthVars, fsVars, registryVars, Parts, TypeOK, Causes, Phases, Replaceable,
       FailSafeFirst
  <2>5. Latched'
    BY <1>21 DEF WorkerReady, healthVars, fsVars, registryVars, Parts, TypeOK, Causes, Phases, Replaceable,
       FailSafeFirst, Latched
  <2> QED BY <2>1, <2>2, <2>3, <2>4, <2>5 DEF Parts
<1>22. CASE HeartbeatLate
  BY <1>22 DEF HeartbeatLate, healthVars, fsVars, registryVars, Parts, TypeOK, Causes, Phases, Replaceable,
     FailSafeFirst, Latched
<1>23. CASE StartupTimePasses
  BY <1>23 DEF StartupTimePasses, healthVars, fsVars, registryVars, Parts, TypeOK, Causes, Phases,
     Replaceable, FailSafeFirst, Latched
<1>24. CASE WorkerDies
  <2>1. TypeOK'
    <3>1. Flags'
      BY <1>24, TypeParts, Zenon DEF WorkerDies, healthVars, fsVars, registryVars, Parts, Flags
    <3>2. Names'
      BY <1>24, TypeParts DEF WorkerDies, healthVars, fsVars, registryVars, Parts, Names, Causes
    <3>3. Counts'
      BY <1>24, TypeParts DEF WorkerDies, healthVars, fsVars, registryVars, Parts, Counts, Replaceable
    <3> QED BY <3>1, <3>2, <3>3 DEF TypeOK, Flags, Names, Counts
  <2>2. Phases'
    BY <1>24 DEF WorkerDies, healthVars, fsVars, registryVars, Parts, TypeOK, Causes, Phases, Replaceable,
       FailSafeFirst
  <2>3. Replaceable'
    BY <1>24 DEF WorkerDies, healthVars, fsVars, registryVars, Parts, TypeOK, Causes, Phases, Replaceable,
       FailSafeFirst
  <2>4. FailSafeFirst'
    BY <1>24 DEF WorkerDies, healthVars, fsVars, registryVars, Parts, TypeOK, Causes, Phases, Replaceable,
       FailSafeFirst
  <2>5. Latched'
    BY <1>24 DEF WorkerDies, healthVars, fsVars, registryVars, Parts, TypeOK, Causes, Phases, Replaceable,
       FailSafeFirst, Latched
  <2> QED BY <2>1, <2>2, <2>3, <2>4, <2>5 DEF Parts
<1>25. CASE RestartLeavesWindow
  BY <1>25 DEF RestartLeavesWindow, procVars, healthVars, fsVars, registryVars, Parts, TypeOK, Causes,
     Phases, Replaceable, FailSafeFirst, Latched
<1>26. CASE HealthProbeFails
  BY <1>26 DEF HealthProbeFails, Degrade, procVars, fsVars, registryVars, Parts, TypeOK, Causes, Phases,
     Replaceable, FailSafeFirst, Latched
<1>27. ASSUME NEW s \in Strategies,
             \/ \E m \in Modes : StartRoute(s, m) \/ CreateRoute(s, m)
             \/ EnableRoute(s) \/ ClearErrorRoute(s) \/ DisableRoute(s) \/ DeleteRoute(s)
             \/ \E st \in Statuses : StopRoute(s, st)
             \/ \E a \in BOOLEAN : ArchiveRoute(s, a)
             \/ \E e, a \in Given(BOOLEAN), st \in Given(Statuses) : PatchRoute(s, e, a, st)
             \/ StatusWrite(s)
      PROVE  Parts'
  <2>1. UNCHANGED superVars /\ UNCHANGED circuit
    BY <1>27, Zenon DEF StartRoute, CreateRoute, EnableRoute, ClearErrorRoute, DisableRoute, DeleteRoute,
       StopRoute, ArchiveRoute, PatchRoute, StatusWrite, SupervisorUnchanged, ActivateStrategy,
       CreateStrategy, TransitionStrategy, SetEnabled, DeleteStrategy, SetArchived, PatchStrategy,
       UpdateStatus, UpdateMode
  <2> QED BY <1>0, <2>1
<1>28. CASE UNCHANGED vars
  BY <1>0, <1>28 DEF vars, registryVars
<1> QED
  BY <1>1, <1>2, <1>3, <1>4, <1>5, <1>6, <1>7, <1>8, <1>9, <1>10, <1>11, <1>12, <1>13, <1>14, <1>15, <1>16,
     <1>17, <1>18, <1>19, <1>20, <1>21, <1>22, <1>23, <1>24, <1>25, <1>26, <1>27, <1>28, Zenon
  DEF Next, MonitorStep, StopStep, Environment

LEMMA SupervisorStep ==
    ASSUME SupervisorInv, [Next]_vars
    PROVE  SupervisorInv'
<1>1. RegistryInv'
  BY StepsOfRegistry, RegistryStep DEF SupervisorInv
<1>2. RegistryTypeOK'
  <2>1. RegistryInv' => RegistryTypeOK'
    BY RegistryInvMeans, PTL
  <2> QED BY <1>1, <2>1
<1>3. Parts'
  BY <1>2, PartsStep DEF SupervisorInv, Parts
<1> QED BY <1>1, <1>3 DEF SupervisorInv, Parts

(* The supervisor's strengthened invariant holds for any restart budget,   *)
(* any number of fail-safe attempts and any strategies.                    *)
THEOREM SupervisorInductive == Spec => []SupervisorInv
BY SupervisorStarts, SupervisorStep, PTL DEF Spec

(* Supervisor, fail-safe thread and routes change the strategy table by    *)
(* operations of the registry only, one transaction at a time.             *)
THEOREM SupervisorUsesRegistry == Spec => [][RegistryNext]_registryVars
<1>1. SupervisorInv /\ [Next]_vars => [RegistryNext]_registryVars
  BY StepsOfRegistry, Zenon
<1> QED BY <1>1, SupervisorInductive, PTL DEF Spec

(* No strategy is enabled while the circuit is open, wherever monitor,     *)
(* fail-safe thread, stop() and the routes are                             *)
(* (gateway/worker_supervisor.py).                                         *)
THEOREM SupervisorEnabledIsAllowed == Spec => []EnabledIsAllowed
<1>1. SupervisorInv => EnabledIsAllowed
  BY RegistryInvMeans, Zenon DEF SupervisorInv
<1> QED BY <1>1, SupervisorInductive, PTL

(* No two workers: a process that is replaced after a crash, a stale       *)
(* heartbeat, a slow start or a start() that raised is dead.               *)
THEOREM SupervisorOneWorker == Spec => []OneWorker
<1>1. SupervisorInv => OneWorker
  BY DEF SupervisorInv, Replaceable, OneWorker
<1> QED BY <1>1, SupervisorInductive, PTL

(* A supervisor that gave up or was shut down leaves nothing running: see  *)
(* GivenUpIsFailClosed and ClosedIsQuiet.                                  *)
THEOREM SupervisorFailClosed == Spec => []FailClosed
<1>1. SupervisorInv => FailClosed
  <2> SUFFICES ASSUME SupervisorInv PROVE FailClosed
    OBVIOUS
  <2>1. GivenUpIsFailClosed
    BY DEF SupervisorInv, RegistryInv, Lawful, FailSafeFirst, Latched, GivenUpIsFailClosed
  <2>2. ClosedIsQuiet
    BY DEF SupervisorInv, Phases, Replaceable, ClosedIsQuiet
  <2> QED BY <2>1, <2>2 DEF SupervisorInv, FailClosed
<1> QED BY <1>1, SupervisorInductive, PTL

(* A worker is replaced only when the fail-safe before has ended, and      *)
(* after a stale heartbeat or a slow start only with the circuit open      *)
(* (_wait_for_fail_safe_before_restart).                                   *)
THEOREM SupervisorReplacementIsSafe == Spec => ReplacementIsSafe
<1>1. SupervisorInv => (Restart => fsTask = "none" /\ (cause \in {"stale", "slow"} => circuit))
  BY DEF SupervisorInv, FailSafeFirst, Latched, Restart
<1>2. SupervisorInv /\ [Next]_vars => [Restart => fsTask = "none" /\ (cause \in {"stale", "slow"} => circuit)]_vars
  BY <1>1
<1> QED BY <1>2, SupervisorInductive, PTL DEF Spec, ReplacementIsSafe

-----------------------------------------------------------------------------
(* The commands                                                            *)

Command ==
    [cmd: Commands \cup {"none"}, sid: Strategies \cup {"none"}, at: Steps,
     seen: Statuses \cup {"none"}, wrote: Statuses \cup {"none"},
     result: {"none", "ok", "refused", "failed", "raised"}, left: 0 .. MaxCommands]

(* What a command that runs a strategy has read and written so far.        *)
Told(c) ==
    c.cmd \in RunCommands =>
        /\ c.at # "end" => c.seen # "none"
        /\ c.at = "end" /\ c.result \in {"ok", "refused", "failed"} =>
              c.wrote = CASE c.result = "failed" -> "error"
                          [] c.seen = "none"     -> "none"
                          [] OTHER               -> "paused"

CommandsOK == cli \in [CliProcs -> Command] /\ \A p \in CliProcs : Told(cli[p])

(* The inductive invariant of the command line.                            *)
CliInv == RegistryInv /\ CommandsOK

(* One process moves on, and what it then is tells the truth.              *)
LEMMA CommandMoves ==
    ASSUME CommandsOK, NEW p \in CliProcs, NEW c \in Command, Told(c), cli' = [cli EXCEPT ![p] = c]
    PROVE  CommandsOK'
BY Zenon DEF CommandsOK, Told, RunCommands

LEMMA CommandGoes ==
    ASSUME CommandsOK, NEW p \in CliProcs, NEW step \in Steps, Goes(p, step),
           cli[p].at # "end", step # "end"
    PROVE  CommandsOK'
<1> DEFINE c == [cli[p] EXCEPT !.at = step]
<1>1. cli[p] \in Command /\ Told(cli[p])
  BY Zenon DEF CommandsOK
<1>2. c \in Command
  BY <1>1, Zenon DEF Command
<1>3. c.at = step /\ c.cmd = cli[p].cmd /\ c.seen = cli[p].seen
  BY <1>1 DEF Command
<1>4. cli' = [cli EXCEPT ![p] = c]
  BY Zenon DEF Goes
<1> HIDE DEF c
<1>5. Told(c)
  BY <1>1, <1>3, Zenon DEF Told
<1> QED BY <1>2, <1>4, <1>5, CommandMoves, Zenon

LEMMA CommandEnds ==
    ASSUME CommandsOK, NEW p \in CliProcs, NEW r \in {"ok", "refused", "raised"}, Ends(p, r),
           cli[p].cmd \notin RunCommands \/ r = "raised"
    PROVE  CommandsOK'
<1> DEFINE c == [cli[p] EXCEPT !.at = "end", !.result = r]
<1>1. cli[p] \in Command
  BY Zenon DEF CommandsOK
<1>2. c \in Command
  <2>1. "end" \in Steps
    BY DEF Steps
  <2> QED BY <1>1, <2>1, Zenon DEF Command
<1>3. c.at = "end" /\ c.cmd = cli[p].cmd /\ c.result = r
  BY <1>1 DEF Command
<1>4. cli' = [cli EXCEPT ![p] = c]
  BY Zenon DEF Ends
<1> HIDE DEF c
<1>5. Told(c)
  BY <1>3 DEF Told
<1> QED BY <1>2, <1>4, <1>5, CommandMoves, Zenon

LEMMA CommandWrites ==
    ASSUME CliInv, NEW p \in CliProcs, NEW st \in Statuses, NEW step \in Steps,
           NEW r \in {"none", "ok", "refused", "failed"}, WritesAnd(p, st, step, r),
           \/ cli[p].cmd \notin RunCommands
           \/ /\ cli[p].at # "end"
              /\ step = "end" => st = IF r = "failed" THEN "error" ELSE "paused"
    PROVE  CommandsOK' /\ [RegistryNext]_registryVars
<1>0. CommandsOK
  BY DEF CliInv
<1>1. CASE UpdateStatus(cli[p].sid, st)
           /\ cli' = [cli EXCEPT ![p].at = step, ![p].result = r, ![p].wrote = st]
  <2> DEFINE c == [cli[p] EXCEPT !.at = step, !.result = r, !.wrote = st]
  <2>1. cli[p] \in Command /\ Told(cli[p])
    BY <1>0, Zenon DEF CommandsOK
  <2>2. c \in Command
    BY <2>1, Zenon DEF Command
  <2>3. c.at = step /\ c.cmd = cli[p].cmd /\ c.result = r /\ c.wrote = st /\ c.seen = cli[p].seen
    BY <2>1 DEF Command
  <2>4. cli' = [cli EXCEPT ![p] = c]
    BY <1>1, Zenon
  <2> HIDE DEF c
  <2>5. Told(c)
    <3>1. cli[p].cmd \in RunCommands => cli[p].seen # "none"
      BY <2>1, Zenon DEF Told
    <3> QED BY <2>3, <3>1 DEF Told
  <2>6. CommandsOK'
    BY <1>0, <2>2, <2>4, <2>5, CommandMoves, Zenon
  <2>7. cli[p].sid \in Strategies
    BY <1>1, Zenon DEF UpdateStatus, CliInv, RegistryInv
  <2> QED BY <1>1, <2>6, <2>7, Zenon DEF RegistryNext
<1>2. CASE Ends(p, "raised") /\ UNCHANGED registryVars
  BY <1>0, <1>2, CommandEnds
<1> QED BY <1>1, <1>2, Zenon DEF WritesAnd

LEMMA NoCommandOK == NoCommand \in Command /\ Told(NoCommand)
<1>1. NoCommand \in Command
  BY CliAssumption DEF NoCommand, Command, Steps
<1>2. NoCommand.cmd = "none"
  BY DEF NoCommand
<1> QED BY <1>1, <1>2 DEF Told, RunCommands

(* A command begins: what it will report is about what it reads now.       *)
LEMMA BeginKeeps ==
    ASSUME CliInv, NEW p \in CliProcs, NEW c \in Commands, NEW s \in Strategies, Begin(p, c, s)
    PROVE  CommandsOK' /\ UNCHANGED registryVars
<1> DEFINE d == [cmd |-> c, sid |-> s, left |-> cli[p].left - 1, wrote |-> "none",
                 at |-> IF s \in DOMAIN rows THEN "got" ELSE "end",
                 seen |-> IF s \in DOMAIN rows THEN rows[s].status ELSE "none",
                 result |-> IF s \in DOMAIN rows THEN "none" ELSE "refused"]
<1>1. CommandsOK /\ cli[p] \in Command
  BY Zenon DEF CliInv, CommandsOK
<1>2. cli' = [cli EXCEPT ![p] = d] /\ UNCHANGED registryVars /\ cli[p].left > 0
  BY Zenon DEF Begin, registryVars
<1>3. s \in DOMAIN rows => rows[s].status \in Statuses
  <2>1. s \in DOMAIN rows => rows[s] \in Row
    BY Zenon DEF CliInv, RegistryInv, Lawful
  <2> QED BY <2>1 DEF Row
<1>4. cli[p].left - 1 \in 0 .. MaxCommands
  <2>1. cli[p].left \in 0 .. MaxCommands
    BY <1>1 DEF Command
  <2> QED BY <1>2, <2>1, CliAssumption
<1>5. d \in Command
  <2>1. {"got", "end"} \subseteq Steps
    BY DEF Steps
  <2> QED BY <1>3, <1>4, <2>1, Zenon DEF Command
<1>6. /\ d.at = (IF s \in DOMAIN rows THEN "got" ELSE "end") /\ d.wrote = "none"
      /\ d.seen = (IF s \in DOMAIN rows THEN rows[s].status ELSE "none")
      /\ d.result = (IF s \in DOMAIN rows THEN "none" ELSE "refused")
  OBVIOUS
<1> HIDE DEF d
<1>7. Told(d)
  <2>1. CASE s \in DOMAIN rows
    BY <1>3, <1>6, <2>1, CliAssumption DEF Told
  <2>2. CASE s \notin DOMAIN rows
    BY <1>6, <2>2 DEF Told
  <2> QED BY <2>1, <2>2
<1> QED BY <1>1, <1>2, <1>5, <1>7, CommandMoves, Zenon

(* What the gateway's endpoints write for a command.                       *)
LEMMA EndpointWrites ==
    ASSUME RegistryInv, NEW c, NEW s \in DOMAIN rows, Endpoint(c, s)
    PROVE  RegistryNext
<1>1. rows[s] \in Row /\ s \in Strategies
  BY Zenon DEF RegistryInv, Lawful
<1>2. rows[s].status \in Statuses /\ rows[s].mode \in Modes
  BY <1>1 DEF Row
<1>3. "running" \in Statuses /\ "paused" \in Statuses /\ "disabled" \in Statuses
      /\ "paper" \in Modes /\ "live" \in Modes
  BY StatusAssumption, CliAssumption
<1>4. \/ ActivateStrategy(s, rows[s].status, rows[s].mode)
      \/ ActivateStrategy(s, "running", "paper")
      \/ ActivateStrategy(s, "running", "live")
      \/ TransitionStrategy(s, FALSE, "paused", rows[s].mode)
      \/ TransitionStrategy(s, FALSE, "disabled", rows[s].mode)
  BY Zenon DEF Endpoint
<1>5. ASSUME NEW st \in Statuses, NEW m \in Modes,
             ActivateStrategy(s, st, m) \/ TransitionStrategy(s, FALSE, st, m)
      PROVE  RegistryNext
  BY <1>1, <1>5, Zenon DEF RegistryNext
<1> QED BY <1>2, <1>3, <1>4, <1>5, Zenon

(* The commands that change a strategy and end.                            *)
LEMMA ShortCommands ==
    ASSUME CliInv, NEW p \in CliProcs,
           \/ Pause(p) \/ Resume(p) \/ RemoveStrategy(p) \/ Update(p) \/ Disable(p) \/ Repair(p)
           \/ \E st \in {"paused", "disabled"} : ErrorClear(p, st)
           \/ ViaGateway(p)
    PROVE  CommandsOK' /\ [RegistryNext]_registryVars
<1>1. CommandsOK /\ RegistryInv
  BY DEF CliInv
<1>2. "paused" \in Statuses /\ "disabled" \in Statuses /\ "end" \in Steps
  BY StatusAssumption, CliAssumption DEF Steps
<1>3. cli[p].sid \in DOMAIN rows => cli[p].sid \in Strategies
  BY <1>1, Zenon DEF RegistryInv
<1>4. cli[p].cmd \notin RunCommands
  BY Zenon DEF Pause, Resume, RemoveStrategy, Update, Disable, Repair, ErrorClear, ViaGateway, At, RunCommands
<1>5. ASSUME NEW st \in {"paused", "disabled"}, WritesAnd(p, st, "end", "ok")
      PROVE  CommandsOK' /\ [RegistryNext]_registryVars
  BY <1>2, <1>4, <1>5, CommandWrites, Zenon
<1>6. ASSUME NEW r \in {"ok", "refused", "raised"}, Ends(p, r) PROVE CommandsOK'
  BY <1>1, <1>4, <1>6, CommandEnds, Zenon
<1>7. CASE Pause(p)
  BY <1>5, <1>7, Zenon DEF Pause
<1>8. CASE Resume(p)
  BY <1>5, <1>6, <1>8, Zenon DEF Resume
<1>9. CASE RemoveStrategy(p)
  <2>1. CASE DeleteStrategy(cli[p].sid) /\ Ends(p, "ok")
    <3>1. cli[p].sid \in Strategies
      BY <1>3, <2>1, Zenon DEF DeleteStrategy
    <3> QED BY <1>6, <2>1, <3>1, Zenon DEF RegistryNext
  <2> QED BY <1>6, <1>9, <2>1, Zenon DEF RemoveStrategy
<1>10. CASE Update(p)
  <2>1. CASE PatchStrategy(cli[p].sid, {}, {}, {}) /\ Ends(p, "ok")
    <3>1. cli[p].sid \in Strategies
      BY <1>3, <2>1, Zenon DEF PatchStrategy
    <3>2. {} \in Given(BOOLEAN) /\ {} \in Given(Statuses)
      BY DEF Given
    <3> QED BY <1>6, <2>1, <3>1, <3>2, Zenon DEF RegistryNext
  <2>2. CASE Ends(p, "raised") /\ UNCHANGED registryVars
    BY <1>6, <2>2, Zenon
  <2> QED BY <1>10, <2>1, <2>2, Zenon DEF Update
<1>11. CASE Disable(p)
  <2>1. CASE SetEnabled(cli[p].sid, FALSE) /\ Ends(p, "ok")
    <3>1. cli[p].sid \in Strategies
      BY <1>3, <2>1, Zenon DEF SetEnabled
    <3> QED BY <1>6, <2>1, <3>1, Zenon DEF RegistryNext
  <2> QED BY <1>6, <1>11, <2>1, Zenon DEF Disable
<1>12. CASE Repair(p)
  BY <1>5, <1>6, <1>12, Zenon DEF Repair
<1>13. ASSUME NEW st \in {"paused", "disabled"}, ErrorClear(p, st)
       PROVE  CommandsOK' /\ [RegistryNext]_registryVars
  BY <1>5, <1>6, <1>13, Zenon DEF ErrorClear
<1>14. CASE ViaGateway(p)
  <2>1. CASE cli[p].sid \in DOMAIN rows /\ Endpoint(cli[p].cmd, cli[p].sid) /\ Ends(p, "ok")
    BY <1>1, <1>6, <2>1, EndpointWrites, Zenon
  <2>2. CASE Ends(p, "refused") /\ UNCHANGED <<rows, circuit, halted>>
    BY <1>6, <2>2, Zenon DEF registryVars
  <2> QED BY <1>14, <2>1, <2>2, Zenon DEF ViaGateway
<1> QED BY <1>7, <1>8, <1>9, <1>10, <1>11, <1>12, <1>13, <1>14, Zenon

(* The steps of strategy backtest and strategy replay.                     *)
LEMMA RunCommandSteps ==
    ASSUME CliInv, NEW p \in CliProcs,
           \/ MarkRunning(p) \/ CheckPasses(p) \/ CheckFails(p) \/ PrepareRaises(p)
           \/ Configured(p) \/ MarkRunningAgain(p) \/ RunReturns(p) \/ RunFails(p)
           \/ PersistResult(p) \/ SaveSnapshot(p) \/ Settle(p)
    PROVE  CommandsOK' /\ [RegistryNext]_registryVars
<1>1. CommandsOK
  BY DEF CliInv
<1>2. "paused" \in Statuses /\ "running" \in Statuses /\ "error" \in Statuses
  BY StatusAssumption, CliAssumption
<1>3. Steps \ {"end"} = {"none", "got", "created", "ready", "window", "artifact", "bars", "config",
                         "bind", "run", "persist", "snapshot", "settle"} /\ "end" \in Steps
  BY DEF Steps
<1>4. cli[p].at # "end"
  BY DEF MarkRunning, CheckPasses, CheckFails, PrepareRaises, Configured, MarkRunningAgain, RunReturns,
         RunFails, PersistResult, SaveSnapshot, Settle, At, Checks
<1>5. ASSUME NEW step \in Steps \ {"end"}, Goes(p, step), UNCHANGED registryVars
      PROVE  CommandsOK' /\ [RegistryNext]_registryVars
  BY <1>1, <1>4, <1>5, CommandGoes, Zenon
<1>6. ASSUME NEW step \in Steps \ {"end"}, WritesAnd(p, "running", step, "none")
      PROVE  CommandsOK' /\ [RegistryNext]_registryVars
  <2>1. step \in Steps /\ step # "end"
    BY <1>6, Zenon
  <2> QED BY <1>2, <1>4, <1>6, <2>1, CommandWrites, Zenon
<1>7. ASSUME NEW r \in {"ok", "refused", "failed"},
             WritesAnd(p, IF r = "failed" THEN "error" ELSE "paused", "end", r)
      PROVE  CommandsOK' /\ [RegistryNext]_registryVars
  <2> DEFINE st == IF r = "failed" THEN "error" ELSE "paused"
  <2>1. st \in Statuses /\ WritesAnd(p, st, "end", r)
    BY <1>2, <1>7, Zenon
  <2>2. st = IF r = "failed" THEN "error" ELSE "paused"
    OBVIOUS
  <2> HIDE DEF st
  <2> QED BY <1>3, <1>4, <2>1, <2>2, CommandWrites, Zenon
<1>8. CASE MarkRunning(p)
  <2>1. "ready" \in Steps \ {"end"}
    BY <1>3
  <2> QED BY <1>5, <1>6, <1>8, <2>1, Zenon DEF MarkRunning
<1>9. CASE CheckPasses(p)
  <2>1. PICK step \in Checks : Goes(p, CommandAfter[step])
    BY <1>9, Zenon DEF CheckPasses
  <2>2. CommandAfter[step] \in Steps \ {"end"}
    BY <1>3 DEF Checks, CommandAfter
  <2>3. UNCHANGED registryVars
    BY <1>9, Zenon DEF CheckPasses, registryVars
  <2> QED BY <1>5, <2>1, <2>2, <2>3, Zenon
<1>10. CASE CheckFails(p)
  <2>1. WritesAnd(p, "paused", "end", "refused")
    BY <1>10, Zenon DEF CheckFails
  <2>2. (IF "refused" = "failed" THEN "error" ELSE "paused") = "paused"
    OBVIOUS
  <2> QED BY <1>7, <2>1, <2>2, Zenon
<1>11. CASE PrepareRaises(p)
  BY <1>1, <1>11, CommandEnds, Zenon DEF PrepareRaises, registryVars
<1>12. CASE Configured(p)
  <2>1. "bind" \in Steps \ {"end"}
    BY <1>3
  <2> QED BY <1>5, <1>12, <2>1, Zenon DEF Configured, registryVars
<1>13. CASE MarkRunningAgain(p)
  <2>1. "run" \in Steps \ {"end"}
    BY <1>3
  <2> QED BY <1>6, <1>13, <2>1, Zenon DEF MarkRunningAgain
<1>14. CASE RunReturns(p)
  <2>1. (IF cli[p].cmd = "backtest" THEN "persist" ELSE "settle") \in Steps \ {"end"}
    BY <1>3
  <2> QED BY <1>5, <1>14, <2>1, Zenon DEF RunReturns, registryVars
<1>15. CASE RunFails(p)
  <2>1. WritesAnd(p, "error", "end", "failed")
    BY <1>15, Zenon DEF RunFails
  <2>2. (IF "failed" = "failed" THEN "error" ELSE "paused") = "error"
    OBVIOUS
  <2> QED BY <1>7, <2>1, <2>2, Zenon
<1>16. CASE PersistResult(p)
  <2>1. "snapshot" \in Steps \ {"end"}
    BY <1>3
  <2> QED BY <1>5, <1>16, <2>1, Zenon DEF PersistResult, registryVars
<1>17. CASE SaveSnapshot(p)
  <2>1. "settle" \in Steps \ {"end"}
    BY <1>3
  <2> QED BY <1>5, <1>17, <2>1, Zenon DEF SaveSnapshot, registryVars
<1>18. CASE Settle(p)
  <2>1. WritesAnd(p, "paused", "end", "ok")
    BY <1>18, Zenon DEF Settle
  <2>2. (IF "ok" = "failed" THEN "error" ELSE "paused") = "paused"
    OBVIOUS
  <2> QED BY <1>7, <2>1, <2>2, Zenon
<1> QED BY <1>8, <1>9, <1>10, <1>11, <1>12, <1>13, <1>14, <1>15, <1>16, <1>17, <1>18, Zenon

(* The steps of strategy create.                                           *)
LEMMA CreateSteps ==
    ASSUME CliInv, NEW p \in CliProcs, NEW m \in Modes,
           CreateStatus(p, m) \/ \E s \in Strategies : Create(p, s, m)
    PROVE  CommandsOK' /\ [RegistryNext]_registryVars
<1>1. CommandsOK /\ cli[p] \in Command
  BY Zenon DEF CliInv, CommandsOK
<1>2. CASE CreateStatus(p, m)
  <2>1. InitialStatus(m) \in Statuses
    BY StatusAssumption, CliAssumption DEF InitialStatus
  <2>2. "end" \in Steps
    BY DEF Steps
  <2>3. cli[p].cmd \notin RunCommands
    BY <1>2 DEF CreateStatus, At, RunCommands
  <2>4. WritesAnd(p, InitialStatus(m), "end", "ok")
    BY <1>2, Zenon DEF CreateStatus
  <2> QED BY <2>1, <2>2, <2>3, <2>4, CommandWrites, Zenon
<1>3. ASSUME NEW s \in Strategies, Create(p, s, m)
      PROVE  CommandsOK' /\ [RegistryNext]_registryVars
  <2> DEFINE d == [NoCommand EXCEPT !.cmd = "create", !.sid = s, !.at = "created",
                                    !.left = cli[p].left - 1]
  <2>1. cli' = [cli EXCEPT ![p] = d] /\ CreateStrategy(s, m) /\ cli[p].left > 0
    BY <1>3, Zenon DEF Create
  <2>2. cli[p].left - 1 \in 0 .. MaxCommands
    <3>1. cli[p].left \in 0 .. MaxCommands
      BY <1>1 DEF Command
    <3> QED BY <2>1, <3>1, CliAssumption
  <2>3. "created" \in Steps /\ "create" \in Commands
    BY DEF Steps, Commands
  <2>4. d \in Command /\ d.cmd = "create"
    <3>1. d \in Command
      BY <2>2, <2>3, NoCommandOK, Zenon DEF Command
    <3>2. d.cmd = "create"
      BY NoCommandOK DEF Command
    <3> QED BY <3>1, <3>2
  <2> HIDE DEF d
  <2>5. Told(d)
    BY <2>4 DEF Told, RunCommands
  <2> QED BY <1>1, <2>1, <2>4, <2>5, CommandMoves, Zenon DEF RegistryNext
<1> QED BY <1>2, <1>3, Zenon

(* Each step of a command or of the gateway is an operation of the         *)
(* registry or leaves it alone.                                            *)
LEMMA CliMoves ==
    ASSUME CliInv, [CliNext]_cliVars
    PROVE  CommandsOK' /\ [RegistryNext]_registryVars
<1>1. CASE UNCHANGED <<rows, circuit, cli>>
  <2>1. cli' = cli
    BY <1>1, Zenon
  <2> QED BY <1>1, <2>1, Zenon DEF CliInv, CommandsOK, registryVars
<1>2. ASSUME NEW p \in CliProcs, NEW c \in Commands \ {"create"}, NEW s \in Strategies, Begin(p, c, s)
      PROVE  CommandsOK' /\ [RegistryNext]_registryVars
  BY <1>2, BeginKeeps, Zenon
<1>3. CASE Registered
  <2>1. RegistryNext /\ cli' = cli
    BY <1>3, Zenon DEF Registered, RegistryNext
  <2> QED BY <2>1, Zenon DEF CliInv, CommandsOK
<1>4. CASE Trip
  <2>1. RegistryNext /\ cli' = cli
    BY <1>4, Zenon DEF Trip, RegistryNext
  <2> QED BY <2>1, Zenon DEF CliInv, CommandsOK
<1>5. CASE FanOut \/ UNCHANGED cliVars
  BY <1>1, <1>5, Zenon DEF FanOut, cliVars
<1> QED
  BY <1>2, <1>3, <1>4, <1>5, ShortCommands, RunCommandSteps, CreateSteps, Zenon DEF CliNext

LEMMA CliStep == CliInv /\ [CliNext]_cliVars => CliInv'
BY CliMoves, RegistryStep, Zenon DEF CliInv

LEMMA CliStarts == CliInit => CliInv
<1> SUFFICES ASSUME CliInit PROVE CliInv
  OBVIOUS
<1>1. RegistryInv
  BY RegistryStarts, Zenon DEF CliInit
<1> QED BY <1>1, NoCommandOK, Zenon DEF CliInit, CliInv, CommandsOK

(* The invariant holds in every state the commands and the gateway reach,  *)
(* so that no command leaves an archived strategy, or any while the worker *)
(* circuit is open, enabled.                                               *)
THEOREM CliInductive == CliSpec => []CliInv
BY CliStarts, CliStep, PTL DEF CliSpec

(* The strategy commands, each of which reads and writes in transactions   *)
(* of their own, beside the gateway implement the registry: whatever they  *)
(* do together is a sequence of registry operations.                       *)
THEOREM CliImplementsRegistry == CliSpec => RegistrySpec
<1>1. CliInit => RegistryInit
  BY Zenon DEF CliInit
<1>2. CliInv /\ [CliNext]_cliVars => [RegistryNext]_registryVars
  BY CliMoves, Zenon
<1> QED BY <1>1, <1>2, CliInductive, PTL DEF CliSpec, RegistrySpec

(* No command, in any order with other commands and with the gateway,      *)
(* leaves a strategy enabled that is archived or while the worker circuit  *)
(* is open (cli/main.py).                                                  *)
THEOREM CliEnabledIsAllowed == CliSpec => []EnabledIsAllowed
BY CliImplementsRegistry, RegistryEnabledIsAllowed, PTL

(* Bars are handed out to strategies, and strategies are paused.           *)
LEMMA CliSetsTyped == CliSpec => [](fanned \subseteq Strategies /\ halted \subseteq Strategies)
<1> DEFINE Typed == fanned \subseteq Strategies /\ halted \subseteq Strategies
<1>1. CliInit => Typed
  BY DEF CliInit
<1>2. CliInv /\ Typed /\ [CliNext]_cliVars => Typed'
  <2> SUFFICES ASSUME CliInv, Typed, [CliNext]_cliVars PROVE Typed'
    OBVIOUS
  <2>1. ASSUME NEW p \in CliProcs, Pause(p) PROVE Typed'
    BY <2>1 DEF Pause, CliInv, RegistryInv
  <2>2. CASE FanOut
    BY <2>2 DEF FanOut, CliInv, RegistryInv
  <2>3. CASE fanned' = fanned /\ halted' \subseteq halted
    BY <2>3
  <2>4. ASSUME NEW p \in CliProcs, ViaGateway(p) PROVE fanned' = fanned /\ halted' \subseteq halted
    BY <2>4, Zenon DEF ViaGateway
  <2>5. ASSUME NEW p \in CliProcs,
               \/ \E c \in Commands \ {"create"}, s \in Strategies : Begin(p, c, s)
               \/ Resume(p) \/ RemoveStrategy(p) \/ Update(p) \/ Disable(p) \/ Repair(p)
               \/ \E st \in {"paused", "disabled"} : ErrorClear(p, st)
        PROVE  fanned' = fanned /\ halted' = halted
    BY <2>5, Zenon DEF Begin, Resume, RemoveStrategy, Update, Disable, Repair, ErrorClear
  <2>6. ASSUME NEW p \in CliProcs,
               \/ MarkRunning(p) \/ CheckPasses(p) \/ CheckFails(p) \/ PrepareRaises(p)
               \/ Configured(p) \/ MarkRunningAgain(p) \/ RunReturns(p) \/ RunFails(p)
               \/ PersistResult(p) \/ SaveSnapshot(p) \/ Settle(p)
               \/ \E s \in Strategies, m \in Modes : Create(p, s, m)
               \/ \E m \in Modes : CreateStatus(p, m)
        PROVE  fanned' = fanned /\ halted' = halted
    BY <2>6, Zenon DEF MarkRunning, CheckPasses, CheckFails, PrepareRaises, Configured, MarkRunningAgain,
       RunReturns, RunFails, PersistResult, SaveSnapshot, Settle, Create, CreateStatus
  <2>7. CASE Registered \/ Trip \/ UNCHANGED cliVars
    BY <2>3, <2>7, Zenon DEF Registered, Trip, cliVars
  <2> HIDE DEF Typed
  <2> QED BY <2>1, <2>2, <2>3, <2>4, <2>5, <2>6, <2>7 DEF CliNext
<1> HIDE DEF Typed
<1> QED BY <1>1, <1>2, CliInductive, PTL DEF CliSpec, Typed

(* A backtest or replay that reports its outcome has written the status    *)
(* that goes with it, for any number of commands, strategies and gateway   *)
(* calls in between (cli/main.py).                                         *)
THEOREM CliVerdictIsWritten == CliSpec => []VerdictIsWritten
<1>1. CliInv => RegistryTypeOK /\ cli \in [CliProcs -> Command] /\ VerdictMatches
  BY RegistryInvMeans, Zenon DEF CliInv, CommandsOK, Told, VerdictMatches
<1>2. CliInv /\ fanned \subseteq Strategies /\ halted \subseteq Strategies => VerdictIsWritten
  BY <1>1, Zenon DEF CliTypeOK, Command, VerdictIsWritten
<1> QED BY <1>2, CliInductive, CliSetsTyped, PTL

(* Where the bot is in the stream of updates: what it has passed or told   *)
(* Telegram to forget was taken up, a batch continues there, and what is   *)
(* at or after the offset was not run in this life of the daemon.          *)
BotInv ==
    /\ BotTypeOK /\ boots \in Nat /\ Len(inbox) <= MaxUpdates
    /\ thread = "none" <=> service = "stopped"
    /\ thread = "batch" <=> batch # <<>>
    /\ service # "stopped" => boots > 0
    /\ \A u \in 1 .. forgotten : u \in attempted
    /\ \A u \in 1 .. offset - 1 : u \in attempted
    /\ \A i \in 1 .. Len(batch) : batch[i] = batch[1] + i - 1
    /\ batch # <<>> => batch[1] >= offset /\ batch[1] \in {offset, forgotten + 1}
    /\ \A u \in 1 .. MaxUpdates :
         ran[u] <= boots /\ (service # "stopped" /\ u >= offset => ran[u] < boots)
-----------------------------------------------------------------------------
(* The Telegram bot                                                        *)

LEMMA BotStarts == BotInit => BotInv
<1> SUFFICES ASSUME BotInit PROVE BotInv
  OBVIOUS
<1>1. BotTypeOK /\ boots \in Nat /\ Len(inbox) <= MaxUpdates
  BY BotAssumption DEF BotInit, BotTypeOK, Sent
<1> QED BY <1>1, BotAssumption DEF BotInit, BotInv

(* What the steps that touch no update keep.                               *)
BotSame ==
    /\ inbox' = inbox /\ forgotten' = forgotten /\ attempted' = attempted
    /\ ran' = ran /\ replies' = replies

LEMMA BotProcessSteps ==
    ASSUME BotInv,
           StartDaemon \/ StopDaemon \/ DaemonExits \/ DaemonKilled \/ BeginPoll \/ PollFails
    PROVE  BotInv'
<1>1. BotSame /\ BotTypeOK /\ boots \in Nat /\ boots' \in Nat
  BY BotAssumption DEF BotInv, BotSame, StartDaemon, StopDaemon, DaemonExits, DaemonKilled, BeginPoll,
     PollFails
<1>2. /\ Len(inbox) \in Nat /\ batch \in Seq(Sent) /\ ran \in [1 .. MaxUpdates -> Nat]
      /\ offset \in 0 .. Len(inbox) + 1
  BY <1>1 DEF BotTypeOK
<1>3. CASE StartDaemon
  <2>1. batch' = <<>> /\ offset' = 0 /\ boots' = boots + 1 /\ service' = "running" /\ thread' = "idle"
    BY <1>3 DEF StartDaemon
  <2>2. BotTypeOK'
    BY <1>1, <1>2, <2>1 DEF BotSame, BotTypeOK, Sent
  <2>3. ASSUME NEW u \in 1 .. MaxUpdates PROVE ran'[u] < boots'
    <3>1. ran[u] \in Nat /\ ran[u] <= boots
      BY <1>2 DEF BotInv
    <3> QED BY <1>1, <2>1, <3>1 DEF BotSame
  <2>4. \A u \in 1 .. MaxUpdates : ran'[u] <= boots' /\ ran'[u] < boots'
    BY <1>1, <1>2, <2>3 DEF BotSame
  <2> QED BY <1>1, <2>1, <2>2, <2>4 DEF BotInv, BotSame
<1>4. CASE StopDaemon \/ DaemonExits \/ BeginPoll \/ PollFails
  <2>1. UNCHANGED <<offset, boots, batch>> /\ (service' # "stopped" => service # "stopped")
    BY <1>4 DEF StopDaemon, DaemonExits, BeginPoll, PollFails
  <2>2. BotTypeOK'
    BY <1>1, <1>4, <2>1 DEF BotSame, BotTypeOK, Sent, StopDaemon, DaemonExits, BeginPoll, PollFails
  <2>3. /\ thread' = "none" <=> service' = "stopped"
        /\ thread' = "batch" <=> batch' # <<>>
        /\ service' # "stopped" => boots' > 0
    BY <1>4 DEF BotInv, BotTypeOK, StopDaemon, DaemonExits, BeginPoll, PollFails
  <2> QED BY <1>1, <2>1, <2>2, <2>3 DEF BotInv, BotSame
<1>5. CASE DaemonKilled
  <2>1. batch' = <<>> /\ UNCHANGED <<offset, boots>> /\ service' = "stopped" /\ thread' = "none"
    BY <1>5 DEF DaemonKilled
  <2>2. BotTypeOK'
    BY <1>1, <2>1 DEF BotSame, BotTypeOK, Sent
  <2> QED BY <1>1, <2>1, <2>2 DEF BotInv, BotSame
<1> QED BY <1>3, <1>4, <1>5

LEMMA WiderSeq == ASSUME NEW S, NEW T, S \subseteq T, NEW s \in Seq(S) PROVE s \in Seq(T)
OBVIOUS

LEMMA UserSendsKeeps == ASSUME BotInv, NEW k \in Kinds, UserSends(k) PROVE BotInv'
<1>1. /\ inbox \in Seq(Kinds) /\ Len(inbox) \in Nat /\ Len(inbox) < MaxUpdates
      /\ inbox' = Append(inbox, k)
      /\ UNCHANGED <<forgotten, service, thread, offset, batch, attempted, ran, replies, boots>>
  BY DEF BotInv, BotTypeOK, UserSends
<1>2. inbox' \in Seq(Kinds) /\ Len(inbox') = Len(inbox) + 1 /\ Len(inbox') <= MaxUpdates
  BY <1>1, BotAssumption
<1>3. Sent \subseteq Sent' /\ Sent = 1 .. Len(inbox)
  BY <1>1, <1>2 DEF Sent
<1>4. batch \in Seq(Sent')
  <2>1. batch \in Seq(Sent)
    BY DEF BotInv, BotTypeOK
  <2> QED BY <1>3, <2>1, WiderSeq, Zenon
<1>5. BotTypeOK'
  <2>1. forgotten \in 0 .. Len(inbox') /\ offset \in 0 .. Len(inbox') + 1
    BY <1>1, <1>2 DEF BotInv, BotTypeOK
  <2>2. attempted \subseteq Sent' /\ replies \subseteq attempted
    BY <1>3, Zenon DEF BotInv, BotTypeOK
  <2> QED BY <1>1, <1>2, <1>4, <2>1, <2>2, Zenon DEF BotInv, BotTypeOK
<1> QED BY <1>1, <1>2, <1>5 DEF BotInv

LEMMA UpdatesArriveKeeps == ASSUME BotInv, UpdatesArrive PROVE BotInv'
<1> DEFINE low  == IF offset - 1 > forgotten THEN offset - 1 ELSE forgotten
           high == IF low + BatchLimit < Len(inbox) THEN low + BatchLimit ELSE Len(inbox)
           b == [i \in 1 .. high - low |-> low + i]
<1>1. /\ thread = "polling" /\ forgotten' = low /\ batch' = b
      /\ thread' = IF high = low THEN "idle" ELSE "batch"
      /\ UNCHANGED <<inbox, service, offset, attempted, ran, replies, boots>>
  BY DEF UpdatesArrive
<1>2. /\ Len(inbox) \in Nat /\ forgotten \in 0 .. Len(inbox) /\ offset \in 0 .. Len(inbox) + 1
      /\ service # "stopped" /\ batch = <<>>
  BY <1>1 DEF BotInv, BotTypeOK
<1>3. /\ low \in 0 .. Len(inbox) /\ high \in low .. Len(inbox) /\ high - low \in Nat
      /\ low >= offset - 1 /\ low \in {offset - 1, forgotten}
  BY <1>2, BotAssumption
<1> HIDE DEF low, high
<1>4. b \in Seq(Sent) /\ Len(b) = high - low
  <2>1. \A i \in 1 .. high - low : low + i \in Sent
    BY <1>2, <1>3 DEF Sent, BotInv, BotTypeOK
  <2> QED BY <1>3, <2>1
<1>5. \A i \in 1 .. Len(b) : b[i] = low + i
  BY <1>4, Zenon
<1> HIDE DEF b
<1>6. b # <<>> <=> high # low
  <2>1. b = <<>> <=> Len(b) = 0
    BY <1>4
  <2> QED BY <1>3, <1>4, <2>1
<1>7. b # <<>> => b[1] = low + 1
  BY <1>3, <1>4, <1>5, <1>6
<1>8. \A i \in 1 .. Len(b) : b[i] = b[1] + i - 1
  <2> SUFFICES ASSUME NEW i \in 1 .. Len(b) PROVE b[i] = b[1] + i - 1
    OBVIOUS
  <2>1. 1 \in 1 .. Len(b) /\ i \in Int /\ low \in Int
    BY <1>3, <1>4
  <2>2. b[1] = low + 1 /\ b[i] = low + i
    BY <1>5, <2>1
  <2> QED BY <2>1, <2>2
<1>9. BotTypeOK'
  BY <1>1, <1>3, <1>4 DEF BotInv, BotTypeOK, Sent
<1>10. \A u \in 1 .. low : u \in attempted
  BY <1>2, <1>3 DEF BotInv
<1>11. b # <<>> => b[1] >= offset /\ b[1] \in {offset, low + 1}
  BY <1>2, <1>3, <1>7
<1>12. /\ thread' = "none" <=> service' = "stopped"
       /\ thread' = "batch" <=> batch' # <<>>
  BY <1>1, <1>2, <1>6
<1> QED BY <1>1, <1>8, <1>9, <1>10, <1>11, <1>12 DEF BotInv

LEMMA ProcessKeeps == ASSUME BotInv, NEW o, ProcessUpdate(o) PROVE BotInv'
<1> DEFINE u == Head(batch)
<1>1. /\ thread = "batch" /\ attempted' = attempted \cup {u}
      /\ ran' = [ran EXCEPT ![u] = IF o.run THEN @ + 1 ELSE @]
      /\ replies' = IF o.reply THEN replies \cup {u} ELSE replies
      /\ batch' = Tail(batch) /\ offset' = Past(u)
      /\ thread' = IF Len(batch) = 1 THEN "idle" ELSE "batch"
      /\ UNCHANGED <<inbox, forgotten, service, boots>>
  BY DEF ProcessUpdate
<1>2. /\ Len(inbox) \in Nat /\ forgotten \in 0 .. Len(inbox) /\ offset \in 0 .. Len(inbox) + 1
      /\ service # "stopped" /\ batch # <<>> /\ batch \in Seq(Sent) /\ Sent = 1 .. Len(inbox)
      /\ boots \in Nat /\ Len(inbox) <= MaxUpdates /\ ran \in [1 .. MaxUpdates -> Nat]
  BY <1>1 DEF BotInv, BotTypeOK, Sent
<1>3. /\ u = batch[1] /\ u \in Sent /\ Len(batch) \in Nat \ {0}
      /\ Tail(batch) \in Seq(Sent) /\ Len(Tail(batch)) = Len(batch) - 1
      /\ \A i \in 1 .. Len(batch) - 1 : Tail(batch)[i] = batch[i + 1]
  BY <1>2
<1>4. u >= offset /\ u \in {offset, forgotten + 1}
  BY <1>2, <1>3 DEF BotInv
<1>5. u \in 1 .. Len(inbox) /\ u \in 1 .. MaxUpdates
  BY <1>2, <1>3, BotAssumption
<1>6. Tail(batch) # <<>> <=> Len(batch) # 1
  <2>1. Tail(batch) = <<>> <=> Len(Tail(batch)) = 0
    BY <1>3
  <2>2. Len(Tail(batch)) = 0 <=> Len(batch) = 1
    BY <1>3
  <2> QED BY <2>1, <2>2
<1>7. \A i \in 1 .. Len(Tail(batch)) : Tail(batch)[i] = u + i
  <2> SUFFICES ASSUME NEW i \in 1 .. Len(Tail(batch)) PROVE Tail(batch)[i] = u + i
    OBVIOUS
  <2>1. i \in 1 .. Len(batch) - 1 /\ i + 1 \in 1 .. Len(batch)
    BY <1>3
  <2>2. Tail(batch)[i] = batch[i + 1] /\ batch[i + 1] = batch[1] + (i + 1) - 1
    BY <1>3, <2>1 DEF BotInv
  <2> QED BY <1>3, <1>5, <2>1, <2>2
<1> DEFINE tl == Tail(batch)
<1>8. tl \in Seq(Sent) /\ batch' = tl /\ (tl # <<>> <=> Len(batch) # 1) /\ Len(tl) \in Nat
      /\ (tl # <<>> => 1 \in 1 .. Len(tl))
  BY <1>1, <1>3, <1>6
<1>9. \A i \in 1 .. Len(tl) : tl[i] = u + i
  BY <1>7
<1> HIDE DEF u, tl
<1>10. offset' = u + 1
  BY <1>1, <1>2, <1>4, <1>5 DEF Past
<1>11. BotTypeOK'
  <2>1. inbox' \in Seq(Kinds) /\ forgotten' \in 0 .. Len(inbox') /\ offset' \in 0 .. Len(inbox') + 1
    BY <1>1, <1>2, <1>5, <1>10 DEF BotInv, BotTypeOK
  <2>2. Sent' = Sent /\ batch' \in Seq(Sent')
    BY <1>1, <1>8, Zenon DEF Sent
  <2>3. attempted' \subseteq Sent' /\ replies' \subseteq attempted'
    BY <1>1, <1>2, <1>5, <2>2 DEF BotInv, BotTypeOK
  <2>4. ran' \in [1 .. MaxUpdates -> Nat]
    <3> DEFINE x == IF o.run THEN ran[u] + 1 ELSE ran[u]
    <3>1. ran[u] \in Nat /\ ran' = [ran EXCEPT ![u] = x]
      BY <1>1, <1>2, <1>5
    <3>2. x \in Nat
      BY <3>1
    <3> HIDE DEF x
    <3> QED BY <1>2, <3>1, <3>2, Zenon
  <2> QED BY <1>1, <2>1, <2>2, <2>3, <2>4 DEF BotInv, BotTypeOK
<1>12. \A i \in 1 .. Len(tl) : tl[i] = tl[1] + i - 1
  <2> SUFFICES ASSUME NEW i \in 1 .. Len(tl) PROVE tl[i] = tl[1] + i - 1
    OBVIOUS
  <2>1. 1 \in 1 .. Len(tl) /\ i \in Int /\ u \in Int
    BY <1>5, <1>8
  <2>2. tl[1] = u + 1 /\ tl[i] = u + i
    BY <1>9, <2>1
  <2> QED BY <2>1, <2>2
<1>13. \A v \in 1 .. u : v \in attempted'
  <2> SUFFICES ASSUME NEW v \in 1 .. u PROVE v \in attempted'
    OBVIOUS
  <2>1. CASE v = u
    BY <1>1, <2>1
  <2>2. CASE v # u
    <3>1. v \in 1 .. offset - 1 \/ v \in 1 .. forgotten
      BY <1>2, <1>4, <1>5, <2>2
    <3> QED BY <1>1, <3>1 DEF BotInv
  <2> QED BY <2>1, <2>2
<1>14. ASSUME NEW v \in 1 .. MaxUpdates
       PROVE  ran'[v] <= boots' /\ (v >= offset' => ran'[v] < boots')
  <2>1. ran[v] \in Nat /\ ran[v] <= boots /\ (v >= offset => ran[v] < boots)
    BY <1>2, Zenon DEF BotInv
  <2>2. CASE v = u
    <3>1. ran'[v] \in {ran[v], ran[v] + 1}
      BY <1>1, <1>2, <1>5, <2>2
    <3> QED BY <1>1, <1>2, <1>4, <1>5, <1>10, <2>1, <2>2, <3>1
  <2>3. CASE v # u
    <3>1. ran'[v] = ran[v]
      BY <1>1, <1>2, <2>3
    <3> QED BY <1>1, <1>2, <1>4, <1>5, <1>10, <2>1, <3>1
  <2> QED BY <2>2, <2>3
<1>15. tl # <<>> => tl[1] >= offset' /\ tl[1] \in {offset', forgotten' + 1}
  BY <1>5, <1>8, <1>9, <1>10
<1>16. /\ thread' = "none" <=> service' = "stopped"
       /\ thread' = "batch" <=> batch' # <<>>
  BY <1>1, <1>2, <1>8, Zenon
<1>17. /\ \A v \in 1 .. forgotten' : v \in attempted'
       /\ \A v \in 1 .. offset' - 1 : v \in attempted'
  <2>1. \A v \in 1 .. forgotten : v \in attempted'
    BY <1>1 DEF BotInv
  <2>2. offset' - 1 = u
    BY <1>5, <1>10
  <2> QED BY <1>1, <1>13, <2>1, <2>2
<1>18. boots' \in Nat /\ Len(inbox') <= MaxUpdates /\ (service' # "stopped" => boots' > 0)
  BY <1>1, <1>2 DEF BotInv
<1> QED BY <1>8, <1>11, <1>12, <1>14, <1>15, <1>16, <1>17, <1>18, Zenon DEF BotInv

LEMMA BotStep == BotInv /\ [BotNext]_botVars => BotInv'
<1> SUFFICES ASSUME BotInv, [BotNext]_botVars PROVE BotInv'
  OBVIOUS
<1>1. CASE UNCHANGED botVars
  BY <1>1 DEF botVars, BotInv, BotTypeOK, Sent
<1>2. CASE Process
  BY <1>2, ProcessKeeps, Zenon DEF Process
<1>3. CASE UpdatesArrive
  BY <1>3, UpdatesArriveKeeps
<1>4. CASE \E k \in Kinds : UserSends(k)
  BY <1>4, UserSendsKeeps, Zenon
<1> QED BY <1>1, <1>2, <1>3, <1>4, BotProcessSteps, Zenon DEF BotNext

\* _poll_once and TelegramDaemonService: whatever batch size, stops and kills, no update
\* is lost between a poll and its processing, and no life of the daemon runs the command
\* of an update twice.
THEOREM BotTakesUpEachOnce == BotSpec => [](BotTypeOK /\ NoneLostNoneRepeated)
<1>1. BotInv => BotTypeOK /\ NoneLostNoneRepeated
  BY DEF BotInv, NoneLostNoneRepeated
<1> QED BY <1>1, BotStarts, BotStep, PTL DEF BotSpec

-----------------------------------------------------------------------------
(* The menus of the bot                                                    *)

RowActions ==
    {"show", "resume", "pause", "live_enable", "live_stop", "paper_start", "paper_stop",
     "confirm_delete", "delete"}
CardActions ==
    {"show", "status", "backtest", "replay", "pause", "resume", "paper_start", "paper_stop",
     "live_enable", "live_stop", "error_clear"}
PineActions == {"show", "compile", "activate", "remove"}

(* A button of one of the keyboards; the ids in it are ids of strategies   *)
(* and sources.                                                            *)
IsButton(b) ==
    \/ b \in home_menu_keyboard
    \/ b \in risk_keyboard
    \/ b \in data_jobs_keyboard
    \/ b \in reports_keyboard
    \/ b \in telegram_menu_markup
    \/ b \in MenuCallbacks
    \/ \E a \in RowActions, s \in StrategyIds : b = Op("strat", a, s)
    \/ \E a \in CardActions, s \in StrategyIds : b = Op("strategy", a, s)
    \/ \E a \in PineActions, x \in SourceIds : b = Op("pine", a, x)

MenuInv ==
    /\ \A b \in shown : IsButton(b)
    /\ DOMAIN statusOf \subseteq StrategyIds
    /\ sources \subseteq SourceIds

LEMMA RowButtons ==
    ASSUME NEW s \in StrategyIds, NEW a, a \in RowActions
    PROVE  IsButton(Op("strat", a, s))
BY Zenon DEF IsButton

LEMMA ListButtons ==
    ASSUME MenuInv, NEW b, b \in strategy_list_keyboard
    PROVE  IsButton(b)
<1>1. CASE b \in {Op("strat", "refresh", ""), Op("home", "", "")}
  <2>1. b \in MenuCallbacks
    BY <1>1, Zenon DEF MenuCallbacks
  <2> QED BY <2>1, Zenon DEF IsButton
<1>2. CASE b \in UNION {StrategyRow(s, statusOf[s]) : s \in DOMAIN statusOf}
  <2>1. PICK s \in DOMAIN statusOf : b \in StrategyRow(s, statusOf[s])
    BY <1>2, Zenon
  <2>2. s \in StrategyIds
    BY <2>1, Zenon DEF MenuInv
  <2>3. \E a \in RowActions : b = Op("strat", a, s)
    <3> DEFINE st == statusOf[s]
    <3>1. b \in StrategyRow(s, st)
      BY <2>1, Zenon
    <3> HIDE DEF st
    <3> QED BY <3>1, Zenon DEF StrategyRow, RowActions
  <2> QED BY <2>2, <2>3, RowButtons, Zenon
<1> DEFINE X == UNION {StrategyRow(s, statusOf[s]) : s \in DOMAIN statusOf}
           Y == {Op("strat", "refresh", ""), Op("home", "", "")}
<1>3. strategy_list_keyboard = X \cup Y
  BY Zenon DEF strategy_list_keyboard
<1>4. (b \in X => IsButton(b)) /\ (b \in Y => IsButton(b))
  BY <1>1, <1>2, Zenon
<1> HIDE DEF X, Y
<1> QED BY <1>3, <1>4, Zenon

LEMMA PineButtons ==
    ASSUME MenuInv, NEW b, b \in pine_list_keyboard
    PROVE  IsButton(b)
<1>1. CASE b \in {Op("pine", "refresh", ""), Op("home", "", "")}
  <2>1. b \in MenuCallbacks
    BY <1>1, Zenon DEF MenuCallbacks
  <2> QED BY <2>1, Zenon DEF IsButton
<1>2. CASE b \in UNION {PineRow(x) : x \in sources}
  <2>1. PICK x \in sources : b \in PineRow(x)
    BY <1>2, Zenon
  <2>2. PICK a \in PineActions : b = Op("pine", a, x)
    BY <2>1, Zenon DEF PineRow, PineActions
  <2>3. x \in SourceIds
    BY <2>1, Zenon DEF MenuInv
  <2> QED BY <2>2, <2>3, Zenon DEF IsButton
<1> DEFINE X == UNION {PineRow(x) : x \in sources}
           Y == {Op("pine", "refresh", ""), Op("home", "", "")}
<1>3. pine_list_keyboard = X \cup Y
  BY Zenon DEF pine_list_keyboard
<1>4. (b \in X => IsButton(b)) /\ (b \in Y => IsButton(b))
  BY <1>1, <1>2, Zenon
<1> HIDE DEF X, Y
<1> QED BY <1>3, <1>4, Zenon

LEMMA StrategyButtons ==
    ASSUME NEW s \in StrategyIds, NEW b,
           b \in confirm_delete_keyboard(s) \/ b \in strategy_actions_keyboard(s)
    PROVE  IsButton(b)
<1>1. CASE b = Op("strat", "delete", s)
  BY <1>1, RowButtons, Zenon DEF RowActions
<1>2. CASE b = Op("strat", "cancel_delete", "")
  <2>1. b \in MenuCallbacks
    BY <1>2, Zenon DEF MenuCallbacks
  <2> QED BY <2>1, Zenon DEF IsButton
<1>3. CASE b \in strategy_actions_keyboard(s)
  <2>1. PICK a \in CardActions : b = Op("strategy", a, s)
    BY <1>3, Zenon DEF strategy_actions_keyboard, CardActions
  <2> QED BY <2>1, Zenon DEF IsButton
<1> QED BY <1>1, <1>2, <1>3, Zenon DEF confirm_delete_keyboard

(* The parts of a button.                                                  *)
LEMMA OpParts ==
    ASSUME NEW b, NEW d, NEW a, NEW x, b = Op(d, a, x)
    PROVE  b[1] = "op" /\ b[2] = d /\ b[3] = a /\ b[4] = x
BY DEF Op

(* Two, three or more words are not the answer Error.                      *)
LEMMA NotErrors ==
    ASSUME NEW x, NEW y, NEW z
    PROVE  /\ <<x, y>> # Error /\ <<x, y, z>> # Error
           /\ <<x, y>> # Menu /\ <<x, y, z>> # Menu /\ Menu # Error
<1>1. Len(<<x, y>>) = 2 /\ Len(<<x, y, z>>) = 3 /\ Len(Error) = 1 /\ Len(Menu) = 0
  BY DEF Error, Menu
<1> DEFINE p == <<x, y>>
           q == <<x, y, z>>
<1>2. Len(p) = 2 /\ Len(q) = 3
  BY <1>1
<1> HIDE DEF p, q
<1>3. p # Error /\ q # Error /\ p # Menu /\ q # Menu /\ Menu # Error
  BY <1>1, <1>2
<1> QED BY <1>3 DEF p, q

(* A press on a button leads to a command or a menu, but for the button    *)
(* that asks to confirm a removal.                                         *)
LEMMA ButtonAnswered ==
    ASSUME NEW b, IsButton(b), b[1] = "op", b[3] # "confirm_delete"
    PROVE  map_callback_data(b) # Error
<1>1. CASE b \in MenuCallbacks
  <2>1. map_callback_data(b) = Menu
    BY <1>1, Zenon DEF map_callback_data
  <2> QED BY <2>1, NotErrors, Zenon
<1>2. CASE b \notin MenuCallbacks /\ b \in CommandCallbacks
  <2>1. map_callback_data(b) = <<b[2], b[3]>>
    BY <1>2, Zenon DEF map_callback_data
  <2> QED BY <2>1, NotErrors, Zenon
<1>3. CASE b \notin MenuCallbacks /\ b \notin CommandCallbacks
  <2>1. CASE \E a \in RowActions, s \in StrategyIds : b = Op("strat", a, s)
    <3>1. PICK a \in RowActions, s \in StrategyIds : b = Op("strat", a, s)
      BY <2>1, Zenon
    <3>0. s # NoArg
      BY MenuAssumption, Zenon DEF NoArg
    <3>2. b[2] = "strat" /\ b[3] = a /\ b[4] = s /\ s # NoArg
      BY <3>0, <3>1, OpParts
    <3>3. map_callback_data(b) = map_strat_list_callback(a, s)
      BY <1>3, <3>2 DEF map_callback_data
    <3>4. a = "delete" \/ a \in StrategyActions
      BY <3>2 DEF RowActions, StrategyActions
    <3>5. \/ map_strat_list_callback(a, s) = <<"strategy", "remove", s>>
          \/ map_strat_list_callback(a, s) = <<"strategy", a, s>>
      BY <3>4 DEF map_strat_list_callback
    <3> QED BY <3>3, <3>5, NotErrors, Zenon
  <2>2. CASE \E a \in CardActions, s \in StrategyIds : b = Op("strategy", a, s)
    <3>1. PICK a \in CardActions, s \in StrategyIds : b = Op("strategy", a, s)
      BY <2>2, Zenon
    <3>0. s # NoArg
      BY MenuAssumption, Zenon DEF NoArg
    <3>2. b[2] = "strategy" /\ b[3] = a /\ b[4] = s /\ s # NoArg
      BY <3>0, <3>1, OpParts
    <3>3. map_callback_data(b) = map_strategy_callback(a, s)
      BY <1>3, <3>2 DEF map_callback_data
    <3>4. map_strategy_callback(a, s) = <<"strategy", a, s>>
      BY <3>1, Zenon DEF map_strategy_callback, CardActions, StrategyActions
    <3> QED BY <3>3, <3>4, NotErrors, Zenon
  <2>3. CASE \E a \in PineActions, x \in SourceIds : b = Op("pine", a, x)
    <3>1. PICK a \in PineActions, x \in SourceIds : b = Op("pine", a, x)
      BY <2>3, Zenon
    <3>0. x # NoArg
      BY MenuAssumption, Zenon DEF NoArg
    <3>2. b[2] = "pine" /\ b[3] = a /\ b[4] = x /\ x # NoArg
      BY <3>0, <3>1, OpParts
    <3>3. map_callback_data(b) = map_pine_callback(a, x)
      BY <1>3, <3>2 DEF map_callback_data
    <3>4. \/ map_pine_callback(a, x) = <<"pine", a, x>>
          \/ map_pine_callback(a, x) = <<"pine", "artifacts", x>>
      BY <3>1 DEF map_pine_callback, PineActions
    <3> QED BY <3>3, <3>4, NotErrors, Zenon
  <2>4. CASE b \in reports_keyboard
    <3>1. Op("reports", "list", "") \in CommandCallbacks
      BY Zenon DEF CommandCallbacks
    <3>2. PICK r \in {"strategy_summary", "data_coverage", "worker_health"} :
              b = Op("reports", "show", r)
      BY <1>3, <2>4, <3>1, Zenon DEF reports_keyboard
    <3>3. b[2] = "reports" /\ b[3] = "show" /\ b[4] = r
      BY <3>2, OpParts
    <3>4. b[4] # NoArg
      BY <3>2, <3>3, Zenon DEF NoArg
    <3>5. map_callback_data(b) = <<"reports", "show", b[4]>>
      BY <1>3, <3>3, <3>4 DEF map_callback_data
    <3> QED BY <3>5, NotErrors, Zenon
  <2>5. b \notin risk_keyboard /\ b \notin data_jobs_keyboard
    BY <1>3, Zenon DEF CommandCallbacks
  <2>6. b \notin home_menu_keyboard
    <3>1. \A c \in home_menu_keyboard : c \in MenuCallbacks \/ c \in CommandCallbacks
      <4>1. /\ Op("strategies", "list", "") \in MenuCallbacks /\ Op("pine", "list", "") \in MenuCallbacks
            /\ Op("menu", "data_jobs", "") \in MenuCallbacks
        BY Zenon DEF MenuCallbacks
      <4>2. /\ Op("status", "", "") \in CommandCallbacks /\ Op("reports", "list", "") \in CommandCallbacks
            /\ Op("plugins", "list", "") \in CommandCallbacks
            /\ Op("streams", "status", "") \in CommandCallbacks
            /\ Op("config", "show", "") \in CommandCallbacks
        BY Zenon DEF CommandCallbacks
      <4>3. Op("risk", "status", "") \in CommandCallbacks
        BY Zenon DEF CommandCallbacks, risk_keyboard
      <4> QED BY <4>1, <4>2, <4>3, Zenon DEF home_menu_keyboard
    <3> QED BY <1>3, <3>1, Zenon
  <2>7. b \notin telegram_menu_markup
    <3> SUFFICES ASSUME b \in telegram_menu_markup PROVE FALSE
      OBVIOUS
    <3>1. PICK a : b = <<"openpine", a, "", "">>
      BY Zenon DEF telegram_menu_markup
    <3>2. b[1] = "openpine"
      BY <3>1, Zenon
    <3> QED BY <3>2
  <2> QED BY <1>3, <2>1, <2>2, <2>3, <2>4, <2>5, <2>6, <2>7, Zenon DEF IsButton
<1> QED BY <1>1, <1>2, <1>3, Zenon

(* The keyboards that come with an answer hold buttons.                    *)
LEMMA AnswerButtons ==
    ASSUME MenuInv, NEW b, IsButton(b)
    PROVE  /\ \A c \in MenuFor(b) : IsButton(c)
           /\ \A c \in MenuAfter(b) : IsButton(c)
<1>1. /\ \A c \in home_menu_keyboard : IsButton(c)
      /\ \A c \in data_jobs_keyboard : IsButton(c)
      /\ \A c \in reports_keyboard : IsButton(c)
      /\ \A c \in risk_keyboard : IsButton(c)
  BY Zenon DEF IsButton
<1>2. (\A c \in strategy_list_keyboard : IsButton(c)) /\ (\A c \in pine_list_keyboard : IsButton(c))
  BY ListButtons, PineButtons, Zenon
<1>3. /\ b[2] = "strategy" => b[4] \in StrategyIds
      /\ b[2] = "strat" /\ b[3] = "confirm_delete" => b[4] \in StrategyIds
  <2>1. CASE \E a \in RowActions, s \in StrategyIds : b = Op("strat", a, s)
    <3>1. PICK a \in RowActions, s \in StrategyIds : b = Op("strat", a, s)
      BY <2>1, Zenon
    <3>2. b[2] = "strat" /\ b[4] = s
      BY <3>1, OpParts
    <3> QED BY <3>2
  <2>2. CASE \E a \in CardActions, s \in StrategyIds : b = Op("strategy", a, s)
    <3>1. PICK a \in CardActions, s \in StrategyIds : b = Op("strategy", a, s)
      BY <2>2, Zenon
    <3>2. b[2] = "strategy" /\ b[4] = s
      BY <3>1, OpParts
    <3> QED BY <3>2
  <2>3. CASE \E a \in PineActions, x \in SourceIds : b = Op("pine", a, x)
    <3>1. b[2] = "pine"
      BY <2>3, OpParts, Zenon
    <3> QED BY <3>1
  <2>4. CASE b \in home_menu_keyboard
    <3>1. PICK d \in {"status", "strategies", "pine", "risk", "menu", "reports", "plugins",
                      "streams", "config"} : \E a, x : b = Op(d, a, x)
      BY <2>4, Zenon DEF home_menu_keyboard
    <3>2. b[2] = d
      BY <3>1, OpParts
    <3> QED BY <3>1, <3>2
  <2>5. CASE b \in risk_keyboard
    <3>1. b[2] = "risk"
      BY <2>5, OpParts, Zenon DEF risk_keyboard
    <3> QED BY <3>1
  <2>6. CASE b \in data_jobs_keyboard
    <3>1. PICK d \in {"data", "jobs", "queue", "workers", "providers"} : \E a, x : b = Op(d, a, x)
      BY <2>6, Zenon DEF data_jobs_keyboard
    <3>2. b[2] = d
      BY <3>1, OpParts
    <3> QED BY <3>1, <3>2
  <2>7. CASE b \in reports_keyboard
    <3>1. b[2] = "reports"
      BY <2>7, OpParts, ZenonT(40) DEF reports_keyboard
    <3> QED BY <3>1
  <2>8. CASE b \in telegram_menu_markup
    <3>1. PICK a \in {"strategies", "risk", "data", "reports", "pause", "resume"} :
              b = <<"openpine", a, "", "">>
      BY <2>8, Zenon DEF telegram_menu_markup
    <3>2. b[2] = a
      BY <3>1, Zenon
    <3> QED BY <3>1, <3>2, Zenon
  <2>9. CASE b \in MenuCallbacks
    <3>1. \/ \E d \in {"home", "menu", "pine", "strategies"} : \E a, x : b = Op(d, a, x)
          \/ \E a \in {"refresh", "cancel_delete"} : b = Op("strat", a, "")
      BY <2>9, Zenon DEF MenuCallbacks
    <3>2. CASE \E d \in {"home", "menu", "pine", "strategies"} : \E a, x : b = Op(d, a, x)
      <4>1. PICK d \in {"home", "menu", "pine", "strategies"} : \E a, x : b = Op(d, a, x)
        BY <3>2, Zenon
      <4>2. b[2] = d
        BY <4>1, OpParts
      <4> QED BY <4>1, <4>2
    <3>3. CASE \E a \in {"refresh", "cancel_delete"} : b = Op("strat", a, "")
      <4>1. PICK a \in {"refresh", "cancel_delete"} : b = Op("strat", a, "")
        BY <3>3, Zenon
      <4>2. b[3] = a
        BY <4>1, Zenon DEF Op
      <4>3. b[2] = "strat"
        BY <4>1, Zenon DEF Op
      <4> QED BY <4>1, <4>2, <4>3, Zenon
    <3> QED BY <3>1, <3>2, <3>3, Zenon
  <2> QED BY <2>1, <2>2, <2>3, <2>4, <2>5, <2>6, <2>7, <2>8, <2>9, Zenon DEF IsButton
<1>4. ASSUME NEW c \in MenuFor(b) PROVE IsButton(c)
  <2>1. \/ c \in data_jobs_keyboard \/ c \in strategy_list_keyboard \/ c \in pine_list_keyboard
        \/ c \in home_menu_keyboard
        \/ b[2] = "strat" /\ b[3] = "confirm_delete" /\ c \in confirm_delete_keyboard(b[4])
    BY <1>4, Zenon DEF MenuFor
  <2> QED BY <1>1, <1>2, <1>3, <2>1, StrategyButtons, Zenon
<1>5. ASSUME NEW c \in MenuAfter(b) PROVE IsButton(c)
  <2>1. \/ c \in risk_keyboard \/ c \in reports_keyboard \/ c \in home_menu_keyboard
        \/ b[2] = "strategy" /\ c \in strategy_actions_keyboard(b[4])
    BY <1>5, Zenon DEF MenuAfter
  <2>2. b[2] = "strategy" => b[4] \in StrategyIds
    BY <1>3, Zenon
  <2> QED BY <1>1, <2>1, <2>2, StrategyButtons, Zenon
<1> QED BY <1>4, <1>5, Zenon

(* A press keeps to strategies and sources that may be registered.         *)
LEMMA PressKeeps ==
    ASSUME MenuInv, NEW b \in shown, Press(b)
    PROVE  MenuInv'
<1> DEFINE argv == map_callback_data(b)
<1>1. IsButton(b)
  BY Zenon DEF MenuInv
<1>2. shown' = shown \/ shown' = MenuFor(b) \/ shown' = shown \cup MenuAfter(b)
  BY DEF Press
<1>3. \A c \in shown' : IsButton(c)
  BY <1>1, <1>2, AnswerButtons, Zenon DEF MenuInv
<1>4. DOMAIN statusOf' \subseteq DOMAIN statusOf
  <2>1. statusOf' = statusOf \/ statusOf' = StatusAfter(argv)
    BY Zenon DEF Press
  <2> HIDE DEF argv
  <2>2. DOMAIN StatusAfter(argv) \subseteq DOMAIN statusOf
    BY DEF StatusAfter
  <2> QED BY <2>1, <2>2, Zenon
<1>5. sources' \subseteq sources
  <2>1. sources' = sources \/ sources' = SourcesAfter(argv)
    BY Zenon DEF Press
  <2> HIDE DEF argv
  <2>2. SourcesAfter(argv) \subseteq sources
    BY Zenon DEF SourcesAfter
  <2> QED BY <2>1, <2>2, Zenon
<1> QED BY <1>3, <1>4, <1>5, Zenon DEF MenuInv

(* Every button a chat can be shown is one of a keyboard's.                *)
LEMMA MenuStep ==
    ASSUME MenuInv, [MenuNext]_menuVars
    PROVE  MenuInv'
<1>1. CASE MenuCommand
  BY <1>1, Zenon DEF MenuCommand, MenuInv, IsButton
<1>2. CASE SendMenu
  <2>1. \A c \in shown' : c \in shown \/ c \in telegram_menu_markup
    BY <1>2, Zenon DEF SendMenu
  <2>2. \A c \in shown' : IsButton(c)
    BY <2>1, Zenon DEF MenuInv, IsButton
  <2> QED BY <1>2, <2>2, Zenon DEF SendMenu, MenuInv
<1>3. CASE RegisteredElsewhere
  <2>1. shown' = shown
    BY <1>3, Zenon DEF RegisteredElsewhere
  <2>2. DOMAIN statusOf' \subseteq StrategyIds
    <3>1. CASE statusOf' = statusOf
      BY <3>1, Zenon DEF MenuInv
    <3>2. CASE \E s \in StrategyIds, st \in MenuStatuses :
                 statusOf' = [x \in DOMAIN statusOf \cup {s} |-> IF x = s THEN st ELSE statusOf[x]]
      <4>1. \E s \in StrategyIds : DOMAIN statusOf' = DOMAIN statusOf \cup {s}
        BY <3>2
      <4> QED BY <4>1, Zenon DEF MenuInv
    <3> QED BY <1>3, <3>1, <3>2, Zenon DEF RegisteredElsewhere
  <2>3. sources' \subseteq SourceIds
    BY <1>3, Zenon DEF RegisteredElsewhere, MenuInv
  <2> QED BY <2>1, <2>2, <2>3, Zenon DEF MenuInv
<1>4. CASE \E b \in shown : Press(b)
  BY <1>4, PressKeeps, Zenon
<1>5. CASE UNCHANGED menuVars
  BY <1>5, Zenon DEF menuVars, MenuInv
<1> QED BY <1>1, <1>2, <1>3, <1>4, <1>5, Zenon DEF MenuNext

(* Every button a chat can be shown, but for the one that asks to confirm  *)
(* a removal, leads to a command or a menu.                                *)
THEOREM MenuAnswersItsButtons == MenuSpec => []ButtonsAreAnswered
<1>1. MenuInit => MenuInv
  <2> SUFFICES ASSUME MenuInit PROVE MenuInv
    OBVIOUS
  <2>1. DOMAIN statusOf = {}
    BY DEF MenuInit
  <2> QED BY <2>1, Zenon DEF MenuInit, MenuInv
<1>2. MenuInv /\ [MenuNext]_menuVars => MenuInv'
  BY MenuStep, Zenon
<1>3. MenuInv => ButtonsAreAnswered
  BY ButtonAnswered, Zenon DEF MenuInv, ButtonsAreAnswered
<1> QED BY <1>1, <1>2, <1>3, PTL DEF MenuSpec

(* What the bot and its menus promise together: each update is taken up    *)
(* once in a life of the daemon, and every button leads somewhere.         *)
THEOREM BotServesItsUsers == BotSpec /\ MenuSpec => []BotServes
BY BotTakesUpEachOnce, MenuAnswersItsButtons, PTL DEF BotServes
=============================================================================
