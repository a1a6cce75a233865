-------------------------- MODULE StrategyRegistry --------------------------
(***************************************************************************)
(* The strategy rows and the background-worker circuit of                  *)
(* openpine/registry/strategies.py.  Every operation is one SQLite         *)
(* transaction (BEGIN IMMEDIATE, or a single statement), so it is one      *)
(* action although the gateway, its worker process and the command line    *)
(* use connections of their own.  An operation that raises rolls back and  *)
(* changes nothing: its guard is the negation of the raise.                *)
(***************************************************************************)
EXTENDS Naturals, FiniteSets

CONSTANTS
    Strategies,  \* strategy ids
    Statuses,    \* values of the status column
    Modes        \* values of the mode column

ASSUME StatusAssumption == {"pending", "running", "paused"} \subseteq Statuses

VARIABLES
    rows,     \* strategy_instances: the rows that exist
    circuit   \* runtime_circuits: is_open of "background_worker"

registryVars == <<rows, circuit>>

Row == [enabled: BOOLEAN, archived: BOOLEAN, status: Statuses, mode: Modes]

(* The types of the variables.                                             *)
RegistryTypeOK ==
    /\ DOMAIN rows \subseteq Strategies
    /\ rows \in [DOMAIN rows -> Row]
    /\ circuit \in BOOLEAN

RegistryInit ==
    /\ rows = [s \in {} |-> {}]
    /\ circuit = FALSE

Write(s, row) == rows' = [rows EXCEPT ![s] = row]

(* create_strategy and register_strategy: never enabled.                   *)
CreateStrategy(s, m) ==
    LET row == [enabled |-> FALSE, archived |-> FALSE, status |-> "pending", mode |-> m]
    IN /\ s \in Strategies \ DOMAIN rows
       /\ rows' = [x \in DOMAIN rows \cup {s} |-> IF x = s THEN row ELSE rows[x]]
       /\ UNCHANGED circuit

(* Mutant: the circuit is not looked at.                                   *)
MayEnable_NoCircuit(archived) == ~archived

(* What set_enabled, activate_strategy, transition_strategy and            *)
(* patch_strategy_atomic require of a strategy that will be enabled.       *)
MayEnable(archived) == ~archived /\ ~circuit

SetEnabled(s, e) ==
    /\ s \in DOMAIN rows
    /\ e => MayEnable(rows[s].archived)
    /\ Write(s, [rows[s] EXCEPT !.enabled = e])
    /\ UNCHANGED circuit

ActivateStrategy(s, st, m) ==
    /\ s \in DOMAIN rows
    /\ MayEnable(rows[s].archived)
    /\ Write(s, [rows[s] EXCEPT !.enabled = TRUE, !.status = st, !.mode = m])
    /\ UNCHANGED circuit

(* transition_strategy: e is the enabled flag the row ends with, given or  *)
(* kept.                                                                   *)
TransitionStrategy(s, e, st, m) ==
    /\ s \in DOMAIN rows
    /\ e => MayEnable(rows[s].archived)
    /\ Write(s, [rows[s] EXCEPT !.enabled = e, !.status = st, !.mode = m])
    /\ UNCHANGED circuit

(* Archiving pauses a strategy that runs or is about to.                   *)
PausedIfActive(st) == IF st \in {"running", "pending"} THEN "paused" ELSE st

(* patch_strategy_atomic: e, a and st hold the new enabled, archived and   *)
(* status values, and are empty where the patch leaves the field out.      *)
PatchStrategy(s, e, a, st) ==
    LET old == rows[s]
        archived == IF a = {} THEN old.archived ELSE TRUE \in a
        enabled == /\ TRUE \notin a
                   /\ IF e = {} THEN old.enabled ELSE TRUE \in e
        status == IF st = {} THEN old.status ELSE CHOOSE x \in st : TRUE
    IN /\ s \in DOMAIN rows
       /\ ~(TRUE \in e /\ archived)
       /\ ~(enabled /\ circuit)
       /\ Write(s, [old EXCEPT !.enabled = enabled, !.archived = archived,
                               !.status = IF TRUE \in a THEN PausedIfActive(status) ELSE status])
       /\ UNCHANGED circuit

SetArchived(s, a) ==
    /\ s \in DOMAIN rows
    /\ Write(s, [rows[s] EXCEPT !.archived = a,
                                !.enabled = IF a THEN FALSE ELSE @,
                                !.status = IF a THEN PausedIfActive(@) ELSE @])
    /\ UNCHANGED circuit

UpdateStatus(s, st) ==
    /\ s \in DOMAIN rows
    /\ Write(s, [rows[s] EXCEPT !.status = st])
    /\ UNCHANGED circuit

UpdateMode(s, m) ==
    /\ s \in DOMAIN rows
    /\ Write(s, [rows[s] EXCEPT !.mode = m])
    /\ UNCHANGED circuit

DeleteStrategy(s) ==
    /\ s \in DOMAIN rows
    /\ rows' = [x \in DOMAIN rows \ {s} |-> rows[x]]
    /\ UNCHANGED circuit

Paused(row) == IF row.enabled THEN [row EXCEPT !.enabled = FALSE, !.status = "paused"] ELSE row

PauseAllEnabled ==
    /\ rows' = [s \in DOMAIN rows |-> Paused(rows[s])]
    /\ UNCHANGED circuit

(* trip_worker_circuit opens the circuit and pauses, in one transaction.   *)
TripWorkerCircuit ==
    /\ circuit' = TRUE
    /\ rows' = [s \in DOMAIN rows |-> Paused(rows[s])]

ResetWorkerCircuit ==
    /\ circuit' = FALSE
    /\ UNCHANGED rows

Given(S) == {{}} \cup {{x} : x \in S}

RegistryNext ==
    \/ \E s \in Strategies, m \in Modes : CreateStrategy(s, m)
    \/ \E s \in Strategies, e \in BOOLEAN : SetEnabled(s, e)
    \/ \E s \in Strategies, st \in Statuses, m \in Modes : ActivateStrategy(s, st, m)
    \/ \E s \in Strategies, e \in BOOLEAN, st \in Statuses, m \in Modes : TransitionStrategy(s, e, st, m)
    \/ \E s \in Strategies, e, a \in Given(BOOLEAN), st \in Given(Statuses) : PatchStrategy(s, e, a, st)
    \/ \E s \in Strategies, a \in BOOLEAN : SetArchived(s, a)
    \/ \E s \in Strategies, st \in Statuses : UpdateStatus(s, st)
    \/ \E s \in Strategies, m \in Modes : UpdateMode(s, m)
    \/ \E s \in Strategies : DeleteStrategy(s)
    \/ PauseAllEnabled
    \/ TripWorkerCircuit
    \/ ResetWorkerCircuit

RegistrySpec == RegistryInit /\ [][RegistryNext]_registryVars

-----------------------------------------------------------------------------
(* Properties                                                              *)

(* An enabled strategy is not archived and the worker circuit is closed,   *)
(* whichever operations the gateway and the command line interleave after  *)
(* trip_worker_circuit or set_archived, creation, partial patches and      *)
(* unarchiving included.                                                   *)
EnabledIsAllowed == \A s \in DOMAIN rows : rows[s].enabled => ~rows[s].archived /\ ~circuit

=============================================================================
