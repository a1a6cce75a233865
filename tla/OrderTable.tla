------------------------------ MODULE OrderTable ------------------------------
(***************************************************************************)
(* The order table with its duplicate protection (openpine/orders), the    *)
(* order and position routes that read it, DELETE /data/orders and the     *)
(* strategy ledger (openpine/storage/strategy_ledger.py).  Several         *)
(* processes have an OrderManager of their own on the one database; a      *)
(* client follows the table with the updated_after cursor.                 *)
(***************************************************************************)
EXTENDS Integers, Sequences, FiniteSets, FiniteSetsExt

CONSTANTS Managers,      \* processes with an OrderManager
          OrderIds,      \* client order ids
          PageLimit,     \* the limit of GET /orders
          SlowClock,     \* whether two writes may fall into one millisecond
          MaxMs, MaxTrades   \* bounds: the clock, the ledger's trades

ASSUME TableAssumption == SlowClock \in BOOLEAN /\ MaxMs \in Nat /\ MaxTrades \in Nat

VARIABLES orderRow,  \* client id -> [status, at]: status "none" when there is no row
          seenIds,   \* manager -> its _seen_client_ids
          refused,   \* client ids answered with None
          ms,        \* the clock
          cursor,    \* the polling client's cursor
          known,     \* client id -> the update it has seen last
          ledgerTrades,    \* the ledger's trades
          ledgerPosition,  \* the ledger's position, 0 when there is none, and its identity
          page       \* the last answer of GET /positions/{strategy_id}

tableVars == <<orderRow, seenIds, refused, ms, cursor, known, ledgerTrades, ledgerPosition, page>>

NoRow == [status |-> "none", at |-> 0]
Stored == {c \in OrderIds : orderRow[c].status # "none"}

TableTypeOK ==
  /\ orderRow \in [OrderIds -> [status : {"none", "pending", "filled", "cancelled"}, at : 0..MaxMs]]
  /\ seenIds \in [Managers -> SUBSET OrderIds] /\ refused \subseteq OrderIds
  /\ ms \in 0..MaxMs /\ cursor \in 0..ms /\ known \in [OrderIds -> 0..MaxMs]
  /\ ledgerTrades \in 0..MaxTrades
  /\ ledgerPosition \in [side : {"none", "flat", "long"}, id : {0, 1}]
  /\ page \in {"none", "ok", "503"}

TableInit ==
  /\ orderRow = [c \in OrderIds |-> NoRow]
  /\ seenIds = [m \in Managers |-> {}] /\ refused = {}
  /\ ms = 0 /\ cursor = 0 /\ known = [c \in OrderIds |-> 0]
  /\ ledgerTrades = 0 /\ ledgerPosition = [side |-> "none", id |-> 0] /\ page = "none"

\* The clock at a write: later than before unless two writes may share a millisecond.
WriteAt(t) == (SlowClock \/ t > ms) /\ ms' = t

-----------------------------------------------------------------------------
\* OrderManager.__init__: the ids of the table.
LoadExistingIds(m) ==
  /\ seenIds' = [seenIds EXCEPT ![m] = Stored]
  /\ UNCHANGED <<orderRow, refused, ms, cursor, known, ledgerTrades, ledgerPosition, page>>

\* submit_order of an id the manager has seen: None.
SubmitDuplicate(m, c) ==
  /\ c \in seenIds[m]
  /\ refused' = refused \cup {c}
  /\ UNCHANGED <<orderRow, seenIds, ms, cursor, known, ledgerTrades, ledgerPosition, page>>

\* submit_order: the id is remembered first; the insert then succeeds or raises, and it
\* raises when another process has stored the id (the column is unique).
SubmitNew(m, c) ==
  /\ c \notin seenIds[m]
  /\ seenIds' = [seenIds EXCEPT ![m] = @ \cup {c}]
  /\ \/ /\ c \notin Stored
        /\ \E t \in (1..MaxMs) \cap (ms..MaxMs) : WriteAt(t) /\ orderRow' = [orderRow EXCEPT ![c] = [status |-> "pending", at |-> t]]
     \/ UNCHANGED <<orderRow, ms>>
  /\ UNCHANGED <<refused, cursor, known, ledgerTrades, ledgerPosition, page>>

\* update_order_status.
UpdateOrderStatus(c, status) ==
  /\ c \in Stored /\ orderRow[c].status # status
  /\ \E t \in (1..MaxMs) \cap (ms..MaxMs) : WriteAt(t) /\ orderRow' = [orderRow EXCEPT ![c] = [status |-> status, at |-> t]]
  /\ UNCHANGED <<seenIds, refused, cursor, known, ledgerTrades, ledgerPosition, page>>

\* DELETE /data/orders with a status filter, or with none.
DeleteDataOrders(statuses) ==
  /\ \E c \in Stored : orderRow[c].status \in statuses
  /\ orderRow' = [c \in OrderIds |-> IF orderRow[c].status \in statuses THEN NoRow ELSE orderRow[c]]
  /\ UNCHANGED <<seenIds, refused, ms, cursor, known, ledgerTrades, ledgerPosition, page>>

-----------------------------------------------------------------------------
\* Mutant: the newest rows first.
PageOf_Newest(rows) == /\ Cardinality(rows) = Min({PageLimit, Cardinality({c \in Stored : orderRow[c].at > cursor})})
                       /\ \A c \in rows : orderRow[c].at > cursor
                       /\ \A c \in rows, d \in Stored \ rows : orderRow[d].at > cursor => orderRow[c].at >= orderRow[d].at

\* GET /orders?updated_after=cursor: the rows after the cursor in the order of their
\* update, at most PageLimit of them; ties come in any order.
PageOf(rows) ==
  /\ Cardinality(rows) = Min({PageLimit, Cardinality({c \in Stored : orderRow[c].at > cursor})})
  /\ \A c \in rows : orderRow[c].at > cursor
  /\ \A c \in rows, d \in Stored \ rows : orderRow[d].at > cursor => orderRow[c].at <= orderRow[d].at

\* The client asks with the last updated_at it has seen.
Poll ==
  \E rows \in SUBSET Stored :
    /\ rows # {} /\ PageOf(rows)
    /\ known' = [c \in OrderIds |-> IF c \in rows THEN orderRow[c].at ELSE known[c]]
    /\ cursor' = Max({orderRow[c].at : c \in rows})
    /\ UNCHANGED <<orderRow, seenIds, refused, ms, ledgerTrades, ledgerPosition, page>>

-----------------------------------------------------------------------------
\* record_trade appends a row.
RecordTrade ==
  /\ ledgerTrades < MaxTrades
  /\ ledgerTrades' = ledgerTrades + 1
  /\ UNCHANGED <<orderRow, seenIds, refused, ms, cursor, known, ledgerPosition, page>>

\* upsert_position: an existing position keeps its id.
UpsertPosition(side) ==
  /\ ledgerPosition.side # side
  /\ ledgerPosition' = [side |-> side, id |-> IF ledgerPosition.id = 0 THEN 1 ELSE ledgerPosition.id]
  /\ UNCHANGED <<orderRow, seenIds, refused, ms, cursor, known, ledgerTrades, page>>

\* GET /positions/{strategy_id}: a trade of the ledger has neither the "side" nor the
\* "pnl" the route reads, and any exception is a 503.
GetStrategyPositions ==
  /\ page' = IF ledgerTrades = 0 THEN "ok" ELSE "503"
  /\ UNCHANGED <<orderRow, seenIds, refused, ms, cursor, known, ledgerTrades, ledgerPosition>>

TableNext ==
  \/ \E m \in Managers : LoadExistingIds(m)
  \/ \E m \in Managers, c \in OrderIds : SubmitDuplicate(m, c) \/ SubmitNew(m, c)
  \/ \E c \in OrderIds, s \in {"filled", "cancelled"} : UpdateOrderStatus(c, s)
  \/ \E s \in {{"cancelled"}, {"pending", "filled", "cancelled"}} : DeleteDataOrders(s)
  \/ Poll \/ RecordTrade \/ GetStrategyPositions
  \/ \E side \in {"flat", "long"} : UpsertPosition(side)

TableSpec == TableInit /\ [][TableNext]_tableVars

-----------------------------------------------------------------------------
\* GET /orders "incremented by updated_at cursor": an update the client has not been told
\* of is still ahead of its cursor, so that a later poll returns it.  It holds when no two
\* writes share a millisecond (SlowClock FALSE).
PollerMissesNothing ==
  TableTypeOK /\ \A c \in Stored : known[c] # orderRow[c].at => orderRow[c].at > cursor

=============================================================================
