----------------------------- MODULE CellTable -----------------------------
(***************************************************************************)
(* A row of the table locker_cells, which the order domain and the         *)
(* reservation domain both write, and the order domain's updates of it.    *)
(* The columns kept are occupancy_status, current_order_id,                *)
(* reservation_key and lock_expires_at; no condition of either domain       *)
(* reads door_status or version.                                           *)
(***************************************************************************)
EXTENDS Integers

CONSTANTS Cells,     \* the ids of the cells, numbers because queries ORDER BY id
          Orders,    \* the ids orders can get
          NoOrder,   \* current_order_id IS NULL
          Keys,      \* reservation keys
          NoKey,     \* reservation_key IS NULL
          SiteOf,    \* the site of each cell, through its device
          DeviceOf,  \* the device of each cell
          SizeOf     \* the size of each cell

ASSUME CellTableAssumption ==
  /\ Cells \subseteq Nat \ {0}
  /\ NoOrder \notin Orders
  /\ NoKey \notin Keys

\* DISABLED exists in the schema and no code writes it.
CellStatus == {"IDLE", "LOCKED", "OCCUPIED"}

\* until = 0 stands for lock_expires_at IS NULL.
CellRow == [occ : CellStatus, order : Orders \cup {NoOrder},
            key : Keys \cup {NoKey}, until : Nat]

IdleRow == [occ |-> "IDLE", order |-> NoOrder, key |-> NoKey, until |-> 0]

\* The condition of CreateOrder's SELECT and of its UPDATE.
IdleUnbound(row) == row.occ = "IDLE" /\ row.order = NoOrder

\* Faulty variant: the release leaves current_order_id as it was.
releaseCell_KeepsOrder(cells, c, o) ==
  [cells EXCEPT ![c] = IF @.order = o THEN [@ EXCEPT !.occ = "IDLE"] ELSE @]

\* UPDATE locker_cells SET ... WHERE id = c AND current_order_id = o
releaseCell(cells, c, o) ==
  [cells EXCEPT ![c] = IF @.order = o THEN IdleRow ELSE @]

\* Faulty variant: the order's status goes into the cell's column.
occupyCell_OrderStatus(cells, c, o) ==
  [cells EXCEPT ![c] = IF @.order = o THEN [@ EXCEPT !.occ = "IN_STORAGE"] ELSE @]

occupyCell(cells, c, o) ==
  [cells EXCEPT ![c] = IF @.order = o THEN [@ EXCEPT !.occ = "OCCUPIED"] ELSE @]

bindCell(cells, c, o) ==
  [cells EXCEPT ![c] = [@ EXCEPT !.occ = "LOCKED", !.order = o]]
=============================================================================
