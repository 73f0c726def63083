---------------------------- MODULE OrderService ----------------------------
(***************************************************************************)
(* The order domain at the grain at which requests interleave: the use     *)
(* cases of internal/order/biz/usecase.go over the MySQL repository of     *)
(* internal/order/data/repository.go.                                      *)
(*                                                                         *)
(* A request is served by a goroutine of its own.  Its unlocked read, its  *)
(* reading of the clock, its call to the door and its transaction are      *)
(* separate steps; a transaction holds the row lock of its order from its  *)
(* SELECT ... FOR UPDATE to its commit and is one step, except CreateOrder,*)
(* whose SKIP LOCKED select others can observe.  A request refused without *)
(* having changed anything is no step until it has begun.                  *)
(***************************************************************************)
EXTENDS OrderStates, OrderFees, CellTable, Sequences, FiniteSets

CONSTANTS Reqs,         \* the requests that can be in service at a time
          Durations,    \* the rental durations asked for, in ticks
          MaxTime,      \* bound on the clock
          Development,  \* APP_ENV = development
          PickupArgs,   \* arguments OpenPickupDoor binds to its UPDATE: 2 in the code
          Faults        \* whether a database error or a crash can end a request

ASSUME OrderServiceAssumption ==
  /\ Durations \subseteq Nat \ {0}
  /\ MaxTime \in Nat
  /\ Development \in BOOLEAN
  /\ PickupArgs \in Nat
  /\ Faults \in BOOLEAN

\* The "?" marks of the statement OpenPickupDoor prepares.
PickupPlaceholders == 3

\* No cell has id 0: the cell of an order id not in use.
NoCell == 0

VARIABLES now,      \* the clock, starting at 1 so that 0 can stand for NULL
          orders,   \* the table orders
          cells,    \* the table locker_cells
          rowLock,  \* cells whose row, with its device's, an open transaction locks
          log,      \* per order, its rows of order_status_logs
          req       \* the requests in service

vars == <<now, orders, cells, rowLock, log, req>>

OrderRow == [status : OrderStatus \cup {NoStatus}, cell : Cells \cup {NoCell},
             duration : Nat, expires : Nat, overdueFee : Nat]

NoOrderRow == [status |-> NoStatus, cell |-> NoCell, duration |-> 0,
               expires |-> 0, overdueFee |-> 0]

Ops == {"create", "get", "cancel", "pay", "deposit", "pickup", "settle"}

\* cell, expires and duration are what the request read or was given, at the
\* instant it captured for its transaction, fee the penalty it computed.
Request == [pc : {"idle", "insert", "lazy", "mark", "door", "opened", "tx"},
            op : Ops \cup {"none"}, order : Orders \cup {NoOrder},
            cell : Cells \cup {NoCell}, duration : Nat, expires : Nat,
            at : Nat, fee : Nat]

Idle == [pc |-> "idle", op |-> "none", order |-> NoOrder, cell |-> NoCell,
         duration |-> 0, expires |-> 0, at |-> 0, fee |-> 0]

Init ==
  /\ now = 1
  /\ orders = [o \in Orders |-> NoOrderRow]
  /\ cells = [c \in Cells |-> IdleRow]
  /\ rowLock = [c \in Cells |-> FALSE]
  /\ log = [o \in Orders |-> <<>>]
  /\ req = [r \in Reqs |-> Idle]

-----------------------------------------------------------------------------
\* Creating an order.

DeviceLocked(c) == \E d \in Cells : rowLock[d] /\ DeviceOf[d] = DeviceOf[c]

\* Faulty variant: the allocation query reads without locking.
Allocatable_NoLock(site, size) ==
  {c \in Cells : SiteOf[c] = site /\ SizeOf[c] = size /\ IdleUnbound(cells[c])}

\* The rows the allocation query can lock without waiting.
Allocatable(site, size) ==
  {c \in Cells : /\ SiteOf[c] = site
                 /\ SizeOf[c] = size
                 /\ IdleUnbound(cells[c])
                 /\ ~DeviceLocked(c)}

UnusedIds == {o \in Orders : orders[o].status = NoStatus}

\* Bound: AUTO_INCREMENT never runs out, the set Orders does.
IdsLeft == Cardinality(UnusedIds) > Cardinality({r \in Reqs : req[r].pc = "insert"})

\* SELECT ... ORDER BY c.id LIMIT 1 FOR UPDATE SKIP LOCKED.  With no such row
\* the caller is told ErrNoAvailableCell.  The first row is taken of those whose
\* device the statement can lock: a heartbeat, a site's update or a reservation
\* in progress makes it pass over a whole device.
CreateOrder(r, site, size, duration) ==
  /\ req[r].pc = "idle"
  /\ IdsLeft
  /\ \E c \in Allocatable(site, size) :
       /\ \A d \in Allocatable(site, size) : DeviceOf[d] = DeviceOf[c] => c <= d
       /\ rowLock' = [rowLock EXCEPT ![c] = TRUE]
       /\ req' = [req EXCEPT ![r] = [Idle EXCEPT !.pc = "insert", !.op = "create",
                                                 !.cell = c, !.duration = duration]]
  /\ UNCHANGED <<now, orders, cells, log>>

\* The rest of that transaction: order row, cell row and first log row.
InsertOrder(r) ==
  LET c == req[r].cell IN
  /\ req[r].pc = "insert"
  /\ IF IdleUnbound(cells[c])
     THEN \E o \in UnusedIds :
            /\ orders' = [orders EXCEPT ![o] = [NoOrderRow EXCEPT !.status = "PENDING_PAYMENT",
                                                                  !.cell = c,
                                                                  !.duration = req[r].duration]]
            /\ cells' = bindCell(cells, c, o)
            /\ log' = [log EXCEPT ![o] = <<[from |-> NoStatus, to |-> "PENDING_PAYMENT"]>>]
     ELSE UNCHANGED <<orders, cells, log>>  \* no row updated: ErrNoAvailableCell
  /\ rowLock' = [rowLock EXCEPT ![c] = FALSE]
  /\ req' = [req EXCEPT ![r] = Idle]
  /\ UNCHANGED now

-----------------------------------------------------------------------------
\* The operations on an order, each up to what it does before its transaction.

Placed(o) == orders[o].status # NoStatus

\* GetOrder, and ListOrders for each order of its page: an order read as
\* IN_STORAGE goes on to the expiry test, any other is returned as read.
GetOrder(r, o) ==
  /\ req[r].pc = "idle"
  /\ orders[o].status = "IN_STORAGE"
  /\ req' = [req EXCEPT ![r] = [Idle EXCEPT !.pc = "lazy", !.op = "get", !.order = o,
                                            !.expires = orders[o].expires]]
  /\ UNCHANGED <<now, orders, cells, rowLock, log>>

SettleOverdue(r, o) ==
  /\ Development
  /\ req[r].pc = "idle"
  /\ Placed(o)
  /\ req' = [req EXCEPT ![r] =
               [Idle EXCEPT !.pc = IF orders[o].status = "IN_STORAGE" THEN "lazy" ELSE "tx",
                            !.op = "settle", !.order = o, !.expires = orders[o].expires]]
  /\ UNCHANGED <<now, orders, cells, rowLock, log>>

CancelOrder(r, o) ==
  /\ req[r].pc = "idle"
  /\ Placed(o)
  /\ req' = [req EXCEPT ![r] = [Idle EXCEPT !.pc = "tx", !.op = "cancel", !.order = o]]
  /\ UNCHANGED <<now, orders, cells, rowLock, log>>

ConfirmDevelopmentPayment(r, o) ==
  /\ Development
  /\ req[r].pc = "idle"
  /\ Placed(o)
  /\ req' = [req EXCEPT ![r] = [Idle EXCEPT !.pc = "tx", !.op = "pay", !.order = o]]
  /\ UNCHANGED <<now, orders, cells, rowLock, log>>

OpenDepositDoor(r, o) ==
  /\ req[r].pc = "idle"
  /\ orders[o].status = "AWAITING_DEPOSIT"
  /\ req' = [req EXCEPT ![r] = [Idle EXCEPT !.pc = "door", !.op = "deposit",
                                            !.order = o, !.cell = orders[o].cell]]
  /\ UNCHANGED <<now, orders, cells, rowLock, log>>

\* The status is tested, the expiry is not.
OpenPickupDoor(r, o) ==
  /\ req[r].pc = "idle"
  /\ orders[o].status \in {"IN_STORAGE", "AWAITING_PICKUP"}
  /\ req' = [req EXCEPT ![r] = [Idle EXCEPT !.pc = "door", !.op = "pickup",
                                            !.order = o, !.cell = orders[o].cell]]
  /\ UNCHANGED <<now, orders, cells, rowLock, log>>

\* The door gateway opens the cell whose number was read.
OpenDoor(r) ==
  /\ req[r].pc = "door"
  /\ req' = [req EXCEPT ![r].pc = "opened"]
  /\ UNCHANGED <<now, orders, cells, rowLock, log>>

\* transition reads the clock, then waits for the row lock.
BeginTx(r) ==
  /\ req[r].pc = "opened"
  /\ req' = [req EXCEPT ![r] = [@ EXCEPT !.pc = "tx", !.at = now]]
  /\ UNCHANGED <<now, orders, cells, rowLock, log>>

-----------------------------------------------------------------------------
\* The lazy overdue transition.

\* GetOrder returns after it, SettleOverdue goes on to its transaction.
AfterLazy(q) == IF q.op = "settle" THEN [q EXCEPT !.pc = "tx", !.fee = 0] ELSE Idle

\* Faulty variant: an order is overdue at the instant it expires.
applyLazyOverdue_AtExpiry(r) ==
  LET q == req[r] IN
  /\ q.pc = "lazy"
  /\ req' = [req EXCEPT ![r] =
               IF now >= q.expires
               THEN [q EXCEPT !.pc = "mark",
                              !.fee = computeOverdueFee(SizeOf[orders[q.order].cell],
                                                        q.expires, now)]
               ELSE AfterLazy(q)]
  /\ UNCHANGED <<now, orders, cells, rowLock, log>>

applyLazyOverdue(r) ==
  LET q == req[r] IN
  /\ q.pc = "lazy"
  /\ req' = [req EXCEPT ![r] =
               IF now > q.expires
               THEN [q EXCEPT !.pc = "mark",
                              !.fee = computeOverdueFee(SizeOf[orders[q.order].cell],
                                                        q.expires, now)]
               ELSE AfterLazy(q)]
  /\ UNCHANGED <<now, orders, cells, rowLock, log>>

Logged(o, from, to) == [log EXCEPT ![o] = Append(@, [from |-> from, to |-> to])]

\* Faulty variant: the UPDATE does not test the status.
MarkOverdue_Unconditional(r) ==
  LET q == req[r] IN
  /\ q.pc = "mark"
  /\ orders' = [orders EXCEPT ![q.order] = [@ EXCEPT !.status = "OVERDUE",
                                                     !.overdueFee = q.fee]]
  /\ log' = Logged(q.order, "IN_STORAGE", "OVERDUE")
  /\ req' = [req EXCEPT ![r] = AfterLazy(q)]
  /\ UNCHANGED <<now, cells, rowLock>>

\* UPDATE ... WHERE status = 'IN_STORAGE'; no row changed is no error.
MarkOverdue(r) ==
  LET q == req[r] IN
  /\ q.pc = "mark"
  /\ IF orders[q.order].status = "IN_STORAGE"
     THEN /\ orders' = [orders EXCEPT ![q.order] = [@ EXCEPT !.status = "OVERDUE",
                                                            !.overdueFee = q.fee]]
          /\ log' = Logged(q.order, "IN_STORAGE", "OVERDUE")
     ELSE UNCHANGED <<orders, log>>
  /\ req' = [req EXCEPT ![r] = AfterLazy(q)]
  /\ UNCHANGED <<now, cells, rowLock>>

\* A failed MarkOverdue is swallowed and the use case goes on.
MarkOverdueFails(r) ==
  /\ Faults
  /\ req[r].pc = "mark"
  /\ req' = [req EXCEPT ![r] = AfterLazy(@)]
  /\ UNCHANGED <<now, orders, cells, rowLock, log>>

-----------------------------------------------------------------------------
\* The transactions.  Accepts is the status test under the row lock.

\* Faulty variant: a paid order that awaits its deposit can be cancelled.
Accepts_CancelPaid(q) ==
  LET row == orders[q.order] IN
  CASE q.op = "cancel"  -> row.status \in {"PENDING_PAYMENT", "AWAITING_DEPOSIT"}
    [] q.op = "pay"     -> row.status = "PENDING_PAYMENT"
    [] q.op = "deposit" -> row.status = "AWAITING_DEPOSIT"
    [] q.op = "settle"  -> row.status = "OVERDUE"
    [] OTHER            -> FALSE

Accepts(q) ==
  LET row == orders[q.order] IN
  CASE q.op \in {"cancel", "pay"} -> row.status = "PENDING_PAYMENT"
    [] q.op = "deposit"           -> row.status = "AWAITING_DEPOSIT"
    [] q.op = "settle"            -> row.status = "OVERDUE"
    [] q.op = "pickup"            -> \/ row.status = "AWAITING_PICKUP"
                                     \/ row.status = "IN_STORAGE" /\ q.at <= row.expires
    [] OTHER                      -> FALSE

InTx(r, op) == req[r].pc = "tx" /\ req[r].op = op /\ Accepts(req[r])

Finished(r) == req' = [req EXCEPT ![r] = Idle]

CommitCancel(r) ==
  LET o == req[r].order IN
  /\ InTx(r, "cancel")
  /\ orders' = [orders EXCEPT ![o].status = "CANCELLED"]
  /\ cells' = releaseCell(cells, orders[o].cell, o)
  /\ log' = Logged(o, orders[o].status, "CANCELLED")
  /\ Finished(r)
  /\ UNCHANGED <<now, rowLock>>

\* Faulty variant: one log row for the two transitions.
CommitPayment_OneLog(r) ==
  LET o == req[r].order IN
  /\ InTx(r, "pay")
  /\ orders' = [orders EXCEPT ![o].status = "AWAITING_DEPOSIT"]
  /\ log' = Logged(o, "PENDING_PAYMENT", "AWAITING_DEPOSIT")
  /\ Finished(r)
  /\ UNCHANGED <<now, cells, rowLock>>

CommitPayment(r) ==
  LET o == req[r].order IN
  /\ InTx(r, "pay")
  /\ orders' = [orders EXCEPT ![o].status = "AWAITING_DEPOSIT"]
  /\ log' = [log EXCEPT ![o] = @ \o <<[from |-> "PENDING_PAYMENT", to |-> "PAID"],
                                      [from |-> "PAID", to |-> "AWAITING_DEPOSIT"]>>]
  /\ Finished(r)
  /\ UNCHANGED <<now, cells, rowLock>>

CommitDeposit(r) ==
  LET o == req[r].order IN
  /\ InTx(r, "deposit")
  /\ orders' = [orders EXCEPT ![o] = [@ EXCEPT !.status = "IN_STORAGE",
                                               !.expires = req[r].at + orders[o].duration]]
  /\ cells' = occupyCell(cells, orders[o].cell, o)
  /\ log' = Logged(o, orders[o].status, "IN_STORAGE")
  /\ Finished(r)
  /\ UNCHANGED <<now, rowLock>>

\* database/sql refuses a statement whose arguments do not match its marks:
\* the transaction rolls back and the caller gets errDataUnavailable.
CommitPickup(r) ==
  LET o == req[r].order IN
  /\ InTx(r, "pickup")
  /\ IF PickupArgs = PickupPlaceholders
     THEN /\ orders' = [orders EXCEPT ![o].status = "COMPLETED"]
          /\ cells' = releaseCell(cells, orders[o].cell, o)
          /\ log' = Logged(o, orders[o].status, "COMPLETED")
     ELSE UNCHANGED <<orders, cells, log>>
  /\ Finished(r)
  /\ UNCHANGED <<now, rowLock>>

CommitSettle(r) ==
  LET o == req[r].order IN
  /\ InTx(r, "settle")
  /\ orders' = [orders EXCEPT ![o] = [@ EXCEPT !.status = "AWAITING_PICKUP", !.overdueFee = 0]]
  /\ log' = Logged(o, "OVERDUE", "AWAITING_PICKUP")
  /\ Finished(r)
  /\ UNCHANGED <<now, cells, rowLock>>

\* ErrOrderStateConflict.
StateConflict(r) ==
  /\ req[r].pc = "tx"
  /\ ~Accepts(req[r])
  /\ Finished(r)
  /\ UNCHANGED <<now, orders, cells, rowLock, log>>

\* A database error, a cancelled context or a crash of the API process ends
\* the request; MySQL rolls its transaction back and drops its locks.
Abandon(r) ==
  /\ Faults
  /\ req[r].pc # "idle"
  /\ rowLock' = IF req[r].pc = "insert" THEN [rowLock EXCEPT ![req[r].cell] = FALSE]
                                        ELSE rowLock
  /\ Finished(r)
  /\ UNCHANGED <<now, orders, cells, log>>

-----------------------------------------------------------------------------

Tick ==
  /\ now < MaxTime
  /\ now' = now + 1
  /\ UNCHANGED <<orders, cells, rowLock, log, req>>

\* What a user can ask for, and what the server does once asked.
Ask(r) ==
  \/ \E c \in Cells, d \in Durations : CreateOrder(r, SiteOf[c], SizeOf[c], d)
  \/ \E o \in Orders : \/ GetOrder(r, o)
                       \/ SettleOverdue(r, o)
                       \/ CancelOrder(r, o)
                       \/ ConfirmDevelopmentPayment(r, o)
                       \/ OpenDepositDoor(r, o)
                       \/ OpenPickupDoor(r, o)

Serve(r) ==
  \/ InsertOrder(r)
  \/ OpenDoor(r)
  \/ BeginTx(r)
  \/ applyLazyOverdue(r)
  \/ MarkOverdue(r)
  \/ CommitCancel(r)
  \/ CommitPayment(r)
  \/ CommitDeposit(r)
  \/ CommitPickup(r)
  \/ CommitSettle(r)
  \/ StateConflict(r)

Fail(r) == MarkOverdueFails(r) \/ Abandon(r)

Next == Tick \/ \E r \in Reqs : Ask(r) \/ Serve(r) \/ Fail(r)

Spec == Init /\ [][Next]_vars

\* The server finishes what it serves and time passes; users may do nothing.
FairSpec == Spec /\ WF_vars(Tick) /\ \A r \in Reqs : WF_vars(Serve(r))

-----------------------------------------------------------------------------
\* Properties.

LogRow == [from : OrderStatus \cup {NoStatus}, to : OrderStatus]

TypeOK ==
  /\ now \in Nat \ {0}
  /\ orders \in [Orders -> OrderRow]
  /\ cells \in [Cells -> CellRow]
  /\ rowLock \in [Cells -> BOOLEAN]
  /\ log \in [Orders -> Seq(LogRow)]
  /\ req \in [Reqs -> Request]

\* How a cell is occupied while it is bound to an order of a given status.
Occupancy(status) ==
  IF status \in {"PENDING_PAYMENT", "AWAITING_DEPOSIT"} THEN "LOCKED" ELSE "OCCUPIED"

(***************************************************************************)
(* The two tables agree, whatever requests interleave: a cell bound to an  *)
(* order is the cell of that order, the order is live, and the cell is     *)
(* LOCKED before the deposit and OCCUPIED after it; a live order is bound  *)
(* to its cell; a cell with neither order nor reservation is IDLE.  So no  *)
(* cell is allocated twice and none leaks when its order ends.             *)
(***************************************************************************)
BoundCellsMatch ==
  \A c \in Cells : LET o == cells[c].order IN
    o # NoOrder => /\ orders[o].cell = c
                   /\ orders[o].status \in Live
                   /\ cells[c].occ = Occupancy(orders[o].status)

LiveOrdersBound ==
  \A o \in Orders : orders[o].status \in Live =>
    /\ orders[o].cell \in Cells
    /\ cells[orders[o].cell].order = o

UnboundCellsIdle ==
  \A c \in Cells :
    cells[c].order = NoOrder /\ cells[c].key = NoKey => cells[c].occ = "IDLE"

CellsMatchOrders == BoundCellsMatch /\ LiveOrdersBound /\ UnboundCellsIdle

(***************************************************************************)
(* The row CreateOrder selected is still idle and unbound when it inserts  *)
(* the order, and no other request has selected it: its SKIP LOCKED lock   *)
(* makes the conditional UPDATE that follows always change one row.  And   *)
(* a row is locked for nobody else: a request that inserted, lost a race,  *)
(* failed or died has given its lock back, so the cell is offered again.   *)
(***************************************************************************)
Inserting(r, c) == req[r].pc = "insert" /\ req[r].cell = c

SelectionHolds ==
  \A r \in Reqs : req[r].pc = "insert" =>
    /\ req[r].cell \in Cells
    /\ rowLock[req[r].cell]
    /\ IdleUnbound(cells[req[r].cell])
    /\ \A s \in Reqs \ {r} : ~Inserting(s, req[r].cell)

LocksGivenBack == \A c \in Cells : rowLock[c] => \E r \in Reqs : Inserting(r, c)

SelectedCellStaysFree == SelectionHolds /\ LocksGivenBack

(***************************************************************************)
(* The status log of an order is a chain of allowed transitions from its   *)
(* creation to the status the order has: the log, written by hand in each  *)
(* transaction, never disagrees with the row.                              *)
(***************************************************************************)
Chained(rows) ==
  /\ rows[1] = [from |-> NoStatus, to |-> "PENDING_PAYMENT"]
  /\ \A i \in 2..Len(rows) : /\ rows[i].from = rows[i - 1].to
                             /\ canTransition(rows[i].from, rows[i].to)

LogTellsStatus ==
  \A o \in Orders : IF Placed(o)
                     THEN /\ log[o] # <<>>
                          /\ Chained(log[o])
                          /\ log[o][Len(log[o])].to = orders[o].status
                     ELSE log[o] = <<>>

(***************************************************************************)
(* The penalty is charged only to an order past its expiry, is at least an *)
(* hour's rate and never more than what is owed by now, however stale the  *)
(* request that marked the order; and it is gone once the order moves on.  *)
(***************************************************************************)
OverdueFeeFair ==
  \A o \in Orders :
    LET row  == orders[o]
        size == SizeOf[row.cell] IN
    IF row.status = "OVERDUE"
    THEN /\ now > row.expires
         /\ row.overdueFee >= RateFenPerHour(size)
         /\ row.overdueFee <= computeOverdueFee(size, row.expires, now)
    ELSE row.overdueFee = 0

(***************************************************************************)
(* A door opens for an order only while the cell is bound to that order,   *)
(* although the binding was read without a lock.                           *)
(***************************************************************************)
DoorOpens(r) == req[r].pc = "door" /\ req'[r].pc = "opened"

DoorOpensOwnCell ==
  [][\A r \in Reqs : DoorOpens(r) => cells[req[r].cell].order = req[r].order]_vars

(***************************************************************************)
(* Every interleaving of the requests, seen through the status of each     *)
(* order and the binding of each cell, is a run of the atomic contract of  *)
(* biz/repository.go over the allowed transitions of biz/model.go.         *)
(***************************************************************************)
Contract == INSTANCE OrderContract
              WITH status <- [o \in Orders |-> orders[o].status],
                   holder <- [c \in Cells |-> cells[c].order]

ImplementsContract == Contract!Spec

(***************************************************************************)
(* "OpenPickupDoor -> COMPLETED and releases the cell": a pickup request   *)
(* that reaches its transaction with the order awaiting pickup ends with   *)
(* the order completed and its cell free.  Stated for Faults = FALSE.      *)
(***************************************************************************)
PickupEnds(r) == InTx(r, "pickup") /\ req'[r].pc = "idle"

PickupCompletes ==
  [][\A r \in Reqs : PickupEnds(r) => LET o == req[r].order IN
       /\ orders'[o].status = "COMPLETED"
       /\ cells'[orders[o].cell] = IdleRow]_vars

(***************************************************************************)
(* The pickup door opens only for an order that is not overdue: "an        *)
(* expired IN_STORAGE order must settle first".                            *)
(***************************************************************************)
PickupDoorOnlyUnexpired ==
  [][\A r \in Reqs : DoorOpens(r) /\ req[r].op = "pickup" =>
       LET row == orders[req[r].order] IN
       row.status = "IN_STORAGE" => now <= row.expires]_vars

(***************************************************************************)
(* An order that is never paid is cancelled by timeout, as the lifecycle   *)
(* of the design says.                                                     *)
(***************************************************************************)
UnpaidOrderTimesOut ==
  \A o \in Orders : orders[o].status = "PENDING_PAYMENT"
                       ~> orders[o].status # "PENDING_PAYMENT"
=============================================================================
