------------------------- MODULE OrderServiceProofs --------------------------
(***************************************************************************)
(* Proofs about OrderService for all sets of orders, cells and requests,   *)
(* with and without faults, and whatever number of arguments the pickup    *)
(* statement binds: the types, the agreement of the two tables in every    *)
(* reachable state, and the refinement of OrderContract.                   *)
(***************************************************************************)
EXTENDS OrderService, TLAPS

\* An overdue fee is a natural number, whatever the instants.
LEMMA FeeType ==
  ASSUME NEW size, NEW e \in Nat, NEW t \in Nat
  PROVE  computeOverdueFee(size, e, t) \in Nat
<1>1. RateFenPerHour(size) \in Nat
  BY DEF RateFenPerHour
<1>2. Elapsed(e, t) \in Nat
  BY DEF Elapsed
<1>3. CeilDiv(Elapsed(e, t), Hour) \in Int
  BY <1>2, HourAssumption DEF CeilDiv
<1>4. OverdueHours(Elapsed(e, t)) \in Nat
  BY <1>3 DEF OverdueHours
<1>5. QED
  BY <1>1, <1>4 DEF computeOverdueFee

LEMMA IdleType == Idle \in Request
BY DEF Idle, Request, Ops, NoCell

LEMMA AfterLazyType ==
  ASSUME NEW q \in Request
  PROVE  AfterLazy(q) \in Request
<1>1. CASE q.op = "settle"
  BY <1>1 DEF AfterLazy, Request
<1>2. CASE q.op # "settle"
  BY <1>2, IdleType DEF AfterLazy
<1>3. QED
  BY <1>1, <1>2

-----------------------------------------------------------------------------
\* The transaction of a pickup, as its two outcomes.

PickupCommits(r) ==
  LET o == req[r].order IN
  /\ InTx(r, "pickup")
  /\ PickupArgs = PickupPlaceholders
  /\ orders' = [orders EXCEPT ![o].status = "COMPLETED"]
  /\ cells' = releaseCell(cells, orders[o].cell, o)
  /\ log' = Logged(o, orders[o].status, "COMPLETED")
  /\ Finished(r)
  /\ UNCHANGED <<now, rowLock>>

PickupUpdateFails(r) ==
  /\ InTx(r, "pickup")
  /\ PickupArgs # PickupPlaceholders
  /\ Finished(r)
  /\ UNCHANGED <<now, orders, cells, rowLock, log>>

LEMMA PickupCommitsOrFails ==
  ASSUME NEW r \in Reqs, CommitPickup(r)
  PROVE  PickupCommits(r) \/ PickupUpdateFails(r)
BY DEF CommitPickup, PickupCommits, PickupUpdateFails

-----------------------------------------------------------------------------
\* Typing.  A request that has got past its first step is about an order that
\* has been placed; without this nothing is known of the row it updates.

NamesOrder(q) == /\ q.order \in Orders
                 /\ orders[q.order].status # NoStatus

RequestsNameOrders ==
  \A r \in Reqs : req[r].pc \notin {"idle", "insert"} => NamesOrder(req[r])

Typed == TypeOK /\ RequestsNameOrders

LEMMA TypedInit == Init => Typed
<1> SUFFICES ASSUME Init PROVE Typed
  OBVIOUS
<1>1. NoOrderRow \in OrderRow
  BY DEF NoOrderRow, OrderRow, NoCell
<1>2. IdleRow \in CellRow
  BY DEF IdleRow, CellRow, CellStatus
<1>3. <<>> \in Seq(LogRow)
  OBVIOUS
<1>4. TypeOK
  BY <1>1, <1>2, <1>3, IdleType DEF Init, TypeOK
<1>5. RequestsNameOrders
  BY DEF Init, RequestsNameOrders, Idle
<1>6. QED
  BY <1>4, <1>5 DEF Typed

\* A step that only gives one request a new record.
LEMMA TypedRequest ==
  ASSUME Typed, NEW r \in Reqs, NEW q \in Request,
         req' = [req EXCEPT ![r] = q],
         q.pc \notin {"idle", "insert"} => NamesOrder(q),
         orders' = orders, now' = now, cells' = cells, log' = log,
         rowLock' \in [Cells -> BOOLEAN]
  PROVE  Typed'
BY DEF Typed, TypeOK, RequestsNameOrders, NamesOrder

\* A step that gives a placed order a new row and logs it.
LEMMA TypedUpdate ==
  ASSUME Typed, NEW r \in Reqs, NEW q \in Request, NEW o \in Orders,
         NEW row \in OrderRow, NEW rows \in Seq(LogRow),
         req' = [req EXCEPT ![r] = q],
         q.pc \notin {"idle", "insert"} => NamesOrder(q),
         orders' = [orders EXCEPT ![o] = row], row.status # NoStatus,
         log' = [log EXCEPT ![o] = rows],
         cells' \in [Cells -> CellRow], rowLock' \in [Cells -> BOOLEAN], now' = now
  PROVE  Typed'
<1>1. TypeOK'
  BY DEF Typed, TypeOK
<1>2. RequestsNameOrders'
  BY DEF Typed, TypeOK, RequestsNameOrders, NamesOrder
<1>3. QED
  BY <1>1, <1>2 DEF Typed

LEMMA ReleaseType ==
  ASSUME NEW tbl \in [Cells -> CellRow], NEW c, NEW o
  PROVE  releaseCell(tbl, c, o) \in [Cells -> CellRow]
BY DEF releaseCell, IdleRow, CellRow, CellStatus

LEMMA OccupyType ==
  ASSUME NEW tbl \in [Cells -> CellRow], NEW c, NEW o
  PROVE  occupyCell(tbl, c, o) \in [Cells -> CellRow]
BY DEF occupyCell, CellRow, CellStatus

LEMMA BindType ==
  ASSUME NEW tbl \in [Cells -> CellRow], NEW c, NEW o \in Orders
  PROVE  bindCell(tbl, c, o) \in [Cells -> CellRow]
BY DEF bindCell, CellRow, CellStatus

\* What a transaction that passed its test knows of its request.
LEMMA InTxFacts ==
  ASSUME Typed, NEW r \in Reqs, NEW op, InTx(r, op)
  PROVE  /\ req[r].order \in Orders
         /\ orders[req[r].order] \in OrderRow
         /\ orders[req[r].order].status # NoStatus
         /\ log[req[r].order] \in Seq(LogRow)
         /\ Accepts(req[r]) /\ req[r].op = op /\ req[r].pc = "tx"
BY DEF InTx, Typed, TypeOK, RequestsNameOrders, NamesOrder

LEMMA TypedAsk ==
  ASSUME Typed, NEW r \in Reqs, NEW o \in Orders,
         \/ GetOrder(r, o) \/ SettleOverdue(r, o) \/ CancelOrder(r, o)
         \/ ConfirmDevelopmentPayment(r, o) \/ OpenDepositDoor(r, o)
         \/ OpenPickupDoor(r, o)
  PROVE  Typed'
<1> USE DEF NamesOrder, Placed
<1>1. orders[o] \in OrderRow /\ orders[o].expires \in Nat /\ orders[o].cell \in Cells \cup {NoCell}
  BY DEF Typed, TypeOK, OrderRow
<1>2. rowLock \in [Cells -> BOOLEAN]
  BY DEF Typed, TypeOK
<1>3. CASE GetOrder(r, o)
  <2>1. [Idle EXCEPT !.pc = "lazy", !.op = "get", !.order = o,
                     !.expires = orders[o].expires] \in Request
    BY <1>1 DEF Idle, Request, Ops, NoCell
  <2>2. QED
    BY <1>2, <1>3, <2>1, TypedRequest DEF GetOrder, Idle, NoStatus
<1>4. CASE SettleOverdue(r, o)
  <2>1. [Idle EXCEPT !.pc = IF orders[o].status = "IN_STORAGE" THEN "lazy" ELSE "tx",
                     !.op = "settle", !.order = o, !.expires = orders[o].expires] \in Request
    BY <1>1 DEF Idle, Request, Ops, NoCell
  <2>2. QED
    BY <1>2, <1>4, <2>1, TypedRequest DEF SettleOverdue, Idle
<1>5. CASE CancelOrder(r, o)
  <2>1. [Idle EXCEPT !.pc = "tx", !.op = "cancel", !.order = o] \in Request
    BY DEF Idle, Request, Ops, NoCell
  <2>2. QED
    BY <1>2, <1>5, <2>1, TypedRequest DEF CancelOrder, Idle
<1>6. CASE ConfirmDevelopmentPayment(r, o)
  <2>1. [Idle EXCEPT !.pc = "tx", !.op = "pay", !.order = o] \in Request
    BY DEF Idle, Request, Ops, NoCell
  <2>2. QED
    BY <1>2, <1>6, <2>1, TypedRequest DEF ConfirmDevelopmentPayment, Idle
<1>7. CASE OpenDepositDoor(r, o)
  <2>1. [Idle EXCEPT !.pc = "door", !.op = "deposit", !.order = o,
                     !.cell = orders[o].cell] \in Request
    BY <1>1 DEF Idle, Request, Ops, NoCell
  <2>2. QED
    BY <1>2, <1>7, <2>1, TypedRequest DEF OpenDepositDoor, Idle, NoStatus
<1>8. CASE OpenPickupDoor(r, o)
  <2>1. [Idle EXCEPT !.pc = "door", !.op = "pickup", !.order = o,
                     !.cell = orders[o].cell] \in Request
    BY <1>1 DEF Idle, Request, Ops, NoCell
  <2>2. QED
    BY <1>2, <1>8, <2>1, TypedRequest DEF OpenPickupDoor, Idle, NoStatus
<1>9. QED
  BY <1>3, <1>4, <1>5, <1>6, <1>7, <1>8

LEMMA TypedCreate ==
  ASSUME Typed, NEW r \in Reqs, NEW site, NEW size, NEW d \in Durations,
         CreateOrder(r, site, size, d)
  PROVE  Typed'
<1> USE OrderServiceAssumption
<1>1. PICK c \in Cells :
        /\ rowLock' = [rowLock EXCEPT ![c] = TRUE]
        /\ req' = [req EXCEPT ![r] = [Idle EXCEPT !.pc = "insert", !.op = "create",
                                                  !.cell = c, !.duration = d]]
  BY DEF CreateOrder, Allocatable
<1>2. [Idle EXCEPT !.pc = "insert", !.op = "create", !.cell = c, !.duration = d] \in Request
  BY DEF Idle, Request, Ops
<1>3. rowLock' \in [Cells -> BOOLEAN]
  BY <1>1 DEF Typed, TypeOK
<1>4. QED
  BY <1>1, <1>2, <1>3, TypedRequest DEF CreateOrder, Idle

LEMMA TypedInsert ==
  ASSUME Typed, NEW r \in Reqs, InsertOrder(r)
  PROVE  Typed'
<1> USE IdleType
<1>1. rowLock' \in [Cells -> BOOLEAN]
  BY DEF InsertOrder, Typed, TypeOK
<1>2. CASE ~IdleUnbound(cells[req[r].cell])
  BY <1>1, <1>2, TypedRequest DEF InsertOrder, Idle
<1>3. CASE IdleUnbound(cells[req[r].cell])
  <2> DEFINE row == [NoOrderRow EXCEPT !.status = "PENDING_PAYMENT", !.cell = req[r].cell,
                                       !.duration = req[r].duration]
             rows == <<[from |-> NoStatus, to |-> "PENDING_PAYMENT"]>>
  <2>1. PICK o \in UnusedIds : /\ orders' = [orders EXCEPT ![o] = row]
                               /\ cells' = bindCell(cells, req[r].cell, o)
                               /\ log' = [log EXCEPT ![o] = rows]
    BY <1>3 DEF InsertOrder
  <2>2. o \in Orders
    BY DEF UnusedIds
  <2>3. row \in OrderRow /\ row.status # NoStatus
    BY DEF Typed, TypeOK, Request, OrderRow, NoOrderRow, OrderStatus, NoStatus
  <2>4. cells' \in [Cells -> CellRow]
    BY <2>1, <2>2, BindType DEF Typed, TypeOK
  <2>5. rows \in Seq(LogRow)
    BY DEF LogRow, OrderStatus
  <2> HIDE DEF row, rows
  <2>6. QED
    BY <1>1, <2>1, <2>2, <2>3, <2>4, <2>5, TypedUpdate DEF InsertOrder, Idle
<1>4. QED
  BY <1>2, <1>3

LEMMA TypedLazy ==
  ASSUME Typed, NEW r \in Reqs, applyLazyOverdue(r)
  PROVE  Typed'
<1> DEFINE q == req[r]
           fee == computeOverdueFee(SizeOf[orders[q.order].cell], q.expires, now)
           m == [q EXCEPT !.pc = "mark", !.fee = fee]
<1>1. q \in Request /\ NamesOrder(q) /\ rowLock \in [Cells -> BOOLEAN]
  BY DEF applyLazyOverdue, Typed, TypeOK, RequestsNameOrders
<1>2. fee \in Nat
  BY <1>1, FeeType DEF Typed, TypeOK, Request
<1>3. m \in Request /\ NamesOrder(m)
  <2> HIDE DEF fee
  <2>1. QED
    BY <1>1, <1>2 DEF Request, NamesOrder
<1>4. AfterLazy(q) \in Request /\ (AfterLazy(q).pc # "idle" => NamesOrder(AfterLazy(q)))
  BY <1>1, AfterLazyType DEF AfterLazy, Idle, NamesOrder, Request
<1>5. CASE now > q.expires
  <2>1. req' = [req EXCEPT ![r] = m]
    BY <1>5 DEF applyLazyOverdue
  <2> HIDE DEF m
  <2>2. QED
    BY <1>1, <1>3, <2>1, TypedRequest DEF applyLazyOverdue
<1>6. CASE ~(now > q.expires)
  <2>1. req' = [req EXCEPT ![r] = AfterLazy(q)]
    BY <1>6 DEF applyLazyOverdue
  <2>2. QED
    BY <1>1, <1>4, <2>1, TypedRequest DEF applyLazyOverdue
<1>7. QED
  BY <1>5, <1>6

LEMMA TypedMark ==
  ASSUME Typed, NEW r \in Reqs, MarkOverdue(r) \/ MarkOverdueFails(r)
  PROVE  Typed'
<1> DEFINE q == req[r]
           row == [orders[q.order] EXCEPT !.status = "OVERDUE", !.overdueFee = q.fee]
           rows == Append(log[q.order], [from |-> "IN_STORAGE", to |-> "OVERDUE"])
<1>1. q \in Request /\ NamesOrder(q) /\ rowLock \in [Cells -> BOOLEAN]
  BY DEF MarkOverdue, MarkOverdueFails, Typed, TypeOK, RequestsNameOrders
<1>2. AfterLazy(q) \in Request /\ (AfterLazy(q).pc # "idle" => NamesOrder(AfterLazy(q)))
  BY <1>1, AfterLazyType DEF AfterLazy, Idle, NamesOrder, Request
<1>3. CASE orders' = orders /\ log' = log
  BY <1>1, <1>2, <1>3, TypedRequest DEF MarkOverdue, MarkOverdueFails
<1>4. CASE MarkOverdue(r) /\ orders[q.order].status = "IN_STORAGE"
  <2>1. orders' = [orders EXCEPT ![q.order] = row] /\ log' = [log EXCEPT ![q.order] = rows]
    BY <1>4 DEF MarkOverdue, Logged
  <2>2. row \in OrderRow /\ row.status # NoStatus
    <3>1. orders[q.order] \in OrderRow /\ q.fee \in Nat
      BY <1>1 DEF Typed, TypeOK, NamesOrder, Request
    <3>2. QED
      BY <3>1 DEF OrderRow, OrderStatus, NoStatus
  <2>3. rows \in Seq(LogRow)
    <3>1. [from |-> "IN_STORAGE", to |-> "OVERDUE"] \in LogRow
      BY DEF LogRow, OrderStatus
    <3>2. QED
      BY <1>1, <3>1 DEF Typed, TypeOK, NamesOrder
  <2>4. req' = [req EXCEPT ![r] = AfterLazy(q)] /\ cells' \in [Cells -> CellRow]
        /\ rowLock' = rowLock /\ now' = now
    BY <1>4 DEF MarkOverdue, Typed, TypeOK
  <2> HIDE DEF row, rows
  <2>5. QED
    BY <1>1, <1>2, <2>1, <2>2, <2>3, <2>4, TypedUpdate DEF NamesOrder
<1>5. QED
  BY <1>3, <1>4 DEF MarkOverdue, MarkOverdueFails

LEMMA TypedCommit ==
  ASSUME Typed, NEW r \in Reqs,
         \/ CommitCancel(r) \/ CommitPayment(r) \/ CommitDeposit(r)
         \/ PickupCommits(r) \/ CommitSettle(r)
  PROVE  Typed'
<1> DEFINE o == req[r].order
<1>1. ASSUME NEW row \in OrderRow, NEW rows \in Seq(LogRow), o \in Orders,
             orders' = [orders EXCEPT ![o] = row], row.status # NoStatus,
             log' = [log EXCEPT ![o] = rows], Finished(r),
             cells' \in [Cells -> CellRow], UNCHANGED <<now, rowLock>>
      PROVE  Typed'
  <2>1. rowLock' \in [Cells -> BOOLEAN]
    BY <1>1 DEF Typed, TypeOK
  <2>2. QED
    BY <1>1, <2>1, IdleType, TypedUpdate DEF Finished, Idle
<1>2. ASSUME NEW rows \in Seq(LogRow), NEW from \in OrderStatus, NEW to \in OrderStatus
      PROVE  Append(rows, [from |-> from, to |-> to]) \in Seq(LogRow)
  <2>1. [from |-> from, to |-> to] \in LogRow
    BY DEF LogRow
  <2>2. QED
    BY <2>1
<1>3. cells \in [Cells -> CellRow]
  BY DEF Typed, TypeOK
<1>4. ASSUME NEW op, InTx(r, op)
      PROVE  /\ o \in Orders /\ orders[o] \in OrderRow /\ log[o] \in Seq(LogRow)
             /\ orders[o].status \in OrderStatus
  <2>1. o \in Orders /\ orders[o] \in OrderRow /\ log[o] \in Seq(LogRow)
        /\ orders[o].status # NoStatus
    BY <1>4, InTxFacts
  <2>2. QED
    BY <2>1 DEF OrderRow
<1>5. CASE CommitCancel(r)
  <2>1. InTx(r, "cancel") /\ Finished(r) /\ UNCHANGED <<now, rowLock>>
    BY <1>5 DEF CommitCancel
  <2>2. [orders[o] EXCEPT !.status = "CANCELLED"] \in OrderRow
    BY <1>4, <2>1 DEF OrderRow, OrderStatus
  <2>3. Append(log[o], [from |-> orders[o].status, to |-> "CANCELLED"]) \in Seq(LogRow)
    BY <1>2, <1>4, <2>1 DEF OrderStatus
  <2>4. cells' \in [Cells -> CellRow]
    BY <1>3, <1>5, ReleaseType DEF CommitCancel
  <2>5. QED
    BY <1>1, <1>4, <1>5, <2>1, <2>2, <2>3, <2>4 DEF CommitCancel, Logged, NoStatus, OrderRow
<1>6. CASE CommitPayment(r)
  <2> DEFINE rows == log[o] \o <<[from |-> "PENDING_PAYMENT", to |-> "PAID"],
                                 [from |-> "PAID", to |-> "AWAITING_DEPOSIT"]>>
  <2>1. InTx(r, "pay") /\ Finished(r) /\ UNCHANGED <<now, cells, rowLock>>
    BY <1>6 DEF CommitPayment
  <2>2. [orders[o] EXCEPT !.status = "AWAITING_DEPOSIT"] \in OrderRow
    BY <1>4, <2>1 DEF OrderRow, OrderStatus
  <2>3. rows \in Seq(LogRow)
    <3>1. <<[from |-> "PENDING_PAYMENT", to |-> "PAID"],
            [from |-> "PAID", to |-> "AWAITING_DEPOSIT"]>> \in Seq(LogRow)
      BY DEF LogRow, OrderStatus
    <3>2. ASSUME NEW a \in Seq(LogRow), NEW b \in Seq(LogRow) PROVE a \o b \in Seq(LogRow)
      OBVIOUS
    <3>3. QED
      BY <1>4, <2>1, <3>1, <3>2
  <2>4. QED
    BY <1>1, <1>3, <1>4, <1>6, <2>1, <2>2, <2>3 DEF CommitPayment, NoStatus, OrderRow
<1>7. CASE CommitDeposit(r)
  <2> DEFINE row == [orders[o] EXCEPT !.status = "IN_STORAGE",
                                      !.expires = req[r].at + orders[o].duration]
  <2>1. InTx(r, "deposit") /\ Finished(r) /\ UNCHANGED <<now, rowLock>>
    BY <1>7 DEF CommitDeposit
  <2>2. row \in OrderRow /\ row.status # NoStatus
    <3>1. req[r].at \in Nat
      BY DEF Typed, TypeOK, Request
    <3>2. orders[o] \in OrderRow /\ orders[o].duration \in Nat
      BY <1>4, <2>1 DEF OrderRow
    <3>3. req[r].at + orders[o].duration \in Nat
      BY <3>1, <3>2
    <3>4. QED
      BY <3>2, <3>3 DEF OrderRow, OrderStatus, NoStatus
  <2>3. Append(log[o], [from |-> orders[o].status, to |-> "IN_STORAGE"]) \in Seq(LogRow)
    BY <1>2, <1>4, <2>1 DEF OrderStatus
  <2>4. cells' \in [Cells -> CellRow]
    BY <1>3, <1>7, OccupyType DEF CommitDeposit
  <2>5. orders' = [orders EXCEPT ![o] = row]
    BY <1>7 DEF CommitDeposit
  <2> HIDE DEF row
  <2>6. QED
    BY <1>1, <1>4, <1>7, <2>1, <2>2, <2>3, <2>4, <2>5 DEF CommitDeposit, Logged
<1>8. CASE PickupCommits(r)
  <2>1. InTx(r, "pickup") /\ Finished(r) /\ UNCHANGED <<now, rowLock>>
    BY <1>8 DEF PickupCommits
  <2>2. [orders[o] EXCEPT !.status = "COMPLETED"] \in OrderRow
    BY <1>4, <2>1 DEF OrderRow, OrderStatus
  <2>3. Append(log[o], [from |-> orders[o].status, to |-> "COMPLETED"]) \in Seq(LogRow)
    BY <1>2, <1>4, <2>1 DEF OrderStatus
  <2>4. cells' \in [Cells -> CellRow]
    BY <1>3, <1>8, ReleaseType DEF PickupCommits
  <2>5. QED
    BY <1>1, <1>4, <1>8, <2>1, <2>2, <2>3, <2>4 DEF PickupCommits, Logged, NoStatus, OrderRow
<1>9. CASE CommitSettle(r)
  <2>1. InTx(r, "settle") /\ Finished(r) /\ UNCHANGED <<now, cells, rowLock>>
    BY <1>9 DEF CommitSettle
  <2>2. [orders[o] EXCEPT !.status = "AWAITING_PICKUP", !.overdueFee = 0] \in OrderRow
    BY <1>4, <2>1 DEF OrderRow, OrderStatus
  <2>3. Append(log[o], [from |-> "OVERDUE", to |-> "AWAITING_PICKUP"]) \in Seq(LogRow)
    BY <1>2, <1>4, <2>1 DEF OrderStatus
  <2>4. QED
    BY <1>1, <1>3, <1>4, <1>9, <2>1, <2>2, <2>3 DEF CommitSettle, Logged, NoStatus, OrderRow
<1>10. QED
  BY <1>5, <1>6, <1>7, <1>8, <1>9

LEMMA TypedStep == Typed /\ [Next]_vars => Typed'
<1> SUFFICES ASSUME Typed, [Next]_vars PROVE Typed'
  OBVIOUS
<1>1. CASE Tick
  BY <1>1 DEF Tick, Typed, TypeOK, RequestsNameOrders, NamesOrder
<1>2. ASSUME NEW r \in Reqs, OpenDoor(r) \/ BeginTx(r) PROVE Typed'
  <2>1. req[r] \in Request /\ NamesOrder(req[r]) /\ rowLock \in [Cells -> BOOLEAN] /\ now \in Nat
    BY <1>2 DEF OpenDoor, BeginTx, Typed, TypeOK, RequestsNameOrders
  <2>2. /\ [req[r] EXCEPT !.pc = "opened"] \in Request
        /\ [req[r] EXCEPT !.pc = "tx", !.at = now] \in Request
    BY <2>1 DEF Request
  <2>3. CASE OpenDoor(r)
    BY <2>1, <2>2, <2>3, TypedRequest DEF OpenDoor, NamesOrder, Request
  <2>4. CASE BeginTx(r)
    BY <2>1, <2>2, <2>4, TypedRequest DEF BeginTx, NamesOrder, Request
  <2>5. QED
    BY <1>2, <2>3, <2>4
<1>3. ASSUME NEW r \in Reqs, PickupUpdateFails(r) \/ StateConflict(r) \/ Abandon(r)
      PROVE  Typed'
  <2>1. rowLock' \in [Cells -> BOOLEAN]
    BY <1>3 DEF PickupUpdateFails, StateConflict, Abandon, Typed, TypeOK
  <2>2. QED
    BY <1>3, <2>1, IdleType, TypedRequest
       DEF PickupUpdateFails, StateConflict, Abandon, Finished, Idle
<1>4. CASE UNCHANGED vars
  BY <1>4 DEF vars, Typed, TypeOK, RequestsNameOrders, NamesOrder
<1>5. QED
  BY <1>1, <1>2, <1>3, <1>4, TypedAsk, TypedCreate, TypedInsert, TypedLazy, TypedMark,
     TypedCommit, PickupCommitsOrFails DEF Next, Ask, Serve, Fail

LEMMA AlwaysTyped == Spec => []Typed
BY TypedInit, TypedStep, PTL DEF Spec

(***************************************************************************)
(* Every variable keeps its type: a status or an occupancy no column of    *)
(* the schema accepts is never written.                                    *)
(***************************************************************************)
THEOREM Typing == Spec => []TypeOK
<1>1. Typed => TypeOK
  BY DEF Typed
<1>2. QED
  BY <1>1, AlwaysTyped, PTL

-----------------------------------------------------------------------------
\* The two tables.

LEMMA LiveIs ==
  /\ Live = {"PENDING_PAYMENT", "PAID", "AWAITING_DEPOSIT", "IN_STORAGE",
             "AWAITING_PICKUP", "OVERDUE"}
  /\ Terminal = {"COMPLETED", "CANCELLED"}
<1>1. \A s \in OrderStatus :
        allowedTransitions[s] = {} <=> s \in {"COMPLETED", "CANCELLED"}
  BY DEF allowedTransitions, OrderStatus
<1>2. QED
  BY <1>1 DEF Live, Terminal, OrderStatus

LEMMA Transitions ==
  /\ canTransition("PENDING_PAYMENT", "PAID")
  /\ canTransition("PAID", "AWAITING_DEPOSIT")
  /\ canTransition("PENDING_PAYMENT", "CANCELLED")
  /\ canTransition("AWAITING_DEPOSIT", "IN_STORAGE")
  /\ canTransition("IN_STORAGE", "OVERDUE")
  /\ canTransition("IN_STORAGE", "COMPLETED")
  /\ canTransition("OVERDUE", "AWAITING_PICKUP")
  /\ canTransition("AWAITING_PICKUP", "COMPLETED")
BY DEF canTransition, allowedTransitions, OrderStatus

\* The inductive invariant: neither table constrains the other alone, and the
\* insertion of an order is safe because the cell it selected stays free.
TablesAgree == CellsMatchOrders /\ SelectionHolds

CellsInv == Typed /\ TablesAgree

LEMMA CellsInvInit == Init => CellsInv
<1> SUFFICES ASSUME Init PROVE CellsInv
  OBVIOUS
<1>1. CellsMatchOrders
  BY LiveIs DEF Init, CellsMatchOrders, BoundCellsMatch, LiveOrdersBound, UnboundCellsIdle,
     IdleRow, NoOrderRow, NoStatus
<1>2. SelectionHolds
  BY DEF Init, SelectionHolds, Idle
<1>3. QED
  BY <1>1, <1>2, TypedInit DEF CellsInv, TablesAgree

\* The selections of the other requests survive a step that leaves their rows
\* locked, idle and unbound.
LEMMA SelectionKept ==
  ASSUME Typed, SelectionHolds, NEW r \in Reqs, NEW q, q.pc # "insert",
         req' = [req EXCEPT ![r] = q],
         \A s \in Reqs \ {r} : req[s].pc = "insert" =>
           rowLock'[req[s].cell] /\ IdleUnbound(cells'[req[s].cell])
  PROVE  SelectionHolds'
<1>1. req \in [Reqs -> Request]
  BY DEF Typed, TypeOK
<1>2. \A s \in Reqs : req'[s].pc = "insert" => s # r /\ req'[s] = req[s]
  BY <1>1
<1>3. QED
  BY <1>1, <1>2 DEF SelectionHolds, Inserting

\* A step that changes neither table.
LEMMA TablesKept ==
  ASSUME CellsInv, NEW r \in Reqs, NEW q, q.pc # "insert",
         req' = [req EXCEPT ![r] = q], orders' = orders, cells' = cells,
         \A s \in Reqs \ {r} : req[s].pc = "insert" => rowLock'[req[s].cell]
  PROVE  TablesAgree'
<1>1. CellsMatchOrders'
  BY DEF CellsInv, TablesAgree, CellsMatchOrders, BoundCellsMatch, LiveOrdersBound,
     UnboundCellsIdle
<1>2. SelectionHolds'
  <2>1. \A s \in Reqs \ {r} : req[s].pc = "insert" =>
          rowLock'[req[s].cell] /\ IdleUnbound(cells'[req[s].cell])
    BY DEF CellsInv, TablesAgree, SelectionHolds
  <2>2. QED
    BY <2>1, SelectionKept DEF CellsInv, TablesAgree
<1>3. QED
  BY <1>1, <1>2 DEF TablesAgree

\* A live order moves to another live status and takes its cell along.
LEMMA OrderMoves ==
  ASSUME CellsInv, NEW r \in Reqs, NEW q, q.pc # "insert", req' = [req EXCEPT ![r] = q],
         NEW o \in Orders, NEW row, orders' = [orders EXCEPT ![o] = row],
         orders[o].status \in Live, row.status \in Live, row.cell = orders[o].cell,
         \A c \in Cells : /\ cells'[c].order = cells[c].order
                          /\ cells'[c].key = cells[c].key
                          /\ cells'[c].occ = IF cells[c].order = o
                                             THEN Occupancy(row.status) ELSE cells[c].occ,
         rowLock' = rowLock
  PROVE  TablesAgree'
<1> USE CellTableAssumption
<1>1. orders \in [Orders -> OrderRow] /\ cells \in [Cells -> CellRow]
  BY DEF CellsInv, Typed, TypeOK
<1>2. \A c \in Cells : cells[c].order \in Orders \cup {NoOrder}
  BY <1>1 DEF CellRow
<1>3. BoundCellsMatch'
  BY <1>1, <1>2 DEF CellsInv, TablesAgree, CellsMatchOrders, BoundCellsMatch
<1>4. LiveOrdersBound'
  BY <1>1 DEF CellsInv, TablesAgree, CellsMatchOrders, LiveOrdersBound
<1>5. UnboundCellsIdle'
  BY <1>1 DEF CellsInv, TablesAgree, CellsMatchOrders, UnboundCellsIdle
<1>6. SelectionHolds'
  <2>1. \A s \in Reqs \ {r} : req[s].pc = "insert" =>
          rowLock'[req[s].cell] /\ IdleUnbound(cells'[req[s].cell])
    <3> SUFFICES ASSUME NEW s \in Reqs \ {r}, req[s].pc = "insert"
                 PROVE  rowLock'[req[s].cell] /\ IdleUnbound(cells'[req[s].cell])
      OBVIOUS
    <3>1. /\ req[s].cell \in Cells /\ rowLock[req[s].cell]
          /\ IdleUnbound(cells[req[s].cell])
      BY DEF CellsInv, TablesAgree, SelectionHolds
    <3>2. cells[req[s].cell].order # o
      BY <3>1 DEF IdleUnbound
    <3>3. QED
      BY <3>1, <3>2 DEF IdleUnbound
  <2>2. QED
    BY <2>1, SelectionKept DEF CellsInv, TablesAgree
<1>7. QED
  BY <1>3, <1>4, <1>5, <1>6 DEF TablesAgree, CellsMatchOrders

\* A live order ends and gives its cell back.
LEMMA OrderEnds ==
  ASSUME CellsInv, NEW r \in Reqs, NEW q, q.pc # "insert", req' = [req EXCEPT ![r] = q],
         NEW o \in Orders, NEW row, orders' = [orders EXCEPT ![o] = row],
         row.status \notin Live,
         cells' = releaseCell(cells, orders[o].cell, o),
         rowLock' = rowLock
  PROVE  TablesAgree'
<1> USE CellTableAssumption
<1>1. orders \in [Orders -> OrderRow] /\ cells \in [Cells -> CellRow]
  BY DEF CellsInv, Typed, TypeOK
<1>2. \A c \in Cells : cells'[c] = IF cells[c].order = o THEN IdleRow ELSE cells[c]
  BY <1>1 DEF releaseCell, CellsInv, TablesAgree, CellsMatchOrders, BoundCellsMatch
<1>3. BoundCellsMatch'
  BY <1>1, <1>2 DEF CellsInv, TablesAgree, CellsMatchOrders, BoundCellsMatch, IdleRow, CellRow
<1>4. LiveOrdersBound'
  BY <1>1, <1>2 DEF CellsInv, TablesAgree, CellsMatchOrders, LiveOrdersBound
<1>5. UnboundCellsIdle'
  BY <1>1, <1>2 DEF CellsInv, TablesAgree, CellsMatchOrders, UnboundCellsIdle, IdleRow
<1>6. SelectionHolds'
  <2>1. \A s \in Reqs \ {r} : req[s].pc = "insert" =>
          rowLock'[req[s].cell] /\ IdleUnbound(cells'[req[s].cell])
    BY <1>2 DEF CellsInv, TablesAgree, SelectionHolds, IdleUnbound
  <2>2. QED
    BY <2>1, SelectionKept DEF CellsInv, TablesAgree
<1>7. QED
  BY <1>3, <1>4, <1>5, <1>6 DEF TablesAgree, CellsMatchOrders

LEMMA CreateKeepsTables ==
  ASSUME CellsInv, NEW r \in Reqs, NEW site, NEW size, NEW d, CreateOrder(r, site, size, d)
  PROVE  TablesAgree'
<1>1. PICK c \in Allocatable(site, size) :
        /\ rowLock' = [rowLock EXCEPT ![c] = TRUE]
        /\ req' = [req EXCEPT ![r] = [Idle EXCEPT !.pc = "insert", !.op = "create",
                                                  !.cell = c, !.duration = d]]
  BY DEF CreateOrder
<1>2. c \in Cells /\ IdleUnbound(cells[c]) /\ ~rowLock[c]
  BY DEF Allocatable, DeviceLocked
<1>3. req \in [Reqs -> Request] /\ rowLock \in [Cells -> BOOLEAN]
  BY DEF CellsInv, Typed, TypeOK
<1>4. orders' = orders /\ cells' = cells /\ req[r].pc = "idle"
  BY DEF CreateOrder
<1>5. CellsMatchOrders'
  BY <1>4 DEF CellsInv, TablesAgree, CellsMatchOrders, BoundCellsMatch, LiveOrdersBound,
     UnboundCellsIdle
<1>6. req'[r].cell = c /\ \A s \in Reqs \ {r} : req'[s] = req[s]
  BY <1>1, <1>3 DEF Idle
<1>7. SelectionHolds'
  <2> SUFFICES ASSUME NEW s \in Reqs, req'[s].pc = "insert"
               PROVE  /\ req'[s].cell \in Cells
                      /\ rowLock'[req'[s].cell]
                      /\ IdleUnbound(cells'[req'[s].cell])
                      /\ \A t \in Reqs \ {s} : ~Inserting(t, req[s].cell)'
    BY DEF SelectionHolds
  <2>1. CASE s = r
    <3>1. \A t \in Reqs \ {r} : ~(req[t].pc = "insert" /\ req[t].cell = c)
      BY <1>2 DEF CellsInv, TablesAgree, SelectionHolds
    <3>2. QED
      BY <1>1, <1>2, <1>3, <1>4, <1>6, <2>1, <3>1 DEF Inserting
  <2>2. CASE s # r
    <3>1. req[s].pc = "insert" /\ req[s].cell # c
      BY <1>2, <1>6, <2>2 DEF CellsInv, TablesAgree, SelectionHolds
    <3>2. QED
      BY <1>1, <1>2, <1>3, <1>4, <1>6, <2>2, <3>1
         DEF CellsInv, TablesAgree, SelectionHolds, Inserting
  <2>3. QED
    BY <2>1, <2>2
<1>8. QED
  BY <1>5, <1>7 DEF TablesAgree

LEMMA InsertKeepsTables ==
  ASSUME CellsInv, NEW r \in Reqs, InsertOrder(r)
  PROVE  TablesAgree'
<1> DEFINE c == req[r].cell
<1> USE CellTableAssumption
<1>1. /\ orders \in [Orders -> OrderRow] /\ cells \in [Cells -> CellRow]
      /\ req \in [Reqs -> Request] /\ rowLock \in [Cells -> BOOLEAN]
  BY DEF CellsInv, Typed, TypeOK
<1>2. c \in Cells /\ IdleUnbound(cells[c])
  BY DEF InsertOrder, CellsInv, TablesAgree, SelectionHolds
<1>3. PICK o \in UnusedIds :
        /\ orders' = [orders EXCEPT ![o] = [NoOrderRow EXCEPT !.status = "PENDING_PAYMENT",
                                                              !.cell = c,
                                                              !.duration = req[r].duration]]
        /\ cells' = bindCell(cells, c, o)
  BY <1>2 DEF InsertOrder
<1>4. o \in Orders /\ orders[o].status = NoStatus
  BY DEF UnusedIds
<1>5. orders'[o].cell = c /\ orders'[o].status = "PENDING_PAYMENT"
  BY <1>1, <1>3, <1>4 DEF NoOrderRow
<1>6. cells'[c].occ = "LOCKED" /\ cells'[c].order = o /\ cells'[c].key = cells[c].key
  BY <1>1, <1>2, <1>3 DEF bindCell, CellRow
<1>7. /\ \A p \in Orders \ {o} : orders'[p] = orders[p]
      /\ \A b \in Cells \ {c} : cells'[b] = cells[b]
  BY <1>1, <1>3 DEF bindCell
<1>8. \A b \in Cells : cells[b].order \in Orders \cup {NoOrder} /\ cells[b].order # o
  <2>1. \A b \in Cells : cells[b].order \in Orders \cup {NoOrder}
    BY <1>1 DEF CellRow
  <2>2. NoStatus \notin Live
    BY LiveIs DEF NoStatus
  <2>3. \A b \in Cells : cells[b].order # o
    BY <1>4, <2>2 DEF CellsInv, TablesAgree, CellsMatchOrders, BoundCellsMatch
  <2>4. QED
    BY <2>1, <2>3
<1>9. BoundCellsMatch'
  <2> SUFFICES ASSUME NEW b \in Cells, cells'[b].order # NoOrder
               PROVE  /\ orders'[cells'[b].order].cell = b
                      /\ orders'[cells'[b].order].status \in Live
                      /\ cells'[b].occ = Occupancy(orders'[cells'[b].order].status)
    BY DEF BoundCellsMatch
  <2>1. CASE b = c
    BY <1>5, <1>6, <2>1, LiveIs DEF Occupancy
  <2>2. CASE b # c
    <3>1. cells'[b] = cells[b] /\ cells[b].order \in Orders \ {o}
      BY <1>7, <1>8, <2>2
    <3>2. orders'[cells[b].order] = orders[cells[b].order]
      BY <1>7, <3>1
    <3>3. QED
      BY <3>1, <3>2 DEF CellsInv, TablesAgree, CellsMatchOrders, BoundCellsMatch
  <2>3. QED
    BY <2>1, <2>2
<1>10. LiveOrdersBound'
  <2> SUFFICES ASSUME NEW p \in Orders, orders'[p].status \in Live
               PROVE  orders'[p].cell \in Cells /\ cells'[orders'[p].cell].order = p
    BY DEF LiveOrdersBound
  <2>1. CASE p = o
    BY <1>2, <1>5, <1>6, <2>1
  <2>2. CASE p # o
    <3>1. orders'[p] = orders[p]
      BY <1>7, <2>2
    <3>2. orders[p].cell \in Cells /\ cells[orders[p].cell].order = p
      BY <3>1 DEF CellsInv, TablesAgree, CellsMatchOrders, LiveOrdersBound
    <3>3. orders[p].cell # c
      BY <1>2, <3>2 DEF IdleUnbound, CellTableAssumption
    <3>4. QED
      BY <1>7, <3>1, <3>2, <3>3
  <2>3. QED
    BY <2>1, <2>2
<1>11. UnboundCellsIdle'
  BY <1>4, <1>6, <1>7 DEF CellsInv, TablesAgree, CellsMatchOrders, UnboundCellsIdle
<1>12. SelectionHolds'
  <2>1. \A s \in Reqs \ {r} : req[s].pc = "insert" => req[s].cell # c
    BY DEF InsertOrder, CellsInv, TablesAgree, SelectionHolds, Inserting
  <2>2. \A s \in Reqs \ {r} : req[s].pc = "insert" =>
          rowLock'[req[s].cell] /\ IdleUnbound(cells'[req[s].cell])
    BY <1>1, <1>7, <2>1 DEF InsertOrder, CellsInv, TablesAgree, SelectionHolds
  <2>3. req' = [req EXCEPT ![r] = Idle] /\ Idle.pc # "insert"
    BY DEF InsertOrder, Idle
  <2>4. QED
    BY <2>2, <2>3, SelectionKept DEF CellsInv, TablesAgree
<1>13. QED
  BY <1>9, <1>10, <1>11, <1>12 DEF TablesAgree, CellsMatchOrders

\* What is known of the cell of a live order.
LEMMA LiveOrderCell ==
  ASSUME CellsInv, NEW o \in Orders, orders[o].status \in Live
  PROVE  /\ orders[o].cell \in Cells
         /\ cells[orders[o].cell].order = o
         /\ cells[orders[o].cell].occ = Occupancy(orders[o].status)
         /\ \A c \in Cells : cells[c].order = o => c = orders[o].cell
<1>1. orders[o].cell \in Cells /\ cells[orders[o].cell].order = o
  BY DEF CellsInv, TablesAgree, CellsMatchOrders, LiveOrdersBound
<1>2. \A c \in Cells : cells[c].order = o =>
        c = orders[o].cell /\ cells[c].occ = Occupancy(orders[o].status)
  BY CellTableAssumption DEF CellsInv, TablesAgree, CellsMatchOrders, BoundCellsMatch
<1>3. QED
  BY <1>1, <1>2

\* A move between two live statuses with the same occupancy.
LEMMA OrderMovesInPlace ==
  ASSUME CellsInv, NEW r \in Reqs, NEW q, q.pc # "insert", req' = [req EXCEPT ![r] = q],
         NEW o \in Orders, NEW row, orders' = [orders EXCEPT ![o] = row],
         orders[o].status \in Live, row.status \in Live, row.cell = orders[o].cell,
         Occupancy(row.status) = Occupancy(orders[o].status),
         cells' = cells, rowLock' = rowLock
  PROVE  TablesAgree'
<1>1. \A c \in Cells : cells'[c].occ = IF cells[c].order = o
                                       THEN Occupancy(row.status) ELSE cells[c].occ
  BY LiveOrderCell
<1>2. QED
  BY <1>1, OrderMoves

LEMMA MarkKeepsTables ==
  ASSUME CellsInv, NEW r \in Reqs, MarkOverdue(r) \/ MarkOverdueFails(r)
  PROVE  TablesAgree'
<1> DEFINE q == req[r]
           row == [orders[q.order] EXCEPT !.status = "OVERDUE", !.overdueFee = q.fee]
<1>1. q \in Request /\ q.order \in Orders /\ orders[q.order] \in OrderRow
  BY DEF MarkOverdue, MarkOverdueFails, CellsInv, Typed, TypeOK, RequestsNameOrders, NamesOrder
<1>2. AfterLazy(q).pc # "insert"
  BY <1>1 DEF AfterLazy, Idle, Request, MarkOverdue, MarkOverdueFails
<1>3. CASE orders' = orders
  <2>1. \A s \in Reqs \ {r} : req[s].pc = "insert" => rowLock'[req[s].cell]
    BY DEF MarkOverdue, MarkOverdueFails, CellsInv, TablesAgree, SelectionHolds
  <2>2. QED
    BY <1>2, <1>3, <2>1, TablesKept DEF MarkOverdue, MarkOverdueFails
<1>4. CASE MarkOverdue(r) /\ orders[q.order].status = "IN_STORAGE"
  <2>1. orders' = [orders EXCEPT ![q.order] = row]
    BY <1>4 DEF MarkOverdue
  <2>2. row.status = "OVERDUE" /\ row.cell = orders[q.order].cell
    BY <1>1 DEF OrderRow
  <2> HIDE DEF row
  <2>3. QED
    BY <1>1, <1>2, <1>4, <2>1, <2>2, LiveIs, OrderMovesInPlace DEF MarkOverdue, Occupancy
<1>5. QED
  BY <1>3, <1>4 DEF MarkOverdue, MarkOverdueFails

LEMMA CommitKeepsTables ==
  ASSUME CellsInv, NEW r \in Reqs,
         \/ CommitCancel(r) \/ CommitPayment(r) \/ CommitDeposit(r)
         \/ PickupCommits(r) \/ CommitSettle(r)
  PROVE  TablesAgree'
<1> DEFINE o == req[r].order
<1>1. ASSUME NEW op, InTx(r, op)
      PROVE  o \in Orders /\ orders[o] \in OrderRow /\ Accepts(req[r]) /\ req[r].op = op
  BY <1>1, InTxFacts DEF CellsInv
<1>2. Idle.pc # "insert"
  BY DEF Idle
<1>3. CASE CommitCancel(r)
  <2>1. InTx(r, "cancel")
    BY <1>3 DEF CommitCancel
  <2>2. [orders[o] EXCEPT !.status = "CANCELLED"].status \notin Live
    BY <1>1, <2>1, LiveIs DEF OrderRow
  <2>3. QED
    BY <1>1, <1>2, <1>3, <2>1, <2>2, OrderEnds DEF CommitCancel, Finished
<1>4. CASE PickupCommits(r)
  <2>1. InTx(r, "pickup")
    BY <1>4 DEF PickupCommits
  <2>2. [orders[o] EXCEPT !.status = "COMPLETED"].status \notin Live
    BY <1>1, <2>1, LiveIs DEF OrderRow
  <2>3. QED
    BY <1>1, <1>2, <1>4, <2>1, <2>2, OrderEnds DEF PickupCommits, Finished
<1>5. CASE CommitPayment(r)
  <2> DEFINE row == [orders[o] EXCEPT !.status = "AWAITING_DEPOSIT"]
  <2>1. InTx(r, "pay")
    BY <1>5 DEF CommitPayment
  <2>2. orders[o].status = "PENDING_PAYMENT"
    BY <1>1, <2>1 DEF Accepts
  <2>3. row.status = "AWAITING_DEPOSIT" /\ row.cell = orders[o].cell
    BY <1>1, <2>1 DEF OrderRow
  <2>4. orders' = [orders EXCEPT ![o] = row]
    BY <1>5 DEF CommitPayment
  <2> HIDE DEF row
  <2>5. /\ orders[o].status \in Live /\ row.status \in Live
        /\ Occupancy(row.status) = Occupancy(orders[o].status)
    BY <2>2, <2>3, LiveIs DEF Occupancy
  <2>6. req' = [req EXCEPT ![r] = Idle] /\ cells' = cells /\ rowLock' = rowLock
    BY <1>5 DEF CommitPayment, Finished
  <2>7. QED
    BY <1>1, <1>2, <2>1, <2>3, <2>4, <2>5, <2>6, OrderMovesInPlace
<1>6. CASE CommitSettle(r)
  <2> DEFINE row == [orders[o] EXCEPT !.status = "AWAITING_PICKUP", !.overdueFee = 0]
  <2>1. InTx(r, "settle")
    BY <1>6 DEF CommitSettle
  <2>2. orders[o].status = "OVERDUE"
    BY <1>1, <2>1 DEF Accepts
  <2>3. row.status = "AWAITING_PICKUP" /\ row.cell = orders[o].cell
    BY <1>1, <2>1 DEF OrderRow
  <2>4. orders' = [orders EXCEPT ![o] = row]
    BY <1>6 DEF CommitSettle
  <2> HIDE DEF row
  <2>5. /\ orders[o].status \in Live /\ row.status \in Live
        /\ Occupancy(row.status) = Occupancy(orders[o].status)
    BY <2>2, <2>3, LiveIs DEF Occupancy
  <2>6. req' = [req EXCEPT ![r] = Idle] /\ cells' = cells /\ rowLock' = rowLock
    BY <1>6 DEF CommitSettle, Finished
  <2>7. QED
    BY <1>1, <1>2, <2>1, <2>3, <2>4, <2>5, <2>6, OrderMovesInPlace
<1>7. CASE CommitDeposit(r)
  <2> DEFINE row == [orders[o] EXCEPT !.status = "IN_STORAGE",
                                      !.expires = req[r].at + orders[o].duration]
  <2>1. InTx(r, "deposit")
    BY <1>7 DEF CommitDeposit
  <2>2. orders[o].status = "AWAITING_DEPOSIT"
    BY <1>1, <2>1 DEF Accepts
  <2>3. row.status = "IN_STORAGE" /\ row.cell = orders[o].cell
    BY <1>1, <2>1 DEF OrderRow
  <2>4. orders' = [orders EXCEPT ![o] = row]
    BY <1>7 DEF CommitDeposit
  <2>5. orders[o].status \in Live
    BY <2>2, LiveIs
  <2>6. cells \in [Cells -> CellRow]
    BY DEF CellsInv, Typed, TypeOK
  <2>7. \A c \in Cells : /\ cells'[c].order = cells[c].order
                         /\ cells'[c].key = cells[c].key
                         /\ cells'[c].occ = IF cells[c].order = o
                                            THEN "OCCUPIED" ELSE cells[c].occ
    <3>1. cells' = [cells EXCEPT ![orders[o].cell] =
                      IF @.order = o THEN [@ EXCEPT !.occ = "OCCUPIED"] ELSE @]
      BY <1>7 DEF CommitDeposit, occupyCell
    <3>2. \A c \in Cells : cells[c].order = o <=> c = orders[o].cell
      BY <1>1, <2>1, <2>5, LiveOrderCell
    <3>3. QED
      BY <2>6, <3>1, <3>2 DEF CellRow
  <2>8. Occupancy(row.status) = "OCCUPIED" /\ row.status \in Live
    BY <2>3, LiveIs DEF Occupancy
  <2> HIDE DEF row
  <2>9. QED
    <3>1. \A c \in Cells : cells'[c].occ = IF cells[c].order = o
                                            THEN Occupancy(row.status) ELSE cells[c].occ
      BY <2>7, <2>8
    <3>2. req' = [req EXCEPT ![r] = Idle] /\ rowLock' = rowLock /\ o \in Orders
      BY <1>1, <1>7, <2>1 DEF CommitDeposit, Finished
    <3>3. QED
      BY <1>2, <2>3, <2>4, <2>5, <2>7, <2>8, <3>1, <3>2, OrderMoves
<1>8. QED
  BY <1>3, <1>4, <1>5, <1>6, <1>7

\* The steps that only touch the record of the request.
LEMMA RequestStepKeepsTables ==
  ASSUME CellsInv, NEW r \in Reqs, NEW q, q.pc # "insert", req' = [req EXCEPT ![r] = q],
         UNCHANGED <<orders, cells, rowLock>>
  PROVE  TablesAgree'
<1>1. \A s \in Reqs \ {r} : req[s].pc = "insert" => rowLock'[req[s].cell]
  BY DEF CellsInv, TablesAgree, SelectionHolds
<1>2. QED
  BY <1>1, TablesKept

LEMMA CellsInvStep == CellsInv /\ [Next]_vars => CellsInv'
<1> SUFFICES ASSUME CellsInv, [Next]_vars PROVE TablesAgree'
  BY TypedStep DEF CellsInv
<1>1. CASE Tick \/ UNCHANGED vars
  <2>1. UNCHANGED <<orders, cells, rowLock, req>>
    BY <1>1 DEF Tick, vars
  <2>2. QED
    BY <2>1 DEF CellsInv, TablesAgree, CellsMatchOrders, BoundCellsMatch, LiveOrdersBound,
       UnboundCellsIdle, SelectionHolds, Inserting
<1>2. ASSUME NEW r \in Reqs, NEW o \in Orders,
             \/ GetOrder(r, o) \/ SettleOverdue(r, o) \/ CancelOrder(r, o)
             \/ ConfirmDevelopmentPayment(r, o) \/ OpenDepositDoor(r, o)
             \/ OpenPickupDoor(r, o)
      PROVE  TablesAgree'
  <2>1. PICK q : q.pc # "insert" /\ req' = [req EXCEPT ![r] = q]
    BY <1>2 DEF GetOrder, SettleOverdue, CancelOrder, ConfirmDevelopmentPayment,
       OpenDepositDoor, OpenPickupDoor, Idle
  <2>2. QED
    BY <1>2, <2>1, RequestStepKeepsTables DEF GetOrder, SettleOverdue, CancelOrder,
       ConfirmDevelopmentPayment, OpenDepositDoor, OpenPickupDoor
<1>3. ASSUME NEW r \in Reqs, OpenDoor(r) \/ BeginTx(r) \/ applyLazyOverdue(r)
      PROVE  TablesAgree'
  <2>1. req[r] \in Request
    BY DEF CellsInv, Typed, TypeOK
  <2>2. PICK q : q.pc # "insert" /\ req' = [req EXCEPT ![r] = q]
    BY <1>3, <2>1 DEF OpenDoor, BeginTx, applyLazyOverdue, AfterLazy, Idle, Request
  <2>3. QED
    BY <1>3, <2>2, RequestStepKeepsTables DEF OpenDoor, BeginTx, applyLazyOverdue
<1>4. ASSUME NEW r \in Reqs, PickupUpdateFails(r) \/ StateConflict(r)
      PROVE  TablesAgree'
  BY <1>4, RequestStepKeepsTables DEF PickupUpdateFails, StateConflict, Finished, Idle
<1>5. ASSUME NEW r \in Reqs, Abandon(r) PROVE TablesAgree'
  <2>1. rowLock \in [Cells -> BOOLEAN]
    BY DEF CellsInv, Typed, TypeOK
  <2>2. \A s \in Reqs \ {r} : req[s].pc = "insert" => rowLock'[req[s].cell]
    BY <1>5, <2>1 DEF Abandon, CellsInv, TablesAgree, SelectionHolds, Inserting
  <2>3. QED
    BY <1>5, <2>2, TablesKept DEF Abandon, Finished, Idle
<1>6. QED
  BY <1>1, <1>2, <1>3, <1>4, <1>5, CreateKeepsTables, InsertKeepsTables, MarkKeepsTables,
     CommitKeepsTables, PickupCommitsOrFails DEF Next, Ask, Serve, Fail

LEMMA AlwaysCellsInv == Spec => []CellsInv
BY CellsInvInit, CellsInvStep, PTL DEF Spec

(***************************************************************************)
(* No cell is allocated twice, none leaks when its order ends, and no live *)
(* order is without its cell, however the transactions of create, cancel,  *)
(* pay, deposit, pickup and settle interleave.                             *)
(***************************************************************************)
THEOREM TablesMatch == Spec => []CellsMatchOrders
<1>1. CellsInv => CellsMatchOrders
  BY DEF CellsInv, TablesAgree
<1>2. QED
  BY <1>1, AlwaysCellsInv, PTL

\* A step of a request that locks nothing keeps the locks of the others.
LEMMA LocksRequest ==
  ASSUME Typed, LocksGivenBack, NEW r \in Reqs, NEW q,
         req' = [req EXCEPT ![r] = q],
         req[r].pc = "insert" => q.pc = "insert" /\ q.cell = req[r].cell,
         rowLock' = rowLock
  PROVE  LocksGivenBack'
<1>1. req \in [Reqs -> Request]
  BY DEF Typed, TypeOK
<1>2. ASSUME NEW s \in Reqs, NEW c \in Cells, Inserting(s, c) PROVE Inserting(s, c)'
  BY <1>1, <1>2 DEF Inserting
<1>3. QED
  BY <1>2 DEF LocksGivenBack

\* A request that ends an insert gives back its lock and no other.
LEMMA LocksInsertEnds ==
  ASSUME Typed, LocksGivenBack, NEW r \in Reqs, req[r].pc = "insert",
         req' = [req EXCEPT ![r] = Idle],
         rowLock' = [rowLock EXCEPT ![req[r].cell] = FALSE]
  PROVE  LocksGivenBack'
<1>1. req \in [Reqs -> Request] /\ rowLock \in [Cells -> BOOLEAN]
  BY DEF Typed, TypeOK
<1>2. ASSUME NEW c \in Cells, rowLock'[c] PROVE \E s \in Reqs : Inserting(s, c)'
  <2>1. rowLock[c] /\ c # req[r].cell
    BY <1>1, <1>2
  <2>2. PICK s \in Reqs : Inserting(s, c)
    BY <2>1 DEF LocksGivenBack
  <2>3. s # r
    BY <2>1, <2>2 DEF Inserting
  <2>4. QED
    BY <1>1, <2>2, <2>3 DEF Inserting
<1>3. QED
  BY <1>2 DEF LocksGivenBack

LEMMA LocksStep ==
  ASSUME CellsInv, LocksGivenBack, [Next]_vars
  PROVE  LocksGivenBack'
<1>1. Typed /\ req \in [Reqs -> Request] /\ rowLock \in [Cells -> BOOLEAN]
  BY DEF CellsInv, Typed, TypeOK
<1>2. ASSUME NEW r \in Reqs, NEW site, NEW size, NEW d, CreateOrder(r, site, size, d)
      PROVE  LocksGivenBack'
  <2>1. PICK c \in Cells :
          /\ rowLock' = [rowLock EXCEPT ![c] = TRUE]
          /\ req' = [req EXCEPT ![r] = [Idle EXCEPT !.pc = "insert", !.op = "create",
                                                    !.cell = c, !.duration = d]]
    BY <1>2 DEF CreateOrder, Allocatable
  <2>2. req[r].pc = "idle"
    BY <1>2 DEF CreateOrder
  <2>3. Inserting(r, c)'
    BY <1>1, <2>1 DEF Inserting, Idle
  <2>4. ASSUME NEW e \in Cells, e # c, rowLock'[e] PROVE \E s \in Reqs : Inserting(s, e)'
    <3>1. rowLock[e]
      BY <1>1, <2>1, <2>4
    <3>2. PICK s \in Reqs : Inserting(s, e)
      BY <3>1 DEF LocksGivenBack
    <3>3. s # r
      BY <2>2, <3>2 DEF Inserting
    <3>4. QED
      BY <1>1, <2>1, <3>2, <3>3 DEF Inserting
  <2>5. QED
    BY <2>3, <2>4 DEF LocksGivenBack
<1>3. ASSUME NEW r \in Reqs, Ask(r) PROVE LocksGivenBack'
  <2>1. ASSUME NEW o \in Orders,
               \/ GetOrder(r, o) \/ SettleOverdue(r, o) \/ CancelOrder(r, o)
               \/ ConfirmDevelopmentPayment(r, o) \/ OpenDepositDoor(r, o)
               \/ OpenPickupDoor(r, o)
        PROVE  LocksGivenBack'
    BY <1>1, <2>1, LocksRequest DEF GetOrder, SettleOverdue, CancelOrder,
       ConfirmDevelopmentPayment, OpenDepositDoor, OpenPickupDoor
  <2>2. QED
    BY <1>2, <1>3, <2>1 DEF Ask
<1>4. ASSUME NEW r \in Reqs, InsertOrder(r) PROVE LocksGivenBack'
  BY <1>1, <1>4, LocksInsertEnds DEF InsertOrder
<1>5. ASSUME NEW r \in Reqs,
             \/ OpenDoor(r) \/ BeginTx(r) \/ applyLazyOverdue(r)
             \/ MarkOverdue(r) \/ MarkOverdueFails(r)
      PROVE  LocksGivenBack'
  <2>1. req[r].pc # "insert" /\ rowLock' = rowLock
    BY <1>5 DEF OpenDoor, BeginTx, applyLazyOverdue, MarkOverdue, MarkOverdueFails
  <2>2. PICK q : req' = [req EXCEPT ![r] = q]
    BY <1>5 DEF OpenDoor, BeginTx, applyLazyOverdue, MarkOverdue, MarkOverdueFails
  <2>3. QED
    BY <1>1, <2>1, <2>2, LocksRequest
<1>6. ASSUME NEW r \in Reqs,
             \/ CommitCancel(r) \/ CommitPayment(r) \/ CommitDeposit(r) \/ CommitPickup(r)
             \/ CommitSettle(r) \/ StateConflict(r)
      PROVE  LocksGivenBack'
  <2>1. req[r].pc # "insert" /\ rowLock' = rowLock /\ req' = [req EXCEPT ![r] = Idle]
    BY <1>6 DEF CommitCancel, CommitPayment, CommitDeposit, CommitPickup, CommitSettle,
       StateConflict, Finished, InTx
  <2>2. QED
    BY <1>1, <2>1, LocksRequest
<1>7. ASSUME NEW r \in Reqs, Abandon(r) PROVE LocksGivenBack'
  BY <1>1, <1>7, LocksRequest, LocksInsertEnds DEF Abandon, Finished
<1>8. CASE Tick \/ UNCHANGED vars
  BY <1>8 DEF Tick, vars, LocksGivenBack, Inserting
<1>9. QED
  BY <1>3, <1>4, <1>5, <1>6, <1>7, <1>8 DEF Next, Serve, Fail

(***************************************************************************)
(* A cell CreateOrder selected stays idle, unbound and its own until it    *)
(* inserts the order; and however the request ends, its lock ends with it. *)
(***************************************************************************)
THEOREM SelectionIsExclusive == Spec => []SelectedCellStaysFree
<1>1. CellsInv => SelectionHolds
  BY DEF CellsInv, TablesAgree
<1>2. Init => LocksGivenBack
  BY DEF Init, LocksGivenBack
<1>3. CellsInv /\ LocksGivenBack /\ [Next]_vars => LocksGivenBack'
  BY LocksStep
<1>4. Spec => []LocksGivenBack
  BY <1>2, <1>3, AlwaysCellsInv, PTL DEF Spec
<1>5. QED
  BY <1>1, <1>4, AlwaysCellsInv, PTL DEF SelectedCellStaysFree

-----------------------------------------------------------------------------
\* Refinement.  CellsInv says where the cell that ends an order is found.

statusOf == [o \in Orders |-> orders[o].status]
holderOf == [c \in Cells |-> cells[c].order]

\* OrderContract reads the same lifecycle.
LEMMA SameLifecycle ==
  /\ Contract!NoStatus = NoStatus
  /\ Contract!OrderStatus = OrderStatus
  /\ \A from, to : Contract!canTransition(from, to) <=> canTransition(from, to)
  /\ Contract!Live = Live
  /\ Contract!Terminal = Terminal
<1>1. Contract!OrderStatus = OrderStatus
  BY DEF Contract!OrderStatus, OrderStatus
<1>2. Contract!allowedTransitions = allowedTransitions
  BY <1>1 DEF Contract!allowedTransitions, allowedTransitions
<1>3. Contract!Terminal = Terminal
  BY <1>1, <1>2 DEF Contract!Terminal, Terminal
<1>4. QED
  BY <1>1, <1>2, <1>3 DEF Contract!NoStatus, NoStatus, Contract!canTransition, canTransition,
     Contract!Live, Live

LEMMA ContractInit == Init => Contract!Init
BY SameLifecycle DEF Init, Contract!Init, NoOrderRow, IdleRow

LEMMA ContractKept ==
  ASSUME UNCHANGED <<orders, cells>>
  PROVE  UNCHANGED Contract!vars
BY DEF Contract!vars

\* What a step that writes one order row and no binding is to the contract.
LEMMA StatusMoves ==
  ASSUME Typed, NEW o \in Orders, NEW row, orders' = [orders EXCEPT ![o] = row]
  PROVE  statusOf' = [statusOf EXCEPT ![o] = row.status]
<1>1. orders \in [Orders -> OrderRow]
  BY DEF Typed, TypeOK
<1>2. QED
  BY <1>1 DEF statusOf

LEMMA ContractAdvance ==
  ASSUME Typed, NEW o \in Orders, NEW row, orders' = [orders EXCEPT ![o] = row],
         \A c \in Cells : cells'[c].order = cells[c].order,
         canTransition(orders[o].status, row.status), row.status \in Live \ {"PAID"}
  PROVE  Contract!Next
<1>1. statusOf' = [statusOf EXCEPT ![o] = row.status] /\ holderOf' = holderOf
  BY StatusMoves DEF holderOf
<1>2. Contract!Advance(o, row.status)
  BY <1>1, SameLifecycle DEF Contract!Advance, statusOf, holderOf
<1>3. row.status \in OrderStatus
  BY DEF Live
<1>4. QED
  BY <1>2, <1>3, SameLifecycle DEF Contract!Next

LEMMA ContractPay ==
  ASSUME Typed, NEW o \in Orders, NEW row, orders' = [orders EXCEPT ![o] = row],
         cells' = cells, orders[o].status = "PENDING_PAYMENT",
         row.status = "AWAITING_DEPOSIT"
  PROVE  Contract!Next
<1>1. statusOf' = [statusOf EXCEPT ![o] = "AWAITING_DEPOSIT"] /\ holderOf' = holderOf
  BY StatusMoves DEF holderOf
<1>2. Contract!Pay(o)
  BY <1>1, SameLifecycle, Transitions DEF Contract!Pay, statusOf, holderOf
<1>3. QED
  BY <1>2 DEF Contract!Next

LEMMA ContractFinish ==
  ASSUME CellsInv, NEW o \in Orders, NEW row, orders' = [orders EXCEPT ![o] = row],
         cells' = releaseCell(cells, orders[o].cell, o),
         canTransition(orders[o].status, row.status), row.status \in Terminal,
         orders[o].status \in Live
  PROVE  Contract!Next
<1> DEFINE c == orders[o].cell
<1>1. c \in Cells /\ cells[c].order = o
  BY LiveOrderCell
<1>2. cells \in [Cells -> CellRow] /\ Typed
  BY DEF CellsInv, Typed, TypeOK
<1>3. cells' = [cells EXCEPT ![c] = IdleRow]
  BY <1>1 DEF releaseCell
<1>4. statusOf' = [statusOf EXCEPT ![o] = row.status]
  BY <1>2, StatusMoves
<1>5. holderOf' = [holderOf EXCEPT ![c] = NoOrder]
  <2>1. IdleRow.order = NoOrder
    BY DEF IdleRow
  <2> HIDE DEF c
  <2>2. QED
    BY <1>1, <1>2, <1>3, <2>1 DEF holderOf
<1>6. row.status \in OrderStatus
  BY DEF Terminal
<1>7. Contract!Finish(o, c, row.status)
  BY <1>1, <1>4, <1>5, SameLifecycle DEF Contract!Finish, statusOf, holderOf
<1>8. QED
  BY <1>1, <1>6, <1>7, SameLifecycle DEF Contract!Next

LEMMA ContractPlace ==
  ASSUME CellsInv, NEW r \in Reqs, InsertOrder(r)
  PROVE  Contract!Next
<1> DEFINE c == req[r].cell
           row(o) == [NoOrderRow EXCEPT !.status = "PENDING_PAYMENT", !.cell = c,
                                        !.duration = req[r].duration]
<1>1. c \in Cells /\ IdleUnbound(cells[c]) /\ Typed /\ cells \in [Cells -> CellRow]
  BY DEF InsertOrder, CellsInv, Typed, TypeOK, TablesAgree, SelectionHolds
<1>2. PICK o \in UnusedIds : /\ orders' = [orders EXCEPT ![o] = row(o)]
                             /\ cells' = bindCell(cells, c, o)
  BY <1>1 DEF InsertOrder
<1>3. o \in Orders /\ orders[o].status = NoStatus
  BY DEF UnusedIds
<1>4. row(o).status = "PENDING_PAYMENT"
  BY DEF NoOrderRow
<1>5. statusOf' = [statusOf EXCEPT ![o] = "PENDING_PAYMENT"]
  BY <1>1, <1>2, <1>3, <1>4, StatusMoves
<1>6. holderOf' = [holderOf EXCEPT ![c] = o]
  BY <1>1, <1>2 DEF holderOf, bindCell, CellRow
<1>7. Contract!Place(o, c)
  BY <1>1, <1>3, <1>5, <1>6, SameLifecycle
     DEF Contract!Place, statusOf, holderOf, IdleUnbound
<1> HIDE DEF row
<1>8. QED
  BY <1>1, <1>3, <1>7 DEF Contract!Next, Contract!Place

LEMMA ContractStep == CellsInv /\ [Next]_vars => [Contract!Next]_Contract!vars
<1> SUFFICES ASSUME CellsInv, [Next]_vars
             PROVE  Contract!Next \/ UNCHANGED Contract!vars
  OBVIOUS
<1>1. ASSUME UNCHANGED <<orders, cells>> PROVE UNCHANGED Contract!vars
  BY <1>1, ContractKept
<1>2. ASSUME NEW r \in Reqs, MarkOverdue(r) PROVE Contract!Next \/ UNCHANGED Contract!vars
  <2> DEFINE o == req[r].order
             row == [orders[o] EXCEPT !.status = "OVERDUE", !.overdueFee = req[r].fee]
  <2>1. o \in Orders /\ orders[o] \in OrderRow /\ Typed
    BY <1>2 DEF MarkOverdue, CellsInv, Typed, TypeOK, RequestsNameOrders, NamesOrder
  <2>2. CASE orders[o].status = "IN_STORAGE"
    <3>1. orders' = [orders EXCEPT ![o] = row] /\ cells' = cells
      BY <1>2, <2>2 DEF MarkOverdue
    <3>2. row.status = "OVERDUE"
      BY <2>1 DEF OrderRow
    <3> HIDE DEF row
    <3>3. QED
      BY <2>1, <2>2, <3>1, <3>2, ContractAdvance, Transitions, LiveIs
  <2>3. CASE orders[o].status # "IN_STORAGE"
    BY <1>1, <1>2, <2>3 DEF MarkOverdue
  <2>4. QED
    BY <2>2, <2>3
<1>3. ASSUME NEW r \in Reqs, NEW op, InTx(r, op)
      PROVE  /\ req[r].order \in Orders /\ orders[req[r].order] \in OrderRow
             /\ Accepts(req[r]) /\ req[r].op = op /\ Typed
  BY <1>3, InTxFacts DEF CellsInv
<1>4. ASSUME NEW r \in Reqs, CommitCancel(r) \/ PickupCommits(r) PROVE Contract!Next
  <2> DEFINE o == req[r].order
             to == IF CommitCancel(r) THEN "CANCELLED" ELSE "COMPLETED"
             row == [orders[o] EXCEPT !.status = to]
  <2>1. PICK op \in {"cancel", "pickup"} : InTx(r, op)
    BY <1>4 DEF CommitCancel, PickupCommits
  <2>2. row.status = to
    BY <1>3, <2>1 DEF OrderRow
  <2>3. canTransition(orders[o].status, to) /\ to \in Terminal /\ orders[o].status \in Live
    BY <1>3, <1>4, Transitions, LiveIs DEF CommitCancel, PickupCommits, Accepts
  <2>4. orders' = [orders EXCEPT ![o] = row] /\ cells' = releaseCell(cells, orders[o].cell, o)
    BY <1>4 DEF CommitCancel, PickupCommits
  <2> HIDE DEF row, to
  <2>5. QED
    BY <1>3, <2>1, <2>2, <2>3, <2>4, ContractFinish
<1>5. ASSUME NEW r \in Reqs, CommitPayment(r) PROVE Contract!Next
  <2> DEFINE o == req[r].order
             row == [orders[o] EXCEPT !.status = "AWAITING_DEPOSIT"]
  <2>1. InTx(r, "pay")
    BY <1>5 DEF CommitPayment
  <2>2. orders[o].status = "PENDING_PAYMENT"
    BY <1>3, <2>1 DEF Accepts
  <2>3. row.status = "AWAITING_DEPOSIT"
    BY <1>3, <2>1 DEF OrderRow
  <2>4. orders' = [orders EXCEPT ![o] = row] /\ cells' = cells
    BY <1>5 DEF CommitPayment
  <2> HIDE DEF row
  <2>5. QED
    BY <1>3, <2>1, <2>2, <2>3, <2>4, ContractPay
<1>6. ASSUME NEW r \in Reqs, CommitSettle(r) PROVE Contract!Next
  <2> DEFINE o == req[r].order
             row == [orders[o] EXCEPT !.status = "AWAITING_PICKUP", !.overdueFee = 0]
  <2>1. InTx(r, "settle")
    BY <1>6 DEF CommitSettle
  <2>2. orders[o].status = "OVERDUE"
    BY <1>3, <2>1 DEF Accepts
  <2>3. row.status = "AWAITING_PICKUP"
    BY <1>3, <2>1 DEF OrderRow
  <2>4. orders' = [orders EXCEPT ![o] = row] /\ cells' = cells
    BY <1>6 DEF CommitSettle
  <2> HIDE DEF row
  <2>5. QED
    BY <1>3, <2>1, <2>2, <2>3, <2>4, ContractAdvance, Transitions, LiveIs
<1>7. ASSUME NEW r \in Reqs, CommitDeposit(r) PROVE Contract!Next
  <2> DEFINE o == req[r].order
             row == [orders[o] EXCEPT !.status = "IN_STORAGE",
                                      !.expires = req[r].at + orders[o].duration]
  <2>1. InTx(r, "deposit")
    BY <1>7 DEF CommitDeposit
  <2>2. orders[o].status = "AWAITING_DEPOSIT"
    BY <1>3, <2>1 DEF Accepts
  <2>3. row.status = "IN_STORAGE"
    BY <1>3, <2>1 DEF OrderRow
  <2>4. orders' = [orders EXCEPT ![o] = row] /\ cells' = occupyCell(cells, orders[o].cell, o)
    BY <1>7 DEF CommitDeposit
  <2>5. cells \in [Cells -> CellRow]
    BY DEF CellsInv, Typed, TypeOK
  <2>6. \A c \in Cells : cells'[c].order = cells[c].order
    BY <2>4, <2>5 DEF occupyCell, CellRow
  <2> HIDE DEF row
  <2>7. QED
    BY <1>3, <2>1, <2>2, <2>3, <2>4, <2>6, ContractAdvance, Transitions, LiveIs
<1>8. CASE Tick \/ UNCHANGED vars
  BY <1>1, <1>8 DEF Tick, vars
<1>9. ASSUME NEW r \in Reqs,
             \/ Ask(r) \/ Fail(r) \/ OpenDoor(r) \/ BeginTx(r) \/ applyLazyOverdue(r)
             \/ PickupUpdateFails(r) \/ StateConflict(r)
      PROVE  UNCHANGED Contract!vars
  BY <1>1, <1>9 DEF Ask, Fail, CreateOrder, GetOrder, SettleOverdue, CancelOrder,
     ConfirmDevelopmentPayment, OpenDepositDoor, OpenPickupDoor, OpenDoor, BeginTx,
     applyLazyOverdue, MarkOverdueFails, Abandon, PickupUpdateFails, StateConflict
<1>10. QED
  BY <1>2, <1>4, <1>5, <1>6, <1>7, <1>8, <1>9, ContractPlace,
     PickupCommitsOrFails DEF Next, Serve

(***************************************************************************)
(* The interleaved, locking service refines the atomic contract: each      *)
(* status change is an allowed transition, made with the binding of the    *)
(* cell it requires.                                                       *)
(***************************************************************************)
THEOREM Refinement == Spec => ImplementsContract
BY ContractInit, ContractStep, AlwaysCellsInv, PTL DEF Spec, Contract!Spec, ImplementsContract
=============================================================================
