------------------------- MODULE OrderHistoryProofs --------------------------
(***************************************************************************)
(* What of its past an order shows: its status log, its overdue fee and the*)
(* doors opened for it agree with the orders in every reachable state; and *)
(* what the fee functions return.                                          *)
(***************************************************************************)
EXTENDS OrderServiceProofs

-----------------------------------------------------------------------------
\* The fee functions.

\* CeilDiv is the least number of whole units that cover n.
LEMMA CeilDivCovers ==
  ASSUME NEW n \in Nat, NEW d \in Nat \ {0}
  PROVE  /\ CeilDiv(n, d) \in Nat
         /\ n <= d * CeilDiv(n, d)
         /\ d * CeilDiv(n, d) < n + d
<1> DEFINE m == n + d - 1
           k == m \div d
<1>1. m \in Nat
  OBVIOUS
<1>2. k \in Nat /\ d * k <= m /\ m < d * k + d
  <2> HIDE DEF m
  <2>1. QED
    BY <1>1, Z3
<1>3. d * k \in Nat
  BY <1>2
<1> HIDE DEF k
<1>4. n <= d * k /\ d * k < n + d
  BY <1>2, <1>3
<1>5. QED
  BY <1>2, <1>4 DEF CeilDiv, k

LEMMA TimesMonotone ==
  ASSUME NEW d \in Nat, NEW a \in Nat, NEW b \in Nat, a <= b
  PROVE  d * a <= d * b
OBVIOUS

LEMMA CeilDivMonotone ==
  ASSUME NEW n \in Nat, NEW m \in Nat, n <= m, NEW d \in Nat \ {0}
  PROVE  CeilDiv(n, d) <= CeilDiv(m, d)
<1> DEFINE a == CeilDiv(n, d)
           b == CeilDiv(m, d)
<1>1. a \in Nat /\ d * a < n + d
  BY CeilDivCovers
<1>2. b \in Nat /\ m <= d * b
  BY CeilDivCovers
<1> HIDE DEF a, b
<1>3. SUFFICES ASSUME b + 1 <= a PROVE FALSE
  BY <1>1, <1>2 DEF a, b
<1>4. d * (b + 1) <= d * a
  BY <1>1, <1>2, <1>3, TimesMonotone
<1>5. d * (b + 1) = d * b + d
  BY <1>2
<1>6. QED
  BY <1>1, <1>2, <1>4, <1>5

(***************************************************************************)
(* The rent is the rate times the least number of whole hours that cover   *)
(* the duration, for every duration.                                       *)
(***************************************************************************)
THEOREM RentIsLeastHours ==
  ASSUME NEW size \in OrderSize, NEW minutes \in Nat \ {0}
  PROVE  \E h \in Nat : /\ ComputeFee(size, minutes) = RateFenPerHour(size) * h
                        /\ minutes <= 60 * h
                        /\ 60 * h < minutes + 60
<1> DEFINE h == CeilDiv(minutes, 60)
<1>1. h \in Nat /\ minutes <= 60 * h /\ 60 * h < minutes + 60
  BY CeilDivCovers
<1>2. ComputeFee(size, minutes) = RateFenPerHour(size) * h
  BY DEF ComputeFee
<1> HIDE DEF h
<1>3. QED
  BY <1>1, <1>2

LEMMA RateType == \A size : RateFenPerHour(size) \in Nat
BY DEF RateFenPerHour

LEMMA OverdueHoursType ==
  ASSUME NEW n \in Nat
  PROVE  OverdueHours(n) \in Nat /\ OverdueHours(n) >= 1
BY CeilDivCovers, HourAssumption DEF OverdueHours

\* The penalty is at least an hour's rate and never falls as time passes.
LEMMA OverdueFeeBounds ==
  ASSUME NEW size, NEW e \in Nat, NEW t \in Nat, NEW u \in Nat, t <= u
  PROVE  /\ computeOverdueFee(size, e, t) \in Nat
         /\ RateFenPerHour(size) <= computeOverdueFee(size, e, t)
         /\ computeOverdueFee(size, e, t) <= computeOverdueFee(size, e, u)
<1> DEFINE rate == RateFenPerHour(size)
           a == OverdueHours(Elapsed(e, t))
           b == OverdueHours(Elapsed(e, u))
<1>1. rate \in Nat
  BY RateType
<1>2. Elapsed(e, t) \in Nat /\ Elapsed(e, u) \in Nat /\ Elapsed(e, t) <= Elapsed(e, u)
  BY DEF Elapsed
<1>3. a \in Nat /\ b \in Nat /\ 1 <= a
  BY <1>2, OverdueHoursType
<1>4. a <= b
  <2>1. /\ CeilDiv(Elapsed(e, t), Hour) <= CeilDiv(Elapsed(e, u), Hour)
        /\ CeilDiv(Elapsed(e, t), Hour) \in Nat /\ CeilDiv(Elapsed(e, u), Hour) \in Nat
    BY <1>2, HourAssumption, CeilDivMonotone, CeilDivCovers
  <2>2. QED
    BY <2>1 DEF OverdueHours
<1> HIDE DEF rate, a, b
<1>5. rate * 1 <= rate * a /\ rate * a <= rate * b /\ rate * a \in Nat
  BY <1>1, <1>3, <1>4, TimesMonotone
<1>6. QED
  BY <1>1, <1>5 DEF computeOverdueFee, rate, a, b

-----------------------------------------------------------------------------
\* The log.

LEMMA ChainGrows ==
  ASSUME NEW rows \in Seq(LogRow), rows # <<>>, Chained(rows),
         NEW to \in OrderStatus, canTransition(rows[Len(rows)].to, to)
  PROVE  LET new == Append(rows, [from |-> rows[Len(rows)].to, to |-> to]) IN
         /\ new \in Seq(LogRow)
         /\ new # <<>>
         /\ Chained(new)
         /\ new[Len(new)].to = to
<1> DEFINE n == Len(rows)
           row == [from |-> rows[n].to, to |-> to]
           new == Append(rows, row)
<1>1. n \in Nat \ {0} /\ rows[n] \in LogRow
  BY DEF n
<1>2. row \in LogRow
  BY <1>1 DEF LogRow
<1>3. new \in Seq(LogRow) /\ Len(new) = n + 1 /\ new[n + 1] = row
      /\ \A i \in 1..n : new[i] = rows[i]
  BY <1>2
<1>4. Chained(new)
  <2>1. new[1] = [from |-> NoStatus, to |-> "PENDING_PAYMENT"]
    BY <1>1, <1>3 DEF Chained
  <2>2. ASSUME NEW i \in 2..(n + 1)
        PROVE  new[i].from = new[i - 1].to /\ canTransition(new[i].from, new[i].to)
    <3>1. CASE i = n + 1
      BY <1>1, <1>3, <3>1
    <3>2. CASE i # n + 1
      <4>1. i \in 2..n /\ i - 1 \in 1..n /\ i \in 1..n
        BY <1>1, <3>2
      <4>2. QED
        BY <1>3, <4>1 DEF Chained
    <3>3. QED
      BY <3>1, <3>2
  <2> HIDE DEF new, row, n
  <2>3. QED
    BY <1>3, <2>1, <2>2 DEF Chained
<1>5. QED
  BY <1>1, <1>3, <1>4

\* The log as the updates build it.
LEMMA LogMoves ==
  ASSUME Typed, LogTellsStatus, NEW o \in Orders, orders[o].status # NoStatus,
         NEW to \in OrderStatus, canTransition(orders[o].status, to),
         NEW row, row.status = to, orders' = [orders EXCEPT ![o] = row],
         log' = Logged(o, orders[o].status, to)
  PROVE  LogTellsStatus'
<1> DEFINE new == Append(log[o], [from |-> orders[o].status, to |-> to])
<1>1. orders \in [Orders -> OrderRow] /\ log \in [Orders -> Seq(LogRow)]
  BY DEF Typed, TypeOK
<1>2. log[o] # <<>> /\ Chained(log[o]) /\ log[o][Len(log[o])].to = orders[o].status
  BY DEF LogTellsStatus, Placed
<1>3. new # <<>> /\ Chained(new) /\ new[Len(new)].to = to
  BY <1>1, <1>2, ChainGrows
<1>4. log' = [log EXCEPT ![o] = new]
  BY DEF Logged
<1>5. to # NoStatus
  BY DEF OrderStatus, NoStatus
<1> HIDE DEF new
<1>6. QED
  BY <1>1, <1>3, <1>4, <1>5 DEF LogTellsStatus, Placed

LEMMA LogPays ==
  ASSUME Typed, LogTellsStatus, NEW o \in Orders, orders[o].status = "PENDING_PAYMENT",
         NEW row, row.status = "AWAITING_DEPOSIT", orders' = [orders EXCEPT ![o] = row],
         log' = [log EXCEPT ![o] = @ \o <<[from |-> "PENDING_PAYMENT", to |-> "PAID"],
                                          [from |-> "PAID", to |-> "AWAITING_DEPOSIT"]>>]
  PROVE  LogTellsStatus'
<1> DEFINE first  == [from |-> "PENDING_PAYMENT", to |-> "PAID"]
           second == [from |-> "PAID", to |-> "AWAITING_DEPOSIT"]
           one == Append(log[o], first)
           two == Append(one, second)
<1>1. orders \in [Orders -> OrderRow] /\ log \in [Orders -> Seq(LogRow)]
  BY DEF Typed, TypeOK
<1>2. log[o] # <<>> /\ Chained(log[o]) /\ log[o][Len(log[o])].to = "PENDING_PAYMENT"
  BY DEF LogTellsStatus, Placed, NoStatus
<1>3. "PAID" \in OrderStatus /\ "AWAITING_DEPOSIT" \in OrderStatus
  BY DEF OrderStatus
<1>4. one \in Seq(LogRow) /\ one # <<>> /\ Chained(one) /\ one[Len(one)].to = "PAID"
  BY <1>1, <1>2, <1>3, ChainGrows, Transitions
<1>5. two # <<>> /\ Chained(two) /\ two[Len(two)].to = "AWAITING_DEPOSIT"
  <2> HIDE DEF one
  <2>1. QED
    BY <1>3, <1>4, ChainGrows, Transitions
<1>6. log[o] \o <<first, second>> = two
  <2>1. first \in LogRow /\ second \in LogRow
    BY DEF LogRow, OrderStatus
  <2> HIDE DEF first, second
  <2>2. QED
    BY <1>1, <2>1
<1>7. log' = [log EXCEPT ![o] = two]
  BY <1>6
<1> HIDE DEF two
<1>8. QED
  BY <1>1, <1>5, <1>7 DEF LogTellsStatus, Placed, NoStatus

LogInv == Typed /\ LogTellsStatus

LEMMA LogInvInit == Init => LogInv
BY TypedInit DEF LogInv, Init, LogTellsStatus, Placed, NoOrderRow

LEMMA LogInvStep == LogInv /\ [Next]_vars => LogInv'
<1> SUFFICES ASSUME LogInv, [Next]_vars PROVE LogTellsStatus'
  BY TypedStep DEF LogInv
<1> USE DEF LogInv
<1>1. orders \in [Orders -> OrderRow] /\ log \in [Orders -> Seq(LogRow)]
  BY DEF Typed, TypeOK
<1>2. ASSUME UNCHANGED <<orders, log>> PROVE LogTellsStatus'
  BY <1>2 DEF LogTellsStatus, Placed
<1>3. ASSUME NEW r \in Reqs, InsertOrder(r) PROVE LogTellsStatus'
  <2> DEFINE first == <<[from |-> NoStatus, to |-> "PENDING_PAYMENT"]>>
             row == [NoOrderRow EXCEPT !.status = "PENDING_PAYMENT", !.cell = req[r].cell,
                                       !.duration = req[r].duration]
  <2>1. CASE UNCHANGED <<orders, log>>
    BY <1>2, <2>1
  <2>2. CASE ~UNCHANGED <<orders, log>>
    <3>1. PICK o \in UnusedIds : /\ orders' = [orders EXCEPT ![o] = row]
                                 /\ log' = [log EXCEPT ![o] = first]
      BY <1>3, <2>2 DEF InsertOrder
    <3>2. o \in Orders
      BY DEF UnusedIds
    <3>3. row.status = "PENDING_PAYMENT"
      BY DEF NoOrderRow
    <3>4. first # <<>> /\ Chained(first) /\ first[Len(first)].to = "PENDING_PAYMENT"
      BY DEF Chained
    <3> HIDE DEF first, row
    <3>5. QED
      BY <1>1, <3>1, <3>2, <3>3, <3>4 DEF LogTellsStatus, Placed, NoStatus
  <2>3. QED
    BY <2>1, <2>2
<1>4. ASSUME NEW r \in Reqs, MarkOverdue(r) PROVE LogTellsStatus'
  <2> DEFINE o == req[r].order
             row == [orders[o] EXCEPT !.status = "OVERDUE", !.overdueFee = req[r].fee]
  <2>1. o \in Orders
    BY <1>4 DEF MarkOverdue, Typed, RequestsNameOrders, NamesOrder
  <2>2. CASE orders[o].status = "IN_STORAGE"
    <3>1. orders' = [orders EXCEPT ![o] = row] /\ log' = Logged(o, orders[o].status, "OVERDUE")
      BY <1>4, <2>2 DEF MarkOverdue
    <3>2. row.status = "OVERDUE"
      BY <1>1, <2>1 DEF OrderRow
    <3> HIDE DEF row
    <3>3. QED
      BY <2>1, <2>2, <3>1, <3>2, LogMoves, Transitions DEF OrderStatus, NoStatus
  <2>3. CASE orders[o].status # "IN_STORAGE"
    BY <1>2, <1>4, <2>3 DEF MarkOverdue
  <2>4. QED
    BY <2>2, <2>3
<1>5. ASSUME NEW r \in Reqs, NEW op, InTx(r, op)
      PROVE  /\ req[r].order \in Orders /\ orders[req[r].order] \in OrderRow
             /\ orders[req[r].order].status # NoStatus
             /\ Accepts(req[r]) /\ req[r].op = op
  BY <1>5, InTxFacts
<1>6. ASSUME NEW r \in Reqs, CommitPayment(r) PROVE LogTellsStatus'
  <2> DEFINE o == req[r].order
             row == [orders[o] EXCEPT !.status = "AWAITING_DEPOSIT"]
  <2>1. InTx(r, "pay")
    BY <1>6 DEF CommitPayment
  <2>2. orders[o].status = "PENDING_PAYMENT"
    BY <1>5, <2>1 DEF Accepts
  <2>3. row.status = "AWAITING_DEPOSIT"
    BY <1>5, <2>1 DEF OrderRow
  <2>4. orders' = [orders EXCEPT ![o] = row]
    BY <1>6 DEF CommitPayment
  <2>5. o \in Orders
    BY <1>5, <2>1
  <2> HIDE DEF row
  <2>6. QED
    BY <1>6, <2>2, <2>3, <2>4, <2>5, LogPays DEF CommitPayment
<1>7. ASSUME NEW r \in Reqs,
             CommitCancel(r) \/ PickupCommits(r) \/ CommitDeposit(r) \/ CommitSettle(r)
      PROVE  LogTellsStatus'
  <2> DEFINE o == req[r].order
  <2>1. PICK op \in {"cancel", "pickup", "deposit", "settle"} : InTx(r, op)
    BY <1>7 DEF CommitCancel, PickupCommits, CommitDeposit, CommitSettle
  <2>2. o \in Orders /\ orders[o] \in OrderRow /\ orders[o].status # NoStatus
    BY <1>5, <2>1
  <2>3. ASSUME NEW to \in OrderStatus, canTransition(orders[o].status, to),
               NEW row, row.status = to, orders' = [orders EXCEPT ![o] = row],
               log' = Logged(o, orders[o].status, to)
        PROVE  LogTellsStatus'
    BY <2>2, <2>3, LogMoves
  <2>4. CASE CommitCancel(r)
    <3>1. canTransition(orders[o].status, "CANCELLED")
      BY <1>5, <2>4, Transitions DEF CommitCancel, Accepts
    <3>2. [orders[o] EXCEPT !.status = "CANCELLED"].status = "CANCELLED"
      BY <2>2 DEF OrderRow
    <3>3. QED
      BY <2>3, <2>4, <3>1, <3>2 DEF CommitCancel, OrderStatus
  <2>5. CASE PickupCommits(r)
    <3>1. canTransition(orders[o].status, "COMPLETED")
      BY <1>5, <2>5, Transitions DEF PickupCommits, Accepts
    <3>2. [orders[o] EXCEPT !.status = "COMPLETED"].status = "COMPLETED"
      BY <2>2 DEF OrderRow
    <3>3. QED
      BY <2>3, <2>5, <3>1, <3>2 DEF PickupCommits, OrderStatus
  <2>6. CASE CommitDeposit(r)
    <3> DEFINE row == [orders[o] EXCEPT !.status = "IN_STORAGE",
                                        !.expires = req[r].at + orders[o].duration]
    <3>1. canTransition(orders[o].status, "IN_STORAGE")
      BY <1>5, <2>6, Transitions DEF CommitDeposit, Accepts
    <3>2. row.status = "IN_STORAGE"
      BY <2>2 DEF OrderRow
    <3>3. orders' = [orders EXCEPT ![o] = row] /\ log' = Logged(o, orders[o].status, "IN_STORAGE")
      BY <2>6 DEF CommitDeposit
    <3> HIDE DEF row
    <3>4. QED
      BY <2>3, <3>1, <3>2, <3>3 DEF OrderStatus
  <2>7. CASE CommitSettle(r)
    <3> DEFINE row == [orders[o] EXCEPT !.status = "AWAITING_PICKUP", !.overdueFee = 0]
    <3>1. orders[o].status = "OVERDUE"
      BY <1>5, <2>7 DEF CommitSettle, Accepts
    <3>2. row.status = "AWAITING_PICKUP"
      BY <2>2 DEF OrderRow
    <3>3. orders' = [orders EXCEPT ![o] = row]
          /\ log' = Logged(o, orders[o].status, "AWAITING_PICKUP")
      BY <2>7, <3>1 DEF CommitSettle
    <3> HIDE DEF row
    <3>4. QED
      BY <2>3, <3>1, <3>2, <3>3, Transitions DEF OrderStatus
  <2>8. QED
    BY <1>7, <2>4, <2>5, <2>6, <2>7
<1>8. CASE Tick \/ UNCHANGED vars
  BY <1>2, <1>8 DEF Tick, vars
<1>9. ASSUME NEW r \in Reqs,
             \/ Ask(r) \/ Fail(r) \/ OpenDoor(r) \/ BeginTx(r) \/ applyLazyOverdue(r)
             \/ PickupUpdateFails(r) \/ StateConflict(r)
      PROVE  LogTellsStatus'
  BY <1>2, <1>9 DEF Ask, Fail, CreateOrder, GetOrder, SettleOverdue, CancelOrder,
     ConfirmDevelopmentPayment, OpenDepositDoor, OpenPickupDoor, OpenDoor, BeginTx,
     applyLazyOverdue, MarkOverdueFails, Abandon, PickupUpdateFails, StateConflict
<1>10. QED
  BY <1>3, <1>4, <1>6, <1>7, <1>8, <1>9, PickupCommitsOrFails DEF Next, Serve

(***************************************************************************)
(* The status log of every order is a chain of allowed transitions that    *)
(* ends in the status its row has.                                         *)
(***************************************************************************)
THEOREM LogIsTrue == Spec => []LogTellsStatus
<1>1. LogInv => LogTellsStatus
  BY DEF LogInv
<1>2. QED
  BY <1>1, LogInvInit, LogInvStep, PTL DEF Spec

-----------------------------------------------------------------------------
\* The overdue fee.  A request marks an order by what it read earlier; that
\* stays true of the order, because the expiry is set once, on the deposit.

DepositedRow(row) ==
  row.status \notin {NoStatus, "PENDING_PAYMENT", "PAID", "AWAITING_DEPOSIT"}

\* What a request about to mark an order knows of it.
ReadAgrees(q) ==
  DepositedRow(orders[q.order]) /\ orders[q.order].expires = q.expires

\* The fee a request computed and has not charged yet.
PendingFeeFair(q) ==
  LET size == SizeOf[orders[q.order].cell] IN
  /\ now > q.expires
  /\ q.fee >= RateFenPerHour(size)
  /\ q.fee <= computeOverdueFee(size, q.expires, now)

RequestFair(q) == /\ q.pc \in {"lazy", "mark"} => ReadAgrees(q)
                  /\ q.pc = "mark" => PendingFeeFair(q)

RequestsFair == \A r \in Reqs : RequestFair(req[r])

\* OverdueFeeFair, row by row.
RowFair(row) ==
  LET size == SizeOf[row.cell] IN
  IF row.status = "OVERDUE"
  THEN /\ now > row.expires
       /\ row.overdueFee >= RateFenPerHour(size)
       /\ row.overdueFee <= computeOverdueFee(size, row.expires, now)
  ELSE row.overdueFee = 0

RowsFair == \A o \in Orders : RowFair(orders[o])

FeeInv == Typed /\ RequestsFair /\ RowsFair

LEMMA FeeInvInit == Init => FeeInv
<1> SUFFICES ASSUME Init PROVE RequestsFair /\ RowsFair
  BY TypedInit DEF FeeInv
<1>1. RequestsFair
  BY DEF Init, RequestsFair, RequestFair, Idle
<1>2. RowsFair
  BY DEF Init, RowsFair, RowFair, NoOrderRow, NoStatus
<1>3. QED
  BY <1>1, <1>2

\* A step that only gives one request a new record.
LEMMA FeeRequest ==
  ASSUME FeeInv, NEW r \in Reqs, NEW q, RequestFair(q), req' = [req EXCEPT ![r] = q],
         UNCHANGED <<orders, now>>
  PROVE  RequestsFair' /\ RowsFair'
<1>1. req \in [Reqs -> Request]
  BY DEF FeeInv, Typed, TypeOK
<1>2. ASSUME NEW s \in Reqs PROVE RequestFair(req[s])'
  <2>1. RequestFair(req'[s])
    BY <1>1 DEF FeeInv, RequestsFair
  <2>2. QED
    BY <2>1 DEF RequestFair, ReadAgrees, PendingFeeFair
<1>3. RowsFair'
  BY DEF FeeInv, RowsFair, RowFair
<1>4. QED
  BY <1>2, <1>3 DEF RequestsFair

\* A step that gives one order a fair row, which keeps what a deposit fixes.
LEMMA FeeUpdate ==
  ASSUME FeeInv, NEW r \in Reqs, NEW q, q.pc \notin {"lazy", "mark"},
         req' = [req EXCEPT ![r] = q],
         NEW o \in Orders, NEW row, orders' = [orders EXCEPT ![o] = row], RowFair(row),
         DepositedRow(orders[o]) => /\ DepositedRow(row)
                                    /\ row.expires = orders[o].expires
                                    /\ row.cell = orders[o].cell,
         now' = now
  PROVE  RequestsFair' /\ RowsFair'
<1>1. req \in [Reqs -> Request] /\ orders \in [Orders -> OrderRow]
  BY DEF FeeInv, Typed, TypeOK
<1>2. ASSUME NEW s \in Reqs PROVE RequestFair(req[s])'
  <2>1. CASE s = r
    BY <1>1, <2>1 DEF RequestFair
  <2>2. CASE s # r
    <3>1. req'[s] = req[s] /\ RequestFair(req[s])
      BY <1>1, <2>2 DEF FeeInv, RequestsFair
    <3>2. CASE req[s].pc \in {"lazy", "mark"}
      <4>1. req[s].order \in Orders
        BY <3>2 DEF FeeInv, Typed, RequestsNameOrders, NamesOrder
      <4>2. DepositedRow(orders[req[s].order]) /\ orders[req[s].order].expires = req[s].expires
        BY <3>1, <3>2 DEF RequestFair, ReadAgrees
      <4>3. /\ DepositedRow(orders'[req[s].order])
            /\ orders'[req[s].order].expires = req[s].expires
            /\ orders'[req[s].order].cell = orders[req[s].order].cell
        BY <1>1, <4>1, <4>2
      <4>4. QED
        BY <3>1, <3>2, <4>3 DEF RequestFair, ReadAgrees, PendingFeeFair
    <3>3. CASE req[s].pc \notin {"lazy", "mark"}
      BY <3>1, <3>3 DEF RequestFair
    <3>4. QED
      BY <3>2, <3>3
  <2>3. QED
    BY <2>1, <2>2
<1>3. ASSUME NEW p \in Orders PROVE RowFair(orders[p])'
  <2>1. RowFair(orders'[p])
    BY <1>1 DEF FeeInv, RowsFair
  <2>2. QED
    BY <2>1 DEF RowFair
<1>4. QED
  BY <1>2, <1>3 DEF RequestsFair, RowsFair

LEMMA FeeTick ==
  ASSUME FeeInv, Tick
  PROVE  RequestsFair' /\ RowsFair'
<1>1. now \in Nat /\ now' = now + 1 /\ orders' = orders /\ req' = req
  BY DEF Tick, FeeInv, Typed, TypeOK
<1>2. orders \in [Orders -> OrderRow] /\ req \in [Reqs -> Request]
  BY DEF FeeInv, Typed, TypeOK
<1>3. ASSUME NEW size, NEW e \in Nat, NEW fee \in Nat, fee <= computeOverdueFee(size, e, now)
      PROVE  fee <= computeOverdueFee(size, e, now')
  <2>1. now + 1 \in Nat /\ now <= now + 1 /\ now + 1 <= now + 1
    BY <1>1
  <2>2. /\ computeOverdueFee(size, e, now) <= computeOverdueFee(size, e, now + 1)
        /\ computeOverdueFee(size, e, now) \in Nat
    BY <1>1, <1>3, <2>1, OverdueFeeBounds
  <2>3. computeOverdueFee(size, e, now + 1) \in Nat
    BY <1>3, <2>1, OverdueFeeBounds
  <2>4. QED
    BY <1>1, <1>3, <2>2, <2>3
<1>4. ASSUME NEW s \in Reqs PROVE RequestFair(req[s])'
  <2>1. req[s].expires \in Nat /\ req[s].fee \in Nat
    BY <1>2 DEF Request
  <2>2. RequestFair(req[s])
    BY DEF FeeInv, RequestsFair
  <2>3. QED
    BY <1>1, <1>3, <2>1, <2>2 DEF RequestFair, ReadAgrees, PendingFeeFair
<1>5. ASSUME NEW p \in Orders PROVE RowFair(orders[p])'
  <2>1. orders[p].expires \in Nat /\ orders[p].overdueFee \in Nat
    BY <1>2 DEF OrderRow
  <2>2. RowFair(orders[p])
    BY DEF FeeInv, RowsFair
  <2>3. QED
    BY <1>1, <1>3, <2>1, <2>2 DEF RowFair
<1>6. QED
  BY <1>4, <1>5 DEF RequestsFair, RowsFair

LEMMA FeeMark ==
  ASSUME FeeInv, NEW r \in Reqs, MarkOverdue(r) \/ MarkOverdueFails(r)
  PROVE  RequestsFair' /\ RowsFair'
<1> DEFINE q == req[r]
           o == q.order
           row == [orders[o] EXCEPT !.status = "OVERDUE", !.overdueFee = q.fee]
<1>1. q \in Request /\ q.pc = "mark" /\ o \in Orders /\ orders[o] \in OrderRow /\ RequestFair(q)
  BY DEF MarkOverdue, MarkOverdueFails, FeeInv, Typed, TypeOK, RequestsNameOrders, NamesOrder,
     RequestsFair
<1>2. AfterLazy(q).pc \notin {"lazy", "mark"} /\ RequestFair(AfterLazy(q))
  BY <1>1 DEF AfterLazy, Idle, Request, RequestFair
<1>3. CASE UNCHANGED orders
  BY <1>2, <1>3, FeeRequest DEF MarkOverdue, MarkOverdueFails
<1>4. CASE MarkOverdue(r) /\ orders[o].status = "IN_STORAGE"
  <2>1. orders' = [orders EXCEPT ![o] = row] /\ req' = [req EXCEPT ![r] = AfterLazy(q)]
        /\ now' = now
    BY <1>4 DEF MarkOverdue
  <2>2. /\ row.status = "OVERDUE" /\ row.overdueFee = q.fee
        /\ row.expires = orders[o].expires /\ row.cell = orders[o].cell
    BY <1>1 DEF OrderRow
  <2>3. RowFair(row)
    BY <1>1, <2>2 DEF RowFair, RequestFair, ReadAgrees, PendingFeeFair
  <2>4. DepositedRow(row)
    BY <2>2 DEF DepositedRow, NoStatus
  <2> HIDE DEF row
  <2>5. QED
    BY <1>1, <1>2, <2>1, <2>2, <2>3, <2>4, FeeUpdate
<1>5. QED
  BY <1>3, <1>4 DEF MarkOverdue, MarkOverdueFails

LEMMA FeeLazy ==
  ASSUME FeeInv, NEW r \in Reqs, applyLazyOverdue(r)
  PROVE  RequestsFair' /\ RowsFair'
<1> DEFINE q == req[r]
           fee == computeOverdueFee(SizeOf[orders[q.order].cell], q.expires, now)
           m == [q EXCEPT !.pc = "mark", !.fee = fee]
<1>1. q \in Request /\ q.pc = "lazy" /\ RequestFair(q) /\ now \in Nat /\ q.expires \in Nat
  BY DEF applyLazyOverdue, FeeInv, Typed, TypeOK, RequestsFair, Request
<1>2. CASE now > q.expires
  <2>1. /\ m.pc = "mark" /\ m.fee = fee /\ m.expires = q.expires /\ m.order = q.order
    BY <1>1 DEF Request
  <2>2. fee \in Nat /\ RateFenPerHour(SizeOf[orders[q.order].cell]) <= fee
    <3>1. now <= now
      BY <1>1
    <3>2. QED
      BY <1>1, <3>1, OverdueFeeBounds
  <2>3. RequestFair(m)
    BY <1>1, <1>2, <2>1, <2>2, RateType DEF RequestFair, ReadAgrees, PendingFeeFair
  <2>4. req' = [req EXCEPT ![r] = m] /\ UNCHANGED <<orders, now>>
    BY <1>2 DEF applyLazyOverdue
  <2> HIDE DEF m
  <2>5. QED
    BY <2>3, <2>4, FeeRequest
<1>3. CASE ~(now > q.expires)
  <2>1. RequestFair(AfterLazy(q))
    BY <1>1 DEF AfterLazy, Idle, Request, RequestFair
  <2>2. QED
    BY <1>3, <2>1, FeeRequest DEF applyLazyOverdue
<1>4. QED
  BY <1>2, <1>3

LEMMA FeeAsk ==
  ASSUME FeeInv, NEW r \in Reqs, Ask(r)
  PROVE  RequestsFair' /\ RowsFair'
<1>1. PICK q : req' = [req EXCEPT ![r] = q] /\ RequestFair(q)
  <2>1. ASSUME NEW q, req' = [req EXCEPT ![r] = q], q.pc \notin {"lazy", "mark"}
        PROVE  \E p : req' = [req EXCEPT ![r] = p] /\ RequestFair(p)
    BY <2>1 DEF RequestFair
  <2>2. ASSUME NEW c \in Cells, NEW d \in Durations, CreateOrder(r, SiteOf[c], SizeOf[c], d)
        PROVE  \E p : req' = [req EXCEPT ![r] = p] /\ RequestFair(p)
    <3>1. PICK b \in Cells :
            req' = [req EXCEPT ![r] = [Idle EXCEPT !.pc = "insert", !.op = "create",
                                                   !.cell = b, !.duration = d]]
      BY <2>2 DEF CreateOrder, Allocatable
    <3>2. QED
      BY <2>1, <3>1 DEF Idle
  <2>3. ASSUME NEW o \in Orders, GetOrder(r, o)
        PROVE  \E p : req' = [req EXCEPT ![r] = p] /\ RequestFair(p)
    <3> DEFINE q == [Idle EXCEPT !.pc = "lazy", !.op = "get", !.order = o,
                                 !.expires = orders[o].expires]
    <3>1. req' = [req EXCEPT ![r] = q] /\ orders[o].status = "IN_STORAGE"
      BY <2>3 DEF GetOrder
    <3>2. q.pc = "lazy" /\ q.order = o /\ q.expires = orders[o].expires
      BY DEF Idle
    <3> HIDE DEF q
    <3>3. RequestFair(q)
      BY <3>1, <3>2 DEF RequestFair, ReadAgrees, DepositedRow, NoStatus
    <3>4. QED
      BY <3>1, <3>3
  <2>4. ASSUME NEW o \in Orders, SettleOverdue(r, o)
        PROVE  \E p : req' = [req EXCEPT ![r] = p] /\ RequestFair(p)
    <3> DEFINE q == [Idle EXCEPT !.pc = IF orders[o].status = "IN_STORAGE" THEN "lazy" ELSE "tx",
                                 !.op = "settle", !.order = o, !.expires = orders[o].expires]
    <3>1. req' = [req EXCEPT ![r] = q]
      BY <2>4 DEF SettleOverdue
    <3>2. /\ q.pc = IF orders[o].status = "IN_STORAGE" THEN "lazy" ELSE "tx"
          /\ q.order = o /\ q.expires = orders[o].expires
      BY DEF Idle
    <3> HIDE DEF q
    <3>3. RequestFair(q)
      BY <3>2 DEF RequestFair, ReadAgrees, DepositedRow, NoStatus
    <3>4. QED
      BY <3>1, <3>3
  <2>5. ASSUME NEW o \in Orders, CancelOrder(r, o) \/ ConfirmDevelopmentPayment(r, o)
        PROVE  \E p : req' = [req EXCEPT ![r] = p] /\ RequestFair(p)
    BY <2>1, <2>5 DEF CancelOrder, ConfirmDevelopmentPayment, Idle
  <2>6. ASSUME NEW o \in Orders, OpenDepositDoor(r, o) \/ OpenPickupDoor(r, o)
        PROVE  \E p : req' = [req EXCEPT ![r] = p] /\ RequestFair(p)
    BY <2>1, <2>6 DEF OpenDepositDoor, OpenPickupDoor, Idle
  <2>7. QED
    BY <2>2, <2>3, <2>4, <2>5, <2>6 DEF Ask
<1>2. UNCHANGED <<orders, now>>
  BY DEF Ask, CreateOrder, GetOrder, SettleOverdue, CancelOrder, ConfirmDevelopmentPayment,
     OpenDepositDoor, OpenPickupDoor
<1>3. QED
  BY <1>1, <1>2, FeeRequest

LEMMA FeeCommit ==
  ASSUME FeeInv, NEW r \in Reqs,
         \/ CommitCancel(r) \/ CommitPayment(r) \/ CommitDeposit(r)
         \/ PickupCommits(r) \/ CommitSettle(r)
  PROVE  RequestsFair' /\ RowsFair'
<1> DEFINE o == req[r].order
<1>1. PICK op : InTx(r, op)
  BY DEF CommitCancel, CommitPayment, CommitDeposit, PickupCommits, CommitSettle
<1>2. /\ o \in Orders /\ orders[o] \in OrderRow /\ Accepts(req[r]) /\ req[r].op = op
      /\ RowFair(orders[o])
  BY <1>1, InTxFacts DEF FeeInv, RowsFair
<1>3. ASSUME NEW row, orders' = [orders EXCEPT ![o] = row], RowFair(row),
             DepositedRow(orders[o]) => /\ DepositedRow(row)
                                        /\ row.expires = orders[o].expires
                                        /\ row.cell = orders[o].cell
      PROVE  RequestsFair' /\ RowsFair'
  <2>1. req' = [req EXCEPT ![r] = Idle] /\ now' = now
    BY DEF CommitCancel, CommitPayment, CommitDeposit, PickupCommits, CommitSettle, Finished
  <2>2. Idle.pc \notin {"lazy", "mark"}
    BY DEF Idle
  <2>3. QED
    BY <1>2, <1>3, <2>1, <2>2, FeeUpdate
<1>4. ASSUME NEW to \in {"CANCELLED", "AWAITING_DEPOSIT", "COMPLETED"},
             orders' = [orders EXCEPT ![o] = [@ EXCEPT !.status = to]],
             orders[o].status # "OVERDUE",
             DepositedRow(orders[o]) => to = "COMPLETED"
      PROVE  RequestsFair' /\ RowsFair'
  <2> DEFINE row == [orders[o] EXCEPT !.status = to]
  <2>1. /\ row.status = to /\ row.overdueFee = orders[o].overdueFee
        /\ row.expires = orders[o].expires /\ row.cell = orders[o].cell
    BY <1>2 DEF OrderRow
  <2>2. RowFair(row)
    BY <1>2, <1>4, <2>1 DEF RowFair
  <2>3. orders' = [orders EXCEPT ![o] = row]
    BY <1>4
  <2> HIDE DEF row
  <2>4. DepositedRow(orders[o]) => DepositedRow(row)
    BY <1>4, <2>1 DEF DepositedRow, NoStatus
  <2>5. QED
    BY <1>3, <2>1, <2>2, <2>3, <2>4
<1>5. CASE CommitCancel(r) \/ CommitPayment(r)
  <2>1. req[r].op \in {"cancel", "pay"}
    BY <1>5 DEF CommitCancel, CommitPayment, InTx
  <2>2. orders[o].status = "PENDING_PAYMENT"
    BY <1>2, <2>1 DEF Accepts
  <2>3. QED
    BY <1>4, <1>5, <2>2 DEF CommitCancel, CommitPayment, DepositedRow
<1>6. CASE PickupCommits(r)
  <2>1. req[r].op = "pickup"
    BY <1>6 DEF PickupCommits, InTx
  <2>2. orders[o].status \in {"IN_STORAGE", "AWAITING_PICKUP"}
    BY <1>2, <2>1 DEF Accepts
  <2>3. QED
    BY <1>4, <1>6, <2>2 DEF PickupCommits
<1>7. CASE CommitDeposit(r)
  <2> DEFINE row == [orders[o] EXCEPT !.status = "IN_STORAGE",
                                      !.expires = req[r].at + orders[o].duration]
  <2>1. req[r].op = "deposit"
    BY <1>7 DEF CommitDeposit, InTx
  <2>2. orders[o].status = "AWAITING_DEPOSIT"
    BY <1>2, <2>1 DEF Accepts
  <2>3. row.status = "IN_STORAGE" /\ row.overdueFee = orders[o].overdueFee
    BY <1>2 DEF OrderRow
  <2>4. RowFair(row)
    BY <1>2, <2>2, <2>3 DEF RowFair
  <2>5. orders' = [orders EXCEPT ![o] = row]
    BY <1>7 DEF CommitDeposit
  <2> HIDE DEF row
  <2>6. QED
    BY <1>3, <2>2, <2>4, <2>5 DEF DepositedRow
<1>8. CASE CommitSettle(r)
  <2> DEFINE row == [orders[o] EXCEPT !.status = "AWAITING_PICKUP", !.overdueFee = 0]
  <2>1. /\ row.status = "AWAITING_PICKUP" /\ row.overdueFee = 0
        /\ row.expires = orders[o].expires /\ row.cell = orders[o].cell
    BY <1>2 DEF OrderRow
  <2>2. RowFair(row) /\ DepositedRow(row)
    BY <2>1 DEF RowFair, DepositedRow, NoStatus
  <2>3. orders' = [orders EXCEPT ![o] = row]
    BY <1>8 DEF CommitSettle
  <2> HIDE DEF row
  <2>4. QED
    BY <1>3, <2>1, <2>2, <2>3
<1>9. QED
  BY <1>5, <1>6, <1>7, <1>8

LEMMA FeeInsert ==
  ASSUME FeeInv, NEW r \in Reqs, InsertOrder(r)
  PROVE  RequestsFair' /\ RowsFair'
<1> DEFINE row == [NoOrderRow EXCEPT !.status = "PENDING_PAYMENT", !.cell = req[r].cell,
                                     !.duration = req[r].duration]
<1>1. Idle.pc \notin {"lazy", "mark"} /\ RequestFair(Idle)
  BY DEF Idle, RequestFair
<1>2. req' = [req EXCEPT ![r] = Idle] /\ now' = now
  BY DEF InsertOrder
<1>3. CASE UNCHANGED orders
  BY <1>1, <1>2, <1>3, FeeRequest
<1>4. CASE ~UNCHANGED orders
  <2>1. PICK o \in UnusedIds : orders' = [orders EXCEPT ![o] = row]
    BY <1>4 DEF InsertOrder
  <2>2. o \in Orders /\ ~DepositedRow(orders[o])
    BY DEF UnusedIds, DepositedRow
  <2>3. row.status = "PENDING_PAYMENT" /\ row.overdueFee = 0
    BY DEF NoOrderRow
  <2>4. RowFair(row)
    BY <2>3 DEF RowFair
  <2> HIDE DEF row
  <2>5. QED
    BY <1>1, <1>2, <2>1, <2>2, <2>4, FeeUpdate
<1>5. QED
  BY <1>3, <1>4

LEMMA FeeInvStep == FeeInv /\ [Next]_vars => FeeInv'
<1> SUFFICES ASSUME FeeInv, [Next]_vars PROVE RequestsFair' /\ RowsFair'
  BY TypedStep DEF FeeInv
<1>1. CASE UNCHANGED vars
  BY <1>1 DEF vars, FeeInv, RequestsFair, RequestFair, ReadAgrees, PendingFeeFair, RowsFair,
     RowFair
<1>2. ASSUME NEW r \in Reqs, OpenDoor(r) \/ BeginTx(r) PROVE RequestsFair' /\ RowsFair'
  <2>1. req[r] \in Request
    BY DEF FeeInv, Typed, TypeOK
  <2>2. /\ RequestFair([req[r] EXCEPT !.pc = "opened"])
        /\ RequestFair([req[r] EXCEPT !.pc = "tx", !.at = now])
    BY <2>1 DEF Request, RequestFair
  <2>3. QED
    BY <1>2, <2>2, FeeRequest DEF OpenDoor, BeginTx
<1>3. ASSUME NEW r \in Reqs, PickupUpdateFails(r) \/ StateConflict(r) \/ Abandon(r)
      PROVE  RequestsFair' /\ RowsFair'
  <2>1. req' = [req EXCEPT ![r] = Idle] /\ RequestFair(Idle)
    BY <1>3 DEF PickupUpdateFails, StateConflict, Abandon, Finished, RequestFair, Idle
  <2>2. QED
    BY <1>3, <2>1, FeeRequest DEF PickupUpdateFails, StateConflict, Abandon
<1>4. QED
  BY <1>1, <1>2, <1>3, FeeTick, FeeAsk, FeeInsert, FeeLazy, FeeMark, FeeCommit,
     PickupCommitsOrFails DEF Next, Serve, Fail

(***************************************************************************)
(* No order is charged a penalty before it expires or more than it owes,   *)
(* whatever the delay between the read that finds it expired and the       *)
(* update that charges it.                                                 *)
(***************************************************************************)
THEOREM FeesAreFair == Spec => []OverdueFeeFair
<1>1. FeeInv => OverdueFeeFair
  BY DEF FeeInv, RowsFair, RowFair, OverdueFeeFair
<1>2. QED
  BY <1>1, FeeInvInit, FeeInvStep, PTL DEF Spec

-----------------------------------------------------------------------------
\* The doors.  The binding a request read can only be undone, as long as
\* OpenPickupDoor never commits, by a cancellation, which a paid order refuses.

Paid(o) == orders[o].status \in {"AWAITING_DEPOSIT", "IN_STORAGE", "OVERDUE", "AWAITING_PICKUP"}

\* What a request on its way to the door read is still so.
DoorReadsHold ==
  \A r \in Reqs : req[r].pc = "door" =>
    /\ Paid(req[r].order)
    /\ req[r].cell = orders[req[r].order].cell

DoorInv == CellsInv /\ DoorReadsHold

\* A step that gives one request a record and leaves the orders alone.
LEMMA DoorRequest ==
  ASSUME DoorInv, NEW r \in Reqs, NEW q, req' = [req EXCEPT ![r] = q], orders' = orders,
         q.pc = "door" => Paid(q.order) /\ q.cell = orders[q.order].cell
  PROVE  DoorReadsHold'
<1>1. req \in [Reqs -> Request]
  BY DEF DoorInv, CellsInv, Typed, TypeOK
<1>2. QED
  BY <1>1 DEF DoorInv, DoorReadsHold, Paid

\* A step that writes an order: a paid one stays paid and keeps its cell.
LEMMA DoorUpdate ==
  ASSUME DoorInv, NEW r \in Reqs, NEW q, req' = [req EXCEPT ![r] = q], q.pc # "door",
         NEW o \in Orders, NEW row, orders' = [orders EXCEPT ![o] = row],
         Paid(o) => /\ row.status \in {"AWAITING_DEPOSIT", "IN_STORAGE", "OVERDUE",
                                       "AWAITING_PICKUP"}
                    /\ row.cell = orders[o].cell
  PROVE  DoorReadsHold'
<1>1. req \in [Reqs -> Request] /\ orders \in [Orders -> OrderRow]
  BY DEF DoorInv, CellsInv, Typed, TypeOK
<1>2. ASSUME NEW s \in Reqs, req'[s].pc = "door"
      PROVE  /\ Paid(req[s].order)'
             /\ req'[s].cell = orders'[req'[s].order].cell
  <2>1. s # r /\ req'[s] = req[s]
    BY <1>1, <1>2
  <2>2. /\ Paid(req[s].order) /\ req[s].cell = orders[req[s].order].cell
        /\ req[s].order \in Orders
    BY <1>2, <2>1 DEF DoorInv, CellsInv, Typed, RequestsNameOrders, NamesOrder, DoorReadsHold
  <2>3. QED
    BY <1>1, <2>1, <2>2 DEF Paid
<1>3. QED
  BY <1>2 DEF DoorReadsHold

LEMMA DoorCommit ==
  ASSUME DoorInv, NEW r \in Reqs,
         \/ CommitCancel(r) \/ CommitPayment(r) \/ CommitDeposit(r) \/ CommitSettle(r)
  PROVE  DoorReadsHold'
<1> DEFINE o == req[r].order
<1>1. PICK op \in {"cancel", "pay", "deposit", "settle"} : InTx(r, op)
  BY DEF CommitCancel, CommitPayment, CommitDeposit, CommitSettle
<1>2. o \in Orders /\ orders[o] \in OrderRow /\ Accepts(req[r]) /\ req[r].op = op
  BY <1>1, InTxFacts DEF DoorInv, CellsInv
<1>3. req' = [req EXCEPT ![r] = Idle] /\ Idle.pc # "door"
  BY DEF CommitCancel, CommitPayment, CommitDeposit, CommitSettle, Finished, Idle
<1>4. CASE CommitCancel(r) \/ CommitPayment(r)
  <2>1. ~Paid(o)
    BY <1>2, <1>4 DEF CommitCancel, CommitPayment, InTx, Accepts, Paid
  <2>2. PICK row : orders' = [orders EXCEPT ![o] = row]
    BY <1>4 DEF CommitCancel, CommitPayment
  <2>3. QED
    BY <1>2, <1>3, <2>1, <2>2, DoorUpdate
<1>5. CASE CommitDeposit(r)
  <2> DEFINE row == [orders[o] EXCEPT !.status = "IN_STORAGE",
                                      !.expires = req[r].at + orders[o].duration]
  <2>1. row.status = "IN_STORAGE" /\ row.cell = orders[o].cell
    BY <1>2 DEF OrderRow
  <2>2. orders' = [orders EXCEPT ![o] = row]
    BY <1>5 DEF CommitDeposit
  <2> HIDE DEF row
  <2>3. QED
    BY <1>2, <1>3, <2>1, <2>2, DoorUpdate
<1>6. CASE CommitSettle(r)
  <2> DEFINE row == [orders[o] EXCEPT !.status = "AWAITING_PICKUP", !.overdueFee = 0]
  <2>1. row.status = "AWAITING_PICKUP" /\ row.cell = orders[o].cell
    BY <1>2 DEF OrderRow
  <2>2. orders' = [orders EXCEPT ![o] = row]
    BY <1>6 DEF CommitSettle
  <2> HIDE DEF row
  <2>3. QED
    BY <1>2, <1>3, <2>1, <2>2, DoorUpdate
<1>7. QED
  BY <1>4, <1>5, <1>6

LEMMA DoorMark ==
  ASSUME DoorInv, NEW r \in Reqs, MarkOverdue(r) \/ MarkOverdueFails(r)
  PROVE  DoorReadsHold'
<1> DEFINE o == req[r].order
           row == [orders[o] EXCEPT !.status = "OVERDUE", !.overdueFee = req[r].fee]
<1>1. req[r] \in Request /\ req[r].pc = "mark" /\ o \in Orders /\ orders[o] \in OrderRow
  BY DEF MarkOverdue, MarkOverdueFails, DoorInv, CellsInv, Typed, TypeOK, RequestsNameOrders,
     NamesOrder
<1>2. AfterLazy(req[r]).pc # "door" /\ req' = [req EXCEPT ![r] = AfterLazy(req[r])]
  BY <1>1 DEF AfterLazy, Idle, Request, MarkOverdue, MarkOverdueFails
<1>3. CASE orders' = orders
  BY <1>2, <1>3, DoorRequest
<1>4. CASE orders' = [orders EXCEPT ![o] = row]
  <2>1. row.status = "OVERDUE" /\ row.cell = orders[o].cell
    BY <1>1 DEF OrderRow
  <2> HIDE DEF row
  <2>2. QED
    BY <1>1, <1>2, <1>4, <2>1, DoorUpdate
<1>5. QED
  BY <1>3, <1>4 DEF MarkOverdue, MarkOverdueFails

LEMMA DoorAsk ==
  ASSUME DoorInv, NEW r \in Reqs, Ask(r)
  PROVE  DoorReadsHold'
<1>1. orders' = orders
  BY DEF Ask, CreateOrder, GetOrder, SettleOverdue, CancelOrder, ConfirmDevelopmentPayment,
     OpenDepositDoor, OpenPickupDoor
<1>2. ASSUME NEW q, req' = [req EXCEPT ![r] = q], q.pc # "door" PROVE DoorReadsHold'
  BY <1>1, <1>2, DoorRequest
<1>3. ASSUME NEW c \in Cells, NEW d \in Durations, CreateOrder(r, SiteOf[c], SizeOf[c], d)
      PROVE  DoorReadsHold'
  <2>1. PICK b \in Cells :
          req' = [req EXCEPT ![r] = [Idle EXCEPT !.pc = "insert", !.op = "create",
                                                 !.cell = b, !.duration = d]]
    BY <1>3 DEF CreateOrder, Allocatable
  <2> DEFINE q == [Idle EXCEPT !.pc = "insert", !.op = "create", !.cell = b, !.duration = d]
  <2>2. q.pc # "door" /\ req' = [req EXCEPT ![r] = q]
    BY <2>1 DEF Idle
  <2> HIDE DEF q
  <2>3. QED
    BY <1>2, <2>2
<1>4. ASSUME NEW o \in Orders, GetOrder(r, o) PROVE DoorReadsHold'
  <2> DEFINE q == [Idle EXCEPT !.pc = "lazy", !.op = "get", !.order = o,
                               !.expires = orders[o].expires]
  <2>1. q.pc # "door"
    BY DEF Idle
  <2>2. req' = [req EXCEPT ![r] = q]
    BY <1>4 DEF GetOrder
  <2> HIDE DEF q
  <2>3. QED
    BY <1>2, <2>1, <2>2
<1>5. ASSUME NEW o \in Orders, SettleOverdue(r, o) PROVE DoorReadsHold'
  <2> DEFINE q == [Idle EXCEPT
                     !.pc = IF orders[o].status = "IN_STORAGE" THEN "lazy" ELSE "tx",
                     !.op = "settle", !.order = o, !.expires = orders[o].expires]
  <2>1. q.pc # "door"
    BY DEF Idle
  <2>2. req' = [req EXCEPT ![r] = q]
    BY <1>5 DEF SettleOverdue
  <2> HIDE DEF q
  <2>3. QED
    BY <1>2, <2>1, <2>2
<1>6. ASSUME NEW o \in Orders, CancelOrder(r, o) \/ ConfirmDevelopmentPayment(r, o)
      PROVE  DoorReadsHold'
  <2>1. PICK op \in {"cancel", "pay"} :
          req' = [req EXCEPT ![r] = [Idle EXCEPT !.pc = "tx", !.op = op, !.order = o]]
    BY <1>6 DEF CancelOrder, ConfirmDevelopmentPayment
  <2> DEFINE q == [Idle EXCEPT !.pc = "tx", !.op = op, !.order = o]
  <2>2. q.pc # "door"
    BY DEF Idle
  <2>3. req' = [req EXCEPT ![r] = q]
    BY <2>1
  <2> HIDE DEF q
  <2>4. QED
    BY <1>2, <2>2, <2>3
<1>7. ASSUME NEW o \in Orders, OpenDepositDoor(r, o) \/ OpenPickupDoor(r, o)
      PROVE  DoorReadsHold'
  <2>1. PICK op \in {"deposit", "pickup"} :
          /\ req' = [req EXCEPT ![r] = [Idle EXCEPT !.pc = "door", !.op = op, !.order = o,
                                                    !.cell = orders[o].cell]]
          /\ Paid(o)
    BY <1>7 DEF OpenDepositDoor, OpenPickupDoor, Paid
  <2> DEFINE q == [Idle EXCEPT !.pc = "door", !.op = op, !.order = o, !.cell = orders[o].cell]
  <2>2. q.order = o /\ q.cell = orders[o].cell
    BY DEF Idle
  <2> HIDE DEF q
  <2>3. req' = [req EXCEPT ![r] = q]
    BY <2>1 DEF q
  <2>4. QED
    BY <1>1, <2>1, <2>2, <2>3, DoorRequest
<1>8. QED
  BY <1>3, <1>4, <1>5, <1>6, <1>7 DEF Ask

LEMMA DoorInvStep ==
  ASSUME PickupArgs # PickupPlaceholders, DoorInv, [Next]_vars
  PROVE  DoorInv'
<1>1. CellsInv'
  BY CellsInvStep DEF DoorInv
<1>2. ASSUME NEW r \in Reqs, PickupCommits(r) PROVE FALSE
  BY <1>2 DEF PickupCommits
<1>3. ASSUME NEW r \in Reqs, InsertOrder(r) PROVE DoorReadsHold'
  <2> DEFINE row == [NoOrderRow EXCEPT !.status = "PENDING_PAYMENT", !.cell = req[r].cell,
                                       !.duration = req[r].duration]
  <2>1. req' = [req EXCEPT ![r] = Idle] /\ Idle.pc # "door"
    BY <1>3 DEF InsertOrder, Idle
  <2>2. CASE orders' = orders
    BY <2>1, <2>2, DoorRequest
  <2>3. CASE orders' # orders
    <3>1. PICK o \in UnusedIds : orders' = [orders EXCEPT ![o] = row]
      BY <1>3, <2>3 DEF InsertOrder
    <3>2. o \in Orders /\ ~Paid(o)
      BY DEF UnusedIds, Paid, NoStatus
    <3> HIDE DEF row
    <3>3. QED
      BY <2>1, <3>1, <3>2, DoorUpdate
  <2>4. QED
    BY <2>2, <2>3
<1>4. ASSUME NEW r \in Reqs, OpenDoor(r) \/ BeginTx(r) \/ applyLazyOverdue(r)
      PROVE  DoorReadsHold'
  <2>1. req[r] \in Request
    BY DEF DoorInv, CellsInv, Typed, TypeOK
  <2>2. PICK q : q.pc # "door" /\ req' = [req EXCEPT ![r] = q]
    BY <1>4, <2>1 DEF OpenDoor, BeginTx, applyLazyOverdue, AfterLazy, Idle, Request
  <2>3. QED
    BY <1>4, <2>2, DoorRequest DEF OpenDoor, BeginTx, applyLazyOverdue
<1>5. ASSUME NEW r \in Reqs, PickupUpdateFails(r) \/ StateConflict(r) \/ Abandon(r)
      PROVE  DoorReadsHold'
  BY <1>5, DoorRequest DEF PickupUpdateFails, StateConflict, Abandon, Finished, Idle
<1>6. CASE Tick \/ UNCHANGED vars
  <2>1. orders' = orders /\ req' = req
    BY <1>6 DEF Tick, vars
  <2>2. DoorReadsHold'
    BY <2>1 DEF DoorInv, DoorReadsHold, Paid
  <2>3. QED
    BY <1>1, <2>2 DEF DoorInv
<1>7. QED
  BY <1>1, <1>2, <1>3, <1>4, <1>5, <1>6, DoorAsk, DoorCommit, DoorMark,
     PickupCommitsOrFails DEF Next, Serve, Fail, DoorInv

LEMMA DoorStep ==
  ASSUME DoorInv, [Next]_vars, NEW r \in Reqs, DoorOpens(r)
  PROVE  cells[req[r].cell].order = req[r].order
<1>1. Paid(req[r].order) /\ req[r].cell = orders[req[r].order].cell /\ req[r].order \in Orders
  BY DEF DoorOpens, DoorInv, CellsInv, Typed, RequestsNameOrders, NamesOrder, DoorReadsHold
<1>2. orders[req[r].order].status \in Live
  BY <1>1, LiveIs DEF Paid
<1>3. QED
  BY <1>1, <1>2, LiveOrderCell DEF DoorInv

(***************************************************************************)
(* With the pickup statement the code prepares, no request opens the door  *)
(* of a cell that is no longer its order's.  (With the statement repaired  *)
(* it is not so: a pickup that completes between the read and the door of  *)
(* another request frees the cell.)                                        *)
(***************************************************************************)
THEOREM DoorsAreOwn ==
  ASSUME PickupArgs # PickupPlaceholders
  PROVE  Spec => DoorOpensOwnCell
<1>1. Init => DoorInv
  BY CellsInvInit DEF DoorInv, DoorReadsHold, Init, Idle
<1>2. DoorInv /\ [Next]_vars => DoorInv'
  BY DoorInvStep
<1>3. DoorInv /\ [Next]_vars =>
        [\A r \in Reqs : DoorOpens(r) => cells[req[r].cell].order = req[r].order]_vars
  BY DoorStep
<1>4. QED
  BY <1>1, <1>2, <1>3, PTL DEF Spec, DoorOpensOwnCell
=============================================================================
