-------------------------- MODULE OrderPagesProofs --------------------------
(***************************************************************************)
(* Proofs about the order pages, for any orders, cells, number of calls    *)
(* outstanding, depth of the stack and number of lost calls.               *)
(***************************************************************************)
EXTENDS OrderPages, SequenceTheorems, TLAPS

-----------------------------------------------------------------------------
\* The order of the statuses: what can be reached from one.

LEMMA ReachableTypes ==
  ASSUME NEW s \in OrderStatus
  PROVE  reachable[s] \subseteq OrderStatus /\ s \in reachable[s]
BY DEF reachable

LEMMA NoStatusReached == NoStatus \notin OrderStatus
BY DEF NoStatus, OrderStatus

\* Going on along a transition.
LEMMA ReachableNext ==
  ASSUME NEW s \in OrderStatus, NEW t, NEW u \in OrderStatus,
         t \in reachable[s], canTransition(t, u)
  PROVE  u \in reachable[s]
BY DEF reachable, ClosedSets, canTransition

\* What a set closed under the transitions contains is all that is reached.
LEMMA ReachableWithin ==
  ASSUME NEW s \in OrderStatus, NEW S \in SUBSET OrderStatus, s \in S,
         \A t \in S : allowedTransitions[t] \subseteq S
  PROVE  reachable[s] \subseteq S
BY DEF reachable, ClosedSets

LEMMA ReachableTransitive ==
  ASSUME NEW s \in OrderStatus, NEW t \in reachable[s]
  PROVE  reachable[t] \subseteq reachable[s]
<1>1. t \in OrderStatus
  BY ReachableTypes
<1>2. ASSUME NEW u \in reachable[t] PROVE u \in reachable[s]
  BY <1>1, <1>2 DEF reachable
<1>3. QED
  BY <1>2

LEMMA PickupTransitions ==
  /\ canTransition("IN_STORAGE", "OVERDUE")
  /\ canTransition("OVERDUE", "AWAITING_PICKUP")
  /\ canTransition("AWAITING_PICKUP", "COMPLETED")
  /\ {"IN_STORAGE", "OVERDUE", "AWAITING_PICKUP", "COMPLETED"} \subseteq OrderStatus
BY DEF canTransition, OrderStatus, allowedTransitions

LEMMA AfterOverdue ==
  reachable["OVERDUE"] = {"OVERDUE", "AWAITING_PICKUP", "COMPLETED"}
<1>1. reachable["OVERDUE"] \subseteq {"OVERDUE", "AWAITING_PICKUP", "COMPLETED"}
  BY ReachableWithin DEF OrderStatus, allowedTransitions
<1>2. "OVERDUE" \in reachable["OVERDUE"]
  BY ReachableTypes DEF OrderStatus
<1>3. "AWAITING_PICKUP" \in reachable["OVERDUE"]
  BY <1>2, ReachableNext, PickupTransitions
<1>4. "COMPLETED" \in reachable["OVERDUE"]
  BY <1>3, ReachableNext, PickupTransitions
<1>5. QED
  BY <1>1, <1>2, <1>3, <1>4

LEMMA AfterAwaitingPickup ==
  reachable["AWAITING_PICKUP"] = {"AWAITING_PICKUP", "COMPLETED"}
<1>1. reachable["AWAITING_PICKUP"] \subseteq {"AWAITING_PICKUP", "COMPLETED"}
  BY ReachableWithin DEF OrderStatus, allowedTransitions
<1>2. "AWAITING_PICKUP" \in reachable["AWAITING_PICKUP"]
  BY ReachableTypes DEF OrderStatus
<1>3. "COMPLETED" \in reachable["AWAITING_PICKUP"]
  BY <1>2, ReachableNext, PickupTransitions
<1>4. QED
  BY <1>1, <1>2, <1>3

LEMMA AfterCompleted == reachable["COMPLETED"] = {"COMPLETED"}
<1>1. reachable["COMPLETED"] \subseteq {"COMPLETED"}
  BY ReachableWithin DEF OrderStatus, allowedTransitions
<1>2. QED
  BY <1>1, ReachableTypes DEF OrderStatus

LEMMA AfterInStorage == "OVERDUE" \in reachable["IN_STORAGE"]
BY ReachableTypes, ReachableNext, PickupTransitions

-----------------------------------------------------------------------------
\* How the service moves the orders.

\* The status of each order is what it was or one that follows it in the
\* lifecycle; an order that leaves IN_STORAGE becomes overdue or ends.
Forward(from, to) ==
  \A o \in Orders :
    /\ from[o] \in OrderStatus => to[o] \in OrderStatus
    /\ \A s \in OrderStatus : from[o] \in reachable[s] => to[o] \in reachable[s]
    /\ from[o] = "IN_STORAGE" => to[o] \in {"IN_STORAGE"} \cup reachable["OVERDUE"]

StatusMap == [Orders -> OrderStatus \cup {NoStatus}]

LEMMA ForwardStays == ASSUME NEW f PROVE Forward(f, f)
BY DEF Forward

\* Moving one order, to its first status or along a transition or two.
LEMMA ForwardMoves ==
  ASSUME NEW from \in StatusMap, NEW o \in Orders, NEW u,
         \/ from[o] = NoStatus
         \/ canTransition(from[o], u) /\ u \in OrderStatus
  PROVE  Forward(from, [from EXCEPT ![o] = u])
<1> DEFINE to == [from EXCEPT ![o] = u]
<1>1. /\ to[o] = u
      /\ \A p \in Orders \ {o} : to[p] = from[p]
  BY DEF StatusMap
<1> HIDE DEF to
<1>2. ASSUME NEW p \in Orders, p # o
      PROVE  /\ from[p] \in OrderStatus => to[p] \in OrderStatus
             /\ \A s \in OrderStatus : from[p] \in reachable[s] => to[p] \in reachable[s]
             /\ from[p] = "IN_STORAGE" => to[p] \in {"IN_STORAGE"} \cup reachable["OVERDUE"]
  BY <1>1, <1>2
<1>3. CASE from[o] = NoStatus
  <2>1. from[o] \notin OrderStatus /\ from[o] # "IN_STORAGE"
    BY <1>3, NoStatusReached DEF NoStatus
  <2>2. \A s \in OrderStatus : from[o] \notin reachable[s]
    BY <2>1, ReachableTypes
  <2>3. QED
    BY <1>2, <2>1, <2>2 DEF Forward, to
<1>4. CASE canTransition(from[o], u) /\ u \in OrderStatus
  <2>1. \A s \in OrderStatus : from[o] \in reachable[s] => to[o] \in reachable[s]
    BY <1>1, <1>4, ReachableNext
  <2>2. ASSUME from[o] = "IN_STORAGE" PROVE u \in reachable["OVERDUE"]
    BY <1>4, <2>2, AfterOverdue DEF canTransition, OrderStatus, allowedTransitions
  <2>3. QED
    BY <1>1, <1>2, <1>4, <2>1, <2>2 DEF Forward, to
<1>5. QED
  BY <1>3, <1>4

LEMMA ForwardTwice ==
  ASSUME NEW a, NEW b, NEW c, Forward(a, b), Forward(b, c),
         \A o \in Orders : a[o] = "IN_STORAGE" => b[o] \in OrderStatus
  PROVE  Forward(a, c)
<1>1. ASSUME NEW o \in Orders, a[o] = "IN_STORAGE"
      PROVE  c[o] \in {"IN_STORAGE"} \cup reachable["OVERDUE"]
  BY <1>1, PickupTransitions DEF Forward
<1>2. QED
  BY <1>1 DEF Forward

\* The contract's copy of the lifecycle is this module's.
LEMMA SameLifecycle ==
  /\ Server!OrderStatus = OrderStatus
  /\ Server!NoStatus = NoStatus
  /\ \A from, to : Server!canTransition(from, to) <=> canTransition(from, to)
  /\ Server!Live = Live /\ Server!Terminal = Terminal
<1>1. Server!OrderStatus = OrderStatus /\ Server!NoStatus = NoStatus
  BY DEF Server!OrderStatus, OrderStatus, Server!NoStatus, NoStatus
<1>2. Server!allowedTransitions = allowedTransitions
  BY <1>1 DEF Server!allowedTransitions, allowedTransitions
<1>3. QED
  BY <1>1, <1>2 DEF Server!canTransition, canTransition, Server!Terminal, Terminal, Server!Live, Live

\* What the steps of the contract do to the orders.
LEMMA ContractGoesForward ==
  ASSUME Server!TypeOK, [Server!Next]_<<status, holder>>
  PROVE  Server!TypeOK' /\ Forward(status, status')
<1> USE SameLifecycle
<1>0. /\ status \in StatusMap
      /\ status \in [Orders -> OrderStatus \cup {NoStatus}]
      /\ holder \in [Cells -> Orders \cup {NoOrder}]
  BY DEF Server!TypeOK, StatusMap
<1>1. ASSUME NEW o \in Orders, NEW c \in Cells, Server!Place(o, c)
      PROVE  Server!TypeOK' /\ Forward(status, status')
  BY <1>0, <1>1, ForwardMoves DEF Server!Place, Server!TypeOK, OrderStatus
<1>2. ASSUME NEW o \in Orders, Server!Pay(o)
      PROVE  Server!TypeOK' /\ Forward(status, status')
  <2>1. Server!TypeOK'
    BY <1>0, <1>2 DEF Server!Pay, Server!TypeOK, OrderStatus
  <2> DEFINE paid == [status EXCEPT ![o] = "PAID"]
  <2>2. /\ paid \in StatusMap
        /\ paid[o] = "PAID"
        /\ status' = [paid EXCEPT ![o] = "AWAITING_DEPOSIT"]
    BY <1>0, <1>2 DEF Server!Pay, StatusMap, OrderStatus
  <2>3. Forward(status, paid)
    BY <1>0, <1>2, ForwardMoves DEF Server!Pay, OrderStatus
  <2>4. \A p \in Orders : status[p] = "IN_STORAGE" => paid[p] \in OrderStatus
    BY <1>0, <2>3, PickupTransitions DEF Forward
  <2> HIDE DEF paid
  <2>5. Forward(paid, status')
    <3>1. canTransition(paid[o], "AWAITING_DEPOSIT") /\ "AWAITING_DEPOSIT" \in OrderStatus
      BY <1>2, <2>2 DEF Server!Pay, OrderStatus
    <3>2. QED
      BY <2>2, <3>1, ForwardMoves
  <2>6. QED
    BY <2>1, <2>3, <2>4, <2>5, ForwardTwice
<1>3. ASSUME NEW o \in Orders, NEW to \in OrderStatus, Server!Advance(o, to)
      PROVE  Server!TypeOK' /\ Forward(status, status')
  BY <1>0, <1>3, ForwardMoves DEF Server!Advance, Server!TypeOK
<1>4. ASSUME NEW o \in Orders, NEW c \in Cells, NEW to \in OrderStatus, Server!Finish(o, c, to)
      PROVE  Server!TypeOK' /\ Forward(status, status')
  BY <1>0, <1>4, ForwardMoves DEF Server!Finish, Server!TypeOK
<1>5. ASSUME UNCHANGED <<status, holder>>
      PROVE  Server!TypeOK' /\ Forward(status, status')
  BY <1>5, ForwardStays DEF Server!TypeOK
<1>6. QED
  BY <1>1, <1>2, <1>3, <1>4, <1>5 DEF Server!Next
-----------------------------------------------------------------------------
\* What the contract guarantees to whoever uses or implements it: no cell leaks
\* and none is allocated twice.

LEMMA NoStatusNotLive == Server!NoStatus \notin Server!Live
BY DEF Server!NoStatus, Server!Live, Server!OrderStatus

\* Only a live order moves.
LEMMA OnlyLiveMoves ==
  ASSUME NEW from, NEW to, Server!canTransition(from, to)
  PROVE  from \in Server!Live
BY DEF Server!canTransition, Server!Live, Server!Terminal

LEMMA PendingIsLive == "PENDING_PAYMENT" \in Server!Live /\ "AWAITING_DEPOSIT" \in Server!Live
BY DEF Server!Live, Server!Terminal, Server!OrderStatus, Server!allowedTransitions

ContractInv == Server!TypeOK /\ Server!OneCellPerLiveOrder

\* Orders other than the one that moves keep their status and their cells.
LEMMA CellsOfOthers ==
  ASSUME ContractInv, NEW o \in Orders,
         \A p \in Orders \ {o} : status'[p] = status[p] /\ Server!HeldBy(p)' = Server!HeldBy(p),
         IF status'[o] \in Server!Live THEN \E c \in Cells : Server!HeldBy(o)' = {c} ELSE Server!HeldBy(o)' = {}
  PROVE  Server!OneCellPerLiveOrder'
<1>1. ASSUME NEW p \in Orders
      PROVE  IF status'[p] \in Server!Live THEN \E c \in Cells : Server!HeldBy(p)' = {c}
                                           ELSE Server!HeldBy(p)' = {}
  BY DEF ContractInv, Server!OneCellPerLiveOrder
<1>2. QED
  BY <1>1 DEF Server!OneCellPerLiveOrder

LEMMA ContractInvStep ==
  ASSUME ContractInv, [Server!Next]_<<status, holder>>
  PROVE  ContractInv'
<1>0. NoOrder \notin Orders
  BY OrderPagesAssumption
<1>1. Server!TypeOK'
  BY ContractGoesForward DEF ContractInv
<1>2. status \in [Orders -> Server!OrderStatus \cup {Server!NoStatus}]
      /\ holder \in [Cells -> Orders \cup {NoOrder}]
  BY DEF ContractInv, Server!TypeOK
<1>3. ASSUME NEW o \in Orders, NEW c \in Cells, Server!Place(o, c) PROVE Server!OneCellPerLiveOrder'
  <2>1. Server!HeldBy(o) = {}
    BY <1>3, NoStatusNotLive DEF Server!Place, ContractInv, Server!OneCellPerLiveOrder
  <2>2. Server!HeldBy(o)' = {c}
    BY <1>0, <1>2, <1>3, <2>1 DEF Server!Place, Server!HeldBy
  <2>3. \A p \in Orders \ {o} : status'[p] = status[p] /\ Server!HeldBy(p)' = Server!HeldBy(p)
    BY <1>0, <1>2, <1>3 DEF Server!Place, Server!HeldBy
  <2>4. status'[o] \in Server!Live
    BY <1>0, <1>2, <1>3, PendingIsLive DEF Server!Place
  <2>5. QED
    BY <2>2, <2>3, <2>4, CellsOfOthers
<1>4. ASSUME NEW o \in Orders, Server!Pay(o) \/ (\E to \in Server!OrderStatus : Server!Advance(o, to))
      PROVE  Server!OneCellPerLiveOrder'
  <2>1. PICK to \in Server!Live : status' = [status EXCEPT ![o] = to] /\ holder' = holder
    BY <1>4, PendingIsLive DEF Server!Pay, Server!Advance
  <2>2. status[o] \in Server!Live
    BY <1>4, OnlyLiveMoves, PendingIsLive DEF Server!Pay, Server!Advance
  <2>3. \A p \in Orders : Server!HeldBy(p)' = Server!HeldBy(p)
    BY <2>1 DEF Server!HeldBy
  <2>4. status'[o] \in Server!Live /\ \A p \in Orders \ {o} : status'[p] = status[p]
    BY <1>2, <2>1
  <2>5. \E c \in Cells : Server!HeldBy(o)' = {c}
    BY <2>2, <2>3 DEF ContractInv, Server!OneCellPerLiveOrder
  <2>6. QED
    BY <2>3, <2>4, <2>5, CellsOfOthers
<1>5. ASSUME NEW o \in Orders, NEW c \in Cells, NEW to \in Server!OrderStatus, Server!Finish(o, c, to)
      PROVE  Server!OneCellPerLiveOrder'
  <2>1. status[o] \in Server!Live /\ holder[c] = o
    BY <1>5, OnlyLiveMoves DEF Server!Finish
  <2>2. Server!HeldBy(o) = {c}
    <3>1. PICK b \in Cells : Server!HeldBy(o) = {b}
      BY <2>1 DEF ContractInv, Server!OneCellPerLiveOrder
    <3>2. c \in Server!HeldBy(o)
      BY <2>1 DEF Server!HeldBy
    <3>3. QED
      BY <3>1, <3>2
  <2>3. Server!HeldBy(o)' = {}
    BY <1>0, <1>2, <1>5, <2>2 DEF Server!Finish, Server!HeldBy
  <2>4. \A p \in Orders \ {o} : status'[p] = status[p] /\ Server!HeldBy(p)' = Server!HeldBy(p)
    BY <1>0, <1>2, <1>5, <2>1 DEF Server!Finish, Server!HeldBy
  <2>5. status'[o] \notin Server!Live
    BY <1>0, <1>2, <1>5 DEF Server!Finish, Server!Live
  <2>6. QED
    BY <2>3, <2>4, <2>5, CellsOfOthers
<1>6. ASSUME UNCHANGED <<status, holder>> PROVE Server!OneCellPerLiveOrder'
  BY <1>6 DEF ContractInv, Server!OneCellPerLiveOrder, Server!HeldBy
<1>7. QED
  BY <1>1, <1>3, <1>4, <1>5, <1>6 DEF Server!Next, ContractInv
-----------------------------------------------------------------------------
\* The pages use the service by its contract: each of their steps is one of
\* the contract's or leaves the orders and the cells alone.

LEMMA CommitIsContract ==
  ASSUME Server!TypeOK, NEW s \in Slots, calls[s].order \in Orders, Commit(s)
  PROVE  Server!Next
<1> DEFINE o == calls[s].order
<1>1. {"IN_STORAGE", "AWAITING_PICKUP", "CANCELLED", "COMPLETED"} \subseteq Server!OrderStatus
  BY SameLifecycle DEF OrderStatus
<1>2. CASE Server!Pay(o)
  BY <1>2 DEF Server!Next
<1>3. CASE Server!Advance(o, "IN_STORAGE") \/ Server!Advance(o, "AWAITING_PICKUP")
  BY <1>1, <1>3 DEF Server!Next
<1>4. CASE \E cell \in Cells : Server!Finish(o, cell, "CANCELLED") \/ Server!Finish(o, cell, "COMPLETED")
  BY <1>1, <1>4 DEF Server!Next
<1>5. QED
  BY <1>2, <1>3, <1>4 DEF Commit

LEMMA MarkIsContract ==
  ASSUME NEW s \in Slots, calls[s].order \in Orders, MarkOverdue(s)
  PROVE  [Server!Next]_<<status, holder>>
<1>1. "OVERDUE" \in Server!OrderStatus
  BY SameLifecycle, PickupTransitions
<1>2. QED
  BY <1>1 DEF MarkOverdue, Server!Next

LEMMA ServeIsContract ==
  ASSUME Server!TypeOK, NEW s \in Slots, calls[s].order \in Orders, Serve(s)
  PROVE  [Server!Next]_<<status, holder>>
<1>1. CASE Commit(s)
  BY <1>1, CommitIsContract
<1>2. CASE MarkOverdue(s)
  BY <1>2, MarkIsContract
<1>3. CASE ServeGet(s) \/ FindOverdue(s) \/ OpenDoor(s) \/ PickupUpdateFails(s) \/ Refuse(s)
  BY <1>3 DEF ServeGet, FindOverdue, OpenDoor, PickupUpdateFails, Refuse, server
<1>4. QED
  BY <1>1, <1>2, <1>3 DEF Serve

LEMMA UserLeavesServer ==
  ASSUME User
  PROVE  UNCHANGED server
BY DEF User, FollowAction, Back, RetryLoad, simulatePayment, cancel, settle, open,
       OpenDetail, OpenPayment, Open, Calls

\* A call is about an order from when it is sent until its slot is free again.
CallsNameOrders == \A s \in Slots : calls[s].pc # "free" => calls[s].order \in Orders

LEMMA StepIsContract ==
  ASSUME Server!TypeOK, CallsNameOrders, [Next]_vars
  PROVE  [Server!Next]_<<status, holder>>
<1>1. ASSUME User PROVE UNCHANGED <<status, holder>>
  BY <1>1, UserLeavesServer DEF server
<1>2. ASSUME NEW o \in Orders, RentalRunsOut(o) PROVE UNCHANGED <<status, holder>>
  BY <1>2 DEF RentalRunsOut
<1>3. ASSUME NEW o \in Orders, NEW c \in Cells, CreateOrder(o, c) PROVE Server!Next
  BY <1>3 DEF CreateOrder, Server!Next
<1>4. ASSUME NEW i \in Mounted, Poll(i) PROVE UNCHANGED <<status, holder>>
  BY <1>4 DEF Poll, Calls, server
<1>5. ASSUME NEW s \in Slots, Serve(s) PROVE [Server!Next]_<<status, holder>>
  <2>1. calls[s].pc # "free"
    BY <1>5 DEF Serve, ServeGet, FindOverdue, MarkOverdue, OpenDoor, Commit, AtTx,
                PickupUpdateFails, Refuse
  <2>2. QED
    BY <1>5, <2>1, ServeIsContract DEF CallsNameOrders
<1>6. ASSUME NEW s \in Slots, Deliver(s) \/ MarkOverdueFails(s) \/ Lose(s)
      PROVE  UNCHANGED <<status, holder>>
  BY <1>6 DEF Deliver, MarkOverdueFails, Lose, server
<1>7. CASE UNCHANGED vars
  BY <1>7 DEF vars, server
<1>8. QED
  BY <1>1, <1>2, <1>3, <1>4, <1>5, <1>6, <1>7 DEF Next
-----------------------------------------------------------------------------
\* The inductive invariant.  What a page shows comes from the reply of a call,
\* so what is claimed of a page is claimed of the calls that answer to it.

\* The calls the handlers of a kind of page make.
OpsOf(kind) ==
  CASE kind = "detail"  -> {"get", "cancel"}
    [] kind = "payment" -> {"get", "pay"}
    [] kind = "store"   -> {"get", "deposit"}
    [] kind = "pickup"  -> {"get", "pickup"}
    [] kind = "overdue" -> {"get", "settle"}

\* A page is about an order that has been placed, shows a status it has
\* reached, and an open door only if it was opened; an overdue page is about an
\* order that has been overdue and shows nothing from before.
PageOK(p, st, opened) ==
  /\ st[p.order] \in OrderStatus
  /\ p.shown # NoStatus => st[p.order] \in reachable[p.shown]
  /\ p.phase = "opened" => <<p.order, IF p.kind = "store" THEN "deposit" ELSE "pickup">> \in opened
  /\ p.kind = "overdue" =>
       /\ st[p.order] \in reachable["OVERDUE"]
       /\ p.shown # NoStatus => p.shown \in reachable["OVERDUE"]

\* A call outstanding is about an order that has been placed; if it is to reply
\* to a page, about the order of the page and what its kind asks for.
CallFits(c, pages, st) ==
  /\ c.pc = "free" => c.page = 0
  /\ c.pc # "free" => c.op \in CallOps /\ c.order \in Orders /\ st[c.order] \in OrderStatus
  /\ c.page # 0 => c.order = pages[c.page].order /\ c.op \in OpsOf(pages[c.page].kind)

\* Past its door a request of that door has opened it.
DoorWasOpened(c, opened) ==
  c.op \in {"deposit", "pickup"} /\ (c.pc = "tx" \/ (c.pc = "served" /\ c.reply # NoStatus))
    => <<c.order, c.op>> \in opened

\* The status replied has been reached.  A request that found its order expired
\* replies OVERDUE, so the order is still stored or has been overdue: it cannot
\* have been picked up meanwhile, its pickup being refused.
ReplyIsTrue(c, pages, st) ==
  /\ c.pc = "marking" => /\ c.op \in {"get", "settle"}
                         /\ st[c.order] \in {"IN_STORAGE"} \cup reachable["OVERDUE"]
  /\ c.pc = "tx" => c.op \in {"settle", "deposit", "pickup"}
  /\ c.pc = "served" /\ c.reply # NoStatus => st[c.order] \in reachable[c.reply]
  /\ c.page # 0 /\ pages[c.page].kind = "overdue" =>
       /\ c.pc # "marking"
       /\ c.pc = "served" => c.reply \in {NoStatus} \cup reachable["OVERDUE"]

CallOK(c, pages, st, opened) ==
  CallFits(c, pages, st) /\ DoorWasOpened(c, opened) /\ ReplyIsTrue(c, pages, st)

PagesInv ==
  /\ TypeOK
  /\ \A s \in Slots : CallOK(calls[s], stack, status, doors)
  /\ \A i \in Mounted : PageOK(stack[i], status, doors)

\* The claims on pages and calls stay true while the service moves forward.
LEMMA PageStaysOK ==
  ASSUME NEW p \in Page, NEW from, NEW to, NEW opened, NEW more,
         Forward(from, to), opened \subseteq more, PageOK(p, from, opened)
  PROVE  PageOK(p, to, more)
<1>1. p.order \in Orders /\ p.shown \in OrderStatus \cup {NoStatus}
  BY DEF Page
<1>2. QED
  BY <1>1, PickupTransitions DEF PageOK, Forward

LEMMA CallStaysOK ==
  ASSUME NEW c \in Call, NEW pages, NEW mounted, NEW from, NEW to, NEW opened, NEW more,
         Forward(from, to), opened \subseteq more,
         c.page # 0 => /\ mounted[c.page].order = pages[c.page].order
                       /\ mounted[c.page].kind = pages[c.page].kind,
         CallOK(c, pages, from, opened)
  PROVE  CallOK(c, mounted, to, more)
<1>1. c.reply \in OrderStatus \cup {NoStatus}
  BY DEF Call
<1>2. CallFits(c, mounted, to)
  BY DEF CallOK, CallFits, Forward
<1>3. DoorWasOpened(c, more)
  BY DEF CallOK, DoorWasOpened
<1>4. ReplyIsTrue(c, mounted, to)
  <2>1. c.pc # "free" => c.order \in Orders
    BY DEF CallOK, CallFits
  <2>2. c.pc = "marking" => to[c.order] \in {"IN_STORAGE"} \cup reachable["OVERDUE"]
    BY <2>1, PickupTransitions DEF CallOK, ReplyIsTrue, Forward
  <2>3. c.pc = "served" /\ c.reply # NoStatus => to[c.order] \in reachable[c.reply]
    BY <1>1, <2>1 DEF CallOK, ReplyIsTrue, Forward
  <2>4. QED
    BY <2>2, <2>3 DEF CallOK, ReplyIsTrue
<1>5. QED
  BY <1>2, <1>3, <1>4 DEF CallOK

\* A step that changes one call, keeps the pages mounted and may add others.
LEMMA OneCallStep ==
  ASSUME PagesInv, NEW s \in Slots, NEW c \in Call,
         Server!TypeOK', expired' \subseteq Orders, doors' \subseteq Orders \X {"deposit", "pickup"},
         Forward(status, status'), doors \subseteq doors', lost' \in 0..MaxLost,
         stack' \in Seq(Page), Len(stack) <= Len(stack'), Len(stack') <= MaxDepth,
         \A i \in Mounted : stack'[i].order = stack[i].order /\ stack'[i].kind = stack[i].kind,
         \A i \in 1..Len(stack') : PageOK(stack'[i], status', doors'),
         calls' = [calls EXCEPT ![s] = c], c.page <= Len(stack'),
         CallOK(c, stack', status', doors')
  PROVE  PagesInv'
<1>1. /\ calls \in [Slots -> Call] /\ stack \in Seq(Page) /\ Len(stack) \in Nat /\ Len(stack') \in Nat
      /\ \A t \in Slots : calls[t].page <= Len(stack) /\ calls[t].page \in Nat
  BY LenProperties DEF PagesInv, TypeOK, Top, Call
<1>2. /\ calls' \in [Slots -> Call]
      /\ \A t \in Slots : calls'[t] = IF t = s THEN c ELSE calls[t]
  BY <1>1
<1>3. ASSUME NEW t \in Slots
      PROVE  calls'[t].page <= Len(stack') /\ CallOK(calls'[t], stack', status', doors')
  <2>1. CASE t = s
    BY <1>2, <2>1
  <2>2. CASE t # s
    <3>1. calls'[t] = calls[t] /\ calls[t] \in Call
      BY <1>1, <1>2, <2>2
    <3>2. calls[t].page # 0 => calls[t].page \in Mounted
      BY <1>1 DEF Mounted, Top
    <3>3. CallOK(calls[t], stack, status, doors)
      BY DEF PagesInv
    <3>4. CallOK(calls[t], stack', status', doors')
      BY <3>1, <3>2, <3>3, CallStaysOK
    <3>5. QED
      BY <1>1, <3>1, <3>4
  <2>3. QED
    BY <2>1, <2>2
<1>4. TypeOK'
  BY <1>2, <1>3 DEF TypeOK, Top
<1>5. QED
  BY <1>3, <1>4 DEF PagesInv, Mounted, Top
-----------------------------------------------------------------------------
\* Steps of the service.  They change one call, and no page.

LEMMA InvTypes ==
  ASSUME PagesInv
  PROVE  /\ Server!TypeOK /\ expired \subseteq Orders /\ doors \subseteq Orders \X {"deposit", "pickup"}
         /\ stack \in Seq(Page) /\ Len(stack) \in Nat /\ Len(stack) <= MaxDepth /\ Top = Len(stack)
         /\ calls \in [Slots -> Call] /\ lost \in 0..MaxLost /\ CallsNameOrders
         /\ \A s \in Slots : calls[s] \in Call /\ calls[s].page <= Len(stack)
         /\ \A i \in 1..Len(stack) : stack[i] \in Page
BY LenProperties, ElementOfSeq DEF PagesInv, TypeOK, Top, CallsNameOrders, CallOK, CallFits

LEMMA ServerStep ==
  ASSUME PagesInv, NEW s \in Slots, NEW c \in Call,
         Server!TypeOK', expired' \subseteq Orders, doors' \subseteq Orders \X {"deposit", "pickup"},
         Forward(status, status'), doors \subseteq doors', lost' \in 0..MaxLost,
         stack' = stack, calls' = [calls EXCEPT ![s] = c], c.page <= Len(stack),
         CallOK(c, stack, status', doors')
  PROVE  PagesInv'
<1>1. \A i \in 1..Len(stack') : PageOK(stack'[i], status', doors')
  BY InvTypes, PageStaysOK DEF PagesInv, Mounted
<1>2. /\ stack' \in Seq(Page) /\ Len(stack) <= Len(stack') /\ Len(stack') <= MaxDepth
      /\ c.page <= Len(stack')
      /\ \A i \in Mounted : stack'[i].order = stack[i].order /\ stack'[i].kind = stack[i].kind
      /\ CallOK(c, stack', status', doors')
  BY InvTypes
<1>3. QED
  BY <1>1, <1>2, OneCallStep

LEMMA SameServer ==
  ASSUME PagesInv, UNCHANGED server
  PROVE  /\ Server!TypeOK' /\ expired' \subseteq Orders /\ doors' \subseteq Orders \X {"deposit", "pickup"}
         /\ Forward(status, status') /\ doors \subseteq doors'
         /\ status' = status /\ doors' = doors
BY InvTypes, ForwardStays DEF server, Server!TypeOK

\* A call that is served replies nothing, or a status the order has reached.
LEMMA ReplyStep ==
  ASSUME PagesInv, NEW s \in Slots, NEW reply \in OrderStatus \cup {NoStatus},
         Server!TypeOK', expired' = expired, doors' = doors, Forward(status, status'),
         lost' \in 0..MaxLost, stack' = stack, Replies(s, reply), calls[s].pc # "free",
         reply # NoStatus =>
           /\ status'[calls[s].order] \in reachable[reply]
           /\ calls[s].op \in {"deposit", "pickup"} => calls[s].pc = "tx"
           /\ calls[s].page # 0 /\ stack[calls[s].page].kind = "overdue" => reply \in reachable["OVERDUE"]
  PROVE  PagesInv'
<1> DEFINE c == [calls[s] EXCEPT !.pc = "served", !.seen = NoStatus, !.inTime = FALSE,
                                 !.reply = reply]
<1>1. calls[s] \in Call /\ calls[s].page <= Len(stack) /\ calls' = [calls EXCEPT ![s] = c]
  BY InvTypes DEF Replies
<1>2. /\ c \in Call
      /\ c.pc = "served" /\ c.reply = reply
      /\ c.page = calls[s].page /\ c.op = calls[s].op /\ c.order = calls[s].order
  BY <1>1 DEF Call
<1> HIDE DEF c
<1>3. CallOK(calls[s], stack, status, doors)
  BY DEF PagesInv
<1>4. CallFits(c, stack, status')
  BY <1>2, <1>3 DEF CallOK, CallFits, Forward
<1>5. DoorWasOpened(c, doors')
  BY <1>2, <1>3 DEF CallOK, DoorWasOpened
<1>6. ReplyIsTrue(c, stack, status')
  BY <1>2 DEF ReplyIsTrue
<1>7. QED
  BY <1>1, <1>2, <1>4, <1>5, <1>6, InvTypes, ServerStep DEF CallOK

\* A call that goes on to its UPDATE or to its transaction.
LEMMA GoOnStep ==
  ASSUME PagesInv, NEW s \in Slots, NEW pc \in {"marking", "tx"}, NEW inTime \in BOOLEAN,
         Server!TypeOK', expired' = expired, doors' \subseteq Orders \X {"deposit", "pickup"},
         Forward(status, status'), doors \subseteq doors', lost' \in 0..MaxLost, stack' = stack,
         GoesOn(s, pc, inTime),
         calls[s].pc # "free",
         pc = "marking" => /\ calls[s].op \in {"get", "settle"}
                           /\ status'[calls[s].order] = "IN_STORAGE"
                           /\ status' = status,
         pc = "tx" => \/ calls[s].op = "settle"
                      \/ /\ calls[s].op \in {"deposit", "pickup"}
                         /\ <<calls[s].order, calls[s].op>> \in doors'
  PROVE  PagesInv'
<1> DEFINE c == [calls[s] EXCEPT !.pc = pc, !.seen = NoStatus, !.inTime = inTime]
<1>1. calls[s] \in Call /\ calls[s].page <= Len(stack) /\ calls' = [calls EXCEPT ![s] = c]
  BY InvTypes DEF GoesOn
<1>2. /\ c \in Call
      /\ c.pc = pc
      /\ c.page = calls[s].page /\ c.op = calls[s].op /\ c.order = calls[s].order
  BY <1>1 DEF Call
<1> HIDE DEF c
<1>3. CallOK(calls[s], stack, status, doors)
  BY DEF PagesInv
<1>4. CallFits(c, stack, status')
  BY <1>2, <1>3 DEF CallOK, CallFits, Forward
<1>5. DoorWasOpened(c, doors')
  BY <1>2 DEF DoorWasOpened
<1>6. ReplyIsTrue(c, stack, status')
  <2>1. ASSUME c.page # 0, stack[c.page].kind = "overdue" PROVE pc # "marking"
    <3>1. c.page \in 1..Len(stack)
      BY <1>1, <1>2, <2>1, InvTypes DEF Call
    <3>2. status[c.order] \in reachable["OVERDUE"]
      BY <1>2, <1>3, <2>1, <3>1, InvTypes DEF PagesInv, PageOK, Mounted, CallOK, CallFits
    <3>3. QED
      BY <1>2, <3>2, AfterOverdue
  <2>2. QED
    BY <1>2, <2>1 DEF ReplyIsTrue
<1>7. QED
  BY <1>1, <1>2, <1>4, <1>5, <1>6, InvTypes, ServerStep DEF CallOK
\* What is known of the call a step of the service handles.
LEMMA CallInHand ==
  ASSUME PagesInv, NEW s \in Slots, calls[s].pc # "free"
  PROVE  /\ calls[s].order \in Orders /\ status[calls[s].order] \in OrderStatus
         /\ calls[s].op \in CallOps
         /\ calls[s].page # 0 /\ stack[calls[s].page].kind = "overdue" =>
              status[calls[s].order] \in reachable["OVERDUE"]
         /\ CallOK(calls[s], stack, status, doors)
<1>1. CallOK(calls[s], stack, status, doors)
  BY DEF PagesInv
<1>2. ASSUME calls[s].page # 0, stack[calls[s].page].kind = "overdue"
      PROVE  status[calls[s].order] \in reachable["OVERDUE"]
  <2>1. calls[s].page \in 1..Len(stack)
    BY <1>2, InvTypes DEF Call
  <2>2. QED
    BY <1>1, <1>2, <2>1, InvTypes DEF PagesInv, PageOK, Mounted, CallOK, CallFits
<1>3. QED
  BY <1>1, <1>2 DEF CallOK, CallFits

\* A step that touches neither calls nor pages.
LEMMA QuietStep ==
  ASSUME PagesInv, Server!TypeOK', expired' \subseteq Orders, doors' = doors,
         Forward(status, status'), UNCHANGED <<stack, calls, lost>>
  PROVE  PagesInv'
<1>1. ASSUME NEW i \in 1..Len(stack) PROVE PageOK(stack[i], status', doors')
  BY InvTypes, PageStaysOK DEF PagesInv, Mounted
<1>2. ASSUME NEW s \in Slots PROVE CallOK(calls[s], stack, status', doors')
  BY InvTypes, CallStaysOK DEF PagesInv
<1>3. TypeOK'
  BY InvTypes DEF TypeOK, Top
<1>4. QED
  BY <1>1, <1>2, <1>3 DEF PagesInv, Mounted, Top

LEMMA RentalRunsOutStep ==
  ASSUME PagesInv, NEW o \in Orders, RentalRunsOut(o)
  PROVE  PagesInv'
<1>1. expired' \subseteq Orders /\ UNCHANGED <<status, holder, doors, stack, calls, lost>>
  BY InvTypes DEF RentalRunsOut
<1>2. QED
  BY <1>1, InvTypes, QuietStep, ForwardStays DEF Server!TypeOK

LEMMA CreateOrderStep ==
  ASSUME PagesInv, NEW o \in Orders, NEW c \in Cells, CreateOrder(o, c)
  PROVE  PagesInv'
<1>1. Server!Next /\ UNCHANGED <<expired, doors, stack, calls, lost>>
  BY DEF CreateOrder, Server!Next
<1>2. QED
  BY <1>1, InvTypes, ContractGoesForward, QuietStep

LEMMA ServeGetStep ==
  ASSUME PagesInv, NEW s \in Slots, ServeGet(s)
  PROVE  PagesInv'
<1>1. /\ calls[s].pc = "sent" /\ calls[s].op = "get" /\ Replies(s, status[calls[s].order])
      /\ UNCHANGED <<server, stack, lost>>
  BY DEF ServeGet
<1>2. status[calls[s].order] \in reachable[status[calls[s].order]]
  BY <1>1, CallInHand, ReachableTypes
<1>3. QED
  BY <1>1, <1>2, CallInHand, InvTypes, SameServer, ReplyStep DEF server

LEMMA FindOverdueStep ==
  ASSUME PagesInv, NEW s \in Slots, FindOverdue(s)
  PROVE  PagesInv'
BY InvTypes, SameServer, GoOnStep DEF FindOverdue, NeedsMark, server

\* An order a request has found expired is stored or has been overdue.
LEMMA MarkOverdueStep ==
  ASSUME PagesInv, NEW s \in Slots, MarkOverdue(s)
  PROVE  PagesInv'
<1> DEFINE o == calls[s].order
<1>1. /\ calls[s].pc = "marking" /\ Marked(s, "OVERDUE")
      /\ UNCHANGED <<expired, doors, stack, lost>>
  BY DEF MarkOverdue
<1>2. calls[s].op \in {"get", "settle"} /\ status[o] \in {"IN_STORAGE"} \cup reachable["OVERDUE"]
  BY <1>1, CallInHand DEF CallOK, ReplyIsTrue
<1>3. Server!TypeOK' /\ Forward(status, status')
  BY <1>1, CallInHand, InvTypes, MarkIsContract, ContractGoesForward
<1>4. status'[o] \in reachable["OVERDUE"]
  <2>1. CASE status[o] = "IN_STORAGE"
    <3>1. status' = [status EXCEPT ![o] = "OVERDUE"]
      BY <2>1 DEF MarkOverdue, Server!Advance
    <3>2. QED
      BY <1>1, <3>1, CallInHand, InvTypes, AfterOverdue DEF Server!TypeOK
  <2>2. CASE status[o] # "IN_STORAGE"
    BY <2>2, <1>2 DEF MarkOverdue
  <2>3. QED
    BY <2>1, <2>2
<1>5. CASE calls[s].op = "get"
  BY <1>1, <1>3, <1>4, <1>5, InvTypes, ReplyStep, PickupTransitions, AfterOverdue DEF Marked
<1>6. CASE calls[s].op = "settle"
  BY <1>1, <1>3, <1>6, InvTypes, GoOnStep DEF Marked
<1>7. QED
  BY <1>2, <1>5, <1>6

LEMMA MarkOverdueFailsStep ==
  ASSUME PagesInv, NEW s \in Slots, MarkOverdueFails(s)
  PROVE  PagesInv'
<1> DEFINE o == calls[s].order
<1>1. /\ calls[s].pc = "marking" /\ Marked(s, "IN_STORAGE")
      /\ UNCHANGED <<server, stack>> /\ lost' \in 0..MaxLost
  BY InvTypes, OrderPagesAssumption DEF MarkOverdueFails
<1>2. /\ calls[s].op \in {"get", "settle"} /\ status[o] \in {"IN_STORAGE"} \cup reachable["OVERDUE"]
      /\ ~(calls[s].page # 0 /\ stack[calls[s].page].kind = "overdue")
  BY <1>1, CallInHand DEF CallOK, ReplyIsTrue
<1>3. status'[o] \in reachable["IN_STORAGE"]
  BY <1>1, <1>2, AfterInStorage, ReachableTransitive, ReachableTypes, PickupTransitions DEF server
<1>4. CASE calls[s].op = "get"
  BY <1>1, <1>2, <1>3, <1>4, SameServer, ReplyStep, PickupTransitions DEF Marked, server
<1>5. CASE calls[s].op = "settle"
  BY <1>1, <1>5, SameServer, GoOnStep DEF Marked, server
<1>6. QED
  BY <1>2, <1>4, <1>5

LEMMA OpenDoorStep ==
  ASSUME PagesInv, NEW s \in Slots, OpenDoor(s)
  PROVE  PagesInv'
<1>1. /\ calls[s].pc = "sent" /\ calls[s].op \in {"deposit", "pickup"}
      /\ doors' = doors \cup {<<calls[s].order, calls[s].op>>}
      /\ GoesOn(s, "tx", ~NeedsMark(calls[s].order))
      /\ UNCHANGED <<status, holder, expired, stack, lost>>
  BY DEF OpenDoor, DoorTest
<1>2. doors' \subseteq Orders \X {"deposit", "pickup"}
  BY <1>1, CallInHand, InvTypes
<1>3. Server!TypeOK' /\ Forward(status, status')
  BY <1>1, InvTypes, ForwardStays DEF Server!TypeOK
<1>4. QED
  BY <1>1, <1>2, <1>3, InvTypes, GoOnStep DEF NeedsMark

LEMMA CommitStep ==
  ASSUME PagesInv, NEW s \in Slots, Commit(s)
  PROVE  PagesInv'
<1> DEFINE o == calls[s].order
<1>1. /\ AtTx(calls[s]) /\ Accepts(calls[s]) /\ Replies(s, status'[o])
      /\ UNCHANGED <<expired, doors, stack, lost>>
  BY DEF Commit
<1>2. calls[s].pc # "free" /\ (calls[s].op \in {"deposit", "pickup"} => calls[s].pc = "tx")
  BY <1>1 DEF AtTx
<1>3. Server!TypeOK' /\ Forward(status, status')
  BY <1>2, CallInHand, InvTypes, CommitIsContract, ContractGoesForward
<1>4. status'[o] \in OrderStatus /\ status'[o] \in reachable[status'[o]]
  BY <1>2, <1>3, CallInHand, ReachableTypes DEF Forward
<1>5. calls[s].page # 0 /\ stack[calls[s].page].kind = "overdue" => status'[o] \in reachable["OVERDUE"]
  BY <1>2, <1>3, CallInHand, PickupTransitions DEF Forward
<1>6. QED
  BY <1>1, <1>2, <1>3, <1>4, <1>5, InvTypes, ReplyStep

\* Rejections and losses.
LEMMA NothingRepliedStep ==
  ASSUME PagesInv, NEW s \in Slots, PickupUpdateFails(s) \/ Refuse(s) \/ Lose(s)
  PROVE  PagesInv'
<1>1. /\ calls[s].pc # "free" /\ Replies(s, NoStatus) /\ UNCHANGED <<server, stack>>
      /\ lost' \in 0..MaxLost
  BY InvTypes, OrderPagesAssumption DEF PickupUpdateFails, Refuse, Lose, AtTx
<1>2. QED
  BY <1>1, SameServer, ReplyStep DEF server
-----------------------------------------------------------------------------
\* Steps of the pages.  They leave the service alone.

LEMMA ClientStep ==
  ASSUME PagesInv, UNCHANGED <<server, lost>>, NEW s \in Slots, NEW c \in Call,
         stack' \in Seq(Page), Len(stack) <= Len(stack'), Len(stack') <= MaxDepth,
         \A i \in 1..Len(stack) : stack'[i].order = stack[i].order /\ stack'[i].kind = stack[i].kind,
         \A i \in 1..Len(stack') : PageOK(stack'[i], status, doors),
         calls' = [calls EXCEPT ![s] = c], c.page <= Len(stack'),
         CallOK(c, stack', status, doors)
  PROVE  PagesInv'
<1>1. lost' \in 0..MaxLost /\ UNCHANGED server
  BY InvTypes
<1>2. /\ \A i \in 1..Len(stack') : PageOK(stack'[i], status', doors')
      /\ CallOK(c, stack', status', doors')
  BY SameServer
<1>3. \A i \in Mounted : stack'[i].order = stack[i].order /\ stack'[i].kind = stack[i].kind
  BY InvTypes DEF Mounted
<1>4. QED
  BY <1>1, <1>2, <1>3, SameServer, OneCallStep

LEMMA FreeType == Free \in Call
BY OrderPagesAssumption DEF Free, Call, NoStatus

\* A call as it is sent, for a page or for one that is gone.
LEMMA SentFields ==
  ASSUME NEW i \in 0..MaxDepth, NEW op \in CallOps, NEW o \in Orders,
         NEW seen \in OrderStatus \cup {NoStatus}
  PROVE  /\ Sent(i, op, o, seen) \in Call
         /\ Sent(i, op, o, seen).pc = "sent" /\ Sent(i, op, o, seen).page = i
         /\ Sent(i, op, o, seen).op = op /\ Sent(i, op, o, seen).order = o
<1>1. Free \in Call
  BY FreeType
<1>2. Sent(i, op, o, seen) \in Call
  BY <1>1 DEF Sent, Call
<1>3. QED
  BY <1>1, <1>2 DEF Sent, Call

LEMMA SentOK ==
  ASSUME NEW c \in Call, c.pc = "sent", c.op \in CallOps, c.order \in Orders,
         NEW pages, NEW st, NEW opened, st[c.order] \in OrderStatus,
         c.page # 0 => c.order = pages[c.page].order /\ c.op \in OpsOf(pages[c.page].kind)
  PROVE  CallOK(c, pages, st, opened)
BY DEF CallOK, CallFits, DoorWasOpened, ReplyIsTrue

\* What a page may become without claiming more.
SaysNoMore(p, q) ==
  /\ q.order = p.order /\ q.kind = p.kind
  /\ q.shown = p.shown
  /\ q.phase = "opened" => p.phase = "opened"

LEMMA SaysNoMoreOK ==
  ASSUME NEW p, NEW q, NEW st, NEW opened, PageOK(p, st, opened), SaysNoMore(p, q)
  PROVE  PageOK(q, st, opened)
BY DEF PageOK, SaysNoMore

\* One page changes, and a call is sent for it or its slot is freed.
LEMMA OnePageStep ==
  ASSUME PagesInv, UNCHANGED <<server, lost>>, NEW s \in Slots, NEW c \in Call,
         NEW i \in Mounted, NEW p \in Page, p.order = stack[i].order, p.kind = stack[i].kind,
         PageOK(p, status, doors), stack' = [stack EXCEPT ![i] = p],
         calls' = [calls EXCEPT ![s] = c], c.page <= Len(stack),
         CallOK(c, stack, status, doors)
  PROVE  PagesInv'
<1>1. i \in 1..Len(stack) /\ stack \in Seq(Page)
  BY InvTypes DEF Mounted
<1>2. /\ stack' \in Seq(Page) /\ Len(stack') = Len(stack)
      /\ \A j \in 1..Len(stack) : stack'[j] = IF j = i THEN p ELSE stack[j]
  BY <1>1, ExceptSeq
<1>3. \A j \in 1..Len(stack) : stack'[j].order = stack[j].order /\ stack'[j].kind = stack[j].kind
  BY <1>2
<1>4. \A j \in 1..Len(stack') : PageOK(stack'[j], status, doors)
  BY <1>2, InvTypes DEF PagesInv, Mounted
<1>5. CallOK(c, stack', status, doors)
  <2>1. c.page # 0 => c.page \in 1..Len(stack)
    BY InvTypes DEF Call
  <2>2. c.page # 0 => /\ stack'[c.page].order = stack[c.page].order
                      /\ stack'[c.page].kind = stack[c.page].kind
    BY <1>3, <2>1
  <2>3. QED
    BY <2>2, CallStaysOK, ForwardStays
<1>6. Len(stack) <= Len(stack') /\ Len(stack') <= MaxDepth /\ c.page <= Len(stack')
  BY <1>2, InvTypes
<1>7. QED
  BY <1>2, <1>3, <1>4, <1>5, <1>6, ClientStep

LEMMA CallsStep ==
  ASSUME PagesInv, NEW i \in Mounted, NEW p \in Page, NEW op \in OpsOf(p.kind),
         op \in CallOps, SaysNoMore(stack[i], p), Calls(i, p, op)
  PROVE  PagesInv'
<1>1. PICK s \in Slots : /\ calls' = [calls EXCEPT ![s] = Sent(i, op, p.order, p.shown)]
                         /\ stack' = [stack EXCEPT ![i] = p]
                         /\ UNCHANGED <<server, lost>>
  BY DEF Calls
<1>2. PageOK(stack[i], status, doors) /\ PageOK(p, status, doors)
  BY SaysNoMoreOK DEF PagesInv
<1>3. i \in 0..MaxDepth /\ i <= Len(stack)
  BY InvTypes, OrderPagesAssumption DEF Mounted
<1>4. /\ p.order \in Orders /\ p.shown \in OrderStatus \cup {NoStatus}
      /\ p.order = stack[i].order /\ p.kind = stack[i].kind /\ status[p.order] \in OrderStatus
  BY <1>2 DEF Page, SaysNoMore, PageOK
<1> DEFINE c == Sent(i, op, p.order, p.shown)
<1>5. c \in Call /\ c.pc = "sent" /\ c.page = i /\ c.op = op /\ c.order = p.order
  BY <1>3, <1>4, SentFields
<1> HIDE DEF c
<1>6. calls' = [calls EXCEPT ![s] = c]
  BY <1>1 DEF c
<1>7. CallOK(c, stack, status, doors)
  BY <1>4, <1>5, SentOK
<1>8. QED
  BY <1>1, <1>2, <1>3, <1>4, <1>5, <1>6, <1>7, OnePageStep
-----------------------------------------------------------------------------
\* Navigation.

LEMMA OpenStep ==
  ASSUME PagesInv, NEW kind \in PageKinds, NEW o \in Orders, status[o] \in OrderStatus,
         kind = "overdue" => status[o] \in reachable["OVERDUE"],
         Open(kind, o)
  PROVE  PagesInv'
<1> DEFINE p == NewPage(kind, o)
           n == Len(stack) + 1
<1>1. PICK s \in Slots : /\ Len(stack) < MaxDepth
                         /\ calls' = [calls EXCEPT ![s] = Sent(n, "get", o, NoStatus)]
                         /\ stack' = Append(stack, p)
                         /\ UNCHANGED <<server, lost>>
  BY InvTypes DEF Open
<1>2. p \in Page /\ p.order = o /\ p.kind = kind /\ PageOK(p, status, doors)
  BY DEF NewPage, Page, PageOK
<1> HIDE DEF p
<1>3. /\ stack' \in Seq(Page) /\ Len(stack') = n /\ stack'[n] = p
      /\ \A i \in 1..Len(stack) : stack'[i] = stack[i]
  BY <1>1, <1>2, InvTypes, AppendProperties
<1>4. n \in Nat /\ n \in 0..MaxDepth /\ n # 0
  BY <1>1, InvTypes, OrderPagesAssumption
<1>5. \A i \in 1..Len(stack') : PageOK(stack'[i], status, doors)
  <2>1. ASSUME NEW i \in 1..Len(stack') PROVE i = n \/ i \in 1..Len(stack)
    BY <1>3, InvTypes
  <2>2. \A i \in 1..Len(stack) : PageOK(stack[i], status, doors)
    BY InvTypes DEF PagesInv, Mounted
  <2>3. QED
    BY <1>2, <1>3, <2>1, <2>2
<1> DEFINE c == Sent(n, "get", o, NoStatus)
<1>6. c \in Call /\ c.pc = "sent" /\ c.page = n /\ c.op = "get" /\ c.order = o
  BY <1>4, SentFields DEF CallOps
<1>7. calls' = [calls EXCEPT ![s] = c]
  BY <1>1
<1> HIDE DEF c
<1>8. "get" \in CallOps /\ "get" \in OpsOf(kind)
  BY DEF CallOps, OpsOf, PageKinds
<1>9. CallOK(c, stack', status, doors)
  BY <1>2, <1>3, <1>4, <1>6, <1>8, SentOK
<1>10. \A i \in 1..Len(stack) : stack'[i].order = stack[i].order /\ stack'[i].kind = stack[i].kind
  BY <1>3
<1>11. Len(stack) <= Len(stack') /\ Len(stack') <= MaxDepth /\ c.page <= Len(stack')
  BY <1>3, <1>4, <1>6, InvTypes, OrderPagesAssumption
<1> HIDE DEF n
<1>12. QED
  BY <1>1, <1>3, <1>5, <1>6, <1>7, <1>9, <1>10, <1>11, ClientStep

LEMMA OpenFirstStep ==
  ASSUME PagesInv, NEW o \in Orders, OpenDetail(o) \/ OpenPayment(o)
  PROVE  PagesInv'
<1>1. status[o] \in OrderStatus
  BY InvTypes, SameLifecycle DEF OpenDetail, OpenPayment, Server!TypeOK
<1>2. QED
  BY <1>1, OpenStep DEF OpenDetail, OpenPayment, PageKinds

LEMMA TopPage ==
  ASSUME PagesInv, stack # <<>>
  PROVE  /\ Top \in Mounted /\ Top = Len(stack) /\ stack[Top] \in Page
         /\ PageOK(stack[Top], status, doors)
<1>1. Top \in Mounted
  BY InvTypes, EmptySeq DEF Mounted
<1>2. QED
  BY <1>1, InvTypes DEF PagesInv, Mounted

\* The overdue page is only offered for an order shown overdue.
LEMMA FollowActionStep ==
  ASSUME PagesInv, FollowAction
  PROVE  PagesInv'
<1> DEFINE p == stack[Top]
<1>1. /\ p \in Page /\ PageOK(p, status, doors)
      /\ p.order \in Orders /\ p.shown \in OrderStatus \cup {NoStatus}
      /\ status[p.order] \in OrderStatus
  BY TopPage DEF FollowAction, Page, PageOK
<1>2. ASSUME NEW a \in availableOrderActions(p.shown) \ {"cancel"}, Open(orderActionRoute(a), p.order)
      PROVE  PagesInv'
  <2>1. orderActionRoute(a) \in PageKinds
    BY <1>1 DEF availableOrderActions, orderActionRoute, PageKinds
  <2>2. orderActionRoute(a) = "overdue" => p.shown = "OVERDUE"
    BY <1>1 DEF availableOrderActions, orderActionRoute
  <2>3. orderActionRoute(a) = "overdue" => status[p.order] \in reachable["OVERDUE"]
    BY <1>1, <2>2 DEF PageOK, NoStatus
  <2>4. QED
    BY <1>1, <1>2, <2>1, <2>3, OpenStep
<1>3. ASSUME Open("detail", p.order) PROVE PagesInv'
  BY <1>1, <1>3, OpenStep DEF PageKinds
<1>4. QED
  BY <1>2, <1>3 DEF FollowAction

\* Leaving the visible page: its calls answer to nobody from then on.
LEMMA BackStep ==
  ASSUME PagesInv, Back
  PROVE  PagesInv'
<1> DEFINE n == Len(stack) - 1
<1>1. Len(stack) \in Nat \ {0} /\ n \in Nat /\ Top = Len(stack)
  BY InvTypes, EmptySeq DEF Back
<1>2. /\ stack' = SubSeq(stack, 1, n)
      /\ calls' = [s \in Slots |-> IF calls[s].page = Len(stack) THEN [calls[s] EXCEPT !.page = 0]
                                                                ELSE calls[s]]
      /\ UNCHANGED <<server, lost>>
  BY <1>1 DEF Back
<1>3. /\ stack' \in Seq(Page) /\ Len(stack') = n
      /\ \A i \in 1..n : stack'[i] = stack[i]
  <2>1. \A i \in 1..n : stack[i] \in Page
    BY <1>1, InvTypes
  <2>2. 1 \in Int /\ n \in Int /\ n - 1 + 1 = n /\ \A i \in 1..n : 1 + i - 1 = i
    BY <1>1
  <2>3. /\ SubSeq(stack, 1, n) \in Seq(Page)
        /\ Len(SubSeq(stack, 1, n)) = IF 1 <= n THEN n - 1 + 1 ELSE 0
        /\ \A i \in 1..(n - 1 + 1) : SubSeq(stack, 1, n)[i] = stack[1 + i - 1]
    BY <2>1, <2>2, SubSeqProperties
  <2>4. QED
    BY <1>1, <1>2, <2>2, <2>3
<1>4. ASSUME NEW s \in Slots
      PROVE  /\ calls'[s] \in Call /\ calls'[s].page <= n
             /\ CallOK(calls'[s], stack', status, doors)
  <2>1. calls[s] \in Call /\ calls[s].page \in Nat /\ calls[s].page <= Len(stack)
    BY InvTypes DEF Call
  <2>2. CallOK(calls[s], stack, status, doors)
    BY DEF PagesInv
  <2>3. CASE calls[s].page = Len(stack)
    <3> DEFINE c == [calls[s] EXCEPT !.page = 0]
    <3>1. /\ c \in Call /\ c.page = 0 /\ c.pc = calls[s].pc /\ c.op = calls[s].op
          /\ c.order = calls[s].order /\ c.reply = calls[s].reply
      BY <2>1, OrderPagesAssumption DEF Call
    <3> HIDE DEF c
    <3>2. CallOK(c, stack', status, doors)
      BY <2>2, <3>1 DEF CallOK, CallFits, DoorWasOpened, ReplyIsTrue
    <3>3. calls'[s] = c
      BY <1>2, <2>3 DEF c
    <3>4. QED
      BY <1>1, <3>1, <3>2, <3>3
  <2>4. CASE calls[s].page # Len(stack)
    <3>1. calls'[s] = calls[s]
      BY <1>2, <2>4
    <3>2. calls[s].page <= n /\ (calls[s].page # 0 => calls[s].page \in 1..n)
      BY <1>1, <2>1, <2>4
    <3>3. CallOK(calls[s], stack', status, doors)
      BY <1>3, <2>1, <2>2, <3>2, CallStaysOK, ForwardStays
    <3>4. QED
      BY <2>1, <3>1, <3>2, <3>3
  <2>5. QED
    BY <2>3, <2>4
<1>5. ASSUME NEW i \in 1..n PROVE PageOK(stack'[i], status, doors)
  BY <1>1, <1>3 DEF PagesInv, Mounted
<1>6. status' = status /\ doors' = doors /\ Server!TypeOK' /\ expired' \subseteq Orders
      /\ doors' \subseteq Orders \X {"deposit", "pickup"} /\ lost' \in 0..MaxLost
  BY <1>2, SameServer, InvTypes
<1>7. calls' \in [Slots -> Call] /\ n <= MaxDepth
  BY <1>1, <1>2, <1>4, InvTypes, OrderPagesAssumption
<1> HIDE DEF n
<1>8. TypeOK'
  BY <1>3, <1>4, <1>6, <1>7 DEF TypeOK, Top
<1>9. QED
  BY <1>3, <1>4, <1>5, <1>6, <1>8 DEF PagesInv, Mounted, Top
-----------------------------------------------------------------------------
\* The visible page, the interval and the replies.

LEMMA VisiblePageStep ==
  ASSUME PagesInv, RetryLoad \/ simulatePayment \/ cancel \/ settle \/ open
  PROVE  PagesInv'
<1> DEFINE p == stack[Top]
<1>0. stack # <<>>
  BY DEF RetryLoad, simulatePayment, cancel, settle, open, Shows
<1>1. p \in Page /\ Top \in Mounted /\ p.kind \in PageKinds
  BY <1>0, TopPage DEF Page
<1>2. ASSUME NEW q \in Page, NEW op \in CallOps, op \in OpsOf(q.kind), SaysNoMore(p, q),
             Calls(Top, q, op)
      PROVE  PagesInv'
  BY <1>1, <1>2, CallsStep
<1>3. CASE RetryLoad
  <2> DEFINE q == Reloading(p)
  <2>1. q \in Page /\ SaysNoMore(p, q) /\ q.kind = p.kind
    BY <1>1 DEF Reloading, Page, SaysNoMore
  <2>2. "get" \in CallOps /\ "get" \in OpsOf(p.kind)
    BY <1>1 DEF CallOps, OpsOf, PageKinds
  <2>3. QED
    BY <1>2, <1>3, <2>1, <2>2 DEF RetryLoad
<1>4. CASE simulatePayment \/ cancel \/ settle
  <2> DEFINE q == [p EXCEPT !.busy = TRUE]
  <2>1. q \in Page /\ SaysNoMore(p, q) /\ q.kind = p.kind
    BY <1>1 DEF Page, SaysNoMore
  <2>2. {"pay", "cancel", "settle"} \subseteq CallOps
    BY DEF CallOps
  <2> HIDE DEF q
  <2>3. CASE Shows("payment", "content") /\ Calls(Top, q, "pay")
    BY <1>2, <2>1, <2>2, <2>3 DEF Shows, OpsOf
  <2>4. CASE Shows("detail", "content") /\ Calls(Top, q, "cancel")
    BY <1>2, <2>1, <2>2, <2>4 DEF Shows, OpsOf
  <2>5. CASE Shows("overdue", "content") /\ Calls(Top, q, "settle")
    BY <1>2, <2>1, <2>2, <2>5 DEF Shows, OpsOf
  <2>6. QED
    BY <1>4, <2>3, <2>4, <2>5 DEF simulatePayment, cancel, settle, q
<1>5. CASE open
  <2> DEFINE q == [p EXCEPT !.phase = "opening"]
             op == IF p.kind = "store" THEN "deposit" ELSE "pickup"
  <2>1. q \in Page /\ SaysNoMore(p, q) /\ q.kind = p.kind
    BY <1>1 DEF Page, SaysNoMore
  <2>2. p.kind \in {"store", "pickup"} /\ Calls(Top, q, op)
    BY <1>5 DEF open, Shows
  <2>3. op \in CallOps /\ op \in OpsOf(p.kind)
    BY <2>2 DEF CallOps, OpsOf
  <2> HIDE DEF q, op
  <2>4. QED
    BY <1>2, <2>1, <2>2, <2>3
<1>6. QED
  BY <1>3, <1>4, <1>5

LEMMA PollStep ==
  ASSUME PagesInv, NEW i \in Mounted, Poll(i)
  PROVE  PagesInv'
<1> DEFINE q == Reloading(stack[i])
<1>1. stack[i] \in Page
  BY InvTypes DEF Mounted
<1>2. q \in Page /\ SaysNoMore(stack[i], q) /\ q.kind = "detail"
  BY <1>1 DEF Poll, Reloading, Page, SaysNoMore
<1>3. "get" \in CallOps /\ "get" \in OpsOf("detail") /\ Calls(i, q, "get")
  BY DEF CallOps, OpsOf, Poll
<1> HIDE DEF q
<1>4. QED
  BY <1>2, <1>3, CallsStep

\* What a handler puts on its page is what the reply says.
LEMMA HandledOK ==
  ASSUME NEW p \in Page, NEW c \in Call, c.pc = "served", c.op \in OpsOf(p.kind),
         NEW pages, NEW st, NEW opened, c.page # 0, pages[c.page] = p,
         PageOK(p, st, opened), CallOK(c, pages, st, opened)
  PROVE  /\ Handled(p, c) \in Page
         /\ Handled(p, c).order = p.order /\ Handled(p, c).kind = p.kind
         /\ PageOK(Handled(p, c), st, opened)
<1> DEFINE q == Handled(p, c)
<1>1. /\ c.op \in {"get", "pay", "cancel", "deposit", "pickup", "settle"}
      /\ p.kind \in PageKinds /\ c.reply \in OrderStatus \cup {NoStatus}
      /\ c.order = p.order /\ st[p.order] \in OrderStatus
  BY DEF OpsOf, Page, Call, CallOK, CallFits, PageOK, PageKinds
<1>2. CASE c.op \in {"get", "pay"}
  <2>1. CASE c.reply # NoStatus
    <3>1. /\ q \in Page /\ q.order = p.order /\ q.kind = p.kind
          /\ q.shown = c.reply /\ q.phase = p.phase
      BY <1>1, <1>2, <2>1 DEF Handled, Page, Call
    <3>2. st[p.order] \in reachable[c.reply]
      BY <1>1, <2>1 DEF CallOK, ReplyIsTrue
    <3>3. p.kind = "overdue" => c.reply \in reachable["OVERDUE"]
      BY <2>1 DEF CallOK, ReplyIsTrue
    <3> HIDE DEF q
    <3>4. PageOK(q, st, opened)
      BY <3>1, <3>2, <3>3 DEF PageOK
    <3>5. QED
      BY <3>1, <3>4 DEF q
  <2>2. CASE c.reply = NoStatus
    <3>1. PICK b \in BOOLEAN : q = [p EXCEPT !.load = "error", !.busy = b]
      BY <1>1, <1>2, <2>2 DEF Handled, Page, Call
    <3> HIDE DEF q
    <3>2. q \in Page /\ SaysNoMore(p, q)
      BY <3>1 DEF Page, SaysNoMore
    <3>3. QED
      BY <3>2, SaysNoMoreOK DEF SaysNoMore, q
  <2>3. QED
    BY <2>1, <2>2
<1>3. CASE c.op \in {"cancel", "settle"}
  <2>1. \/ q = [p EXCEPT !.load = "loading"]
        \/ q = [p EXCEPT !.busy = FALSE]
        \/ q = [[p EXCEPT !.busy = FALSE] EXCEPT !.load = "loading"]
    BY <1>1, <1>3 DEF Handled, Reloading
  <2> HIDE DEF q
  <2>2. q \in Page /\ SaysNoMore(p, q)
    BY <2>1 DEF Page, SaysNoMore
  <2>3. QED
    BY <2>2, SaysNoMoreOK DEF SaysNoMore, q
<1>4. CASE c.op \in {"deposit", "pickup"}
  <2>1. p.kind \in {"store", "pickup"} /\ c.op = IF p.kind = "store" THEN "deposit" ELSE "pickup"
    BY <1>1, <1>4 DEF OpsOf, PageKinds
  <2>2. CASE c.reply # NoStatus
    <3>1. /\ q \in Page /\ q.order = p.order /\ q.kind = p.kind
          /\ q.shown = p.shown /\ q.phase = "opened"
      BY <1>1, <1>4, <2>2 DEF Handled, Reloading, Page
    <3>2. <<p.order, c.op>> \in opened
      BY <1>1, <1>4, <2>2 DEF CallOK, DoorWasOpened
    <3> HIDE DEF q
    <3>3. PageOK(q, st, opened)
      BY <2>1, <3>1, <3>2 DEF PageOK
    <3>4. QED
      BY <3>1, <3>3 DEF q
  <2>3. CASE c.reply = NoStatus
    <3>1. q \in Page /\ SaysNoMore(p, q)
      BY <1>1, <1>4, <2>3 DEF Handled, Page, SaysNoMore
    <3>2. QED
      BY <3>1, SaysNoMoreOK DEF SaysNoMore
  <2>4. QED
    BY <2>2, <2>3
<1>5. QED
  BY <1>1, <1>2, <1>3, <1>4

\* The call that takes the slot of the reply: none, or the reload of its page.
LEMMA AfterReply ==
  ASSUME PagesInv, NEW s \in Slots, Deliver(s)
  PROVE  \E c \in Call : /\ calls' = [calls EXCEPT ![s] = c]
                         /\ c.page <= Len(stack)
                         /\ CallOK(c, stack, status, doors)
<1> DEFINE d == calls[s]
<1>1. /\ d \in Call /\ d.pc = "served" /\ CallOK(d, stack, status, doors)
      /\ d.page \in 0..MaxDepth /\ d.page <= Len(stack)
      /\ d.order \in Orders /\ status[d.order] \in OrderStatus
  BY InvTypes, CallInHand DEF Deliver, Call
<1>2. CASE ~Reloads(d)
  <2>1. Free \in Call /\ calls' = [calls EXCEPT ![s] = Free] /\ Free.page <= Len(stack)
    BY <1>2, FreeType, InvTypes DEF Deliver, Free
  <2>2. CallOK(Free, stack, status, doors)
    BY DEF Free, CallOK, CallFits, DoorWasOpened, ReplyIsTrue
  <2>3. QED
    BY <2>1, <2>2
<1>3. CASE Reloads(d)
  <2> DEFINE b == d.op \in {"cancel", "settle"} /\ d.reply # NoStatus
             r == Sent(d.page, "get", d.order, NoStatus)
             c == [r EXCEPT !.releases = b]
  <2>1. r \in Call /\ r.pc = "sent" /\ r.page = d.page /\ r.op = "get" /\ r.order = d.order
    BY <1>1, SentFields DEF CallOps
  <2>2. calls' = [calls EXCEPT ![s] = c]
    BY <1>3 DEF Deliver
  <2>3. b \in BOOLEAN
    OBVIOUS
  <2> HIDE DEF r, b
  <2>4. c \in Call /\ c.pc = "sent" /\ c.page = d.page /\ c.op = "get" /\ c.order = d.order
    BY <2>1, <2>3 DEF Call
  <2> HIDE DEF c
  <2>5. d.page # 0 => d.order = stack[d.page].order /\ "get" \in OpsOf(stack[d.page].kind)
    <3>1. d.page # 0 => stack[d.page].kind \in PageKinds
      BY <1>1, InvTypes DEF Page
    <3>2. QED
      BY <1>1, <3>1 DEF CallOK, CallFits, OpsOf, PageKinds
  <2>6. CallOK(c, stack, status, doors)
    BY <1>1, <2>4, <2>5, SentOK DEF CallOps
  <2>7. QED
    BY <1>1, <2>2, <2>4, <2>6
<1>4. QED
  BY <1>2, <1>3

LEMMA DeliverStep ==
  ASSUME PagesInv, NEW s \in Slots, Deliver(s)
  PROVE  PagesInv'
<1>1. PICK c \in Call : /\ calls' = [calls EXCEPT ![s] = c]
                        /\ c.page <= Len(stack)
                        /\ CallOK(c, stack, status, doors)
  BY AfterReply
<1> DEFINE d == calls[s]
<1>2. /\ d \in Call /\ d.pc = "served" /\ CallOK(d, stack, status, doors)
      /\ d.page \in Nat /\ d.page <= Len(stack) /\ UNCHANGED <<server, lost>>
  BY InvTypes DEF Deliver, PagesInv, Call
<1>3. CASE d.page = 0
  <2>1. stack' = stack /\ lost' \in 0..MaxLost /\ UNCHANGED server
    BY <1>2, <1>3, InvTypes DEF Deliver
  <2>2. CallOK(c, stack, status', doors')
    BY <1>1, <2>1, SameServer
  <2>3. QED
    BY <1>1, <2>1, <2>2, SameServer, ServerStep
<1>4. CASE d.page # 0
  <2> DEFINE p == Handled(stack[d.page], d)
  <2>1. d.page \in Mounted /\ d.page \in 1..Len(stack) /\ stack[d.page] \in Page
    BY <1>2, <1>4, InvTypes DEF Mounted
  <2>2. stack' = [stack EXCEPT ![d.page] = p]
    BY <1>4, <2>1 DEF Deliver
  <2>3. PageOK(stack[d.page], status, doors) /\ d.op \in OpsOf(stack[d.page].kind)
    BY <1>2, <1>4, <2>1 DEF PagesInv, CallOK, CallFits
  <2>4. /\ p \in Page /\ p.order = stack[d.page].order /\ p.kind = stack[d.page].kind
        /\ PageOK(p, status, doors)
    BY <1>2, <1>4, <2>1, <2>3, HandledOK
  <2> HIDE DEF p, d
  <2>5. QED
    BY <1>1, <1>2, <2>1, <2>2, <2>4, OnePageStep
<1>5. QED
  BY <1>3, <1>4
-----------------------------------------------------------------------------

LEMMA PagesInvInit == Init => PagesInv
<1> SUFFICES ASSUME Init PROVE PagesInv
  OBVIOUS
<1>1. Server!TypeOK
  BY DEF Init, Server!Init, Server!TypeOK
<1>2. stack \in Seq(Page) /\ Len(stack) = 0
  BY EmptySeq DEF Init
<1>3. ASSUME NEW s \in Slots
      PROVE  calls[s] = Free /\ Free.page = 0 /\ CallOK(Free, stack, status, doors)
  BY <1>2 DEF Init, Free, CallOK, CallFits, DoorWasOpened, ReplyIsTrue
<1>4. TypeOK
  BY <1>1, <1>2, <1>3, FreeType, OrderPagesAssumption DEF Init, TypeOK, Top
<1>5. QED
  BY <1>2, <1>3, <1>4 DEF PagesInv, Mounted, Top

LEMMA PagesInvStep ==
  ASSUME PagesInv, [Next]_vars
  PROVE  PagesInv'
<1>1. CASE User
  BY <1>1, FollowActionStep, BackStep, VisiblePageStep, OpenFirstStep DEF User
<1>2. ASSUME NEW o \in Orders, RentalRunsOut(o) \/ (\E c \in Cells : CreateOrder(o, c))
      PROVE  PagesInv'
  BY <1>2, RentalRunsOutStep, CreateOrderStep
<1>3. ASSUME NEW i \in Mounted, Poll(i) PROVE PagesInv'
  BY <1>3, PollStep
<1>4. ASSUME NEW s \in Slots, Serve(s) PROVE PagesInv'
  BY <1>4, ServeGetStep, FindOverdueStep, MarkOverdueStep, OpenDoorStep, CommitStep,
     NothingRepliedStep DEF Serve
<1>5. ASSUME NEW s \in Slots, Deliver(s) \/ MarkOverdueFails(s) \/ Lose(s) PROVE PagesInv'
  BY <1>5, DeliverStep, MarkOverdueFailsStep, NothingRepliedStep
<1>6. CASE UNCHANGED vars
  BY <1>6, InvTypes, QuietStep, ForwardStays DEF vars, server, Server!TypeOK
<1>7. QED
  BY <1>1, <1>2, <1>3, <1>4, <1>5, <1>6 DEF Next

LEMMA PagesInvHolds == Spec => []PagesInv
BY PagesInvInit, PagesInvStep, PTL DEF Spec

(***************************************************************************)
(* Types of the pages, the calls and the service: in particular a call     *)
(* never answers to a page that is not mounted any more.                   *)
(***************************************************************************)
THEOREM Typing == Spec => []TypeOK
<1>1. PagesInv => TypeOK
  BY DEF PagesInv
<1>2. QED
  BY <1>1, PagesInvHolds, PTL

\* What the steps of the pages do to the service are operations of its contract.
LEMMA ContractIsUsed == Spec => Server!Spec
<1>1. Init => Server!Init
  BY DEF Init
<1>2. PagesInv /\ [Next]_vars => [Server!Next]_(Server!vars)
  BY InvTypes, StepIsContract DEF Server!vars
<1>3. QED
  BY <1>1, <1>2, PagesInvHolds, PTL DEF Spec, Server!Spec

(***************************************************************************)
(* A live order holds exactly one cell and an order that ended holds none: *)
(* what an implementation of biz/repository.go inherits by refinement.     *)
(***************************************************************************)
THEOREM ContractIsSound == Server!Spec => []Server!OneCellPerLiveOrder
<1>1. Server!Init => ContractInv
  <2> SUFFICES ASSUME Server!Init PROVE Server!TypeOK /\ Server!OneCellPerLiveOrder
    BY DEF ContractInv
  <2>1. Server!TypeOK
    BY DEF Server!Init, Server!TypeOK
  <2>2. ASSUME NEW o \in Orders PROVE status[o] \notin Server!Live /\ Server!HeldBy(o) = {}
    BY OrderPagesAssumption, NoStatusNotLive DEF Server!Init, Server!HeldBy
  <2>3. QED
    BY <2>1, <2>2 DEF Server!OneCellPerLiveOrder
<1>2. ContractInv /\ [Server!Next]_(Server!vars) => ContractInv'
  BY ContractInvStep DEF Server!vars
<1>3. ContractInv => Server!OneCellPerLiveOrder
  BY DEF ContractInv
<1>4. QED
  BY <1>1, <1>2, <1>3, PTL DEF Server!Spec

(***************************************************************************)
(* So it is under the pages: whatever they ask, lose or repeat, a live     *)
(* order has its one cell and an order that ended none.                    *)
(***************************************************************************)
THEOREM PagesLeakNoCell == Spec => []Server!OneCellPerLiveOrder
BY ContractIsUsed, ContractIsSound

(***************************************************************************)
(* However late, out of order or lost the replies of the service are, a    *)
(* page never shows a status its order has not reached (use-order.ts:33).  *)
(***************************************************************************)
THEOREM NeverAhead == Spec => []ShownNeverAhead
<1>1. PagesInv => ShownNeverAhead
  BY DEF PagesInv, PageOK, ShownNeverAhead
<1>2. QED
  BY <1>1, PagesInvHolds, PTL

(***************************************************************************)
(* A page that says that a door is open or a penalty settled tells the     *)
(* truth, whatever replies were lost.                                      *)
(***************************************************************************)
THEOREM PagesAreTruthful == Spec => []SaidHasHappened
<1>1. ASSUME PagesInv, NEW i \in Mounted, stack[i].kind = "overdue",
             Rendered(stack[i]) = "content", stack[i].shown # "OVERDUE"
      PROVE  status[stack[i].order] \in reachable["AWAITING_PICKUP"]
  <2>1. stack[i] \in Page /\ PageOK(stack[i], status, doors)
    BY <1>1, InvTypes DEF PagesInv, Mounted
  <2>2. stack[i].shown # NoStatus
    BY <1>1, <2>1 DEF Rendered, Page
  <2>3. stack[i].shown \in {"AWAITING_PICKUP", "COMPLETED"}
    BY <1>1, <2>1, <2>2, AfterOverdue DEF PageOK
  <2>4. reachable[stack[i].shown] \subseteq reachable["AWAITING_PICKUP"]
    BY <2>3, AfterAwaitingPickup, AfterCompleted
  <2>5. QED
    BY <2>1, <2>2, <2>4 DEF PageOK
<1>2. PagesInv => SaidHasHappened
  BY <1>1 DEF PagesInv, PageOK, SaidHasHappened
<1>3. QED
  BY <1>2, PagesInvHolds, PTL

(***************************************************************************)
(* An action domain-ui offers for the status shown is refused by the       *)
(* service only when the order has moved on, or expired, since.            *)
(***************************************************************************)
THEOREM OffersAreAccepted == Spec => []OfferedUnlessStale
<1>1. ASSUME NEW c \in Call, ActionOf(c.op) \in availableOrderActions(c.seen),
             status[c.order] = c.seen, c.order \notin expired
      PROVE  Accepts(c)
  <2>1. c.op \in {"get", "pay", "cancel", "deposit", "pickup", "settle", "none"}
        /\ c.seen \in OrderStatus \cup {NoStatus}
    BY DEF Call, CallOps
  <2>2. CASE c.op \in {"get", "none"}
    BY <1>1, <2>1, <2>2 DEF ActionOf, availableOrderActions
  <2>3. CASE c.op \in {"pay", "cancel"}
    BY <1>1, <2>1, <2>3 DEF ActionOf, availableOrderActions, Accepts
  <2>4. CASE c.op = "deposit"
    BY <1>1, <2>1, <2>4 DEF ActionOf, availableOrderActions, Accepts
  <2>5. CASE c.op = "settle"
    BY <1>1, <2>1, <2>5 DEF ActionOf, availableOrderActions, Accepts
  <2>6. CASE c.op = "pickup"
    BY <1>1, <2>1, <2>6 DEF ActionOf, availableOrderActions, Accepts, NeedsMark
  <2>7. QED
    BY <2>1, <2>2, <2>3, <2>4, <2>5, <2>6
<1>2. PagesInv => OfferedUnlessStale
  BY <1>1, InvTypes DEF OfferedUnlessStale
<1>3. QED
  BY <1>2, PagesInvHolds, PTL

\* No transition takes the timeline back.
LEMMA IndexGrows ==
  ASSUME NEW from, NEW to, canTransition(from, to)
  PROVE  currentIndex(to) >= currentIndex(from)
BY DEF canTransition, allowedTransitions, OrderStatus, currentIndex

(***************************************************************************)
(* No step of the service, the pages or the network takes the timeline of  *)
(* an order back (status-timeline.tsx).                                    *)
(***************************************************************************)
THEOREM TimelineNeverBack == Spec => TimelineForward
<1> DEFINE A == \A o \in Orders : currentIndex(status'[o]) >= currentIndex(status[o])
<1>1. \A x : currentIndex(x) \in Nat
  BY DEF currentIndex
<1>2. /\ currentIndex("PENDING_PAYMENT") = 0
      /\ currentIndex("AWAITING_DEPOSIT") = 1
      /\ currentIndex(NoStatus) = 0
  BY DEF currentIndex, NoStatus
<1>3. ASSUME Server!TypeOK, Server!Next PROVE A
  <2>1. status \in [Orders -> OrderStatus \cup {NoStatus}]
    BY <1>3, SameLifecycle DEF Server!TypeOK
  <2>2. ASSUME NEW o \in Orders, NEW u, status' = [status EXCEPT ![o] = u],
               currentIndex(u) >= currentIndex(status[o])
        PROVE  A
    <3>1. ASSUME NEW p \in Orders PROVE currentIndex(status'[p]) >= currentIndex(status[p])
      BY <1>1, <2>1, <2>2
    <3>2. QED
      BY <3>1
  <2>3. ASSUME NEW o \in Orders, NEW c \in Cells, Server!Place(o, c) PROVE A
    <3>1. status[o] = NoStatus /\ status' = [status EXCEPT ![o] = "PENDING_PAYMENT"]
      BY <2>3, SameLifecycle DEF Server!Place
    <3>2. currentIndex("PENDING_PAYMENT") >= currentIndex(status[o])
      BY <1>2, <3>1
    <3>3. QED
      BY <2>2, <3>1, <3>2
  <2>4. ASSUME NEW o \in Orders, Server!Pay(o) PROVE A
    <3>1. status[o] = "PENDING_PAYMENT" /\ status' = [status EXCEPT ![o] = "AWAITING_DEPOSIT"]
      BY <2>4 DEF Server!Pay
    <3>2. currentIndex("AWAITING_DEPOSIT") >= currentIndex(status[o])
      BY <1>2, <3>1
    <3>3. QED
      BY <2>2, <3>1, <3>2
  <2>5. ASSUME NEW o \in Orders, NEW to, Server!Advance(o, to) PROVE A
    <3>1. canTransition(status[o], to) /\ status' = [status EXCEPT ![o] = to]
      BY <2>5, SameLifecycle DEF Server!Advance
    <3>2. currentIndex(to) >= currentIndex(status[o])
      BY <3>1, IndexGrows
    <3>3. QED
      BY <2>2, <3>1, <3>2
  <2>6. ASSUME NEW o \in Orders, NEW c \in Cells, NEW to, Server!Finish(o, c, to) PROVE A
    <3>1. canTransition(status[o], to) /\ status' = [status EXCEPT ![o] = to]
      BY <2>6, SameLifecycle DEF Server!Finish
    <3>2. currentIndex(to) >= currentIndex(status[o])
      BY <3>1, IndexGrows
    <3>3. QED
      BY <2>2, <3>1, <3>2
  <2>7. QED
    BY <1>3, <2>3, <2>4, <2>5, <2>6 DEF Server!Next
<1>4. PagesInv /\ [Next]_vars => [A]_status
  BY <1>3, InvTypes, StepIsContract
<1>5. QED
  BY <1>4, PagesInvHolds, PTL DEF Spec, TimelineForward
=============================================================================
