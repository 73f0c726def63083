----------------------------- MODULE OrderPages -----------------------------
(***************************************************************************)
(* The order pages of the mini program (frontend/apps/miniapp/src/pages)   *)
(* as a client of the order service: a stack of mounted pages, the HTTP    *)
(* calls they have outstanding, and the service itself, of which only the  *)
(* atomic contract proved of OrderService is used.                         *)
(*                                                                         *)
(* A call is sent by a page, served, and its reply delivered, each a step, *)
(* so replies arrive in any order.  A call can also be lost before or      *)
(* after it is served; the page then sees NETWORK_FAILURE.  A page that is *)
(* left is unmounted: replies still run their handler, which then has no   *)
(* page to change.                                                         *)
(***************************************************************************)
EXTENDS OrderViews, Sequences, FiniteSets

CONSTANTS Orders,    \* the ids orders can get, numbers given out in order
          NoOrder,   \* no order
          Cells,     \* the cells of the one site and size ordered, in order
          Slots,     \* bound: the calls outstanding at a time
          MaxDepth,  \* bound: the pages mounted at a time
          MaxLost    \* bound: the calls lost in a run

ASSUME OrderPagesAssumption ==
  /\ Orders \subseteq Nat \ {0}
  /\ NoOrder \notin Orders
  /\ Cells \subseteq Nat
  /\ Slots \subseteq Nat
  /\ MaxDepth \in Nat \ {0}
  /\ MaxLost \in Nat

VARIABLES status,   \* of the service: the status of each order
          holder,   \* of the service: the order each cell is bound to
          expired,  \* of the service: the orders whose rental has run out
          doors,    \* of the service: <<order, op>> for each door it opened
          stack,    \* the mounted pages, the visible one last
          calls,    \* the HTTP calls outstanding
          lost      \* the number of calls lost so far

server == <<status, holder, expired, doors>>
vars == <<server, stack, calls, lost>>

Server == INSTANCE OrderContract

PageKinds == {"detail", "payment", "store", "pickup", "overdue"}
CallOps   == {"get", "pay", "cancel", "deposit", "pickup", "settle"}

\* shown is the status in the OrderDto the page holds; busy is its paying,
\* cancelling or settling flag; phase is that of the door pages.
Page == [kind : PageKinds, order : Orders,
         load : {"loading", "success", "error"}, shown : OrderStatus \cup {NoStatus},
         busy : BOOLEAN, phase : {"idle", "opening", "opened", "failed"}]

\* page is the depth of the page the reply is for, 0 when it is unmounted;
\* seen the status it showed when it called; releases whether the handler
\* awaits this reload before it clears busy.  A request is "marking" between its
\* read of an expired order and MarkOverdue, and in "tx" between its door or its
\* lazy transition and its transaction; inTime is whether the rental had not run
\* out when it opened its door.  reply is the status replied, NoStatus for a
\* rejection.
Call == [pc : {"free", "sent", "marking", "tx", "served"}, page : 0..MaxDepth, op : CallOps \cup {"none"},
         order : Orders \cup {NoOrder}, seen : OrderStatus \cup {NoStatus},
         releases : BOOLEAN, inTime : BOOLEAN, reply : OrderStatus \cup {NoStatus}]

Free == [pc |-> "free", page |-> 0, op |-> "none", order |-> NoOrder,
         seen |-> NoStatus, releases |-> FALSE, inTime |-> FALSE, reply |-> NoStatus]

Init ==
  /\ Server!Init
  /\ expired = {}
  /\ doors = {}
  /\ stack = <<>>
  /\ calls = [s \in Slots |-> Free]
  /\ lost = 0

-----------------------------------------------------------------------------
\* Sending.

\* The slot the next call takes; none when Slots are all in use.
FreeSlot(s) == calls[s].pc = "free" /\ \A t \in Slots : t < s => calls[t].pc # "free"

Sent(i, op, o, seen) ==
  [Free EXCEPT !.pc = "sent", !.page = i, !.op = op, !.order = o, !.seen = seen]

\* The page at depth i becomes p and calls op.
Calls(i, p, op) ==
  \E s \in Slots :
    /\ FreeSlot(s)
    /\ calls' = [calls EXCEPT ![s] = Sent(i, op, p.order, p.shown)]
    /\ stack' = [stack EXCEPT ![i] = p]
    /\ UNCHANGED <<server, lost>>

Top == Len(stack)
Mounted == 1..Top

\* What a page renders: its content only with an order and nothing loading.
Rendered(p) == CASE p.load = "loading"                          -> "skeleton"
                 [] p.load = "error"                            -> "panel"
                 [] p.load = "success" /\ p.shown = NoStatus   -> "panel"
                 [] p.load = "success" /\ p.shown # NoStatus   -> "content"

-----------------------------------------------------------------------------
\* Navigation.

NewPage(kind, o) ==
  [kind |-> kind, order |-> o, load |-> "loading", shown |-> NoStatus,
   busy |-> FALSE, phase |-> "idle"]

\* navigateTo: the effect of the new page loads its order.
Open(kind, o) ==
  /\ Top < MaxDepth
  /\ \E s \in Slots :
       /\ FreeSlot(s)
       /\ calls' = [calls EXCEPT ![s] = Sent(Top + 1, "get", o, NoStatus)]
  /\ stack' = Append(stack, NewPage(kind, o))
  /\ UNCHANGED <<server, lost>>

\* From the home page or the order list, and from the confirmation of a new order.
OpenDetail(o) == stack = <<>> /\ status[o] # NoStatus /\ Open("detail", o)
OpenPayment(o) == stack = <<>> /\ status[o] # NoStatus /\ Open("payment", o)

\* The order detail leads to the page of each action its order offers, and an
\* opened door back to a detail.
FollowAction ==
  /\ stack # <<>>
  /\ LET p == stack[Top] IN
     /\ Rendered(p) = "content"
     /\ \/ /\ p.kind = "detail"
           /\ \E a \in availableOrderActions(p.shown) \ {"cancel"} :
                Open(orderActionRoute(a), p.order)
        \/ p.kind \in {"store", "pickup"} /\ p.phase = "opened" /\ Open("detail", p.order)

\* Faulty variant: the reply of a call finds whatever page is there by then.
Back_KeepsCalls ==
  /\ stack # <<>>
  /\ stack' = SubSeq(stack, 1, Top - 1)
  /\ UNCHANGED <<server, calls, lost>>

\* navigateBack unmounts the page; its calls go on without it.
Back ==
  /\ stack # <<>>
  /\ stack' = SubSeq(stack, 1, Top - 1)
  /\ calls' = [s \in Slots |-> IF calls[s].page = Top THEN [calls[s] EXCEPT !.page = 0]
                                                      ELSE calls[s]]
  /\ UNCHANGED <<server, lost>>

-----------------------------------------------------------------------------
\* The visible page: its button, and the retry of its network panel.

Shows(kind, what) == stack # <<>> /\ stack[Top].kind = kind /\ Rendered(stack[Top]) = what

Reloading(p) == [p EXCEPT !.load = "loading"]

RetryLoad ==
  /\ \E kind \in PageKinds : Shows(kind, "panel")
  /\ Calls(Top, Reloading(stack[Top]), "get")

simulatePayment ==
  /\ Shows("payment", "content")
  /\ stack[Top].shown = "PENDING_PAYMENT"
  /\ ~stack[Top].busy
  /\ Calls(Top, [stack[Top] EXCEPT !.busy = TRUE], "pay")

\* A button that is loading is disabled.
cancel ==
  /\ Shows("detail", "content")
  /\ "cancel" \in availableOrderActions(stack[Top].shown)
  /\ ~stack[Top].busy
  /\ Calls(Top, [stack[Top] EXCEPT !.busy = TRUE], "cancel")

settle ==
  /\ Shows("overdue", "content")
  /\ stack[Top].shown = "OVERDUE"
  /\ ~stack[Top].busy
  /\ Calls(Top, [stack[Top] EXCEPT !.busy = TRUE], "settle")

\* When the guard of a door has a button.
showSafety(p) == p.phase \in {"idle", "failed"}

\* Whatever the order's status is.  The guard has been acknowledged and, on the
\* pickup page, the number of the cell typed or scanned: what the user can
\* always do first, and only on this page, is not a step of its own.
open ==
  /\ \E kind \in {"store", "pickup"} : Shows(kind, "content")
  /\ showSafety(stack[Top])
  /\ Calls(Top, [stack[Top] EXCEPT !.phase = "opening"],
           IF stack[Top].kind = "store" THEN "deposit" ELSE "pickup")

\* Faulty variant: the interval runs only while the last load succeeded.
Poll_Succeeded(i) ==
  /\ stack[i].kind = "detail"
  /\ stack[i].load = "success"
  /\ ~isTerminal(stack[i].shown)
  /\ Calls(i, Reloading(stack[i]), "get")

\* setInterval of a mounted detail page that holds an order not terminal.
Poll(i) ==
  /\ stack[i].kind = "detail"
  /\ stack[i].shown # NoStatus
  /\ ~isTerminal(stack[i].shown)
  /\ Calls(i, Reloading(stack[i]), "get")

-----------------------------------------------------------------------------
\* The service.

RentalRunsOut(o) ==
  /\ status[o] = "IN_STORAGE"
  /\ o \notin expired
  /\ expired' = expired \cup {o}
  /\ UNCHANGED <<status, holder, doors, stack, calls, lost>>

\* An order is placed: by the confirmation page, which is not modelled here.
CreateOrder(o, c) == Server!Place(o, c) /\ UNCHANGED <<expired, doors, stack, calls, lost>>

Replies(s, reply) ==
  calls' = [calls EXCEPT ![s] = [@ EXCEPT !.pc = "served", !.seen = NoStatus,
                                          !.inTime = FALSE, !.reply = reply]]

GoesOn(s, pc, inTime) ==
  calls' = [calls EXCEPT ![s] = [@ EXCEPT !.pc = pc, !.seen = NoStatus, !.inTime = inTime]]

NeedsMark(o) == status[o] = "IN_STORAGE" /\ o \in expired

ServeGet(s) ==
  /\ calls[s].pc = "sent" /\ calls[s].op = "get"
  /\ ~NeedsMark(calls[s].order)
  /\ Replies(s, status[calls[s].order])
  /\ UNCHANGED <<server, stack, lost>>

\* applyLazyOverdue finds the order expired: the UPDATE is still to come.
FindOverdue(s) ==
  /\ calls[s].pc = "sent" /\ calls[s].op \in {"get", "settle"}
  /\ NeedsMark(calls[s].order)
  /\ GoesOn(s, "marking", FALSE)
  /\ UNCHANGED <<server, stack, lost>>

Marked(s, reply) ==
  IF calls[s].op = "get" THEN Replies(s, reply) ELSE GoesOn(s, "tx", FALSE)

\* The reply shows OVERDUE also when another request has moved the order on.
MarkOverdue(s) ==
  /\ calls[s].pc = "marking"
  /\ LET o == calls[s].order IN
     IF status[o] = "IN_STORAGE" THEN Server!Advance(o, "OVERDUE")
                                 ELSE UNCHANGED <<status, holder>>
  /\ Marked(s, "OVERDUE")
  /\ UNCHANGED <<expired, doors, stack, lost>>

\* Faulty variant: the reply shows OVERDUE although the UPDATE failed.
MarkOverdueFails_Shown(s) ==
  /\ calls[s].pc = "marking"
  /\ lost < MaxLost
  /\ lost' = lost + 1
  /\ Marked(s, "OVERDUE")
  /\ UNCHANGED <<server, stack>>

MarkOverdueFails(s) ==
  /\ calls[s].pc = "marking"
  /\ lost < MaxLost
  /\ lost' = lost + 1
  /\ Marked(s, "IN_STORAGE")
  /\ UNCHANGED <<server, stack>>

\* What the use case asks of the status it has read before it opens a door.
DoorTest(c) ==
  \/ c.op = "deposit" /\ status[c.order] = "AWAITING_DEPOSIT"
  \/ c.op = "pickup" /\ status[c.order] \in {"IN_STORAGE", "AWAITING_PICKUP"}

OpenDoor(s) ==
  /\ calls[s].pc = "sent"
  /\ DoorTest(calls[s])
  /\ doors' = doors \cup {<<calls[s].order, calls[s].op>>}
  /\ GoesOn(s, "tx", ~NeedsMark(calls[s].order))
  /\ UNCHANGED <<status, holder, expired, stack, lost>>

\* A request about to run its transaction, and what the transaction can accept.
\* transition reads the clock after the door and before it waits for the row
\* lock, so a rental that runs out in between may be judged either way.
AtTx(c) ==
  \/ c.pc = "tx"
  \/ c.pc = "sent" /\ c.op \in {"pay", "cancel"}
  \/ c.pc = "sent" /\ c.op = "settle" /\ ~NeedsMark(c.order)

Accepts(c) ==
  CASE c.op \in {"pay", "cancel"} -> status[c.order] = "PENDING_PAYMENT"
    [] c.op = "deposit"           -> status[c.order] = "AWAITING_DEPOSIT"
    [] c.op = "settle"            -> status[c.order] = "OVERDUE"
    [] c.op = "pickup"            -> \/ status[c.order] = "AWAITING_PICKUP"
                                     \/ /\ status[c.order] = "IN_STORAGE"
                                        /\ c.inTime \/ ~NeedsMark(c.order)
    [] OTHER                      -> FALSE

Commit(s) ==
  LET c == calls[s]  o == c.order IN
  /\ AtTx(c) /\ Accepts(c)
  /\ \/ c.op = "pay" /\ Server!Pay(o)
     \/ c.op = "deposit" /\ Server!Advance(o, "IN_STORAGE")
     \/ c.op = "settle" /\ Server!Advance(o, "AWAITING_PICKUP")
     \/ c.op = "cancel" /\ \E cell \in Cells : Server!Finish(o, cell, "CANCELLED")
     \/ c.op = "pickup" /\ \E cell \in Cells : Server!Finish(o, cell, "COMPLETED")
  /\ Replies(s, status'[o])
  /\ UNCHANGED <<expired, doors, stack, lost>>

\* The UPDATE of the pickup binds too few arguments and fails, its door open.
PickupUpdateFails(s) ==
  /\ calls[s].pc = "tx" /\ calls[s].op = "pickup"
  /\ Replies(s, NoStatus)
  /\ UNCHANGED <<server, stack, lost>>

\* A state conflict.
Refuse(s) ==
  /\ LET c == calls[s] IN
     \/ c.pc = "sent" /\ c.op \in {"deposit", "pickup"} /\ ~DoorTest(c)
     \/ AtTx(c) /\ ~Accepts(c)
     \/ c.pc = "tx" /\ c.op = "pickup" /\ NeedsMark(c.order)
  /\ Replies(s, NoStatus)
  /\ UNCHANGED <<server, stack, lost>>

\* The request does not arrive, the service fails, or its reply is lost.
Lose(s) ==
  /\ calls[s].pc # "free"
  /\ ~(calls[s].pc = "served" /\ calls[s].reply = NoStatus)
  /\ lost < MaxLost
  /\ lost' = lost + 1
  /\ Replies(s, NoStatus)
  /\ UNCHANGED <<server, stack>>

Serve(s) ==
  \/ ServeGet(s) \/ FindOverdue(s) \/ MarkOverdue(s)
  \/ OpenDoor(s) \/ Commit(s) \/ PickupUpdateFails(s) \/ Refuse(s)

-----------------------------------------------------------------------------
\* The reply.

\* Whether the handler of a reply goes on to reload the order.
Reloads(c) ==
  \/ c.op = "settle"
  \/ c.op \in {"cancel", "deposit", "pickup"} /\ c.reply # NoStatus

\* Faulty variant: a door whose call failed is shown as open.
Handled_DoorOpened(p, c) ==
  IF c.op \in {"deposit", "pickup"} THEN Reloading([p EXCEPT !.phase = "opened"])
  ELSE IF c.reply # NoStatus THEN [p EXCEPT !.shown = c.reply, !.load = "success"] ELSE p

\* Faulty variant: a payment clears its flag only when it has succeeded.
Handled_NoFinally(p, c) ==
  CASE c.op = "pay" /\ c.reply = NoStatus -> [p EXCEPT !.load = "error"]
    [] OTHER -> [p EXCEPT !.shown = c.reply, !.load = "success", !.busy = FALSE, !.phase = "idle"]

\* The page after the handler of a reply, up to its next await.
Handled(p, c) ==
  LET ok == c.reply # NoStatus IN
  CASE c.op = "get" /\ ok ->
         [p EXCEPT !.shown = c.reply, !.load = "success", !.busy = @ /\ ~c.releases]
    [] c.op = "get" /\ ~ok -> [p EXCEPT !.load = "error", !.busy = @ /\ ~c.releases]
    [] c.op = "pay" /\ ok -> [p EXCEPT !.shown = c.reply, !.busy = FALSE]
    [] c.op = "pay" /\ ~ok -> [p EXCEPT !.load = "error", !.busy = FALSE]
    [] c.op = "cancel" /\ ok -> Reloading(p)
    [] c.op = "cancel" /\ ~ok -> [p EXCEPT !.busy = FALSE]
    [] c.op = "settle" /\ ok -> Reloading(p)
    [] c.op = "settle" /\ ~ok -> Reloading([p EXCEPT !.busy = FALSE])
    [] c.op \in {"deposit", "pickup"} /\ ok -> Reloading([p EXCEPT !.phase = "opened"])
    [] c.op \in {"deposit", "pickup"} /\ ~ok -> [p EXCEPT !.phase = "failed"]

\* cancel and settle await the reload before they clear their flag.
Deliver(s) ==
  LET c == calls[s] IN
  /\ c.pc = "served"
  /\ stack' = IF c.page = 0 THEN stack ELSE [stack EXCEPT ![c.page] = Handled(@, c)]
  /\ calls' = [calls EXCEPT ![s] =
                 IF ~Reloads(c) THEN Free
                 ELSE [Sent(c.page, "get", c.order, NoStatus) EXCEPT
                         !.releases = c.op \in {"cancel", "settle"} /\ c.reply # NoStatus]]
  /\ UNCHANGED <<server, lost>>

-----------------------------------------------------------------------------

User ==
  \/ FollowAction \/ Back \/ RetryLoad \/ simulatePayment \/ cancel \/ settle \/ open
  \/ \E o \in Orders : OpenDetail(o) \/ OpenPayment(o)

Next ==
  \/ User
  \/ \E o \in Orders : RentalRunsOut(o) \/ \E c \in Cells : CreateOrder(o, c)
  \/ \E i \in Mounted : Poll(i)
  \/ \E s \in Slots : Serve(s) \/ Deliver(s) \/ MarkOverdueFails(s) \/ Lose(s)

Spec == Init /\ [][Next]_vars

\* The service answers, the runtime delivers, and an interval fires as long as
\* it is set, whether or not the slots of the model are free at the time.
FairSpec ==
  /\ Spec
  /\ \A s \in Slots : WF_vars(Serve(s)) /\ WF_vars(Deliver(s))
  /\ \A i \in 1..MaxDepth : SF_vars(i \in Mounted /\ Poll(i))

-----------------------------------------------------------------------------
\* Properties.

TypeOK ==
  /\ Server!TypeOK
  /\ expired \subseteq Orders
  /\ doors \subseteq Orders \X {"deposit", "pickup"}
  /\ stack \in Seq(Page) /\ Top <= MaxDepth
  /\ calls \in [Slots -> Call] /\ \A s \in Slots : calls[s].page <= Top
  /\ lost \in 0..MaxLost

(***************************************************************************)
(* A page never shows a status the order has not reached: what it shows    *)
(* may be behind, replies being late and out of order, but the order has   *)
(* been there or gone past it.  use-order.ts:33 has the state of the pages *)
(* come from the server alone.                                             *)
(***************************************************************************)
ShownNeverAhead ==
  \A i \in Mounted : stack[i].shown # NoStatus => status[stack[i].order] \in reachable[stack[i].shown]

(***************************************************************************)
(* What a page says has happened has: the door is open only where the      *)
(* service has opened the door of that order for that operation, whatever  *)
(* replies were lost, and the penalty is settled, which the overdue page   *)
(* says of every status but OVERDUE, only of an order that has been.       *)
(***************************************************************************)
SaidHasHappened ==
  \A i \in Mounted :
    LET page == stack[i] IN
    /\ page.phase = "opened" =>
         <<page.order, IF page.kind = "store" THEN "deposit" ELSE "pickup">> \in doors
    /\ page.kind = "overdue" /\ Rendered(page) = "content" /\ page.shown # "OVERDUE"
         => status[page.order] \in reachable["AWAITING_PICKUP"]

ActionOf(op) == CASE op = "pay"     -> "pay"
                  [] op = "cancel"  -> "cancel"
                  [] op = "deposit" -> "openDepositDoor"
                  [] op = "pickup"  -> "openPickupDoor"
                  [] op = "settle"  -> "settleOverdue"
                  [] OTHER          -> "none"

(***************************************************************************)
(* What domain-ui offers for a status and what the service accepts of it   *)
(* agree: an action offered for the status the page shows is refused only  *)
(* if the order has moved on, or has expired, since.                       *)
(***************************************************************************)
OfferedUnlessStale ==
  \A s \in Slots :
    LET c == calls[s] IN
    /\ c.pc = "sent"
    /\ ActionOf(c.op) \in availableOrderActions(c.seen)
    /\ status[c.order] = c.seen
    /\ c.order \notin expired
    => Accepts(c)

(***************************************************************************)
(* No change of an order's status takes its timeline a step back.          *)
(***************************************************************************)
TimelineForward ==
  [][\A o \in Orders : currentIndex(status'[o]) >= currentIndex(status[o])]_status

(***************************************************************************)
(* No page loads, works or opens a door for ever: each wait of a page ends *)
(* with a reply or an error, or the page is left.                          *)
(***************************************************************************)
PagesSettle ==
  \A i \in 1..MaxDepth :
    /\ []<>~(i \in Mounted /\ stack[i].load = "loading")
    /\ []<>~(i \in Mounted /\ stack[i].busy)
    /\ []<>~(i \in Mounted /\ stack[i].phase = "opening")

Behind(i) ==
  /\ i \in Mounted
  /\ stack[i].kind = "detail" /\ stack[i].shown # NoStatus
  /\ isTerminal(status[stack[i].order]) /\ ~isTerminal(stack[i].shown)

(***************************************************************************)
(* A detail page that has loaded an order comes to show that it has ended, *)
(* although a late reply may have put an older status back or a load may   *)
(* have failed: the polling outlives both.                                 *)
(***************************************************************************)
ShownCatchesUp == \A i \in 1..MaxDepth : []<>~Behind(i)
=============================================================================
