---------------------------- MODULE OrderStates ----------------------------
(***************************************************************************)
(* The order lifecycle of internal/order/biz/model.go: the statuses, the   *)
(* table of allowed transitions and the legality test.  The Go table is    *)
(* data nobody reads at run time: the repository hand-codes each           *)
(* transition in SQL, and OrderService is checked against this table       *)
(* through OrderContract.                                                  *)
(***************************************************************************)

OrderStatus == {"PENDING_PAYMENT", "PAID", "AWAITING_DEPOSIT", "IN_STORAGE",
                "AWAITING_PICKUP", "OVERDUE", "COMPLETED", "CANCELLED"}

\* The "from" status of the log row a new order gets; also an unused order id.
NoStatus == ""

allowedTransitions ==
  [s \in OrderStatus |->
     CASE s = "PENDING_PAYMENT"  -> {"PAID", "CANCELLED"}
       [] s = "PAID"             -> {"AWAITING_DEPOSIT"}
       [] s = "AWAITING_DEPOSIT" -> {"IN_STORAGE"}
       [] s = "IN_STORAGE"       -> {"OVERDUE", "COMPLETED"}
       [] s = "OVERDUE"          -> {"AWAITING_PICKUP"}
       [] s = "AWAITING_PICKUP"  -> {"COMPLETED"}
       [] s \in {"COMPLETED", "CANCELLED"} -> {}]

canTransition(from, to) == from \in OrderStatus /\ to \in allowedTransitions[from]

\* Statuses no transition leaves, and those in which an order keeps its cell.
Terminal == {s \in OrderStatus : allowedTransitions[s] = {}}
Live     == OrderStatus \ Terminal
=============================================================================
