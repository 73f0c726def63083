--------------------------- MODULE OrderContract ---------------------------
(***************************************************************************)
(* What internal/order/biz promises of orders and cells, with every        *)
(* operation one atomic step: the contract of the Repository interface     *)
(* over the lifecycle of OrderStates.  An order takes a free cell when it  *)
(* is placed, keeps it while it moves along allowed transitions, and gives *)
(* back that very cell in the step that ends it.                           *)
(***************************************************************************)
EXTENDS OrderStates

CONSTANTS Orders, NoOrder, Cells

VARIABLES status,  \* the status of each order, NoStatus before it is placed
          holder   \* the order each cell is bound to

vars == <<status, holder>>

Init ==
  /\ status = [o \in Orders |-> NoStatus]
  /\ holder = [c \in Cells |-> NoOrder]

Place(o, c) ==
  /\ status[o] = NoStatus
  /\ holder[c] = NoOrder
  /\ status' = [status EXCEPT ![o] = "PENDING_PAYMENT"]
  /\ holder' = [holder EXCEPT ![c] = o]

\* The one operation that makes two transitions at once.
Pay(o) ==
  /\ status[o] = "PENDING_PAYMENT"
  /\ canTransition("PENDING_PAYMENT", "PAID")
  /\ canTransition("PAID", "AWAITING_DEPOSIT")
  /\ status' = [status EXCEPT ![o] = "AWAITING_DEPOSIT"]
  /\ UNCHANGED holder

Advance(o, to) ==
  /\ canTransition(status[o], to)
  /\ to \in Live \ {"PAID"}
  /\ status' = [status EXCEPT ![o] = to]
  /\ UNCHANGED holder

Finish(o, c, to) ==
  /\ canTransition(status[o], to)
  /\ to \in Terminal
  /\ holder[c] = o
  /\ status' = [status EXCEPT ![o] = to]
  /\ holder' = [holder EXCEPT ![c] = NoOrder]

Next ==
  \E o \in Orders :
    \/ \E c \in Cells : Place(o, c)
    \/ Pay(o)
    \/ \E to \in OrderStatus :
         \/ Advance(o, to)
         \/ \E c \in Cells : Finish(o, c, to)

Spec == Init /\ [][Next]_vars

-----------------------------------------------------------------------------

TypeOK ==
  /\ status \in [Orders -> OrderStatus \cup {NoStatus}]
  /\ holder \in [Cells -> Orders \cup {NoOrder}]

HeldBy(o) == {c \in Cells : holder[c] = o}

(***************************************************************************)
(* A live order holds exactly one cell, and an order that has ended or was *)
(* never placed holds none: no cell leaks and none is allocated twice.     *)
(***************************************************************************)
OneCellPerLiveOrder ==
  \A o \in Orders : IF status[o] \in Live THEN \E c \in Cells : HeldBy(o) = {c}
                                          ELSE HeldBy(o) = {}
=============================================================================
