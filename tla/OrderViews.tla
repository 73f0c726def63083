----------------------------- MODULE OrderViews -----------------------------
(***************************************************************************)
(* What the mini program derives from the status of an order:              *)
(* packages/domain-ui/src/order.ts, the routes of features/orders and the  *)
(* status timeline.  NoStatus stands for an order not loaded yet.          *)
(***************************************************************************)
EXTENDS OrderStates, Naturals

OrderActions == {"pay", "cancel", "openDepositDoor", "openPickupDoor", "settleOverdue"}

\* Faulty variant: a paid order that awaits its deposit can be cancelled.
availableOrderActions_CancelPaid(s) ==
  CASE s = "PENDING_PAYMENT"                   -> {"pay", "cancel"}
    [] s = "AWAITING_DEPOSIT"                  -> {"openDepositDoor", "cancel"}
    [] s \in {"IN_STORAGE", "AWAITING_PICKUP"} -> {"openPickupDoor"}
    [] s = "OVERDUE"                           -> {"settleOverdue"}
    [] OTHER                                   -> {}

\* contactSupport, offered always, calls nothing and is left out.
availableOrderActions(s) ==
  CASE s = "PENDING_PAYMENT"                   -> {"pay", "cancel"}
    [] s = "AWAITING_DEPOSIT"                  -> {"openDepositDoor"}
    [] s \in {"IN_STORAGE", "AWAITING_PICKUP"} -> {"openPickupDoor"}
    [] s = "OVERDUE"                           -> {"settleOverdue"}
    [] OTHER                                   -> {}

\* The page an action leads to; cancel is handled where it is offered.
orderActionRoute(a) ==
  CASE a = "pay"             -> "payment"
    [] a = "openDepositDoor" -> "store"
    [] a = "openPickupDoor"  -> "pickup"
    [] a = "settleOverdue"   -> "overdue"
    [] OTHER                 -> "none"

\* The statuses in which a page stops polling and the active order is dropped.
isTerminal(s) == s \in {"COMPLETED", "CANCELLED"}

\* Faulty variant: an overdue order is not treated apart.
currentIndex_NoOverdue(s) ==
  CASE s \in {"PAID", "AWAITING_DEPOSIT"} -> 1
    [] s = "IN_STORAGE"                   -> 2
    [] s = "AWAITING_PICKUP"              -> 3
    [] s = "COMPLETED"                    -> 4
    [] s = "CANCELLED"                    -> 5
    [] OTHER                              -> 0

\* The step of the timeline an order has got to; 5 stands for the single
\* terminal step a cancelled order collapses to.
currentIndex(s) ==
  CASE s \in {"PAID", "AWAITING_DEPOSIT"}   -> 1
    [] s \in {"IN_STORAGE", "OVERDUE"}      -> 2
    [] s = "AWAITING_PICKUP"                -> 3
    [] s = "COMPLETED"                      -> 4
    [] s = "CANCELLED"                      -> 5
    [] OTHER                                -> 0

\* The sets of statuses that no transition leads out of.
ClosedSets == {S \in SUBSET OrderStatus : \A s \in S : allowedTransitions[s] \subseteq S}

\* The statuses an order can get to from status s, s included: the least such
\* set it is in.
reachable ==
  [s \in OrderStatus |-> {t \in OrderStatus : \A S \in ClosedSets : s \in S => t \in S}]
=============================================================================
