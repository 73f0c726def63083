---------------------------- MODULE ActiveOrder ----------------------------
(***************************************************************************)
(* The order the home page of the mini program follows: the confirmation   *)
(* page that places it, active-order-store that keeps its id in memory and *)
(* in storage, and the card of the home page that loads it and drops it    *)
(* once it has ended.                                                      *)
(*                                                                         *)
(* The app can be killed at any time: its memory, its pages and the calls  *)
(* it waits for are gone, the storage and what the service did are not.    *)
(* Of an order only its being live or ended matters here.                  *)
(***************************************************************************)
EXTENDS Naturals, FiniteSets

CONSTANTS Orders,   \* the ids orders can get
          NoOrder,  \* no order, undefined
          Slots,    \* bound: the calls outstanding at a time
          MaxLost,  \* bound: the calls lost in a run
          MaxKills  \* bound: the times the app is killed

ASSUME ActiveOrderAssumption ==
  /\ NoOrder \notin Orders
  /\ IsFiniteSet(Orders)
  /\ Slots \subseteq Nat /\ MaxLost \in Nat /\ MaxKills \in Nat

VARIABLES placed,   \* of the service: each order's being unused, live or ended
          storage,  \* what is stored under spl.activeOrderId
          memory,   \* activeOrderId of the store
          home,     \* the card of the home page
          confirm,  \* the confirmation page
          calls,    \* the HTTP calls outstanding
          lost, kills,
          latest,   \* ghost: the order of the latest reply to createOrder
          crossed   \* ghost: the home page has dropped its order on a reply
                    \* about another one

vars == <<placed, storage, memory, home, confirm, calls, lost, kills, latest, crossed>>

LoadState == {"loading", "success", "error"}

\* order and ended are the OrderDto the card holds.
Home == [mounted : BOOLEAN, load : LoadState, order : Orders \cup {NoOrder}, ended : BOOLEAN]
HomeGone == [mounted |-> FALSE, load |-> "loading", order |-> NoOrder, ended |-> FALSE]

\* made is what the service has created for the page.
Confirm == [open : BOOLEAN, load : LoadState, creating : BOOLEAN, made : SUBSET Orders]
ConfirmGone == [open |-> FALSE, load |-> "loading", creating |-> FALSE, made |-> {}]

\* for: the page that called is there, has been left, in which case the handler
\* of the reply runs without it, or is gone with the app it ran in.
Call == [op : {"none", "create", "get"}, pc : {"free", "sent", "ok", "failed"},
         for : {"page", "left", "nobody"}, order : Orders \cup {NoOrder}, ended : BOOLEAN]
Sent(op, o) == [op |-> op, pc |-> "sent", for |-> "page", order |-> o, ended |-> FALSE]
Free == [Sent("none", NoOrder) EXCEPT !.pc = "free"]

Init ==
  /\ placed = [o \in Orders |-> "unused"]
  /\ storage = NoOrder
  /\ memory = NoOrder
  /\ home = HomeGone
  /\ confirm = ConfirmGone
  /\ calls = [s \in Slots |-> Free]
  /\ lost = 0
  /\ kills = 0
  /\ latest = NoOrder
  /\ crossed = FALSE

-----------------------------------------------------------------------------
\* The slot the next call takes; none when Slots are all in use.
FreeSlot(s) == calls[s].pc = "free" /\ \A t \in Slots : t < s => calls[t].pc # "free"

\* The store.

hydrate == memory' = storage

setActiveOrder(o) == storage' = o /\ memory' = o

\* Faulty variant: the stored id outlives the one in memory.
clearActiveOrder_KeepsStorage == memory' = NoOrder /\ UNCHANGED storage

clearActiveOrder == storage' = NoOrder /\ memory' = NoOrder

-----------------------------------------------------------------------------
\* The app.

\* The home page mounts: hydrate, and the effect that loads what it finds.
Launch ==
  /\ ~home.mounted
  /\ home' = [HomeGone EXCEPT !.mounted = TRUE]
  /\ hydrate
  /\ IF storage = NoOrder THEN UNCHANGED calls
     ELSE \E s \in Slots : FreeSlot(s) /\ calls' = [calls EXCEPT ![s] = Sent("get", storage)]
  /\ UNCHANGED <<placed, storage, confirm, lost, kills, latest, crossed>>

\* Faulty variant: a call in flight survives the app that made it.
Kill_KeepsCalls ==
  /\ home.mounted
  /\ kills < MaxKills
  /\ kills' = kills + 1
  /\ home' = HomeGone
  /\ confirm' = ConfirmGone
  /\ memory' = NoOrder
  /\ UNCHANGED <<placed, storage, calls, lost, latest, crossed>>

\* A creation on its way may still be served, and its reply finds nobody.
Kill ==
  /\ home.mounted
  /\ kills < MaxKills
  /\ kills' = kills + 1
  /\ home' = HomeGone
  /\ confirm' = ConfirmGone
  /\ memory' = NoOrder
  /\ calls' = [s \in Slots |-> IF calls[s].op = "create" /\ calls[s].pc = "sent"
                               THEN [calls[s] EXCEPT !.for = "nobody"] ELSE Free]
  /\ UNCHANGED <<placed, storage, lost, latest, crossed>>

\* The effect of the page's first render, and the retry of its panel.
createOrder ==
  /\ home.mounted
  /\ confirm.open => confirm.load = "error" /\ ~confirm.creating
  /\ confirm' = [open |-> TRUE, load |-> "loading", creating |-> TRUE, made |-> confirm.made]
  /\ \E s \in Slots : FreeSlot(s) /\ calls' = [calls EXCEPT ![s] = Sent("create", NoOrder)]
  /\ UNCHANGED <<placed, storage, memory, home, lost, kills, latest, crossed>>

LeaveConfirm ==
  /\ confirm.open
  /\ confirm' = ConfirmGone
  /\ calls' = [s \in Slots |-> IF calls[s].op = "create" /\ calls[s].for = "page"
                               THEN [calls[s] EXCEPT !.for = "left"] ELSE calls[s]]
  /\ UNCHANGED <<placed, storage, memory, home, lost, kills, latest, crossed>>

-----------------------------------------------------------------------------
\* The service.

ServeCreate(s) ==
  /\ calls[s].pc = "sent" /\ calls[s].op = "create"
  /\ \E o \in Orders :
       /\ placed[o] = "unused"
       /\ placed' = [placed EXCEPT ![o] = "live"]
       /\ calls' = [calls EXCEPT ![s] = [@ EXCEPT !.pc = "ok", !.order = o]]
       /\ confirm' = IF calls[s].for = "page" THEN [confirm EXCEPT !.made = @ \cup {o}]
                                              ELSE confirm
  /\ UNCHANGED <<storage, memory, home, lost, kills, latest, crossed>>

ServeGet(s) ==
  /\ calls[s].pc = "sent" /\ calls[s].op = "get"
  /\ calls' = [calls EXCEPT ![s] = [@ EXCEPT !.pc = "ok",
                           !.ended = (placed[calls[s].order] = "ended")]]
  /\ UNCHANGED <<placed, storage, memory, home, confirm, lost, kills, latest, crossed>>

\* There is no free cell, or no order id left to the model.
Refuse(s) ==
  /\ calls[s].pc = "sent" /\ calls[s].op = "create"
  /\ calls' = [calls EXCEPT ![s].pc = "failed"]
  /\ UNCHANGED <<placed, storage, memory, home, confirm, lost, kills, latest, crossed>>

\* The request or the reply is lost, before or after the service has acted.
Lose(s) ==
  /\ calls[s].pc \in {"sent", "ok"}
  /\ lost < MaxLost
  /\ lost' = lost + 1
  /\ calls' = [calls EXCEPT ![s].pc = "failed"]
  /\ UNCHANGED <<placed, storage, memory, home, confirm, kills, latest, crossed>>

\* On another page, or by another client.
OrderEnds(o) ==
  /\ placed[o] = "live"
  /\ placed' = [placed EXCEPT ![o] = "ended"]
  /\ UNCHANGED <<storage, memory, home, confirm, calls, lost, kills, latest, crossed>>

-----------------------------------------------------------------------------
\* The replies.

\* Faulty variant: the effect of the page depends on the active order, and a
\* creation that changes it creates again.
DeliverCreate_Again(s) ==
  LET c == calls[s] IN
  /\ c.op = "create" /\ c.pc = "ok" /\ c.for = "page"
  /\ setActiveOrder(c.order)
  /\ calls' = [calls EXCEPT ![s] = Sent("create", NoOrder)]
  /\ latest' = c.order
  /\ UNCHANGED <<placed, home, confirm, lost, kills, crossed>>

\* setActiveOrder runs although the page has been left, and the home page
\* loads the order that has become the active one.
DeliverCreate(s) ==
  LET c == calls[s]  follows == home.mounted /\ c.order # memory IN
  /\ c.op = "create" /\ c.pc = "ok" /\ c.for # "nobody"
  /\ setActiveOrder(c.order)
  /\ confirm' = IF c.for = "page"
                THEN [confirm EXCEPT !.load = "success", !.creating = FALSE] ELSE confirm
  /\ home' = IF follows THEN [home EXCEPT !.load = "loading"] ELSE home
  /\ calls' = [calls EXCEPT ![s] = IF follows THEN Sent("get", c.order) ELSE Free]
  /\ latest' = c.order
  /\ UNCHANGED <<placed, lost, kills, crossed>>

CreateFails(s) ==
  LET c == calls[s] IN
  /\ c.op = "create" /\ c.pc = "failed" /\ c.for # "nobody"
  /\ confirm' = IF c.for = "page"
                THEN [confirm EXCEPT !.load = "error", !.creating = FALSE] ELSE confirm
  /\ calls' = [calls EXCEPT ![s] = Free]
  /\ UNCHANGED <<placed, storage, memory, home, lost, kills, latest, crossed>>

\* Faulty variant: whatever order the card shows is dropped.
DeliverGet_DropsAll(s) ==
  LET c == calls[s] IN
  /\ c.op = "get" /\ c.pc = "ok"
  /\ home' = [home EXCEPT !.load = "success", !.order = c.order, !.ended = c.ended]
  /\ clearActiveOrder
  /\ calls' = [calls EXCEPT ![s] = Free]
  /\ UNCHANGED <<placed, confirm, lost, kills, latest, crossed>>

\* setOrder, and the effect that drops the active order if this one has ended.
DeliverGet(s) ==
  LET c == calls[s] IN
  /\ c.op = "get" /\ c.pc = "ok"
  /\ home' = [home EXCEPT !.load = "success", !.order = c.order, !.ended = c.ended]
  /\ IF c.ended THEN clearActiveOrder ELSE UNCHANGED <<storage, memory>>
  /\ crossed' = (crossed \/ (c.ended /\ memory \notin {c.order, NoOrder}))
  /\ calls' = [calls EXCEPT ![s] = Free]
  /\ UNCHANGED <<placed, confirm, lost, kills, latest>>

\* Faulty variant: the error is not caught.
GetFails_Uncaught(s) ==
  /\ calls[s].op = "get" /\ calls[s].pc = "failed"
  /\ calls' = [calls EXCEPT ![s] = Free]
  /\ UNCHANGED <<placed, storage, memory, home, confirm, lost, kills, latest, crossed>>

GetFails(s) ==
  /\ calls[s].op = "get" /\ calls[s].pc = "failed"
  /\ home' = [home EXCEPT !.load = "error"]
  /\ calls' = [calls EXCEPT ![s] = Free]
  /\ UNCHANGED <<placed, storage, memory, confirm, lost, kills, latest, crossed>>

\* A reply to an app that has been killed.
Unheard(s) ==
  /\ calls[s].for = "nobody" /\ calls[s].pc \in {"ok", "failed"}
  /\ calls' = [calls EXCEPT ![s] = Free]
  /\ UNCHANGED <<placed, storage, memory, home, confirm, lost, kills, latest, crossed>>

-----------------------------------------------------------------------------

Serve(s) == ServeCreate(s) \/ ServeGet(s) \/ Refuse(s)
Deliver(s) ==
  DeliverCreate(s) \/ CreateFails(s) \/ DeliverGet(s) \/ GetFails(s) \/ Unheard(s)

Next ==
  \/ Launch \/ Kill \/ createOrder \/ LeaveConfirm
  \/ \E s \in Slots : Serve(s) \/ Lose(s) \/ Deliver(s)
  \/ \E o \in Orders : OrderEnds(o)

Spec == Init /\ [][Next]_vars

\* The service answers and the runtime delivers; users may do nothing.
FairSpec == Spec /\ \A s \in Slots : WF_vars(Serve(s)) /\ WF_vars(Deliver(s))

-----------------------------------------------------------------------------
\* Properties.

TypeOK ==
  /\ placed \in [Orders -> {"unused", "live", "ended"}]
  /\ storage \in Orders \cup {NoOrder} /\ memory \in Orders \cup {NoOrder}
  /\ home \in Home /\ confirm \in Confirm
  /\ calls \in [Slots -> Call]
  /\ \A s \in Slots : calls[s].pc # "free" /\ ~home.mounted => calls[s].for = "nobody"
  /\ lost \in 0..MaxLost /\ kills \in 0..MaxKills
  /\ latest \in Orders \cup {NoOrder} /\ crossed \in BOOLEAN

(***************************************************************************)
(* While the app runs, store and storage hold the same id, so that an app  *)
(* that is killed at any point comes back to the order it was following.   *)
(***************************************************************************)
StoreIsStored == home.mounted => memory = storage

(***************************************************************************)
(* The confirmation page orders as often as it tells: once, and not at all *)
(* when it shows that nothing has been changed, but for one order for each *)
(* reply lost: createOrder carries no key the service could know a retry   *)
(* by.                                                                     *)
(***************************************************************************)
PlacedAsTold ==
  confirm.open => Cardinality(confirm.made) <= IF confirm.load = "error" THEN lost ELSE lost + 1

(***************************************************************************)
(* The order the user was last told of is followed until it ends, through  *)
(* restarts, pages left early and lost replies: the home page forgets a    *)
(* live order only when the late reply about an older one, ended by then,  *)
(* crosses it.                                                             *)
(***************************************************************************)
LatestIsFollowed ==
  latest # NoOrder /\ ~crossed /\ placed[latest] = "live" => storage = latest

\* The home page shows the skeleton of the order it follows.
HomeSkeleton ==
  home.mounted /\ memory # NoOrder /\ (home.load = "loading" \/ home.order = NoOrder)

(***************************************************************************)
(* A skeleton gives way to what is loaded or, on the confirmation page, to *)
(* the panel of the error, but for one: when a call about the first order  *)
(* a home page follows is lost, the page has no order to show, does not    *)
(* show the error and does not ask again, and may keep its skeleton for    *)
(* ever.                                                                   *)
(***************************************************************************)
PagesLoad ==
  /\ []<>(HomeSkeleton => home.load = "error" /\ home.order = NoOrder /\ lost > 0)
  /\ []<>~(confirm.open /\ confirm.load = "loading")
=============================================================================
