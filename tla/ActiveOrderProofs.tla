-------------------------- MODULE ActiveOrderProofs --------------------------
(***************************************************************************)
(* Proofs about ActiveOrder for any finite set of orders and any number of *)
(* calls outstanding, calls lost and times the app is killed.              *)
(***************************************************************************)
EXTENDS ActiveOrder, FiniteSetTheorems, TLAPS

-----------------------------------------------------------------------------
\* The inductive invariant.

\* A load is about an order, and only the app that runs has one; what it
\* replies stays true, since an order does not come back once it has ended.
CallOK(c, orders) ==
  /\ c.pc = "free" <=> c.op = "none"
  /\ c.op = "get" => c.for = "page" /\ c.order \in Orders
  /\ c.op = "get" /\ c.pc = "ok" /\ c.ended => orders[c.order] = "ended"
  /\ c.op = "create" /\ c.pc = "ok" => c.order \in Orders /\ orders[c.order] # "unused"

CallsOK == \A s \in Slots : CallOK(calls[s], placed)

\* The order followed has been placed: it cannot be placed a second time.
Followed == LatestIsFollowed /\ (latest # NoOrder => placed[latest] # "unused")

ForPage(c) == c.op = "create" /\ c.for = "page"
Made == Cardinality(confirm.made)

\* The confirmation page awaits one creation at a time.  While the service may
\* still serve it, and after it has failed, each order made is one whose reply
\* was lost.
Counted ==
  /\ \A s \in Slots : ForPage(calls[s]) =>
       /\ confirm.open /\ confirm.creating
       /\ calls[s].pc \in {"sent", "failed"} => Made <= lost
       /\ \A t \in Slots \ {s} : ~ForPage(calls[t])
  /\ ~confirm.open => confirm.made = {}
  /\ confirm.creating => confirm.load = "loading"
  /\ Made <= lost + 1
  /\ confirm.load = "error" => Made <= lost

ActiveInv == TypeOK /\ StoreIsStored /\ CallsOK /\ Followed /\ Counted

-----------------------------------------------------------------------------
\* Calls and pages.

LEMMA SentType ==
  ASSUME NEW op \in {"create", "get"}, NEW o \in Orders \cup {NoOrder}
  PROVE  /\ Sent(op, o) \in Call
         /\ Sent(op, o).op = op /\ Sent(op, o).pc = "sent" /\ Sent(op, o).for = "page"
         /\ Sent(op, o).order = o
BY DEF Sent, Call

LEMMA FreeType ==
  Free \in Call /\ Free.op = "none" /\ Free.pc = "free"
BY DEF Free, Sent, Call

LEMMA GoneTypes ==
  /\ HomeGone \in Home /\ ~HomeGone.mounted
  /\ ConfirmGone \in Confirm /\ ~ConfirmGone.open /\ ConfirmGone.made = {}
  /\ ConfirmGone.load = "loading" /\ ~ConfirmGone.creating
BY DEF HomeGone, Home, LoadState, ConfirmGone, Confirm

LEMMA FreeOK == ASSUME NEW orders PROVE CallOK(Free, orders) /\ ~ForPage(Free)
BY FreeType DEF CallOK, ForPage

LEMMA SentOK ==
  ASSUME NEW orders
  PROVE  /\ \A o \in Orders : CallOK(Sent("get", o), orders) /\ ~ForPage(Sent("get", o))
         /\ CallOK(Sent("create", NoOrder), orders) /\ ForPage(Sent("create", NoOrder))
BY SentType DEF CallOK, ForPage

LEMMA Types ==
  ASSUME TypeOK
  PROVE  /\ placed \in [Orders -> {"unused", "live", "ended"}]
         /\ storage \in Orders \cup {NoOrder} /\ memory \in Orders \cup {NoOrder}
         /\ home \in Home /\ confirm \in Confirm /\ calls \in [Slots -> Call]
         /\ \A s \in Slots : calls[s] \in Call
         /\ lost \in Nat /\ lost <= MaxLost /\ kills \in Nat /\ kills <= MaxKills
         /\ latest \in Orders \cup {NoOrder} /\ crossed \in BOOLEAN
BY ActiveOrderAssumption DEF TypeOK

\* An order goes on from unused to live to ended.
Onward(from, to) ==
  \A o \in Orders :
    /\ from[o] = "ended" => to[o] = "ended"
    /\ from[o] # "unused" => to[o] # "unused" /\ (to[o] = "live" => from[o] = "live")

LEMMA OnwardStays == ASSUME NEW f PROVE Onward(f, f)
BY DEF Onward

LEMMA CallStaysOK ==
  ASSUME NEW c, NEW from, NEW to, Onward(from, to), CallOK(c, from)
  PROVE  CallOK(c, to)
BY DEF CallOK, Onward

\* A step that changes one call.
LEMMA OneCall ==
  ASSUME TypeOK, CallsOK, Onward(placed, placed'), NEW s \in Slots, NEW c \in Call,
         calls' = [calls EXCEPT ![s] = c], CallOK(c, placed')
  PROVE  /\ calls' \in [Slots -> Call] /\ CallsOK'
         /\ \A t \in Slots : calls'[t] = IF t = s THEN c ELSE calls[t]
<1>1. \A t \in Slots : calls'[t] = IF t = s THEN c ELSE calls[t]
  BY Types
<1>2. ASSUME NEW t \in Slots PROVE CallOK(calls'[t], placed')
  BY <1>1, CallStaysOK DEF CallsOK
<1>3. QED
  BY <1>1, <1>2, Types DEF CallsOK

LEMMA SameCalls ==
  ASSUME CallsOK, Onward(placed, placed'), calls' = calls
  PROVE  CallsOK'
BY CallStaysOK DEF CallsOK

\* A step that neither hears of a new order nor touches the store.
LEMMA FollowedStays ==
  ASSUME TypeOK, Followed, Onward(placed, placed'), UNCHANGED <<storage, latest, crossed>>
  PROVE  Followed'
BY Types DEF Followed, LatestIsFollowed, Onward

LEMMA MadeType ==
  ASSUME TypeOK
  PROVE  IsFiniteSet(confirm.made) /\ Made \in Nat
<1>1. IsFiniteSet(confirm.made)
  BY Types, ActiveOrderAssumption, FS_Subset DEF Confirm
<1>2. QED
  BY <1>1, FS_CardinalityType DEF Made

\* A step that leaves the confirmation page and its calls as they are.
LEMMA CountedStays ==
  ASSUME TypeOK, Counted, confirm' = confirm, lost' \in Nat, lost <= lost',
         \A t \in Slots : ForPage(calls'[t]) =>
           /\ ForPage(calls[t])
           /\ calls'[t].pc \in {"sent", "failed"} =>
                calls[t].pc \in {"sent", "failed"} \/ Made <= lost'
  PROVE  Counted'
<1>1. Made \in Nat /\ Made' = Made
  BY MadeType DEF Made
<1>2. lost \in Nat
  BY Types
<1>3. ASSUME NEW s \in Slots, ForPage(calls'[s])
      PROVE  /\ confirm'.open /\ confirm'.creating
             /\ calls'[s].pc \in {"sent", "failed"} => Made' <= lost'
             /\ \A t \in Slots \ {s} : ~ForPage(calls'[t])
  BY <1>1, <1>2, <1>3 DEF Counted
<1>4. /\ ~confirm'.open => confirm'.made = {}
      /\ confirm'.creating => confirm'.load = "loading"
      /\ Made' <= lost' + 1
      /\ confirm'.load = "error" => Made' <= lost'
  BY <1>1, <1>2 DEF Counted
<1>5. QED
  BY <1>3, <1>4 DEF Counted

-----------------------------------------------------------------------------
\* The app.

LEMMA LaunchStep ==
  ASSUME ActiveInv, Launch
  PROVE  ActiveInv'
<1>1. /\ ~home.mounted /\ home' = [HomeGone EXCEPT !.mounted = TRUE] /\ memory' = storage
      /\ UNCHANGED <<placed, storage, confirm, lost, kills, latest, crossed>>
  BY DEF Launch, hydrate
<1>2. TypeOK /\ CallsOK /\ Counted /\ Followed
  BY DEF ActiveInv
<1>3. home' \in Home /\ home'.mounted
  BY <1>1, GoneTypes DEF Home
<1>4. Onward(placed, placed')
  BY <1>1, OnwardStays
<1>5. /\ calls' \in [Slots -> Call] /\ CallsOK'
      /\ \A t \in Slots : ForPage(calls'[t]) => calls'[t] = calls[t]
  <2>1. CASE calls' = calls
    BY <1>2, <1>4, <2>1, SameCalls, Types
  <2>2. CASE calls' # calls
    <3>1. PICK s \in Slots : calls' = [calls EXCEPT ![s] = Sent("get", storage)] /\ storage \in Orders
      BY <1>2, <2>2, Types DEF Launch
    <3>2. Sent("get", storage) \in Call /\ CallOK(Sent("get", storage), placed')
          /\ ~ForPage(Sent("get", storage))
      BY <3>1, SentType, SentOK
    <3>3. QED
      BY <1>2, <1>4, <3>1, <3>2, OneCall
  <2>3. QED
    BY <2>1, <2>2
<1>6. TypeOK'
  BY <1>1, <1>2, <1>3, <1>5 DEF TypeOK
<1>7. StoreIsStored'
  BY <1>1 DEF StoreIsStored
<1>8. Followed'
  BY <1>1, <1>2, <1>4, FollowedStays
<1>9. Counted'
  BY <1>1, <1>2, <1>5, CountedStays, Types
<1>10. QED
  BY <1>5, <1>6, <1>7, <1>8, <1>9 DEF ActiveInv

\* What is left of the app that is killed are creations the service may still
\* serve, and nobody hears of them.
LEMMA KillStep ==
  ASSUME ActiveInv, Kill
  PROVE  ActiveInv'
<1>1. /\ kills' \in 0..MaxKills
      /\ home' = HomeGone /\ confirm' = ConfirmGone /\ memory' = NoOrder
      /\ UNCHANGED <<placed, storage, lost, latest, crossed>>
  BY ActiveOrderAssumption DEF Kill, ActiveInv, TypeOK
<1>2. TypeOK /\ CallsOK /\ Counted /\ Followed
  BY DEF ActiveInv
<1>3. ASSUME NEW s \in Slots
      PROVE  /\ calls'[s] \in Call /\ CallOK(calls'[s], placed') /\ ~ForPage(calls'[s])
             /\ calls'[s].pc # "free" => calls'[s].for = "nobody"
  <2>1. calls'[s] = IF calls[s].op = "create" /\ calls[s].pc = "sent"
                    THEN [calls[s] EXCEPT !.for = "nobody"] ELSE Free
    BY DEF Kill
  <2>2. CASE calls[s].op = "create" /\ calls[s].pc = "sent"
    <3>1. calls[s] \in Call /\ CallOK(calls[s], placed)
      BY <1>2, Types DEF CallsOK
    <3>2. QED
      BY <1>1, <2>1, <2>2, <3>1 DEF Call, CallOK, ForPage
  <2>3. CASE ~(calls[s].op = "create" /\ calls[s].pc = "sent")
    BY <2>1, <2>3, FreeType, FreeOK
  <2>4. QED
    BY <2>2, <2>3
<1>4. calls' \in [Slots -> Call]
  BY <1>3 DEF Kill
<1>5. TypeOK'
  BY <1>1, <1>2, <1>3, <1>4, GoneTypes DEF TypeOK
<1>6. StoreIsStored'
  BY <1>1, GoneTypes DEF StoreIsStored
<1>7. Followed'
  BY <1>1, <1>2, OnwardStays, FollowedStays
<1>8. Made' = 0 /\ lost' \in Nat
  BY <1>1, <1>2, GoneTypes, FS_EmptySet, Types DEF Made
<1>9. Counted'
  BY <1>1, <1>3, <1>8, GoneTypes DEF Counted
<1>10. QED
  BY <1>3, <1>5, <1>6, <1>7, <1>9 DEF ActiveInv, CallsOK

\* While a creation is awaited the page cannot ask for another.
LEMMA CreateOrderStep ==
  ASSUME ActiveInv, createOrder
  PROVE  ActiveInv'
<1>1. /\ home.mounted /\ (confirm.open => confirm.load = "error" /\ ~confirm.creating)
      /\ confirm' = [open |-> TRUE, load |-> "loading", creating |-> TRUE, made |-> confirm.made]
      /\ UNCHANGED <<placed, storage, memory, home, lost, kills, latest, crossed>>
  BY DEF createOrder
<1>2. TypeOK /\ CallsOK /\ Counted /\ Followed /\ StoreIsStored
  BY DEF ActiveInv
<1> DEFINE c == Sent("create", NoOrder)
<1>3. PICK s \in Slots : calls' = [calls EXCEPT ![s] = c]
  BY DEF createOrder
<1>4. c \in Call /\ CallOK(c, placed') /\ c.pc = "sent" /\ c.for = "page"
  BY SentType, SentOK
<1> HIDE DEF c
<1>5. Onward(placed, placed')
  BY <1>1, OnwardStays
<1>6. /\ calls' \in [Slots -> Call] /\ CallsOK'
      /\ \A t \in Slots : calls'[t] = IF t = s THEN c ELSE calls[t]
  BY <1>2, <1>3, <1>4, <1>5, OneCall
<1>7. confirm' \in Confirm /\ confirm'.open /\ confirm'.creating /\ confirm'.load = "loading"
  BY <1>1, <1>2, Types DEF Confirm, LoadState
<1>8. TypeOK'
  BY <1>1, <1>2, <1>4, <1>6, <1>7 DEF TypeOK
<1>9. Followed' /\ StoreIsStored'
  BY <1>1, <1>2, <1>5, FollowedStays DEF StoreIsStored
<1>10. Counted'
  <2>1. Made' = Made /\ Made \in Nat /\ lost \in Nat /\ lost' = lost
    BY <1>1, <1>2, MadeType, Types DEF Made
  <2>2. Made <= lost
    <3>1. CASE confirm.open
      BY <1>1, <1>2, <3>1 DEF Counted
    <3>2. CASE ~confirm.open
      <4>1. confirm.made = {}
        BY <1>2, <3>2 DEF Counted
      <4>2. Made = 0
        BY <4>1, FS_EmptySet DEF Made
      <4>3. QED
        BY <2>1, <4>2
    <3>3. QED
      BY <3>1, <3>2
  <2>3. \A t \in Slots : ~ForPage(calls[t])
    BY <1>1, <1>2 DEF Counted
  <2>4. \A t \in Slots : ForPage(calls'[t]) => t = s
    BY <1>6, <2>3
  <2>5. QED
    BY <1>7, <2>1, <2>2, <2>4 DEF Counted
<1>11. QED
  BY <1>6, <1>8, <1>9, <1>10 DEF ActiveInv

LEMMA LeaveConfirmStep ==
  ASSUME ActiveInv, LeaveConfirm
  PROVE  ActiveInv'
<1>1. /\ confirm' = ConfirmGone
      /\ UNCHANGED <<placed, storage, memory, home, lost, kills, latest, crossed>>
  BY DEF LeaveConfirm
<1>2. TypeOK /\ CallsOK /\ Counted /\ Followed /\ StoreIsStored
  BY DEF ActiveInv
<1>3. ASSUME NEW s \in Slots
      PROVE  /\ calls'[s] \in Call /\ CallOK(calls'[s], placed') /\ ~ForPage(calls'[s])
             /\ calls'[s].pc = calls[s].pc
             /\ calls[s].for = "nobody" => calls'[s].for = "nobody"
  <2>1. calls'[s] = IF calls[s].op = "create" /\ calls[s].for = "page"
                    THEN [calls[s] EXCEPT !.for = "left"] ELSE calls[s]
    BY DEF LeaveConfirm
  <2>2. calls[s] \in Call /\ CallOK(calls[s], placed)
    BY <1>2, Types DEF CallsOK
  <2>3. CASE ForPage(calls[s])
    <3>1. calls'[s] = [calls[s] EXCEPT !.for = "left"]
      BY <2>1, <2>3 DEF ForPage
    <3>2. /\ calls'[s] \in Call /\ calls'[s].for = "left" /\ calls'[s].op = calls[s].op
          /\ calls'[s].pc = calls[s].pc /\ calls'[s].order = calls[s].order
          /\ calls'[s].ended = calls[s].ended
      BY <2>2, <3>1 DEF Call
    <3>3. QED
      BY <1>1, <2>2, <2>3, <3>2 DEF CallOK, ForPage
  <2>4. CASE ~ForPage(calls[s])
    BY <1>1, <2>1, <2>2, <2>4 DEF ForPage
  <2>5. QED
    BY <2>3, <2>4
<1>4. calls' \in [Slots -> Call]
  BY <1>3 DEF LeaveConfirm
<1>5. TypeOK'
  BY <1>1, <1>2, <1>3, <1>4, GoneTypes DEF TypeOK
<1>6. Followed' /\ StoreIsStored'
  BY <1>1, <1>2, OnwardStays, FollowedStays DEF StoreIsStored
<1>7. Made' = 0 /\ lost' \in Nat
  BY <1>1, <1>2, GoneTypes, FS_EmptySet, Types DEF Made
<1>8. Counted'
  BY <1>1, <1>3, <1>7, GoneTypes DEF Counted
<1>9. QED
  BY <1>3, <1>5, <1>6, <1>8 DEF ActiveInv, CallsOK

-----------------------------------------------------------------------------
\* The service and the network.

LEMMA ServeCreateStep ==
  ASSUME ActiveInv, NEW s \in Slots, ServeCreate(s)
  PROVE  ActiveInv'
<1>1. PICK o \in Orders :
        /\ placed[o] = "unused" /\ placed' = [placed EXCEPT ![o] = "live"]
        /\ calls' = [calls EXCEPT ![s] = [@ EXCEPT !.pc = "ok", !.order = o]]
        /\ confirm' = IF calls[s].for = "page" THEN [confirm EXCEPT !.made = @ \cup {o}]
                                               ELSE confirm
  BY DEF ServeCreate
<1>2. /\ calls[s].pc = "sent" /\ calls[s].op = "create"
      /\ UNCHANGED <<storage, memory, home, lost, kills, latest, crossed>>
  BY DEF ServeCreate
<1>3. TypeOK /\ CallsOK /\ Counted /\ Followed /\ StoreIsStored
  BY DEF ActiveInv
<1>4. /\ placed' \in [Orders -> {"unused", "live", "ended"}] /\ placed'[o] = "live"
      /\ Onward(placed, placed')
  BY <1>1, <1>3, Types DEF Onward
<1> DEFINE c == [calls[s] EXCEPT !.pc = "ok", !.order = o]
<1>5. /\ c \in Call /\ c.pc = "ok" /\ c.order = o /\ c.op = "create" /\ c.for = calls[s].for
      /\ calls' = [calls EXCEPT ![s] = c]
  BY <1>1, <1>2, <1>3, Types DEF Call
<1> HIDE DEF c
<1>6. CallOK(c, placed')
  BY <1>4, <1>5 DEF CallOK
<1>7. /\ calls' \in [Slots -> Call] /\ CallsOK'
      /\ \A t \in Slots : calls'[t] = IF t = s THEN c ELSE calls[t]
  BY <1>3, <1>4, <1>5, <1>6, OneCall
<1>8. /\ confirm' \in Confirm /\ confirm'.open = confirm.open
      /\ confirm'.creating = confirm.creating /\ confirm'.load = confirm.load
      /\ confirm'.made = IF calls[s].for = "page" THEN confirm.made \cup {o} ELSE confirm.made
  BY <1>1, <1>3, Types DEF Confirm
<1>9. TypeOK'
  BY <1>2, <1>3, <1>4, <1>5, <1>7, <1>8 DEF TypeOK
<1>10. Followed' /\ StoreIsStored'
  BY <1>2, <1>3, <1>4, FollowedStays DEF StoreIsStored
<1>11. Counted'
  <2>1. lost \in Nat /\ lost' = lost /\ Made \in Nat /\ IsFiniteSet(confirm.made)
    BY <1>2, <1>3, MadeType, Types
  <2>2. \A t \in Slots : ForPage(calls'[t]) <=> ForPage(calls[t])
    BY <1>2, <1>5, <1>7 DEF ForPage
  <2>3. CASE calls[s].for = "page"
    <3>1. ForPage(calls[s])
      BY <1>2, <2>3 DEF ForPage
    <3>2. /\ confirm.open /\ confirm.creating /\ Made <= lost
          /\ \A t \in Slots \ {s} : ~ForPage(calls[t])
      BY <1>2, <1>3, <3>1 DEF Counted
    <3>3. Made' \in Nat /\ Made' <= Made + 1
      <4>1. /\ IsFiniteSet(confirm.made \cup {o})
            /\ Cardinality(confirm.made \cup {o}) =
                 IF o \in confirm.made THEN Cardinality(confirm.made) ELSE Cardinality(confirm.made) + 1
        BY <2>1, FS_AddElement
      <4>2. Made' = Cardinality(confirm.made \cup {o})
        BY <1>8, <2>3 DEF Made
      <4>3. QED
        BY <2>1, <4>1, <4>2 DEF Made
    <3>4. confirm.load # "error"
      BY <1>3, <3>2 DEF Counted
    <3>5. \A t \in Slots : ForPage(calls'[t]) => t = s
      BY <2>2, <3>2
    <3>6. Made' <= lost' + 1
      BY <2>1, <3>2, <3>3
    <3>7. confirm'.creating => confirm'.load = "loading"
      BY <1>3, <1>8 DEF Counted
    <3>8. QED
      BY <1>5, <1>7, <1>8, <3>2, <3>4, <3>5, <3>6, <3>7 DEF Counted
  <2>4. CASE calls[s].for # "page"
    <3>1. confirm' = confirm
      BY <1>1, <2>4
    <3>2. \A t \in Slots : ForPage(calls'[t]) => calls'[t] = calls[t]
      BY <1>5, <1>7, <2>4 DEF ForPage
    <3>3. QED
      BY <1>3, <2>1, <3>1, <3>2, CountedStays
  <2>5. QED
    BY <2>3, <2>4
<1>12. QED
  BY <1>7, <1>9, <1>10, <1>11 DEF ActiveInv

\* A call is served, refused, lost or left unheard: neither page, nor the store,
\* nor an order changes.
LEMMA CallOnlyStep ==
  ASSUME ActiveInv, NEW s \in Slots, NEW c \in Call, calls' = [calls EXCEPT ![s] = c],
         UNCHANGED <<placed, storage, memory, home, confirm, kills, latest, crossed>>,
         lost' \in 0..MaxLost, lost <= lost', CallOK(c, placed),
         c.pc # "free" => c.for = calls[s].for /\ calls[s].pc # "free",
         ForPage(c) =>
           /\ ForPage(calls[s])
           /\ c.pc = "failed" => calls[s].pc = "sent" \/ Made <= lost'
           /\ c.pc # "sent"
  PROVE  ActiveInv'
<1>1. TypeOK /\ CallsOK /\ Counted /\ Followed /\ StoreIsStored
  BY DEF ActiveInv
<1>2. Onward(placed, placed') /\ CallOK(c, placed')
  BY OnwardStays
<1>3. /\ calls' \in [Slots -> Call] /\ CallsOK'
      /\ \A t \in Slots : calls'[t] = IF t = s THEN c ELSE calls[t]
  BY <1>1, <1>2, OneCall
<1>4. TypeOK'
  BY <1>1, <1>3 DEF TypeOK
<1>5. Followed' /\ StoreIsStored'
  BY <1>1, <1>2, FollowedStays DEF StoreIsStored
<1>6. lost' \in Nat
  BY ActiveOrderAssumption
<1>7. Counted'
  BY <1>1, <1>3, <1>6, CountedStays
<1>8. QED
  BY <1>3, <1>4, <1>5, <1>7 DEF ActiveInv

LEMMA ServeGetStep ==
  ASSUME ActiveInv, NEW s \in Slots, ServeGet(s)
  PROVE  ActiveInv'
<1> DEFINE b == placed[calls[s].order] = "ended"
           c == [calls[s] EXCEPT !.pc = "ok", !.ended = b]
<1>1. /\ calls[s].pc = "sent" /\ calls[s].op = "get" /\ calls' = [calls EXCEPT ![s] = c]
      /\ UNCHANGED <<placed, storage, memory, home, confirm, lost, kills, latest, crossed>>
  BY DEF ServeGet
<1>2. calls[s] \in Call /\ CallOK(calls[s], placed) /\ lost \in 0..MaxLost /\ lost <= lost
  BY Types DEF ActiveInv, TypeOK, CallsOK
<1>3. b \in BOOLEAN /\ (b => placed[calls[s].order] = "ended")
  OBVIOUS
<1> HIDE DEF b
<1>4. /\ c \in Call /\ c.pc = "ok" /\ c.op = "get" /\ c.for = calls[s].for
      /\ c.order = calls[s].order /\ c.ended = b
  BY <1>1, <1>2, <1>3 DEF Call
<1> HIDE DEF c
<1>5. CallOK(c, placed) /\ ~ForPage(c)
  BY <1>1, <1>2, <1>3, <1>4 DEF CallOK, ForPage
<1>6. QED
  BY <1>1, <1>2, <1>4, <1>5, CallOnlyStep

\* Of a creation refused there is no order; of one lost there may be.
LEMMA FailedStep ==
  ASSUME ActiveInv, NEW s \in Slots, Refuse(s) \/ Lose(s)
  PROVE  ActiveInv'
<1> DEFINE c == [calls[s] EXCEPT !.pc = "failed"]
<1>1. /\ calls[s].pc \in {"sent", "ok"} /\ calls' = [calls EXCEPT ![s] = c]
      /\ UNCHANGED <<placed, storage, memory, home, confirm, kills, latest, crossed>>
      /\ \/ lost' = lost /\ calls[s].pc = "sent"
         \/ lost < MaxLost /\ lost' = lost + 1
  BY DEF Refuse, Lose
<1>2. calls[s] \in Call /\ CallOK(calls[s], placed) /\ lost \in Nat /\ lost <= MaxLost
  BY Types DEF ActiveInv, CallsOK
<1>3. lost' \in 0..MaxLost /\ lost <= lost'
  BY <1>1, <1>2, ActiveOrderAssumption
<1>4. /\ c \in Call /\ c.pc = "failed" /\ c.op = calls[s].op /\ c.for = calls[s].for
      /\ c.order = calls[s].order
  BY <1>2 DEF Call
<1> HIDE DEF c
<1>5. CallOK(c, placed) /\ (ForPage(c) => ForPage(calls[s]))
  BY <1>1, <1>2, <1>4 DEF CallOK, ForPage
<1>6. calls[s].pc = "sent" \/ Made <= lost'
  BY <1>1 DEF ActiveInv, Counted
<1>7. QED
  BY <1>1, <1>3, <1>4, <1>5, <1>6, CallOnlyStep

LEMMA UnheardStep ==
  ASSUME ActiveInv, NEW s \in Slots, Unheard(s)
  PROVE  ActiveInv'
<1>1. /\ calls' = [calls EXCEPT ![s] = Free] /\ lost' = lost
      /\ UNCHANGED <<placed, storage, memory, home, confirm, kills, latest, crossed>>
  BY DEF Unheard
<1>2. lost \in 0..MaxLost /\ lost <= lost
  BY Types DEF ActiveInv, TypeOK
<1>3. QED
  BY <1>1, <1>2, FreeType, FreeOK, CallOnlyStep

LEMMA OrderEndsStep ==
  ASSUME ActiveInv, NEW o \in Orders, OrderEnds(o)
  PROVE  ActiveInv'
<1>1. /\ placed[o] = "live" /\ placed' = [placed EXCEPT ![o] = "ended"]
      /\ UNCHANGED <<storage, memory, home, confirm, calls, lost, kills, latest, crossed>>
  BY DEF OrderEnds
<1>2. TypeOK /\ CallsOK /\ Counted /\ Followed /\ StoreIsStored
  BY DEF ActiveInv
<1>3. placed' \in [Orders -> {"unused", "live", "ended"}] /\ Onward(placed, placed')
  BY <1>1, <1>2, Types DEF Onward
<1>4. TypeOK' /\ StoreIsStored'
  BY <1>1, <1>2, <1>3 DEF TypeOK, StoreIsStored
<1>5. CallsOK' /\ Followed'
  BY <1>1, <1>2, <1>3, SameCalls, FollowedStays
<1>6. Counted'
  BY <1>1, <1>2, CountedStays, Types
<1>7. QED
  BY <1>4, <1>5, <1>6 DEF ActiveInv

-----------------------------------------------------------------------------
\* The replies.

\* Only the app that runs hears of one.
LEMMA Heard ==
  ASSUME ActiveInv, NEW s \in Slots, calls[s].pc # "free", calls[s].for # "nobody"
  PROVE  home.mounted /\ memory = storage
BY DEF ActiveInv, TypeOK, StoreIsStored

\* The only creation of the page has been answered.
LEMMA Answered ==
  ASSUME ActiveInv, NEW s \in Slots, NEW c \in Call, ~ForPage(c), calls' = [calls EXCEPT ![s] = c],
         calls[s].op = "create", calls[s].pc # "free", calls[s].for # "nobody", lost' = lost,
         NEW load \in {"success", "error"}, load = "error" => calls[s].pc = "failed",
         confirm' = IF calls[s].for = "page"
                    THEN [confirm EXCEPT !.load = load, !.creating = FALSE] ELSE confirm
  PROVE  confirm' \in Confirm /\ Counted'
<1>1. TypeOK /\ Counted /\ calls \in [Slots -> Call] /\ confirm \in Confirm
  BY Types DEF ActiveInv
<1>2. lost \in Nat /\ Made \in Nat
  BY <1>1, MadeType, Types
<1>3. \A t \in Slots : ForPage(calls'[t]) => t # s /\ calls'[t] = calls[t]
  BY <1>1
<1>4. CASE calls[s].for = "page"
  <2>1. /\ confirm' \in Confirm /\ confirm'.open = confirm.open /\ ~confirm'.creating
        /\ confirm'.load = load /\ confirm'.made = confirm.made
    BY <1>1, <1>4 DEF Confirm, LoadState
  <2>2. ForPage(calls[s])
    BY <1>4 DEF ForPage
  <2>3. \A t \in Slots : ~ForPage(calls'[t])
    BY <1>1, <1>3, <2>2 DEF Counted
  <2>4. Made' = Made
    BY <2>1 DEF Made
  <2>5. load = "error" => Made <= lost
    BY <1>1, <2>2 DEF Counted
  <2>6. (~confirm.open => confirm.made = {}) /\ Made <= lost + 1
    BY <1>1 DEF Counted
  <2>7. QED
    BY <2>1, <2>3, <2>4, <2>5, <2>6 DEF Counted
<1>5. CASE calls[s].for # "page"
  <2>1. confirm' = confirm
    BY <1>5
  <2>2. QED
    BY <1>1, <1>2, <1>3, <2>1, CountedStays
<1>6. QED
  BY <1>4, <1>5

\* The order just placed is followed from then on.
LEMMA DeliverCreateStep ==
  ASSUME ActiveInv, NEW s \in Slots, DeliverCreate(s)
  PROVE  ActiveInv'
<1> DEFINE o == calls[s].order
           follows == home.mounted /\ o # memory
           c == IF follows THEN Sent("get", o) ELSE Free
<1>1. /\ calls[s].op = "create" /\ calls[s].pc = "ok" /\ calls[s].for # "nobody"
      /\ storage' = o /\ memory' = o /\ latest' = o
      /\ home' = IF follows THEN [home EXCEPT !.load = "loading"] ELSE home
      /\ calls' = [calls EXCEPT ![s] = c]
      /\ confirm' = IF calls[s].for = "page"
                    THEN [confirm EXCEPT !.load = "success", !.creating = FALSE] ELSE confirm
      /\ UNCHANGED <<placed, lost, kills, crossed>>
  BY DEF DeliverCreate, setActiveOrder
<1>2. TypeOK /\ CallsOK /\ Counted
  BY DEF ActiveInv
<1>3. o \in Orders /\ placed[o] # "unused"
  BY <1>1, <1>2 DEF CallsOK, CallOK
<1>4. /\ c \in Call /\ CallOK(c, placed') /\ ~ForPage(c)
      /\ Onward(placed, placed')
  BY <1>1, <1>3, SentType, SentOK, FreeType, FreeOK, OnwardStays
<1>5. home' \in Home /\ home'.mounted
  BY <1>1, <1>2, Heard, Types DEF Home, LoadState
<1> HIDE DEF c, follows
<1>6. /\ calls' \in [Slots -> Call] /\ CallsOK'
  BY <1>1, <1>2, <1>4, OneCall
<1>7. confirm' \in Confirm /\ Counted'
  BY <1>1, <1>4, Answered
<1>8. TypeOK'
  BY <1>1, <1>2, <1>3, <1>5, <1>6, <1>7 DEF TypeOK
<1>9. StoreIsStored'
  BY <1>1 DEF StoreIsStored
<1>10. Followed'
  BY <1>1, <1>3 DEF Followed, LatestIsFollowed
<1>11. QED
  BY <1>6, <1>7, <1>8, <1>9, <1>10 DEF ActiveInv

LEMMA CreateFailsStep ==
  ASSUME ActiveInv, NEW s \in Slots, CreateFails(s)
  PROVE  ActiveInv'
<1>1. /\ calls[s].op = "create" /\ calls[s].pc = "failed" /\ calls[s].for # "nobody"
      /\ confirm' = IF calls[s].for = "page"
                    THEN [confirm EXCEPT !.load = "error", !.creating = FALSE] ELSE confirm
      /\ calls' = [calls EXCEPT ![s] = Free]
      /\ UNCHANGED <<placed, storage, memory, home, lost, kills, latest, crossed>>
  BY DEF CreateFails
<1>2. TypeOK /\ CallsOK /\ Followed /\ StoreIsStored
  BY DEF ActiveInv
<1>3. Onward(placed, placed') /\ Free \in Call /\ CallOK(Free, placed') /\ ~ForPage(Free)
      /\ Free.pc = "free"
  BY <1>1, OnwardStays, FreeType, FreeOK
<1>4. /\ calls' \in [Slots -> Call] /\ CallsOK'
      /\ \A t \in Slots : calls'[t] = IF t = s THEN Free ELSE calls[t]
  BY <1>1, <1>2, <1>3, OneCall
<1>5. confirm' \in Confirm /\ Counted'
  BY <1>1, <1>3, Answered
<1>6. TypeOK'
  BY <1>1, <1>2, <1>3, <1>4, <1>5 DEF TypeOK
<1>7. Followed' /\ StoreIsStored'
  BY <1>1, <1>2, <1>3, FollowedStays DEF StoreIsStored
<1>8. QED
  BY <1>4, <1>5, <1>6, <1>7 DEF ActiveInv

\* A reply that an order has ended drops the order followed: it is that one, or
\* another has been crossed, which the ghost records.
LEMMA DeliverGetStep ==
  ASSUME ActiveInv, NEW s \in Slots, DeliverGet(s)
  PROVE  ActiveInv'
<1> DEFINE c == calls[s]
<1>1. /\ c.op = "get" /\ c.pc = "ok"
      /\ home' = [home EXCEPT !.load = "success", !.order = c.order, !.ended = c.ended]
      /\ IF c.ended THEN storage' = NoOrder /\ memory' = NoOrder
                    ELSE UNCHANGED <<storage, memory>>
      /\ crossed' = (crossed \/ (c.ended /\ memory \notin {c.order, NoOrder}))
      /\ calls' = [calls EXCEPT ![s] = Free]
      /\ UNCHANGED <<placed, confirm, lost, kills, latest>>
  BY DEF DeliverGet, clearActiveOrder
<1>2. TypeOK /\ CallsOK /\ Counted /\ Followed /\ StoreIsStored
  BY DEF ActiveInv
<1>3. /\ c \in Call /\ c.for = "page" /\ c.order \in Orders
      /\ c.ended => placed[c.order] = "ended"
  BY <1>1, <1>2, Types DEF CallsOK, CallOK
<1>4. home.mounted /\ memory = storage
  BY <1>1, <1>3, Heard
<1>5. home' \in Home /\ home'.mounted
  BY <1>1, <1>2, <1>3, <1>4, Types DEF Home, LoadState, Call
<1>6. Onward(placed, placed') /\ Free \in Call /\ CallOK(Free, placed') /\ ~ForPage(Free)
  BY <1>1, OnwardStays, FreeType, FreeOK
<1>7. /\ calls' \in [Slots -> Call] /\ CallsOK'
      /\ \A t \in Slots : calls'[t] = IF t = s THEN Free ELSE calls[t]
  BY <1>1, <1>2, <1>6, OneCall
<1>8. crossed' \in BOOLEAN /\ (crossed => crossed')
  BY <1>1, <1>2, Types
<1>9. /\ storage' \in Orders \cup {NoOrder} /\ memory' \in Orders \cup {NoOrder}
      /\ storage' = memory'
  BY <1>1, <1>2, <1>4, Types
<1>10. TypeOK' /\ StoreIsStored'
  BY <1>1, <1>2, <1>5, <1>7, <1>8, <1>9 DEF TypeOK, StoreIsStored
<1>11. Followed'
  <2>1. ASSUME latest # NoOrder, ~crossed', placed[latest] = "live" PROVE storage' = latest
    <3>1. storage = latest
      BY <1>2, <1>8, <2>1 DEF Followed, LatestIsFollowed
    <3>2. ~c.ended
      BY <1>1, <1>3, <1>4, <2>1, <3>1
    <3>3. QED
      BY <1>1, <3>1, <3>2
  <2>2. QED
    BY <1>1, <1>2, <2>1 DEF Followed, LatestIsFollowed
<1>12. Counted'
  BY <1>1, <1>2, <1>6, <1>7, CountedStays, Types
<1>13. QED
  BY <1>7, <1>10, <1>11, <1>12 DEF ActiveInv

LEMMA GetFailsStep ==
  ASSUME ActiveInv, NEW s \in Slots, GetFails(s)
  PROVE  ActiveInv'
<1>1. /\ home' = [home EXCEPT !.load = "error"] /\ calls' = [calls EXCEPT ![s] = Free]
      /\ UNCHANGED <<placed, storage, memory, confirm, lost, kills, latest, crossed>>
  BY DEF GetFails
<1>2. TypeOK /\ CallsOK /\ Counted /\ Followed /\ StoreIsStored
  BY DEF ActiveInv
<1>3. home' \in Home /\ home'.mounted = home.mounted
  BY <1>1, <1>2, Types DEF Home, LoadState
<1>4. Onward(placed, placed') /\ Free \in Call /\ CallOK(Free, placed') /\ ~ForPage(Free)
      /\ Free.pc = "free"
  BY <1>1, OnwardStays, FreeType, FreeOK
<1>5. /\ calls' \in [Slots -> Call] /\ CallsOK'
      /\ \A t \in Slots : calls'[t] = IF t = s THEN Free ELSE calls[t]
  BY <1>1, <1>2, <1>4, OneCall
<1>6. TypeOK' /\ StoreIsStored'
  BY <1>1, <1>2, <1>3, <1>4, <1>5 DEF TypeOK, StoreIsStored
<1>7. Followed'
  BY <1>1, <1>2, <1>4, FollowedStays
<1>8. Counted'
  BY <1>1, <1>2, <1>4, <1>5, CountedStays, Types
<1>9. QED
  BY <1>5, <1>6, <1>7, <1>8 DEF ActiveInv

-----------------------------------------------------------------------------

LEMMA ActiveInvInit == Init => ActiveInv
<1> SUFFICES ASSUME Init PROVE ActiveInv
  OBVIOUS
<1>1. TypeOK
  <2>1. calls \in [Slots -> Call] /\ \A s \in Slots : calls[s].pc = "free"
    BY FreeType DEF Init
  <2>2. lost \in 0..MaxLost /\ kills \in 0..MaxKills
    BY ActiveOrderAssumption DEF Init
  <2>3. home \in Home /\ confirm \in Confirm
    BY GoneTypes DEF Init
  <2>4. QED
    BY <2>1, <2>2, <2>3 DEF Init, TypeOK
<1>2. StoreIsStored /\ Followed /\ CallsOK
  BY FreeOK DEF Init, StoreIsStored, Followed, LatestIsFollowed, CallsOK
<1>3. Made = 0
  BY GoneTypes, FS_EmptySet DEF Init, Made
<1>4. Counted
  BY <1>3, GoneTypes, FreeOK DEF Init, Counted
<1>5. QED
  BY <1>1, <1>2, <1>4 DEF ActiveInv

LEMMA ActiveInvStep ==
  ASSUME ActiveInv, [Next]_vars
  PROVE  ActiveInv'
<1>1. CASE Launch \/ Kill \/ createOrder \/ LeaveConfirm
  BY <1>1, LaunchStep, KillStep, CreateOrderStep, LeaveConfirmStep
<1>2. ASSUME NEW s \in Slots, Serve(s) PROVE ActiveInv'
  BY <1>2, ServeCreateStep, ServeGetStep, FailedStep DEF Serve
<1>3. ASSUME NEW s \in Slots, Lose(s) PROVE ActiveInv'
  BY <1>3, FailedStep
<1>4. ASSUME NEW s \in Slots, Deliver(s) PROVE ActiveInv'
  BY <1>4, DeliverCreateStep, CreateFailsStep, DeliverGetStep, GetFailsStep, UnheardStep DEF Deliver
<1>5. ASSUME NEW o \in Orders, OrderEnds(o) PROVE ActiveInv'
  BY <1>5, OrderEndsStep
<1>6. CASE UNCHANGED vars
  BY <1>6 DEF vars, ActiveInv, TypeOK, StoreIsStored, CallsOK, Followed, LatestIsFollowed,
              Counted, Made
<1>7. QED
  BY <1>1, <1>2, <1>3, <1>4, <1>5, <1>6 DEF Next

LEMMA ActiveInvHolds == Spec => []ActiveInv
BY ActiveInvInit, ActiveInvStep, PTL DEF Spec

(***************************************************************************)
(* Types; in particular no call outlives the app but a creation nobody     *)
(* hears of.                                                               *)
(***************************************************************************)
THEOREM Typing == Spec => []TypeOK
<1>1. ActiveInv => TypeOK
  BY DEF ActiveInv
<1>2. QED
  BY <1>1, ActiveInvHolds, PTL

(***************************************************************************)
(* While the app runs active-order-store.ts holds in memory what it has    *)
(* stored, wherever it is killed next.                                     *)
(***************************************************************************)
THEOREM KilledAppComesBack == Spec => []StoreIsStored
<1>1. ActiveInv => StoreIsStored
  BY DEF ActiveInv
<1>2. QED
  BY <1>1, ActiveInvHolds, PTL

(***************************************************************************)
(* The order of the latest creation the user has been told of is followed  *)
(* until it ends, unless a late reply about an ended one crosses it.       *)
(***************************************************************************)
THEOREM LatestStaysActive == Spec => []LatestIsFollowed
<1>1. ActiveInv => LatestIsFollowed
  BY DEF ActiveInv, Followed
<1>2. QED
  BY <1>1, ActiveInvHolds, PTL

(***************************************************************************)
(* The confirmation page places one order more than replies were lost at   *)
(* most, and where it shows an error no more than were lost.               *)
(***************************************************************************)
THEOREM OrdersAreAsTold == Spec => []PlacedAsTold
<1>1. ASSUME ActiveInv PROVE PlacedAsTold
  BY <1>1 DEF ActiveInv, Counted, Made, PlacedAsTold
<1>2. QED
  BY <1>1, ActiveInvHolds, PTL
=============================================================================
