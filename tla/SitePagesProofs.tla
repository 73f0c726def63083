-------------------------- MODULE SitePagesProofs ---------------------------
(***************************************************************************)
(* Proofs about the pages that look for a site, for any cities, places and *)
(* bound on the calls outstanding.                                         *)
(***************************************************************************)
EXTENDS SitePages, TLAPS

-----------------------------------------------------------------------------
\* The invariant.

\* Lists are asked for, sites shown and the cities opened only once the place
\* is known.
PlaceFirst ==
  place = None => /\ top # "location"
                  /\ \A p \in Tabs : tab[p].status # "success" /\ Awaited("list", p) = {}

\* A list that has not been overtaken is of the city and the place of the store,
\* on its way and where it is shown.
ListsAreCurrent ==
  \A p \in Tabs : ~overtaken[p] =>
    /\ \A k \in Awaited("list", p) : <<k.city, k.place>> = store
    /\ tab[p].status = "success" => <<tab[p].city, tab[p].place>> = store

\* A tab positions itself once, behind its skeleton.
LocatesOnce ==
  /\ \A j, k \in BagToSet(calls) :
       j.kind = "locate" /\ k.kind = "locate" /\ j.page = k.page => j = k /\ calls[j] = 1
  /\ place = None => \A p \in Tabs : Awaited("locate", p) # {} => tab[p].status = "loading"

\* Only tabs that were positioning at once can still be when the place is known,
\* and tell of it.
RacesAreSeen ==
  /\ Awaited("locate", "home") # {} /\ Awaited("locate", "sites") # {} => raced
  /\ place # None => \A p \in Tabs :
       Awaited("locate", p) # {} \/ tab[p].code = "location" => raced
  /\ \A p \in Tabs : tab[p].code = "location" => tab[p].status = "error"

SitesInv ==
  TypeOK /\ LoadingHasCause /\ PlaceFirst /\ ListsAreCurrent /\ LocatesOnce /\ RacesAreSeen

-----------------------------------------------------------------------------
\* The calls a step settles and asks for.

\* A call in flight stays unless it settles; one that was in flight once is
\* settled by settling.
LEMMA AskEffect ==
  ASSUME IsABag(calls), NEW settled, settled \subseteq BagToSet(calls), NEW asked, Ask(settled, asked)
  PROVE  /\ IsABag(calls')
         /\ BagToSet(calls') \subseteq BagToSet(calls) \cup asked
         /\ asked \subseteq BagToSet(calls')
         /\ BagToSet(calls) \ settled \subseteq BagToSet(calls')
         /\ \A k \in settled \ asked : calls[k] = 1 => k \notin BagToSet(calls')
         /\ \A k \in BagToSet(calls') \ asked : calls[k] = 1 => calls'[k] = 1
         /\ \A k \in asked \ BagToSet(calls) : calls'[k] = 1
<1> DEFINE left == calls (-) SetToBag(settled)
<1>1. calls \in [BagToSet(calls) -> {n \in Nat : n > 0}]
  BY DEF IsABag, BagToSet
<1>2. /\ left \in [BagToSet(left) -> {n \in Nat : n > 0}]
      /\ BagToSet(left) \subseteq BagToSet(calls)
      /\ BagToSet(calls) \ settled \subseteq BagToSet(left)
      /\ \A k \in settled : calls[k] = 1 => k \notin BagToSet(left)
      /\ \A k \in BagToSet(left) : left[k] <= calls[k]
  BY <1>1 DEF (-), SetToBag, BagToSet
<1>3. calls' = left (+) SetToBag(asked)
  BY DEF Ask
<1> HIDE DEF left
<1>4. /\ BagToSet(calls') = BagToSet(left) \cup asked
      /\ calls' \in [BagToSet(calls') -> {n \in Nat : n > 0}]
      /\ \A k \in BagToSet(left) \ asked : calls'[k] = left[k]
      /\ \A k \in asked \ BagToSet(left) : calls'[k] = 1
  BY <1>2, <1>3 DEF (+), SetToBag, BagToSet
<1>5. \A k \in BagToSet(calls') \ asked : calls[k] = 1 => calls'[k] = 1
  BY <1>1, <1>2, <1>4
<1>6. QED
  BY <1>2, <1>4, <1>5 DEF IsABag, BagToSet

\* A step that asks for nothing leaves no call that was not there.
LEMMA SettleEffect ==
  ASSUME IsABag(calls), NEW settled, settled \subseteq BagToSet(calls), Ask(settled, {})
  PROVE  /\ IsABag(calls')
         /\ BagToSet(calls') \subseteq BagToSet(calls)
         /\ BagToSet(calls) \ settled \subseteq BagToSet(calls')
         /\ \A k \in settled : calls[k] = 1 => k \notin BagToSet(calls')
         /\ \A k \in BagToSet(calls') : calls[k] = 1 => calls'[k] = 1
<1> DEFINE asked == {}
<1>1. Ask(settled, asked)
  OBVIOUS
<1> HIDE DEF asked
<1>2. /\ IsABag(calls')
      /\ BagToSet(calls') \subseteq BagToSet(calls) \cup asked
      /\ BagToSet(calls) \ settled \subseteq BagToSet(calls')
      /\ \A k \in settled \ asked : calls[k] = 1 => k \notin BagToSet(calls')
      /\ \A k \in BagToSet(calls') \ asked : calls[k] = 1 => calls'[k] = 1
  BY <1>1, AskEffect
<1>3. QED
  BY <1>2 DEF asked

\* A step that asks for one call and settles none.
LEMMA AskOneEffect ==
  ASSUME IsABag(calls), NEW call, Ask({}, {call})
  PROVE  /\ IsABag(calls')
         /\ BagToSet(calls') = BagToSet(calls) \cup {call}
         /\ \A k \in BagToSet(calls') \ {call} : calls[k] = 1 => calls'[k] = 1
         /\ call \notin BagToSet(calls) => calls'[call] = 1
<1> DEFINE settled == {}
           asked == {call}
<1>1. Ask(settled, asked) /\ settled \subseteq BagToSet(calls)
  OBVIOUS
<1> HIDE DEF settled, asked
<1>2. /\ IsABag(calls')
      /\ BagToSet(calls') \subseteq BagToSet(calls) \cup asked
      /\ asked \subseteq BagToSet(calls')
      /\ BagToSet(calls) \ settled \subseteq BagToSet(calls')
      /\ \A k \in BagToSet(calls') \ asked : calls[k] = 1 => calls'[k] = 1
      /\ \A k \in asked \ BagToSet(calls) : calls'[k] = 1
  BY <1>1, AskEffect
<1>3. QED
  BY <1>2 DEF settled, asked

-----------------------------------------------------------------------------
\* Each action keeps the invariant.

\* The page in front changes, or what the pages other than the tabs show.
LEMMA QuietStep ==
  ASSUME SitesInv, UNCHANGED <<store, tab, calls, ghosts>>,
         top' \in Tabs \cup {"location", "detail"}, below' \in Mounted,
         place = None => top' # "location",
         cities' \in {"none", "asked", "shown"}, detail' \in Detail
  PROVE  SitesInv'
<1>1. UNCHANGED <<city, place, tab, calls, overtaken, raced>>
  BY DEF store, ghosts
<1>2. TypeOK'
  BY <1>1 DEF SitesInv, TypeOK, Mounted
<1>3. \A kind, p : Awaited(kind, p)' = Awaited(kind, p)
  BY <1>1 DEF Awaited
<1>4. LoadingHasCause' /\ RacesAreSeen'
  BY <1>1, <1>3 DEF SitesInv, LoadingHasCause, RacesAreSeen
<1>5. PlaceFirst' /\ ListsAreCurrent' /\ LocatesOnce'
  BY <1>1, <1>3 DEF SitesInv, PlaceFirst, ListsAreCurrent, LocatesOnce, store
<1>6. QED
  BY <1>2, <1>4, <1>5 DEF SitesInv

\* A tab is mounted or tries again.
LEMMA StartStep ==
  ASSUME SitesInv, NEW p \in Tabs, tab[p].status # "loading", Start(p), UNCHANGED store,
         top' \in Tabs \cup {"detail"} \/ top' = top, below' \in Mounted \cup {p},
         cities' \in {"none", "asked", "shown"}, detail' \in Detail
  PROVE  SitesInv'
<1> DEFINE call == IF place = None THEN LocateCall(p) ELSE ListCall(p, city, place)
<1>1. /\ TypeOK
      /\ UNCHANGED <<city, place>>
      /\ tab' = [tab EXCEPT ![p] = Loading]
      /\ IsABag(calls) /\ Ask({}, {call})
  BY DEF SitesInv, TypeOK, Start, store
<1>2. /\ call \in Call /\ call.page = p
      /\ call.kind = (IF place = None THEN "locate" ELSE "list")
      /\ place # None => <<call.city, call.place>> = store
  BY <1>1 DEF TypeOK, LocateCall, ListCall, Call, store
<1> HIDE DEF call
<1>3. /\ IsABag(calls')
      /\ BagToSet(calls') = BagToSet(calls) \cup {call}
      /\ \A k \in BagToSet(calls') \ {call} : calls[k] = 1 => calls'[k] = 1
      /\ call \notin BagToSet(calls) => calls'[call] = 1
  BY <1>1, AskOneEffect
<1>4. Loading \in State /\ Loading.status = "loading" /\ Loading.code = "none"
  BY DEF Loading, State
<1>5. TypeOK'
  <2>1. tab' \in [Tabs -> State] /\ overtaken' \in [Tabs -> BOOLEAN] /\ raced' \in BOOLEAN
    BY <1>1, <1>4 DEF TypeOK, Start
  <2>2. below' \in Mounted'
    BY <1>1, <1>4 DEF TypeOK, Mounted
  <2>3. BagToSet(calls') \subseteq Call
    BY <1>1, <1>2, <1>3 DEF TypeOK
  <2>4. QED
    BY <1>1, <1>3, <2>1, <2>2, <2>3 DEF TypeOK
<1>6. \A kind, q : Awaited(kind, q)' = Awaited(kind, q) \cup {k \in {call} : kind = call.kind /\ q = p}
  BY <1>2, <1>3 DEF Awaited
<1>7. tab'[p] = Loading /\ \A q \in Tabs \ {p} : tab'[q] = tab[q]
  BY <1>1 DEF TypeOK
<1>8. LoadingHasCause'
  BY <1>1, <1>2, <1>6, <1>7 DEF SitesInv, LoadingHasCause
<1>9. PlaceFirst'
  BY <1>1, <1>2, <1>4, <1>6, <1>7 DEF SitesInv, PlaceFirst, Tabs
<1>10. ListsAreCurrent'
  <2>1. overtaken'[p] = (place # None /\ Awaited("list", p) # {})
        /\ \A q \in Tabs \ {p} : overtaken'[q] = overtaken[q]
    BY <1>1 DEF Start, TypeOK
  <2>2. store' = store
    BY <1>1 DEF store
  <2>3. \A q \in Tabs \ {p} : Awaited("list", q)' = Awaited("list", q)
    BY <1>6
  <2>4. ~overtaken'[p] => \A k \in Awaited("list", p)' : <<k.city, k.place>> = store
    BY <1>2, <1>6, <2>1 DEF SitesInv, PlaceFirst
  <2>5. QED
    BY <1>4, <1>7, <2>1, <2>2, <2>3, <2>4 DEF SitesInv, ListsAreCurrent
<1>11. LocatesOnce'
  <2>1. place = None => \A k \in BagToSet(calls) : ~(k.kind = "locate" /\ k.page = p)
    BY DEF SitesInv, LocatesOnce, Awaited
  <2>2. \A j, k \in BagToSet(calls') :
          j.kind = "locate" /\ k.kind = "locate" /\ j.page = k.page => j = k /\ calls'[j] = 1
    BY <1>2, <1>3, <2>1 DEF SitesInv, LocatesOnce
  <2>3. place = None => \A q \in Tabs : Awaited("locate", q)' # {} => tab'[q].status = "loading"
    BY <1>4, <1>6, <1>7 DEF SitesInv, LocatesOnce
  <2>4. QED
    BY <1>1, <2>2, <2>3 DEF LocatesOnce
<1>12. RacesAreSeen'
  <2>1. raced => raced'
    BY DEF Start
  <2>2. Awaited("locate", "home")' # {} /\ Awaited("locate", "sites")' # {} => raced'
    BY <1>2, <1>6, <2>1 DEF Start, SitesInv, RacesAreSeen, Tabs
  <2>3. place # None => \A q \in Tabs :
          Awaited("locate", q)' # {} \/ tab'[q].code = "location" => raced'
    BY <1>2, <1>4, <1>6, <1>7, <2>1 DEF SitesInv, RacesAreSeen
  <2>4. QED
    BY <1>1, <1>4, <1>7, <2>2, <2>3 DEF SitesInv, RacesAreSeen
<1>13. QED
  BY <1>5, <1>8, <1>9, <1>10, <1>11, <1>12 DEF SitesInv

\* A call settles: its tab shows what it brings.
LEMMA SettleStep ==
  ASSUME SitesInv, NEW p \in Tabs, NEW k \in BagToSet(calls), k.page = p, Ask({k}, {}),
         NEW shown \in State, tab' = [tab EXCEPT ![p] = shown],
         shown.status \in {"success", "error"},
         shown.status = "success" => k.kind = "list" /\ <<shown.city, shown.place>> = <<k.city, k.place>>,
         shown.code = "location" => k.kind = "locate" /\ shown.status = "error",
         shown.status # "success" => k.kind = "list" \/ shown.code = "location",
         UNCHANGED <<store, screen, cities, detail, ghosts>>
  PROVE  SitesInv'
<1>1. UNCHANGED <<city, place, top, below, cities, detail, overtaken, raced>> /\ TypeOK /\ store' = store
  BY DEF store, screen, ghosts, SitesInv
<1>2. /\ IsABag(calls')
      /\ BagToSet(calls') \subseteq BagToSet(calls)
      /\ BagToSet(calls) \ {k} \subseteq BagToSet(calls')
      /\ calls[k] = 1 => k \notin BagToSet(calls')
      /\ \A j \in BagToSet(calls') : calls[j] = 1 => calls'[j] = 1
  <2>1. IsABag(calls) /\ {k} \subseteq BagToSet(calls)
    BY <1>1 DEF TypeOK
  <2>2. QED
    BY <2>1, SettleEffect
<1>3. /\ \A kind, q : Awaited(kind, q)' \subseteq Awaited(kind, q)
      /\ \A kind, q : q # p => Awaited(kind, q)' = Awaited(kind, q)
  BY <1>2 DEF Awaited
<1>4. tab'[p] = shown /\ \A q \in Tabs \ {p} : tab'[q] = tab[q]
  BY <1>1 DEF TypeOK
<1>5. k.kind = "locate" => Awaited("locate", p)' = {}
  BY <1>2 DEF SitesInv, LocatesOnce, Awaited
<1>6. TypeOK'
  <2>1. tab' \in [Tabs -> State] /\ below \in Mounted'
    BY <1>1, <1>4 DEF TypeOK, Mounted
  <2>2. QED
    BY <1>1, <1>2, <2>1 DEF TypeOK
<1>7. LoadingHasCause'
  BY <1>1, <1>3, <1>4 DEF SitesInv, LoadingHasCause
<1>8. k.kind = "list" => k \in Awaited("list", p) /\ place # None
  BY DEF Awaited, SitesInv, PlaceFirst
<1>9. PlaceFirst'
  BY <1>1, <1>3, <1>4, <1>8 DEF SitesInv, PlaceFirst
<1>10. ListsAreCurrent'
  <2>1. ~overtaken[p] => \A j \in Awaited("list", p)' : <<j.city, j.place>> = store
    BY <1>3 DEF SitesInv, ListsAreCurrent
  <2>2. ~overtaken[p] /\ tab'[p].status = "success" => <<tab'[p].city, tab'[p].place>> = store
    BY <1>4, <1>8 DEF SitesInv, ListsAreCurrent
  <2>3. \A q \in Tabs \ {p} : Awaited("list", q)' = Awaited("list", q)
    BY <1>3
  <2>4. QED
    BY <1>1, <1>4, <2>1, <2>2, <2>3 DEF SitesInv, ListsAreCurrent
<1>11. LocatesOnce'
  <2>1. \A i, j \in BagToSet(calls') :
          i.kind = "locate" /\ j.kind = "locate" /\ i.page = j.page => i = j /\ calls'[i] = 1
    BY <1>2 DEF SitesInv, LocatesOnce
  <2>2. place = None => \A q \in Tabs : Awaited("locate", q)' # {} => tab'[q].status = "loading"
    BY <1>3, <1>4, <1>5, <1>8 DEF SitesInv, LocatesOnce
  <2>3. QED
    BY <1>1, <2>1, <2>2 DEF LocatesOnce
<1>12. RacesAreSeen'
  <2>1. place # None /\ shown.code = "location" => raced
    BY DEF SitesInv, RacesAreSeen, Awaited
  <2>2. QED
    BY <1>1, <1>3, <1>4, <2>1 DEF SitesInv, RacesAreSeen
<1>13. QED
  BY <1>6, <1>7, <1>9, <1>10, <1>11, <1>12 DEF SitesInv

\* The city is chosen or a place known.
LEMMA LoadStep ==
  ASSUME SitesInv, NEW c \in Cities, NEW x \in Places, NEW settled, load(settled, c, x),
         settled \subseteq {k \in BagToSet(calls) : k.kind = "locate"},
         place = None => \E p \in Tabs : settled = Awaited("locate", p) /\ settled # {},
         top' \in Tabs \cup {"location", "detail"}, UNCHANGED <<below, cities, detail>>
  PROVE  SitesInv'
<1>1. /\ TypeOK /\ IsABag(calls)
      /\ city' = c /\ place' = x /\ x # None
      /\ store' = <<c, x>>
      /\ raced' = raced
      /\ settled \subseteq BagToSet(calls)
  BY SitePagesAssumption DEF SitesInv, TypeOK, load, store
<1>2. \A k \in settled : k.kind = "locate" /\ calls[k] = 1
  BY DEF SitesInv, LocatesOnce
<1>3. raced \/ \A p \in Tabs : Awaited("locate", p) \subseteq settled
  BY DEF SitesInv, RacesAreSeen, Tabs
<1>4. CASE <<c, x>> = store
  <2>1. /\ Ask(settled, {})
        /\ UNCHANGED <<city, place, tab, overtaken>>
    BY <1>1, <1>4 DEF load, store
  <2>2. /\ IsABag(calls')
        /\ BagToSet(calls') \subseteq BagToSet(calls)
        /\ BagToSet(calls) \ settled \subseteq BagToSet(calls')
        /\ \A j \in BagToSet(calls') : calls[j] = 1 => calls'[j] = 1
    BY <1>1, <2>1, SettleEffect
  <2>3. /\ \A p : Awaited("list", p)' = Awaited("list", p)
        /\ \A p : Awaited("locate", p)' \subseteq Awaited("locate", p)
    BY <1>2, <2>2 DEF Awaited
  <2>4. TypeOK'
    <3>1. below' \in Mounted'
      BY <1>1, <2>1 DEF TypeOK, Mounted
    <3>2. QED
      BY <1>1, <2>1, <2>2, <3>1 DEF TypeOK
  <2>5. LoadingHasCause' /\ PlaceFirst'
    BY <1>1, <2>1, <2>3 DEF SitesInv, LoadingHasCause, PlaceFirst
  <2>6. ListsAreCurrent'
    BY <1>1, <1>4, <2>1, <2>3 DEF SitesInv, ListsAreCurrent
  <2>7. LocatesOnce'
    BY <1>1, <2>2 DEF SitesInv, LocatesOnce
  <2>8. RacesAreSeen'
    BY <1>1, <2>1, <2>3 DEF SitesInv, RacesAreSeen
  <2>9. QED
    BY <2>4, <2>5, <2>6, <2>7, <2>8 DEF SitesInv
<1>5. CASE <<c, x>> # store
  <2> DEFINE asked == {ListCall(p, c, x) : p \in Mounted}
  <2>1. /\ Ask(settled, asked)
        /\ tab' = [p \in Tabs |-> IF p \in Mounted THEN Loading ELSE tab[p]]
        /\ overtaken' = [p \in Tabs |-> Awaited("list", p) # {}]
    BY <1>1, <1>5 DEF load
  <2>2. asked \subseteq Call /\ \A k \in asked : k.kind = "list" /\ k.city = c /\ k.place = x
    BY DEF ListCall, Call, Mounted
  <2>3. \A p \in Mounted : \E k \in asked : k.page = p
    <3>1. \A p \in Mounted : ListCall(p, c, x) \in asked
      OBVIOUS
    <3>2. \A p \in Mounted : ListCall(p, c, x).page = p
      BY DEF ListCall
    <3>3. QED
      BY <3>1, <3>2
  <2>4. \A k \in asked : k.page \in Mounted
    BY DEF ListCall
  <2> HIDE DEF asked
  <2>5. /\ IsABag(calls')
        /\ BagToSet(calls') \subseteq BagToSet(calls) \cup asked
        /\ asked \subseteq BagToSet(calls')
        /\ \A k \in settled \ asked : calls[k] = 1 => k \notin BagToSet(calls')
        /\ \A k \in BagToSet(calls') \ asked : calls[k] = 1 => calls'[k] = 1
    BY <1>1, <2>1, AskEffect
  <2>6. \A p : Awaited("locate", p)' \subseteq Awaited("locate", p) \ settled
    BY <1>2, <2>2, <2>5 DEF Awaited
  <2>7. \A p : Awaited("list", p)' \subseteq Awaited("list", p) \cup asked
    BY <2>5 DEF Awaited
  <2>8. \A p \in Mounted : Awaited("list", p)' # {}
    BY <2>2, <2>3, <2>5 DEF Awaited
  <2>9. Loading \in State /\ Loading.status = "loading" /\ Loading.code = "none"
    BY DEF Loading, State
  <2>10. TypeOK'
    <3>1. below' \in Mounted'
      BY <1>1, <2>1, <2>9 DEF TypeOK, Mounted
    <3>2. tab' \in [Tabs -> State] /\ overtaken' \in [Tabs -> BOOLEAN]
      BY <1>1, <2>1, <2>9 DEF TypeOK
    <3>3. QED
      BY <1>1, <2>2, <2>5, <3>1, <3>2 DEF TypeOK
  <2>11. \A p \in Tabs : IF p \in Mounted THEN tab'[p] = Loading
                                          ELSE tab'[p] = tab[p] /\ tab[p].status = "unmounted"
    BY <2>1 DEF Mounted
  <2>12. LoadingHasCause'
    BY <1>1, <2>8, <2>9, <2>11 DEF LoadingHasCause
  <2>13. PlaceFirst'
    BY <1>1 DEF PlaceFirst
  <2>14. ListsAreCurrent'
    BY <1>1, <2>1, <2>2, <2>7, <2>9, <2>11 DEF ListsAreCurrent
  <2>15. LocatesOnce'
    BY <1>1, <2>2, <2>5 DEF SitesInv, LocatesOnce
  <2>16. RacesAreSeen'
    BY <1>1, <1>3, <2>6, <2>9, <2>11 DEF SitesInv, RacesAreSeen, Tabs
  <2>17. QED
    BY <2>10, <2>12, <2>13, <2>14, <2>15, <2>16 DEF SitesInv
<1>6. QED
  BY <1>4, <1>5

\* What useSites is told.
LEMMA ReplyStep ==
  ASSUME SitesInv, NEW p \in Tabs, ListSettles(p) \/ LocateFails(p)
  PROVE  SitesInv'
<1>1. CASE LocateFails(p)
  <2>1. PICK k \in Awaited("locate", p) :
          /\ Ask({k}, {})
          /\ tab' = [tab EXCEPT ![p] = Failed("location")]
          /\ UNCHANGED <<store, screen, cities, detail, ghosts>>
    BY <1>1 DEF LocateFails
  <2>2. k \in BagToSet(calls) /\ k.page = p /\ k.kind = "locate"
    BY DEF Awaited
  <2>3. Failed("location") \in State /\ Failed("location").status = "error"
        /\ Failed("location").code = "location"
    BY DEF Failed, Loading, State
  <2>4. QED
    BY <2>1, <2>2, <2>3, SettleStep
<1>2. CASE ListArrives(p)
  <2>1. PICK k \in Awaited("list", p) :
          /\ Ask({k}, {})
          /\ tab' = [tab EXCEPT ![p] = Listed(k.city, k.place)]
          /\ UNCHANGED <<store, screen, cities, detail, ghosts>>
    BY <1>2 DEF ListArrives
  <2>2. k \in BagToSet(calls) /\ k \in Call /\ k.page = p /\ k.kind = "list"
    BY DEF Awaited, SitesInv, TypeOK
  <2>3. LET s == Listed(k.city, k.place)
        IN  /\ s \in State /\ s.status = "success" /\ s.code = "none"
            /\ s.city = k.city /\ s.place = k.place
    BY <2>2 DEF Listed, Loading, State, Call
  <2>4. QED
    BY <2>1, <2>2, <2>3, SettleStep
<1>3. CASE ListFails(p)
  <2>1. PICK k \in Awaited("list", p) :
          /\ Ask({k}, {})
          /\ tab' = [tab EXCEPT ![p] = Failed("other")]
          /\ UNCHANGED <<store, screen, cities, detail, ghosts>>
    BY <1>3 DEF ListFails
  <2>2. k \in BagToSet(calls) /\ k.page = p /\ k.kind = "list"
    BY DEF Awaited
  <2>3. Failed("other") \in State /\ Failed("other").status = "error" /\ Failed("other").code = "other"
    BY DEF Failed, Loading, State
  <2>4. QED
    BY <2>1, <2>2, <2>3, SettleStep
<1>4. QED
  BY <1>1, <1>2, <1>3 DEF ListSettles

LEMMA LocateSucceedsStep ==
  ASSUME SitesInv, NEW p \in Tabs, NEW x \in Places, LocateSucceeds(p, x)
  PROVE  SitesInv'
<1>1. PICK k \in Awaited("locate", p) : load({k}, city, x) /\ UNCHANGED <<screen, cities, detail>>
  BY DEF LocateSucceeds
<1>2. k \in BagToSet(calls) /\ k.kind = "locate" /\ {k} = Awaited("locate", p)
  BY DEF Awaited, SitesInv, LocatesOnce
<1>3. city \in Cities /\ top' \in Tabs \cup {"location", "detail"} /\ UNCHANGED <<below, cities, detail>>
  BY <1>1 DEF SitesInv, TypeOK, screen
<1>4. {k} \subseteq {j \in BagToSet(calls) : j.kind = "locate"} /\ {k} # {}
  BY <1>2
<1>5. QED
  BY <1>1, <1>2, <1>3, <1>4, LoadStep

LEMMA OpenTabStep ==
  ASSUME SitesInv, NEW p \in Tabs, OpenTab(p)
  PROVE  SitesInv'
<1>1. /\ top' \in Tabs /\ below' = p /\ UNCHANGED <<store, cities, detail>>
      /\ cities \in {"none", "asked", "shown"} /\ detail \in Detail
      /\ "location" \notin Tabs
  BY DEF OpenTab, SitesInv, TypeOK, Tabs
<1>2. CASE p \in Mounted
  BY <1>1, <1>2, QuietStep DEF OpenTab
<1>3. CASE p \notin Mounted
  BY <1>1, <1>3, StartStep DEF OpenTab, Mounted
<1>4. QED
  BY <1>2, <1>3

LEMMA RetryStep ==
  ASSUME SitesInv, NEW p \in Tabs, Retry(p)
  PROVE  SitesInv'
<1>1. /\ UNCHANGED <<store, top, below, cities, detail>>
      /\ below \in Mounted /\ cities \in {"none", "asked", "shown"} /\ detail \in Detail
  BY DEF Retry, screen, SitesInv, TypeOK
<1>2. Start(p) /\ tab[p].status # "loading"
  BY DEF Retry
<1>3. QED
  BY <1>1, <1>2, StartStep

LEMMA SelectCityStep ==
  ASSUME SitesInv, NEW c \in Cities, selectCity(c)
  PROVE  SitesInv'
<1>1. /\ place \in Places \cup {None} /\ place # None
      /\ below \in Tabs
  BY DEF selectCity, SitesInv, PlaceFirst, TypeOK, Mounted
<1>2. top' \in Tabs \cup {"location", "detail"} /\ UNCHANGED <<below, cities, detail>>
  BY <1>1 DEF selectCity
<1>3. load({}, c, place)
  BY DEF selectCity
<1>4. QED
  BY <1>1, <1>2, <1>3, LoadStep

\* The pages over the tabs.
LEMMA OtherPagesStep ==
  ASSUME SitesInv,
         \/ OpenLocation \/ CitiesArrive \/ LeaveLocation
         \/ OpenDetail \/ DetailRetry \/ LeaveDetail
         \/ \E part \in {"site", "cells"} : DetailSettles(part)
  PROVE  SitesInv'
<1>1. /\ top \in Tabs \cup {"location", "detail"} /\ below \in Mounted /\ below \in Tabs
      /\ cities \in {"none", "asked", "shown"} /\ detail \in Detail
      /\ "location" \notin Tabs
      /\ place = None => top # "location" /\ ~HasSites("home")
  BY DEF SitesInv, TypeOK, Mounted, PlaceFirst, HasSites, Tabs
<1>2. CASE OpenLocation \/ CitiesArrive \/ LeaveLocation
  BY <1>1, <1>2, QuietStep DEF OpenLocation, CitiesArrive, LeaveLocation, screen
<1>3. NewDetail \in Detail
  BY DEF NewDetail, Detail
<1>4. CASE OpenDetail \/ DetailRetry
  BY <1>1, <1>3, <1>4, QuietStep DEF OpenDetail, DetailRetry, screen
<1>5. ASSUME NEW part \in {"site", "cells"}, DetailSettles(part) PROVE SitesInv'
  <2>1. detail' \in Detail
    <3>1. CASE DetailFails(part)
      BY <1>1, <3>1 DEF DetailFails, Detail
    <3>2. CASE DetailArrives(part)
      <4>1. PICK online \in IF part = "site" THEN BOOLEAN ELSE {detail.online} :
              detail' = [status |-> IF detail.waiting # {part} THEN "loading"
                                    ELSE IF online THEN "success" ELSE "offline",
                         waiting |-> detail.waiting \ {part}, online |-> online]
        BY <3>2 DEF DetailArrives
      <4>2. online \in BOOLEAN /\ detail.waiting \ {part} \subseteq {"site", "cells"}
        BY <1>1 DEF Detail
      <4>3. QED
        BY <4>1, <4>2 DEF Detail
    <3>3. QED
      BY <1>5, <3>1, <3>2 DEF DetailSettles
  <2>2. QED
    BY <1>1, <1>5, <2>1, QuietStep DEF DetailSettles, DetailArrives, DetailFails, screen
<1>6. CASE LeaveDetail
  <2>1. detail' \in Detail /\ UNCHANGED <<store, cities>>
    BY <1>3, <1>6 DEF LeaveDetail
  <2>2. CASE top' = below /\ UNCHANGED <<below, tab, calls, ghosts>>
    BY <1>1, <2>1, <2>2, QuietStep
  <2>3. ASSUME top' = "sites", below' = "sites",
               IF "sites" \in Mounted THEN UNCHANGED <<tab, calls, ghosts>> ELSE Start("sites")
        PROVE  SitesInv'
    <3>1. "sites" \in Tabs
      BY DEF Tabs
    <3>2. CASE "sites" \in Mounted
      BY <1>1, <2>1, <2>3, <3>1, <3>2, QuietStep
    <3>3. CASE "sites" \notin Mounted
      BY <1>1, <2>1, <2>3, <3>1, <3>3, StartStep DEF Mounted
    <3>4. QED
      BY <3>2, <3>3
  <2>4. QED
    BY <1>6, <2>2, <2>3 DEF LeaveDetail
<1>7. QED
  BY <1>2, <1>4, <1>5, <1>6

LEMMA SitesInvInit == Init => SitesInv
<1> SUFFICES ASSUME Init PROVE SitesInv
  OBVIOUS
<1> DEFINE call == LocateCall("home")
<1>1. call \in Call /\ call.page = "home" /\ call.kind = "locate"
  BY SitePagesAssumption DEF Init, LocateCall, ListCall, Call, Tabs
<1>2. calls = SetToBag({call})
  BY DEF Init
<1> HIDE DEF call
<1>3. IsABag(calls) /\ BagToSet(calls) = {call} /\ calls[call] = 1
  BY <1>2 DEF IsABag, BagToSet, SetToBag
<1>4. /\ tab["home"] = Loading /\ tab["sites"].status = "unmounted" /\ tab["sites"].code = "none"
      /\ Loading.status = "loading" /\ Loading.code = "none"
      /\ tab \in [Tabs -> State]
  BY DEF Init, Tabs, Loading, State
<1>5. TypeOK
  BY <1>1, <1>3, <1>4, SitePagesAssumption DEF Init, TypeOK, Tabs, Mounted, Detail, NewDetail
<1>6. /\ \A p : Awaited("list", p) = {}
      /\ Awaited("locate", "home") # {} /\ Awaited("locate", "sites") = {}
  BY <1>1, <1>3 DEF Awaited
<1>7. LoadingHasCause /\ PlaceFirst /\ ListsAreCurrent
  BY <1>4, <1>6 DEF Init, LoadingHasCause, PlaceFirst, ListsAreCurrent, Tabs
<1>8. LocatesOnce /\ RacesAreSeen
  BY <1>3, <1>4, <1>6 DEF Init, LocatesOnce, RacesAreSeen, Tabs
<1>9. QED
  BY <1>5, <1>7, <1>8 DEF SitesInv

LEMMA SitesInvStep ==
  ASSUME SitesInv, [Next]_vars
  PROVE  SitesInv'
<1>1. ASSUME NEW p \in Tabs, ListSettles(p) \/ LocateFails(p) \/ OpenTab(p) \/ Retry(p)
                             \/ \E x \in Places : LocateSucceeds(p, x)
      PROVE  SitesInv'
  BY <1>1, ReplyStep, OpenTabStep, RetryStep, LocateSucceedsStep
<1>2. ASSUME NEW c \in Cities, selectCity(c) PROVE SitesInv'
  BY <1>2, SelectCityStep
<1>3. CASE \/ OpenLocation \/ CitiesArrive \/ LeaveLocation
           \/ OpenDetail \/ DetailRetry \/ LeaveDetail
           \/ \E part \in {"site", "cells"} : DetailSettles(part)
  BY <1>3, OtherPagesStep
<1>4. CASE UNCHANGED vars
  BY <1>4, QuietStep DEF vars, screen, SitesInv, TypeOK, PlaceFirst
<1>5. QED
  BY <1>1, <1>2, <1>3, <1>4 DEF Next

LEMMA SitesInvHolds == Spec => []SitesInv
BY SitesInvInit, SitesInvStep, PTL DEF Spec

(***************************************************************************)
(* Types of the tabs, their calls and the pages over them: whatever is in  *)
(* front, the tab under it is mounted.                                     *)
(***************************************************************************)
THEOREM Typing == Spec => []TypeOK
<1>1. SitesInv => TypeOK
  BY DEF SitesInv
<1>2. QED
  BY <1>1, SitesInvHolds, PTL

(***************************************************************************)
(* A skeleton has its cause: whatever fails, is retried or chosen in       *)
(* either tab, what can end it is on its way (use-sites.ts:38).            *)
(***************************************************************************)
THEOREM NoStrandedSkeleton == Spec => []LoadingHasCause
<1>1. SitesInv => LoadingHasCause
  BY DEF SitesInv
<1>2. QED
  BY <1>1, SitesInvHolds, PTL

(***************************************************************************)
(* A tab shows another city's sites only when a reply was overtaken, and   *)
(* asks for the permission to position in vain only when both tabs were    *)
(* positioning at once: these two races are the only ones.                 *)
(***************************************************************************)
THEOREM OnlyRacesMislead == Spec => []ShowsCurrentCity
<1>1. SitesInv => ShowsCurrentCity
  BY DEF SitesInv, ListsAreCurrent, RacesAreSeen, ShowsCurrentCity
<1>2. QED
  BY <1>1, SitesInvHolds, PTL
=============================================================================
