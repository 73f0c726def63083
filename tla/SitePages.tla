----------------------------- MODULE SitePages ------------------------------
(***************************************************************************)
(* The mini program's pages that look for a site: home and the list of     *)
(* sites, which are tabs and both use useSites, the choice of a city and   *)
(* the detail of a site.                                                   *)
(*                                                                         *)
(* The tabs share the city and the coordinates of the location store: a    *)
(* change of either makes each of them load again.  Nothing is cancelled,  *)
(* so replies come in any order, also to a question already asked anew.    *)
(***************************************************************************)
EXTENDS Naturals, Bags

CONSTANTS Cities, Home,  \* the cities, and the one the store starts with
          Places,        \* coordinates a positioning can give
          Empty,         \* cities with no site around
          None,
          MaxCalls       \* bound: positionings and lists asked for at a time

ASSUME SitePagesAssumption ==
  Home \in Cities /\ Empty \subseteq Cities /\ None \notin Places /\ MaxCalls \in Nat

Tabs == {"home", "sites"}

VARIABLES city, place,  \* the location store; place is None before a positioning
          tab,          \* what useSites holds in each tab
          calls,        \* its calls that have not settled
          top, below,   \* the page in front, and the tab under it
          cities,       \* the location page: its list of cities
          detail,       \* the site detail page
          overtaken,    \* ghost: a list was asked for while an older one was awaited
          raced         \* ghost: positionings were awaited by both tabs at once

store == <<city, place>>
screen == <<top, below>>
ghosts == <<overtaken, raced>>
vars == <<store, tab, calls, screen, cities, detail, ghosts>>

State == [status : {"unmounted", "loading", "success", "error"}, code : {"none", "location", "other"},
          city : Cities \cup {None}, place : Places \cup {None}]
Loading == [status |-> "loading", code |-> "none", city |-> None, place |-> None]
Failed(c) == [Loading EXCEPT !.status = "error", !.code = c]
Listed(c, x) == [Loading EXCEPT !.status = "success", !.city = c, !.place = x]

Call == [kind : {"locate", "list"}, page : Tabs, city : Cities, place : Places \cup {None}]
ListCall(p, c, x) == [kind |-> "list", page |-> p, city |-> c, place |-> x]
LocateCall(p) == [ListCall(p, city, None) EXCEPT !.kind = "locate"]

Mounted == {p \in Tabs : tab[p].status # "unmounted"}
Awaited(kind, p) == {k \in BagToSet(calls) : k.kind = kind /\ k.page = p}
HasSites(p) == tab[p].status = "success" /\ tab[p].city \notin Empty

\* The calls that settle give way to those that are asked.
Ask(settled, asked) ==
  /\ calls' = (calls (-) SetToBag(settled)) (+) SetToBag(asked)
  /\ BagCardinality(calls') <= MaxCalls

-----------------------------------------------------------------------------
\* useSites.

\* What mounting a tab and its retry ask for: a positioning, or a list.
Start(p) ==
  /\ tab' = [tab EXCEPT ![p] = Loading]
  /\ Ask({}, {IF place = None THEN LocateCall(p) ELSE ListCall(p, city, place)})
  /\ overtaken' = [overtaken EXCEPT ![p] = place # None /\ Awaited("list", p) # {}]
  /\ raced' = (raced \/ (place = None /\ \E q \in Tabs \ {p} : Awaited("locate", q) # {}))

\* Faulty variant: only the tab in use loads again.
load_TopOnly(settled, c, x) ==
  /\ city' = c /\ place' = x
  /\ IF <<c, x>> = store
     THEN Ask(settled, {}) /\ UNCHANGED <<tab, overtaken>>
     ELSE /\ tab' = [tab EXCEPT ![below] = Loading]
          /\ Ask(settled, IF x = None THEN {} ELSE {ListCall(below, c, x)})
          /\ overtaken' = [overtaken EXCEPT ![below] = Awaited("list", below) # {}]
  /\ UNCHANGED raced

\* The store is set, and the load effect of every mounted tab runs if that has
\* changed it.
load(settled, c, x) ==
  /\ city' = c /\ place' = x
  /\ IF <<c, x>> = store
     THEN Ask(settled, {}) /\ UNCHANGED <<tab, overtaken>>
     ELSE /\ tab' = [p \in Tabs |-> IF p \in Mounted THEN Loading ELSE tab[p]]
          /\ Ask(settled, IF x = None THEN {} ELSE {ListCall(p, c, x) : p \in Mounted})
          /\ overtaken' = [p \in Tabs |-> Awaited("list", p) # {}]
  /\ UNCHANGED raced

\* locate: setCoordinates, whether or not another tab has done it meanwhile.
LocateSucceeds(p, x) ==
  \E k \in Awaited("locate", p) :
    load({k}, city, x) /\ UNCHANGED <<screen, cities, detail>>

\* The error replaces what the tab shows, even sites.
LocateFails(p) ==
  \E k \in Awaited("locate", p) :
    /\ Ask({k}, {})
    /\ tab' = [tab EXCEPT ![p] = Failed("location")]
    /\ UNCHANGED <<store, screen, cities, detail, ghosts>>

\* A list arrives: of the city and the place it was asked for.
ListArrives(p) ==
  \E k \in Awaited("list", p) :
    /\ Ask({k}, {})
    /\ tab' = [tab EXCEPT ![p] = Listed(k.city, k.place)]
    /\ UNCHANGED <<store, screen, cities, detail, ghosts>>

\* Faulty variant: the exception leaves the skeleton.
ListFails_Uncaught(p) ==
  \E k \in Awaited("list", p) :
    Ask({k}, {}) /\ UNCHANGED <<store, tab, screen, cities, detail, ghosts>>

ListFails(p) ==
  \E k \in Awaited("list", p) :
    /\ Ask({k}, {})
    /\ tab' = [tab EXCEPT ![p] = Failed("other")]
    /\ UNCHANGED <<store, screen, cities, detail, ghosts>>

-----------------------------------------------------------------------------
\* The tabs.

OpenTab(p) ==
  /\ top \in Tabs \ {p}
  /\ top' = p /\ below' = p
  /\ IF p \in Mounted THEN UNCHANGED <<tab, calls, ghosts>> ELSE Start(p)
  /\ UNCHANGED <<store, cities, detail>>

\* The button of the panel shown instead of sites.
Retry(p) ==
  /\ top = p
  /\ tab[p].status = "error" \/ (tab[p].status = "success" /\ ~HasSites(p))
  /\ Start(p)
  /\ UNCHANGED <<store, screen, cities, detail>>

-----------------------------------------------------------------------------
\* The choice of a city.

\* Faulty variant: the link to the cities is there whatever home shows.
OpenLocation_Always ==
  /\ top = "home"
  /\ top' = "location" /\ cities' = "asked"
  /\ UNCHANGED <<store, tab, calls, below, detail, ghosts>>

\* Home shows the link to the cities above its sites only.
OpenLocation ==
  /\ top = "home" /\ HasSites("home")
  /\ top' = "location" /\ cities' = "asked"
  /\ UNCHANGED <<store, tab, calls, below, detail, ghosts>>

\* A failure, which nobody catches, leaves the list empty.
CitiesArrive ==
  /\ top = "location" /\ cities = "asked"
  /\ cities' \in {"shown", "none"}
  /\ UNCHANGED <<store, tab, calls, screen, detail, ghosts>>

\* A second tap can come before the page has gone.
selectCity(c) ==
  /\ top = "location" /\ cities = "shown"
  /\ load({}, c, place)
  /\ top' \in {"location", below}
  /\ UNCHANGED <<below, cities, detail>>

LeaveLocation ==
  /\ top = "location"
  /\ top' = below /\ cities' = "none"
  /\ UNCHANGED <<store, tab, calls, below, detail, ghosts>>

-----------------------------------------------------------------------------
\* The detail of a site: two calls awaited together.

Detail == [status : {"loading", "success", "network", "offline"},
           waiting : SUBSET {"site", "cells"}, online : BOOLEAN]
NewDetail == [status |-> "loading", waiting |-> {"site", "cells"}, online |-> TRUE]

OpenDetail ==
  /\ top \in Tabs /\ HasSites(top)
  /\ top' = "detail" /\ detail' = NewDetail
  /\ UNCHANGED <<store, tab, calls, below, cities, ghosts>>

\* The site tells whether it has a device online.
DetailArrives(part) ==
  /\ top = "detail" /\ detail.status = "loading" /\ part \in detail.waiting
  /\ \E online \in IF part = "site" THEN BOOLEAN ELSE {detail.online} :
       detail' = [status |-> IF detail.waiting # {part} THEN "loading"
                             ELSE IF online THEN "success" ELSE "offline",
                  waiting |-> detail.waiting \ {part}, online |-> online]
  /\ UNCHANGED <<store, tab, calls, screen, cities, ghosts>>

\* The first failure ends the load; the other reply is no longer looked at.
DetailFails(part) ==
  /\ top = "detail" /\ detail.status = "loading" /\ part \in detail.waiting
  /\ \E status \in {"network", "offline"} :
       detail' = [detail EXCEPT !.status = status, !.waiting = {}]
  /\ UNCHANGED <<store, tab, calls, screen, cities, ghosts>>

DetailRetry ==
  /\ top = "detail" /\ detail.status = "network"
  /\ detail' = NewDetail
  /\ UNCHANGED <<store, tab, calls, screen, cities, ghosts>>

\* Faulty variant: the list of sites is shown without being mounted.
LeaveDetail_NoMount ==
  /\ top = "detail"
  /\ \/ top' = below /\ UNCHANGED below
     \/ detail.status = "offline" /\ top' = "sites" /\ below' = "sites"
  /\ detail' = NewDetail
  /\ UNCHANGED <<store, tab, calls, cities, ghosts>>

\* The offline panel leads to the list of sites.
LeaveDetail ==
  /\ top = "detail"
  /\ \/ top' = below /\ UNCHANGED <<below, tab, calls, ghosts>>
     \/ /\ detail.status = "offline"
        /\ top' = "sites" /\ below' = "sites"
        /\ IF "sites" \in Mounted THEN UNCHANGED <<tab, calls, ghosts>> ELSE Start("sites")
  /\ detail' = NewDetail
  /\ UNCHANGED <<store, cities>>

-----------------------------------------------------------------------------

Init ==
  /\ city = Home /\ place = None
  /\ tab = [p \in Tabs |-> IF p = "home" THEN Loading ELSE [Loading EXCEPT !.status = "unmounted"]]
  /\ calls = SetToBag({LocateCall("home")})
  /\ top = "home" /\ below = "home"
  /\ cities = "none" /\ detail = NewDetail
  /\ overtaken = [p \in Tabs |-> FALSE] /\ raced = FALSE

ListSettles(p) == ListArrives(p) \/ ListFails(p)
DetailSettles(part) == DetailArrives(part) \/ DetailFails(part)

Next ==
  \/ \E p \in Tabs : \/ ListSettles(p) \/ LocateFails(p) \/ OpenTab(p) \/ Retry(p)
                     \/ \E x \in Places : LocateSucceeds(p, x)
  \/ OpenLocation \/ CitiesArrive \/ LeaveLocation \/ \E c \in Cities : selectCity(c)
  \/ OpenDetail \/ DetailRetry \/ LeaveDetail
  \/ \E part \in {"site", "cells"} : DetailSettles(part)

Spec == Init /\ [][Next]_vars

\* A request is answered or times out.  A positioning may wait for the user.
FairSpec ==
  /\ Spec
  /\ \A p \in Tabs : WF_vars(ListSettles(p))
  /\ \A part \in {"site", "cells"} : WF_vars(DetailSettles(part))

-----------------------------------------------------------------------------
\* Properties.

TypeOK ==
  /\ city \in Cities /\ place \in Places \cup {None}
  /\ tab \in [Tabs -> State]
  /\ IsABag(calls) /\ BagToSet(calls) \subseteq Call
  /\ top \in Tabs \cup {"location", "detail"} /\ below \in Mounted
  /\ cities \in {"none", "asked", "shown"} /\ detail \in Detail
  /\ overtaken \in [Tabs -> BOOLEAN] /\ raced \in BOOLEAN

(***************************************************************************)
(* A tab shows its skeleton only while something it asked for can still    *)
(* end it: a list once the place is known, a positioning before.  A city   *)
(* chosen before the place is known would leave it for ever: load returns  *)
(* then, and nothing asks for a positioning.                               *)
(***************************************************************************)
LoadingHasCause ==
  \A p \in Tabs : tab[p].status = "loading" =>
    Awaited(IF place = None THEN "locate" ELSE "list", p) # {}

(***************************************************************************)
(* What a tab shows is about the city and the place of the store.  Its     *)
(* sites are those, unless a reply has been overtaken by a later one: then *)
(* the earlier city's sites stay under the later city's name.  It asks for *)
(* the permission to position while the place is known only if both tabs   *)
(* were positioning at once.                                               *)
(***************************************************************************)
ShowsCurrentCity ==
  \A p \in Tabs :
    /\ tab[p].status = "success" /\ ~overtaken[p] => <<tab[p].city, tab[p].place>> = store
    /\ tab[p].code = "location" /\ place # None => raced

(***************************************************************************)
(* Once the place is known a tab's skeleton goes, and that of the detail   *)
(* page too.                                                               *)
(***************************************************************************)
SkeletonsGo ==
  /\ \A p \in Tabs :
       (place # None /\ tab[p].status = "loading") ~> (tab[p].status # "loading")
  /\ (top = "detail" /\ detail.status = "loading")
       ~> (top # "detail" \/ detail.status # "loading")
=============================================================================
