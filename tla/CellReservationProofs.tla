------------------------ MODULE CellReservationProofs -----------------------
(***************************************************************************)
(* Proofs about CellReservation for any cells, keys, orders and requests,  *)
(* any batch size and any bounds, and whether or not the server is fair.   *)
(***************************************************************************)
EXTENDS CellReservation, WellFoundedInduction, TLAPS

\* ORDER BY id LIMIT 1 of rows that there are is one of them.
Less == {ss \in Nat \X Nat : ss[1] < ss[2]}

LEMMA LessWellFounded == IsWellFoundedOn(Less, Nat)
<1>1. OpToRel(<, Nat) = Less
  BY Zenon DEF OpToRel, Less
<1>2. QED
  BY <1>1, NatLessThanWellFounded, Zenon

LEMMA SmallestIn ==
  ASSUME NEW S \in SUBSET Cells, S # {}
  PROVE  Smallest(S) \in S
<1>1. S \subseteq Nat
  BY CellTableAssumption
<1>2. PICK x \in S : \A y \in S : ~(<<y, x>> \in Less)
  BY <1>1, LessWellFounded, WFMin
<1>3. \A y \in S : x <= y
  <2>1. ASSUME NEW y \in S PROVE x <= y
    <3>1. ~(y < x)
      BY <1>1, <1>2 DEF Less
    <3>2. QED
      BY <1>1, <3>1
  <2>2. QED
    BY <2>1
<1>4. QED
  BY <1>3 DEF Smallest

Answered(q) ==
  q.phase = "replied" /\ q.until >= clock =>
    q.key \in released \/ (cells[q.cell].key = q.key /\ cells[q.cell].until = q.until)

\* What a request carries; a reply about a time still to come is true until the
\* key is released.
Carries(q) ==
  /\ q.phase # "idle" => q.key \in Keys
  /\ q.now <= clock
  /\ q.phase \in {"skipping", "waiting", "selected"} => q.until # 0
  /\ q.phase \in {"selected", "releasing", "replied"} => q.cell \in Cells
  /\ q.phase = "selected" => Available(cells[q.cell], q.now)
  /\ Answered(q)

\* A row is locked by one transaction, and the worker's are expired.
LocksHeld ==
  /\ \A r, s \in Requests :
       req[r].phase = "selected" /\ req[s].phase = "selected" /\ req[r].cell = req[s].cell => r = s
  /\ \A r \in Requests : req[r].phase = "selected" => req[r].cell \notin worker.batch
  /\ \A c \in worker.batch : Expired(cells[c], clock)

RowOK(row) ==
  /\ row \in CellRow
  /\ Reserved(row) <=> row.key # NoKey
  /\ Reserved(row) <=> row.until # 0
  /\ row.occ = "IDLE" => row.order = NoOrder

ReservationInv ==
  /\ cells \in [Cells -> CellRow] /\ \A c \in Cells : RowOK(cells[c])
  /\ \A c, d \in Cells : Reserved(cells[c]) /\ cells[c].key = cells[d].key => c = d
  /\ clock \in 1..MaxTime
  /\ req \in [Requests -> Req] /\ \A r \in Requests : Carries(req[r])
  /\ worker \in [phase : {"resting", "reclaiming", "stopped"}, batch : SUBSET Cells]
  /\ LocksHeld
  /\ asked \in 0..MaxAsked /\ faults \in 0..MaxFaults /\ released \subseteq Keys

LEMMA InvTypes == ReservationInv => TypeOK
BY DEF ReservationInv, TypeOK, RowOK, Carries

LEMMA IdleReqType == IdleReq \in Req /\ IdleReq.phase = "idle" /\ IdleReq.now = 0
<1>1. (CHOOSE c \in Cells : TRUE) \in Cells
  BY CellReservationAssumption
<1>2. QED
  BY <1>1 DEF IdleReq, Req

LEMMA IdleRowOK == RowOK(IdleRow) /\ ~Reserved(IdleRow)
BY DEF RowOK, IdleRow, CellRow, CellStatus, Reserved

-----------------------------------------------------------------------------
\* Kinds of steps.

\* One request goes on and the table stays.
LEMMA OneRequest ==
  ASSUME ReservationInv, NEW r \in Requests, NEW q \in Req,
         req' = [req EXCEPT ![r] = q], Carries(q),
         q.phase = "selected" => q.cell \notin Locked(Others(r)),
         asked' \in 0..MaxAsked, faults' \in 0..MaxFaults,
         UNCHANGED <<cells, clock, worker, released>>
  PROVE  ReservationInv'
<1>1. req' \in [Requests -> Req] /\ req'[r] = q /\ \A s \in Requests \ {r} : req'[s] = req[s]
  BY DEF ReservationInv
<1>2. \A s \in Requests : Carries(req[s])'
  BY <1>1 DEF ReservationInv, Carries, Answered
<1>3. LocksHeld'
  BY <1>1 DEF ReservationInv, LocksHeld, Locked, Selected, Others
<1>4. \A c \in Cells : RowOK(cells[c])'
  BY DEF ReservationInv
<1>5. QED
  BY <1>1, <1>2, <1>3, <1>4 DEF ReservationInv

\* A row that no transaction has locked changes, under its own release if it is
\* a reservation that has not expired.
LEMMA OneRow ==
  ASSUME ReservationInv, NEW c \in Cells, NEW row, RowOK(row),
         cells' = [cells EXCEPT ![c] = row],
         Reserved(row) => \A d \in Cells \ {c} : cells[d].key # row.key,
         Reserved(cells[c]) /\ cells[c].until >= clock => cells[c].key \in released',
         released \subseteq released', released' \subseteq Keys,
         req' \in [Requests -> Req],
         \A s \in Requests : \/ req'[s] = req[s] /\ (req[s].phase = "selected" => req[s].cell # c)
                             \/ Carries(req[s])' /\ req'[s].phase # "selected",
         c \notin worker.batch,
         UNCHANGED <<clock, worker, counters>>
  PROVE  ReservationInv'
<1>1. /\ cells' \in [Cells -> CellRow] /\ cells'[c] = row
      /\ \A d \in Cells \ {c} : cells'[d] = cells[d]
      /\ \A d \in Cells : RowOK(cells[d])
  BY DEF ReservationInv, RowOK
<1>2. \A d \in Cells : RowOK(cells[d])'
  BY <1>1 DEF RowOK, Reserved
<1>3. \A d, e \in Cells : Reserved(cells'[d]) /\ cells'[d].key = cells'[e].key => d = e
  <2>1. SUFFICES ASSUME NEW d \in Cells, NEW e \in Cells, d # e,
                        Reserved(cells'[d]), cells'[d].key = cells'[e].key
                 PROVE  FALSE
    OBVIOUS
  <2>2. CASE d = c
    BY <1>1, <2>1, <2>2
  <2>3. CASE e = c
    BY <1>1, <2>1, <2>3 DEF RowOK
  <2>4. CASE d # c /\ e # c
    BY <1>1, <2>1, <2>4 DEF ReservationInv
  <2>5. QED
    BY <2>2, <2>3, <2>4
<1>4. ASSUME NEW s \in Requests PROVE Carries(req[s])'
  <2>1. SUFFICES ASSUME req'[s] = req[s], req[s].phase = "selected" => req[s].cell # c
                 PROVE  Carries(req[s])'
    OBVIOUS
  <2>2. req[s] \in Req /\ Carries(req[s]) /\ clock' = clock
    BY DEF ReservationInv
  <2>3. Answered(req[s])'
    <3>1. SUFFICES ASSUME req[s].phase = "replied", req[s].until >= clock,
                          req[s].key \notin released'
                   PROVE  /\ cells'[req[s].cell].key = req[s].key
                          /\ cells'[req[s].cell].until = req[s].until
      BY <2>1, <2>2 DEF Answered
    <3>2. /\ req[s].cell \in Cells /\ req[s].key \in Keys /\ req[s].key # NoKey
          /\ cells[req[s].cell].key = req[s].key /\ cells[req[s].cell].until = req[s].until
      BY <2>2, <3>1, CellTableAssumption DEF Carries, Answered
    <3>3. Reserved(cells[req[s].cell])
      BY <1>1, <3>2 DEF RowOK
    <3>4. req[s].cell # c
      BY <3>1, <3>2, <3>3
    <3>5. QED
      BY <1>1, <3>2, <3>4
  <2>4. QED
    BY <1>1, <2>1, <2>2, <2>3 DEF Carries
<1>5. LocksHeld'
  <2>1. \A s \in Requests : req'[s].phase = "selected" => req'[s] = req[s]
    OBVIOUS
  <2>2. \A d \in worker.batch : cells'[d] = cells[d]
    BY <1>1 DEF ReservationInv
  <2>3. QED
    BY <2>1, <2>2 DEF ReservationInv, LocksHeld
<1>6. QED
  BY <1>1, <1>2, <1>3, <1>4, <1>5 DEF ReservationInv, counters

-----------------------------------------------------------------------------
\* Reserve.

\* A request is answered with the row that has its key.
LEMMA RepliesInv ==
  ASSUME ReservationInv, NEW r \in Requests, req[r].phase # "idle",
         FindReservation(req[r].key) # {}, Replies(r, FindReservation(req[r].key)),
         UNCHANGED <<cells, clock, worker, counters, released>>
  PROVE  ReservationInv'
<1> DEFINE c == Smallest(FindReservation(req[r].key))
           q == [req[r] EXCEPT !.phase = "replied", !.cell = c, !.until = cells[c].until]
<1>1. c \in Cells /\ cells[c].key = req[r].key
  BY SmallestIn DEF FindReservation
<1> HIDE DEF c
<1>2. req' = [req EXCEPT ![r] = q]
  BY DEF Replies, ReservationInv, Req, c
<1>3. req[r] \in Req /\ Carries(req[r]) /\ cells[c].until \in Nat
  BY <1>1 DEF ReservationInv, CellRow
<1>4. /\ q \in Req /\ q.phase = "replied" /\ q.cell = c /\ q.until = cells[c].until
      /\ q.key = req[r].key /\ q.now = req[r].now
  BY <1>1, <1>3 DEF Req
<1> HIDE DEF q
<1>5. Carries(q)
  BY <1>1, <1>3, <1>4 DEF Carries, Answered
<1>6. asked' \in 0..MaxAsked /\ faults' \in 0..MaxFaults
  BY DEF ReservationInv, counters
<1>7. QED
  BY <1>2, <1>4, <1>5, <1>6, OneRequest

LEMMA EndsInv ==
  ASSUME ReservationInv, NEW r \in Requests, Ends(r),
         asked' \in 0..MaxAsked, faults' \in 0..MaxFaults,
         UNCHANGED <<cells, clock, worker, released>>
  PROVE  ReservationInv'
<1>1. Carries(IdleReq)
  BY IdleReqType DEF Carries, Answered, ReservationInv
<1>2. req' = [req EXCEPT ![r] = IdleReq]
  BY DEF Ends
<1>3. QED
  BY <1>1, <1>2, IdleReqType, OneRequest

LEMMA ReserveInv ==
  ASSUME ReservationInv, NEW r \in Requests, NEW k \in Keys, NEW c \in Cells,
         NEW ttl \in TTLs, Reserve(r, k, c, ttl)
  PROVE  ReservationInv'
<1> DEFINE q == [IdleReq EXCEPT !.key = k, !.site = SiteOf[c], !.size = SizeOf[c]]
<1>1. /\ UNCHANGED <<cells, clock, worker, faults, released>>
      /\ asked' \in 0..MaxAsked /\ faults' \in 0..MaxFaults
      /\ clock \in Nat /\ ttl \in Nat \ {0}
  BY CellReservationAssumption DEF Reserve, ReservationInv
<1>2. q \in Req /\ q.key = k /\ q.now = 0
  BY IdleReqType DEF Req
<1>3. CASE FindReservation(k) # {}
  <2> DEFINE d == Smallest(FindReservation(k))
             p == [q EXCEPT !.phase = "replied", !.cell = d, !.until = cells[d].until]
  <2>1. req' = [req EXCEPT ![r] = p]
    BY <1>3 DEF Reserve
  <2>2. d \in Cells /\ cells[d].key = k
    BY <1>3, SmallestIn DEF FindReservation
  <2>3. cells[d].until \in Nat
    BY <2>2 DEF ReservationInv, CellRow
  <2> HIDE DEF d, q
  <2>4. /\ p \in Req /\ p.phase = "replied" /\ p.cell = d /\ p.until = cells[d].until
        /\ p.key = k /\ p.now = 0
    BY <1>2, <2>2, <2>3 DEF Req
  <2> HIDE DEF p
  <2>5. Carries(p)
    BY <1>1, <2>2, <2>4 DEF Carries, Answered
  <2>6. QED
    BY <1>1, <2>1, <2>4, <2>5, OneRequest
<1>4. CASE FindReservation(k) = {}
  <2> DEFINE p == [q EXCEPT !.phase = "skipping", !.until = clock + ttl, !.now = clock]
  <2>1. req' = [req EXCEPT ![r] = p]
    BY <1>4 DEF Reserve
  <2>2. clock + ttl \in Nat /\ clock + ttl # 0
    BY <1>1
  <2> HIDE DEF q
  <2>3. /\ p \in Req /\ p.phase = "skipping" /\ p.until # 0 /\ p.key = k /\ p.now = clock
    BY <1>1, <1>2, <2>2 DEF Req
  <2> HIDE DEF p
  <2>4. Carries(p)
    BY <1>1, <2>3 DEF Carries, Answered
  <2>5. QED
    BY <1>1, <2>1, <2>3, <2>4, OneRequest
<1>5. QED
  BY <1>3, <1>4

\* A row is selected that fits and that no other transaction has locked.
LEMMA SelectsInv ==
  ASSUME ReservationInv, NEW r \in Requests, req[r].phase \in {"skipping", "waiting"},
         NEW locked, NEW S, S = Found(r, locked), S # {}, Selects(r, Smallest(S)),
         S \cap Locked(Others(r)) = {},
         UNCHANGED <<cells, clock, worker, counters, released>>
  PROVE  ReservationInv'
<1> DEFINE c == Smallest(S)
           q == [req[r] EXCEPT !.phase = "selected", !.cell = c]
<1>1. c \in S
  BY SmallestIn DEF Found, Fitting
<1>2. c \in Cells /\ Available(cells[c], req[r].now) /\ c \notin Locked(Others(r))
  BY <1>1 DEF Found, Fitting
<1> HIDE DEF c
<1>3. req' = [req EXCEPT ![r] = q]
  BY DEF Selects, ReservationInv, Req, c
<1>4. req[r] \in Req /\ Carries(req[r])
  BY DEF ReservationInv
<1>5. /\ q \in Req /\ q.phase = "selected" /\ q.cell = c /\ q.until = req[r].until
      /\ q.key = req[r].key /\ q.now = req[r].now
  BY <1>2, <1>4 DEF Req
<1> HIDE DEF q
<1>6. Carries(q)
  BY <1>2, <1>4, <1>5 DEF Carries, Answered
<1>7. asked' \in 0..MaxAsked /\ faults' \in 0..MaxFaults
  BY DEF ReservationInv, counters
<1>8. QED
  BY <1>2, <1>3, <1>5, <1>6, <1>7, OneRequest

\* A request waits, with a clock reading of its own.
LEMMA WaitsInv ==
  ASSUME ReservationInv, NEW r \in Requests, req[r].phase = "skipping",
         req' = [req EXCEPT ![r].phase = "waiting", ![r].now = clock],
         UNCHANGED <<cells, clock, worker, counters, released>>
  PROVE  ReservationInv'
<1> DEFINE q == [req[r] EXCEPT !.phase = "waiting", !.now = clock]
<1>1. req[r] \in Req /\ Carries(req[r]) /\ clock \in Nat
  BY CellReservationAssumption DEF ReservationInv
<1>2. req' = [req EXCEPT ![r] = q]
  BY <1>1 DEF ReservationInv, Req
<1>3. /\ q \in Req /\ q.phase = "waiting" /\ q.until = req[r].until
      /\ q.key = req[r].key /\ q.now = clock
  BY <1>1 DEF Req
<1> HIDE DEF q
<1>4. Carries(q)
  BY <1>1, <1>3 DEF Carries, Answered
<1>5. asked' \in 0..MaxAsked /\ faults' \in 0..MaxFaults
  BY DEF ReservationInv, counters
<1>6. QED
  BY <1>2, <1>3, <1>4, <1>5, OneRequest

LEMMA SelectSkipLockedInv ==
  ASSUME ReservationInv, NEW r \in Requests, SelectSkipLocked(r)
  PROVE  ReservationInv'
<1> DEFINE S == Found(r, Locked(Others(r)))
<1>1. req[r].phase = "skipping" /\ UNCHANGED <<cells, clock, worker, counters, released>>
  BY DEF SelectSkipLocked
<1>2. CASE S # {} /\ Selects(r, Smallest(S))
  <2>1. S \cap Locked(Others(r)) = {}
    BY DEF Found
  <2>2. QED
    BY <1>1, <1>2, <2>1, SelectsInv
<1>3. CASE FindReservation(req[r].key) # {} /\ Replies(r, FindReservation(req[r].key))
  BY <1>1, <1>3, RepliesInv
<1>4. CASE req' = [req EXCEPT ![r].phase = "waiting", ![r].now = clock]
  BY <1>1, <1>4, WaitsInv
<1>5. QED
  BY <1>2, <1>3, <1>4 DEF SelectSkipLocked

LEMMA SelectWaitingInv ==
  ASSUME ReservationInv, NEW r \in Requests, SelectWaiting(r)
  PROVE  ReservationInv'
<1>1. /\ req[r].phase = "waiting" /\ Locked(Others(r)) \cap Fitting(req[r]) = {}
      /\ UNCHANGED <<cells, clock, worker, counters, released>>
  BY DEF SelectWaiting
<1>2. CASE FindReservation(req[r].key) # {} /\ Replies(r, FindReservation(req[r].key))
  BY <1>1, <1>2, RepliesInv
<1>3. CASE Found(r, {}) # {} /\ Selects(r, Smallest(Found(r, {})))
  <2>1. Found(r, {}) \cap Locked(Others(r)) = {}
    BY <1>1 DEF Found
  <2>2. QED
    BY <1>1, <1>3, <2>1, SelectsInv
<1>4. CASE Ends(r)
  <2>1. asked' \in 0..MaxAsked /\ faults' \in 0..MaxFaults
    BY <1>1 DEF ReservationInv, counters
  <2>2. QED
    BY <1>1, <1>4, <2>1, EndsInv
<1>5. QED
  BY <1>2, <1>3, <1>4 DEF SelectWaiting

\* A row that can be reserved holds no reservation that has not expired.
LEMMA AvailableFree ==
  ASSUME ReservationInv, NEW r \in Requests, req[r].phase = "selected"
  PROVE  LET row == cells[req[r].cell] IN
         row.order = NoOrder /\ ~(Reserved(row) /\ row.until >= clock)
<1>1. /\ Available(cells[req[r].cell], req[r].now) /\ req[r].now <= clock
      /\ req[r].now \in Nat /\ clock \in Nat /\ cells[req[r].cell].until \in Nat
  BY CellReservationAssumption DEF ReservationInv, Carries, Req, CellRow
<1>2. QED
  BY <1>1 DEF Available, IdleUnbound, Expired, Reserved

LEMMA CommitReserveInv ==
  ASSUME ReservationInv, NEW r \in Requests, CommitReserve(r)
  PROVE  ReservationInv'
<1> DEFINE q == req[r]
           c == req[r].cell
<1>1. /\ q \in Req /\ q.phase = "selected" /\ Carries(q) /\ c \in Cells
      /\ UNCHANGED <<clock, worker, counters, released>>
  BY DEF CommitReserve, ReservationInv, Carries
<1>2. CASE FindReservation(q.key) \ {c} # {}
  <2>1. FindReservation(q.key) # {} /\ Replies(r, FindReservation(q.key)) /\ UNCHANGED cells
    BY <1>2 DEF CommitReserve
  <2>2. QED
    BY <1>1, <2>1, RepliesInv
<1>3. CASE FindReservation(q.key) \ {c} = {}
  <2> DEFINE row == [cells[c] EXCEPT !.occ = "LOCKED", !.key = q.key, !.until = q.until]
             p == [q EXCEPT !.phase = "replied"]
  <2>1. cells[c] \in CellRow /\ cells[c].order = NoOrder
    BY <1>1, AvailableFree DEF ReservationInv
  <2>2. cells' = [cells EXCEPT ![c] = row] /\ req' = [req EXCEPT ![r] = p]
    <3>1. cells' = [cells EXCEPT ![c].occ = "LOCKED", ![c].key = q.key, ![c].until = q.until]
      BY <1>3 DEF CommitReserve, reserveCell
    <3>2. cells' = [cells EXCEPT ![c] = row]
      BY <1>1, <3>1 DEF ReservationInv, CellRow
    <3>3. QED
      BY <1>3, <3>2 DEF CommitReserve
  <2>3. q.key \in Keys /\ q.key # NoKey /\ q.until \in Nat /\ q.until # 0
    BY <1>1, CellTableAssumption DEF Carries, Req
  <2>4. /\ row \in CellRow /\ row.occ = "LOCKED" /\ row.order = NoOrder
        /\ row.key = q.key /\ row.until = q.until
    BY <2>1, <2>3 DEF CellRow, CellStatus
  <2>5. p \in Req /\ p.phase = "replied" /\ p.cell = c /\ p.key = q.key /\ p.until = q.until
        /\ p.now = q.now
    BY <1>1 DEF Req
  <2> HIDE DEF row, p
  <2>6. RowOK(row)
    BY <2>3, <2>4 DEF RowOK, Reserved
  <2>7. /\ req' \in [Requests -> Req] /\ req'[r] = p /\ cells'[c] = row
        /\ \A s \in Requests \ {r} : req'[s] = req[s]
    BY <1>1, <2>2, <2>5 DEF ReservationInv
  <2>8. Carries(req[r])'
    BY <1>1, <2>4, <2>5, <2>7 DEF Carries, Answered
  <2>9. \A s \in Requests \ {r} : req[s].phase = "selected" => req[s].cell # c
    BY <1>1 DEF ReservationInv, LocksHeld
  <2>10. c \notin worker.batch
    BY <1>1 DEF ReservationInv, LocksHeld
  <2>11. \A d \in Cells \ {c} : cells[d].key # row.key
    BY <1>3, <2>4 DEF FindReservation
  <2>12. ~(Reserved(cells[c]) /\ cells[c].until >= clock)
    BY <1>1, AvailableFree
  <2>13. released \subseteq released' /\ released' \subseteq Keys
    BY <1>1 DEF ReservationInv
  <2>14. \A s \in Requests :
           \/ req'[s] = req[s] /\ (req[s].phase = "selected" => req[s].cell # c)
           \/ Carries(req[s])' /\ req'[s].phase # "selected"
    BY <2>5, <2>7, <2>8, <2>9
  <2>15. QED
    BY <1>1, <2>2, <2>6, <2>7, <2>10, <2>11, <2>12, <2>13, <2>14, OneRow
<1>4. QED
  BY <1>2, <1>3

LEMMA AbandonDoneInv ==
  ASSUME ReservationInv, NEW r \in Requests, Abandon(r) \/ Done(r)
  PROVE  ReservationInv'
<1>1. /\ Ends(r) /\ UNCHANGED <<cells, clock, worker, released>>
      /\ asked' \in 0..MaxAsked /\ faults' \in 0..MaxFaults
  BY CellReservationAssumption DEF Abandon, Done, ReservationInv, counters
<1>2. QED
  BY <1>1, EndsInv

-----------------------------------------------------------------------------
\* Release.

LEMMA ReleaseInv ==
  ASSUME ReservationInv, NEW r \in Requests, NEW c \in Cells, NEW k \in Keys, Release(r, c, k)
  PROVE  ReservationInv'
<1> DEFINE q == [req[r] EXCEPT !.phase = "releasing", !.cell = c, !.key = k]
<1>1. /\ UNCHANGED <<cells, clock, worker, released>> /\ req[r] \in Req /\ Carries(req[r])
      /\ asked' \in 0..MaxAsked /\ faults' \in 0..MaxFaults
  BY CellReservationAssumption DEF Release, ReservationInv
<1>2. req' = [req EXCEPT ![r] = q]
  BY <1>1 DEF Release, ReservationInv, Req
<1>3. /\ q \in Req /\ q.phase = "releasing" /\ q.cell = c /\ q.key = k /\ q.now = req[r].now
  BY <1>1 DEF Req
<1> HIDE DEF q
<1>4. Carries(q)
  BY <1>1, <1>3 DEF Carries, Answered
<1>5. QED
  BY <1>1, <1>2, <1>3, <1>4, OneRequest

LEMMA UpdateReleaseInv ==
  ASSUME ReservationInv, NEW r \in Requests, UpdateRelease(r)
  PROVE  ReservationInv'
<1> DEFINE c == req[r].cell
<1>1. /\ req[r].phase = "releasing" /\ c \notin Locked(Others(r)) /\ Ends(r) /\ c \in Cells
      /\ UNCHANGED <<clock, worker, counters>>
  BY DEF UpdateRelease, ReservationInv, Carries
<1>2. CASE ~HeldBy(cells[c], req[r].key)
  <2>1. /\ UNCHANGED <<cells, released>>
        /\ asked' \in 0..MaxAsked /\ faults' \in 0..MaxFaults
    BY <1>1, <1>2 DEF UpdateRelease, ReservationInv, counters
  <2>2. QED
    BY <1>1, <2>1, EndsInv
<1>3. CASE HeldBy(cells[c], req[r].key)
  <2>1. cells' = freeCell(cells, {c}) /\ released' = released \cup {cells[c].key}
    BY <1>3 DEF UpdateRelease
  <2>2. cells' = [cells EXCEPT ![c] = IdleRow]
    BY <1>1, <2>1 DEF freeCell, ReservationInv
  <2>3. cells[c].key \in Keys
    BY <1>1, <1>3 DEF HeldBy, ReservationInv, Carries
  <2>4. /\ released \subseteq released' /\ released' \subseteq Keys /\ cells[c].key \in released'
    BY <2>1, <2>3 DEF ReservationInv
  <2>5. /\ req' \in [Requests -> Req] /\ req'[r] = IdleReq
        /\ \A s \in Requests \ {r} : req'[s] = req[s]
    BY <1>1, IdleReqType DEF Ends, ReservationInv
  <2>6. Carries(req[r])' /\ req'[r].phase # "selected"
    BY <1>1, <2>5, IdleReqType DEF Carries, Answered, ReservationInv
  <2>7. c \notin worker.batch /\ \A s \in Requests \ {r} : req[s].phase = "selected" => req[s].cell # c
    BY <1>1 DEF Locked, Selected, Others
  <2>8. \A s \in Requests :
           \/ req'[s] = req[s] /\ (req[s].phase = "selected" => req[s].cell # c)
           \/ Carries(req[s])' /\ req'[s].phase # "selected"
    BY <2>5, <2>6, <2>7
  <2>9. QED
    BY <1>1, <2>2, <2>4, <2>5, <2>7, <2>8, IdleRowOK, OneRow
<1>4. QED
  BY <1>2, <1>3

-----------------------------------------------------------------------------
\* The worker, the order domain and time.

LEMMA FirstExpiredHeld ==
  ASSUME ReservationInv
  PROVE  /\ FirstExpired \subseteq Cells /\ \A c \in FirstExpired : Expired(cells[c], clock)
         /\ \A r \in Requests : req[r].phase = "selected" => req[r].cell \notin FirstExpired
BY DEF FirstExpired, Locked, Selected

\* The worker takes up a batch that is free, or none.
LEMMA WorkerInv ==
  ASSUME ReservationInv,
         NEW phase \in {"resting", "reclaiming", "stopped"},
         NEW batch \in {{}, FirstExpired}, worker' = [phase |-> phase, batch |-> batch],
         asked' \in 0..MaxAsked, faults' \in 0..MaxFaults,
         UNCHANGED <<cells, clock, req, released>>
  PROVE  ReservationInv'
<1>1. worker' \in [phase : {"resting", "reclaiming", "stopped"}, batch : SUBSET Cells]
  BY FirstExpiredHeld
<1>2. worker'.batch = batch
  OBVIOUS
<1>3. LocksHeld'
  BY <1>2, FirstExpiredHeld DEF ReservationInv, LocksHeld
<1>4. /\ \A c \in Cells : RowOK(cells[c])'
      /\ \A r \in Requests : Carries(req[r])'
  BY DEF ReservationInv, Carries, Answered
<1>5. QED
  BY <1>1, <1>3, <1>4 DEF ReservationInv

LEMMA ReclaimExpiredInv ==
  ASSUME ReservationInv, ReclaimExpired
  PROVE  ReservationInv'
<1> DEFINE B == IF RowsBlock THEN {} ELSE worker.batch
<1>0. cells \in [Cells -> CellRow]
  BY DEF ReservationInv
<1>1. /\ cells' = freeCell(cells, B) /\ UNCHANGED <<clock, req, counters, released>>
      /\ B \in SUBSET Cells /\ B \subseteq worker.batch
  BY <1>0 DEF ReclaimExpired, ReservationInv, freeCell
<1>2. PICK phase \in {"resting", "stopped"} : worker' = [phase |-> phase, batch |-> {}]
  BY DEF ReclaimExpired, Rests
<1>3. \A c \in Cells : cells'[c] = IF c \in B THEN IdleRow ELSE cells[c]
  BY <1>1 DEF freeCell
<1>4. cells' \in [Cells -> CellRow] /\ \A c \in Cells : RowOK(cells'[c])
  BY <1>1, <1>3, IdleRowOK DEF freeCell, ReservationInv, RowOK
<1>5. \A c \in Cells : RowOK(cells[c])'
  BY <1>4 DEF RowOK, Reserved
<1>6. \A c, d \in Cells : Reserved(cells'[c]) /\ cells'[c].key = cells'[d].key => c = d
  <2>1. SUFFICES ASSUME NEW c \in Cells, NEW d \in Cells,
                        Reserved(cells'[c]), cells'[c].key = cells'[d].key
                 PROVE  c = d
    OBVIOUS
  <2>2. Reserved(cells'[d])
    BY <1>4, <2>1 DEF RowOK
  <2>3. cells'[c] = cells[c] /\ cells'[d] = cells[d]
    BY <1>3, <2>1, <2>2, IdleRowOK
  <2>4. QED
    BY <2>1, <2>3 DEF ReservationInv
<1>7. ASSUME NEW r \in Requests PROVE Carries(req[r])'
  <2>1. req[r] \in Req /\ Carries(req[r]) /\ clock \in Nat
    BY CellReservationAssumption DEF ReservationInv
  <2>2. Answered(req[r])'
    <3>1. SUFFICES ASSUME req[r].phase = "replied", req[r].until >= clock,
                          req[r].key \notin released
                   PROVE  /\ cells'[req[r].cell].key = req[r].key
                          /\ cells'[req[r].cell].until = req[r].until
      BY <1>1 DEF Answered
    <3>2. /\ req[r].cell \in Cells /\ cells[req[r].cell].key = req[r].key
          /\ cells[req[r].cell].until = req[r].until /\ req[r].until \in Nat
      BY <2>1, <3>1 DEF Carries, Answered, Req
    <3>3. ~Expired(cells[req[r].cell], clock)
      BY <2>1, <3>1, <3>2 DEF Expired
    <3>4. req[r].cell \notin B
      BY <3>3 DEF ReservationInv, LocksHeld
    <3>5. QED
      BY <1>3, <3>2, <3>4
  <2>3. req[r].phase = "selected" => req[r].cell \notin B
    BY DEF ReservationInv, LocksHeld
  <2>4. QED
    BY <1>1, <1>3, <2>1, <2>2, <2>3 DEF Carries
<1>8. LocksHeld'
  BY <1>1, <1>2 DEF ReservationInv, LocksHeld
<1>9. worker' \in [phase : {"resting", "reclaiming", "stopped"}, batch : SUBSET Cells]
  BY <1>2
<1>10. QED
  BY <1>1, <1>4, <1>5, <1>6, <1>7, <1>8, <1>9 DEF ReservationInv, counters

\* A row that is not locked and not reserved becomes another that is not reserved.
LEMMA OrderRowInv ==
  ASSUME ReservationInv, NEW c \in Cells, NEW row, RowOK(row), ~Reserved(row),
         ~Reserved(cells[c]), cells' = [cells EXCEPT ![c] = row], c \notin Locked(Requests),
         UNCHANGED <<clock, req, worker, counters, released>>
  PROVE  ReservationInv'
<1>1. /\ c \notin worker.batch
      /\ \A s \in Requests : req[s].phase = "selected" => req[s].cell # c
  BY DEF Locked, Selected
<1>2. /\ released \subseteq released' /\ released' \subseteq Keys /\ req' \in [Requests -> Req]
  BY DEF ReservationInv
<1>3. \A s \in Requests :
        \/ req'[s] = req[s] /\ (req[s].phase = "selected" => req[s].cell # c)
        \/ Carries(req[s])' /\ req'[s].phase # "selected"
  BY <1>1
<1>4. QED
  BY <1>1, <1>2, <1>3, OneRow

LEMMA BindOrderInv ==
  ASSUME ReservationInv, NEW o \in Orders, NEW c \in Cells, BindOrder(o, c)
  PROVE  ReservationInv'
<1> DEFINE row == [cells[c] EXCEPT !.occ = "LOCKED", !.order = o]
<1>1. /\ IdleUnbound(cells[c]) /\ c \notin Locked(Requests)
      /\ UNCHANGED <<clock, req, worker, counters, released>>
      /\ cells[c] \in CellRow /\ RowOK(cells[c])
  BY DEF BindOrder, ReservationInv
<1>2. cells' = [cells EXCEPT ![c] = row]
  BY DEF BindOrder, bindCell
<1>3. ~Reserved(cells[c]) /\ cells[c].key = NoKey /\ cells[c].until = 0
  BY <1>1 DEF IdleUnbound, Reserved, RowOK
<1>4. /\ row \in CellRow /\ row.occ = "LOCKED" /\ row.order = o /\ o # NoOrder
      /\ row.key = NoKey /\ row.until = 0
  BY <1>1, <1>3, CellTableAssumption DEF CellRow, CellStatus
<1> HIDE DEF row
<1>5. RowOK(row) /\ ~Reserved(row)
  BY <1>4 DEF RowOK, Reserved
<1>6. QED
  BY <1>1, <1>2, <1>3, <1>5, OrderRowInv

LEMMA UpdateOrderInv ==
  ASSUME ReservationInv, NEW o \in Orders, NEW c \in Cells, UpdateOrder(o, c)
  PROVE  ReservationInv'
<1>1. /\ cells[c].order = o /\ o # NoOrder /\ c \notin Locked(Requests)
      /\ UNCHANGED <<clock, req, worker, counters, released>>
      /\ cells[c] \in CellRow /\ RowOK(cells[c])
  BY CellTableAssumption DEF UpdateOrder, ReservationInv
<1>2. ~Reserved(cells[c]) /\ cells[c].key = NoKey /\ cells[c].until = 0
  BY <1>1 DEF Reserved, RowOK
<1>3. CASE cells' = occupyCell(cells, c, o)
  <2> DEFINE row == [cells[c] EXCEPT !.occ = "OCCUPIED"]
  <2>1. cells' = [cells EXCEPT ![c] = row]
    BY <1>1, <1>3 DEF occupyCell
  <2>2. /\ row \in CellRow /\ row.occ = "OCCUPIED" /\ row.order = o
        /\ row.key = NoKey /\ row.until = 0
    BY <1>1, <1>2 DEF CellRow, CellStatus
  <2> HIDE DEF row
  <2>3. RowOK(row) /\ ~Reserved(row)
    BY <1>1, <2>2 DEF RowOK, Reserved
  <2>4. QED
    BY <1>1, <1>2, <2>1, <2>3, OrderRowInv
<1>4. CASE cells' = releaseCell(cells, c, o)
  <2>1. cells' = [cells EXCEPT ![c] = IdleRow]
    BY <1>1, <1>4 DEF releaseCell
  <2>2. QED
    BY <1>1, <1>2, <2>1, IdleRowOK, OrderRowInv
<1>5. QED
  BY <1>3, <1>4 DEF UpdateOrder

LEMMA TickInv ==
  ASSUME ReservationInv, Tick
  PROVE  ReservationInv'
<1>1. /\ clock' = clock + 1 /\ clock' \in 1..MaxTime /\ clock \in Nat
      /\ UNCHANGED <<cells, req, worker, counters, released>>
  BY CellReservationAssumption DEF Tick, ReservationInv
<1>2. \A r \in Requests : Carries(req[r])'
  BY <1>1 DEF ReservationInv, Carries, Answered, Req
<1>3. LocksHeld'
  <2>1. \A c \in worker.batch : Expired(cells[c], clock) /\ cells[c].until \in Nat
    BY DEF ReservationInv, LocksHeld, CellRow
  <2>2. \A c \in worker.batch : Expired(cells[c], clock + 1)
    BY <1>1, <2>1 DEF Expired
  <2>3. QED
    BY <1>1, <2>2 DEF ReservationInv, LocksHeld
<1>4. \A c \in Cells : RowOK(cells[c])'
  BY <1>1 DEF ReservationInv
<1>5. QED
  BY <1>1, <1>2, <1>3, <1>4 DEF ReservationInv, counters

-----------------------------------------------------------------------------
\* The specification.

LEMMA ReservationInvInit == Init => ReservationInv
<1> SUFFICES ASSUME Init PROVE ReservationInv
  OBVIOUS
<1>1. cells \in [Cells -> CellRow] /\ \A c \in Cells : RowOK(cells[c]) /\ ~Reserved(cells[c])
  BY IdleRowOK DEF Init, RowOK
<1>2. clock \in 1..MaxTime /\ asked \in 0..MaxAsked /\ faults \in 0..MaxFaults
  BY CellReservationAssumption DEF Init
<1>3. \A r \in Requests : req[r] = IdleReq
  BY DEF Init
<1>4. req \in [Requests -> Req] /\ \A r \in Requests : Carries(req[r])
  BY <1>3, IdleReqType DEF Init, Carries, Answered
<1>5. LocksHeld
  BY <1>3, IdleReqType DEF Init, LocksHeld
<1>6. worker \in [phase : {"resting", "reclaiming", "stopped"}, batch : SUBSET Cells]
  BY DEF Init
<1>7. QED
  BY <1>1, <1>2, <1>4, <1>5, <1>6 DEF Init, ReservationInv

LEMMA WorkInv ==
  ASSUME ReservationInv, Work \/ ReclaimFails
  PROVE  ReservationInv'
<1>1. CASE RunOnce
  BY <1>1, WorkerInv DEF RunOnce, Reclaims, counters, ReservationInv
<1>2. CASE Restart
  BY <1>2, WorkerInv DEF Restart, Rests, counters, ReservationInv
<1>3. CASE ReclaimFails
  <2>1. faults' \in 0..MaxFaults /\ asked' \in 0..MaxAsked
    BY <1>3, CellReservationAssumption DEF ReclaimFails, ReservationInv
  <2>2. QED
    BY <1>3, <2>1, WorkerInv DEF ReclaimFails, Rests
<1>4. QED
  BY <1>1, <1>2, <1>3, ReclaimExpiredInv DEF Work

LEMMA ReservationInvStep == ReservationInv /\ [Next]_vars => ReservationInv'
<1> SUFFICES ASSUME ReservationInv, [Next]_vars PROVE ReservationInv'
  OBVIOUS
<1>1. ASSUME NEW r \in Requests, Serve(r) \/ Abandon(r) PROVE ReservationInv'
  BY <1>1, SelectSkipLockedInv, SelectWaitingInv, CommitReserveInv, UpdateReleaseInv,
     AbandonDoneInv DEF Serve
<1>2. ASSUME NEW r \in Requests, NEW k \in Keys, NEW c \in Cells,
             Release(r, c, k) \/ \E t \in TTLs : Reserve(r, k, c, t)
      PROVE  ReservationInv'
  BY <1>2, ReleaseInv, ReserveInv
<1>3. CASE Work \/ ReclaimFails
  BY <1>3, WorkInv
<1>4. CASE Tick
  BY <1>4, TickInv
<1>5. ASSUME NEW o \in Orders, NEW c \in Cells, BindOrder(o, c) \/ UpdateOrder(o, c)
      PROVE  ReservationInv'
  BY <1>5, BindOrderInv, UpdateOrderInv
<1>6. CASE UNCHANGED vars
  <2>1. UNCHANGED <<cells, clock, req, worker, asked, faults, released>>
    BY <1>6 DEF vars, counters
  <2>2. /\ \A c \in Cells : RowOK(cells[c])'
        /\ \A r \in Requests : Carries(req[r])'
    BY <2>1 DEF ReservationInv, Carries, Answered
  <2>3. LocksHeld'
    BY <2>1 DEF ReservationInv, LocksHeld
  <2>4. QED
    BY <2>1, <2>2, <2>3 DEF ReservationInv
<1>7. QED
  BY <1>1, <1>2, <1>3, <1>4, <1>5, <1>6 DEF Next

LEMMA ReservationInvAlways == Spec => []ReservationInv
<1>1. QED
  BY ReservationInvInit, ReservationInvStep, PTL DEF Spec

\* Every variable keeps its type, a key has one reservation at most, and a row
\* an allocation has selected stays what it was selected for.
THEOREM Typing == Spec => []TypeOK
<1>1. QED
  BY InvTypes, ReservationInvAlways, PTL

\* No two keys are both told they hold one cell, but after a release.
THEOREM HoldersDiffer == Spec => []OneHolder
<1>1. ReservationInv => OneHolder
  <2>1. SUFFICES ASSUME ReservationInv, NEW r \in Requests, NEW s \in Requests,
                        req[r].phase = "replied", req[s].phase = "replied",
                        req[r].cell = req[s].cell, req[r].key # req[s].key,
                        req[r].until >= clock, req[s].until >= clock
                 PROVE  {req[r].key, req[s].key} \cap released # {}
    BY DEF OneHolder
  <2>2. Answered(req[r]) /\ Answered(req[s])
    BY <2>1 DEF ReservationInv, Carries
  <2>3. QED
    BY <2>1, <2>2 DEF Answered
<1>2. QED
  BY <1>1, ReservationInvAlways, PTL

KeepsHeld(c) ==
  Reserved(cells[c]) /\ cells[c].until >= clock /\ cells'[c] # cells[c] =>
    \E r \in Requests :
      req[r].phase = "releasing" /\ req[r].cell = c /\ req[r].key = cells[c].key

LEMMA KeepsHeldStep ==
  ASSUME ReservationInv, Next, NEW c \in Cells
  PROVE  KeepsHeld(c)
<1>1. CASE UNCHANGED cells
  BY <1>1 DEF KeepsHeld
<1>2. cells \in [Cells -> CellRow] /\ clock \in Nat /\ cells[c].until \in Nat
  BY CellReservationAssumption DEF ReservationInv, CellRow
<1>3. ASSUME NEW r \in Requests, CommitReserve(r) PROVE KeepsHeld(c)
  <2>1. CASE c = req[r].cell
    BY <1>3, <2>1, AvailableFree DEF CommitReserve, KeepsHeld
  <2>2. CASE c # req[r].cell
    <3>1. cells'[c] = cells[c]
      BY <1>2, <1>3, <2>2 DEF CommitReserve, reserveCell
    <3>2. QED
      BY <3>1 DEF KeepsHeld
  <2>3. QED
    BY <2>1, <2>2
<1>4. ASSUME NEW r \in Requests, UpdateRelease(r) PROVE KeepsHeld(c)
  <2>1. CASE HeldBy(cells[req[r].cell], req[r].key) /\ c = req[r].cell
    BY <1>4, <2>1 DEF UpdateRelease, KeepsHeld, HeldBy
  <2>2. CASE ~(HeldBy(cells[req[r].cell], req[r].key) /\ c = req[r].cell)
    <3>1. cells'[c] = cells[c]
      BY <1>2, <1>4, <2>2 DEF UpdateRelease, freeCell
    <3>2. QED
      BY <3>1 DEF KeepsHeld
  <2>3. QED
    BY <2>1, <2>2
<1>5. CASE ReclaimExpired
  <2>1. c \in worker.batch => cells[c].until < clock
    BY DEF ReservationInv, LocksHeld, Expired
  <2>2. c \notin worker.batch => cells'[c] = cells[c]
    BY <1>5 DEF ReclaimExpired, freeCell
  <2>3. QED
    BY <1>2, <2>1, <2>2 DEF KeepsHeld
<1>6. ASSUME NEW o \in Orders, NEW d \in Cells, BindOrder(o, d) \/ UpdateOrder(o, d)
      PROVE  KeepsHeld(c)
  <2>1. ~Reserved(cells[d])
    BY <1>6, CellTableAssumption DEF BindOrder, UpdateOrder, IdleUnbound, Reserved
  <2>2. c # d => cells'[c] = cells[c]
    BY <1>2, <1>6 DEF BindOrder, UpdateOrder, bindCell, occupyCell, releaseCell
  <2>3. QED
    BY <2>1, <2>2 DEF KeepsHeld
<1>7. ASSUME NEW r \in Requests, Serve(r) \/ Abandon(r) PROVE KeepsHeld(c)
  BY <1>1, <1>3, <1>4, <1>7 DEF Serve, SelectSkipLocked, SelectWaiting, Done, Abandon
<1>8. ASSUME NEW r \in Requests, NEW k \in Keys, NEW d \in Cells,
             Release(r, d, k) \/ \E t \in TTLs : Reserve(r, k, d, t)
      PROVE  KeepsHeld(c)
  BY <1>1, <1>8 DEF Release, Reserve
<1>9. CASE Work \/ ReclaimFails \/ Tick
  BY <1>1, <1>5, <1>9 DEF Work, RunOnce, Restart, ReclaimFails, Tick
<1>10. QED
  BY <1>6, <1>7, <1>8, <1>9 DEF Next

\* Until it has expired a reservation ends by the release of its own key only.
THEOREM HeldTillThen == Spec => HeldUntilExpiry
<1>1. ReservationInv /\ [Next]_vars => [\A c \in Cells : KeepsHeld(c)]_cells
  BY KeepsHeldStep DEF vars
<1>2. ReservationInv /\ [Next]_vars =>
        [\A c \in Cells :
           Reserved(cells[c]) /\ cells[c].until >= clock /\ cells'[c] # cells[c] =>
             \E r \in Requests :
               req[r].phase = "releasing" /\ req[r].cell = c /\ req[r].key = cells[c].key]_cells
  BY <1>1 DEF KeepsHeld
<1>3. QED
  BY <1>2, ReservationInvAlways, PTL DEF Spec, HeldUntilExpiry
=============================================================================
