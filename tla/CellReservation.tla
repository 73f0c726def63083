-------------------------- MODULE CellReservation ---------------------------
(***************************************************************************)
(* The reservation domain: internal requests that reserve a cell under an  *)
(* idempotency key for a time and release it, and the worker that takes    *)
(* back what has expired.  The order domain allocates from the same table; *)
(* its updates of a cell are taken from CellTable.                         *)
(*                                                                         *)
(* A step is one statement or one stretch of Go code between two of them.  *)
(* The rows a transaction has selected FOR UPDATE stay locked until its    *)
(* commit: SKIP LOCKED passes them over, another statement waits.          *)
(***************************************************************************)
EXTENDS CellTable, FiniteSets

CONSTANTS Requests,  \* requests in service at a time
          TTLs,      \* times a reservation can be asked for
          Batch,     \* the worker's limit
          RowsBlock, \* whether the MySQL driver refuses a statement on a connection whose
                     \* rows are not read to their end: TRUE of go-sql-driver/mysql v1.8.1
          MaxTime, MaxAsked, MaxFaults  \* bounds on the clock, the requests, their failures

ASSUME CellReservationAssumption ==
  /\ Cells # {} /\ TTLs \subseteq Nat \ {0} /\ RowsBlock \in BOOLEAN
  /\ {Batch, MaxTime} \subseteq Nat \ {0} /\ {MaxAsked, MaxFaults} \subseteq Nat

NoCell == 0

VARIABLES cells,   \* the table locker_cells
          clock,
          req,     \* the requests
          worker,  \* the worker: what it does, and the cells it has locked
          asked, faults,
          released \* ghost: keys whose reservation a release has ended

counters == <<asked, faults>>
vars == <<cells, clock, req, worker, counters, released>>

\* At phase the request is about to run: the skipping or the waiting SELECT, the
\* UPDATE and COMMIT of the cell it has selected, the UPDATE of a release.
Req == [phase : {"idle", "skipping", "waiting", "selected", "releasing", "replied"},
        key : Keys \cup {NoKey}, site : {SiteOf[c] : c \in Cells}, size : {SizeOf[c] : c \in Cells},
        until : Nat, now : Nat, cell : Cells \cup {NoCell}]

IdleReq == [phase |-> "idle", key |-> NoKey, site |-> SiteOf[CHOOSE c \in Cells : TRUE],
            size |-> SizeOf[CHOOSE c \in Cells : TRUE], until |-> 0, now |-> 0, cell |-> NoCell]

Init ==
  /\ cells = [c \in Cells |-> IdleRow]
  /\ clock = 1
  /\ req = [r \in Requests |-> IdleReq]
  /\ worker = [phase |-> "resting", batch |-> {}]
  /\ asked = 0 /\ faults = 0 /\ released = {}

-----------------------------------------------------------------------------
\* The table.

\* Faulty variant: the instant of expiry counts as past it.
Expired_AtExpiry(row, now) ==
  row.occ = "LOCKED" /\ row.order = NoOrder /\ row.until # 0 /\ row.until <= now

Expired(row, now) ==
  row.occ = "LOCKED" /\ row.order = NoOrder /\ row.until # 0 /\ row.until < now

\* Faulty variant: any reservation without an order can be taken.
Available_AnyLock(row, now) == row.order = NoOrder /\ row.occ \in {"IDLE", "LOCKED"}

Available(row, now) == IdleUnbound(row) \/ Expired(row, now)

HeldBy(row, k) == row.key = k /\ row.occ = "LOCKED" /\ row.order = NoOrder

freeCell(table, cs) == [c \in Cells |-> IF c \in cs THEN IdleRow ELSE table[c]]

reserveCell(table, c, k, until) ==
  [table EXCEPT ![c].occ = "LOCKED", ![c].key = k, ![c].until = until]

FindReservation(k) == {c \in Cells : cells[c].key = k}

\* A SELECT FOR UPDATE of Reserve locks the device and the site it joins too.
Selected(rs) == {req[r].cell : r \in {s \in rs : req[s].phase = "selected"}}
Locked(rs) == Selected(rs) \cup worker.batch
Others(r) == Requests \ {r}
SiteLocked(r) == \E c \in Selected(Others(r)) : SiteOf[c] = req[r].site

Fitting(q) == {c \in Cells : SiteOf[c] = q.site /\ SizeOf[c] = q.size}
Smallest(cs) == CHOOSE c \in cs : \A d \in cs : c <= d

-----------------------------------------------------------------------------
\* Reserve.

\* The reply says what the row says, whatever has been asked for.
Replies(r, cs) ==
  LET c == Smallest(cs) IN
  req' = [req EXCEPT ![r].phase = "replied", ![r].cell = c, ![r].until = cells[c].until]

Ends(r) == req' = [req EXCEPT ![r] = IdleReq]

\* FindReservation of the use case and of the repository; the expiry is counted
\* from the use case's clock, the availability from the repository's.
Reserve(r, k, c, ttl) ==
  LET q == [IdleReq EXCEPT !.key = k, !.site = SiteOf[c], !.size = SizeOf[c]] IN
  /\ req[r].phase = "idle"
  /\ asked < MaxAsked /\ asked' = asked + 1
  /\ IF FindReservation(k) # {}
     THEN LET d == Smallest(FindReservation(k)) IN
          req' = [req EXCEPT ![r] = [q EXCEPT !.phase = "replied", !.cell = d,
                                              !.until = cells[d].until]]
     ELSE req' = [req EXCEPT ![r] = [q EXCEPT !.phase = "skipping", !.until = clock + ttl,
                                              !.now = clock]]
  /\ UNCHANGED <<cells, clock, worker, faults, released>>

Found(r, locked) ==
  {c \in Fitting(req[r]) : Available(cells[c], req[r].now)} \ locked

Selects(r, c) == req' = [req EXCEPT ![r].phase = "selected", ![r].cell = c]

\* No row, and there is none either when no device is fit for use: the key is
\* looked for once more, then a second SELECT waits.
SelectSkipLocked(r) ==
  LET found == IF SiteLocked(r) THEN {} ELSE Found(r, Locked(Others(r))) IN
  /\ req[r].phase = "skipping"
  /\ \/ found # {} /\ Selects(r, Smallest(found))
     \/ FindReservation(req[r].key) # {} /\ Replies(r, FindReservation(req[r].key))
     \/ /\ FindReservation(req[r].key) = {}
        /\ req' = [req EXCEPT ![r].phase = "waiting", ![r].now = clock]
  /\ UNCHANGED <<cells, clock, worker, counters, released>>

\* Once nothing it wants is locked; the key's own row comes first.
SelectWaiting(r) ==
  /\ req[r].phase = "waiting"
  /\ ~SiteLocked(r) /\ Locked(Others(r)) \cap Fitting(req[r]) = {}
  /\ \/ FindReservation(req[r].key) # {} /\ Replies(r, FindReservation(req[r].key))
     \/ /\ FindReservation(req[r].key) = {}
        /\ \/ Found(r, {}) # {} /\ Selects(r, Smallest(Found(r, {})))
           \/ Ends(r)
  /\ UNCHANGED <<cells, clock, worker, counters, released>>

\* Faulty variant: nothing keeps a key from being in two rows.
CommitReserve_NoIndex(r) ==
  LET q == req[r] IN
  /\ q.phase = "selected"
  /\ cells' = reserveCell(cells, q.cell, q.key, q.until)
  /\ req' = [req EXCEPT ![r].phase = "replied"]
  /\ UNCHANGED <<clock, worker, counters, released>>

\* The unique index refuses a key another row has: that row is the reply.  The
\* UPDATE repeats the SELECT's conditions on a row that is locked since.
CommitReserve(r) ==
  LET q == req[r] IN
  /\ q.phase = "selected"
  /\ IF FindReservation(q.key) \ {q.cell} # {}
     THEN Replies(r, FindReservation(q.key)) /\ UNCHANGED cells
     ELSE /\ cells' = reserveCell(cells, q.cell, q.key, q.until)
          /\ req' = [req EXCEPT ![r].phase = "replied"]
  /\ UNCHANGED <<clock, worker, counters, released>>

\* A statement fails, or the request is cancelled or dies: a rollback.
Abandon(r) ==
  /\ req[r].phase \notin {"idle", "replied"}
  /\ faults < MaxFaults /\ faults' = faults + 1
  /\ Ends(r)
  /\ UNCHANGED <<cells, clock, worker, asked, released>>

\* The caller has read the reply and made use of it.
Done(r) ==
  /\ req[r].phase = "replied"
  /\ Ends(r)
  /\ UNCHANGED <<cells, clock, worker, counters, released>>

-----------------------------------------------------------------------------
\* Release: the row is read, then updated on the same conditions.

Release(r, c, k) ==
  /\ req[r].phase = "idle"
  /\ asked < MaxAsked /\ asked' = asked + 1
  /\ HeldBy(cells[c], k)
  /\ req' = [req EXCEPT ![r].phase = "releasing", ![r].cell = c, ![r].key = k]
  /\ UNCHANGED <<cells, clock, worker, faults, released>>

UpdateRelease(r) ==
  LET c == req[r].cell IN
  /\ req[r].phase = "releasing" /\ c \notin Locked(Others(r))
  /\ IF HeldBy(cells[c], req[r].key)
     THEN cells' = freeCell(cells, {c}) /\ released' = released \cup {cells[c].key}
     ELSE UNCHANGED <<cells, released>>
  /\ Ends(r)
  /\ UNCHANGED <<clock, worker, counters>>

-----------------------------------------------------------------------------
\* The worker.

\* The first cells of those that are expired and that nobody has locked.
FirstExpired ==
  LET found == {c \in Cells : Expired(cells[c], clock)} \ Locked(Requests) IN
  {c \in found : Cardinality({d \in found : d < c}) < Batch}

Reclaims(batch) == worker' = [phase |-> "reclaiming", batch |-> batch]
Rests(phase) == worker' = [phase |-> phase, batch |-> {}]

\* Its ticker, its start, or the batch after a full one; nothing found changes nothing.
RunOnce ==
  /\ worker.phase = "resting" /\ FirstExpired # {}
  /\ Reclaims(FirstExpired)
  /\ UNCHANGED <<cells, clock, req, counters, released>>

\* Each row is updated between two reads of the rows, on their connection: refused,
\* the transaction rolls back, Run returns the error and the process ends.
ReclaimExpired ==
  /\ worker.phase = "reclaiming"
  /\ IF RowsBlock THEN Rests("stopped") /\ UNCHANGED cells
                  ELSE Rests("resting") /\ cells' = freeCell(cells, worker.batch)
  /\ UNCHANGED <<clock, req, counters, released>>

\* Any other failure of the transaction ends the process too.
ReclaimFails ==
  /\ worker.phase = "reclaiming"
  /\ faults < MaxFaults /\ faults' = faults + 1
  /\ Rests("stopped")
  /\ UNCHANGED <<cells, clock, req, asked, released>>

\* The container is restarted.
Restart ==
  /\ worker.phase = "stopped"
  /\ Rests("resting")
  /\ UNCHANGED <<cells, clock, req, counters, released>>

-----------------------------------------------------------------------------
\* The order domain and time.

\* Its allocation skips locked rows, those of the device included.
BindOrder(o, c) ==
  /\ IdleUnbound(cells[c]) /\ \A d \in Cells : cells[d].order # o
  /\ c \notin Locked(Requests) /\ \A d \in Selected(Requests) : DeviceOf[d] # DeviceOf[c]
  /\ cells' = bindCell(cells, c, o)
  /\ UNCHANGED <<clock, req, worker, counters, released>>

UpdateOrder(o, c) ==
  /\ cells[c].order = o /\ c \notin Locked(Requests)
  /\ \/ cells' = occupyCell(cells, c, o)
     \/ cells' = releaseCell(cells, c, o)
  /\ UNCHANGED <<clock, req, worker, counters, released>>

Tick ==
  /\ clock < MaxTime
  /\ clock' = clock + 1
  /\ UNCHANGED <<cells, req, worker, counters, released>>

Work == RunOnce \/ ReclaimExpired \/ Restart
Serve(r) == SelectSkipLocked(r) \/ SelectWaiting(r) \/ CommitReserve(r) \/ UpdateRelease(r) \/ Done(r)

Next ==
  \/ \E r \in Requests :
       \/ Serve(r) \/ Abandon(r)
       \/ \E k \in Keys, c \in Cells : Release(r, c, k) \/ \E t \in TTLs : Reserve(r, k, c, t)
  \/ Work \/ ReclaimFails \/ Tick
  \/ \E o \in Orders, c \in Cells : BindOrder(o, c) \/ UpdateOrder(o, c)

Spec == Init /\ [][Next]_vars

\* The server answers, the ticker ticks and the container is restarted.
FairSpec == Spec /\ WF_vars(Work) /\ \A r \in Requests : WF_vars(Serve(r))

-----------------------------------------------------------------------------
\* Properties.

Reserved(row) == row.occ = "LOCKED" /\ row.order = NoOrder

\* A row is idle, a reservation or an order's, a key has one reservation, and a
\* selected cell stays what it was selected for.
TypeOK ==
  /\ cells \in [Cells -> CellRow]
  /\ \A c \in Cells : /\ Reserved(cells[c]) <=> cells[c].key # NoKey
                      /\ Reserved(cells[c]) <=> cells[c].until # 0
                      /\ cells[c].occ = "IDLE" => cells[c].order = NoOrder
  /\ \A c, d \in Cells : Reserved(cells[c]) /\ cells[c].key = cells[d].key => c = d
  /\ clock \in 1..MaxTime
  /\ req \in [Requests -> Req]
  /\ \A r \in Requests :
       req[r].phase = "selected" => Available(cells[req[r].cell], req[r].now)
  /\ worker \in [phase : {"resting", "reclaiming", "stopped"}, batch : SUBSET Cells]
  /\ asked \in 0..MaxAsked /\ faults \in 0..MaxFaults /\ released \subseteq Keys

(***************************************************************************)
(* Until it has expired a reservation is ended by the release of its own   *)
(* key and by nothing else: not by another key, an order or the worker,    *)
(* however old the conditions they have read.                              *)
(***************************************************************************)
HeldUntilExpiry ==
  [][\A c \in Cells :
       Reserved(cells[c]) /\ cells[c].until >= clock /\ cells'[c] # cells[c] =>
         \E r \in Requests :
           req[r].phase = "releasing" /\ req[r].cell = c /\ req[r].key = cells[c].key]_cells

(***************************************************************************)
(* Two requests with different keys are never both told that they hold one *)
(* cell for a time still to come, unless one of the keys has been released *)
(* meanwhile.                                                              *)
(***************************************************************************)
OneHolder ==
  \A r, s \in Requests :
    /\ req[r].phase = "replied" /\ req[s].phase = "replied"
    /\ req[r].cell = req[s].cell /\ req[r].key # req[s].key
    /\ req[r].until >= clock /\ req[s].until >= clock
    => {req[r].key, req[s].key} \cap released # {}

(***************************************************************************)
(* An expired reservation ends though nobody asks for its cell: the worker *)
(* frees it, working in batches and restarted when it stops.  The test     *)
(* internal/locker/data/repository_integration_test.go:158 expects one     *)
(* expired reservation to be reclaimed without an error.                   *)
(***************************************************************************)
ExpiredEnds == \A c \in Cells : Expired(cells[c], clock) ~> ~Expired(cells[c], clock)
=============================================================================
