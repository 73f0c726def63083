# Verification of the smart parcel locker

TLA+ models of the backend, the mini program and the Figma plugin of this
repository, TLC runs that check them on small instances, and TLAPS proofs for every
value of the constants. Paths below are relative to the root of the repository.

## The system

The backend is a Go service (`app/api`) and a worker (`app/worker`) over one MySQL
database; Redis holds caches that are never authoritative. Every HTTP request is
served by a goroutine of its own, so everything below interleaves, also between
several API processes: the only mutual exclusion is MySQL's row locks. The mini
program (`frontend`) is a client of the service over an unreliable network. The
Figma plugin (`tools/figma-plugin`) is apart: it writes design resources into a
document that its user edits too.

| component | state | operations | interacts with |
|---|---|---|---|
| order (`internal/order`) | tables `orders`, `order_status_logs`; the order columns of `locker_cells` | create, get, list, cancel, development payment, deposit door, pickup door, settle overdue | binds and releases cells; calls the door gateway |
| reservation (`internal/locker`) | the reservation columns of `locker_cells`; a Redis marker per reservation | reserve, release, reclaim expired | the same cell rows as orders; reads sites and devices |
| reclaim worker (`internal/locker/biz/reclaimer.go`, `app/worker`) | none | a pass every 30 s, in batches of 100 | calls reclaim of reservation |
| device (`internal/device`) | tables `device_commands`, `locker_devices` | heartbeat, execute command, get command | calls the gateway; its heartbeats decide which cells can be reserved |
| site (`internal/site`) | candidate cache in Redis, 30 s | cities, nearby sites, site with availability, cells | reads the tables the others write |
| platform and server (`internal/platform`, `internal/server`, `internal/conf`) | none | readiness probes, internal token, configuration | MySQL, Redis |
| order pages (`frontend/apps/miniapp/src/pages`, `features/orders`, `packages/api-client`, `packages/domain-ui`) | per mounted page the order it shows, its loading state, its flags and the phase of its door; the stack of pages | open, go back, retry, poll, pay, cancel, open a door, settle | the order API; replies late, out of order or lost |
| active order (`active-order-store.ts`, home and confirmation page) | the id in memory and in the device's storage | hydrate, set, clear, place an order | the order API; the app can be killed |
| site pages (`features/sites`, `features/location`, pages home, sites, location, site-detail) | the city and the place of the store; what each tab holds | position, list, choose a city, show a site | the site API, the positioning of the platform |
| Figma plugin (`tools/figma-plugin`) | the document's resources, keyed by plugin data, and the markers of complete stages; the window's checkbox and buttons | four stages, each a sequence of upserts | its user, who edits the document and can close the plugin |

Orders and reservations are two domains that meet only in the table `locker_cells`:
the order domain allocates an `IDLE` cell directly and never turns a reservation
into an order.

What is hard in it, and what makes it correct:

* **order**: each use case reads without a lock, may compute from the clock, may
  open a door, and only then runs a transaction that locks the order. Correct
  means that the tables agree whatever interleaves, that doors open only for the
  order their cell belongs to, that the log tells the history, that nobody pays a
  penalty that is not owed, and that cells come back.
* **reservation**: a find, a `SKIP LOCKED` attempt, a find again, a waiting attempt
  with a find of its own, with a unique key to break ties; release and reclaim are
  conditional updates after a read. Correct means one holder per cell and one
  cell per key, and that nobody frees another's cell.
* **worker**: it passes over locked rows and dies of the first database error. Correct
  means that an expired reservation still ends. It does not: the driver refuses the
  worker's updates (`reclaim_never_commits`).
* **device**: a command is found or created, marked running, executed at the
  gateway and completed in separate statements; a repeat can arrive between
  any two, and so can a crash. Correct means one execution per key and a record
  that tells what was done.
* **site**: a cache nothing invalidates; correct means stale for at most its TTL.
* **order pages**: polls and actions overtake each other, a reply is lost after the
  service has acted, a page is left while it waits. Correct means that no page claims
  what has not happened, none waits for ever, and each comes to show the end of its order.
* **active order**: creations carry no idempotency key; the app is killed between a
  creation and the record of it. Correct means that no order is placed behind the
  user's back and the last one told is followed.
* **site pages**: two tabs react to one store and nothing is cancelled. Correct means
  that a tab shows the city it names and no skeleton stays.
* **Figma plugin**: a stage awaits in the middle of each upsert, two stages can take turns, any
  await can reject. Correct means no second resource per key made where the
  plugin looks for one, no success reported of an incomplete stage, and nothing of the user's lost.

`PROJECT.json` lists these hazards at their lines, with the properties that cover
them.

## Modules

| module | models | from |
|---|---|---|
| `OrderStates` | statuses and the table of allowed transitions | `internal/order/biz/model.go` |
| `OrderFees` | rent and overdue penalty in fen | `internal/order/biz/model.go` |
| `CellTable` | a row of `locker_cells` and the order domain's updates of it | `migrations/mysql/000001_site_device.up.sql`, `internal/order/data/repository.go` |
| `OrderContract` | the atomic promise of the repository interface: the abstract specification | the interface in `internal/order/biz/repository.go`, over the transition table |
| `OrderService` | the order use cases at the grain at which requests interleave | `internal/order/biz/usecase.go`, `internal/order/data/repository.go` |
| `CellReservation` | reservations and the worker, over `CellTable`, beside the order domain's updates | `internal/locker/biz`, `internal/locker/data/repository.go` |
| `DeviceCommand` | commands and heartbeats | `internal/device/biz/usecase.go`, `internal/device/data/repository.go` |
| `OrderViews` | what the mini program derives from a status | `frontend/packages/domain-ui/src/order.ts`, `features/orders`, the timeline |
| `OrderPages` | the pages of an order and their calls, over `OrderContract` | the pages `order-detail`, `payment`, `store`, `pickup`, `overdue`; `use-order.ts`; `order-client.ts` |
| `ActiveOrder` | placing an order and following it from the home page | `order-confirm`, `home`, `active-order-store.ts` |
| `SitePages` | the tabs that list sites, the choice of a city, the detail of a site | `use-sites.ts`, `location`, `site-detail`, `site-client.ts` |
| `DesignRuns` | the Figma plugin's window, stages and upserts | `tools/figma-plugin/src` |
| `MC...` | the instances TLC checks | |
| `OrderServiceProofs` | typing, tables, selection and locks, refinement of the contract | |
| `OrderHistoryProofs` | fees, the status log, doors | |
| `CellReservationProofs` | typing, one holder, reservations held until they expire | |
| `DeviceCommandProofs` | typing, one execution, true records, final results | |
| `OrderPagesProofs` | typing, what the contract gives the pages, truthful pages | |
| `ActiveOrderProofs` | typing, memory and storage, the order followed, the orders placed | |
| `SitePagesProofs` | typing, skeletons, the city shown | |
| `DesignRunsProofs` | typing, unique keys, markers, reports | |

`OrderContract` joins the two sides: `OrderService` is proved to implement it, and
`OrderPages` uses it as the service its pages call, so what is checked of the pages
rests on what is proved of the service and not on its interleavings.
`CellReservation` and `OrderService` write the same table: the first takes the
order domain's updates from `CellTable` and interleaves them with its own.

### OrderService

`orders`, `cells` and `log` are the three tables, `rowLock` the cells an open
`CreateOrder` transaction has locked, `now` the clock, and `req[r]` what the
goroutine of request `r` carries from one statement to the next: where it is (`pc`),
which operation it serves, and what it read or computed (`order`, `cell`,
`expires`, `at`, `fee`). Several requests of the set `Reqs` are in service at once.

| action | code |
|---|---|
| `CreateOrder`, `InsertOrder` | the transaction of `Repository.CreateOrder`, split after its `SELECT ... FOR UPDATE SKIP LOCKED` because that lock is what others can observe |
| `GetOrder`, `SettleOverdue` | the unlocked read of the use case; `applyLazyOverdue` the clock and the penalty; `MarkOverdue` its transaction, `MarkOverdueFails` its swallowed error |
| `CancelOrder`, `ConfirmDevelopmentPayment` | the use case up to its transaction |
| `OpenDepositDoor`, `OpenPickupDoor` | the unlocked read and the status test; `OpenDoor` the door gateway; `BeginTx` the clock reading of `transition` |
| `CommitCancel`, `CommitPayment`, `CommitDeposit`, `CommitPickup`, `CommitSettle` | the transactions of `transition` with their callbacks, under the tests of `Accepts`; that of a pickup rolls back at its `UPDATE` |
| `StateConflict` | the transaction that rolls back with `ErrOrderStateConflict` |
| `Abandon` | a database error, a deadlock victim, a cancelled context or a crash: MySQL rolls back |
| `Tick` | time passes |

`ListOrders` is `GetOrder` for each order of its page and has no action of its own.
A transaction of `transition` holds its order's row lock from its first statement
to its commit, so it is one step; so is `MarkOverdue`, one conditional `UPDATE` and
its log row. A request refused before it changed or carried anything is no step.

`PickupArgs` is the number of arguments `OpenPickupDoor` binds to a statement with
three placeholders. The code binds 2, and every run uses that. The theorems leave it open,
so that they stay true once the statement is repaired, except `DoorsAreOwn`, which needs it.

Abstractions: orders are ids from a finite set (`AUTO_INCREMENT` does not run out,
the set does: `IdsLeft`); durations and instants are ticks, `Hour` of them to the
hour; order numbers, users, names, the rent columns, `version`, `door_status` and
reply formatting are left out, since no condition of the code reads them. Instants
start at 1 and 0 stands for a `NULL` `expires_at`. The order tests `now.After`, so
equal instants are not expired, as in the model. A cell's size stands for the
order's own copy of it, which the allocation makes equal. Brief row locks that only make
another request wait are not represented: they delay it and change nothing; the
exception, `SKIP LOCKED`, looks at them. The locks of other allocations (the cell and,
because the query joins it, its device) are state; any other row lock, of a heartbeat or of a
`transition` or of the reservation domain, makes it pass over a whole device or come back
empty, so `CreateOrder` takes the first free cell of any device or no step at all. Passing
over one cell of a device whose other cells are free, which a `transition` about that cell could cause
only before its commit makes it free, is the same as the allocation running before.

### CellReservation

`cells` is the table, `req[r]` what a reservation or release request carries,
`worker` the worker's phase and the rows its transaction has locked, `clock` the time.

| action | code |
|---|---|
| `Reserve` | the use case and the repository up to the transaction: the find by key that makes a replay, or the expiry computed from the clock |
| `SelectSkipLocked` | the `SELECT ... SKIP LOCKED` and, without a row, the find by key again |
| `SelectWaiting` | the second transaction: the key's own row first, then the `SELECT` that waits for locks |
| `CommitReserve` | the `UPDATE` with its commit, or the duplicate key and the find that follows it |
| `Release`, `UpdateRelease` | the read, and the conditional update |
| `RunOnce`, `ReclaimExpired` | a batch of the worker, its rows locked from the select to the end of the transaction |
| `ReclaimFails`, `Restart` | `Run` returns the error and the process ends; the container starts it again (`deploy/docker-compose.yml`) |
| `BindOrder`, `UpdateOrder` | the order domain's updates of a cell, from `CellTable` |
| `Abandon`, `Done`, `Tick` | a failed statement or a dead request; the reply has been used; time passes |

`RowsBlock` says whether the driver refuses a statement on a connection whose rows have not
been read to their end. go-sql-driver/mysql v1.8.1, which `go.mod` asks for, does, and
`ReclaimExpired` runs its updates between two reads of its `SELECT`: every run has `RowsBlock = TRUE`,
with which no batch ever commits. The safety theorems hold of both values, so also of a worker
that closes its rows first.

A device unfit for use is the choice of finding no row although cells are free: both selects may
come back empty at any time. The Redis marker is left out: the program writes and deletes it and nothing reads it.

### DeviceCommand

`command` is the table `device_commands` by idempotency key, `device` the status and
last heartbeat of each device, `req[r]` the request with the command row it holds.
A step is one statement or the call of the gateway: `FindCommand`, `CreateCommand`
(or the duplicate key and a second find), `ValidateRun` (expiry, attempts, device),
`Mark` (`MarkRunning`), `Send`, `Complete` (`CompleteCommand`, with the result or as
`EXPIRED`). `Fails` is a statement that fails or a process that dies; nothing takes
up a command again. `RecordHeartbeat` takes any time, past or to come: heartbeats are not
ordered and a device's clock is not compared with the server's. A request's device stands for all that it asks, which is what the conflict
test compares; payloads and results' contents are left out.

### OrderPages

The service is `status`, `holder` (the contract's variables), `expired` and the ghost
`doors`. The program is `stack`, the mounted pages, and `calls`, the HTTP calls that
have not been handled. A page sends (`Open`, `RetryLoad`, `Poll`, `simulatePayment`,
`cancel`, `settle`, `open`), the service serves in the steps others can observe (the lazy
overdue read and its update, the door, the transaction), and `Deliver` runs the
handler of the page, `Handled`, up to its next await. `Lose` replaces any reply by the
client's `NETWORK_FAILURE`. `Back` unmounts a page: its calls go on without it.

`inTime` is what the request read of the clock before it waits for the row lock, so a pickup
may commit after the rental has run out.

The commit of a pickup is kept as the contract allows it beside the failing one the
code has (`PickupUpdateFails`): the pages must be right with either, and an order that
could never complete would hide what they do at its end.

### ActiveOrder

`placed` is the service, `storage` and `memory` the two copies of the active order's id,
`home` and `confirm` the two pages, `calls` their calls. `Launch` mounts the home page
(`hydrate`, then its load), `createOrder` is the effect and the retry of the confirmation
page, `DeliverCreate` the reply with `setActiveOrder` and the home page's reaction to it,
`DeliverGet` the reply with the effect that drops an order that has ended. `Kill` loses
memory, pages and waiting handlers; a creation on its way may still be served. The
ghosts `latest` and `crossed` name the order last told and the one way to forget it.

### SitePages

`city` and `place` are the location store, `tab` what `useSites` holds in each of the
two tabs, `calls` a bag of positionings and lists in flight. `load` is the effect that
runs in every mounted tab when the store changes, `Start` a mount or a retry;
`LocateSucceeds`, `LocateFails`, `ListArrives` and `ListFails` are the replies.
`selectCity` can be tapped twice before its page goes. The detail page awaits two calls
together. What the service answers is any answer.

### DesignRuns

`own` counts the resources of a key where the plugin looks for it: for a component or a
screen the page of its spec only (`adapter.ts:112,124`). `copied` are the keys of which the user
has made a duplicate, which carries the plugin's data too, `bare` those created and not
finished, `foreign` the names taken by resources of the user, `notes` what the user has put
into a node, beside its generated sections or inside one, `sections` the sets of generated
sections of a node, `markers` the stages marked complete. The plugin is one thread: a step is
what runs between two awaits, and `run[r]` is what a stage carries over an await, with what has
become meanwhile of the node it `held`: there, moved or removed.

`assertStageReady`, one action per upsert and await, `Finish` with its marker, `Rejects` for any
await. `HoldsNothing` is the use of what has been removed, which throws; a variable's
collection deleted meanwhile is an error the stage records and goes on from; a page deleted
before its component is looked for throws. `FillsAway` goes on filling a node that has been
moved. `Delete`, `Move`, `Copy`, `TakeName` and `AddNote` are the user's edits, `Check`, `Click` and
`Result` the window, `Close` the end of the plugin. What is drawn, and where, is left out; what
`renderComponent` draws after its fonts have loaded is one step.

## Properties and runs

| run | instance | result |
|---|---|---|
| `order_code` | 2 orders, 2 requests, 2 small cells of one device, clock to 6, `Hour` 2, faults | `TypeOK`, `CellsMatchOrders`, `SelectedCellStaysFree`, `LogTellsStatus`, `OverdueFeeFair`, `DoorOpensOwnCell` and `ImplementsContract` hold |
| `cell_reservation` | 2 cells of one device, 2 keys, 1 order, 2 requests, 3 asked in all, batches of 1, clock to 3, 1 fault | `TypeOK`, `OneHolder`, `HeldUntilExpiry` hold |
| `device_command` | 3 requests under 1 key for 2 devices, expiries past and to come, 1 heartbeat, clock to 3, 1 fault | `TypeOK`, `SentOnce`, `RecordTells`, `ResultStays` hold |
| `order_pages` | 1 order, 2 mounted pages, 2 calls, 1 of them lost, fair | `TypeOK`, `ShownNeverAhead`, `SaidHasHappened`, `OfferedUnlessStale`, `TimelineForward`, `PagesSettle`, `ShownCatchesUp` hold |
| `active_order` | 2 orders, 2 calls, 1 lost, 1 kill, fair | `TypeOK`, `StoreIsStored`, `PlacedAsTold`, `LatestIsFollowed`, `PagesLoad` hold |
| `site_pages` | 2 cities, one without sites, 2 places, 4 calls, fair | `TypeOK`, `LoadingHasCause`, `ShowsCurrentCity`, `SkeletonsGo` hold |
| `design_runs` | 9 keys in 4 stages, 2 runs at once, 6 gestures, 1 rejection, edit or closing, fair | `TypeOK`, `UniqueKeys`, `MarkersInOrder`, `SuccessIsComplete`, `ButtonsComeBack` hold |
| `pickup_never_completes` | 1 order, 1 request | `PickupCompletes` is violated: every pickup opens the door and then fails |
| `pickup_opens_expired` | 1 order, 1 request | `PickupDoorOnlyUnexpired` is violated: the door step looks at the status, not at the expiry |
| `unpaid_never_released` | 1 order, 1 request, fair | `UnpaidOrderTimesOut` is violated: nothing but its user ends an unpaid order |
| `reclaim_never_commits` | 1 cell, 1 key, 1 request, batches of 100, fair | `ExpiredEnds` is violated: the driver refuses the worker's updates, whenever it is started again |
| `notes_removed` | the same keys and stages, 1 run at a time, 5 gestures, 1 edit | `NotesKept` is violated: a stage run again deletes what the user has put into a component, an admin screen or a generated section |

### What each property says

The order service:

* `CellsMatchOrders`: a bound cell is the cell of a live order and `LOCKED` before,
  `OCCUPIED` after the deposit; a live order is bound to its cell; a cell with
  neither order nor reservation is `IDLE`. No cell is given out twice or lost.
* `SelectedCellStaysFree`: between its select and its insert an allocation's cell
  stays free and nobody else has selected it, so its `affected != 1` branch never runs; and
  a row is locked for nobody else, so no allocation leaves a cell or its device out for good.
* `LogTellsStatus`: the hand-written log is a chain of transitions of the table of
  `model.go`, which no code consults, ending at the order's status.
* `OverdueFeeFair`: a stored penalty belongs to an order past its expiry, is at
  least an hour's rate, and at most what is owed by now, though the request that
  wrote it computed it in the past.
* `DoorOpensOwnCell`: a door opens only while its cell is bound to the order. It
  holds *because* pickups never commit: with the statement repaired, two pickups of one
  order can both read it, the first can complete and free the cell, a third user
  can be given the cell, and then the second opens it. The run and the theorem are
  therefore about the code as it is, and repairing line 238 of
  `internal/order/data/repository.go` alone would expose the race.
* `ImplementsContract`: the statuses and bindings of every run form a run of
  `OrderContract` (refinement mapping: `status` is `orders[o].status`, `holder` is
  `cells[c].order`). Reads, clock readings, doors and conflicts are stutters.
* `PickupCompletes`: a pickup that passes every test completes the order and leaves
  its cell idle. It speaks of requests that are not cut off, so `Faults` is FALSE. No run has it
  hold: as coded no pickup ever completes.
* `PickupDoorOnlyUnexpired`: a pickup door opens only for an order whose rental runs.
* `UnpaidOrderTimesOut`: an order that is not paid leaves that status.

Reservations and the worker:

* `TypeOK` of `CellReservation` says more than types: a key has one reservation, a row
  is idle, reserved or an order's, and a selected row stays available until its update.
* `OneHolder`: two keys are never both told that they hold one cell for a time to
  come, unless one of them has been released meanwhile. It is about the replies, which
  outlive the rows they were read from.
* `HeldUntilExpiry`: until it expires a reservation is ended by the release of its own
  key only, however old the conditions another key, an order or the worker has read.
* `ExpiredEnds`: an expired reservation ends, although nobody asks for its cell. It is violated
  without any failure but the driver's refusal; a reservation that takes the expired cell is the
  only way it still ends.

Device commands:

* `SentOnce`: however often a command is asked for, at once or after a failure, it goes
  to the gateway once at most.
* `RecordTells`: a result was sent, a pending command was not, an expired one was not
  unless it was recorded expired while it ran, and a running one has its request unless
  that died. The two exceptions are what the code does: a repeat overlays a running
  command with `EXPIRED`, and a command whose request died stays `RUNNING` for ever.
* `ResultStays`: what a command asks and its result are never overwritten.

The order pages:

* `ShownNeverAhead`: what a page shows may be behind the order but is a status it has
  been in or gone past, also where the service replied `OVERDUE` of an order it did not change.
* `SaidHasHappened`: a page says that a door is open, or a penalty settled, only where
  it is, whatever replies were lost.
* `OfferedUnlessStale`: an action the service would refuse is offered only by a page that is
  behind or of an order whose rental has run out.
* `TimelineForward`: no transition takes the timeline a step back.
* `PagesSettle`: no page loads, works or opens a door for ever.
* `ShownCatchesUp`: a detail page comes to show that its order has ended, although an
  older reply may arrive last or a load may fail: the polling outlives both.

The active order:

* `StoreIsStored`: memory and storage hold the same id while the app runs.
* `PlacedAsTold`: the confirmation page places one order at most, and none when it
  says that nothing was changed, except that each lost reply can leave one more: a
  creation carries no key by which the service could know a retry.
* `LatestIsFollowed`: the order the user was last told of is followed until it ends,
  unless the late reply about an older, ended one crosses it: then the home page drops it.
* `PagesLoad`: a skeleton gives way to what is loaded or, on the confirmation page, to the panel
  of the error. It states the exception the code makes: after a call about its order was lost the
  home page can keep its skeleton for ever.

The site pages:

* `LoadingHasCause`: a skeleton is shown only while something in flight can end it. It
  rests on the cities being reachable only from a home page that shows sites: a city
  chosen before the place is known would leave the skeleton for ever.
* `ShowsCurrentCity`: what a tab shows is about the city and place of the store unless
  a reply was overtaken by a later one; then the earlier city's sites stay under the later
  city's name, which the code does not prevent.
* `SkeletonsGo`: skeletons go once the place is known.

The Figma plugin:

* `UniqueKeys`: the plugin makes no second resource of a key where it looks for one and no second
  set of sections in a screen, however often stages are run again and fail; two stages that take
  turns can, but only for what is searched for before an await, and only if the checkbox was changed
  meanwhile. It does not say that the document has one: a copy is the user's, and a
  node moved to another page is made again.
* `MarkersInOrder`: a stage is marked complete only after those it asks for.
* `SuccessIsComplete`: success is reported only of a stage all of whose resources are
  there and finished, what an earlier run left half done included.
* `NotesKept`: what the user has put into a component or screen stays there as long as that
  does, as the plugin's README says. The code contradicts it in three places, of which
  TLC shows one.
* `ButtonsComeBack`: the buttons come back whatever rejects.

### Bounds

* Orders: two requests suffice for a race between any two statements, two orders for
  a cell to change hands, two cells for the `ORDER BY` and for allocations that do
  not compete; the clock of `order_code` reaches two different started hours after
  an expiry (deposit at 1 at the earliest, expiry at 2, penalties of one hour at 3 and 4,
  of two at 5 and 6) and the instant of expiry itself. A cancelled
  order gives its cell back for the other. `order_code` takes orders and requests as
  symmetric; cells are not, since queries order them, and a fair run takes none.
* Reservations: two requests and the worker are the three parties that can meet at a
  row; two keys for a cell to change hands, three requests in all for a reservation, its
  replay and its release; a batch of one so that a worker passes over a
  second expired row; the clock to 3 for a reservation made at 1, its last instant 2 and its expiry.
* Commands: three requests under one key, so that one creates, one loses the creation
  and one repeats; keys do not interact. Requests and devices are symmetric.
* Pages: one order, since pages of different orders share nothing; two mounted pages and
  two calls for every overtaking of two replies. A second lost call repeats the first.
* Active order: two orders for one to be dropped for another, one kill, one lost call.
* Sites: two cities of which one is empty, two places, four calls: a positioning and
  a list of each tab.
* Plugin: one key of each kind the code treats apart, except a text style, whose steps are
  those of a variable; a variable that is an alias of another; six gestures start two stages at once.

Deadlock is checked except where users and bounds may simply stop: `cell_reservation`,
`site_pages`, `design_runs`.

### Fairness

* `OrderService`: time passes and a request that has begun is carried on, which Go's
  scheduler and MySQL's lock wait queues justify when no database error ends it. Nothing
  is asked of users: no request is ever started by fairness, which is what
  `unpaid_never_released` shows.
* `CellReservation` (in `reclaim_never_commits`): requests are served, and the worker works, its restart included:
  `deploy/docker-compose.yml` restarts its container (`restart: unless-stopped`), the ticker
  fires every 30 s.
* `OrderPages`, `ActiveOrder`: a call is answered and its reply delivered, or it times
  out as an error; both are handled. `Poll` is strongly fair: an interval fires as long
  as it is set, and it is only the model's bound on calls that can disable it meanwhile.
* `SitePages`: requests are answered or time out. A positioning is not asked to end: it may
  wait for the user.
* `DesignRuns`: a stage that has been started goes on.

## Proofs

All theorems hold for any sets of orders, cells, devices, sites, keys and requests, any
positive durations and any bound on the clock and the environment, from the assumptions
stated in the modules: cells have positive numbers, the null values are not elements of
the sets they complete, times and limits are positive; orders are finitely many in
`ActiveOrder`, and every stage of `DesignRuns` has a step. `DoorsAreOwn`
alone assumes a value of `PickupArgs`, any but the repaired one.

Orders:

* `Typing`: `TypeOK`, by the invariant `Typed`, which adds that a request past its
  read names an order that exists; without it the update of `orders[req[r].order]`
  need not preserve the type.
* `TablesMatch`, `SelectionIsExclusive`: by `CellsInv`, which is
  `Typed /\ CellsMatchOrders /\ SelectedCellStaysFree`. Neither half is inductive
  alone: an insert keeps the tables matched only because the selected cell is
  still free, and it stays free because a cell is only bound by an insert of the request
  that selected it and released only for an order that holds it. A row lock belongs to one
  request, so the end of one, however it ends, leaves the others' rows locked and its own free.
* `Refinement`: `Spec => ImplementsContract`, from `CellsInv`: one lemma per kind of
  step shows which contract action, or stutter, it is.
* `LogIsTrue`: by the log invariant; the transitions taken from `allowedTransitions` are
  lemmas, the chain is preserved by appending one row, or the two of a payment.
* `FeesAreFair`: by `FeeInv`, which adds to `Typed` that every request on its way to
  `MarkOverdue` carries a penalty that was owed when computed and an expiry its order still
  has while it is `IN_STORAGE`; monotonicity of `computeOverdueFee` in the clock
  carries it to now. `RentIsLeastHours` is the corresponding fact about the rent.
* `DoorsAreOwn`: assuming `PickupArgs # PickupPlaceholders`. The invariant adds that
  a request on its way to the door read a paid order, which stays live because only an
  unpaid order can be cancelled.

Reservations, by `ReservationInv`:

* its parts are the rows (`RowOK`, and one row for a key), what a request carries
  (`Carries`: a selected cell is still available; `Answered`: a reply about a time to
  come is still what the row says, unless its key was released) and the locks
  (`LocksHeld`: a row is locked by one transaction, the worker's rows are expired). None
  is inductive alone: a row keeps what was selected because others cannot select
  it, and a reply stays true because a reservation only falls to its own key until it
  expires. That the row of an `ORDER BY id LIMIT 1` exists is the least element of a set of
  numbers, from the library's theorem on well-founded relations.
* `Typing`, `HoldersDiffer` (`OneHolder`) and `HeldTillThen` (`HeldUntilExpiry`) follow.

Device commands, by `CommandInv`:

* it adds to `TypeOK`, `SentOnce` and `RecordTells` that one request at most works on a
  key (`Alone`), what a request has prepared (`PreparedBy`), and that a command under way
  is running, or was overlaid as expired, and has gone to the gateway exactly if its request
  has been there (`CarriedBy`). `SentOnce` needs all: a second sending would need a second
  marking of a pending command, which has never been sent.
* `Typing`, `GatewayOnce`, `RecordIsTrue` and `ResultIsFinal` (`ResultStays`) follow.

The order pages, by `PagesInv`:

* its parts are what each call may say (`CallOK`: it fits the page it answers, a request
  past its door has opened it, a status replied has been reached) and what each page
  shows (`PageOK`). A page shows what a call replied, and the page a call answers to can
  be popped and another pushed in its place, so neither is inductive alone. Both are
  claims that stay true while the service goes on: reachability in the table of
  transitions, a least closed set and no recursion, is reflexive and transitive and holds
  of every step of the contract (`Forward`). The delicate case is a request that found
  its order expired and replies `OVERDUE` though its update failed: `ReplyIsTrue` keeps
  that the order is still stored or has been overdue, its pickup being refused.
* the service the pages call is written with the actions of `OrderContract`, so the lemma
  `ContractIsUsed` (`Spec => Server!Spec`) only says that nothing else touches its variables.
  `ContractIsSound` proves of the contract that a live order holds exactly one cell and any
  other none, and `PagesLeakNoCell` joins the two. With `Refinement` this is one chain from the
  transactions of MySQL to the pages.
* `Typing`, `NeverAhead` (`ShownNeverAhead`), `PagesAreTruthful` (`SaidHasHappened`),
  `OffersAreAccepted` (`OfferedUnlessStale`) and `TimelineNeverBack` (`TimelineForward`) follow.

The active order, by `ActiveInv`:

* it adds to the properties that a call about an order that ended is about one that has
  ended (`CallsOK`), that the order followed has been placed, so no creation still on its
  way can name it again (`Followed`), and that the confirmation page awaits one creation
  at a time, with one lost reply for each order made before (`Counted`). The bound of
  `PlacedAsTold` is not inductive: it needs to know of the creation that is still on
  its way whether the service may yet serve it.
* `Typing`, `KilledAppComesBack` (`StoreIsStored`), `LatestStaysActive` (`LatestIsFollowed`) and
  `OrdersAreAsTold` (`PlacedAsTold`) follow.

The site pages, by `SitesInv`:

* it adds that lists are asked for, sites shown and the cities opened only once the place is
  known (`PlaceFirst`), that a list not overtaken is of the city and place of the store on
  its way already (`ListsAreCurrent`), that a tab positions itself once and behind its skeleton
  (`LocatesOnce`), and that two positionings at once are told of (`RacesAreSeen`).
  `LoadingHasCause` rests on the last two: a reply that settles takes away the
  cause of a skeleton unless it was the one cause and ends it.
* `Typing`, `NoStrandedSkeleton` (`LoadingHasCause`) and `OnlyRacesMislead` (`ShowsCurrentCity`)
  follow. The bound on calls in flight is the guard of `Ask` and no part of `TypeOK`: the
  size of a bag is a recursive sum, which no prover here can reason about.

The Figma plugin, by `RunsInv`:

* while stages have not taken turns, what a run has read before an await still holds
  after it and what it has passed is there and finished (`AloneSound`); a run
  upserts only while the stages it asks for are marked (`ReadyRuns`); the buttons stay
  disabled while a stage runs until the box is changed again (`WindowHolds`), which is
  why stages take turns only after two changes. `UniqueKeys` needs all: a resource is created
  because it was absent when listed, before the await, and no edit of the user adds one in between but a copy
  of what is there already. A moved or removed node leaves the run that holds it with `held`,
  so that what it then finishes is not taken for what the document has.
* `Typing`, `KeysAreUnique`, `StagesInOrder` (`MarkersInOrder`) and `ReportsAreTrue`
  (`SuccessIsComplete`) follow.

Only model-checked: liveness under fairness and `ENABLED`, which are out of the prover's
reach (`PagesSettle`, `ShownCatchesUp`, `PagesLoad`,
`SkeletonsGo`, `ButtonsComeBack`). Every invariant and every action property that a passing
run checks is proved, under the assumptions just named. The runs that expect a violation are counterexamples and need no proof.

## What the code does that no run is about

Met while modelling, and not checked as properties:

* A reservation key used again with another size or site gets the first reservation
  (`internal/locker/biz/usecase.go:38`), where `docs/operations/site-device-api.md:27` has a
  conflict; `Reserve` models the reply as it is.
* After a first load that failed the home page keeps its skeleton (`pages/home/index.tsx:50`) and does not
  ask again, where `docs/superpowers/specs/2026-07-25-miniapp-frontend-design.md:131` has every failure shown
  with what can be done about it. `PagesLoad` states the exception instead of being violated by it.
* A component or screen that the user moves to another page is made a second time by the next run, and
  a duplicate of one is not removed: the document then has two of one stable key, which
  `tools/figma-plugin/README.md:46` says is not created again. `Move`, `Copy` and `UniqueKeys` say where.
* The key of a reservation that has expired and not been reclaimed gets that reservation.
* A reservation's Redis marker is written after the commit and deleted after a release
  and may outlive it; nothing reads it.
* The candidate cache of the sites is not invalidated by reservations or orders: for up to
  30 s the list shows cells that are gone.
* `SKIP LOCKED` joins the device: while one allocation locks a device, another order is
  refused although cells of that device are free.
* Heartbeats in any order: a late one sets the device's time back.
* The limit of three attempts of a command is never reached, since nothing makes a
  command pending again.
* The payment page says of a cancelled order what it says of a paid one.
* Home shows the way to the cities only above sites: in a city without sites there is no
  way to another one from there. A list of cities that fails is not caught.
* The plugin's exception report always names the stage foundations.

## Plan

The components of the plan are modelled and their safety properties proved. What is left:

1. **`LockerSystem`**: `OrderService` and `CellReservation` with the cell table, the clock and
   the row locks shared: `CellsMatchOrders` in the presence of reservations. Today each
   module has the other's updates only as far as they touch its rows.
2. Doors with the repaired statement, as a run and a theorem: which doors a pickup opens late, and
   that a test of the order under the row lock before the door would exclude them.
3. Of `DeviceCommand`, an abstract specification of a command executed at most once, and the
   module shown to implement it.
4. The candidate cache, against a service whose cells change: stale for its TTL at most.

## Not modelled

* The geometry of the nearby search (floating point) and the SQL aggregates of the site
  domain: read-only queries without state; the candidate cache, for now.
* Readiness: two independent probes joined by a `WaitGroup`, without state.
* The HTTP server, the token comparison and the configuration: stateless, except for the
  development gate, which is the constant `Development`.
* Generated API code; the Go tool wrapper.
* The mini program's presentation, styles and design tokens: layout and tables of constants.
* Of the Figma plugin, what is drawn and where, and the adoption of the first page of a new file.
