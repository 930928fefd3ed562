# carwash_backend in TLA+

A verification project for the Go service in `src/`: a multi-tenant booking,
rostering and attendance backend for car washes, over MongoDB, with subscription
answers from a separate platform ("tenantcore"). The modules here model what the
service does to its state, step by step; TLC checks them on small instances and
TLAPS proves the most important properties for every instance.

Every definition was read off the Go source. `PROJECT.json` maps each one to the
lines it stands for, lists the runs with the properties they check, the faults
each property was tried against, the hazards the properties are for, and the
theorems.

    tlc -workers 2 -config reservations_serial.cfg MCReservations
    tlapm ReservationsProofs.tla

## 1. The system

One process serves any number of HTTP requests at once; several processes may run
behind a load balancer. There is no transaction anywhere and no lock around a
request: a handler is a few MongoDB commands, each atomic, with whatever other
handlers do between them. What several rows must satisfy together is kept by

* **unique sparse indexes over derived keys** (`models/keys.go`,
  `repository/indexes.go`): a key is present only while the row is live, so the
  database refuses the second live one;
* **a condition repeated in the filter of an update** (`TimeEntryRepo.Close`), so
  that a stale write matches nothing;
* or **only a read before the write** (everything else).

Which of the three a rule rests on decides whether it survives concurrency, and
that is the question most of this project asks.

Every query is scoped to one tenant in its own filter, and every key starts with
the tenant. The modules describe one tenant.

### Inventory

| Part (source) | State it keeps | Operations | What is hard | What makes it correct |
|---|---|---|---|---|
| **Reservations** (`service/reservation_service.go`, `walkin.go`, `edit_reservation.go`, `repository/reservation_repo.go`) | `reservations` rows: customer, employee, site, service, start, end, status, agreed price, `slot_key`, stamps | book, walk-in, cancel, move the status, hand over, correct | three to five commands a request; updates filter by `_id` only; a derived key four operations must keep in step | one open job per employee and start; the key follows the job; terminal states are terminal; completed work is frozen; own work only; stamps agree with status |
| **Availability rules** (`service/slots.go`) | none | `FreeSlots`, `FitsInShift`, `Overlaps`, `DayRange` | half-open boundaries, a cap, senseless inputs | what is offered is what can be booked; the loop ends |
| **Schedule** (`service/schedule_service.go`, `repository/shift_repo.go`) | `shifts` rows | add, delete, list; availability in three reads | list-then-insert with no index; reads that are not one snapshot; midnight | shifts of one person apart; answers inside the day; an answer that still stands can be booked |
| **Attendance** (`service/attendance_service.go`, `repository/time_entry_repo.go`) | `time_entries` rows with `open_key` | clock in (geofenced), clock out | double taps, stale reads, a wall clock that goes back | one running entry; a closed entry never changes; paid as measured |
| **Customers and cars** (`service/guest_booking.go`, `walkin.go`, `edit_reservation.go`, `car_service.go`, `repository/user_repo.go`, `car_repo.go`) | `users` with `login_key`, `contact_key`; `cars`, unique by owner and plate | find-or-create on booking without an account, at the desk, and on a corrected plate; the garage; lookup by reference | two first bookings of one phone; a car that goes or is renamed under a booking; the rows outlive a booking that fails | one history per phone number; a job's car is its customer's |
| **Accounts** (`service/auth_service.go`) | the same `users` | register, upgrade a guest, sign in | registering while the same person books as a guest | a guest is upgraded once, in place; an account never changes hands |
| **Staff** (`service/staff_service.go`, `middleware/auth.go`, start-up in `bootstrap/`) | `users` with a staff role, issued tokens | create, suspend, bootstrap the first manager, admit a request | count-then-create by processes that start together; two managers suspending each other | one account per address; a lock-out only by crossing suspensions, and final |
| **Catalogue** (`service/catalog_service.go`) | `locations`, `wash_services` | create, partial update | a rule over two fields, an update of one; zero means "left out" | bounds hold through every sequence of updates; a loss comes only of one amount alone |
| **Media** (`service/media_service.go`) | `media` rows, files at the image host | upload, update, delete | two stores; demote-the-previous without an index | no row without a file, no file forgotten; one holder of a singular role; always a description |
| **Reports** (`service/report_service.go`) | none | a day | days of different lengths; relies on stamps of completed rows | every completed wash counted once, on its day |
| **Entitlement client, tenant gate** (`entitlement/`, `middleware/tenant.go`) | a cache with TTL and grace window, a degraded mark | `ForKey`, janitor, gate | answers out of order, failures, expiry | unknown keys refused, outages tolerated for a bounded time, never a 402 for an outage |
| **Rate limiter** (`middleware/ratelimit.go`) | a token bucket per address | allow, janitor | forgetting a bucket early | no address gets more than burst plus refill |
| **Migrations** (`cmd/migrate-tenant`, `cmd/migrate-guest`) | the rows and indexes of the service | backfill a tenant, rebuild keys; fill keys, swap indexes | stopped anywhere and run again, beside the running service | a finished run leaves what the service would have written; no step without a constraint |
| **HTTP layer, configuration, tools** (`api/`, `view/`, `config/`, `cmd/`) | none | decode, call, render | | see section 7 |

### How they interact

* Availability and `assertFree` (in booking and handing over) read the roster that
  the Schedule service writes and the rows the Reservation service writes, and
  apply the same functions of `slots.go` to them.
* Booking reads the catalogue, the staff accounts and the sites, each of which a
  manager can change at any moment; what it needs of them later it copies into
  the row.
* A guest booking finds or creates a customer and a car first and then books as
  that customer; a walk-in finds or creates a car and its owner.
* The day report reads completed rows by their stamp; the timesheet reads closed
  time entries.
* Every request passes the tenant gate (entitlement client), the rate limiter on
  public routes, and authentication, in that order.

## 2. Modules

| Module | What it is | Proved in |
|---|---|---|
| `JobStates` | status values, `Blocking`, `Open`, `allowedTransition` | |
| `Slots` | the rules of `slots.go` as operators over half-open intervals | |
| `JobLedger` | abstract: the life of a job with every operation atomic | |
| `Reservations` | the six operations on reservations, as the commands they are made of | `ReservationsProofs` |
| `SlotScan` | the loop of `FreeSlots`, against the operator in `Slots` | `SlotScanProofs` |
| `Schedule` | the roster, and availability in its three reads | `ScheduleProofs` |
| `TimeClock` | abstract: an employee off or on the clock | |
| `Attendance` | clocking in and out, as the commands they are made of | `AttendanceProofs` |
| `Entitlement` | lookups of the platform's word on a key, the cache, the janitor, the degraded mark, and the gate's decision | `EntitlementProofs` |
| `Clientele` | abstract: whom a number means, whose account an address is, whose history a job is in | |
| `Customers` | find-or-create of customers and cars, accounts, the garage, as the commands they are made of | `CustomersProofs` |
| `Media` | pictures as a row and a file, each call to the database or the image host a step that can fail | `SideBySideProofs` |
| `Staff` | start-up, the first manager, suspension, and the check every request passes | `SideBySideProofs`; its types in `MigrationProofs` |
| `Catalogue` | the price list and the sites under partial updates | `SideBySideProofs` |
| `DayReport` | the day, the two queries and the loops of the day's report | `SideBySideProofs` |
| `RateLimiter` | a token bucket, stamps out of order, the janitor | `SideBySideProofs` |
| `MigrateTenant`, `MigrateGuest` | the two migrations, a row or an index a step, beside the service | `MigrationProofs` |
| `SideBySide` | the last seven, which share no state with one another or with the others: their instances, what is assumed of their constants, their properties; a behaviour is one of one part | |
| `MC...` | the instances TLC runs: inputs and symmetry, nothing else | |

### Conventions

* A collection is a function from object ids to a row or `Nil`. Ids are given out
  once, except where a module says that a deleted one is used again.
* `reqs` holds the handlers: `Nil`, or the record of what a handler carries from
  its reads to its write. A handler begins with its first decisive read; each
  further command that another handler could come before is an action of its own;
  checks that fail end the handler with nothing written, which is the same as not
  enabling the action. `Abandon` (or `Finish`) ends a handler that never writes: a
  refusal, a cancelled request, a crash.
* Reads of rows that no property relates to a later write are part of the first
  step (the service's status and duration, for instance).
* Definitions named `...Fault` are mistakes. The specification uses none of them:
  each property is shown to notice at least one of them, in place of the
  definition it follows.

### Reservations

`rows`, `reqs`, `now`, and the world around: `shifts`, `staff`, `catalogue`,
`sites`. A request record is the local variable `res` (`draft`) with the fields the
update will `$set`; `at` is the next command.

| Code | Action |
|---|---|
| `Book` up to `assertFree` | `Book`, then `ReadRoster`, `ReadTaken` (the two reads of `assertFree`), then `Create` |
| `RegisterWalkIn` | `RegisterWalkIn`, `Create` (no `assertFree`: the car is already there) |
| `CancelByCustomer` | `CancelByCustomer`, `UpdateAndReleaseSlot` |
| `SetStatus` | `SetStatus`, then `UpdateFields` or `UpdateAndReleaseSlot` |
| `Reassign` | `Reassign`, `ReadRoster`, `ReadTaken`, `UpdateFields` |
| `EditReservation` | `EditReservation`, `UpdateFields` |
| index `one_booking_per_employee_start` | `KeyFree`, a guard in `Create` and both updates |

`Merge` is `$set`: only the listed fields change, and in the row as it is now, not
as it was read. That is where the races are.

The module's `OneAtATime` says whether requests for one reservation may overlap.
With `FALSE` they do, as in the code. With `TRUE` handlers of different
reservations still race for slots, but one reservation has one handler: the
situation of a wash whose desk acts on one job at a time. The properties that need
it are stated under it, in the runs and in the theorems.

### Schedule

`AddShift` (validation and the list) and `Create`; `DeleteShift`; an availability
request is `Availability` (roster), `ReadStaff`, `ReadJobs` (bookings, and the
answer), `Finish`. Between any two of them the roster, the bookings (`JobsChange`),
the accounts (`StaffChange`) and the clock move. `OneAddAtATime` says whether
`AddShift` requests for one employee may overlap.

### Attendance

`ClockIn` (the reads and the fence), `Create` (the insertion, refused by the index
`one_open_entry_per_employee`); `ClockOut` (the read, the clock, the minutes),
`Close` (the update that repeats "still open"). `ClockMoves` lets the wall clock be
any instant at any time: two machines, or one that was corrected.

### Entitlement

| Code | Action |
|---|---|
| `ForKey` up to `fresh` | `Lookup`: a fresh entry is the answer, or the platform is asked |
| `fetch` | `Reply` (the platform looks up its word: 200, or a refusal in the domain TENANT) or `Fail` (all the rest, before the platform answers or while its answer is on the way) |
| `store`, `clearDegraded` | `Store`, `ClearDegraded`: two locks, two steps |
| `forget` | `Forget` |
| `stale`, `markDegraded` | `FallBack`, `MarkDegraded`: two locks, two steps |
| `Require`, `RequireActiveSubscription` | `Decide`: what a read and what a write would be answered |
| `janitor` | `Janitor` |

The platform is outside: `PlatformChanges` lets it say anything else of a key at any
moment, and remembers since when it says so. `heard` is history, not state of the
program: the cache as it would be without a janitor. The clock moves while the
platform is asked, up to `Timeout`, and between requests: `ForKey` and the two
middlewares do nothing else that takes seconds. It moves in both halves of a question,
before the platform has looked up its word (`fetch`) and while the answer is on its way
(`got`), since `http.Client.Timeout` covers the body too. So an answer may be a whole
`Timeout` old when `Store` stamps it as new, and `Lag` needs all its terms: with
`Timeout` left out, or one instant less, `GateFollowsPlatform` is violated.

### Customers

| Code | Action |
|---|---|
| `BookAsGuest`, `findOrCreateGuest` | `BookAsGuest` (search by number), `CreateUser`, after a duplicate `FindUser` |
| `findOrCreateCar` | `FindCar`, `CreateCar`, after a duplicate `FindCarAgain` |
| `Book` on the car | `CheckCar`, `CreateJob`; a signed-in customer starts here (`BookOwn`) |
| `RegisterWalkIn`, `findOrCreateWalkInCar` | `RegisterWalkIn` (search by plate), `CreateUser`, `CreateCar`, `FindCarAgain`, `CreateJob` |
| `EditReservation` with a plate | `EditReservation`, the same commands, then `UpdateJob`: the customer moves with the car |
| `RegisterCustomer` | `RegisterCustomer` and `CreateUser`, or with a claim `ClaimGuest` and `Upgrade` |
| `CarService` | `RegisterCar`, `UpdateCar`, `DeleteCar` |
| indexes on `login_key`, `contact_key`, owner and plate | `LoginFree`, `ContactFree`, `PlateFree` |

`jobs` here are the same documents as the `rows` of `Reservations`, of which this
module knows the customer and the car and that one the rest. They meet in one place:
a booking that `Reservations` refuses is here a handler that ends before `CreateJob`,
and leaves its customer and its car behind. `gave` is history, not state of the
program: the number a guest made the booking with.

### Media

| Code | Action |
|---|---|
| `Upload` up to `checkLimit` | `Upload` |
| the call to the host, the check of the length | `Send`, or `SendFails` (with or without the file stored) |
| `repo.Create` | `Create`, or `CreateFails`: an error to the handler, whether the row was written or not |
| `repo.DemoteRole` | `DemoteRole`, after `Create` or `WriteUpdate` (`Promote`) |
| `Update` | `Update` (the read and the rules), `WriteUpdate` |
| `Delete` | `Delete` (the read), `DeleteRow`, `Destroy` |
| a crash, a client that goes | `Abandon`: later calls are not made, or fail with the request's context |

`unanswered`, `strays` and `undemoted` are history: what the properties except is only
what the code cannot know or does not retry.

### Staff

`Start`, `EnsureIndexes`, `CountManagers`, `CreateBootstrapManager` are start-up
(`New`, `NewForDatabase`) in its order, for several processes at once; `Stop` ends one
at any point. `RequireManager` is `Auth.Require`: a request is admitted on the row as
it is (`BeginSetStatus`, `BeginCreate`) and writes later (`Write`). `tokens` is who can
present one; suspending takes no token back, the row decides at the next request.

### Catalogue, DayReport, RateLimiter

`Catalogue`: `CreateWashService`, `UpdateWashService`, `CreateLocation`,
`UpdateLocation`, with `ValidService` for `validateWashService`. `DayReport`: `Init` is
the two queries, `CountWash` and `CountEntry` the turns of the two loops, in any order
within a loop (Go iterates what the queries returned; the sums may not depend on it),
`Sort` the end. `Midnights` says where days begin, so a day may be longer or shorter
than another. `RateLimiter`: `Arrive` reads the clock, `Limit` is what happens under
the lock, with the stamp read before it; `Forget` is the janitor. `granted` is history:
what was let through, by stamp and number.

### MigrateTenant, MigrateGuest

`prog` is the command: where it is, and the rows it has read and not come to
(`todo`). `Run`, `Backfill`, `Find`, `Rewrite`, `Rebuilt`, and `Read`, `Check`,
`Write`, `CreateIndex`, `DropIndex` follow the two `main` functions; `Stop` ends a
command anywhere, and it may be run again at once. A row is written by its id, whatever
became of it since it was read; `todo` of `MigrateTenant` has the slot the cursor
decoded, and the key is made of that (`Wanted`). The service writes in between:
`Insert`, `UpgradeGuest`, `EnsureIndexes` beside `MigrateGuest`, and beside
`MigrateTenant` what touches a key, or the employee and start a key is made of:

| Code | Action of `MigrateTenant` |
|---|---|
| a booking, `ClockIn` | `Insert` |
| cancellation, no-show, `ClockOut` | `Release` |
| `SetStatus` to completed | `Complete`: the key stays |
| `Reassign`; `EditReservation` of an open job | `Move`: slot and key together |
| `EditReservation` of completed work | `Correct`: the slot alone |

`finished` and `outdated` are history: a run got to its end; rows whose key the command
made of a slot they had left by then.

### SlotScan

One call of `FreeSlots`: `Iterate` is a turn of the loop with its two `continue`s,
`Return` leaves it.

## 3. Runs

| Run | Instance | What it shows |
|---|---|---|
| `reservations_serial` | 2 reservations, 2 handlers, 2 employees, all six operations, `OneAtATime` | type, released jobs hold no key, no two open jobs at one start, completed frozen, own work, refinement of `JobLedger` |
| `reservations_race` | 2 reservations, 2 handlers, 3 employees at 2 sites, one of whom changes site half way; overlapping requests; no corrections, no walk-ins | what survives overlapping requests for one reservation: a booked job holds its slot, work stays inside a shift of whoever has it, a completed job has its stamp |
| `reservations_one_request` | 2 reservations, 1 handler, two job lengths | the overlap check of `assertFree` (a read) does keep work apart when nothing overlaps it |
| `reservations_world` | 1 reservation, 1 handler (`OneAtATime`), the world changing | price and length stay as agreed |
| `race_completed_frozen` | 1 reservation, 2 handlers | violated: section 6 |
| `slot_scan` | every shift and up to two bookings in 6 instants, lengths 0..3, steps 0..2, cap 2 | the loop ends, with exactly the first bookable starts |
| `schedule` | 2 shifts, 2 handlers, 2 sites, 2 days of 4 instants, `OneAddAtATime` | shifts apart, answers inside the day, an answer that still stands can be booked |
| `attendance` | 2 entries, 2 handlers, 2 employees, 3 instants | one running entry, paid as measured, refinement of `TimeClock` |
| `entitlement` | 1 key, 2 requests, 2 plans, 5 instants, `TTL`, `Grace` and `Timeout` of 1 | the gate follows a word that has stood longer than an answer can lag, outages are tolerated through the grace window, every request is decided, the degraded mark ends |
| `customers` | 2 customers, 2 cars, 2 jobs, 2 handlers, 1 phone, 2 plates, 2 addresses | one history per phone, a job's car is its customer's, refinement of `Clientele` |
| `side_by_side` | `Media`: 2 pictures, 2 handlers, 2 roles, 2 languages. `Staff`: 2 accounts, 2 addresses, 2 processes, 2 handlers. `Catalogue`: 2 items, 1 site. `DayReport`: 2 washes, 1 entry, 2 employees, 2 days. `RateLimiter`: 2 requests, 10 instants. `MigrateTenant`: 3 rows, 2 slots, 1 tenant. `MigrateGuest`: 3 users, 2 tenants | the promises of the seven parts, one part per behaviour |
| `migrate_tenant` | 2 rows, 2 tenants | violated: section 6 |

`side_by_side` answers a question per part. The parts share nothing, so instead of
seven small runs there is one whose first state says which part it is about; the
variables of the others stay `Nil`, and the number of states is the sum of the parts'.
What is stated in a part's module and proved, but not in a cfg (`SlotKeyUnique`,
`TerminalIsTerminal`, `StampsMatchStatus`, `OpenHoldsItsSlot`, `KeyMeansRunning`,
`ClosedIsFinal`, `StartedOnSite`, `OfferedFits`, `OneSiteAtATime`, three type
invariants), is a part of the inductive invariants of section 5 or follows from a
property that is run.

### Bounds, and why they are enough

* *Two rows and two handlers.* Every property relates at most two rows, and a race
  needs a handler that has read and another that writes in between; a third
  handler can only be a second one that came later, since handlers keep no state
  once they are done. `reservations_race` with three of either was too large to
  finish; the theorems cover any number.
* *Two employees*: enough to hand a job over. In `reservations_race` a third one
  makes a hand-over that the site refuses possible beside one it accepts.
* *Clocks of 2 to 8 instants.* Times are only compared and added. `schedule` has two
  days of four instants, a shift and a job that cross midnight, one that ends at it,
  one that starts after it, an empty window and one over `MaxShift`. In `slot_scan`
  the cap (2) is below the number of starts that fit in six instants, so it cuts.
* *One key in `entitlement`*: keys share nothing but the degraded mark, which any two
  lookups set and clear alike. The largest lag (3) is below the last instant (4), so
  a word can stand longer than it.
* *One phone in `customers`*: the properties compare jobs made with one number, and
  customers without any (walk-ins) are the others. Two plates let a car be renamed
  and a job be corrected to another; two addresses let two people claim one guest.
* *Two pictures, two handlers, two roles in `Media`*: a singular role and the gallery.
  Two handlers are enough for promotions, deletions and descriptions to cross, and a
  limit of one for the gallery to be full.
* *Two accounts and two processes in `Staff`*: two managers who suspend each other, two
  processes that both count none.
* *Amounts 0, 1, 2 and the two ends of each range in `Catalogue`*: left out, and the
  two orders two amounts can have; just outside and at a bound.
* *Days of 3 and 4 instants in `DayReport`*, with washes at the first and the last
  instant of one and the first of the other.
* *`RateLimiter`*: a request costs two instants of refill and the bucket holds two, so
  it fills in four; the janitor waits five. A request waits for the lock for at most
  one instant (`Stall`), longer than which the refill of a second is not told apart.
* *One tenant in `MigrateTenant`*, where the properties hold; `migrate_tenant` has two.
  Three rows: two that meet at a key and one of another kind or state. Two slots are
  what a job is moved between.
* `Horizon`, `MaxAhead`, `MaxShift`, `MaxSlots`, `PerMinute` stand for the
  constants of the code; a test run keeps their order of size (a shift is longer
  than a job, a minute is two instants so that rounding happens).
* *Symmetry* is taken over ids, handlers and, where the configuration does not
  tell them apart, employees. No run that uses it checks liveness.
* `CHECK_DEADLOCK FALSE`: ids are given out once, so with the ids used up, the last
  handler finished and the clock at `Horizon`, the instance stops; `SlotScan` stops
  when the call has returned; a report that has been sorted and a limiter at its horizon
  stop, too.

## 4. Fairness and liveness

Handlers can die at every step (a cancelled request, a crash), and nothing in the
service retries them. No eventual property of a handler is justified, and none is
stated. The exception is a computation inside a handler: the loop of `FreeSlots`
blocks on nothing, so it goes on while it can (`WF_vars(Next)`), and `Returns`
says that it ends for every input, a step of zero included.

The other exception is the gate. `http.Client.Timeout` ends every question, by an
answer or by an error, and a request whose caller has gone still runs to its end:
`FairSpec` makes each request advance (`WF_vars(Advance(c))`), and says nothing of
whether questions succeed, whether anybody calls, or whether the clock moves. Under it
every request is decided, and when questions no longer fail and answers keep coming
the degraded mark ends for good. Without the second condition it need not: a link
nobody uses stays marked, and so does one over which only refusals of unknown keys
come, which `ForKey` does not count as a recovery.

## 5. Proofs

All theorems are for every value of the constants that satisfies the module's
named assumptions (`NilAssumption`: `Nil` is none of the values it is compared
with; `ConfigAssumption`: bounds are natural numbers, inputs have their types; those of
the seven parts are in `SideBySide`). The runs evaluate them.

* **`ReservationsProofs`**, in six parts.
  *Types and keys*: `TypeOK` with `TargetsStored` (a handler that will update has a
  stored row to update: rows are never deleted), and `SlotKeyUnique`, inductive with
  them, since every write passes `KeyFree`.
  *Overlapping requests*: nothing is assumed about overlap. `RaceInv` cannot say that
  a draft is the row; it says which fields an update carries together (status with
  stamp, key with the half of the slot that moves) and that the half which does *not*
  move is, in the row, what the handler read. From it `CompletedIsStamped`, and
  `BookedHoldsItsSlot` for a business that uses hand-overs or corrections but not both
  (`OneHalfMoves`): with both, two overlapping requests can leave a key that fits
  neither.
  *One request a reservation* (`OneAtATime`): `SerialInv` says of each row what its
  status, key and stamps must be together and of each handler that its draft is the
  row it read, changed the way its operation changes it: with one handler per row, what
  it read is still there when it writes. From it: the key follows the job, released
  jobs hold none, `NoDoubleBooking` (from unique keys), the stamps, the three action
  properties, and `ImplementsLedger`: every step is a step of `JobLedger` or leaves it
  alone.
  *The roster*: `WorkStaysRostered`, with requests overlapping as they like, for a
  business without corrections, walk-ins and changes of the roster, the three
  operations that put work outside it. `WorkIsRostered` speaks of jobs that block and
  is not inductive as it stands: a status write with a draft read earlier can bring a
  job back that has ended meanwhile, so the place of ended jobs matters too.
  `RosterInv` has every stored row, whatever its status, in a shift of its employee,
  and the same of the draft of every handler that has read the roster; the writes of
  the others leave place and time alone.
  *One handler at a time*: `CheckedStaysApart`: what `assertFree` has read (`ClearInv`)
  is still so when the handler writes, if no other handler exists.
  *The terms of a job* (`OneAtATime`): `TermsAreKept`; `TermsInv` says that a
  draft keeps the row's price and length, unless it is an insertion or a correction
  that sets another service.
* **`AttendanceProofs`** — `Inv`: key present exactly while running, keys unique,
  closed entries measured, and of a handler about to close that its minutes were
  computed from the `in` of the entry it names, which never changes. No
  assumption on overlap is needed: the index and the conditional update carry it.
  `ImplementsClock` is the refinement of `TimeClock`.
* **`SlotScanProofs`** — the loop invariant: `t` is on the grid and `out` is what is
  bookable below `t`, or what is bookable with the cap reached. Termination stays
  with TLC.
* **`ScheduleProofs`** — `OfferInv`: every slot of an answer comes from a shift and
  clears the bookings that were read for it; from it `SlotsInTheDay` and
  `OffersAreBookable`, whatever races. `RosterInv`, under `OneAddAtATime`: a
  pending insertion fits the roster, no two pending ones are for one employee, and
  what a request has read is apart.
* **`EntitlementProofs`** — `Inv`: an entry that differs from what the platform says
  was true when its question was asked, at most `Timeout` before it was stored, so the
  platform changed its word after that (`CacheFollows`); the same of every answer on
  its way, whose question is never older than `Timeout` (`CallSound`), with the age of
  the entry it came from added; and where the cache differs from its history without a
  janitor, the entry could not have been served (`HeardFollows`). From it
  `GateFollowsPlatform` and `OutageTolerated`, for any number of overlapping lookups.
* **`CustomersProofs`** — `Inv`: the two indexes (`KeysUnique`), owners are known
  (`CarsOwned`), of every job that its customer answers to the number it was made
  with and owns its car unless that is gone (`JobsSound`), and of every handler the
  same as far as its next command relies on it (`RequestsSound`). It holds up because
  rows are never taken back (`Stay`): a customer keeps number and account, a car its
  owner, and a job once stored stays. From it `OneHistory`, `CarFollowsCustomer`, and
  `ImplementsPromise`, the refinement of `Clientele`, with no assumption on overlap:
  the indexes and the conditional update of `UpgradeGuest` carry it.
* **`SideBySideProofs`** — five of the seven parts of `SideBySide`; an invariant of a
  part is stated for the behaviours that are of it.
  *Media*: `MediaInv` says of every handler what of its row and file the calls it has
  made vouch for, and of a singular role (`RolesInv`) that a second holder is there only
  while a demotion is due or known to have been lost. From it `RowsHaveFiles`,
  `FilesAreAccountedFor`, `OneHolderUnlessPending` and `Described`, with handlers
  overlapping and every call able to fail.
  *Staff*: `StaffInv`: until the index is there nothing is stored and nobody is
  served (`StartSound`); a handler creates under an id that is nobody's, and none
  suspends its own manager (`StaffSound`). From it `LockedOutOnlyByCrossing` and
  `StaysLockedOut`.
  *Catalogue*: `LossComesByOneAmount`, from the types alone.
  *Rate limiter*: `LimiterInv`: from every instant on, what was granted since and what
  is left came of the burst and the refill since (`Balanced`); tokens go below zero by
  at most what a request waiting for the lock can have been late (`DebtIsPaid`); and
  once a bucket is forgotten, the refill alone has paid for all that was granted, by the
  clock of every request that will find it gone. The last needs `LimiterAssumption`: a
  bucket idle for `IdleTime` has refilled, which is what the janitor's comment says of
  the configuration (`middleware/ratelimit.go:67`); section 6 has what happens when it
  does not hold. From it `WithinRate`.
  *The day's report*: `DayInv` says that the lines hold what has been counted so far
  and the totals what is in the lines. Its lemmas about sums over finite sets
  (`SumOver...`) are proved by well-founded induction over the subsets of a finite set,
  written out first-order. From it `TheDayIsReported`, which also has that `DayRange`
  is the calendar day whatever its length.
* **`MigrationProofs`** — *to tenants*: `AbsentKeysStayAbsent` for any number of
  businesses: an open row always has a key (`OpenKeyed`), so a move brings none back.
  `FinishedIsProtected` for one business, from `TenantInv`: a key is of the old form or
  the new one, and no two live rows have the same (`RowsSound`); that of an open row is
  of its own slot, unless the command wrote over a move (`OpenSound`); what the program
  has left behind it is done, and what it has not come to is in its list
  (`ProgressMade`); a row it takes for rebuilt is (`TodoFresh`). With a second business
  it is false (section 6). *To guests*: `GuestInv`: every row without the new key is
  still in the list of the program while it writes, and none is left after
  (`GuestProgress`); what it
  will write over a row is right for the row as it is by then (`StillRight`); and the
  old index keeps the addresses apart until the new one does (`Covered`). From it
  `FinishedServesGuests`; with `StaffInv`, `AddressesStayApart` for both parts; and last
  `TypesHold`, the type invariant of all seven parts.

Only model-checked: `Returns`, `EveryRequestDecided` and `DegradedEnds`. They are
liveness under fairness, which is beyond the prover.

## 6. Where the code and its comments disagree

* **Completed work can change hands** (`race_completed_frozen`). `Reassign` says
  completed work is frozen, because moving it moves a bonus already earned, and
  checks the status it read; its update then filters by id alone. A `SetStatus`
  that completes the job in between is not seen.
* **A migration for one tenant rewrites another's keys** (`migrate_tenant`). The
  comment says a row of a different tenant is left alone, and the backfill does leave
  it alone; but the two rebuilds select every row that has a key and write it with the
  tenant of the command line. The other business's live bookings then hold keys its
  service never compares with, and its slots are open to a second booking.

Met while modelling, with no run of their own:

* *Two walk-ins of one new plate.* Of the second search in `findOrCreateWalkInCar` its
  comment says that the second caller wants the row the first just made. But each caller
  has just made an owner of its own, and the index is per owner and plate: the insertion
  is no duplicate, the search is not made, and the plate has two owners and two cars.
  `WalkInsShareACar` as an invariant of `customers.cfg` shows it.
* *A revoked key works again.* `ForKey` says nothing is cached for an unknown key, so
  that a revoked one does not keep working. But a lookup that asked before the
  revocation may store its answer after another request has been refused and has
  forgotten the key; from then on the key is admitted from the cache.
  `GateFollowsPlatform` bounds for how long; `RefusedStaysRefused` as an invariant of
  `entitlement.cfg` shows it.
* *A row released under the cursor.* `rebuildSlotKeys` says an absent key must stay
  absent, and selects rows that have one; a booking cancelled between the read of the
  cursor and the update by id gets its key back. `AbsentKeyStaysAbsent` says that this
  is the only way it happens.
* *A job moved under the cursor.* The key is made of the employee and start the cursor
  read. A job that `Reassign` or `EditReservation` moves before the update by id ends
  with the key of the slot it left, also after "done": its old slot stays blocked, and
  a second booking of the new one is not refused, where `keys.go` has the unique index
  "forbidding two live ones". `FinishedMeansProtected` says that this is the only way a
  finished run leaves an open job unprotected. `NoTwoInOneSlot`, which has no such
  exception, shows it as an invariant of an instance of `MigrateTenant` with one
  business and two slots. It lasts until the job is moved again or the command is run
  again while the job stands still.
* *Completed work on the slot of a live job.* Completed work keeps its key, and
  correcting its time does not change it; the rebuild then wants for it the key of the
  corrected time. If a live job has that one the update is a duplicate, the command
  stops (`Rewrite`), and stops there on every run until one of the two is moved or released.
* *A bonus above the price.* `validateWashService` compares the two amounts when the
  price is in the request; an update that brings the bonus alone is compared with
  nothing, one that brings the price alone is compared with a bonus of zero. Since zero means "left
  out", a bonus can also never be taken back to zero.
* *The limit of the gallery.* `checkLimit` counts before the upload, so overlapping
  uploads pass together; giving a picture the role by `Update`, or demoting a hero into
  the gallery, looks at no limit.
* *No hero at all.* Two promotions that cross each demote the other's picture.
  `OneHolderUnlessPending` bounds the holders from above only.
* *Two suspensions that cross* leave a business without a manager, though none can
  suspend themselves (`LockedOutOnlyByCrossing`), and then `StaysLockedOut`:
  `EnsureBootstrapManager` counts suspended managers too.
* *A bucket that had not refilled.* The janitor says that after 15 idle minutes a
  bucket "has certainly refilled to full". With a configured burst above 15 times the
  requests per minute it has not, and its owner gets the difference.
* `EditReservation` says in a comment that completing or cancelling a booking
  releases its slot key. Cancelling and no-show do (`UpdateAndReleaseSlot`);
  completing does not, as `SetStatus` in `Reservations` has it.
* `RegisterCustomer` says that a number which has booked before is no longer reported
  as a registered address. It still is when the guest booking stores its customer
  between the search by number and the insertion: `Create` does not say which index
  refused (here a `CreateUser` that ends the handler).
* A corrected plate moves the job to the owner of the other car, so the guest's number
  and reference no longer find it. The code means this ("the customer moves with the
  car"); it is why `OneHistoryPerPhone` and `Clientele` except corrected jobs.

`race_completed_frozen` has siblings with the same cause (updates by id alone): with overlapping
requests for one reservation `TerminalIsTerminal`, `ReleasedHoldsNoKey`, `OwnWork`,
`StampsMatchStatus` and, from those, `NoTwoOpenAtOneStart` can be violated too.
They are checked and proved for requests that do not overlap. In the same way
`RostersApart` and `OneSiteAtATime` need `OneAddAtATime`: `AddShift` lists and then
inserts, and no index stands behind it.

## 7. What is not modelled

* *HTTP handlers, rendering, errors, logging, configuration*: they decode one
  request, call one method and format the result.
* *Signatures of tokens, hashes of passwords*: libraries. What a token admits is in
  `Staff`.
* *The gallery's tags, order and captions; names, addresses and coordinates*: no
  property tells them apart.
* *The report's two queries as two moments*: `DayReport` takes them of one database
  state. What is completed between them would be missing from the washes and is there
  on the next call; the aggregation is the same.
* *The collections `migrate-tenant` only backfills*, and its report of stale indexes.
* *Requests of the service that cross each other while `migrate-tenant` runs*:
  `MigrateTenant` takes each of its operations whole. What crossing ones do to a key
  is in `Reservations` and `Attendance`; an edit that crosses a cancellation, say, can
  put a key back without any migration. Its cursor is one read; a driver that fetches
  later batches later reads them fresher, not staler.
* *Geometry* (`pkg/geo`): floating point. Attendance takes a distance as input.
* *Daylight saving* in `Schedule`, which has days of one length; `DayReport` has others.
* *Operator tools* (`seed`, `diag`, `lsindex`) and the demonstration console.
* *Failures of the database itself*: a command either happens or the handler ends;
  a command that happens although its answer is lost looks, to the rows, like a
  handler that ends after it, which the models have.

## 8. Plan

Done, in this order: `JobStates`, `JobLedger`, `Slots`, `Reservations`; `SlotScan`;
`Schedule`; `TimeClock`, `Attendance`; `Clientele`, `Customers`; `Entitlement`, each
with proofs; then `Media`, `Staff`, `Catalogue`, `DayReport`, `RateLimiter`,
`MigrateTenant`, `MigrateGuest`, composed in `SideBySide`, with proofs.

Left, most valuable first:

1. `CheckedWorkIsApart` and `WorkIsRostered` under weaker hypotheses: which pairs of
   operations can cross without harm, instead of none.
2. Abstract specifications of the media store (a picture is there, described, or not)
   and of the migrations (rows of the old form become rows of the new), as `JobLedger`
   is of reservations.
3. Requests bound to the process that serves them, so that a shutdown (`App.Run` waits
   ten seconds) ends exactly its own.
