# booking-doan-be in TLA+

Specifications, model checks and proofs of the ordering backend in `src/`: a Go
HTTP API with which the guests of a restaurant scan the QR code of their table,
order, and pay, and with which the staff runs the tables, the menu, the kitchen
and the backups.

1. [The system](#the-system): its parts, their state, what makes them hard
2. [What makes each part correct](#what-makes-each-part-correct)
3. [The modules and the code](#the-modules-and-the-code)
4. [The runs](#the-runs): what each asks, its bounds, what it shows
5. [Fairness](#fairness)
6. [The proofs](#the-proofs)
7. [Where the code and its words differ](#where-the-code-and-its-words-differ)
8. [What is not modelled](#what-is-not-modelled)
9. [Plan](#plan)

## The system

One Go process serves HTTP and WebSockets. Every HTTP request is a goroutine of
its own; PostgreSQL (READ COMMITTED, through a pool) holds all lasting state;
Redis holds the states of pending OAuth logins; a cron goroutine starts backups.
There are no tests. The reference is the code, with its comments and messages.

| Part | State | Operations | Interacts with |
|---|---|---|---|
| QR scan and table sessions | rows of `tables`, `sessions` | `GET /qr/{token}` | payments (same rows) |
| Payments and closing | `payment_requests`, `sessions`, `tables` | request, confirm, close, bill | scan, orders, hub |
| Order placement | `orders`, `order_items`, row locks, unique index | `POST /orders` | sessions (status, row lock), menu, hub |
| Kitchen status | `orders.status`, `order_items.status` | `PATCH` of an order or an item | orders, hub |
| Menu | `menu_items`, options, categories | admin CRUD, reading | orders, hub |
| QR codes of tables | `qr_codes` | create a table, regenerate its code | scan |
| Staff calls | `staff_call_requests` | call, move a call along, list | sessions, hub |
| Realtime hub | rooms of connections, one send buffer each | register, unregister, broadcast, pumps | every service that broadcasts |
| Backup runs | `backup_runs`, staging directories, folders on the drive | run now, run by cron, delete a run | `pg_dump`, `mc`, `tar`, `rclone` |
| Backup scheduler | `backup_settings`, an entry of the cron table | save, poll, start | backup runs |
| Drive login | states in Redis, rclone's configuration | start, callback, disconnect | backup runs |
| Login, start-up, dashboard | none of their own | | |

What makes it hard: a request is a row of SQL statements of which each is atomic
and, but for two transactions (placing an order, regenerating a code), nothing
else is. Requests interleave between any two statements; a request may stop
between any two (an error, a client that goes away and cancels the context, a
crash), and clients retry. The hub adds goroutines that share channels, and the
backups add external commands that fail, hang and are killed.

## What makes each part correct

- **Table sessions, payments.** A session is closed only when it has been paid;
  a table has one open session; the status of a table tells whether it is
  occupied; a paid session stops taking orders.
- **Order placement.** A session's orders are numbered 1, 2, 3 without gap or
  repetition; a retried request places one order and is told about that one; an
  order is stored and shown whole or not at all; calls that wait for each other's
  locks all end; a session's orders become final once it has stopped taking them.
- **Kitchen status.** An order of which something was served is not cancelled;
  every screen ends up showing what the database says.
- **Bill.** It charges what was due while it was read, nothing twice and nothing
  cancelled, and its total is its subtotal and its VAT.
- **Menu.** Guests know the menu of their branch as it is; an item that is on an
  order stays.
- **Staff calls.** Staff and guests see the same status of a call; the list has the
  calls of those who sit at the tables now.
- **Drive login.** A state is redeemed once; a token is stored with the client it
  was granted to; the account that is shown is the one the backups go to.
- **QR codes.** A table that has been given a code always has a valid one;
  regenerating leaves only the new one.
- **Hub.** No send on a closed channel (it would end the process); a connection
  sees the messages of its topic in order, and misses one only when its buffer is
  full; nobody waits for a slow connection; both goroutines of a connection end
  when it does.
- **Backup runs.** A success has saved everything; retention never costs the last
  good backup; the row of a run says how it ended.
- **Backup scheduler.** The cron table holds the schedule that was saved last and
  nothing else.

## The modules and the code

A module's actions carry the names of the statements or handlers they stand for;
`PROJECT.json` maps each definition to its lines. A step is one SQL statement (or
one transaction's statement), one critical section, one channel operation or one
command, whatever other goroutines can observe between two of them. Variables
marked *history* in a module are read by properties only.

**`TableSessions`** models `GET /qr/{token}`, the payment request, its
confirmation and the closing of a session. A *job* is a request with the name of
its next statement and what it has read: `ScanStart` (token, table and branch),
`ScanFind`, `ScanCreate`, `ScanServe`; `PayStart`, `PayInsert`; `ConfirmPayment`,
`ConfirmSession`; `CloseStart`, `CloseSession`, `CloseTable`. `Abort` ends a job
between any two. `mishap` records what may disturb a table (two scans that both
found it free, scans and closings that overlap, one of these that stopped half-way,
a confirmation that reopened a session), so that the properties can say *unless*
precisely. `halted` has the active sessions of which the last confirmation stopped
between its two writes; the next confirmation takes the session out again.

**`OrderPlacement`** models `POST /orders`: the lookup of the client's request id,
the checks of session and cart against the menu, and the transaction that locks
the session row (`LockSession`), counts, inserts the order (waiting for another
transaction's unique index entry), inserts its lines one by one, and commits, or
rolls back on any error (the index refusing the id is one). `MenuMoves` is the menu
changing meanwhile; `sstatus` is the session rows as the other requests
change them. Prices are `OrderPricing`'s.

**`MenuCatalog`** models the editors of the menu: an item is created, updated
(which may move it to another branch) or deleted, and the guests of a branch are
told, after a query of its own for the branch. `untold` is what the guests of a
branch do not know. **`MenuOrders`** puts it under `OrderPlacement`: a line's
foreign key makes a DELETE of its item wait for the order's transaction and fail
once that has committed. `Orders!Spec` is a property here too: `MenuUpdate` and
`MenuDelete` of `OrderPlacement` are shown to be all that editors do to it. Its
assumptions about constants are restated (`OrdersConstants`), so that TLC
evaluates them; `DiningRoom` does the same (`RoomConstants`).

**`DiningRoom`** EXTENDS `TableSessions` with the calls of `OrderPlacement` over the
same sessions. The session row couples
them: orders read the status the others write and hold the row lock that their
UPDATEs, and the foreign key of a payment request, wait for. `Orders!Spec` is
checked as a property: `OrderPlacement`, with its free `sstatus`, is the abstract
specification, and the rows of the whole system are shown to implement it.

**`QRCodes`** models creating a table with its code and regenerating the code:
a transaction whose UPDATE sees the rows committed when it begins, waits for rows
another transaction has changed, looks at them again once it gets them, and
inserts the new code; the database may end it as a deadlock victim.

**`KitchenStatus`** models the two PATCH handlers: the look at the lines before a
cancellation, the UPDATE, and the message to the screens, which needs further
queries and may never be sent. `screen` is what a listener knows of one order or
line, `watched`, who misses no message; `watched` is any of them, chosen at the
start, so what holds for it holds for each.

**`Bill`** EXTENDS it with orders that are placed and with `GET
/sessions/{id}/bill`: the list of the orders in one statement, then each order
with a statement of its own, charged unless it is cancelled. **`OrderPricing`**
says what the row of an order may hold: subtotal, VAT and total in hundredths,
each rounded for itself, a tie either way because of the float.

**`StaffCalls`** models the two handlers of `staff_call.go`: the look at the
session, the INSERT or the UPDATE, and the two broadcasts after it; `Listed` is
`ListByBranch`. **`Visits`** EXTENDS `TableSessions` with it over the same rows, and
`Calls!Spec` is checked as a property: `SessionMoves` is all that the table
requests do to them.

**`Hub`** models `realtime/hub.go` and the WebSocket handlers: `Register` and
`Unregister` under the write lock, `CloseSend` after it, a broadcast that holds
the read lock while it tries one connection after the other, the reading handler
and the writing pump of each connection, peers that vanish or stop reading, and
connections that come back. As in Go's `RWMutex`, a waiting writer holds off new
readers. **`Mailbox`** is what it promises a connection, with no lock, channel or
goroutine: a box that takes the messages of a topic in order, passed over only
when it is full, and left by nobody who is still owed a message. `Hub` implements
it: a connection's box is what its pump is writing followed by what its channel
holds, and a broadcast owes its message to those it has still to try.

**`Backups`** models `RunNow` and the cron job (look, then create, whose answer may
be lost after the row is there: `CreateUnanswered`), the goroutine
of `RunBackup` with its parts, the copy file by file, the retention that lists
and then purges, the writes of the row's status (lost once the time limit is
over), the deletion of rows, and restarts. The staging directory is named after a
second of the clock, so two runs may share it. A dump may be *cut*: the pipe's
exit status is `gzip`'s.

**`BackupScheduler`** models `Start` and its `reload`: `SwitchOn`, `SwitchOff` and
`Reject` are its three ways through, `cur` and `entryID` its closure's variables,
`entries` the cron table, `spoilt` the schedule that a refused expression removed.

**`BackupLogin`** models the start of an OAuth flow (a state in Redis, the client
in the consent URL), the callback with its exchange, the account's address, the
remote in rclone's file and the row of the settings, the disconnection, and the
settings that name client and remote and may change meanwhile. Google is a browser
that comes for any state with any account, once or more often.

Names that two modules have and one reader may see together carry a prefix: the
specifications are `RoomSpec`, `VisitSpec`, `BillSpec`, `CodeSpec`,
`SchedulerSpec`, and `Spec` elsewhere.

The `MC*` modules only give values to constants. The theorems are in modules of
their own, [below](#the-proofs).

## The runs

No run switches off the deadlock check. Symmetry is used where a run checks no
liveness and rows or requests are told apart by nothing. `visits` has a VIEW that
forgets the mishaps neither its properties nor any action read. Every module has a
type invariant; `tables` and `orders_race` check theirs, and a
theorem proves each.

| Run | Instance | What it shows |
|---|---|---|
| `tables` | 1 table, 3 sessions, 1 payment, 3 requests | `PaidBeforeClosed`, `SoleOpenSession`, `StatusTellsOccupancy`, `ConfirmedLeavesActive` (live) |
| `orders_race` | 2 sessions, 2 calls, 1 request id | `SeqIsPosition`, `OneOrderPerRequest`, `RetriesAgree`, `EveryCallEnds` (live), `OrdersBecomeFinal` (live) |
| `dining_room` | 1 table, session and payment, 2 requests, 2 calls | `OrdersImplemented` (refinement) |
| `menu` | 2 editors of 1 item, 2 branches, 1 call, 1 request id, carts of up to 2 lines | `MenusAreTold`, `OrdersShowWhole`, `OrdersImplemented` (refinement) |
| `qr_codes` | 2 tables, 4 codes, 3 requests | `NeverWithoutCode`, `SeenAreRetired` |
| `kitchen` | 2 orders, one with 2 lines, 2 requests, 1 bill | `ScreenAgrees`, `CancelHeedsServed`, `BillIsExact`, `BillAddsUp` |
| `visits` | 1 table, 2 sessions, 1 payment, 2 table requests, 1 staff call, 2 requests about it | `ScreensAgree`, `ListedAreSeated`, `CallsImplemented` (refinement) |
| `hub` | 2 connections of a topic, buffers of 1, 2 messages | `NoSendOnClosed`, `StreamInOrder`, `OnlyFullMiss`, `MailboxImplemented` (refinement), `ConnectionsEnd` (live) |
| `backups` | 2 runs, 2 requests, 3 parts in 2 scopes, 1 folder kept, 2 seconds | `SuccessIsComplete`, `GoodBackupRemains`, `StuckRunsExplained`, `KeepsNewest` |
| `backups_dump` | 2 runs, 2 requests, the database only | *violated:* `SuccessHasWholeDump` |
| `backup_scheduler` | 4 expressions, 2 of them valid, 2 entry ids | `NoForgottenEntry`, `FiresWhatWasRead`, `DisablingTakesEffect` (live), `SavesTakeEffect` (live) |
| `backup_login` | 2 requests, 3 states, 2 clients, 2 accounts, 2 remotes | `RedeemedOnce`, `TokensFitTheirClients`, `AccountTellsRemote` |

Why the bounds are enough for what is asked:

- A race between requests needs two of them; three are used where a third can
  profit from what two have done (a scan after two scans, a regeneration after
  two). A request that is over may come again, so a retry after two tries needs
  no third call, and two changes that are told in the wrong order need two.
- `Session`, `Payment`, `Code` and `Run` bound how many rows are ever inserted.
  Three sessions give a table its guests, those after them, and those who sit
  down twice at once; a single payment request can be confirmed twice, which is
  how sessions are reopened.
- In `orders_race` the menu stands still after the start (`SteadyMenuSpec`): it
  can only refuse a call, which ends it. `menu` lets it change; there one call is
  enough, for what editors do to an order does not depend on the others.
- A buffer of one fills, drains and fills again with two messages; with the code's
  16 the same happens later. Topics share nothing but the lock of the hub.
- In `kitchen` one order's amounts exceed their parts by a hundredth and the
  other's fall short by one, the most that rounding can do (`Priced`, which TLC
  checks of the instance).
- Three states let one be redeemed, one expire or be replayed, and one come late,
  with two requests that overlap. Two names of the remote let it be renamed and
  renamed back.
- One kept folder, two runs and two seconds let a folder become old, the folder
  of a failed copy compete with a good one, and two runs meet in one second. A third
  run, which would purge by a list that is old, is out of TLC's reach here: for it
  there is the theorem `NewestAreKept`.
- Two valid expressions let a schedule change and change back; a mistyped and the
  empty one (the scheduler's first) are refused.

For every property of a passing run `PROJECT.json` names a variant of a mapped
definition with a plausible bug under which TLC finds the property violated: the
definitions called *Variant with a bug* are these and are used by nothing else.

## Fairness

- `TableSessions`: a request that runs gets its next step, which may be `Abort`
  (`WF` of `Continue(j)`, per request): the driver returns, with rows or an error.
- `OrderPlacement`: strong fairness per call, of its steps and of its waiting.
  PostgreSQL grants a lock to those who wait in turn, so a call is not passed over
  for ever while the lock is free again and again; that is what `SF` says and
  `WF` does not.
- `Hub`: weak fairness per goroutine. A peer that stops reading but stays is
  allowed: `WriteFails` is only fair once the handler has closed the connection.
  Nothing obliges peers to vanish.
- `BackupScheduler`: the ticker polls again and again (`WF` of `Poll`), and reads
  of the settings do not fail for ever. Restarts are allowed as long as the
  property's premise allows them.

`QRCodes`, `Bill`, `Visits`, `MenuOrders`, `DiningRoom`, `Backups` and
`BackupLogin` assume no fairness: their properties say
what may not happen.

## The proofs

TLAPS proves, for every value of the constants that satisfies the named ASSUMEs,
every invariant and every action property that a run checks, and the four
refinements:

| Theorem | What it says | How |
|---|---|---|
| **`TableSessions_proofs`** | | |
| `TypeCorrect` | `Spec => []TypeOK` | `TypeInv`: the types, and that the rows that jobs and payments name exist |
| `NeverClosedUnpaid` | `Spec => []PaidBeforeClosed` | `PaidInv`: also that the jobs about to write a session's status have its payment confirmed; a payment once confirmed stays so (`PaidStays`) |
| `OneOpenSession` | `Spec => []SoleOpenSession` | `SoleInv`: at an undisturbed table, open sessions plus scans about to insert one are at most one |
| `StatusIsOccupancy` | `Spec => []StatusTellsOccupancy` | `OrderInv`: at an orderly table one request at most is at work, and from its next statement follows how sessions and status differ (`WorkAt`) |
| `PaidSessionsAttended` | `Spec => []PaidIsAttended`: a session with a confirmed payment is past 'active', or a request is about to take it there, or it is in `halted` | the safety half of `ConfirmedLeavesActive`: a job at `ConfirmSession` leaves it by that write or by stopping |
| **`OrderPlacement_proofs`** | | |
| `TypeCorrect` | `Spec => []TypeOK` | with `CartInv`: a call in a stage that reads a line is within its cart |
| `OrdersNumbered` | `Spec => []SeqIsPosition` | the holder of a session's lock has counted what is there, and only the holder appends |
| `RequestsAreIdempotent` | `Spec => []OneOrderPerRequest` | an id is on one order or is held by one transaction, never both |
| `RetriesGetTheSame` | `Spec => []RetriesAgree` | `AnswerInv`: what was answered, or is about to be read back, is in the database under that id, which `OneOrderPerRequest` makes unique |
| `OrdersAreWhole` | `Spec => []OrdersShowWhole` | `WholeInv` and `ReferredInv`: a transaction's lines are those of its cart so far, and no item a line refers to, committed or not, is deleted |
| **`SharedSessions_proofs`** | | |
| `RoomRespectsOrders` | `RoomSpec => OrdersImplemented` | each step of a table request is a `SessionMoves` of `OrderPlacement` or a stutter: a closing finds its session past 'active' (`StatusInv`), and no transaction holds the row of a session that is not there (`OpenedInv`) |
| `RoomKeepsBoth` | `RoomSpec =>` the invariants of `TableSessions` and of `OrderPlacement` | a step of the room is one of `TableSessions` or a stutter; and the theorem before |
| `VisitTypeCorrect` | `VisitSpec => [](TypeOK /\ CallsTypeOK)` | with `StatusInv` and `ScreensInv` |
| `VisitsRespectCalls` | `VisitSpec => CallsImplemented` | each step of a table request is a `SessionMoves` of `StaffCalls` or a stutter |
| `ScreensTellTheStatus` | `VisitSpec => []ScreensAgree` | `ScreensInv`: unless muddled, one request has something to tell, it is the row's status, and the topics it has told show it |
| `CallersAreSeated` | `VisitSpec => []ListedAreSeated` | calls refer to sessions that were opened (`RefersInv`), and `OneOpenSession` |
| **`Admin_proofs`** | | |
| `MenuTypeCorrect` | `Spec => []TypeOK` (of `MenuOrders`) | `CatalogInv`, and `OrderPlacement`'s through the refinement |
| `MenusTold` | `Spec => []MenusAreTold` (of `MenuOrders`) | `ToldInv`: what a branch does not know has an editor who will tell it, or one of the causes; `AskedInv`: the branch an editor has read is the item's own unless it was moved or deleted |
| `EditorsRespectOrders` | `Spec => OrdersImplemented` (of `MenuOrders`) | a step of an editor maps to `MenuUpdate`, `MenuDelete` or a stutter: the foreign key refuses the others |
| `OrdersStayWhole` | `Spec => []OrdersShowWhole` (of `MenuOrders`) | from the refinement and `OrdersAreWhole`, which holds for any menu that moves as `OrderPlacement` lets it |
| `CodeTypeCorrect` | `CodeSpec => []CodeTypeOK` | `CodeInv`, of the next two |
| `NeverLeftWithout`, `SeenOnesRetired` | `CodeSpec => NeverWithoutCode`, `CodeSpec => SeenAreRetired` | `InsertedInv`: the row a transaction has inserted is its own; `RetiredInv`: each row its UPDATE saw is still to be looked at, locked by it, or inactive for good |
| **`Bill_proofs`** | | |
| `BillTypeCorrect` | `BillSpec => []BillTypeOK` | with `KitchenStatus`'s types, of which a step of `Bill` is a step or a stutter |
| `BillsAreExact` | `BillSpec => []BillIsExact` | `ExactInv`: of the orders that did not turn, those still to be read are not on the bill and the others are if due |
| `BillsAddUp` | `BillSpec => []BillAddsUp` | an order adds its own excess, which two roundings make a hundredth at most (`ExcessOfARow`) |
| `ScreensAgree`, `ServedIsNotCancelled` | `BillSpec => []ScreenAgrees`, `BillSpec => CancelHeedsServed` | `ScreenInv`: unless muddled, one request at most has a change to tell; `StayedInv`: a cancellation that has looked had no served line |
| **`Hub_proofs`** | | |
| `TypeCorrect` | `Spec => []TypeOK` | no channel holds more than its capacity: a send is made only where there is room |
| `ClosedNeverSentOn` | `Spec => []NoSendOnClosed` | `RegisteredInv`: a broadcast tries registered connections only, and those close their channel after they have left the room |
| `MissesAreOnesOwn` | `Spec => []OnlyFullMiss` | `AudienceInv`: of those registered when a broadcast began, each is still to be tried, has it in its stream, was full, or its peer is gone |
| `StreamsInOrder` | `Spec => []StreamInOrder` | `BroadcastInv`: what is in a stream is not to be sent there again, and broadcasts that were over stay over |
| `HubKeepsItsPromise` | `Spec => MailboxImplemented` | each step is one of `Mailbox` or a stutter; `HandsInv`: a pump that writes holds one message, and who leaves has lost its peer; `RegisteredInv`: who is owed a message is registered |
| **`Backups_proofs`** | | |
| `TypeCorrect` | `Spec => []TypeInv` | with `StampsInv`: who packs or removes has a staging directory with a name |
| `RunsExplained` | `Spec => []StuckRunsExplained` | `EndWritten`: a run that is past its last UPDATE has ended in its row, or the UPDATE was lost |
| `NewestAreKept` | `Spec => KeepsNewest` | `PurgeInv`: what a run has listed for removal stays old, whatever others send or remove |
| `SuccessesAreComplete`, `GoodBackupKept` | `Spec => []SuccessIsComplete`, `Spec => []GoodBackupRemains` | `ClockInv`, `AloneInv`: no folder is of the future, and a run that met no other has in its staging directory and its folder what its stage says, and never lists its own folder |
| `SchedulerTypeCorrect`, `NothingForgotten`, `FiresOnlyWhatWasRead` | of `SchedulerSpec`: the types, `NoForgottenEntry`, `FiresWhatWasRead` | `EntryIsCurrent`: an entry is the remembered one, and what is remembered is what was read last; so removing it empties the table |
| `RememberedHolds` | `SchedulerSpec => []RememberedIsInForce`: what the scheduler remembers is in force, or was removed by a refused expression | the safety half of `SavesTakeEffect` and `DisablingTakesEffect`: a poll that finds nothing changed may return because of it |
| **`BackupLogin_proofs`** | | |
| `TypeCorrect` | `Spec => []TypeInv` | a callback holds the code of a client, and what Redis knows went out in a URL |
| `StatesRedeemedOnce` | `Spec => []RedeemedOnce` | inductive with the types: it says itself that what was redeemed is gone |
| `TokensFit` | `Spec => []TokensFitTheirClients` | from the exchange on, the client a callback has read is the one its code was issued to |
| `SettingsTellTheAccount` | `Spec => []AccountTellsRemote` | `AloneInv`: what a request that met no other did to rclone's file is what it will write to the settings |

The invariants that the properties name are not inductive (but for
`RedeemedOnce`): they do not say what requests *in progress* are about to write.
Each strengthening adds exactly that. A refinement needs it too, for the abstract
action has a guard that the concrete step only meets by what is known of the
requests: that of `DiningRoom` needs both parts' invariants.

The assumptions are about constants only (null values are no ids, a cart is a
sequence of lines, and the like); TLC evaluates them in the runs. No
theorem has another hypothesis: what is proved of `OrderPlacement` is used in
`MenuOrders` and `DiningRoom` after the refinement has been proved, under the
assumptions that these modules restate.

Only model-checked, for the prover reaches neither liveness nor ENABLED:
`ConfirmedLeavesActive`, `EveryCallEnds`, `OrdersBecomeFinal`, `ConnectionsEnd`,
`DisablingTakesEffect` and `SavesTakeEffect`. The counterexample of
`backups_dump` is a run's as well. Induction over data and RECURSIVE operators,
which it does not reach either, are not needed.

## Where the code and its words differ

One run ends with a counterexample and is an entry under `findings`.

1. `backups_dump`: `pg_dump` fails, the pipe into `gzip` does not tell, and the
   run is recorded as a success.

The others are seen from the exceptions that properties have to make. Such a property
does not say that the case cannot occur (it can, nothing in the code prevents it), but
that nothing else brings the bad state about:

2. An order is added to a session whose payment has been confirmed, though
   `order.go:60` tells customers that such orders are refused: the status is checked
   before the transaction and not again under the row lock. `OrdersBecomeFinal` says
   that this ends.
3. Two regenerations of a code at once leave two valid codes, though
   `admin_table.go:109` says "old one deactivated". `SeenAreRetired` speaks of the
   codes the transaction saw.
4. An order of which a line is served while it is being cancelled is cancelled,
   though `order_service.go:163` says that it cannot be. `CancelHeedsServed`
   speaks of lines served before the request began.
5. Two backups run side by side, though `backup.go:96` tells the second request
   that one is running and to wait. `SuccessIsComplete` excludes runs that
   overlap.
6. After a restart, an expired time limit, or an INSERT of a run that was committed
   while its answer was lost, every backup is refused with that answer although none
   is running. `StuckRunsExplained` names the causes.
7. After a mistyped schedule, saving the old one again takes no effect until another
   one is saved or the process restarts, though `backup_scheduler.go:18-20` says that
   a save does. `SavesTakeEffect` excepts that schedule (`spoilt`) and no other.

Further exceptions concern what no line of the code promises: two overlapping
changes of one order, one line or one staff call may leave a screen with the older
status, and so may a query that fails before the message (`ScreenAgrees`,
`ScreensAgree`); the guests of the branch an item has left are not told
(`MenusAreTold`); a bill read while orders turn may be that of no moment
(`BillIsExact`); logins that meet or stop half-way, and renaming the remote, leave
an account that is not the drive's (`AccountTellsRemote`).

## What is not modelled

- Of the menu: a new category, which concerns no item yet; the options of an item,
  which nothing but a migration's seed writes; the filters of the lists, which
  change no state.
- Admin login (a password check and a signed token, no state), health checks,
  counts for the dashboard, configuration, connections at start-up, rendering of
  QR images: no behaviour of their own.
- The lists of payments, of tables, of orders and of runs: one SELECT each.
- The contents of the messages of the hub; the hub is checked with opaque ones.
- Floating-point addition: a sum of prices with two decimals is taken to be off by
  less than what turns a rounding, except at a tie.
- In `Backups`: processes and pipes (that killing `sh` leaves `pg_dump` running is
  listed as a hazard; it is also why that a run ends is not stated), a clock that
  goes back, changes of the retention count.
- In `BackupLogin`: the time at which a state expires (it may at any time) and what
  rclone does with a token later.

## Plan

1. Properties that hold between the parts: that a bill is read of a session whose
   orders may still come, and that the messages of orders go through the hub in
   the order of their commits or not (`order_service.go` broadcasts after it).
2. The options of a menu item, once something but the seed writes them.
