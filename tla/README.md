# Verification of the driving-school booking platform

This directory holds TLA+ models of the booking platform in `src/`, the TLC runs that check them on
small instances, and TLAPS proofs of their main properties for every value of the constants. The
code that matters is the backend, `src/backend/src` (Express, Sequelize, MySQL); paths below are
relative to it unless they start with `src/`.

Run a check with `tlc -workers 2 -config <run>.cfg <MC module>` and a proof with `tlapm <module>.tla`.

## The system

Students book driving lessons with an instructor, pay for them by card, in cash or with lessons of a
package, and cancel them. Staff book, move, cancel and archive lessons, record income and decide on
refunds. A cron pass clears what was not paid for.

| Part | State | Operations |
|---|---|---|
| Card checkout (`services/vpos-payment.service.ts`) | `payment_sessions` rows; the bank's orders outside | initiate, return, fail, sync, reconcile |
| Cron pass (`services/booking-cron.service.ts`, timer in `server.ts`) | none of its own | reconcile sessions, delete expired holds, cancel unpaid reservations, reminders, lesson completion |
| Slot reservation (`services/booking.service.ts`, `services/booking-slot-validation.service.ts`) | `bookings`, `booking_slots` with a unique index | book, enter, confirm, cancel, archive, delete, move, patch, remove an hour |
| Booking money (`services/finance.service.ts`, `utils/booking-admin-payment.util.ts`) | payment columns, income rows, refund lines | card payment, record, delete, refund request and decision, cancellation, archive, staff edit |
| Practical credits and packages (`services/student-practical-credits.service.ts`, `student-entitlements.service.ts`) | orders, balances, extra blocks | grant, consume, restore |
| Cash register (`services/cash-register.service.ts`) | shifts, entries | open, close, entries |
| Theory cohorts (`services/theory-cohort*.service.ts`) | seats, enrolments, sessions | enrol, change, remove, regenerate |
| Personal theory requests | requests | request, contact, book, link, cancel |
| Lesson completion (`services/lesson-completion.service.ts`) | completion flag | mark, heal |
| Sign-in (`auth`, `admin-mfa`, `refresh-token`, `oauth-*`, `student-invitation`) | challenges, tokens, invitations | start, verify, redeem, revoke |
| Petrol requests, fleet, salaries, director ledger, reports, notifications, exam questions, content | single rows and sums | create, update, delete, read |
| Panel client and marketing site (`src/client`) | no authoritative state | calls to the backend |

How the parts interact: the checkout fulfils a captured order by calling the booking service, which
locks the booking, confirms it, writes an income row and, for theory, enrols the student in a cohort.
For packages it creates an order and credits. The cron pass asks the checkout which bookings await
a payment and spares those. A cancellation deletes slot rows, gives back credits and writes refund
lines. A staff edit writes payment columns, slot rows and income rows in one transaction, computed from a
row read before it. All parts share the database; there are no queues.

What is hard here:

- handlers await between a read and the write that depends on it, and only some lock the row;
- the bank answers late, its redirect is lost or repeated, and four entry points verify one order;
- a Sequelize row is an object in memory: `row.update` writes the columns that differ from what was
  read, over whatever was committed since;
- a hold expires, a session ages out and a cron pass runs while a student is paying;
- closing a booking deletes its slot rows, and a staff edit may open it again;
- refunds of a payment and of a booking follow different paths with references of their own;
- what a package is sold, assigned or archived by is read without a lock, so two of these go on with what the other has changed;
- a slot row says when a lesson starts, and only the grid of starts or `end_time` how long it is.

What makes each part correct: the checkout delivers a captured order once and nothing uncaptured; the cron
pass frees every abandoned hold; an hour has one open booking; refunds stay within income and are
written once; the ledger agrees with the booking after an edit; a credit is spent once and given back to
where it came from; a closed shift keeps its totals; a cohort has no more students than seats.

## Modules

| Module | Kind | Models |
|---|---|---|
| `VposCheckout` | specification | card checkout, the bank, holds, the cron pass; implements `Delivery` |
| `Delivery` | abstract specification | an order is for one good, handed over once, after its capture, and not once it is withdrawn; what there is only one of goes to one order |
| `MCVposCheckout` | instances | |
| `VposCheckoutProofs` | proofs | |
| `BookingLedger` | specification | payment columns, income rows and refund lines of one booking |
| `MCBookingLedger` | instances | |
| `BookingLedgerProofs` | proofs | |
| `Calendar` | abstract specification | an hour is held by one booking; a booking takes free hours only |
| `SlotReservation` | specification | bookings and slot rows of an instructor's day; implements `Calendar` |
| `MCSlotReservation` | instances | |
| `SlotReservationProofs` | proofs | |
| `PracticalCredits` | specification | the practical lesson credits of one student: orders, profile counters, extra blocks, what bookings hold |
| `MCPracticalCredits` | instances | |
| `PracticalCreditsProofs` | proofs | |
| `CashRegister` | specification | shifts of the branches, the ledger lines they count, the director's edits |
| `MCCashRegister` | instances | |
| `CashRegisterProofs` | proofs | |
| `TheoryCohort` | specification | cohorts, their sessions, enrolments, and the bookings and payments that enrol |
| `MCTheoryCohort` | instances | |
| `TheoryCohortProofs` | proofs | |
| `LessonCompletion` | specification | the completion flag of lessons, the passes that set and repair it |
| `MCLessonCompletion` | instances | |
| `LessonCompletionProofs` | proofs | |
| `LessonRequests` | specification | a student's requests for personal theory lessons, the handlers that work on them, the pool of connections |
| `MCLessonRequests` | instances | |
| `LessonRequestsProofs` | proofs | |

Conventions. Tables are one function per column (`status[s]`, `rows[b]`), grouped in tuples for
`UNCHANGED`. A request or a cron pass is an actor with a program counter `pc[a]` and what it holds
in memory; every `await` between a read and a dependent write is a step boundary. A transaction that locks
the rows it decides on is one step; one that decides on rows it only reads is a step that looks and a step that writes. An operator whose comment begins with "Faulty" is not part of
a specification: it is a plausible slip in the definition after it, and replacing that definition by it
breaks a property.

### VposCheckout and Delivery

`target`, `status`, `age` are `payment_sessions`; `bank` the order register outside; `lesson`, `paid`,
`held`, `left`, `ext` the columns of `bookings` that the checkout and the cron pass read; `ledger` the
finance rows by provider reference; `offered` the packages and blocks that can be handed over: the package has not been
deleted and the account is still a student's. `grants` and `raced` are histories: what each order created, and the orders whose
transaction looked for a paid order before another one of the same package was committed.

- `Initiate`, `InitiateReuse`, ..., `InitiateRegister` are the steps of `initiate`: reuse a
  pending session, expire its duplicates, create, register with the bank, record the outcome.
- `Load`, `AskBank`, then `RecordUnpaid`, `FulfilBooking`, `FulfilAlreadyPaid` or `FulfilThrows` are `verifyAndFulfill` as
  entered by the return link, the fail link and the student's sync;
  `Catch` and `CatchFail` are the error paths, which write `failed` through the object loaded before.
- The fulfilment of a package or a block locks its own session and nothing else, and looks for a finance row of the order and a paid
  order of the package by plain reads. It finds one (`FulfilEntitlementDone`), or nothing (`FulfilEntitlementLook`) and then
  inserts and commits (`FulfilEntitlementInsert`) or is rolled back (`RollBack`); the session stays locked meanwhile, other sessions of
  the package do not. When the package or the student is gone it returns null, which `fulfillLockedSession` does not look at:
  the session is settled as paid with nothing handed over (`FulfilEntitlementGone`). `Withdraw` and `Restore` change `offered`.
- `CronExpire` ... `CronCancel` are the steps of `runDueJobs` that matter here.
- `CreateBooking`, `StartPaymentWindow`, `ExtendHold`, `CancelBooking` are the booking's own steps;
  `BankCapture`, `BankDecline`, `Tick` and `Restart` are the environment. A restart forgets all memory.

`Delivery` knows orders and goods only, and of which goods there is only one (`Single`). `VposCheckout` implements it with `good <- target`,
the orders captured at the bank, `delivered <- grants`, `Single <- Bookings`
and the bookings closed or deleted as the goods withdrawn: `InitiateCreate` places an order, `BankCapture` captures it,
`FulfilBooking` and `FulfilEntitlementInsert` deliver, and a closed booking, whoever closes it, is withdrawn. All other steps are stutters.
A captured order may stay undelivered, which is what happens to a booking that was closed meanwhile. A package is not `Single`, since
two orders may each be delivered (`OneGrantPerTarget` says when).

Time is in ticks of ten minutes, so the payment hold of `vpos_booking` and `vpos_live` is 1. In `vpos_entitlements` it is 0, a tick longer
than the hold: nothing there has a hold, and a session is either young enough to be asked about or not.

### BookingLedger

One booking: `lesson`, `pstatus`, `amount`, `paidAt`, `requested` are its columns; `entry`, `gross`, `manual`,
`ask` the income rows; `out` and `dead` the refund money written under a reference and how much of
it is voided. `CreateRead`, `CreateSum`, `CreateInsert` record income without a lock, `RequestRefund` and
`RejectRefund` read and write in two steps, `PatchRead` and `PatchWrite` are a staff edit with the
row it read. Card payment, cancellation, approvals and archive lock the booking or the row and are one step.

### SlotReservation and Calendar

One instructor's day of hours `1 .. LastHour`. `lesson`, `first`, `last` are columns of `bookings` (`last` is the
hour before `end_time`, 0 where it is null), `rows[b]` the starts of its `booking_slots`. A row stands for one start, and what a booking
occupies follows from the rest: `Plan` is the school's grid of starts, `Branch` the one of the instructor's branch, and a start lasts
until the next one of its grid (`Range`). `Occupied` is `occupiedRangesMinutes`: a booking without rows occupies what its
columns say; a lone row the lesson up to `end_time`, unless that runs over other starts of the grid, in which case the row stands for its own
start alone; several rows each their own range.

`CheckStudent` and `CheckStaff` find the hours free; `Book` and `Enter` insert later, subject to the unique index over starts only. Staff
enter lessons on the branch's grid (`Practical`), personal theory by the hour (`Personal`, whose `end_time` is null when there are gaps) and
lessons with an end of their own (`Custom`), which store one row at the start and `end_time` hours later. `Move`, `Patch` and `RemoveSlot`
are the transactions of staff edits, with the status and times read before (`seenLesson`, `seenFirst`,
`seenLast`) and what was asked for (`want`, `until`); `Column` is Sequelize's rule that an unchanged value is not written. `Sync` first drops rows
of closed bookings (`Purged`). `given` is a history variable, the rows a booking was made with until staff edit it.

`Calendar` has one variable, the hours each booking holds. `SlotReservation` implements it under
`held <- Booked`, the starts claimed by open bookings: every transaction changes one booking's starts, takes
only starts no open booking claims, and takes none from another one. That is what the unique index gives. It is not that
lessons never overlap: see `slots_double` below and `DoublesExplained` among the proofs.

### PracticalCredits

One student. `order`, `item`, `included`, `booked` are `package_orders` and their balances; `package`, `total`,
`completed` the profile; `bought`, `used` the extra blocks; `pkg`, `units`, `from`, `extra`, `sale` what a
booking remembers in `prepaid_meta`. `StudentBook` (newest order first, then the profile counters, then the oldest block),
`StaffBook` (all from one order, created if need be), `Cancel` and `Archive` lock what they decide on
and are one step each. `EditStatus` closes or reopens a booking without looking at its credits, and staff type into the profile.

Three operations look for orders in the snapshot of their transaction, without a lock, and write later. Each is a
request `r` with a program counter `at[r]` and what it found, `seen[r]`, which other steps may make stale:

- `applyPackageAssignment`, for a purchase, an assignment and an edit of the student: `LookForOrder` finds the newest active order of the package or
  none; `Assign` sets that order to paid, whatever its status has become, or makes one, and writes the columns of the profile
  that differed in the snapshot (`WriteProfile`). An edit goes on (`NamePackage`) to write the package again;
- `ensureActivePackageOrder`: `LookToEnsure`, then `HasOrder` or `EnsureOrder`; for a sale or lessons sold with a package
  then `SellNewOrder` or `PackageBook`. `SellPackage` sells an order that exists;
- `archive` of a booking that sold a package: `LookToArchive` locks the booking (`Locked`), sees whether another open booking sold the
  same order, and which active orders are left; `Detach` cancels the order and moves the profile to the newest one it saw, or
  clears it, if the profile, read locked, still shows the package; `ArchiveAlone` leaves the order to the other sale.

`Outrun(r)` says that the order a request found was cancelled since. Then a purchase revives an order an archive cancelled,
and two crossed archives, or an archive and an assignment, leave the profile at a package the student does not hold: `BooksOnlyWhatIsLeft` and
`ProfileStaysHeld` allow that to a request that was outrun, and to nothing else. A request runs once; one that fails is one that stops.

### CashRegister

`status`, `branch`, `opened`, `closed`, `counted` are `cash_shifts`; `kind`, `date`, `made`, `place`, `owner`, `edited`
one ledger line each. Amounts are left out: the totals a shift stores are the set of lines they add up
(`counted`). Opening is two steps, since the transaction finds no row to lock and only the unique key decides at
its commit (`BeginOpen`, `FinishOpen`); closing takes its time before it waits for the row (`BeginClose`, `FinishClose`),
and under the lock reads everything at once. Entries check the shift first and write later. The director's ledger
creates, changes and removes lines without looking at a shift. Lines of other kinds (repairs, bookings) go
through the same attribution as fuel or as cash lines of a branch. Two shifts of one branch on one day count the same cash lines: this is
what `linesForShift` does, by day and branch, and no property excludes it.

### TheoryCohort

`cohort`, `seats`, `plan`, `sessions` are the cohort and its generated sessions by day, `enrolled` its enrolments, `lesson`,
`student`, `group` the theory bookings. `loose` is a history variable: the booking was confirmed by hand,
rests on an enrolment it did not make, or shares one that another booking gave up.

MySQL's repeatable read fixes a transaction's snapshot at its first plain read. Two transactions read something before
they wait for the cohort's lock and then decide on that snapshot, which is the `view` in the request's memory: the credit booking
(`BeginCredit`, `FinishCredit`; it first reads whether the order is paid) and the update that carries
instructors (`BeginUpdate`, `ReadInstructors`, `FinishUpdate`). Other enrolments read under the lock and are one step. A payment
enrols in a transaction of its own (`BeginPay`) before its own commits or rolls back (`FinishPay`). A hold that waits for payment may
expire at any moment; when that is so is `VposCheckout`'s subject.

### LessonCompletion

`when`, `lesson`, `passed`, `flag` are the columns of a booking that matter here; `stage`, `left` and `row` a pass of
`markDueLessonsCompleted`: it lists the open bookings that are held closed, repairs them one by one, lists the lessons that are due,
and marks them, each from the row it listed. Passes overlap: a tick of the timer does not wait for the one before, and
staff may start one (`admin-jobs.controller.ts`). A staff edit and a verdict of the instructor read the booking first
(`Begin`) and write later; closing locks it. A pass may throw or the process stop (`Abort`).

### LessonRequests

`row` holds the status and the lesson of each request of one student to one instructor, `maker` for which request (or by the `Office`, without
one) a lesson was made, `handler` what an HTTP request has read and where it waits. A contact, a cancellation, a removal and a link read the
row (`Read`), decide, and write what differs later (`Connect`, `Write`, `Merged`). `createBookingFromRequest` locks the row in one
transaction (`Lock`) and calls `createAdmin`, which commits the lesson in another (`MakeLesson`) and lists bookings before it returns; then the row
names the lesson (`NameLesson`). Each of these needs a connection of the pool, and an open transaction and a statement that waits for a lock
keep theirs. The pool limits the wait for a connection and the database the wait for a lock (`GiveUp`), and the process may be restarted;
either undoes the open transactions, never a committed lesson. `crossed` is a history variable: a write went over a row its handler had
not seen, or a handler broke off with its lesson committed.

## Runs

| Run | Checks | Bounds | States |
|---|---|---|---|
| `vpos_booking` | `TypeOK`, `PaidIsDelivered`, `ClosedStaysClosed`, `KeepsDelivery` | 2 sessions of 1 booking, 1 request, 1 cron pass, hold 1, 1 extension, 1 restart | 2.0 M |
| `vpos_entitlements` | `OneGrantPerOrder`, `OneGrantPerTarget`, `PaidIsDelivered` | 2 sessions, 1 package, 1 extra block, 1 request, 1 cron pass, hold 0, 1 restart | 2.4 M |
| `vpos_live` | `PendingResolves`, `ExpiredHoldResolves` | 1 session, 1 booking, 1 extra block, 1 request, 1 cron pass, hold 1, no extension, 1 restart | 308 k |
| `ledger` | `TypeOK`, `CancellationWithinIncome`, `RefundedOncePerRef`, `CancellationPaysBack` | price 2, 1 row, refunds up to 2 | 174 k |
| `ledger_income` | `CardIncomeKept`, `EditBalancesLedger` | price 2, 2 rows, no refunds | 72 k |
| `slots` | `TypeOK`, `UntouchedHoldsItsHours`, `KeepsCalendar` | 2 bookings, 3 hours, starts at the first and third, 1 student, 1 of staff | 1.5 M |
| `slots_double` | `NoDoubleBooking` is violated | 2 bookings, 2 hours, both starts | 8 steps |
| `credits` | `TypeOK`, `HeldUnitsAreBooked`, `ExtrasAccountedFor`, `BooksOnlyWhatIsLeft`, `ProfileStaysHeld` | packages of 1 and 2 lessons, 2 orders, 1 extra lesson, 2 bookings of 2 hours, 2 requests, no sale before or two | 1.8 M |
| `cash` | `TypeOK`, `OneOpenPerBranch`, `FuelCountedOnce`, `CountsItsEntries`, `ClosedStaysAsCounted` | 2 branches, 2 shifts, 2 of staff, 1 line, 2 days of 4 instants | 1.7 M |
| `theory` | `TypeOK`, `HistoryKept`, `SessionsToComeKept`, `EnrolmentFits`, `ConfirmedIsEnrolled` | 1 cohort of 1 seat, 3 plans, 2 days, 2 students, 2 bookings, 1 slow request | 398 k |
| `completion` | `TypeOK`, `Settles` | 1 booking, 2 passes, 2 slow requests, 3 changes | 288 k |
| `requests` | `TypeOK`, `OneLessonEach`, `LessonIsNamed`, `BookedStays`, `EveryHandlerEnds` | 1 request, 3 lessons, 2 handlers, a pool of 2 | 102 k |

What the passing runs show:

- `vpos_booking`: with two checkouts of one booking, a handler and a cron pass interleaved at every await, a restart
  and money arriving at any moment, a paid session has a confirmed booking behind it, nothing is
  delivered without a capture or twice, a late payment never revives a closed booking, and the checkout is a `Delivery`.
- `vpos_entitlements`: a request and a cron pass verifying the orders of a package and an extra block at once, and stopped anywhere, create what
  each order is for once, whichever error path overwrote the session in between. Two orders of one package each create one only if their transactions
  overlapped. A session that is settled was delivered, unless the package or the account was gone at that moment.
- `vpos_live`: every session is settled or expired and every expired hold goes away, whatever the student and the
  bank do.
- `ledger`, `ledger_income`: no refund line is written twice, a cancellation refund stays within the income and pays back what was
  collected, card income is never changed by staff edits, and an edit brings the ledger to what the booking says.
- `slots`: checks outside the transaction, stale staff edits and the purge of leftovers cost no open booking
  a row, whether it was booked on the grid, by the hour or with an end of its own, and no start has two open bookings.
- `credits`: however bookings are closed, reopened and closed again, orders get back no more than was booked on them, every used extra
  lesson is held by one booking, and nothing is booked on an order that was detached or is used up. A cancelled order comes back, and the
  profile ends at a package the student does not hold, only through a request whose order another cancelled after it looked.
- `cash`: a branch has one open shift; a close that waited changes nothing; a fuel line is in two totals only if it was made
  after one of the closing times; an entry made before the closing time is counted, over midnight too.
- `theory`: a new plan never removes what has taken place and takes no session to come from an enrolled student, a seat is
  given only where one is free, and a confirmed booking has its student enrolled. Each of the last three has one
  exception the code makes, named in the property: the step that writes by an old snapshot, or a `loose` booking. A `loose` booking may be a
  credit booking of a student who was enrolled before: nothing is said of it, since whatever it rests on may be given up.
- `completion`: stale writes of passes, edits and verdicts may leave a wrong flag; when people stop changing bookings the passes put every flag
  right.
- `requests`: however handlers meet, time out or are restarted, one lesson is made for a request and the request names it, unless
  `crossed` says why not; a booked request is changed only by a handler that had read the row before; two
  bookings that hold the whole pool and wait for one more connection end all the same.

Why the bounds are enough: a second session, row or booking gives the pair every race here needs; a third
adds no kind of step. A package and a block are the two goods an entitlement can be, and with two sessions both may be
orders of the package. A price of two units has an unpaid, a partial and a full payment. Three hours of which the first and
third are starts give a start that lasts two hours, one that lasts one, an hour off the grid, lessons with an end of their own that cross the next
start, and an hour removed from two. A refund line of the second path fits `MaxOut` twice the price.
One ledger line suffices for
the cash register, whose properties speak of one line and two shifts. One seat and two students fill a cohort; days yesterday and
today and plans that gain, lose and move sessions give every case of the plan change; the seats of the run do not change, so that staff
lower them is in the theorem `SeatsAreFree` alone. Two credit requests are what it takes to overlap, two orders what an archive needs to move
the profile from one to another, and a lesson of two hours empties the larger package. One booking suffices for its flag, since a
pass treats each row by itself; two passes overlap, and two slow requests cross. Handlers meet on one request row, and two use up a pool
of two; two requests, and three handlers, give the safety properties the same answer. Three lessons are one for each handler and one of the office.
`MaxRestarts`, `MaxRows`, `MaxOut`, `MaxTime`, `LastDay` and `MaxChanges` are the only bounds in guards; the rest are finite sets of
identities. `vpos_booking` and `vpos_entitlements` use symmetry over sessions, requests and cron passes;
they check invariants and properties of steps, for which it is sound. `credits` uses it over bookings and requests,
`cash` over branches and staff, `theory` over students and bookings. The runs with liveness, `vpos_live`, `completion` and `requests`, use none.

Deadlock is checked in all passing runs but three. `cash` stops at the bound of its clock with all shifts closed and nothing
pending, and `theory` may stop on the last day with the cohort removed, since ids are not used again;
in `requests` the ids of requests and lessons run out.

Fairness (`vpos_live`, `completion`, `requests`). In `requests` a handler that has begun goes on: the queues of the pool and of the row locks are
served in order and both waits are limited. In `completion` the timer starts passes and a pass goes on; what fails is bounded by `MaxChanges`, since a write that throws for
good settles nothing. In `vpos_live` time goes on and each cron pass takes its next step: the timer in
`server.ts` starts a pass every interval and a pass that throws is started anew. A pass waits for the row of a session another handler has
locked, and is served in order (strong fairness of `CronStep`); that handler's open transaction commits or is rolled back (weak fairness of
`FulfilEntitlementInsert` or `RollBack`). Nothing else is assumed of requests, and nothing of students, staff
or the bank. The timer is off unless `BOOKING_CRON_ENABLED` is 1 (or the script
`run-booking-jobs.ts` is scheduled): without it the liveness properties of `vpos_live` and `completion` do not hold.

### Disagreements found

One is a run that ends in a violation, with the line the code contradicts in `PROJECT.json`.

1. `slots_double`, `NoDoubleBooking`: a cancelled booking set open again by a staff patch is not checked and gets no slot rows, so
   it shares an hour with the booking that took its place. With the hours and the grid of `Slots.cfg` there is a second way, in five steps and
   without any edit: two requests check and then insert lessons of different starts, of which one is off the grid and within the other lesson.
   Each has a row for its start, so the unique index accepts both. `DoublesHaveACause` says that these two are the only ways. (A lesson at a start of the grid
   whose own end is past the next start is taken to occupy its own start only, by the conflict check as by the model, so an hour it runs into
   counts as free.)

Others are stated as definitions that no run lists. Name one in the cfg given, with the deviations noted, and TLC finds it violated:

2. `RefundsWithinPrice` (`Ledger.cfg` with `MaxRows = 2`, `MaxOut = 4`): a booking refunded through its cancellation can be refunded again through
   its payment.
3. `ArchivedVoidsLedger` (the same): a request that read before the archive leaves a completed row on an archived booking.
4. `ProtectsInFlight` (`VposLive.cfg`): a poll or sync while the student is at the bank marks the session `failed`, and its
   booking is no longer spared by the cron pass.
5. `SyncRecovers` (`VposLive.cfg`): a session older than the limit is expired without asking the bank, and an expired session is
   refused by the student's recovery, although the money was captured.
6. `ClosedEntriesFixed` (`Cash.cfg`): entries of a closed shift change, through the director's ledger or a request
   that checked before the closing.
7. `HeldWithinBought` (`Credits.cfg` with `Packages <- OnePackage`, `Orders = {1}`, `Lengths = {1}`, and `Extras`, `Unordered` and `Typed`
   empty): `consumeSlots` is documented to throw when fewer credits are available than asked for
   (`services/student-practical-credits.service.ts:79`), but a student who used up a package books its lessons again, because the
   count falls back to profile counters that consumption from the balance does not move.
8. `CancelledNotBooked` (`Requests.cfg`): "Cancelled requests cannot be booked." is decided on the row read first; a link or a booking that
   read the request before it was cancelled books it.
9. `OneOrderPerPackage` (`VposEntitlements.cfg`): `applyPackageAssignment` "Reuses an existing active order for the same package instead of
   creating duplicates" (`services/student-entitlements.service.ts:204`), but it looks without a lock: two sessions of one package verified at
   once each create an order.
10. `BooksOnlyWhatIsLeft` and `ProfileStaysHeld` without what they allow to a request that was outrun (`Credits.cfg`): "Archiving that booking cancels the
   order and clears the profile when no other active package remains" (`services/booking.service.ts:2090`), but of two archives at once
   each takes the other's order for one that remains and the profile keeps a cancelled one; and a purchase that found an order before
   it was archived sets it to paid again.

Facts of the theory groups the properties name as exceptions: a credit booking that read before the last seat was taken
overfills the cohort; an update with instructors removes sessions of a student enrolled meanwhile; a payment that is repeated
after its enrolment stayed, or whose student staff have enrolled, is refused ("Student already enrolled") although the money was captured; closing
one of two bookings of a student removes the enrolment both rest on; a staff edit of the status confirms without
enrolling, and one of the group leaves the enrolment of the old group; bookings keep the id of a removed cohort; seats are lowered with
no second look at who enrolled meanwhile.

## Proofs

All proofs hold for every value of the constants under the assumptions named in the modules
(`DistinctKinds`, `TimeConstants`, `PriceAssumption`, `BoundAssumption`, `BookingsAssumption`, `HourAssumption`, `PlanAssumption`,
`PackagesAssumption`, `IdsAssumption`, `SizeAssumption`, `TypedAssumption`, `SalesAssumption`, `ClockAssumption`, `NoneAssumption`, `CalendarAssumption`, `SeatsAssumption`, `PlansAssumption`, `StudentsAssumption`,
`PassesAssumption`, `ChangesAssumption`, `PoolAssumption`, `OfficeAssumption`, `RowsAssumption`), which say no more than that kinds of identities are disjoint, that numbers are natural, that starts are hours of the day and
that there are finitely many students and rows. TLC evaluates
them in the runs.

`VposCheckoutProofs` (`TypeCorrect`, `OrderGrantsOnce`, `TargetGrantedOnce`, `GrantsAreCaptured`, `PaidStaysDelivered`,
`ClosedForGood`, `ImplementsDelivery`). None of the safety properties is inductive. `IInv` adds to the types what a handler may
hold at each program counter (`HandlerOK`: a handler at `captured` looks at an order the bank captured; one at
`register` owns its session), what an open transaction may rely on (`LockInv`) and what a grant leaves behind (`RowsInv`: a granted
booking is paid, a granted package or block has its finance row). `LockInv` is where the plain reads are: one transaction holds a session, so that its
own order still has no finance row when it inserts; but that no order of its package has come since holds only as long as
the session is not `raced`. A second grant of an order or of a booking then contradicts the finance-row or `paid_at` check of the fulfilment, and
one of a package leaves the mark that `OneGrantPerTarget` names. Bank orders never leave `captured`, so the fact a handler remembers stays true.
The same invariant gives the refinement: a fulfilment that grants finds its order captured and ungranted, and a booking it confirms is granted
to no other order and awaits payment, so it was not withdrawn (`VerifyDelivers`); every step that closes bookings only adds to the
withdrawn (`Withdraws`). `PaidStaysDelivered` is about steps, since a session settled in vain stays so: no step but the settling itself, of
what is not `offered`, makes a session paid without a delivery, and none takes a delivery back.

`BookingLedgerProofs` (`RefundsAreWrittenOnce`, `CardIncomeIsKept`, `LedgerTyped`, `CancellationStaysWithinIncome`,
`CancellationAlwaysPaysBack`, `EditsBalanceTheLedger`). Two inductive invariants. `Ledger` says only that the columns are functions
on their rows and references: each action is a `RefundStep` and an `IncomeStep`, and the first two theorems follow. `IInv` is
the types with two additions. A row that was not deleted has money on it: without it a manual row of nothing would survive
the cut of an over-recorded ledger and `EditBalancesLedger` would fail. And the row that a request read is one that
exists (`ReadRowsExist`): without it a late write could turn an unused row into income of nothing. The amounts:

- a refund line adds what is written to the live refunds and leaves the completed income at what the cap was computed from
  (`RefundAdds`), so `CancellationPays` lists what the four branches of the refund amount to; both refund theorems are read off it;
- an edit that finds too little recorded adds one row (`InstallmentBalances`). One that finds too much cuts the manual rows from the newest
  down; `CutsAddUp` says that these cuts come to the excess or to all there is, by induction on sets of rows from the lowest
  row, and `CutLedger` that what stays is then the target, or more without a manual row.

`PracticalCreditsProofs` (`CreditsTyped`, `HeldUnitsStayBooked`, `ExtrasStayAccounted`, `OnlyWhatIsLeftIsBooked`, `ProfileIsHeldOn`).
The two invariants are about sums and hold by bookkeeping: `Held`, what all bookings hold, and `Booked`, what all orders show as booked, grow
by the same units, and where a cancellation gives back only what the order still shows, `Held` drops by at least as much as `Booked`. To say so
of an action one must know where a booking's units lie, so `IInv` adds that an order that does not exist has nothing booked on it and a
booking that does not exist holds no lesson of a block (`EmptyUntilMade`), that units and sales name an order and a named order exists
(`MetaNamesAnOrder`), and that a booking that sold a package took no lesson of a block (`SalesTakeNothing`): undoing the sale forgets what the
booking held without giving blocks back. What a request remembers is the other half of `IInv` (`Seeing`): the order it found exists and is of
its package (`Sound`), whatever became of its status; an archive still holds a booking that sold, and another archive does
not (`OneArchiveEach`). This stays true while others step since orders are never lost and keep their package (`Grows`).

The action properties are about one order or the profile. Most actions leave the orders alone or only add to them; `Assign` alone writes a status other than
cancelled over an order that exists (`Revives`), and only for a purchase whose order was active when found. For `ProfileHeld` each action that
writes the profile or cancels an order is looked at under the assumption that no request it moves is outrun: then the
order an assignment or an archive found is active still, and is the one the profile is moved to.

Both modules begin with a theory of sums over finite sets, each its own since a proof module stands alone. The
library's `SumFunctionOnSet` is a fold over a function that exists for every finite set (`SumExists`) and is unique
(`SumAgrees`); from there come one element taken out or changed, sums that add up, elements that add nothing. The library's induction rules take a predicate,
which the provers cannot instantiate, so induction is stated with a set in its place (`SubsetInduction`) and rests on the
well-foundedness of the strict subsets of a finite set (`WFMin`). The finiteness it needs of a student's orders and
bookings is `RowsAssumption`; the rows of a ledger are an interval.

`SlotReservationProofs` (`TypeCorrect`, `UntouchedKept`, `ImplementsCalendar`, `DoublesExplained`). `Inv` adds to the types that claims are
disjoint (what the unique index keeps), that a request for a new booking asks for rows before its end (`Asked`) and that untouched bookings hold the
rows they were booked with (`Holds`). The last is not inductive
alone: the purge and the insertion of another booking keep it because claims are disjoint and closed rows alone are
dropped. One lemma per group of actions shows that a step is `Sound`: it touches one booking,
and of the others may only drop rows of closed ones. Both the invariant and the refinement follow from that fact, since hours outside
the touched booking stay as they are and the hours it ends with are disjoint from them. `NoDoubleBooking` is violated, but the
invariant says where (`DoublesHaveACause`): one of the two bookings was edited by staff and has no slot rows, or has a row off the school's grid. If
both have rows, all on the grid, an hour either occupies belongs to the last start at or before it (`OnTheGrid`), and that start has one claim.
`UntouchedKept` is about rows and columns and not about the hours in between, which nothing in the database protects.

`CashRegisterProofs` (`TypeCorrect`, `OpenOncePerBranch`, `FuelIsCountedOnce`, `EntriesAreCounted`, `ClosedForGood`). Steps that
write a line and leave the shifts alone are treated apart from those that open or close one. `IInv` adds when a shift was opened and
closed (`Lived`), what a request that checked a shift may still rely on (`Asked`), which lines totals hold
(`Sums`) and how an entry of a shift came about (`Entered`). A fuel line in a total was made after that shift's opening, and
times of shifts of a branch do not overlap, so a second total must have been closed before the line was made. Days and instants are
related by a few lemmas of integer division.

`TheoryCohortProofs` (`TypeCorrect`, `ConfirmedHasSeat`, `PastIsKept`, `EnrolledKeepSessions`, `SeatsAreFree`).
`ConfirmedIsEnrolled` is not inductive, since a payment confirms long after it enrolled: `PaidOnce` says that a booking being paid is
pending, is paid by one request, and already `Rests` on an enrolment, which its row lock protects from closing and edits.
`GroupsMade` says that nobody names a cohort before it exists. The action properties follow from what a sync does to sessions
(`SyncKeeps`, `WhoWritesSessions`) and an enrolment to a cohort (`EnsureStep`, `OneMoreFits`).

`LessonCompletionProofs` (`TypeCorrect`, `ClosedKept`, which proves `ClosedKeepsFlag`; no run lists it). `ListedOpen` says that what a pass has still to write was
open when it was listed; a pass that takes the flag from a closed booking therefore read it before it was closed.

`LessonRequestsProofs` (`TypeCorrect`, `MadeOnce`, `MadeIsNamed`, `BookedWithLesson`, `BookedForGood`). The inductive invariant says
that one handler holds a row (`Exclusive`), that the row it holds exists and is not booked (`LockedOpen`), that
what a handler saw and decided on was allowed (`SeenKept`), that a lesson a handler is about to name was made for its request
(`MadeForIt`), that an uncrossed request with a lesson is booked (`NamedIsBooked`), and that a booked request names a
lesson although writes carry only some columns (`BookedHasLesson`, of interest by itself and proved for any run of writes). `OneLessonEach` then follows from
`LessonIsNamed`: two lessons would both be named by the row or by the one handler that holds it.

Only model-checked: liveness under fairness (`PendingResolves`, `ExpiredHoldResolves`, `Settles`, `EveryHandlerEnds`). The
installed provers have no reasoning about `ENABLED`. Every other property of a passing run is a theorem. No module with a theorem reaches
a recursive operator.

## Not modelled

- Statement interleavings inside a transaction other than those named above (packages and blocks in `VposCheckout`, the requests of
  `PracticalCredits`, the snapshots of `TheoryCohort`, the connections of `LessonRequests`). The purge of leftover rows, which reads
  without a lock, may in the code see an older status.
- Account deletion; a package that is deleted although it has orders (the service refuses), or given back once it is deleted; the timeout of a plain
  session update that waits for a row lock.
- The moment between `createdAt` of a ledger line, which is stamped before the `INSERT`, and its commit: `FinishEntry` does both, so a line is
  seen by every close that comes after its time.
- Amounts in the cash register; edits that two lines make to one total; the reads of a close are one step.
- Instructors of a cohort and whether they are free, prices, a theory booking moved to another student, deletion of a student.
- Theory credits of a package, purchases on credit of several students, the payment status a credit lesson inherits. The counters
  are brought up to a balance in the step that changes it; which profile columns an assignment leaves out is decided without the theory columns.
- Notifications of lesson requests, requests of one student to several instructors, the deletion of a lesson a request names.
- The time of completion, legacy statuses and `syncBookingCompletionStatus`, which nothing calls.
- Package credit lessons inside the ledger, editing a manual income row, the installment list, the start-up repair.
- Several instructors or dates of one booking, entries over several days, past days, working hours, lunch, a plan of the instructor's own narrower
  than the branch's, cohort sessions and theory groups on the calendar. Lessons of 60 and of 70 minutes are one hour each.
- The parts listed `not_modelled` in `PROJECT.json`, each with its reason; the client applications hold no
  state of their own.

## Plan

Done, in the order of importance: the checkout, the ledger, slot reservation with its abstract calendar, credits, the cash register,
theory cohorts, lesson completion, personal theory requests.

Proved: every safety property of the passing runs, both refinements, and of the disagreement in `slots_double` what its causes are.
Left to prove is what no run asks yet: such a cause for the other disagreements, as `RefundsWithinPrice` for a booking whose refunds all
go one path, `SyncRecovers` for a session asked before it expired, `HeldWithinBought` for a student whose profile counters are at
zero. Each needs the condition as a history variable. Liveness stays with TLC.

Left to model, if the code grows there: petrol requests against the expenses created for them (the
hazard is listed), the single use of challenges, invitations and refresh tokens, and `BookingLedger` with manual row editing and
installments.
