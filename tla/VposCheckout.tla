---------------------------- MODULE VposCheckout ----------------------------
(***************************************************************************)
(* Card checkout of the booking platform: the payment sessions of one      *)
(* student (services/vpos-payment.service.ts), the unpaid booking holds    *)
(* they pay for (services/booking.service.ts), the bank's order register   *)
(* (external) and the cron pass that reconciles sessions with the bank and *)
(* deletes expired holds (services/booking-cron.service.ts).               *)
(*                                                                         *)
(* Every await of the code between a read and the write that depends on it *)
(* is a step boundary here: a handler is an actor with a program counter   *)
(* and the values it holds in memory.  A database transaction that locks   *)
(* the rows it decides on is one step; one that decides on rows it only    *)
(* reads is a step that looks and a step that writes and commits.          *)
(***************************************************************************)
EXTENDS Naturals, FiniteSets

CONSTANTS
  Sessions,            \* identities of payment_sessions rows
  Bookings,            \* lesson bookings that can be paid by card
  Packages,            \* driving packages on sale
  Extras,              \* sizes of extra practical blocks on sale
  Requests,            \* HTTP requests that may be in progress at once
  Crons,               \* cron passes that may be in progress at once
  None,                \* no session, no target
  PAYMENT_HOLD,        \* the time constants of the code, in ticks
  PAYMENT_EXTENSION,
  PAYMENT_EXTEND_THRESHOLD,
  RECONCILE_MIN_AGE,
  MAX_PAYMENT_HOLD_EXTENSIONS,
  MaxRestarts          \* bound on process restarts, for model checking

Targets == Bookings \cup Packages \cup Extras
Actors  == Requests \cup Crons

ASSUME DistinctKinds ==
  /\ Bookings \cap Packages = {}
  /\ (Bookings \cup Packages) \cap Extras = {}
  /\ Requests \cap Crons = {}
  /\ None \notin Sessions \cup Targets

ASSUME TimeConstants ==
  /\ PAYMENT_HOLD \in Nat
  /\ PAYMENT_EXTENSION \in Nat
  /\ PAYMENT_EXTEND_THRESHOLD \in Nat
  /\ RECONCILE_MIN_AGE \in Nat
  /\ MAX_PAYMENT_HOLD_EXTENSIONS \in Nat
  /\ MaxRestarts \in Nat

VARIABLES
  target, status, age,           \* payment_sessions rows
  bank,                          \* the bank's order of each session (external)
  lesson, paid, held, left, ext, \* bookings rows: status, paid_at, the hold
                                 \* (present, ticks left, extensions used)
  offered,                       \* packages and blocks that can be handed over:
                                 \* the package exists, the account is a
                                 \* student's, for a block it has a profile
  ledger,                        \* sessions whose provider_ref has a completed
                                 \* finance row
  grants,                        \* how often a session's order created what it
                                 \* pays for
  raced,                         \* sessions whose transaction looked for an
                                 \* order before another one was committed
  pc, op, at, seen, want, todo, rows,
                                 \* each handler: program counter, entry point,
                                 \* session, its status as loaded, checkout
                                 \* target, listed sessions and bookings
  restarts                       \* how often the process restarted

sessionRows == <<target, status, age>>
bookingRows == <<lesson, paid, held, left, ext>>
granted     == <<ledger, grants, raced>>
memory      == <<pc, op, at, seen, want, todo, rows>>
vars == <<sessionRows, bank, bookingRows, offered, granted, memory, restarts>>

SessionStatus == {"pending", "paid", "failed", "expired"}
BookingStatus == {"none", "pending", "pending_payment", "confirmed",
                  "closed", "deleted"}
BankStatus    == {"none", "open", "captured", "declined"}
Entries == {"none", "return", "fail", "sync"}
Pcs == {"idle",
        "reuse", "duplicates", "expire", "create", "register",
        "ask", "unpaid", "captured", "insert", "throw", "reload",
        "list", "poll", "destroy", "deadline", "cancel"}

TypeOK ==
  /\ target \in [Sessions -> Targets \cup {None}]
  /\ status \in [Sessions -> SessionStatus]
  /\ age \in [Sessions -> 0 .. PAYMENT_HOLD + 1]
  /\ bank \in [Sessions -> BankStatus]
  /\ lesson \in [Bookings -> BookingStatus]
  /\ paid \in [Bookings -> BOOLEAN]
  /\ held \in [Bookings -> BOOLEAN]
  /\ left \in [Bookings -> Nat]
  /\ ext \in [Bookings -> 0 .. MAX_PAYMENT_HOLD_EXTENSIONS]
  /\ offered \in SUBSET (Packages \cup Extras)
  /\ ledger \in SUBSET Sessions
  /\ raced \in SUBSET Sessions
  /\ grants \in [Sessions -> Nat]
  /\ pc \in [Actors -> Pcs]
  /\ op \in [Actors -> Entries]
  /\ at \in [Actors -> Sessions \cup {None}]
  /\ seen \in [Actors -> SessionStatus]
  /\ want \in [Actors -> Targets \cup {None}]
  /\ todo \in [Actors -> SUBSET Sessions]
  /\ rows \in [Actors -> SUBSET Bookings]
  /\ restarts \in 0 .. MaxRestarts

Init ==
  /\ target = [s \in Sessions |-> None]
  /\ status = [s \in Sessions |-> "pending"]
  /\ age    = [s \in Sessions |-> 0]
  /\ bank   = [s \in Sessions |-> "none"]
  /\ lesson = [b \in Bookings |-> "none"]
  /\ paid   = [b \in Bookings |-> FALSE]
  /\ held   = [b \in Bookings |-> FALSE]
  /\ left   = [b \in Bookings |-> 0]
  /\ ext    = [b \in Bookings |-> 0]
  /\ offered = Packages \cup Extras
  /\ ledger = {}
  /\ raced = {}
  /\ grants = [s \in Sessions |-> 0]
  /\ pc   = [a \in Actors |-> "idle"]
  /\ op   = [a \in Actors |-> "none"]
  /\ at   = [a \in Actors |-> None]
  /\ seen = [a \in Actors |-> "pending"]
  /\ want = [a \in Actors |-> None]
  /\ todo = [a \in Actors |-> {}]
  /\ rows = [a \in Actors |-> {}]
  /\ restarts = 0

-----------------------------------------------------------------------------
(* Rows and conditions the handlers share.                                 *)

Used(s) == target[s] # None

\* The order id is stored with the answer of register.do.
Registered(s) == bank[s] # "none"

\* Created within the payment hold.
IsFresh(s) == age[s] <= PAYMENT_HOLD

PendingFor(t) == {s \in Sessions : target[s] = t /\ status[s] = "pending"}

AwaitsPayment(b) == lesson[b] \in {"pending", "pending_payment"} /\ ~paid[b]
HoldActive(b)    == held[b] /\ left[b] > 0
HoldExpired(b)   == held[b] /\ left[b] = 0

\* An active package order: here only checkout orders exist.
Ordered(t) == \E s \in Sessions : target[s] = t /\ grants[s] > 0

\* What the order of session s pays for has been handed over.
Delivered(s) ==
  \/ target[s] \in Bookings /\ paid[target[s]]
  \/ target[s] \in Packages /\ Ordered(target[s])
  \/ target[s] \in Extras /\ grants[s] > 0

\* The session rows S are locked by no open transaction.
Unlocked(S) == \A a \in Actors : pc[a] = "insert" => at[a] \notin S

SetStatus(S, st) ==
  /\ Unlocked(S)
  /\ status' = [s \in Sessions |-> IF s \in S THEN st ELSE status[s]]
  /\ UNCHANGED <<target, age>>

\* session.update({ status: 'failed' }) saves only what the object sees changed.
UpdateFailed(a) == SetStatus(IF seen[a] = "failed" THEN {} ELSE {at[a]}, "failed")

Goto(a, next) == /\ pc' = [pc EXCEPT ![a] = next]
                 /\ UNCHANGED <<op, at, seen, want, todo, rows>>

\* A request ends; a cron pass goes on with its next session.
Finish(a) ==
  /\ pc'   = [pc EXCEPT ![a] = IF a \in Crons THEN "poll" ELSE "idle"]
  /\ op'   = [op EXCEPT ![a] = "none"]
  /\ at'   = [at EXCEPT ![a] = None]
  /\ seen' = [seen EXCEPT ![a] = "pending"]
  /\ want' = [want EXCEPT ![a] = None]
  /\ UNCHANGED <<todo, rows>>

\* A handler goes on with a list it has read.
GotoWithSessions(a, next, S) == /\ pc' = [pc EXCEPT ![a] = next]
                                /\ todo' = [todo EXCEPT ![a] = S]
                                /\ UNCHANGED <<op, at, seen, want, rows>>
GotoWithBookings(a, next, S) == /\ pc' = [pc EXCEPT ![a] = next]
                                /\ rows' = [rows EXCEPT ![a] = S]
                                /\ UNCHANGED <<op, at, seen, want, todo>>

-----------------------------------------------------------------------------
(* initiate: the student starts a card checkout.                           *)

\* prepareInitiateContext: what may be paid for.
Payable(t) ==
  \/ t \in Bookings /\ AwaitsPayment(t) /\ HoldActive(t)
  \/ t \in Packages \cap offered /\ \A p \in Packages : ~Ordered(p)
  \/ t \in Extras \cap offered

Initiate(a, t) ==
  /\ pc[a] = "idle"
  /\ Payable(t)
  /\ pc' = [pc EXCEPT ![a] = "reuse"]
  /\ want' = [want EXCEPT ![a] = t]
  /\ UNCHANGED <<sessionRows, bank, bookingRows, offered, granted, op, at, seen, todo, rows, restarts>>

\* findReusablePendingSession: an open checkout of the same target is handed
\* out again; otherwise sessions older than the hold are expired.
InitiateReuse(a) ==
  LET pending == PendingFor(want[a])
  IN  /\ pc[a] = "reuse"
      /\ IF \E s \in pending : IsFresh(s) /\ Registered(s)
         THEN Finish(a) /\ UNCHANGED sessionRows
         ELSE Goto(a, "duplicates") /\ SetStatus({s \in pending : ~IsFresh(s)}, "expired")
      /\ UNCHANGED <<bank, bookingRows, offered, granted, restarts>>

\* expireDuplicatePendingSessions: the ids are read first ...
InitiateFindDuplicates(a) ==
  /\ pc[a] = "duplicates"
  /\ GotoWithSessions(a, "expire", {s \in PendingFor(want[a]) : IsFresh(s)})
  /\ UNCHANGED <<sessionRows, bank, bookingRows, offered, granted, restarts>>

\* ... and updated by id in a second statement.
InitiateExpireDuplicates(a) ==
  /\ pc[a] = "expire"
  /\ SetStatus(todo[a], "expired")
  /\ GotoWithSessions(a, "create", {})
  /\ UNCHANGED <<bank, bookingRows, offered, granted, restarts>>

InitiateCreate(a, s) ==
  /\ pc[a] = "create"
  /\ ~Used(s)
  /\ target' = [target EXCEPT ![s] = want[a]]
  /\ at' = [at EXCEPT ![a] = s]
  /\ pc' = [pc EXCEPT ![a] = "register"]
  /\ UNCHANGED <<status, age, bank, bookingRows, offered, granted, op, seen, want, todo, rows, restarts>>

\* register.do answered and the order id is stored.
InitiateRegister(a) ==
  /\ pc[a] = "register"
  /\ bank' = [bank EXCEPT ![at[a]] = "open"]
  /\ Finish(a)
  /\ UNCHANGED <<sessionRows, bookingRows, offered, granted, restarts>>

\* register.do refused (the session is marked failed) or unreachable (the
\* exception leaves it pending, and nobody learns of an order to pay).
InitiateRegisterFails(a) ==
  /\ pc[a] = "register"
  /\ \E S \in {{}, {at[a]}} : SetStatus(S, "failed")
  /\ Finish(a)
  /\ UNCHANGED <<bank, bookingRows, offered, granted, restarts>>

-----------------------------------------------------------------------------
(* The bank (external).  An order is open for sessionTimeoutSecs, that is  *)
(* PAYMENT_HOLD; "declined" is every final state that does not verify.     *)

InFlight(s) == bank[s] = "open" /\ IsFresh(s)

BankCapture(s) ==
  /\ InFlight(s)
  /\ bank' = [bank EXCEPT ![s] = "captured"]
  /\ UNCHANGED <<sessionRows, bookingRows, offered, granted, memory, restarts>>

BankDecline(s) ==
  /\ bank[s] = "open"
  /\ bank' = [bank EXCEPT ![s] = "declined"]
  /\ UNCHANGED <<sessionRows, bookingRows, offered, granted, memory, restarts>>

-----------------------------------------------------------------------------
(* handleReturn, handleFail, syncSessionForStudent: load the session, then *)
(* verifyAndFulfill.  Only registered orders have links or ids to call.    *)

Load(a, entry, s) ==
  /\ pc[a] = "idle"
  /\ Used(s) /\ Registered(s)
  /\ status[s] # "paid"
  /\ entry = "sync" => status[s] # "expired"
  /\ pc' = [pc EXCEPT ![a] = "ask"]
  /\ op' = [op EXCEPT ![a] = entry]
  /\ at' = [at EXCEPT ![a] = s]
  /\ seen' = [seen EXCEPT ![a] = status[s]]
  /\ UNCHANGED <<sessionRows, bank, bookingRows, offered, granted, want, todo, rows, restarts>>

\* Faulty: an order that is merely open verifies too.
AskBankAnyOpen(a) ==
  /\ pc[a] = "ask"
  /\ \/ Goto(a, IF bank[at[a]] \in {"open", "captured"} THEN "captured" ELSE "unpaid")
     \/ Goto(a, "throw")
  /\ UNCHANGED <<sessionRows, bank, bookingRows, offered, granted, restarts>>

\* getOrderStatusExtended.do: the answer is what the bank holds now, or an
\* exception when it cannot be reached.
AskBank(a) ==
  /\ pc[a] = "ask"
  /\ \/ Goto(a, IF bank[at[a]] = "captured" THEN "captured" ELSE "unpaid")
     \/ Goto(a, "throw")
  /\ UNCHANGED <<sessionRows, bank, bookingRows, offered, granted, restarts>>

\* Any other answer marks the session failed, also when the order is still open.
RecordUnpaid(a) ==
  /\ pc[a] = "unpaid"
  /\ UpdateFailed(a)
  /\ Finish(a)
  /\ UNCHANGED <<bank, bookingRows, offered, granted, restarts>>

\* The transaction under the session's row lock finds the session paid.
FulfilAlreadyPaid(a) ==
  /\ pc[a] = "captured"
  /\ Unlocked({at[a]})
  /\ status[at[a]] = "paid"
  /\ Finish(a)
  /\ UNCHANGED <<sessionRows, bank, bookingRows, offered, granted, restarts>>

\* The transaction of a session that is not paid, with what it does to its
\* target as a parameter.
Settle(a) ==
  /\ pc[a] = "captured"
  /\ status[at[a]] # "paid"
  /\ SetStatus({at[a]}, "paid")
  /\ Finish(a)
  /\ UNCHANGED <<bank, offered, restarts>>

Grant(s) == grants' = [grants EXCEPT ![s] = @ + 1]

ConfirmPaid(b) ==
  /\ lesson' = [lesson EXCEPT ![b] = "confirmed"]
  /\ paid' = [paid EXCEPT ![b] = TRUE]
  /\ held' = [held EXCEPT ![b] = FALSE]
  /\ left' = [left EXCEPT ![b] = 0]
  /\ ext' = [ext EXCEPT ![b] = 0]

\* Faulty: the captured order confirms whatever the row holds by now.
FulfilBookingUnguarded(a) ==
  /\ Settle(a)
  /\ target[at[a]] \in Bookings
  /\ ConfirmPaid(target[at[a]])
  /\ Grant(at[a])
  /\ UNCHANGED <<ledger, raced>>

\* Faulty: a booking that is not awaiting payment is passed over in silence.
FulfilBookingSilent(a) ==
  /\ Settle(a)
  /\ target[at[a]] \in Bookings
  /\ ~AwaitsPayment(target[at[a]])
  /\ UNCHANGED <<bookingRows, granted>>

\* A booking: nothing when it is paid already, completePracticalStudentPayment
\* under its row lock otherwise.  The finance row is best effort.
FulfilBooking(a) ==
  LET b == target[at[a]]
  IN  /\ Settle(a)
      /\ b \in Bookings
      /\ \/ /\ paid[b]
            /\ UNCHANGED <<bookingRows, granted>>
         \/ /\ AwaitsPayment(b)
            /\ HoldActive(b)
            /\ ConfirmPaid(b)
            /\ Grant(at[a])
            /\ ledger' \in {ledger, ledger \cup {at[a]}}
            /\ UNCHANGED raced

\* A package or an extra block.  The transaction locks its session and nothing
\* else: what it decides on are rows it reads in its snapshot.
Entitlement(a) == pc[a] = "captured" /\ target[at[a]] \in Packages \cup Extras

\* The order's finance row, or for a package a paid checkout order.
FoundOrder(s) == s \in ledger \/ (target[s] \in Packages /\ Ordered(target[s]))

\* What was paid for can no longer be handed over: purchasePackageAfterOnline-
\* Payment and purchaseExtraPracticalAfterOnlinePayment return null, which
\* nobody looks at, and the session is settled.
FulfilEntitlementGone(a) ==
  /\ Entitlement(a)
  /\ target[at[a]] \notin offered
  /\ Settle(a)
  /\ UNCHANGED <<bookingRows, granted>>

\* It is there already.
FulfilEntitlementDone(a) ==
  /\ Entitlement(a)
  /\ target[at[a]] \in offered
  /\ FoundOrder(at[a])
  /\ Settle(a)
  /\ UNCHANGED <<bookingRows, granted>>

LookAndInsert(a) ==
  /\ Entitlement(a)
  /\ Unlocked({at[a]})
  /\ status[at[a]] # "paid"
  /\ target[at[a]] \in offered
  /\ Goto(a, "insert")
  /\ UNCHANGED <<bank, bookingRows, offered, granted, restarts>>

\* Faulty: the finance row of the order is not looked up.
FulfilEntitlementLookAgain(a) ==
  /\ LookAndInsert(a)
  /\ ~(target[at[a]] \in Packages /\ Ordered(target[at[a]]))
  /\ UNCHANGED sessionRows

\* Faulty: only the order's own finance row makes it idempotent.
FulfilEntitlementLookPerOrder(a) ==
  /\ LookAndInsert(a)
  /\ at[a] \notin ledger
  /\ UNCHANGED sessionRows

\* Faulty: the session is saved as paid before the transaction that hands over.
FulfilEntitlementLookSettled(a) ==
  /\ LookAndInsert(a)
  /\ ~FoundOrder(at[a])
  /\ SetStatus({at[a]}, "paid")

\* Nothing is found: the transaction goes on to insert ...
FulfilEntitlementLook(a) ==
  /\ LookAndInsert(a)
  /\ ~FoundOrder(at[a])
  /\ UNCHANGED sessionRows

\* The other open transactions that found no order of session s's target.
Racing(a) == {at[c] : c \in {d \in Actors \ {a} : /\ pc[d] = "insert"
                                                  /\ target[at[d]] = target[at[a]]}}

\* ... the order with its balances and the finance row, or the block, and
\* commits with the session paid ...
FulfilEntitlementInsert(a) ==
  /\ pc[a] = "insert"
  /\ Grant(at[a])
  /\ ledger' = ledger \cup {at[a]}
  /\ raced' = raced \cup Racing(a)
  /\ status' = [status EXCEPT ![at[a]] = "paid"]
  /\ Finish(a)
  /\ UNCHANGED <<target, age, bank, bookingRows, offered, restarts>>

\* ... or is rolled back: the package is gone by now, or the database failed.
RollBack(a) ==
  /\ pc[a] = "insert"
  /\ Goto(a, "throw")
  /\ raced' = raced \ {at[a]}
  /\ UNCHANGED <<sessionRows, bank, bookingRows, offered, ledger, grants, restarts>>

\* The transaction throws: the booking is gone, closed or out of its hold, or
\* the database failed.  Nothing is written.
FulfilThrows(a) ==
  /\ pc[a] = "captured"
  /\ status[at[a]] # "paid"
  /\ Goto(a, "throw")
  /\ UNCHANGED <<sessionRows, bank, bookingRows, offered, granted, restarts>>

\* handleReturn's catch writes failed through the object it loaded; sync and
\* the cron pass leave the session as it is.
Catch(a) ==
  /\ pc[a] = "throw"
  /\ op[a] # "fail"
  /\ IF op[a] = "return" THEN UpdateFailed(a) ELSE UNCHANGED sessionRows
  /\ Finish(a)
  /\ UNCHANGED <<bank, bookingRows, offered, granted, restarts>>

\* handleFail's catch: a session it saw pending is reloaded ...
CatchFail(a) ==
  /\ pc[a] = "throw"
  /\ op[a] = "fail"
  /\ IF seen[a] = "pending" /\ status[at[a]] = "pending"
     THEN Goto(a, "reload")
     ELSE Finish(a)
  /\ UNCHANGED <<sessionRows, bank, bookingRows, offered, granted, restarts>>

\* ... and marked failed when it was still pending then.
FailPending(a) ==
  /\ pc[a] = "reload"
  /\ UpdateFailed(a)
  /\ Finish(a)
  /\ UNCHANGED <<bank, bookingRows, offered, granted, restarts>>

-----------------------------------------------------------------------------
(* BookingCronService.runDueJobs                                           *)

Stale == {s \in Sessions : Used(s) /\ status[s] = "pending" /\ ~IsFresh(s)}

\* Faulty: only registered sessions expire.
CronExpireRegistered(a) ==
  /\ pc[a] = "idle"
  /\ SetStatus({s \in Stale : Registered(s)}, "expired")
  /\ Goto(a, "list")
  /\ UNCHANGED <<bank, bookingRows, offered, granted, restarts>>

\* reconcilePendingSessions: sessions older than the hold expire unasked ...
CronExpire(a) ==
  /\ pc[a] = "idle"
  /\ SetStatus(Stale, "expired")
  /\ Goto(a, "list")
  /\ UNCHANGED <<bank, bookingRows, offered, granted, restarts>>

\* ... younger ones are loaded ...
CronList(a) ==
  /\ pc[a] = "list"
  /\ GotoWithSessions(a, "poll", {s \in Sessions : /\ Used(s) /\ Registered(s)
                                                   /\ status[s] = "pending"
                                                   /\ age[s] > RECONCILE_MIN_AGE})
  /\ UNCHANGED <<sessionRows, bank, bookingRows, offered, granted, restarts>>

\* ... and verified one after the other; all of them were seen pending.
CronPoll(a, s) ==
  /\ pc[a] = "poll"
  /\ s \in todo[a]
  /\ pc' = [pc EXCEPT ![a] = "ask"]
  /\ at' = [at EXCEPT ![a] = s]
  /\ todo' = [todo EXCEPT ![a] = @ \ {s}]
  /\ UNCHANGED <<sessionRows, bank, bookingRows, offered, granted, op, seen, want, rows, restarts>>

\* Faulty: every booking that ever had a checkout is protected.
CronProtectAll(a) ==
  /\ pc[a] = "poll"
  /\ todo[a] = {}
  /\ GotoWithBookings(a, "destroy", {b \in Bookings : \E s \in Sessions : target[s] = b})
  /\ UNCHANGED <<sessionRows, bank, bookingRows, offered, granted, restarts>>

\* bookingIdsWithPendingPayment
CronProtect(a) ==
  /\ pc[a] = "poll"
  /\ todo[a] = {}
  /\ GotoWithBookings(a, "destroy", {b \in Bookings : PendingFor(b) # {}})
  /\ UNCHANGED <<sessionRows, bank, bookingRows, offered, granted, restarts>>

\* Booking.destroy of expired unpaid holds; their slots cascade.
CronDestroy(a) ==
  LET gone == {b \in Bookings : AwaitsPayment(b) /\ HoldExpired(b)} \ rows[a]
  IN  /\ pc[a] = "destroy"
      /\ lesson' = [b \in Bookings |-> IF b \in gone THEN "deleted" ELSE lesson[b]]
      /\ held' = [b \in Bookings |-> held[b] /\ b \notin gone]
      /\ ext' = [b \in Bookings |-> IF b \in gone THEN 0 ELSE ext[b]]
      /\ GotoWithBookings(a, "deadline", {})
      /\ UNCHANGED <<sessionRows, bank, paid, left, offered, granted, restarts>>

Reserved(b) == lesson[b] = "pending_payment" /\ ~paid[b]

\* Reserved unpaid bookings past their payment deadline day are listed ...
CronDeadline(a) ==
  /\ pc[a] = "deadline"
  /\ \E due \in SUBSET {b \in Bookings : Reserved(b)} : GotoWithBookings(a, "cancel", due)
  /\ UNCHANGED <<sessionRows, bank, bookingRows, offered, granted, restarts>>

\* finalizePracticalCancellationInTx: paid_at stays.
Close(b) ==
  /\ lesson' = [lesson EXCEPT ![b] = "closed"]
  /\ held' = [held EXCEPT ![b] = FALSE]
  /\ left' = [left EXCEPT ![b] = 0]
  /\ ext' = [ext EXCEPT ![b] = 0]
  /\ UNCHANGED paid

\* ... and cancelled one by one, each checked again under its row lock.
CronCancel(a, b) ==
  /\ pc[a] = "cancel"
  /\ b \in rows[a]
  /\ IF Reserved(b) THEN Close(b) ELSE UNCHANGED bookingRows
  /\ GotoWithBookings(a, "cancel", rows[a] \ {b})
  /\ UNCHANGED <<sessionRows, bank, offered, granted, restarts>>

CronDone(a) ==
  /\ pc[a] = "cancel"
  /\ rows[a] = {}
  /\ Goto(a, "idle")
  /\ UNCHANGED <<sessionRows, bank, bookingRows, offered, granted, restarts>>

-----------------------------------------------------------------------------
(* The student's bookings.                                                 *)

StartHold(b) == /\ held' = [held EXCEPT ![b] = TRUE]
                /\ left' = [left EXCEPT ![b] = PAYMENT_HOLD]
                /\ ext' = [ext EXCEPT ![b] = 0]
                /\ UNCHANGED paid

\* createFromStudentSlotSelection without credits: a booking with its payment
\* hold, or a reservation to be paid later.
CreateBooking(b) ==
  /\ lesson[b] = "none"
  /\ \/ lesson' = [lesson EXCEPT ![b] = "pending"] /\ StartHold(b)
     \/ /\ lesson' = [lesson EXCEPT ![b] = "pending_payment"]
        /\ UNCHANGED <<paid, held, left, ext>>
  /\ UNCHANGED <<sessionRows, bank, offered, granted, memory, restarts>>

\* A reservation inside the pay horizon restarts its window whenever asked;
\* outside the horizon only when no window is running.
StartPaymentWindow(b) ==
  /\ AwaitsPayment(b)
  /\ lesson[b] = "pending_payment" \/ ~HoldActive(b)
  /\ StartHold(b)
  /\ UNCHANGED <<lesson, sessionRows, bank, offered, granted, memory, restarts>>

Extend(b) == /\ left' = [left EXCEPT ![b] = @ + PAYMENT_EXTENSION]
             /\ ext' = [ext EXCEPT ![b] = @ + 1]
             /\ UNCHANGED <<lesson, paid, held>>

\* Faulty: extensions are not counted against the maximum.
ExtendHoldUnlimited(b) ==
  /\ AwaitsPayment(b)
  /\ HoldActive(b)
  /\ left[b] <= PAYMENT_EXTEND_THRESHOLD
  /\ Extend(b)
  /\ UNCHANGED <<sessionRows, bank, offered, granted, memory, restarts>>

ExtendHold(b) ==
  /\ AwaitsPayment(b)
  /\ HoldActive(b)
  /\ left[b] <= PAYMENT_EXTEND_THRESHOLD
  /\ ext[b] < MAX_PAYMENT_HOLD_EXTENSIONS
  /\ Extend(b)
  /\ UNCHANGED <<sessionRows, bank, offered, granted, memory, restarts>>

\* cancelPracticalStudentBooking, with the staff's approval where it needs
\* one: "closed" is cancelled or refunded.
CancelBooking(b) ==
  /\ lesson[b] \in {"pending", "pending_payment", "confirmed"}
  /\ Close(b)
  /\ UNCHANGED <<sessionRows, bank, offered, granted, memory, restarts>>

-----------------------------------------------------------------------------
(* Staff and accounts.                                                     *)

\* PackageService.remove, AccountsService.update: the package is deleted while
\* nobody has ordered it, or the account is given another role ...
Withdraw(t) ==
  /\ t \in offered
  /\ offered' = offered \ {t}
  /\ UNCHANGED <<sessionRows, bank, bookingRows, granted, memory, restarts>>

\* ... and its role back.
Restore(t) ==
  /\ t \in (Packages \cup Extras) \ offered
  /\ offered' = offered \cup {t}
  /\ UNCHANGED <<sessionRows, bank, bookingRows, granted, memory, restarts>>

-----------------------------------------------------------------------------
(* Time and failures.                                                      *)

Tick ==
  /\ age' = [s \in Sessions |-> IF Used(s) /\ IsFresh(s) THEN age[s] + 1 ELSE age[s]]
  /\ left' = [b \in Bookings |-> IF HoldActive(b) THEN left[b] - 1 ELSE left[b]]
  /\ UNCHANGED <<target, status, bank, lesson, paid, held, ext, offered, granted, memory, restarts>>

\* The server process stops: every handler loses its memory, an open
\* transaction is rolled back.
Restart ==
  /\ restarts < MaxRestarts
  /\ restarts' = restarts + 1
  /\ pc'   = [a \in Actors |-> "idle"]
  /\ op'   = [a \in Actors |-> "none"]
  /\ at'   = [a \in Actors |-> None]
  /\ seen' = [a \in Actors |-> "pending"]
  /\ want' = [a \in Actors |-> None]
  /\ todo' = [a \in Actors |-> {}]
  /\ rows' = [a \in Actors |-> {}]
  /\ raced' = {s \in raced : grants[s] > 0}
  /\ UNCHANGED <<sessionRows, bank, bookingRows, offered, ledger, grants>>

-----------------------------------------------------------------------------
Verify(a) ==
  \/ AskBank(a) \/ RecordUnpaid(a)
  \/ FulfilAlreadyPaid(a) \/ FulfilBooking(a)
  \/ FulfilEntitlementGone(a) \/ FulfilEntitlementDone(a) \/ FulfilEntitlementLook(a)
  \/ FulfilEntitlementInsert(a) \/ RollBack(a) \/ FulfilThrows(a)
  \/ Catch(a) \/ CatchFail(a) \/ FailPending(a)

RequestStep(a) ==
  \/ \E t \in Targets : Initiate(a, t)
  \/ InitiateReuse(a) \/ InitiateFindDuplicates(a) \/ InitiateExpireDuplicates(a)
  \/ \E s \in Sessions : InitiateCreate(a, s)
  \/ InitiateRegister(a) \/ InitiateRegisterFails(a)
  \/ \E s \in Sessions, entry \in {"return", "fail", "sync"} : Load(a, entry, s)
  \/ Verify(a)

CronStep(a) ==
  \/ CronExpire(a) \/ CronList(a) \/ \E s \in Sessions : CronPoll(a, s)
  \/ Verify(a)
  \/ CronProtect(a) \/ CronDestroy(a) \/ CronDeadline(a)
  \/ \E b \in Bookings : CronCancel(a, b)
  \/ CronDone(a)

BankStep(s) == BankCapture(s) \/ BankDecline(s)

BookingStep(b) == \/ CreateBooking(b) \/ StartPaymentWindow(b)
                  \/ ExtendHold(b) \/ CancelBooking(b)

Next ==
  \/ \E a \in Requests : RequestStep(a)
  \/ \E a \in Crons : CronStep(a)
  \/ \E s \in Sessions : BankStep(s)
  \/ \E b \in Bookings : BookingStep(b)
  \/ \E t \in Packages \cup Extras : Withdraw(t) \/ Restore(t)
  \/ Tick
  \/ Restart

Spec == Init /\ [][Next]_vars

\* The interval timer of server.ts starts a pass again and again and time
\* goes on; an open transaction commits or is rolled back, and a pass is held
\* up by nothing but a row lock, which is granted in the order it is asked for.
\* Nothing else is assumed of requests, nothing of students, staff or the bank.
Fairness ==
  /\ WF_vars(Tick)
  /\ \A a \in Crons : SF_vars(CronStep(a))
  /\ \A a \in Requests : WF_vars(FulfilEntitlementInsert(a) \/ RollBack(a))
FairSpec == Spec /\ Fairness

-----------------------------------------------------------------------------
(* Properties.                                                             *)

\* However often an order is verified - by the return and fail links, the
\* student's sync and overlapping cron passes, also after its paid session was
\* overwritten as failed or expired by a handler with a stale object - it
\* creates what it pays for at most once (verifyAndFulfill's row lock and
\* status check, the finance-row and paid_at checks of the fulfilment).
OneGrantPerOrder == \A s \in Sessions : grants[s] <= 1

\* Two orders of the same booking, both captured, hand it over once.  Two orders
\* of the same package do too, unless their transactions overlapped: the second
\* had looked for an order before the first committed its own.
OneGrantPerTarget ==
  \A r, s \in Sessions :
    /\ grants[r] > 0 /\ grants[s] > 0
    /\ target[r] = target[s]
    /\ r # s
    => \/ target[r] \in Packages /\ (r \in raced \/ s \in raced)
       \/ target[r] \in Extras

\* Nothing is handed over for an order the bank has not captured.
GrantedWasCaptured == \A s \in Sessions : grants[s] > 0 => bank[s] = "captured"

\* A session recorded as paid has been delivered, whatever becomes of its row
\* afterwards and however often it is verified again: its booking was confirmed
\* and has not been deleted by the cron pass since, its package or block exists.
\* The one exception is made when it is settled: the package or the student's
\* account was gone by then.
PaidInVain(s) == status[s] = "paid" /\ ~Delivered(s)

PaidIsDelivered ==
  [][\A s \in Sessions : PaidInVain(s)' =>
       PaidInVain(s) \/ (/\ status[s] # "paid"
                         /\ target[s] \in (Packages \cup Extras) \ offered)]_vars

\* A booking that was cancelled or deleted while its checkout was open is never
\* revived by the payment that arrives late.
ClosedStaysClosed ==
  [][\A b \in Bookings : lesson[b] \in {"closed", "deleted"} => lesson'[b] = lesson[b]]_vars

\* Every open session is settled or expired, whatever the bank and the students
\* do, because cron passes go on.
PendingResolves ==
  \A s \in Sessions : (Used(s) /\ status[s] = "pending") ~> (status[s] # "pending")

\* An expired unpaid hold does not block its slots for ever: it is deleted,
\* renewed by its student, paid or cancelled.
ExpiredHoldResolves ==
  \A b \in Bookings : (AwaitsPayment(b) /\ HoldExpired(b))
                      ~> ~(AwaitsPayment(b) /\ HoldExpired(b))

\* A checkout is a delivery: an order gets the one thing it is for once, only
\* after its capture; two orders of a booking get it once between them; no
\* booking is confirmed by an order after it was closed or deleted.
\* Every step of every handler, of the bank and of the cron pass is one step of
\* Delivery or leaves what it speaks of alone.
Captured  == {s \in Sessions : bank[s] = "captured"}
Withdrawn == {b \in Bookings : lesson[b] \in {"closed", "deleted"}}

D == INSTANCE Delivery WITH Orders <- Sessions, Goods <- Targets,
                            Single <- Bookings, good <- target,
                            captured <- Captured, delivered <- grants, gone <- Withdrawn
KeepsDelivery == D!Spec

\* "Booking IDs with an open bank checkout - do not delete holds while payment
\* may be in flight." (vpos-payment.service.ts:447): the ids a cron pass reads
\* cover every booking whose order the student can still pay at the bank.
ProtectsInFlight ==
  [][\A a \in Crons :
       pc[a] = "poll" /\ pc'[a] = "destroy"
       => \A s \in Sessions : target[s] \in Bookings /\ InFlight(s)
                              => target[s] \in rows'[a]]_vars

\* "Student-initiated recovery when the bank redirect was missed or is still
\* processing." (vpos-payment.service.ts:370): a captured order that was not
\* delivered is one the student's sync accepts.
SyncRecovers ==
  \A s \in Sessions : bank[s] = "captured" /\ status[s] = "expired" => Delivered(s)

\* "Reuses an existing active order for the same package instead of creating
\* duplicates." (student-entitlements.service.ts:204)
OneOrderPerPackage ==
  \A r, s \in Sessions :
    grants[r] > 0 /\ grants[s] > 0 /\ target[r] = target[s] /\ target[r] \in Packages => r = s

=============================================================================
