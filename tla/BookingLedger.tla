----------------------------- MODULE BookingLedger -----------------------------
(***************************************************************************)
(* One lesson booking and its money: the payment columns of the bookings   *)
(* row (services/booking.service.ts), the income rows that record the cash *)
(* collected for it and the booking_refund rows that record the money      *)
(* given back (services/finance.service.ts).                               *)
(*                                                                         *)
(* The student pays by card, cancels and asks for refunds; staff edit the  *)
(* booking, record and delete income, decide on refunds and archive.  A    *)
(* handler that locks the row it decides on is one step.  A handler that   *)
(* reads a row and writes it later without a lock is a request with a      *)
(* program counter and what it read in memory.                             *)
(***************************************************************************)
EXTENDS Integers, Functions

CONSTANTS
  Price,      \* total_price_amd of the booking, in units
  MaxRows,    \* income rows that can be inserted (bound, for model checking)
  MaxOut,     \* money the refund lines can sum to (bound, for model checking)
  Requests    \* HTTP requests that may be in progress at once

ASSUME PriceAssumption == Price \in Nat \ {0}
ASSUME BoundAssumption == MaxRows \in Nat \ {0} /\ MaxOut \in Nat

VARIABLES
  lesson, pstatus, amount, paidAt, \* bookings row: status, payment_status,
                                   \* paid_amount_amd, paid_at present
  requested,                       \* cancellation_requested_at present
  early,                           \* 24 hours or more before the lesson
  entry, gross, manual, ask,       \* income rows: status, gross_amd, source is
                                   \* 'manual', refund_requested_at present
  out, dead,                       \* refund lines: money written under a
                                   \* provider_ref, and how much of it is voided
  pc, at, aim, mark,               \* each request: program counter, income row,
                                   \* cash left to record, status to record
  seenLesson, seenStatus, seenAmount, seenPaidAt  \* the bookings row it read

payment     == <<pstatus, amount, paidAt>>
bookingRow  == <<lesson, payment, requested>>
incomeRows  == <<entry, gross, manual, ask>>
refundLines == <<out, dead>>
loaded      == <<seenLesson, seenStatus, seenAmount, seenPaidAt>>
memory      == <<pc, at, aim, mark, loaded>>
vars == <<bookingRow, early, incomeRows, refundLines, memory>>

Rows == 1 .. MaxRows

\* provider_ref of a refund line: one per refunded payment, the booking's own
\* (booking-refund:booking:id), its ":synthetic" and its ":p:" variants.
Own       == 0
Synthetic == -1
Partial   == -2
Refs == Rows \cup {Own, Synthetic, Partial}

BookingStatus == {"pending", "confirmed", "cancelled", "refunded", "archived"}
Closed        == {"cancelled", "refunded", "archived"}
PaymentStatus == {"unpaid", "partial", "paid"}
EntryStatus   == {"none", "completed", "pending", "failed", "refunded", "deleted"}

TypeOK ==
  /\ lesson \in BookingStatus
  /\ pstatus \in PaymentStatus
  /\ amount \in 0 .. Price
  /\ paidAt \in BOOLEAN
  /\ requested \in BOOLEAN
  /\ early \in BOOLEAN
  /\ entry \in [Rows -> EntryStatus]
  /\ gross \in [Rows -> 0 .. Price]
  /\ manual \in [Rows -> BOOLEAN]
  /\ ask \in [Rows -> BOOLEAN]
  /\ out \in [Refs -> 0 .. MaxOut]
  /\ dead \in [Refs -> 0 .. MaxOut]
  /\ \A k \in Refs : dead[k] <= out[k]
  /\ pc \in [Requests -> {"idle", "sum", "insert", "ask", "reject", "patch"}]
  /\ at \in [Requests -> Rows]
  /\ aim \in [Requests -> 0 .. Price]
  /\ mark \in [Requests -> {"completed", "refunded", "failed"}]
  /\ seenLesson \in [Requests -> BookingStatus]
  /\ seenStatus \in [Requests -> PaymentStatus]
  /\ seenAmount \in [Requests -> 0 .. Price]
  /\ seenPaidAt \in [Requests -> BOOLEAN]

\* An unpaid booking on the calendar, far enough ahead to be refunded.
Init ==
  /\ lesson = "pending"
  /\ pstatus = "unpaid"
  /\ amount = 0
  /\ paidAt = FALSE
  /\ requested = FALSE
  /\ early = TRUE
  /\ entry  = [r \in Rows |-> "none"]
  /\ gross  = [r \in Rows |-> 0]
  /\ manual = [r \in Rows |-> FALSE]
  /\ ask    = [r \in Rows |-> FALSE]
  /\ out    = [k \in Refs |-> 0]
  /\ dead   = [k \in Refs |-> 0]
  /\ pc     = [a \in Requests |-> "idle"]
  /\ at     = [a \in Requests |-> 1]
  /\ aim    = [a \in Requests |-> 0]
  /\ mark   = [a \in Requests |-> "completed"]
  /\ seenLesson = [a \in Requests |-> "pending"]
  /\ seenStatus = [a \in Requests |-> "unpaid"]
  /\ seenAmount = [a \in Requests |-> 0]
  /\ seenPaidAt = [a \in Requests |-> FALSE]

-----------------------------------------------------------------------------
(* The ledger of the booking.                                              *)

Least(m, n) == IF m <= n THEN m ELSE n
Minus(m, n) == IF m <= n THEN 0 ELSE m - n        \* Math.max(0, m - n)

\* Cash taken for the booking, as its payment columns say.
CollectedAs(st, amt) ==
  CASE st = "paid"    -> Price
    [] st = "partial" -> Least(amt, Price)
    [] st = "unpaid"  -> 0

Collected == CollectedAs(pstatus, amount)

PaymentStatusOf(amt) ==
  IF amt = Price THEN "paid" ELSE IF amt = 0 THEN "unpaid" ELSE "partial"

ActiveRows    == {r \in Rows : entry[r] \in {"completed", "pending"}}
CompletedRows == {r \in Rows : entry[r] = "completed"}

ActiveIncome    == SumFunctionOnSet(gross, ActiveRows)
CompletedIncome == SumFunctionOnSet(gross, CompletedRows)
LiveRefunds     == SumFunctionOnSet([k \in Refs |-> out[k] - dead[k]], Refs)

\* Rows take their ids in order.
Unused == {r \in Rows : entry[r] = "none"}
NextRow(r) == r \in Unused /\ \A q \in Unused : r <= q

Insert(r, g, st, m) ==
  /\ NextRow(r)
  /\ entry'  = [entry EXCEPT ![r] = st]
  /\ gross'  = [gross EXCEPT ![r] = g]
  /\ manual' = [manual EXCEPT ![r] = m]
  /\ UNCHANGED ask

\* Money still to be recorded in front of an installment.
Remaining(target) == Minus(target, ActiveIncome)

Finish(a) ==
  /\ pc'   = [pc EXCEPT ![a] = "idle"]
  /\ at'   = [at EXCEPT ![a] = 1]
  /\ aim'  = [aim EXCEPT ![a] = 0]
  /\ mark' = [mark EXCEPT ![a] = "completed"]
  /\ seenLesson' = [seenLesson EXCEPT ![a] = "pending"]
  /\ seenStatus' = [seenStatus EXCEPT ![a] = "unpaid"]
  /\ seenAmount' = [seenAmount EXCEPT ![a] = 0]
  /\ seenPaidAt' = [seenPaidAt EXCEPT ![a] = FALSE]

-----------------------------------------------------------------------------
(* Payments.                                                               *)

\* completePracticalStudentPayment: the booking is confirmed and what is not
\* yet on the ledger is recorded; a failing ledger insert is swallowed.
CardPayment ==
  /\ lesson = "pending" /\ ~paidAt
  /\ lesson' = "confirmed"
  /\ pstatus' = "paid" /\ amount' = Price /\ paidAt' = TRUE
  /\ \/ Remaining(Price) > 0 /\ \E r \in Rows : Insert(r, Remaining(Price), "completed", FALSE)
     \/ UNCHANGED incomeRows
  /\ UNCHANGED <<requested, early, refundLines, memory>>

\* FinanceService.create without a transaction: the linked booking is read ...
CreateRead(a) ==
  /\ pc[a] = "idle"
  /\ \/ /\ lesson \notin Closed
        /\ pc'  = [pc EXCEPT ![a] = "sum"]
        /\ aim' = [aim EXCEPT ![a] = Collected]
        /\ UNCHANGED mark
     \/ /\ lesson \in Closed
        /\ pc'   = [pc EXCEPT ![a] = "insert"]
        /\ aim'  = [aim EXCEPT ![a] = Price]
        /\ mark' = [mark EXCEPT ![a] = IF lesson = "refunded" THEN "refunded" ELSE "failed"]
  /\ UNCHANGED <<bookingRow, early, incomeRows, refundLines, at, loaded>>

\* ... then the income already recorded ...
CreateSum(a) ==
  /\ pc[a] = "sum"
  /\ IF Remaining(aim[a]) > 0
     THEN /\ pc'  = [pc EXCEPT ![a] = "insert"]
          /\ aim' = [aim EXCEPT ![a] = Remaining(aim[a])]
          /\ UNCHANGED <<at, mark, loaded>>
     ELSE Finish(a)
  /\ UNCHANGED <<bookingRow, early, incomeRows, refundLines>>

\* ... and the row is inserted, no larger than what was left to record.
CreateInsert(a) ==
  /\ pc[a] = "insert"
  /\ \E g \in 1 .. aim[a], r \in Rows : Insert(r, g, mark[a], TRUE)
  /\ Finish(a)
  /\ UNCHANGED <<bookingRow, early, refundLines>>

\* removeManual
RemoveManual(r) ==
  /\ entry[r] \notin {"none", "deleted"}
  /\ manual[r]
  /\ entry' = [entry EXCEPT ![r] = "deleted"]
  /\ gross' = [gross EXCEPT ![r] = 0]
  /\ ask'   = [ask EXCEPT ![r] = FALSE]
  /\ UNCHANGED <<bookingRow, early, manual, refundLines, memory>>

-----------------------------------------------------------------------------
(* Refund of one payment.                                                  *)

\* requestRefundForStudentUser: the row is read without a lock ...
RequestRefund(a, r) ==
  /\ pc[a] = "idle"
  /\ entry[r] = "completed" /\ ~ask[r] /\ early
  /\ pc' = [pc EXCEPT ![a] = "ask"]
  /\ at' = [at EXCEPT ![a] = r]
  /\ UNCHANGED <<bookingRow, early, incomeRows, refundLines, aim, mark, loaded>>

\* ... and written later, if it still exists.
RequestRefundWrite(a) ==
  /\ pc[a] = "ask"
  /\ IF entry[at[a]] = "deleted"
     THEN UNCHANGED <<entry, ask>>
     ELSE /\ entry' = [entry EXCEPT ![at[a]] = "pending"]
          /\ ask'   = [ask EXCEPT ![at[a]] = TRUE]
  /\ Finish(a)
  /\ UNCHANGED <<bookingRow, early, gross, manual, refundLines>>

\* normalizeLegacyRefundedIncomeRowsForBooking: income rows marked refunded
\* count as income again unless a refund line stands for them.
Normalized ==
  IF \E k \in Refs : out[k] > dead[k]
  THEN entry
  ELSE [r \in Rows |-> IF entry[r] = "refunded" THEN "completed" ELSE entry[r]]

Undecided(r) == entry[r] = "pending" /\ ask[r]

\* approveRefundRequest: decided on the locked row, once per payment.
RefundPayment(r, g) ==
  /\ out[r] + g <= MaxOut
  /\ out'   = [out EXCEPT ![r] = @ + g]
  /\ entry' = [Normalized EXCEPT ![r] = "completed"]
  /\ ask'   = [ask EXCEPT ![r] = FALSE]
  /\ UNCHANGED <<bookingRow, early, gross, manual, dead, memory>>

\* Faulty: the ledger is not searched for an earlier refund of the payment.
ApproveRefundAgain(r) ==
  Undecided(r) /\ \E g \in 1 .. gross[r] : RefundPayment(r, g)

ApproveRefund(r) ==
  /\ Undecided(r)
  /\ out[r] = 0
  /\ \E g \in 1 .. gross[r] : RefundPayment(r, g)

\* rejectRefundRequest: read without a lock, written later.
RejectRefund(a, r) ==
  /\ pc[a] = "idle"
  /\ Undecided(r)
  /\ pc' = [pc EXCEPT ![a] = "reject"]
  /\ at' = [at EXCEPT ![a] = r]
  /\ UNCHANGED <<bookingRow, early, incomeRows, refundLines, aim, mark, loaded>>

RejectRefundWrite(a) ==
  /\ pc[a] = "reject"
  /\ IF entry[at[a]] = "deleted"
     THEN UNCHANGED <<entry, ask>>
     ELSE /\ entry' = [entry EXCEPT ![at[a]] = "completed"]
          /\ ask'   = [ask EXCEPT ![at[a]] = FALSE]
  /\ Finish(a)
  /\ UNCHANGED <<bookingRow, early, gross, manual, refundLines>>

-----------------------------------------------------------------------------
(* Cancellation and refund of the booking.                                 *)

\* What the ledger of the booking still allows to give back.
IncomeAsNormalized == SumFunctionOnSet(gross, {r \in Rows : Normalized[r] = "completed"})

WriteRefund(ref, amt) ==
  /\ out[ref] + amt <= MaxOut
  /\ out' = [out EXCEPT ![ref] = @ + amt]
  /\ entry' = Normalized
  /\ UNCHANGED dead

\* Faulty: what was already refunded is not subtracted.
CancellationRefundOfIncome ==
  IF out[Own] > 0
  THEN UNCHANGED <<entry, refundLines>>
  ELSE WriteRefund(Own, Least(Price, IncomeAsNormalized))

\* Faulty: any refund of the booking counts as its refund.
CancellationRefundUnlessAny ==
  IF LiveRefunds > 0
  THEN UNCHANGED <<entry, refundLines>>
  ELSE WriteRefund(Own, Least(Price, IncomeAsNormalized))

\* applyBookingCancellationRefundLedgerInTx: what goes back is capped by the
\* completed income not yet refunded; a booking without any ledger gets a
\* synthetic line of its price.  The booking's own line is written once.
CancellationRefund ==
  LET cap  == Minus(IncomeAsNormalized, LiveRefunds)
      bare == IncomeAsNormalized = 0 /\ LiveRefunds = 0 /\ out[Synthetic] = 0
  IN  \/ out[Own] # 0 /\ UNCHANGED <<entry, refundLines>>
      \/ out[Own] = 0 /\ bare /\ WriteRefund(Synthetic, Price)
      \/ out[Own] = 0 /\ ~bare /\ cap <= Price /\ WriteRefund(Own, cap)
      \/ out[Own] = 0 /\ ~bare /\ cap > Price /\ WriteRefund(Partial, Price)

\* cancelPracticalStudentBooking: a paid booking is only marked while refunds
\* are possible; otherwise it is closed at once, without a refund.
CancelByStudent ==
  /\ lesson \in {"pending", "confirmed"}
  /\ ~requested
  /\ IF paidAt /\ early
     THEN requested' = TRUE /\ UNCHANGED lesson
     ELSE lesson' = "cancelled" /\ UNCHANGED requested
  /\ UNCHANGED <<payment, early, incomeRows, refundLines, memory>>

\* staffApprovePracticalCancellation with finalizePracticalCancellationInTx.
ApproveCancellation ==
  /\ requested
  /\ lesson \in {"pending", "confirmed"}
  /\ requested' = FALSE
  /\ IF paidAt /\ lesson = "confirmed"
     THEN lesson' = "refunded" /\ CancellationRefund
     ELSE lesson' = "cancelled" /\ UNCHANGED <<entry, refundLines>>
  /\ UNCHANGED <<payment, early, gross, manual, ask, memory>>

\* staffRejectPracticalCancellation
RejectCancellation ==
  /\ requested
  /\ requested' = FALSE
  /\ UNCHANGED <<lesson, payment, early, incomeRows, refundLines, memory>>

\* Faulty: lines that are voided already are voided again.
ArchiveVoidsAll ==
  /\ lesson # "archived"
  /\ lesson' = "archived"
  /\ requested' = (requested /\ lesson \in Closed)
  /\ entry' = [r \in Rows |-> IF entry[r] \in {"completed", "pending", "refunded"}
                              THEN "failed" ELSE entry[r]]
  /\ dead' = [k \in Refs |-> dead[k] + out[k]]
  /\ UNCHANGED <<payment, early, gross, manual, ask, out, memory>>

\* archive with voidLedgerForArchivedBookingInTx: the linked rows are failed.
Archive ==
  /\ lesson # "archived"
  /\ lesson' = "archived"
  /\ requested' = (requested /\ lesson \in Closed)
  /\ entry' = [r \in Rows |-> IF entry[r] \in {"completed", "pending", "refunded"}
                              THEN "failed" ELSE entry[r]]
  /\ dead' = out
  /\ UNCHANGED <<payment, early, gross, manual, ask, out, memory>>

-----------------------------------------------------------------------------
(* Staff edit the booking without touching its schedule.                   *)

\* updateAdmin reads the row before the transaction ...
PatchRead(a) ==
  /\ pc[a] = "idle"
  /\ pc' = [pc EXCEPT ![a] = "patch"]
  /\ seenLesson' = [seenLesson EXCEPT ![a] = lesson]
  /\ seenStatus' = [seenStatus EXCEPT ![a] = pstatus]
  /\ seenAmount' = [seenAmount EXCEPT ![a] = amount]
  /\ seenPaidAt' = [seenPaidAt EXCEPT ![a] = paidAt]
  /\ UNCHANGED <<bookingRow, early, incomeRows, refundLines, at, aim, mark>>

\* row.update writes the columns that differ from what was read.
Column(current, seen, next) == IF next = seen THEN current ELSE next

\* bookingLifecycleStatusFromPayment: an explicit closed status wins, a closed
\* booking stays closed unless a status is given, payment decides otherwise.
Keep == -1       \* the edit leaves the payment as it is

Lifecycle(a, status, pay) ==
  CASE status \in Closed -> status
    [] status = "keep" /\ (pay = Keep \/ seenLesson[a] \in Closed) -> seenLesson[a]
    [] OTHER -> IF Price = (IF pay = Keep THEN CollectedAs(seenStatus[a], seenAmount[a]) ELSE pay)
                THEN "confirmed" ELSE "pending"

\* Faulty: the rows of card payments are cut like any other.
CutAny(r, excess) ==
  IF r \in ActiveRows
  THEN Least(gross[r], Minus(excess, SumFunctionOnSet(gross, {q \in ActiveRows : q > r})))
  ELSE 0

\* syncBookingCollectedIncome: the ledger of an open booking follows its
\* payment columns.  Too little is recorded as one more row of the difference;
\* too much is taken off the manual rows, the newest first.
NewerManual(r) == {q \in ActiveRows : q > r /\ manual[q]}

Cut(r, excess) ==
  IF r \in ActiveRows /\ manual[r]
  THEN Least(gross[r], Minus(excess, SumFunctionOnSet(gross, NewerManual(r))))
  ELSE 0

\* Faulty: the missing installment is recorded as the whole paid total.
InstallmentInFull(target) == target

Installment(target) == Minus(target, ActiveIncome)

SyncIncome(target) ==
  LET excess  == Minus(ActiveIncome, target)
      settled == [r \in Rows |-> IF r \in ActiveRows /\ target > 0 THEN "completed" ELSE entry[r]]
  IN  /\ UNCHANGED ask
      /\ IF ActiveIncome < target
         THEN \E r \in Rows :
                /\ NextRow(r)
                /\ entry'  = [settled EXCEPT ![r] = "completed"]
                /\ gross'  = [gross EXCEPT ![r] = Installment(target)]
                /\ manual' = [manual EXCEPT ![r] = TRUE]
         ELSE /\ entry' = [r \in Rows |-> IF Cut(r, excess) > 0 /\ Cut(r, excess) = gross[r]
                                          THEN "failed" ELSE settled[r]]
              /\ gross' = [r \in Rows |-> IF Cut(r, excess) > 0 /\ Cut(r, excess) < gross[r]
                                          THEN gross[r] - Cut(r, excess) ELSE gross[r]]
              /\ UNCHANGED manual

\* ... and the transaction writes the row, the refund line of a booking marked
\* refunded, and the income of an open booking.
MarksRefunded(a, next) ==
  next = "refunded" /\ seenLesson[a] \notin {"refunded", "cancelled"}

PatchWrite(a, status, pay) ==
  LET next == Lifecycle(a, status, pay)
  IN  /\ pc[a] = "patch"
      /\ lesson' = Column(lesson, seenLesson[a], next)
      /\ IF pay = Keep
         THEN UNCHANGED payment
         ELSE /\ pstatus' = Column(pstatus, seenStatus[a], PaymentStatusOf(pay))
              /\ amount'  = Column(amount, seenAmount[a], pay)
              /\ paidAt'  = (pay = Price \/ (paidAt /\ ~seenPaidAt[a]))
      /\ IF MarksRefunded(a, next)
         THEN paidAt' /\ CancellationRefund /\ UNCHANGED <<gross, manual, ask>>
         ELSE /\ UNCHANGED refundLines
              /\ IF lesson' \in Closed
                 THEN UNCHANGED incomeRows
                 ELSE SyncIncome(CollectedAs(pstatus', amount'))
      /\ Finish(a)
      /\ UNCHANGED <<requested, early>>

PatchStatuses == {"keep", "pending", "confirmed", "cancelled", "refunded"}

Patch(a) == \E status \in PatchStatuses, pay \in {Keep} \cup 0 .. Price : PatchWrite(a, status, pay)

\* A request is refused or its transaction is rolled back.
RequestFails(a) ==
  /\ pc[a] # "idle"
  /\ Finish(a)
  /\ UNCHANGED <<bookingRow, early, incomeRows, refundLines>>

\* The refund window closes 24 hours before the lesson.
TimePasses ==
  /\ early
  /\ early' = FALSE
  /\ UNCHANGED <<bookingRow, incomeRows, refundLines, memory>>

-----------------------------------------------------------------------------
ByStudent == CardPayment \/ CancelByStudent

ByStaff ==
  \/ ApproveCancellation
  \/ RejectCancellation
  \/ Archive
  \/ \E r \in Rows : RemoveManual(r) \/ ApproveRefund(r)

ByRequest(a) ==
  \/ CreateRead(a)
  \/ CreateSum(a)
  \/ CreateInsert(a)
  \/ RequestRefundWrite(a)
  \/ RejectRefundWrite(a)
  \/ PatchRead(a)
  \/ Patch(a)
  \/ RequestFails(a)
  \/ \E r \in Rows : RequestRefund(a, r) \/ RejectRefund(a, r)

Next == TimePasses \/ ByStudent \/ ByStaff \/ \E a \in Requests : ByRequest(a)

Spec == Init /\ [][Next]_vars

-----------------------------------------------------------------------------
(* Properties.                                                             *)

\* A request takes its last step.
Ends(step) == \E a \in Requests : pc[a] = step /\ pc'[a] = "idle"

\* A refund is written once.  The line of a payment, of the booking and the
\* synthetic one are found by their provider_ref before they are written, so
\* asking, approving, cancelling, archiving and reopening again in any order
\* never adds money to one of them (booking-refund:... references).
RefundedOncePerRef ==
  [][\A k \in Refs \ {Partial} : out[k] # 0 => out'[k] = out[k]]_vars

\* Approving the cancellation of a paid booking gives the student back at least
\* what the ledger shows as collected, up to the price, counting refunds made
\* before, unless the booking's own refund line was written earlier
\* (applyBookingCancellationRefundLedgerInTx).
CancellationPaysBack ==
  [][ApproveCancellation /\ lesson' = "refunded" /\ out[Own] = 0
       => LiveRefunds' >= Least(Price, CompletedIncome')]_vars

\* A cancellation refund never lifts the refunds above the completed income,
\* nor above the price when nothing was recorded (the cap of the ledger).
CancellationWithinIncome ==
  [][\A k \in {Own, Synthetic, Partial} :
       out'[k] > out[k] => \/ LiveRefunds' <= CompletedIncome'
                           \/ CompletedIncome' = 0 /\ LiveRefunds' <= Price]_vars

\* The row of a card payment keeps its amount and is never deleted or taken
\* back by staff edits: only archiving the booking voids it (system rows in
\* syncBookingCollectedIncome and removeManual).
CardIncomeKept ==
  [][\A r \in CompletedRows :
       ~manual[r] => /\ gross'[r] = gross[r]
                     /\ entry'[r] = "failed" => lesson' = "archived"
                     /\ entry'[r] # "deleted"]_vars

\* After staff edit an open booking, the income on its ledger is what the
\* booking says was collected; only rows of card payments may exceed it
\* (syncBookingCollectedIncome).
EditBalancesLedger ==
  [][Ends("patch") /\ (\E a \in Requests : Patch(a)) /\ lesson' \notin Closed
       => \/ ActiveIncome' = Collected'
          \/ /\ ActiveIncome' > Collected'
             /\ \A r \in ActiveRows' : ~manual'[r]]_vars

\* "Idempotent per booking money cap (no duplicate full refunds)": the refunds
\* of a booking stay within its price.
RefundsWithinPrice == LiveRefunds <= Price

\* "Removed bookings must not keep completed ledger rows in kassa / KPI
\* totals": an archived booking has no completed income.
ArchivedVoidsLedger == lesson = "archived" => CompletedRows = {}

=============================================================================
