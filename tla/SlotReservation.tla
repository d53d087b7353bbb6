--------------------------- MODULE SlotReservation ---------------------------
(***************************************************************************)
(* The hours of one instructor's day: bookings, the booking_slots rows     *)
(* that claim their hours, and the unique index over those rows            *)
(* (services/booking.service.ts, booking-slot-validation.service.ts,       *)
(* models/booking-slot.model.ts).  A row claims the start of a lesson; how *)
(* long the lesson is follows from the grid of starts or from the end_time *)
(* of the booking, and the index knows nothing of it.                      *)
(*                                                                         *)
(* A request checks that hours are free outside the transaction that       *)
(* writes them.  Staff requests read the booking first and write what they *)
(* computed from it.  Each booking is of a student of its own, so the      *)
(* one-pending-booking check of a student never refuses.                   *)
(***************************************************************************)
EXTENDS Integers

CONSTANTS
  Bookings,   \* ids of bookings, in the order they are given out
  LastHour,   \* the hours of the day are 1 .. LastHour
  Plan,       \* the school's own grid of starts (DEFAULT_PRACTICAL_SLOT_PLAN)
  Branch,     \* the starts that are bookable at the instructor's branch
  Students,   \* requests of students that may be in progress at once
  Staff       \* requests of staff that may be in progress at once

ASSUME BookingsAssumption == Bookings \subseteq Nat /\ Bookings # {}
ASSUME HourAssumption == LastHour \in Nat \ {0}
ASSUME PlanAssumption == Plan \subseteq 1 .. LastHour /\ Branch \subseteq 1 .. LastHour

VARIABLES
  lesson,      \* bookings.status
  first, last, \* bookings.time, and the last hour before end_time (0: none)
  rows,        \* hours claimed by the booking's booking_slots rows
  given,       \* history: the rows it was booked with, {} once staff changed it
  pc, on,      \* each request: program counter and the booking it is about,
  want, until, \* the rows it is to write and the last hour of the lesson,
  gone,        \* the row it is to delete (0: none),
  seenLesson, seenFirst, seenLast   \* and the bookings row it read

bookingRow == <<lesson, first, last>>
memory     == <<pc, on, want, until, gone, seenLesson, seenFirst, seenLast>>
vars == <<bookingRow, rows, given, memory>>

Requests == Students \cup Staff

Hours == 1 .. LastHour
Ends  == {0} \cup Hours
Live  == {"pending", "confirmed"}     \* SLOT_RESERVING_STATUSES
BookingStatus == Live \cup {"none", "cancelled", "archived", "deleted"}

TypeOK ==
  /\ lesson \in [Bookings -> BookingStatus]
  /\ first \in [Bookings -> Hours]
  /\ last \in [Bookings -> Ends]
  /\ rows \in [Bookings -> SUBSET Hours]
  /\ given \in [Bookings -> SUBSET Hours]
  /\ pc \in [Requests -> {"idle", "book", "enter", "schedule", "move", "remove", "patch"}]
  /\ on \in [Requests -> Bookings]
  /\ want \in [Requests -> SUBSET Hours]
  /\ until \in [Requests -> Ends]
  /\ gone \in [Requests -> {0} \cup Hours]
  /\ seenLesson \in [Requests -> BookingStatus]
  /\ seenFirst \in [Requests -> Hours]
  /\ seenLast \in [Requests -> Ends]

Nobody == CHOOSE b \in Bookings : TRUE

Init ==
  /\ lesson = [b \in Bookings |-> "none"]
  /\ first  = [b \in Bookings |-> 1]
  /\ last   = [b \in Bookings |-> 1]
  /\ rows   = [b \in Bookings |-> {}]
  /\ given  = [b \in Bookings |-> {}]
  /\ pc     = [a \in Requests |-> "idle"]
  /\ on     = [a \in Requests |-> Nobody]
  /\ want   = [a \in Requests |-> {}]
  /\ until  = [a \in Requests |-> 0]
  /\ gone   = [a \in Requests |-> 0]
  /\ seenLesson = [a \in Requests |-> "none"]
  /\ seenFirst  = [a \in Requests |-> 1]
  /\ seenLast   = [a \in Requests |-> 1]

-----------------------------------------------------------------------------
(* The length of lessons.                                                  *)

\* A lesson that starts at t, on a grid: it runs until the next start, the last
\* one of the grid and one off the grid for one hour.
Range(t, grid) ==
  {h \in Hours : \/ h = t
                 \/ /\ t \in grid /\ t < h
                    /\ \E n \in grid : h < n
                    /\ \A n \in grid : n <= t \/ h < n}

Ranges(starts, grid) == UNION {Range(t, grid) : t \in starts}

Earliest(f, hours) == f \in hours /\ \A h \in hours : f <= h
Latest(l, hours)   == l \in hours /\ \A h \in hours : h <= l

\* end_time of practical lessons at these hours.
PlanEnd(hours, l) == \E t \in hours : Latest(t, hours) /\ Latest(l, Range(t, Branch))

\* end_time of personal theory at these hours: none if there are gaps.
TheoryEnd(hours, l) ==
  \/ \E f \in hours : l \in hours /\ hours = f .. l
  \/ l = 0 /\ \A f, h \in hours : hours # f .. h

-----------------------------------------------------------------------------
(* The calendar as the code reads it.                                      *)

Exists(b) == lesson[b] \notin {"none", "deleted"}

\* A booking without slot rows occupies what its time columns say.
Span(b) == IF first[b] <= last[b] THEN first[b] .. last[b] ELSE {first[b]}

\* A lone row stands for the whole lesson, unless its end_time runs over other
\* starts of the grid.
RunsOn(b) == \E t \in rows[b] :
               /\ rows[b] = {t} /\ t <= last[b]
               /\ ~(t \in Plan /\ \E n \in Plan : t < n /\ n <= last[b])

\* occupiedRangesMinutes
Occupied(b) ==
  IF rows[b] = {} THEN Span(b)
  ELSE IF RunsOn(b) THEN UNION {t .. last[b] : t \in rows[b]}
       ELSE Ranges(rows[b], Plan \cup rows[b])

\* assertInstructorRangeFree, of all bookings but the one that is moved.
Bookable(hours, others) ==
  \A c \in others : lesson[c] \in Live => Occupied(c) \cap hours = {}

\* Bookings take their ids in order.
NextId(b) ==
  lesson[b] = "none" /\ \A c \in Bookings : lesson[c] = "none" => b <= c

\* The unique index on (instructor, date, hour) accepts the claims.
Unique(b, hours, table) == \A c \in Bookings \ {b} : table[c] \cap hours = {}

Finish(a) ==
  /\ pc'   = [pc EXCEPT ![a] = "idle"]
  /\ on'   = [on EXCEPT ![a] = Nobody]
  /\ want' = [want EXCEPT ![a] = {}]
  /\ until' = [until EXCEPT ![a] = 0]
  /\ gone' = [gone EXCEPT ![a] = 0]
  /\ seenLesson' = [seenLesson EXCEPT ![a] = "none"]
  /\ seenFirst'  = [seenFirst EXCEPT ![a] = 1]
  /\ seenLast'   = [seenLast EXCEPT ![a] = 1]

\* Faulty: rows are dropped without looking at the booking's status.
PurgedAll(statuses) == [c \in Bookings |-> {}]

\* purgeClosedBookingSlotsForInstructorDates: the rows left once those of
\* closed bookings are dropped, given the statuses the transaction sees.
Purged(statuses) == [c \in Bookings |-> IF statuses[c] \in Live THEN rows[c] ELSE {}]

\* syncBookingSlotRowsFromDesired: the booking's rows become the hours asked.
Sync(b, hours, statuses) ==
  /\ Unique(b, hours, Purged(statuses))
  /\ rows' = [Purged(statuses) EXCEPT ![b] = hours]

-----------------------------------------------------------------------------
(* What is asked for: the rows and the last hour of a lesson whose hours no  *)
(* other booking occupies.                                                  *)

\* Practical lessons at starts of the grid.  Starts other rows of the day claim
\* end a lesson too.
Practical(hours, l, others) ==
  /\ PlanEnd(hours, l)
  /\ Bookable(Ranges(hours, Branch \cup hours \cup UNION {rows[c] : c \in Bookings}), others)

\* Personal theory by the hour.
Personal(hours, l, others) == TheoryEnd(hours, l) /\ Bookable(hours, others)

\* A lesson with an end of its own, at any start (customSlotEndTime); of several
\* starts each is checked up to that end, which then is not stored.
Custom(hours, l, others) ==
  \E end \in Hours :
    /\ \A h \in hours : h <= end
    /\ \/ \E f \in hours : hours = {f} /\ l = end
       \/ (\A f \in hours : hours # {f}) /\ PlanEnd(hours, l)
    /\ Bookable(UNION {h .. end : h \in hours}, others)

Asks(a, hours, l) ==
  /\ want'  = [want EXCEPT ![a] = hours]
  /\ until' = [until EXCEPT ![a] = l]

-----------------------------------------------------------------------------
(* New bookings.                                                           *)

\* The check of a student's or of staff's new booking ends with what to write.
Check(a, step, hours, l) ==
  /\ pc' = [pc EXCEPT ![a] = step]
  /\ Asks(a, hours, l)
  /\ UNCHANGED <<bookingRow, rows, given, on, gone, seenLesson, seenFirst, seenLast>>

\* Starts of the branch with none between them.
Consecutive(hours) == \A f, h \in hours : (f .. h) \cap Branch \subseteq hours

CheckStudent(a) ==
  /\ pc[a] = "idle"
  /\ \E hours \in (SUBSET Branch) \ {{}}, l \in Ends :
       /\ Consecutive(hours)
       /\ Practical(hours, l, Bookings)
       /\ Check(a, "book", hours, l)

CheckStaff(a) ==
  /\ pc[a] = "idle"
  /\ \E hours \in (SUBSET Hours) \ {{}}, l \in Ends :
       /\ \/ hours \subseteq Branch /\ Practical(hours, l, Bookings)
          \/ Personal(hours, l, Bookings)
          \/ Custom(hours, l, Bookings)
       /\ Check(a, "enter", hours, l)

\* Faulty: slot rows of a time that is taken are skipped, not refused.
InsertIgnoringConflicts(b, hours) ==
  rows' = [rows EXCEPT ![b] = {h \in hours : \A c \in Bookings \ {b} : h \notin rows[c]}]

\* BookingSlot.bulkCreate
Insert(b, hours) ==
  /\ Unique(b, hours, rows)
  /\ rows' = [rows EXCEPT ![b] = hours]

Create(a, b, status) ==
  /\ NextId(b)
  /\ lesson' = [lesson EXCEPT ![b] = status]
  /\ \E f \in want[a] : Earliest(f, want[a]) /\ first' = [first EXCEPT ![b] = f]
  /\ last'  = [last EXCEPT ![b] = until[a]]
  /\ given' = [given EXCEPT ![b] = want[a]]

\* createFromStudentSlotSelection: paid by credits or waiting for payment.
Book(a, b) ==
  /\ pc[a] = "book"
  /\ \E status \in Live : Create(a, b, status)
  /\ Insert(b, want[a])
  /\ Finish(a)

\* createAdmin: of any status; entries go through the slot sync, which drops
\* leftovers of closed bookings first, consecutive hours are inserted.
Enter(a, b) ==
  /\ pc[a] = "enter"
  /\ \E status \in Live \cup {"cancelled"} : Create(a, b, status)
  /\ Insert(b, want[a]) \/ Sync(b, want[a], lesson')
  /\ Finish(a)

-----------------------------------------------------------------------------
(* The life of a booking under a row lock.                                 *)

\* completePracticalStudentPayment
ConfirmPayment(b) ==
  /\ lesson[b] = "pending"
  /\ lesson' = [lesson EXCEPT ![b] = "confirmed"]
  /\ UNCHANGED <<first, last, rows, given, memory>>

Close(b, status) ==
  /\ lesson' = [lesson EXCEPT ![b] = status]
  /\ rows'   = [rows EXCEPT ![b] = {}]
  /\ given'  = [given EXCEPT ![b] = {}]
  /\ UNCHANGED <<first, last, memory>>

\* finalizePracticalCancellationInTx, for the student, staff and the cron pass.
Cancel(b)  == lesson[b] \in Live /\ Close(b, "cancelled")

\* archive
Archive(b) == Exists(b) /\ lesson[b] # "archived" /\ Close(b, "archived")

\* The cron pass deletes an expired hold, staff empty the archive or remove
\* the student; the slot rows go with the booking.
Delete(b) ==
  /\ Exists(b)
  /\ lesson' = [lesson EXCEPT ![b] = "deleted"]
  /\ rows'   = [rows EXCEPT ![b] = {}]
  /\ first'  = [first EXCEPT ![b] = 1]
  /\ last'   = [last EXCEPT ![b] = 1]
  /\ given'  = [given EXCEPT ![b] = {}]
  /\ UNCHANGED memory

-----------------------------------------------------------------------------
(* Staff change a booking they have read before.                           *)

Read(a, b, step) ==
  /\ pc[a] = "idle"
  /\ Exists(b)
  /\ pc' = [pc EXCEPT ![a] = step]
  /\ on' = [on EXCEPT ![a] = b]
  /\ UNCHANGED <<bookingRow, rows, given>>

ReadStatus(a, b) == seenLesson' = [seenLesson EXCEPT ![a] = lesson[b]]

ReadTimes(a, b) ==
  /\ seenFirst' = [seenFirst EXCEPT ![a] = first[b]]
  /\ seenLast'  = [seenLast EXCEPT ![a] = last[b]]

\* updateAdmin reads the row ...
ReadForSchedule(a, b) ==
  /\ Read(a, b, "schedule") /\ ReadStatus(a, b) /\ ReadTimes(a, b)
  /\ UNCHANGED <<want, until, gone>>

ReadForPatch(a, b) ==
  /\ Read(a, b, "patch") /\ ReadStatus(a, b)
  /\ UNCHANGED <<want, until, gone, seenFirst, seenLast>>

\* The starts a booking has; one without rows has the one in its columns.
Starts(b, start) == IF rows[b] # {} THEN rows[b] ELSE {start}

\* What staff may ask of a booking they change: starts it has already may stay.
Changed(a, hours, l, others) ==
  \/ /\ hours \subseteq Branch \cup Starts(on[a], seenFirst[a])
     /\ Practical(hours, l, others)
  \/ Personal(hours, l, others)
  \/ (\E f \in hours : hours = {f}) /\ Custom(hours, l, others)

\* ... and checks the hours asked, unless its starts are kept; then so is its
\* end_time, if it has one.
CheckSchedule(a) ==
  /\ pc[a] = "schedule"
  /\ \E hours \in (SUBSET Hours) \ {{}}, l \in Ends :
       /\ \/ Changed(a, hours, l, Bookings \ {on[a]})
          \/ /\ hours = Starts(on[a], seenFirst[a])
             /\ \/ l = seenLast[a] /\ l # 0
                \/ seenLast[a] = 0 /\ Changed(a, hours, l, {})
       /\ Asks(a, hours, l)
  /\ pc' = [pc EXCEPT ![a] = "move"]
  /\ UNCHANGED <<bookingRow, rows, given, on, gone, seenLesson, seenFirst, seenLast>>

\* row.update writes the columns that differ from what was read.
Column(current, seen, next) == IF next = seen THEN current ELSE next

WriteStatus(a, next) ==
  lesson' = [lesson EXCEPT ![on[a]] = Column(@, seenLesson[a], next)]

\* Faulty: the exclusive end of the lesson is stored as its last hour.
WriteTimesExclusive(a) ==
  /\ \E f \in want[a] : Earliest(f, want[a]) /\ first' = [first EXCEPT ![on[a]] = f]
  /\ last' = [last EXCEPT ![on[a]] = until[a] + 1]

WriteTimes(a) ==
  /\ \E f \in want[a] : /\ Earliest(f, want[a])
                        /\ first' = [first EXCEPT ![on[a]] = Column(@, seenFirst[a], f)]
  /\ last' = [last EXCEPT ![on[a]] = Column(@, seenLast[a], until[a])]

\* The status a staff edit ends with: given, derived from the payment or kept.
NextStatus(a) == Live \cup {"cancelled", seenLesson[a]}

Edits(a) == given' = [given EXCEPT ![on[a]] = {}]

\* The transaction of a schedule change.
Move(a) ==
  /\ pc[a] = "move"
  /\ Exists(on[a])
  /\ WriteTimes(a)
  /\ \E next \in NextStatus(a) :
       /\ WriteStatus(a, next)
       /\ \/ next \in Live /\ Sync(on[a], want[a], lesson')
          \/ /\ next \notin Live
             /\ Unique(on[a], want[a], Purged(lesson'))
             /\ rows' = [Purged(lesson') EXCEPT ![on[a]] = {}]
  /\ Edits(a)
  /\ Finish(a)

\* updateAdminWithoutScheduleChange
Patch(a) ==
  /\ pc[a] = "patch"
  /\ Exists(on[a])
  /\ \E next \in NextStatus(a) :
       /\ WriteStatus(a, next)
       /\ \/ next \in Live /\ UNCHANGED rows
          \/ next \notin Live /\ rows' = [rows EXCEPT ![on[a]] = {}]
  /\ Edits(a)
  /\ Finish(a)
  /\ UNCHANGED <<first, last>>

\* The starts of a booking, one without rows having those of the grid in its span.
Entries(b) == IF rows[b] # {} THEN rows[b] ELSE {first[b]} \cup (Plan \cap Span(b))

\* removeAdminSlot reads the booking and its starts; the last one is refused.
ReadForRemove(a, b) ==
  /\ Read(a, b, "remove")
  /\ ReadTimes(a, b)
  /\ UNCHANGED seenLesson
  /\ lesson[b] \in Live
  /\ \E h \in Entries(b), l \in Ends :
       LET left == Entries(b) \ {h} IN
       /\ left # {}
       /\ PlanEnd(left, l) \/ TheoryEnd(left, l)
       /\ Asks(a, left, l)
       /\ gone' = [gone EXCEPT ![a] = IF rows[b] = {} THEN 0 ELSE h]

\* Its transaction deletes that row; a booking without rows gets the others.
RemoveSlot(a) ==
  /\ pc[a] = "remove"
  /\ Exists(on[a])
  /\ WriteTimes(a)
  /\ UNCHANGED lesson
  /\ \/ gone[a] # 0 /\ rows' = [rows EXCEPT ![on[a]] = @ \ {gone[a]}]
     \/ gone[a] = 0 /\ Sync(on[a], want[a], lesson)
  /\ Edits(a)
  /\ Finish(a)

\* A request is refused (the hour is taken) or its transaction rolled back.
RequestFails(a) ==
  /\ pc[a] # "idle"
  /\ Finish(a)
  /\ UNCHANGED <<bookingRow, rows, given>>

-----------------------------------------------------------------------------
ByStudent(a) == CheckStudent(a) \/ \E b \in Bookings : Book(a, b)

ByStaff(a) ==
  \/ CheckStaff(a) \/ CheckSchedule(a)
  \/ Move(a) \/ Patch(a) \/ RemoveSlot(a)
  \/ \E b \in Bookings : \/ Enter(a, b)
                         \/ ReadForSchedule(a, b) \/ ReadForPatch(a, b) \/ ReadForRemove(a, b)

ByLock(b) == ConfirmPayment(b) \/ Cancel(b) \/ Archive(b) \/ Delete(b)

Next ==
  \/ \E a \in Students : ByStudent(a)
  \/ \E a \in Staff : ByStaff(a)
  \/ \E a \in Requests : RequestFails(a)
  \/ \E b \in Bookings : ByLock(b)

Spec == Init /\ [][Next]_vars

-----------------------------------------------------------------------------
(* Properties.                                                             *)

\* Until staff edit it, an open booking holds the very rows it was booked with
\* and its columns agree with them: its time is the earliest of them and its
\* end_time, if it has one, is past them all.  Edits of other bookings, the purge
\* of leftovers and stale requests take no row of it away.
UntouchedHoldsItsHours ==
  \A b \in Bookings :
    lesson[b] \in Live /\ given[b] # {} =>
      /\ rows[b] = given[b]
      /\ Earliest(first[b], rows[b])
      /\ last[b] # 0 => \A h \in rows[b] : h <= last[b]

\* The hours claimed by open bookings are a calendar: each transaction changes
\* the hours of one booking, takes only hours no open booking claims, and takes
\* none away from another one (booking_slots_inst_date_slot_uniq, the purge of
\* leftover rows).
Booked == [b \in Bookings |-> IF lesson[b] \in Live THEN rows[b] ELSE {}]

C == INSTANCE Calendar WITH held <- Booked
KeepsCalendar == C!Spec

\* "One row per booked hour; unique (instructor, date, slot start) prevents
\* double booking races." (models/booking-slot.model.ts:11): no hour is
\* occupied by two open bookings.
NoDoubleBooking ==
  \A b, c \in Bookings :
    b # c /\ lesson[b] \in Live /\ lesson[c] \in Live => Occupied(b) \cap Occupied(c) = {}

===============================================================================
