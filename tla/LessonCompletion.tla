---------------------------- MODULE LessonCompletion ----------------------------
(***************************************************************************)
(* Whether a lesson took place (services/lesson-completion.service.ts):    *)
(* bookings.lesson_completion_status, the flag that salaries and the       *)
(* student's progress read.  Closing a booking sets it, the instructor     *)
(* sets it, and a pass of the cron job, or of a member of staff who starts *)
(* one by hand, sets what is due and repairs what a reopened booking kept. *)
(*                                                                         *)
(* A pass lists rows and writes them one by one from what it listed; a     *)
(* staff edit and a verdict read the row first and write later.  A write   *)
(* of a value equal to the one read writes nothing (Sequelize).            *)
(***************************************************************************)
EXTENDS Integers

CONSTANTS
  Bookings,
  Passes, Cron,  \* passes in progress at once; the one the timer starts
  Requests,
  MaxChanges     \* bound on what people change and on passes that fail

ASSUME PassesAssumption == Cron \in Passes
ASSUME ChangesAssumption == MaxChanges \in Nat

VARIABLES
  when,    \* the lesson is on a day "ahead", "today" or "over"
  lesson,  \* bookings.status
  passed,  \* lesson_passed_successfully: "unset", "yes", "no"
  flag,    \* lesson_completion_status
  stage,   \* each pass: "idle", "heal" or "mark"
  left,    \* bookings it still has to write
  row,     \* the rows it listed
  held,    \* what each request has read and not yet written
  changes

booking == <<when, lesson, passed, flag>>
passing == <<stage, left, row>>
vars == <<booking, passing, held, changes>>

Statuses == {"pending", "pending_payment", "confirmed", "cancelled", "refunded", "archived"}
Open     == {"pending", "pending_payment", "confirmed"}
Counted  == {"pending_payment", "confirmed"}
Closings == {"cancelled", "refunded"}
Verdicts == {"unset", "yes", "no"}
Flags    == {"scheduled", "completed", "missed"} \cup Closings
When     == {"ahead", "today", "over"}

Row    == [lesson : Statuses, passed : Verdicts, flag : Flags, over : BOOLEAN]
NoRow  == [lesson |-> "pending", passed |-> "unset", flag |-> "scheduled", over |-> FALSE]
NoRows == [b \in Bookings |-> NoRow]
Idle   == [do |-> "idle"]

RowOf(b) == [lesson |-> lesson[b], passed |-> passed[b], flag |-> flag[b], over |-> when[b] = "over"]

\* completionStatusFromBookingRow of a row that counts.
Target(r) == IF r.passed = "no" THEN "missed" ELSE IF r.over THEN "completed" ELSE "scheduled"

TypeOK ==
  /\ when \in [Bookings -> When]
  /\ lesson \in [Bookings -> Statuses]
  /\ passed \in [Bookings -> Verdicts]
  /\ flag \in [Bookings -> Flags]
  /\ stage \in [Passes -> {"idle", "heal", "mark"}]
  /\ left \in [Passes -> SUBSET Bookings]
  /\ row \in [Passes -> [Bookings -> Row]]
  /\ held \in [Requests -> {Idle} \cup [do : {"edit", "verdict"}, booking : Bookings, row : Row]]
  /\ changes \in 0 .. MaxChanges
  /\ \A p \in Passes : stage[p] = "idle" => left[p] = {}
  /\ \A p \in Passes : stage[p] = "mark" => \A b \in left[p] : Target(row[p][b]) # "scheduled"

Init ==
  /\ when   = [b \in Bookings |-> "ahead"]
  /\ lesson \in [Bookings -> Open]
  /\ passed = [b \in Bookings |-> "unset"]
  /\ flag   = [b \in Bookings |-> "scheduled"]
  /\ stage  = [p \in Passes |-> "idle"]
  /\ left   = [p \in Passes |-> {}]
  /\ row    = [p \in Passes |-> NoRows]
  /\ held   = [q \in Requests |-> Idle]
  /\ changes = 0

Changes == changes < MaxChanges /\ changes' = changes + 1

\* The day of the lesson comes, the lesson ends.
TimePasses(b) ==
  /\ \/ when[b] = "ahead" /\ when' = [when EXCEPT ![b] = "today"]
     \/ when[b] = "today" /\ when' = [when EXCEPT ![b] = "over"]
  /\ UNCHANGED <<lesson, passed, flag, passing, held, changes>>

-----------------------------------------------------------------------------
(* A pass.  A row is listed only if what was read of it leads to a write.  *)
(* The code takes the time once, when the pass starts; here each of the    *)
(* two listings takes its own, so a lesson that ends between them is       *)
(* marked one pass earlier than in the code.                               *)

List(p, s, bs) ==
  /\ stage' = [stage EXCEPT ![p] = s]
  /\ left'  = [left EXCEPT ![p] = bs]
  /\ row'   = [row EXCEPT ![p] = [b \in Bookings |-> IF b \in bs THEN RowOf(b) ELSE NoRow]]
  /\ UNCHANGED <<booking, held, changes>>

\* healStaleClosedCompletionsForActiveBookings
Stale(b) == lesson[b] \in Open /\ flag[b] \in Closings

\* Faulty: lessons that are not over are marked too.
DueToday(b) ==
  /\ lesson[b] \in Counted /\ when[b] # "ahead"
  /\ Target(RowOf(b)) # flag[b]

\* Faulty: a lesson once marked is not looked at again.
DueOnce(b) ==
  /\ lesson[b] \in Counted /\ when[b] # "ahead" /\ flag[b] = "scheduled"
  /\ Target(RowOf(b)) # "scheduled"

\* markDueLessonsCompleted
Due(b) ==
  /\ lesson[b] \in Counted /\ when[b] # "ahead"
  /\ Target(RowOf(b)) \notin {"scheduled", flag[b]}

BeginPass(p) == stage[p] = "idle" /\ List(p, "heal", {b \in Bookings : Stale(b)})

\* clearStaleClosedCompletionForActiveBooking, and the update of a due row:
\* both write what the row they listed leads to.
Write(p, b) ==
  /\ b \in left[p]
  /\ flag' = [flag EXCEPT ![b] = Target(row[p][b])]
  /\ left' = [left EXCEPT ![p] = @ \ {b}]
  /\ row'  = [row EXCEPT ![p][b] = NoRow]
  /\ UNCHANGED <<when, lesson, passed, stage, held, changes>>

BeginMark(p) ==
  /\ stage[p] = "heal" /\ left[p] = {}
  /\ List(p, "mark", {b \in Bookings : Due(b)})

EndPass(p) == stage[p] = "mark" /\ left[p] = {} /\ List(p, "idle", {})

\* An update throws, or the process stops: the rest of the list is dropped.
Abort(p) ==
  /\ stage[p] # "idle" /\ Changes
  /\ stage' = [stage EXCEPT ![p] = "idle"]
  /\ left'  = [left EXCEPT ![p] = {}]
  /\ row'   = [row EXCEPT ![p] = NoRows]
  /\ UNCHANGED <<booking, held>>

-----------------------------------------------------------------------------
(* People.                                                                 *)

\* finalizePracticalCancellationInTx, with the row locked.
Close(b, st) ==
  /\ lesson[b] \in Open /\ Changes
  /\ lesson' = [lesson EXCEPT ![b] = st]
  /\ flag'   = [flag EXCEPT ![b] = IF st = "refunded" THEN "refunded" ELSE "cancelled"]
  /\ UNCHANGED <<when, passed, passing, held>>

\* archive of a closed booking
ArchiveClosed(b) ==
  /\ lesson[b] \in Closings /\ Changes
  /\ lesson' = [lesson EXCEPT ![b] = "archived"]
  /\ UNCHANGED <<when, passed, flag, passing, held>>

Begin(q, b, what) ==
  /\ held[q] = Idle /\ Changes
  /\ held' = [held EXCEPT ![q] = [do |-> what, booking |-> b, row |-> RowOf(b)]]
  /\ UNCHANGED <<booking, passing>>

\* What is stored when v is written to a column that held old and was read as r.
Stored(v, r, old) == IF v # r THEN v ELSE old

\* updateAdmin: the status is written, and the flag of a row that was read
\* closed and is now open is repaired.  An edit that does not move the lesson
\* goes by the date it read.
FinishEdit(q, st, over) ==
  /\ held[q].do = "edit"
  /\ LET b == held[q].booking  r == held[q].row IN
     /\ lesson' = [lesson EXCEPT ![b] = Stored(st, r.lesson, @)]
     /\ \/ /\ st \in Open /\ r.flag \in Closings
           /\ flag' = [flag EXCEPT ![b] = Target([r EXCEPT !.over = over])]
        \/ ~(st \in Open /\ r.flag \in Closings) /\ UNCHANGED flag
  /\ held' = [held EXCEPT ![q] = Idle]
  /\ UNCHANGED <<passed, passing, changes>>

KeepDay(q, st) ==
  /\ UNCHANGED when
  /\ held[q].do = "edit"
  /\ LET b == held[q].booking IN
     FinishEdit(q, st, held[q].row.over) \/ FinishEdit(q, st, when[b] = "over")

Move(q, st, w) ==
  /\ held[q].do = "edit"
  /\ when' = [when EXCEPT ![held[q].booking] = w]
  /\ FinishEdit(q, st, w = "over")

\* setLessonPassedSuccessfully, by the instructor or by staff.
BeginVerdict(q, b) == lesson[b] \in Open /\ Begin(q, b, "verdict")

Judged(v) == CASE v = "no" -> "missed" [] v = "yes" -> "completed" [] OTHER -> "scheduled"

FinishVerdict(q, v) ==
  /\ held[q].do = "verdict"
  /\ LET b == held[q].booking  r == held[q].row IN
     /\ passed' = [passed EXCEPT ![b] = Stored(v, r.passed, @)]
     /\ flag'   = [flag EXCEPT ![b] = Stored(Judged(v), r.flag, @)]
  /\ held' = [held EXCEPT ![q] = Idle]
  /\ UNCHANGED <<when, lesson, passing, changes>>

-----------------------------------------------------------------------------

Continue(p) == (\E b \in Bookings : Write(p, b)) \/ BeginMark(p) \/ EndPass(p)

PeopleNext ==
  \/ \E b \in Bookings : ArchiveClosed(b) \/ \E st \in {"cancelled", "refunded", "archived"} : Close(b, st)
  \/ \E q \in Requests :
       \/ \E b \in Bookings : Begin(q, b, "edit") \/ BeginVerdict(q, b)
       \/ \E st \in Statuses \ {"archived"} : KeepDay(q, st) \/ \E w \in When : Move(q, st, w)
       \/ \E v \in Verdicts : FinishVerdict(q, v)

Next ==
  \/ \E b \in Bookings : TimePasses(b)
  \/ \E p \in Passes : BeginPass(p) \/ Continue(p) \/ Abort(p)
  \/ PeopleNext

\* The timer starts passes, and a pass goes on.
Fairness == WF_vars(BeginPass(Cron)) /\ \A p \in Passes : WF_vars(Continue(p))

Spec == Init /\ [][Next]_vars /\ Fairness

-----------------------------------------------------------------------------
(* Properties.                                                             *)

\* An open booking is not held closed, and a lesson that is over is completed,
\* or missed if that was the verdict.
Settled(b) ==
  /\ lesson[b] \in Open => flag[b] \notin Closings
  /\ lesson[b] \in Counted /\ when[b] = "over" =>
       flag[b] = IF passed[b] = "no" THEN "missed" ELSE "completed"

\* When people stop changing bookings the flags settle and stay so, whatever
\* slow passes, stale edits and crossed verdicts wrote before
\* (markDueLessonsCompleted, clearStaleClosedCompletionForActiveBooking).
Settles == <>[](\A b \in Bookings : Settled(b))

\* The flag of a closed booking is lost only to a pass that listed it open, or
\* while an edit or a verdict of it is under way, whenever that was begun; so a
\* cancelled lesson is not paid for by a pass that started afterwards
\* (healStaleClosedCompletionsForActiveBookings).  Proved, not among the runs.
ClosedKeepsFlag ==
  [][\A b \in Bookings :
       lesson[b] \notin Open /\ lesson'[b] \notin Open /\ flag[b] \in Closings =>
         \/ flag'[b] \in Closings
         \/ \E p \in Passes : b \in left[p] /\ row[p][b].lesson \in Open
         \/ \E q \in Requests : held[q].do # "idle" /\ held[q].booking = b]_vars

=============================================================================
