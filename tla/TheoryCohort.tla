------------------------------- MODULE TheoryCohort -------------------------------
(***************************************************************************)
(* Theory groups (services/theory-cohort.service.ts, theory-cohort-session *)
(* .service.ts, booking.service.ts): a cohort has seats, a plan from which *)
(* its sessions are generated, and enrolments, which come from bookings,   *)
(* from payments and from staff.                                           *)
(*                                                                         *)
(* Enrolment counts the seats under the lock of the cohort row.  The       *)
(* database reads from a snapshot taken at a transaction's first plain     *)
(* read (MySQL, repeatable read), so a transaction that read something     *)
(* before it waited for the lock counts what it saw then: its view.        *)
(***************************************************************************)
EXTENDS Integers, FiniteSets

CONSTANTS
  Cohorts, Students, Bookings, Requests,
  Seats,     \* numbers of seats staff may give a cohort
  Plans,     \* [first, last, weekdays, total] staff may give a cohort
  LastDay,
  WeekLength,
  None

ASSUME CalendarAssumption == LastDay \in Nat /\ WeekLength \in Nat \ {0}
ASSUME SeatsAssumption == Seats \subseteq Nat
ASSUME PlansAssumption ==
  Plans \subseteq [first : Nat, last : Nat, weekdays : SUBSET Nat, total : Nat]
ASSUME StudentsAssumption ==
  IsFiniteSet(Students) /\ None \notin Students /\ None \notin Cohorts

Days == 0 .. LastDay

VARIABLES
  today,
  cohort,    \* "none", "open" (bookings allowed), "shut" or "removed"
  seats, plan,
  sessions,  \* theory_cohort_sessions: the status of the one on a day
  enrolled,  \* theory_cohort_enrollments
  lesson,    \* bookings.status: "none", "pending", "confirmed", "closed", "archived"
  student, group, \* student_user_id, theoryCohortId in prepaid_meta
  loose,     \* whether the booking was confirmed by hand, rests on an enrolment it
             \* did not make, or shares one that another booking gave up
  request    \* what each request has read and not yet done

cohorts  == <<cohort, seats, plan, sessions>>
bookings == <<lesson, student, group, loose>>
vars == <<today, cohorts, enrolled, bookings, request>>

Idle == [do |-> "idle"]
RequestStates ==
  [do : {"idle"}] \cup [do : {"book"}, cohort : Cohorts, student : Students]
    \cup [do : {"credit"}, cohort : Cohorts, student : Students, view : SUBSET Students]
    \cup [do : {"pay"}, booking : Bookings]
    \cup [do : {"update"}, cohort : Cohorts, seats : Seats, plan : Plans]
    \cup [do : {"read"}, cohort : Cohorts, seats : Seats, plan : Plans, view : SUBSET Students]

TypeOK ==
  /\ today \in Days
  /\ cohort \in [Cohorts -> {"none", "open", "shut", "removed"}]
  /\ seats \in [Cohorts -> Seats \cup {0}]
  /\ plan \in [Cohorts -> Plans \cup {None}]
  /\ sessions \in [Cohorts -> [Days -> {"none", "scheduled", "completed"}]]
  /\ enrolled \in [Cohorts -> SUBSET Students]
  /\ lesson \in [Bookings -> {"none", "pending", "confirmed", "closed", "archived"}]
  /\ student \in [Bookings -> Students \cup {None}]
  /\ group \in [Bookings -> Cohorts \cup {None}]
  /\ loose \in [Bookings -> BOOLEAN]
  /\ request \in [Requests -> RequestStates]
  /\ \A c \in Cohorts : cohort[c] \notin {"open", "shut"} => enrolled[c] = {}

Init ==
  /\ today = 0
  /\ cohort   = [c \in Cohorts |-> "none"]
  /\ seats    = [c \in Cohorts |-> 0]
  /\ plan     = [c \in Cohorts |-> None]
  /\ sessions = [c \in Cohorts |-> [d \in Days |-> "none"]]
  /\ enrolled = [c \in Cohorts |-> {}]
  /\ lesson   = [b \in Bookings |-> "none"]
  /\ student  = [b \in Bookings |-> None]
  /\ group    = [b \in Bookings |-> None]
  /\ loose    = [b \in Bookings |-> FALSE]
  /\ request  = [r \in Requests |-> Idle]

Exists(c) == c \in Cohorts /\ cohort[c] \in {"open", "shut"}

NextDay ==
  /\ today < LastDay /\ today' = today + 1
  /\ UNCHANGED <<cohorts, enrolled, bookings, request>>

-----------------------------------------------------------------------------
(* The sessions of a plan.                                                 *)

Fits(p, d) == p.first <= d /\ d <= p.last /\ (d % WeekLength) \in p.weekdays

\* generateCohortSessions: the first days that fit, at most total of them.
Planned(p) ==
  {d \in Days : Fits(p, d) /\ Cardinality({e \in 0 .. d : Fits(p, e)}) <= p.total}

\* Faulty: a completed session is a fixed one, a past one is not.
FixedIfCompleted(c, d) == sessions[c][d] = "completed"

\* The sessions a new plan leaves alone: past or completed.
Fixed(c, d) == sessions[c][d] # "none" /\ (d < today \/ sessions[c][d] = "completed")

\* Sessions the plan no longer has.
Dropped(c, p) == {d \in Days : sessions[c][d] # "none" /\ ~Fixed(c, d)} \ Planned(p)

\* What syncSessionsForCohort makes of the sessions; a past day is filled in
\* only when nobody is enrolled.
Synced(c, p, taken) ==
  [d \in Days |->
     IF d \in Dropped(c, p) THEN "none"
     ELSE IF sessions[c][d] = "none" /\ d \in Planned(p) /\ (d >= today \/ ~taken) THEN "scheduled"
     ELSE sessions[c][d]]

\* Faulty: sessions are dropped whoever is enrolled.
SyncAnyway(c, p, taken) ==
  \/ Planned(p) = {} /\ UNCHANGED sessions
  \/ Planned(p) # {} /\ sessions' = [sessions EXCEPT ![c] = Synced(c, p, taken)]

\* syncSessionsForCohort: refused when a student would lose a session.
Sync(c, p, taken) ==
  \/ Planned(p) = {} /\ UNCHANGED sessions
  \/ /\ Planned(p) # {}
     /\ ~(taken /\ Dropped(c, p) # {})
     /\ sessions' = [sessions EXCEPT ![c] = Synced(c, p, taken)]

\* The cron pass: a session whose end is past is completed.
Complete(c, d) ==
  /\ sessions[c][d] = "scheduled" /\ d < today
  /\ sessions' = [sessions EXCEPT ![c][d] = "completed"]
  /\ UNCHANGED <<today, cohort, seats, plan, enrolled, bookings, request>>

-----------------------------------------------------------------------------
(* Staff keep the cohorts.                                                 *)

CreateCohort(c, n, p, st) ==
  /\ cohort[c] = "none"
  /\ cohort' = [cohort EXCEPT ![c] = st]
  /\ seats'  = [seats EXCEPT ![c] = n]
  /\ plan'   = [plan EXCEPT ![c] = p]
  /\ Sync(c, p, FALSE)
  /\ UNCHANGED <<today, enrolled, bookings, request>>

\* update: the enrolments are counted without a lock ...
BeginUpdate(r, c, n, p) ==
  /\ request[r] = Idle
  /\ Exists(c) /\ n >= Cardinality(enrolled[c])
  /\ request' = [request EXCEPT ![r] =
                   [do |-> "update", cohort |-> c, seats |-> n, plan |-> p]]
  /\ UNCHANGED <<today, cohorts, enrolled, bookings>>

\* ... with instructors in the patch the transaction first reads those ...
ReadInstructors(r) ==
  /\ request[r].do = "update"
  /\ request' = [request EXCEPT ![r] =
                   [do |-> "read", cohort |-> request[r].cohort, seats |-> request[r].seats,
                    plan |-> request[r].plan, view |-> enrolled[request[r].cohort]]]
  /\ UNCHANGED <<today, cohorts, enrolled, bookings>>

\* Whoever the transaction sees enrolled.
Seen(r) ==
  IF request[r].do = "read" THEN request[r].view ELSE enrolled[request[r].cohort]

\* ... and the row is written and the sessions brought to the plan, or all refused.
FinishUpdate(r) ==
  /\ request[r].do \in {"update", "read"}
  /\ LET c == request[r].cohort  p == request[r].plan IN
     \/ /\ Exists(c)
        /\ Sync(c, p, Seen(r) # {})
        /\ seats' = [seats EXCEPT ![c] = request[r].seats]
        /\ plan'  = [plan EXCEPT ![c] = p]
     \/ UNCHANGED <<seats, plan, sessions>>
  /\ request' = [request EXCEPT ![r] = Idle]
  /\ UNCHANGED <<today, cohort, enrolled, bookings>>

\* update of the status alone brings the sessions to the plan as well.
SetStatus(c, st) ==
  /\ Exists(c) /\ cohort' = [cohort EXCEPT ![c] = st]
  /\ Sync(c, plan[c], enrolled[c] # {})
  /\ UNCHANGED <<today, seats, plan, enrolled, bookings, request>>

\* Faulty: the enrolments of a cohort outlive it.
RemoveCohortAlone(c) ==
  /\ Exists(c)
  /\ cohort'   = [cohort EXCEPT ![c] = "removed"]
  /\ sessions' = [sessions EXCEPT ![c] = [d \in Days |-> "none"]]
  /\ UNCHANGED <<today, seats, plan, enrolled, bookings, request>>

\* remove: bookings keep the cohort's id.
RemoveCohort(c) ==
  /\ Exists(c)
  /\ cohort'   = [cohort EXCEPT ![c] = "removed"]
  /\ sessions' = [sessions EXCEPT ![c] = [d \in Days |-> "none"]]
  /\ enrolled' = [enrolled EXCEPT ![c] = {}]
  /\ UNCHANGED <<today, seats, plan, bookings, request>>

-----------------------------------------------------------------------------
(* Enrolment.                                                              *)

\* Faulty: one student too many.
FullAbove(c, view) == Cardinality(view) > seats[c]

Full(c, view) == Cardinality(view) >= seats[c]

\* ensureEnrolledInTx, for a transaction that sees the given enrolments; the
\* unique index refuses a second row for the student.
EnsureEnrolled(c, s, view) ==
  /\ Exists(c)
  /\ \/ s \in view /\ UNCHANGED enrolled
     \/ /\ s \notin view /\ ~Full(c, view) /\ s \notin enrolled[c]
        /\ enrolled' = [enrolled EXCEPT ![c] = @ \cup {s}]

\* enroll, by staff
Enroll(c, s) ==
  /\ s \notin enrolled[c]
  /\ EnsureEnrolled(c, s, enrolled[c])
  /\ UNCHANGED <<today, cohorts, bookings, request>>

-----------------------------------------------------------------------------
(* Bookings of a group.                                                    *)

Open(b, s, c, st, rests) ==
  /\ lesson[b] = "none"
  /\ lesson'  = [lesson EXCEPT ![b] = st]
  /\ student' = [student EXCEPT ![b] = s]
  /\ group'   = [group EXCEPT ![b] = c]
  /\ loose'   = [loose EXCEPT ![b] = rests]

BookingsOf(s) == {b \in Bookings : lesson[b] \in {"pending", "confirmed"} /\ student[b] = s}

\* createTheoryGroupFromStudentSelection checks, outside any transaction ...
CheckGroup(r, s, c) ==
  /\ request[r] = Idle
  /\ cohort[c] = "open" /\ ~Full(c, enrolled[c])
  /\ \A b \in BookingsOf(s) : lesson[b] = "confirmed" /\ group[b] # c
  /\ request' = [request EXCEPT ![r] = [do |-> "book", cohort |-> c, student |-> s]]
  /\ UNCHANGED <<today, cohorts, enrolled, bookings>>

\* ... and without package credits makes a booking to be paid.
BookToPay(r, b) ==
  /\ request[r].do = "book"
  /\ Open(b, request[r].student, request[r].cohort, "pending", FALSE)
  /\ request' = [request EXCEPT ![r] = Idle]
  /\ UNCHANGED <<today, cohorts, enrolled>>

\* With credits the transaction reads the order's payment before the cohort:
\* the student's booking, and the one staff make for a student.
BeginCredit(r, s, c) ==
  /\ \/ request[r] = [do |-> "book", cohort |-> c, student |-> s]
     \/ request[r] = Idle /\ cohort[c] = "open"
  /\ request' = [request EXCEPT ![r] =
                   [do |-> "credit", cohort |-> c, student |-> s, view |-> enrolled[c]]]
  /\ UNCHANGED <<today, cohorts, enrolled, bookings>>

FinishCredit(r, b) ==
  /\ request[r].do = "credit"
  /\ \/ /\ EnsureEnrolled(request[r].cohort, request[r].student, request[r].view)
        /\ Open(b, request[r].student, request[r].cohort, "confirmed",
                request[r].student \in request[r].view)
     \/ UNCHANGED <<enrolled, bookings>>
  /\ request' = [request EXCEPT ![r] = Idle]
  /\ UNCHANGED <<today, cohorts>>

\* createAdmin without credits; the status follows the payment staff enter.
StaffBook(b, s, c, st) ==
  /\ cohort[c] = "open"
  /\ EnsureEnrolled(c, s, enrolled[c])
  /\ Open(b, s, c, st, FALSE)
  /\ UNCHANGED <<today, cohorts, request>>

\* A payment holds the booking's row until it commits.
Paying(b) == \E r \in Requests : request[r].do = "pay" /\ request[r].booking = b

\* Faulty: a payment goes on whether the student could be enrolled or not.
EnrolPayerOrNot(c, s) ==
  \/ s \notin enrolled[c] /\ EnsureEnrolled(c, s, enrolled[c])
  \/ UNCHANGED enrolled

\* enroll inside a payment commits at once; of a removed cohort it says nothing.
EnrolPayer(c, s) ==
  \/ Exists(c) /\ s \notin enrolled[c] /\ EnsureEnrolled(c, s, enrolled[c])
  \/ ~Exists(c) /\ UNCHANGED enrolled

\* completePracticalStudentPayment locks the booking and enrols in a transaction
\* of its own ...
BeginPay(r, b) ==
  /\ request[r] = Idle /\ lesson[b] = "pending" /\ ~Paying(b) /\ group[b] # None
  /\ EnrolPayer(group[b], student[b])
  /\ loose'   = [loose EXCEPT ![b] = FALSE]
  /\ request' = [request EXCEPT ![r] = [do |-> "pay", booking |-> b]]
  /\ UNCHANGED <<today, cohorts, lesson, student, group>>

\* ... and commits the booking, or rolls back and leaves the enrolment.
FinishPay(r) ==
  /\ request[r].do = "pay"
  /\ \/ lesson' = [lesson EXCEPT ![request[r].booking] = "confirmed"]
     \/ UNCHANGED lesson
  /\ request' = [request EXCEPT ![r] = Idle]
  /\ UNCHANGED <<today, cohorts, enrolled, student, group, loose>>

\* finalizePracticalCancellationInTx: cancelled, or archived while open.
Close(b, st) ==
  /\ lesson[b] \in {"pending", "confirmed"} /\ ~Paying(b)
  /\ lesson'   = [lesson EXCEPT ![b] = st]
  /\ enrolled' = [c \in Cohorts |->
                    IF c = group[b] THEN enrolled[c] \ {student[b]} ELSE enrolled[c]]
  /\ group'    = [group EXCEPT ![b] = None]
  /\ loose'    = [q \in Bookings |->
                    q # b /\ (loose[q] \/ (student[q] = student[b] /\ group[q] = group[b]))]
  /\ UNCHANGED <<today, cohorts, student, request>>

\* archive of a closed booking: its cohort is not looked at.
ArchiveClosed(b) ==
  /\ lesson[b] = "closed"
  /\ lesson' = [lesson EXCEPT ![b] = "archived"]
  /\ UNCHANGED <<today, cohorts, enrolled, student, group, loose, request>>

\* The cron pass deletes the row of a hold that expired.
HoldExpires(b) ==
  /\ lesson[b] = "pending" /\ ~Paying(b)
  /\ lesson'  = [lesson EXCEPT ![b] = "none"]
  /\ student' = [student EXCEPT ![b] = None]
  /\ group'   = [group EXCEPT ![b] = None]
  /\ loose'   = [loose EXCEPT ![b] = FALSE]
  /\ UNCHANGED <<today, cohorts, enrolled, request>>

\* A staff edit of the status or the payment does not look at the cohort.
EditStatus(b, st) ==
  /\ lesson[b] \notin {"none", st} /\ ~Paying(b)
  /\ lesson' = [lesson EXCEPT ![b] = st]
  /\ loose'  = [loose EXCEPT ![b] = (st = "confirmed")]
  /\ UNCHANGED <<today, cohorts, enrolled, student, group, request>>

\* A staff edit of the schedule enrols in the cohort given, and leaves the
\* enrolment in the one before.
EditGroup(b, c) ==
  /\ lesson[b] \notin {"none", "archived"} /\ ~Paying(b)
  /\ cohort[c] = "open"
  /\ EnsureEnrolled(c, student[b], enrolled[c])
  /\ group' = [group EXCEPT ![b] = c]
  /\ loose' = [loose EXCEPT ![b] = FALSE]
  /\ UNCHANGED <<today, cohorts, lesson, student, request>>

-----------------------------------------------------------------------------

CohortNext ==
  \E c \in Cohorts :
    \/ RemoveCohort(c) \/ \E d \in Days : Complete(c, d)
    \/ \E st \in {"open", "shut"} : SetStatus(c, st)
    \/ \E n \in Seats, p \in Plans :
         \/ \E st \in {"open", "shut"} : CreateCohort(c, n, p, st)
         \/ \E r \in Requests : BeginUpdate(r, c, n, p)

StudentNext ==
  \/ \E r \in Requests, s \in Students, c \in Cohorts : CheckGroup(r, s, c) \/ BeginCredit(r, s, c)
  \/ \E r \in Requests, b \in Bookings : BookToPay(r, b) \/ FinishCredit(r, b) \/ BeginPay(r, b)
  \/ \E r \in Requests : FinishPay(r) \/ ReadInstructors(r) \/ FinishUpdate(r)
  \/ \E b \in Bookings : HoldExpires(b) \/ Close(b, "closed")

StaffNext ==
  \/ \E c \in Cohorts, s \in Students :
       Enroll(c, s) \/ \E b \in Bookings, st \in {"pending", "confirmed"} : StaffBook(b, s, c, st)
  \/ \E b \in Bookings :
       \/ Close(b, "archived") \/ ArchiveClosed(b)
       \/ \E st \in {"pending", "confirmed", "closed"} : EditStatus(b, st)
       \/ \E c \in Cohorts : EditGroup(b, c)

Next == NextDay \/ CohortNext \/ StudentNext \/ StaffNext

Spec == Init /\ [][Next]_vars

-----------------------------------------------------------------------------
(* Properties.                                                             *)

\* A session that is past or completed stays as long as its cohort, whatever
\* plan staff give the cohort (syncSessionsForCohort).
HistoryKept ==
  [][\A c \in Cohorts, d \in Days :
       Exists(c)' /\ sessions[c][d] # "none" /\ (d < today \/ sessions[c][d] = "completed")
         => sessions'[c][d] # "none"]_vars

\* No session to come is taken from a student who is enrolled ("Cannot remove
\* future sessions while students are enrolled"), but by the end of an update
\* that read the instructors before the student was enrolled.
SessionsToComeKept ==
  [][\A c \in Cohorts, d \in Days :
       Exists(c)' /\ enrolled[c] # {} /\ sessions[c][d] # "none" =>
         \/ sessions'[c][d] # "none"
         \/ \E r \in Requests :
              /\ request[r].do = "read" /\ request'[r] = Idle
              /\ request[r].cohort = c /\ request[r].view = {}]_vars

\* A student is enrolled only where a seat is free, whoever races for it
\* ("Cohort is full"), but by the end of a credit booking that read before the
\* last seat was taken.
EnrolmentFits ==
  [][\A c \in Cohorts :
       ~(enrolled'[c] \subseteq enrolled[c]) =>
         \/ Cardinality(enrolled'[c]) <= seats[c]
         \/ \E r \in Requests :
              /\ request[r].do = "credit" /\ request'[r] = Idle
              /\ request[r].cohort = c /\ Cardinality(request[r].view) < seats[c]]_vars

\* A confirmed booking has its student enrolled, even if he paid while the
\* cohort filled up or staff moved him, unless the cohort was removed, staff set
\* the status by hand, another booking of the student gave up the enrolment the
\* two share, or a credit booking found him enrolled already and rests on that
\* (completePracticalStudentPayment, ensureEnrolledInTx).
ConfirmedIsEnrolled ==
  \A b \in Bookings : lesson[b] = "confirmed" /\ ~loose[b] =>
    ~Exists(group[b]) \/ student[b] \in enrolled[group[b]]

=============================================================================
