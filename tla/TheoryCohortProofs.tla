-------------------------- MODULE TheoryCohortProofs --------------------------
(***************************************************************************)
(* Proofs about TheoryCohort for any cohorts, students, bookings, requests *)
(* and plans.  The inductive invariant adds to the types that groups were  *)
(* created, that a booking is paid by one request at a time, and that a    *)
(* booking being paid already rests on an enrolment.                       *)
(***************************************************************************)
EXTENDS TheoryCohort, FiniteSetTheorems, TLAPS

\* TypeOK in parts; a booking that exists has its student.
CohortsOK ==
  /\ today \in Days
  /\ cohort \in [Cohorts -> {"none", "open", "shut", "removed"}]
  /\ seats \in [Cohorts -> Seats \cup {0}]
  /\ plan \in [Cohorts -> Plans \cup {None}]
  /\ sessions \in [Cohorts -> [Days -> {"none", "scheduled", "completed"}]]
  /\ enrolled \in [Cohorts -> SUBSET Students]
  /\ \A c \in Cohorts : cohort[c] \notin {"open", "shut"} => enrolled[c] = {}

BookingsOK ==
  /\ lesson \in [Bookings -> {"none", "pending", "confirmed", "closed", "archived"}]
  /\ student \in [Bookings -> Students \cup {None}]
  /\ group \in [Bookings -> Cohorts \cup {None}]
  /\ loose \in [Bookings -> BOOLEAN]
  /\ \A b \in Bookings : lesson[b] # "none" => student[b] \in Students

RequestOK == request \in [Requests -> RequestStates]

\* Nobody names a cohort before it is created.
GroupsMade ==
  /\ \A b \in Bookings : group[b] \in Cohorts => cohort[group[b]] # "none"
  /\ \A r \in Requests : request[r].do \in {"book", "credit"} => cohort[request[r].cohort] # "none"

\* What a confirmed booking rests on.
Rests(b) == loose[b] \/ ~Exists(group[b]) \/ student[b] \in enrolled[group[b]]

\* A booking being paid is pending, is paid once, and rests on an enrolment.
PaidOnce ==
  /\ \A r \in Requests : request[r].do = "pay" =>
       lesson[request[r].booking] = "pending" /\ Rests(request[r].booking)
  /\ \A r, q \in Requests :
       request[r].do = "pay" /\ request[q].do = "pay" /\ request[r].booking = request[q].booking => r = q

IInv == CohortsOK /\ BookingsOK /\ RequestOK /\ GroupsMade /\ PaidOnce /\ ConfirmedIsEnrolled

LEMMA TypesJoin == CohortsOK /\ BookingsOK /\ RequestOK => TypeOK
BY DEF TypeOK, CohortsOK, BookingsOK, RequestOK

LEMMA NoneIsApart == None \notin Students /\ None \notin Cohorts
BY StudentsAssumption

-----------------------------------------------------------------------------
(* Sessions and enrolments.                                                *)

LEMMA SyncedIsTyped ==
  ASSUME CohortsOK, NEW c \in Cohorts, NEW p, NEW taken \in BOOLEAN
  PROVE  Synced(c, p, taken) \in [Days -> {"none", "scheduled", "completed"}]
BY DEF CohortsOK, Synced

\* A sync keeps what is past or completed, and keeps all if somebody is enrolled.
LEMMA SyncKeeps ==
  ASSUME CohortsOK, NEW c \in Cohorts, NEW p, NEW taken \in BOOLEAN, Sync(c, p, taken)
  PROVE  /\ sessions' \in [Cohorts -> [Days -> {"none", "scheduled", "completed"}]]
         /\ \A e \in Cohorts \ {c} : sessions'[e] = sessions[e]
         /\ \A d \in Days : sessions[c][d] # "none" /\ (Fixed(c, d) \/ taken) => sessions'[c][d] # "none"
<1>1. CASE UNCHANGED sessions
  BY <1>1 DEF CohortsOK
<1>2. CASE /\ ~(taken /\ Dropped(c, p) # {})
           /\ sessions' = [sessions EXCEPT ![c] = Synced(c, p, taken)]
  <2>1. sessions' \in [Cohorts -> [Days -> {"none", "scheduled", "completed"}]]
    BY <1>2, SyncedIsTyped DEF CohortsOK
  <2>2. sessions'[c] = Synced(c, p, taken) /\ \A e \in Cohorts \ {c} : sessions'[e] = sessions[e]
    BY <1>2 DEF CohortsOK
  <2>3. ASSUME NEW d \in Days, sessions[c][d] # "none", Fixed(c, d) \/ taken
        PROVE  sessions'[c][d] # "none"
    <3>1. d \notin Dropped(c, p)
      BY <1>2, <2>3 DEF Dropped
    <3>2. Synced(c, p, taken)[d] = sessions[c][d]
      BY <2>3, <3>1 DEF Synced
    <3> QED BY <2>2, <2>3, <3>2
  <2> QED BY <2>1, <2>2, <2>3
<1> QED BY <1>1, <1>2 DEF Sync

\* Enrolling a student enrols no other and takes nobody out.
LEMMA EnsureStep ==
  ASSUME CohortsOK, NEW c \in Cohorts, NEW s \in Students, NEW view \in SUBSET Students,
         EnsureEnrolled(c, s, view)
  PROVE  /\ enrolled' \in [Cohorts -> SUBSET Students]
         /\ cohort[c] \in {"open", "shut"}
         /\ \A e \in Cohorts : enrolled[e] \subseteq enrolled'[e] /\ (e # c => enrolled'[e] = enrolled[e])
         /\ s \notin view => s \in enrolled'[c]
         /\ view = enrolled[c] => s \in enrolled'[c]
         /\ enrolled'[c] # enrolled[c] => enrolled'[c] = enrolled[c] \cup {s} /\ ~Full(c, view)
BY DEF CohortsOK, EnsureEnrolled, Exists

\* One student more fits below the number of seats.
LEMMA OneMoreFits ==
  ASSUME CohortsOK, NEW c \in Cohorts, NEW s \in Students, ~Full(c, enrolled[c])
  PROVE  Cardinality(enrolled[c] \cup {s}) <= seats[c]
<1>1. IsFiniteSet(enrolled[c])
  BY StudentsAssumption, FS_Subset DEF CohortsOK
<1>2. Cardinality(enrolled[c]) \in Nat
  BY <1>1, FS_CardinalityType
<1>3. seats[c] \in Nat
  <2>1. seats[c] \in Seats \cup {0}
    BY DEF CohortsOK
  <2>2. Seats \subseteq Nat
    BY SeatsAssumption
  <2>3. CASE seats[c] \in Seats
    BY <2>2, <2>3, Zenon
  <2>4. CASE seats[c] = 0
    BY <2>4
  <2> QED BY <2>1, <2>3, <2>4, Zenon
<1>4. Cardinality(enrolled[c] \cup {s}) \in {Cardinality(enrolled[c]), Cardinality(enrolled[c]) + 1}
  BY <1>1, FS_AddElement
<1> QED BY <1>2, <1>3, <1>4 DEF Full

-----------------------------------------------------------------------------
(* Steps that leave the bookings alone.                                    *)

\* Students are enrolled, cohorts made or removed; no booking is written, no
\* payment begun or ended.
LEMMA CohortStep ==
  ASSUME IInv, UNCHANGED bookings, CohortsOK', RequestOK', GroupsMade',
         \A r \in Requests : request'[r] = request[r] \/ (request'[r].do # "pay" /\ request[r].do # "pay"),
         \A c \in Cohorts : cohort[c] = "removed" => cohort'[c] = "removed",
         \A c \in Cohorts : enrolled[c] \subseteq enrolled'[c] \/ cohort'[c] = "removed"
  PROVE  IInv'
<1> USE NoneIsApart DEF bookings
<1>1. BookingsOK'
  BY DEF IInv, BookingsOK
<1>2. ASSUME NEW b \in Bookings, Rests(b)
      PROVE  Rests(b)'
  <2>1. group[b] \in Cohorts => cohort[group[b]] # "none"
    BY DEF IInv, GroupsMade
  <2> QED BY <1>2, <2>1 DEF IInv, CohortsOK, BookingsOK, Rests, Exists
<1>3. ConfirmedIsEnrolled'
  <2>1. \A b \in Bookings : lesson[b] = "confirmed" => Rests(b)
    BY DEF IInv, ConfirmedIsEnrolled, Rests
  <2> QED BY <1>2, <2>1 DEF ConfirmedIsEnrolled, Rests
<1>4. PaidOnce'
  <2>1. \A r \in Requests : request'[r].do = "pay" => request'[r] = request[r] /\ request[r].booking \in Bookings
    BY DEF IInv, RequestOK, RequestStates
  <2> QED BY <1>2, <2>1 DEF IInv, PaidOnce
<1> QED BY <1>1, <1>3, <1>4 DEF IInv

\* A cohort that was created never is as if it had not been.
LEMMA GroupsKept ==
  ASSUME IInv, UNCHANGED <<group, request>>,
         \A c \in Cohorts : cohort[c] # "none" => cohort'[c] # "none"
  PROVE  GroupsMade'
<1>1. \A r \in Requests : request[r].do \in {"book", "credit"} => request[r].cohort \in Cohorts
  BY DEF IInv, RequestOK, RequestStates
<1> QED BY <1>1 DEF IInv, GroupsMade

\* Time, the cron pass, staff who keep the cohorts.
LEMMA KeepStep ==
  ASSUME IInv, NextDay \/ CohortNext
  PROVE  IInv'
<1> USE DEF cohorts, bookings
<1>1. CASE NextDay
  <2>1. CohortsOK' /\ RequestOK' /\ GroupsMade'
    BY <1>1, CalendarAssumption DEF NextDay, IInv, CohortsOK, RequestOK, GroupsMade, Days
  <2> QED BY <1>1, <2>1, CohortStep DEF NextDay
<1>2. ASSUME NEW c \in Cohorts, NEW d \in Days, Complete(c, d)
      PROVE  IInv'
  <2>1. CohortsOK' /\ RequestOK' /\ GroupsMade'
    BY <1>2 DEF Complete, IInv, CohortsOK, RequestOK, GroupsMade
  <2> QED BY <1>2, <2>1, CohortStep DEF Complete
<1>3. ASSUME NEW c \in Cohorts, NEW st \in {"open", "shut"}, SetStatus(c, st)
      PROVE  IInv'
  <2>1. sessions' \in [Cohorts -> [Days -> {"none", "scheduled", "completed"}]]
    BY <1>3, SyncKeeps DEF SetStatus, IInv
  <2>2. CohortsOK' /\ RequestOK'
    BY <1>3, <2>1 DEF SetStatus, IInv, CohortsOK, RequestOK, Exists
  <2>3. GroupsMade'
    BY <1>3, GroupsKept DEF SetStatus, IInv, CohortsOK
  <2> QED BY <1>3, <2>2, <2>3, CohortStep DEF SetStatus, Exists, IInv, CohortsOK
<1>4. ASSUME NEW c \in Cohorts, NEW n \in Seats, NEW p \in Plans, NEW st \in {"open", "shut"},
             CreateCohort(c, n, p, st)
      PROVE  IInv'
  <2>1. sessions' \in [Cohorts -> [Days -> {"none", "scheduled", "completed"}]]
    BY <1>4, SyncKeeps DEF CreateCohort, IInv
  <2>2. CohortsOK' /\ RequestOK'
    BY <1>4, <2>1 DEF CreateCohort, IInv, CohortsOK, RequestOK
  <2>3. GroupsMade'
    BY <1>4, GroupsKept DEF CreateCohort, IInv, CohortsOK
  <2> QED BY <1>4, <2>2, <2>3, CohortStep DEF CreateCohort, IInv, CohortsOK
<1>5. ASSUME NEW c \in Cohorts, RemoveCohort(c)
      PROVE  IInv'
  <2>1. CohortsOK' /\ RequestOK'
    BY <1>5 DEF RemoveCohort, IInv, CohortsOK, RequestOK
  <2>2. GroupsMade'
    BY <1>5 DEF RemoveCohort, IInv, CohortsOK, GroupsMade
  <2> QED BY <1>5, <2>1, <2>2, CohortStep DEF RemoveCohort, IInv, CohortsOK
<1>6. ASSUME NEW c \in Cohorts, NEW n \in Seats, NEW p \in Plans, NEW r \in Requests, BeginUpdate(r, c, n, p)
      PROVE  IInv'
  <2>1. RequestOK'
    BY <1>6 DEF BeginUpdate, IInv, RequestOK, RequestStates
  <2>2. /\ request'[r].do = "update" /\ request[r].do = "idle"
        /\ \A q \in Requests \ {r} : request'[q] = request[q]
    BY <1>6 DEF BeginUpdate, IInv, RequestOK, Idle
  <2>3. CohortsOK' /\ GroupsMade'
    BY <1>6, <2>2 DEF BeginUpdate, IInv, CohortsOK, GroupsMade
  <2> QED BY <1>6, <2>1, <2>2, <2>3, CohortStep DEF BeginUpdate, IInv, CohortsOK
<1> QED BY <1>1, <1>2, <1>3, <1>4, <1>5, <1>6 DEF CohortNext


\* What a booking needs is checked, or read.
LEMMA RequestStep ==
  ASSUME IInv, NEW r \in Requests, NEW s \in Students, NEW c \in Cohorts,
         CheckGroup(r, s, c) \/ BeginCredit(r, s, c)
  PROVE  IInv'
<1> USE DEF cohorts, bookings
<1>1. CASE CheckGroup(r, s, c)
  <2>1. /\ request' = [request EXCEPT ![r] = [do |-> "book", cohort |-> c, student |-> s]]
        /\ request[r] = Idle /\ cohort[c] = "open"
    BY <1>1 DEF CheckGroup
  <2>2. CohortsOK' /\ RequestOK' /\ GroupsMade'
    BY <1>1, <2>1 DEF CheckGroup, IInv, CohortsOK, RequestOK, RequestStates, GroupsMade
  <2> QED BY <1>1, <2>1, <2>2, CohortStep DEF CheckGroup, IInv, CohortsOK, RequestOK, Idle
<1>2. CASE BeginCredit(r, s, c)
  <2>1. /\ request' = [request EXCEPT ![r] =
                        [do |-> "credit", cohort |-> c, student |-> s, view |-> enrolled[c]]]
        /\ request[r].do # "pay" /\ cohort[c] # "none"
    BY <1>2 DEF BeginCredit, IInv, GroupsMade, Idle
  <2>2. CohortsOK' /\ RequestOK' /\ GroupsMade'
    BY <1>2, <2>1 DEF BeginCredit, IInv, CohortsOK, RequestOK, RequestStates, GroupsMade
  <2> QED BY <1>2, <2>1, <2>2, CohortStep DEF BeginCredit, IInv, CohortsOK, RequestOK
<1> QED BY <1>1, <1>2

\* Staff update a cohort.
LEMMA UpdateStep ==
  ASSUME IInv, NEW r \in Requests, ReadInstructors(r) \/ FinishUpdate(r)
  PROVE  IInv'
<1> USE DEF cohorts, bookings
<1>1. CASE ReadInstructors(r)
  <2>1. PICK e \in Cohorts, n \in Seats, p \in Plans :
          request[r].cohort = e /\ request[r].seats = n /\ request[r].plan = p
    BY <1>1 DEF ReadInstructors, IInv, RequestOK, RequestStates
  <2>2. /\ request' = [request EXCEPT ![r] =
                        [do |-> "read", cohort |-> e, seats |-> n, plan |-> p, view |-> enrolled[e]]]
        /\ request[r].do = "update"
    BY <1>1, <2>1 DEF ReadInstructors
  <2>3. CohortsOK' /\ RequestOK' /\ GroupsMade'
    BY <1>1, <2>2 DEF ReadInstructors, IInv, CohortsOK, RequestOK, RequestStates, GroupsMade
  <2> QED BY <1>1, <2>2, <2>3, CohortStep DEF ReadInstructors, IInv, CohortsOK, RequestOK
<1>2. CASE FinishUpdate(r)
  <2>1. PICK e \in Cohorts, n \in Seats, p \in Plans :
          request[r].cohort = e /\ request[r].seats = n /\ request[r].plan = p
    BY <1>2 DEF FinishUpdate, IInv, RequestOK, RequestStates
  <2>2. sessions' \in [Cohorts -> [Days -> {"none", "scheduled", "completed"}]]
    BY <1>2, <2>1, SyncKeeps DEF FinishUpdate, IInv, CohortsOK
  <2>3. CohortsOK' /\ RequestOK' /\ GroupsMade'
    BY <1>2, <2>1, <2>2 DEF FinishUpdate, IInv, CohortsOK, RequestOK, RequestStates, Idle, GroupsMade
  <2> QED BY <1>2, <2>3, CohortStep DEF FinishUpdate, IInv, CohortsOK, RequestOK, Idle
<1> QED BY <1>1, <1>2

\* Staff enrol a student.
LEMMA EnrollStep ==
  ASSUME IInv, NEW s \in Students, NEW c \in Cohorts, Enroll(c, s)
  PROVE  IInv'
<1> USE DEF cohorts, bookings
<1>1. EnsureEnrolled(c, s, enrolled[c]) /\ enrolled[c] \in SUBSET Students
  BY DEF Enroll, IInv, CohortsOK
<1>2. CohortsOK' /\ RequestOK' /\ GroupsMade'
  BY <1>1, EnsureStep DEF Enroll, IInv, CohortsOK, RequestOK, GroupsMade
<1> QED BY <1>1, <1>2, EnsureStep, CohortStep DEF Enroll, IInv

-----------------------------------------------------------------------------
(* Steps that write a booking.                                             *)

\* Nobody loses an enrolment, and of the bookings b alone is written: it is no
\* booking being paid, and if it is confirmed it rests on an enrolment.
LEMMA BookingStep ==
  ASSUME IInv, NEW b \in Bookings, ~Paying(b), UNCHANGED <<today, cohorts>>,
         BookingsOK', RequestOK', enrolled' \in [Cohorts -> SUBSET Students],
         \A c \in Cohorts : enrolled[c] \subseteq enrolled'[c] /\ (~Exists(c) => enrolled'[c] = enrolled[c]),
         \A r \in Requests : request'[r] = request[r] \/ (request[r].do # "pay" /\ request'[r] = Idle),
         \A q \in Bookings \ {b} :
           lesson'[q] = lesson[q] /\ student'[q] = student[q] /\ group'[q] = group[q] /\ loose'[q] = loose[q],
         group'[b] \in Cohorts => cohort[group'[b]] # "none",
         lesson'[b] = "confirmed" => Rests(b)'
  PROVE  IInv'
<1> USE NoneIsApart DEF cohorts
<1>1. CohortsOK'
  BY DEF IInv, CohortsOK, Exists
<1>2. GroupsMade'
  BY DEF IInv, GroupsMade, Idle
<1>3. ASSUME NEW q \in Bookings \ {b}, Rests(q)
      PROVE  Rests(q)'
  BY <1>3 DEF Rests, Exists, IInv, BookingsOK
<1>4. ConfirmedIsEnrolled'
  <2>1. \A q \in Bookings : lesson[q] = "confirmed" => Rests(q)
    BY DEF IInv, ConfirmedIsEnrolled, Rests
  <2>2. \A q \in Bookings : lesson'[q] = "confirmed" => Rests(q)'
    BY <1>3, <2>1
  <2> QED BY <2>2 DEF ConfirmedIsEnrolled, Rests
<1>5. PaidOnce'
  <2>1. ASSUME NEW r \in Requests, request'[r].do = "pay"
        PROVE  request'[r] = request[r] /\ request[r].booking \in Bookings \ {b}
    BY <2>1 DEF Paying, Idle, IInv, RequestOK, RequestStates
  <2> QED BY <1>3, <2>1 DEF IInv, PaidOnce
<1> QED BY <1>1, <1>2, <1>4, <1>5 DEF IInv


\* A booking is paid only while it is pending.
LEMMA OnlyPendingIsPaid ==
  ASSUME IInv, NEW b \in Bookings, lesson[b] # "pending"
  PROVE  ~Paying(b)
BY DEF IInv, PaidOnce, Paying

\* A booking is opened.
LEMMA OpenStep ==
  ASSUME IInv, NEW b \in Bookings, NEW s \in Students, NEW c \in Cohorts,
         NEW st \in {"pending", "confirmed"}, NEW rests \in BOOLEAN,
         Open(b, s, c, st, rests), UNCHANGED <<today, cohorts>>, cohort[c] # "none",
         RequestOK', enrolled' \in [Cohorts -> SUBSET Students],
         \A e \in Cohorts : enrolled[e] \subseteq enrolled'[e] /\ (~Exists(e) => enrolled'[e] = enrolled[e]),
         \A r \in Requests : request'[r] = request[r] \/ (request[r].do # "pay" /\ request'[r] = Idle),
         st = "confirmed" /\ ~rests => s \in enrolled'[c]
  PROVE  IInv'
<1>1. /\ lesson'[b] = st /\ student'[b] = s /\ group'[b] = c /\ loose'[b] = rests
      /\ \A q \in Bookings \ {b} :
           lesson'[q] = lesson[q] /\ student'[q] = student[q] /\ group'[q] = group[q] /\ loose'[q] = loose[q]
      /\ BookingsOK'
  BY DEF Open, IInv, BookingsOK
<1>2. ~Paying(b)
  BY OnlyPendingIsPaid DEF Open
<1>3. lesson'[b] = "confirmed" => Rests(b)'
  BY <1>1 DEF Rests
<1> QED BY <1>1, <1>2, <1>3, BookingStep

LEMMA BookStep ==
  ASSUME IInv, NEW r \in Requests, NEW b \in Bookings, BookToPay(r, b) \/ FinishCredit(r, b)
  PROVE  IInv'
<1>1. CASE BookToPay(r, b)
  <2>1. PICK s \in Students, c \in Cohorts :
          s = request[r].student /\ c = request[r].cohort /\ cohort[c] # "none"
    BY <1>1 DEF BookToPay, IInv, RequestOK, RequestStates, GroupsMade
  <2>2. RequestOK' /\ enrolled' \in [Cohorts -> SUBSET Students]
    BY <1>1 DEF BookToPay, IInv, RequestOK, RequestStates, Idle, CohortsOK
  <2>3. \A q \in Requests : request'[q] = request[q] \/ (request[q].do # "pay" /\ request'[q] = Idle)
    BY <1>1 DEF BookToPay, IInv, RequestOK
  <2> QED BY <1>1, <2>1, <2>2, <2>3, OpenStep DEF BookToPay
<1>2. CASE FinishCredit(r, b)
  <2>1. PICK s \in Students, c \in Cohorts, view \in SUBSET Students :
          /\ s = request[r].student /\ c = request[r].cohort /\ view = request[r].view
          /\ cohort[c] # "none"
    BY <1>2 DEF FinishCredit, IInv, RequestOK, RequestStates, GroupsMade
  <2>2. RequestOK'
    BY <1>2 DEF FinishCredit, IInv, RequestOK, RequestStates, Idle
  <2>3. \A q \in Requests : request'[q] = request[q] \/ (request[q].do # "pay" /\ request'[q] = Idle)
    BY <1>2 DEF FinishCredit, IInv, RequestOK
  <2>4. CASE EnsureEnrolled(c, s, view) /\ Open(b, s, c, "confirmed", s \in view)
    <3>1. /\ enrolled' \in [Cohorts -> SUBSET Students]
          /\ \A e \in Cohorts : enrolled[e] \subseteq enrolled'[e] /\ (~Exists(e) => enrolled'[e] = enrolled[e])
          /\ s \notin view => s \in enrolled'[c]
      BY <2>4, EnsureStep DEF IInv, Exists
    <3>2. UNCHANGED <<today, cohorts>>
      BY <1>2 DEF FinishCredit
    <3>3. CASE s \in view
      <4>1. (s \in view) = TRUE
        BY <3>3, Zenon
      <4>2. Open(b, s, c, "confirmed", TRUE)
        BY <2>4, <4>1, Zenon
      <4> QED BY <2>1, <2>2, <2>3, <3>1, <3>2, <4>2, OpenStep
    <3>4. CASE s \notin view
      <4>1. (s \in view) = FALSE
        BY <3>4
      <4>2. Open(b, s, c, "confirmed", FALSE)
        BY <2>4, <4>1, Zenon
      <4> QED BY <2>1, <2>2, <2>3, <3>1, <3>2, <3>4, <4>2, OpenStep
    <3> QED BY <3>3, <3>4
  <2>5. CASE UNCHANGED <<enrolled, bookings>>
    <3>1. CohortsOK' /\ GroupsMade'
      BY <1>2, <2>3, <2>5 DEF FinishCredit, cohorts, bookings, IInv, CohortsOK, GroupsMade, Idle
    <3> QED BY <1>2, <2>2, <2>3, <2>5, <3>1, CohortStep DEF FinishCredit, cohorts, IInv, CohortsOK, Idle
  <2> QED BY <1>2, <2>1, <2>4, <2>5 DEF FinishCredit
<1> QED BY <1>1, <1>2

LEMMA StaffBookStep ==
  ASSUME IInv, NEW b \in Bookings, NEW s \in Students, NEW c \in Cohorts,
         NEW st \in {"pending", "confirmed"}, StaffBook(b, s, c, st)
  PROVE  IInv'
<1>1. enrolled[c] \in SUBSET Students /\ cohort[c] # "none" /\ RequestOK'
  BY DEF StaffBook, IInv, CohortsOK, RequestOK
<1>2. /\ enrolled' \in [Cohorts -> SUBSET Students] /\ s \in enrolled'[c]
      /\ \A e \in Cohorts : enrolled[e] \subseteq enrolled'[e] /\ (~Exists(e) => enrolled'[e] = enrolled[e])
  BY <1>1, EnsureStep DEF StaffBook, IInv, Exists
<1> QED BY <1>1, <1>2, OpenStep DEF StaffBook

\* A closed booking is archived.
LEMMA ArchiveStep ==
  ASSUME IInv, NEW b \in Bookings, ArchiveClosed(b)
  PROVE  IInv'
<1> USE NoneIsApart
<1>1. ~Paying(b)
  BY OnlyPendingIsPaid DEF ArchiveClosed
<1>2. BookingsOK' /\ RequestOK' /\ enrolled' \in [Cohorts -> SUBSET Students]
  BY DEF ArchiveClosed, IInv, BookingsOK, RequestOK, CohortsOK
<1>3. lesson'[b] = "archived" /\ \A q \in Bookings \ {b} : lesson'[q] = lesson[q]
  BY DEF ArchiveClosed, IInv, BookingsOK
<1>4. group'[b] \in Cohorts => cohort[group'[b]] # "none"
  BY DEF ArchiveClosed, IInv, GroupsMade
<1> QED BY <1>1, <1>2, <1>3, <1>4, BookingStep DEF ArchiveClosed

\* A hold expires.
LEMMA ExpiryStep ==
  ASSUME IInv, NEW b \in Bookings, HoldExpires(b)
  PROVE  IInv'
<1> USE NoneIsApart
<1>1. BookingsOK' /\ RequestOK' /\ enrolled' \in [Cohorts -> SUBSET Students]
  BY DEF HoldExpires, IInv, BookingsOK, RequestOK, CohortsOK
<1>2. /\ lesson'[b] = "none" /\ group'[b] = None
      /\ \A q \in Bookings \ {b} :
           lesson'[q] = lesson[q] /\ student'[q] = student[q] /\ group'[q] = group[q] /\ loose'[q] = loose[q]
  BY DEF HoldExpires, IInv, BookingsOK
<1> QED BY <1>1, <1>2, BookingStep DEF HoldExpires

\* Staff write the status.
LEMMA EditStep ==
  ASSUME IInv, NEW b \in Bookings, NEW st \in {"pending", "confirmed", "closed"}, EditStatus(b, st)
  PROVE  IInv'
<1> USE NoneIsApart
<1>1. BookingsOK' /\ RequestOK' /\ enrolled' \in [Cohorts -> SUBSET Students]
  BY DEF EditStatus, IInv, BookingsOK, RequestOK, CohortsOK
<1>2. /\ lesson'[b] = st /\ loose'[b] = (st = "confirmed")
      /\ \A q \in Bookings \ {b} : lesson'[q] = lesson[q] /\ loose'[q] = loose[q]
  BY DEF EditStatus, IInv, BookingsOK
<1>3. lesson'[b] = "confirmed" => Rests(b)'
  BY <1>2 DEF Rests
<1>4. group'[b] \in Cohorts => cohort[group'[b]] # "none"
  BY DEF EditStatus, IInv, GroupsMade
<1> QED BY <1>1, <1>2, <1>3, <1>4, BookingStep DEF EditStatus

\* Staff move a booking to a cohort.
LEMMA RegroupStep ==
  ASSUME IInv, NEW b \in Bookings, NEW c \in Cohorts, EditGroup(b, c)
  PROVE  IInv'
<1> USE NoneIsApart
<1>1. student[b] \in Students
  BY DEF EditGroup, IInv, BookingsOK
<1>2. enrolled[c] \in SUBSET Students /\ cohort[c] # "none" /\ RequestOK'
  BY DEF EditGroup, IInv, CohortsOK, RequestOK
<1>3. /\ enrolled' \in [Cohorts -> SUBSET Students] /\ student[b] \in enrolled'[c]
      /\ \A e \in Cohorts : enrolled[e] \subseteq enrolled'[e] /\ (~Exists(e) => enrolled'[e] = enrolled[e])
  BY <1>1, <1>2, EnsureStep DEF EditGroup, IInv, Exists
<1>4. /\ BookingsOK' /\ group'[b] = c
      /\ \A q \in Bookings \ {b} : group'[q] = group[q] /\ loose'[q] = loose[q]
  BY DEF EditGroup, IInv, BookingsOK
<1>5. Rests(b)'
  BY <1>3, <1>4 DEF EditGroup, Rests
<1> QED BY <1>2, <1>3, <1>4, <1>5, BookingStep DEF EditGroup

\* A payment begins: it enrols the student, or finds that the cohort is gone.
LEMMA BeginPayStep ==
  ASSUME IInv, NEW r \in Requests, NEW b \in Bookings, BeginPay(r, b)
  PROVE  IInv'
<1> USE NoneIsApart
<1> DEFINE c == group[b]
<1>1. c \in Cohorts /\ student[b] \in Students /\ enrolled[c] \in SUBSET Students
  BY DEF BeginPay, IInv, BookingsOK, CohortsOK
<1>2. /\ enrolled' \in [Cohorts -> SUBSET Students]
      /\ \A e \in Cohorts : enrolled[e] \subseteq enrolled'[e] /\ (~Exists(e) => enrolled'[e] = enrolled[e])
      /\ ~Exists(c) \/ student[b] \in enrolled'[c]
  <2>1. CASE EnsureEnrolled(c, student[b], enrolled[c])
    BY <1>1, <2>1, EnsureStep DEF IInv, Exists
  <2>2. CASE ~Exists(c) /\ UNCHANGED enrolled
    BY <2>2 DEF IInv, CohortsOK
  <2> QED BY <2>1, <2>2 DEF BeginPay, EnrolPayer
<1>3. /\ request'[r] = [do |-> "pay", booking |-> b]
      /\ request[r].do = "idle"
      /\ \A q \in Requests \ {r} : request'[q] = request[q]
      /\ RequestOK'
  BY DEF BeginPay, IInv, RequestOK, RequestStates, Idle
<1>4. /\ \A q \in Bookings \ {b} : loose'[q] = loose[q]
      /\ BookingsOK'
  BY DEF BeginPay, IInv, BookingsOK
<1>5. CohortsOK' /\ GroupsMade'
  BY <1>2, <1>3 DEF BeginPay, cohorts, IInv, CohortsOK, GroupsMade, Exists
<1>6. ASSUME NEW q \in Bookings, Rests(q) \/ q = b
      PROVE  Rests(q)'
  <2>1. CASE q = b
    BY <1>2, <2>1 DEF BeginPay, cohorts, Rests, Exists
  <2>2. CASE q # b /\ Rests(q)
    BY <1>2, <1>4, <2>2 DEF BeginPay, cohorts, Rests, Exists, IInv, BookingsOK
  <2> QED BY <1>6, <2>1, <2>2
<1>7. ConfirmedIsEnrolled'
  <2>1. \A q \in Bookings : lesson[q] = "confirmed" => Rests(q)
    BY DEF IInv, ConfirmedIsEnrolled, Rests
  <2>2. \A q \in Bookings : lesson'[q] = "confirmed" => Rests(q)'
    BY <1>6, <2>1 DEF BeginPay
  <2> QED BY <2>2 DEF ConfirmedIsEnrolled, Rests
<1>8. PaidOnce'
  <2>1. \A q \in Requests : request[q].do = "pay" => request[q].booking \in Bookings \ {b}
    BY DEF BeginPay, Paying, IInv, RequestOK, RequestStates
  <2>2. ASSUME NEW q \in Requests, request'[q].do = "pay"
        PROVE  (lesson[request[q].booking] = "pending" /\ Rests(request[q].booking))'
    <3>1. CASE q = r
      BY <1>3, <1>6, <3>1 DEF BeginPay, Rests
    <3>2. CASE q # r
      <4>1. request'[q] = request[q] /\ request[q].do = "pay" /\ request[q].booking \in Bookings
        BY <1>3, <2>1, <2>2, <3>2
      <4>2. lesson[request[q].booking] = "pending" /\ Rests(request[q].booking)
        BY <4>1 DEF IInv, PaidOnce
      <4> QED BY <1>6, <4>1, <4>2 DEF BeginPay, Rests
    <3> QED BY <3>1, <3>2
  <2>3. \A q, p \in Requests :
          request'[q].do = "pay" /\ request'[p].do = "pay" /\ request'[q].booking = request'[p].booking => q = p
    BY <1>3, <2>1 DEF IInv, PaidOnce
  <2> QED BY <2>2, <2>3 DEF PaidOnce
<1> QED BY <1>3, <1>4, <1>5, <1>7, <1>8 DEF IInv

\* A payment ends: what it confirms already rested on an enrolment.
LEMMA FinishPayStep ==
  ASSUME IInv, NEW r \in Requests, FinishPay(r)
  PROVE  IInv'
<1> DEFINE b == request[r].booking
<1>1. b \in Bookings /\ lesson[b] = "pending" /\ Rests(b)
  BY DEF FinishPay, IInv, RequestOK, RequestStates, PaidOnce
<1>2. /\ request'[r] = Idle /\ \A q \in Requests \ {r} : request'[q] = request[q]
      /\ RequestOK'
  BY DEF FinishPay, IInv, RequestOK, RequestStates, Idle
<1>3. /\ BookingsOK'
      /\ lesson'[b] \in {"pending", "confirmed"} /\ \A q \in Bookings \ {b} : lesson'[q] = lesson[q]
  BY <1>1 DEF FinishPay, IInv, BookingsOK
<1>4. CohortsOK' /\ GroupsMade'
  BY <1>2 DEF FinishPay, cohorts, IInv, CohortsOK, GroupsMade, Idle
<1>5. \A q \in Bookings : Rests(q) => Rests(q)'
  BY DEF FinishPay, cohorts, Rests, Exists
<1>6. ConfirmedIsEnrolled'
  <2>1. \A q \in Bookings : lesson[q] = "confirmed" => Rests(q)
    BY DEF IInv, ConfirmedIsEnrolled, Rests
  <2>2. \A q \in Bookings : lesson'[q] = "confirmed" => Rests(q)'
    BY <1>1, <1>3, <1>5, <2>1
  <2> QED BY <2>2 DEF ConfirmedIsEnrolled, Rests
<1>7. PaidOnce'
  <2>1. \A q \in Requests : request'[q].do = "pay" =>
          request'[q] = request[q] /\ request[q].booking \in Bookings \ {b}
    BY <1>2 DEF FinishPay, Idle, IInv, RequestOK, RequestStates, PaidOnce
  <2> QED BY <1>3, <1>5, <2>1 DEF IInv, PaidOnce
<1> QED BY <1>2, <1>3, <1>4, <1>6, <1>7 DEF IInv

\* A booking is closed: it gives up its enrolment, and the other bookings of
\* the student in the group no longer count on it.
LEMMA CloseStep ==
  ASSUME IInv, NEW b \in Bookings, NEW st \in {"closed", "archived"}, Close(b, st)
  PROVE  IInv'
<1> USE NoneIsApart
<1>1. /\ BookingsOK' /\ RequestOK'
      /\ lesson'[b] = st /\ group'[b] = None
      /\ \A q \in Bookings \ {b} : lesson'[q] = lesson[q] /\ group'[q] = group[q]
  BY DEF Close, IInv, BookingsOK, RequestOK
<1>2. CohortsOK' /\ GroupsMade'
  BY <1>1 DEF Close, cohorts, IInv, CohortsOK, BookingsOK, GroupsMade
<1>3. ASSUME NEW q \in Bookings \ {b}, Rests(q)
      PROVE  Rests(q)'
  <2>1. loose'[q] <=> (loose[q] \/ (student[q] = student[b] /\ group[q] = group[b]))
    BY DEF Close
  <2>2. CASE loose[q] \/ ~Exists(group[q])
    BY <1>1, <2>1, <2>2 DEF Close, cohorts, Rests, Exists
  <2>3. CASE Exists(group[q]) /\ student[q] \in enrolled[group[q]]
    <3>1. CASE student[q] = student[b] /\ group[q] = group[b]
      BY <2>1, <3>1 DEF Rests
    <3>2. CASE ~(student[q] = student[b] /\ group[q] = group[b])
      <4>1. student[q] \in enrolled'[group[q]]
        BY <2>3, <3>2 DEF Close, Exists
      <4> QED BY <1>1, <4>1 DEF Close, Rests
    <3> QED BY <3>1, <3>2
  <2> QED BY <1>3, <2>2, <2>3 DEF Rests
<1>4. ConfirmedIsEnrolled'
  <2>1. \A q \in Bookings : lesson[q] = "confirmed" => Rests(q)
    BY DEF IInv, ConfirmedIsEnrolled, Rests
  <2>2. \A q \in Bookings : lesson'[q] = "confirmed" => Rests(q)'
    BY <1>1, <1>3, <2>1
  <2> QED BY <2>2 DEF ConfirmedIsEnrolled, Rests
<1>5. PaidOnce'
  <2>1. \A q \in Requests : request[q].do = "pay" => request[q].booking \in Bookings \ {b}
    BY DEF Close, Paying, IInv, RequestOK, RequestStates
  <2> QED BY <1>1, <1>3, <2>1 DEF Close, IInv, PaidOnce
<1> QED BY <1>1, <1>2, <1>4, <1>5 DEF IInv

-----------------------------------------------------------------------------
(* The invariant.                                                          *)

LEMMA Start == Init => IInv
<1> SUFFICES ASSUME Init PROVE IInv
  OBVIOUS
<1> USE NoneIsApart DEF Init
<1>1. CohortsOK
  BY CalendarAssumption DEF CohortsOK, Days
<1>2. BookingsOK /\ RequestOK
  BY DEF BookingsOK, RequestOK, RequestStates, Idle
<1>3. GroupsMade /\ PaidOnce /\ ConfirmedIsEnrolled
  BY DEF GroupsMade, PaidOnce, ConfirmedIsEnrolled, Idle
<1> QED BY <1>1, <1>2, <1>3 DEF IInv

LEMMA Step == IInv /\ [Next]_vars => IInv'
<1> SUFFICES ASSUME IInv, [Next]_vars PROVE IInv'
  OBVIOUS
<1>1. CASE NextDay \/ CohortNext
  BY <1>1, KeepStep
<1>2. CASE StudentNext
  <2>1. CASE \E r \in Requests, s \in Students, c \in Cohorts : CheckGroup(r, s, c) \/ BeginCredit(r, s, c)
    BY <2>1, RequestStep
  <2>2. CASE \E r \in Requests, b \in Bookings : BookToPay(r, b) \/ FinishCredit(r, b) \/ BeginPay(r, b)
    BY <2>2, BookStep, BeginPayStep
  <2>3. CASE \E r \in Requests : FinishPay(r)
    BY <2>3, FinishPayStep
  <2>4. CASE \E r \in Requests : ReadInstructors(r) \/ FinishUpdate(r)
    BY <2>4, UpdateStep
  <2>5. CASE \E b \in Bookings : HoldExpires(b)
    BY <2>5, ExpiryStep
  <2>6. CASE \E b \in Bookings : Close(b, "closed")
    BY <2>6, CloseStep
  <2> QED BY <1>2, <2>1, <2>2, <2>3, <2>4, <2>5, <2>6 DEF StudentNext
<1>3. CASE StaffNext
  <2>1. CASE \E c \in Cohorts, s \in Students :
               Enroll(c, s) \/ \E b \in Bookings, st \in {"pending", "confirmed"} : StaffBook(b, s, c, st)
    BY <2>1, EnrollStep, StaffBookStep
  <2>2. CASE \E b \in Bookings : Close(b, "archived")
    BY <2>2, CloseStep
  <2>3. CASE \E b \in Bookings :
               \/ ArchiveClosed(b) \/ \E st \in {"pending", "confirmed", "closed"} : EditStatus(b, st)
               \/ \E c \in Cohorts : EditGroup(b, c)
    BY <2>3, ArchiveStep, EditStep, RegroupStep
  <2> QED BY <1>3, <2>1, <2>2, <2>3 DEF StaffNext
<1>4. CASE UNCHANGED vars
  BY <1>4 DEF vars, cohorts, bookings, IInv, CohortsOK, BookingsOK, RequestOK, GroupsMade, PaidOnce,
              Rests, Exists, ConfirmedIsEnrolled
<1> QED BY <1>1, <1>2, <1>3, <1>4 DEF Next

\* The invariant holds in every state.
THEOREM Invariance == Spec => []IInv
BY Start, Step, PTL DEF Spec

\* Every state has the shape TypeOK gives: among the rest, nobody is enrolled in
\* a cohort that does not exist (remove deletes the enrolments).
THEOREM TypeCorrect == Spec => []TypeOK
<1>1. IInv => TypeOK
  BY TypesJoin DEF IInv
<1> QED BY <1>1, Invariance, PTL

\* A confirmed booking has its student enrolled, for any number of payments,
\* edits and cancellations in any order (completePracticalStudentPayment).
THEOREM ConfirmedHasSeat == Spec => []ConfirmedIsEnrolled
<1>1. IInv => ConfirmedIsEnrolled
  BY DEF IInv
<1> QED BY <1>1, Invariance, PTL

-----------------------------------------------------------------------------
(* What a step does to the sessions.                                       *)

\* An update of c ends that read the instructors before anybody was enrolled.
EndsOldUpdate(c) ==
  \E r \in Requests :
    /\ request[r].do = "read" /\ request'[r] = Idle
    /\ request[r].cohort = c /\ request[r].view = {}

\* Staff bring the sessions of c to the plan p; students are seen in it, or
\* nobody is enrolled, or the instructors were read before anybody was.
SyncedBy(c) ==
  \E p \in Plans \cup {None} :
    \/ Sync(c, p, TRUE)
    \/ /\ Sync(c, p, FALSE)
       /\ enrolled[c] = {} \/ EndsOldUpdate(c)

LEMMA SyncIsEither ==
  ASSUME NEW c \in Cohorts, NEW p, NEW view, Sync(c, p, view # {})
  PROVE  IF view # {} THEN Sync(c, p, TRUE) ELSE Sync(c, p, FALSE)
<1>1. CASE view # {}
  <2>1. (view # {}) = TRUE
    BY <1>1
  <2>2. Sync(c, p, TRUE)
    BY <2>1, Zenon
  <2> QED BY <1>1, <2>2
<1>2. CASE view = {}
  <2>1. (view # {}) = FALSE
    BY <1>2
  <2>2. Sync(c, p, FALSE)
    BY <2>1, Zenon
  <2> QED BY <1>2, <2>2
<1> QED BY <1>1, <1>2

\* The steps that write sessions.
LEMMA WhoWritesSessions ==
  ASSUME IInv, [Next]_vars
  PROVE  \/ UNCHANGED sessions
         \/ \E c \in Cohorts, d \in Days : Complete(c, d)
         \/ \E c \in Cohorts : RemoveCohort(c) \/ SyncedBy(c)
<1>1. ASSUME NEW c \in Cohorts, NEW st, SetStatus(c, st)
      PROVE  SyncedBy(c)
  <2>1. IF enrolled[c] # {} THEN Sync(c, plan[c], TRUE) ELSE Sync(c, plan[c], FALSE)
    BY <1>1, SyncIsEither DEF SetStatus
  <2>2. plan[c] \in Plans \cup {None}
    BY DEF IInv, CohortsOK
  <2> QED BY <2>1, <2>2 DEF SyncedBy
<1>2. ASSUME NEW c \in Cohorts, NEW n \in Seats, NEW p \in Plans, NEW st, CreateCohort(c, n, p, st)
      PROVE  SyncedBy(c)
  BY <1>2 DEF CreateCohort, SyncedBy, IInv, CohortsOK
<1>3. ASSUME NEW r \in Requests, FinishUpdate(r), ~UNCHANGED sessions
      PROVE  \E c \in Cohorts : SyncedBy(c)
  <2> DEFINE c == request[r].cohort  p == request[r].plan
  <2>1. c \in Cohorts /\ p \in Plans
    BY <1>3 DEF FinishUpdate, IInv, RequestOK, RequestStates
  <2>2. Sync(c, p, Seen(r) # {})
    BY <1>3 DEF FinishUpdate
  <2>3. IF Seen(r) # {} THEN Sync(c, p, TRUE) ELSE Sync(c, p, FALSE)
    BY <2>1, <2>2, SyncIsEither
  <2>4. Seen(r) = {} =>
          enrolled[c] = {} \/ (request[r].do = "read" /\ request[r].cohort = c /\ request[r].view = {})
    BY DEF Seen
  <2>5. request'[r] = Idle
    BY <1>3 DEF FinishUpdate, IInv, RequestOK
  <2>6. Seen(r) = {} => enrolled[c] = {} \/ EndsOldUpdate(c)
    BY <2>4, <2>5 DEF EndsOldUpdate
  <2> QED BY <2>1, <2>3, <2>6 DEF SyncedBy
<1>4. CASE UNCHANGED vars
  BY <1>4 DEF vars, cohorts
<1>5. CASE NextDay
  BY <1>5 DEF NextDay, cohorts
<1>6. CASE CohortNext
  <2>1. \A r \in Requests, c \in Cohorts, n \in Seats, p \in Plans : BeginUpdate(r, c, n, p) => UNCHANGED sessions
    BY DEF BeginUpdate, cohorts
  <2> QED BY <1>1, <1>2, <1>6, <2>1 DEF CohortNext
<1>7. CASE StudentNext
  <2>1. \A r \in Requests, s \in Students, c \in Cohorts :
          CheckGroup(r, s, c) \/ BeginCredit(r, s, c) => UNCHANGED sessions
    BY DEF CheckGroup, BeginCredit, cohorts
  <2>2. \A r \in Requests, b \in Bookings :
          BookToPay(r, b) \/ FinishCredit(r, b) \/ BeginPay(r, b) => UNCHANGED sessions
    BY DEF BookToPay, FinishCredit, BeginPay, cohorts
  <2>3. \A r \in Requests : FinishPay(r) \/ ReadInstructors(r) => UNCHANGED sessions
    BY DEF FinishPay, ReadInstructors, cohorts
  <2>4. \A b \in Bookings : HoldExpires(b) \/ Close(b, "closed") => UNCHANGED sessions
    BY DEF HoldExpires, Close, cohorts
  <2> QED BY <1>3, <1>7, <2>1, <2>2, <2>3, <2>4 DEF StudentNext
<1>8. CASE StaffNext
  <2>1. \A c \in Cohorts, s \in Students : Enroll(c, s) => UNCHANGED sessions
    BY DEF Enroll, cohorts
  <2>2. \A c \in Cohorts, s \in Students, b \in Bookings, st \in {"pending", "confirmed"} :
          StaffBook(b, s, c, st) => UNCHANGED sessions
    BY DEF StaffBook, cohorts
  <2>3. \A b \in Bookings : Close(b, "archived") \/ ArchiveClosed(b) => UNCHANGED sessions
    BY DEF Close, ArchiveClosed, cohorts
  <2>4. \A b \in Bookings, st \in {"pending", "confirmed", "closed"} : EditStatus(b, st) => UNCHANGED sessions
    BY DEF EditStatus, cohorts
  <2>5. \A b \in Bookings, c \in Cohorts : EditGroup(b, c) => UNCHANGED sessions
    BY DEF EditGroup, cohorts
  <2> QED BY <1>8, <2>1, <2>2, <2>3, <2>4, <2>5 DEF StaffNext
<1> QED BY <1>4, <1>5, <1>6, <1>7, <1>8 DEF Next

\* A session is lost with its cohort, or to a plan staff bring the cohort to.
LEMMA LostToASync ==
  ASSUME IInv, [Next]_vars, NEW c \in Cohorts, NEW d \in Days, Exists(c)', sessions[c][d] # "none",
         sessions'[c][d] = "none"
  PROVE  /\ ~Fixed(c, d)
         /\ enrolled[c] = {} \/ EndsOldUpdate(c)
<1>1. ASSUME NEW e \in Cohorts, NEW f \in Days, Complete(e, f)
      PROVE  FALSE
  BY <1>1 DEF Complete, IInv, CohortsOK
<1>2. ASSUME NEW e \in Cohorts, RemoveCohort(e)
      PROVE  FALSE
  BY <1>2 DEF RemoveCohort, Exists, IInv, CohortsOK
<1>3. ASSUME NEW e \in Cohorts, SyncedBy(e)
      PROVE  /\ ~Fixed(c, d)
             /\ enrolled[c] = {} \/ EndsOldUpdate(c)
  <2>1. PICK p \in Plans \cup {None} :
          \/ Sync(e, p, TRUE)
          \/ /\ Sync(e, p, FALSE)
             /\ enrolled[e] = {} \/ EndsOldUpdate(e)
    BY <1>3 DEF SyncedBy
  <2>2. CASE Sync(e, p, TRUE)
    BY <2>2, SyncKeeps DEF IInv
  <2>3. CASE Sync(e, p, FALSE)
    <3>1. c = e /\ ~Fixed(c, d)
      BY <2>3, SyncKeeps DEF IInv
    <3>2. Sync(e, p, TRUE) => FALSE
      BY <3>1, SyncKeeps DEF IInv
    <3> QED BY <2>1, <3>1, <3>2
  <2> QED BY <2>1, <2>2, <2>3
<1> QED BY <1>1, <1>2, <1>3, WhoWritesSessions

\* Past and completed sessions survive every change of plan (syncSessionsForCohort).
THEOREM PastIsKept == Spec => HistoryKept
<1>1. IInv /\ [Next]_vars =>
        [\A c \in Cohorts, d \in Days :
           Exists(c)' /\ sessions[c][d] # "none" /\ (d < today \/ sessions[c][d] = "completed")
             => sessions'[c][d] # "none"]_vars
  BY LostToASync DEF Fixed
<1> QED BY <1>1, Invariance, PTL DEF Spec, HistoryKept

\* No plan takes a session to come from somebody enrolled, but one whose update
\* read the instructors before (syncSessionsForCohort, update).
THEOREM EnrolledKeepSessions == Spec => SessionsToComeKept
<1>1. IInv /\ [Next]_vars =>
        [\A c \in Cohorts, d \in Days :
           Exists(c)' /\ enrolled[c] # {} /\ sessions[c][d] # "none" =>
             \/ sessions'[c][d] # "none"
             \/ \E r \in Requests :
                  /\ request[r].do = "read" /\ request'[r] = Idle
                  /\ request[r].cohort = c /\ request[r].view = {}]_vars
  BY LostToASync DEF EndsOldUpdate
<1> QED BY <1>1, Invariance, PTL DEF Spec, SessionsToComeKept

-----------------------------------------------------------------------------
(* What a step does to the enrolments.                                     *)

\* What EnrolmentFits says of a step.
FitsIn(c) ==
  ~(enrolled'[c] \subseteq enrolled[c]) =>
    \/ Cardinality(enrolled'[c]) <= seats[c]
    \/ \E r \in Requests :
         /\ request[r].do = "credit" /\ request'[r] = Idle
         /\ request[r].cohort = c /\ Cardinality(request[r].view) < seats[c]

\* A transaction that counts what is enrolled enrols where a seat is free.
LEMMA FreshCountFits ==
  ASSUME IInv, NEW e \in Cohorts, NEW s \in Students, EnsureEnrolled(e, s, enrolled[e]), NEW c \in Cohorts
  PROVE  FitsIn(c)
<1>1. CohortsOK /\ enrolled[e] \in SUBSET Students
  BY DEF IInv, CohortsOK
<1>2. enrolled'[c] # enrolled[c] => c = e /\ enrolled'[e] = enrolled[e] \cup {s} /\ ~Full(e, enrolled[e])
  BY <1>1, EnsureStep
<1>3. ~Full(e, enrolled[e]) => Cardinality(enrolled[e] \cup {s}) <= seats[e]
  BY <1>1, OneMoreFits
<1> QED BY <1>2, <1>3 DEF FitsIn

\* A credit booking enrols where it saw a seat free.
LEMMA CreditSawASeat ==
  ASSUME IInv, NEW r \in Requests, NEW b \in Bookings, FinishCredit(r, b), NEW c \in Cohorts
  PROVE  FitsIn(c)
<1>1. PICK s \in Students, e \in Cohorts, view \in SUBSET Students :
        s = request[r].student /\ e = request[r].cohort /\ view = request[r].view
  BY DEF FinishCredit, IInv, RequestOK, RequestStates
<1>2. CASE EnsureEnrolled(e, s, view) /\ enrolled'[c] # enrolled[c]
  <2>1. c = e /\ ~Full(e, view)
    BY <1>2, EnsureStep DEF IInv
  <2>2. Cardinality(view) \in Nat
    BY StudentsAssumption, FS_Subset, FS_CardinalityType
  <2>3. seats[e] \in Nat
    <3>1. seats[e] \in Seats \cup {0}
      BY DEF IInv, CohortsOK
    <3>2. CASE seats[e] \in Seats
      BY SeatsAssumption, <3>2, Zenon
    <3>3. CASE seats[e] = 0
      BY <3>3
    <3> QED BY <3>1, <3>2, <3>3, Zenon
  <2>4. Cardinality(view) < seats[c]
    BY <2>1, <2>2, <2>3 DEF Full
  <2>5. request'[r] = Idle
    BY DEF FinishCredit, IInv, RequestOK
  <2> QED BY <1>1, <2>1, <2>4, <2>5 DEF FinishCredit, FitsIn
<1>3. CASE enrolled'[c] = enrolled[c]
  BY <1>3 DEF FitsIn
<1>4. EnsureEnrolled(e, s, view) \/ UNCHANGED enrolled
  BY <1>1 DEF FinishCredit
<1> QED BY <1>2, <1>3, <1>4

LEMMA EveryStepFits ==
  ASSUME IInv, [Next]_vars, NEW c \in Cohorts
  PROVE  FitsIn(c)
<1>1. CASE UNCHANGED enrolled
  BY <1>1 DEF FitsIn
<1>2. ASSUME NEW r \in Requests, NEW b \in Bookings, BeginPay(r, b)
      PROVE  FitsIn(c)
  <2>1. group[b] \in Cohorts /\ student[b] \in Students
    BY <1>2 DEF BeginPay, IInv, BookingsOK
  <2> QED BY <1>1, <1>2, <2>1, FreshCountFits DEF BeginPay, EnrolPayer
<1>3. ASSUME NEW b \in Bookings, NEW e \in Cohorts, EditGroup(b, e)
      PROVE  FitsIn(c)
  <2>1. student[b] \in Students
    BY <1>3 DEF EditGroup, IInv, BookingsOK
  <2> QED BY <1>3, <2>1, FreshCountFits DEF EditGroup
<1>4. ASSUME NEW e \in Cohorts, NEW s \in Students, Enroll(e, s)
      PROVE  FitsIn(c)
  BY <1>4, FreshCountFits DEF Enroll
<1>5. ASSUME NEW b \in Bookings, NEW s \in Students, NEW e \in Cohorts, NEW st, StaffBook(b, s, e, st)
      PROVE  FitsIn(c)
  BY <1>5, FreshCountFits DEF StaffBook
<1>6. ASSUME NEW b \in Bookings, NEW st, Close(b, st)
      PROVE  FitsIn(c)
  BY <1>6 DEF Close, FitsIn
<1>7. ASSUME NEW e \in Cohorts, RemoveCohort(e)
      PROVE  FitsIn(c)
  BY <1>7 DEF RemoveCohort, FitsIn, IInv, CohortsOK
<1>8. CASE UNCHANGED vars \/ NextDay
  BY <1>1, <1>8 DEF vars, NextDay
<1>9. CASE CohortNext
  <2>1. \A e \in Cohorts, d \in Days : Complete(e, d) => UNCHANGED enrolled
    BY DEF Complete
  <2>2. \A e \in Cohorts, st \in {"open", "shut"} : SetStatus(e, st) => UNCHANGED enrolled
    BY DEF SetStatus
  <2>3. \A e \in Cohorts, n \in Seats, p \in Plans, st \in {"open", "shut"} :
          CreateCohort(e, n, p, st) => UNCHANGED enrolled
    BY DEF CreateCohort
  <2>4. \A e \in Cohorts, n \in Seats, p \in Plans, r \in Requests :
          BeginUpdate(r, e, n, p) => UNCHANGED enrolled
    BY DEF BeginUpdate
  <2> QED BY <1>1, <1>7, <1>9, <2>1, <2>2, <2>3, <2>4 DEF CohortNext
<1>10. CASE StudentNext
  <2>1. \A r \in Requests, s \in Students, e \in Cohorts :
          CheckGroup(r, s, e) \/ BeginCredit(r, s, e) => UNCHANGED enrolled
    BY DEF CheckGroup, BeginCredit
  <2>2. \A r \in Requests, b \in Bookings : BookToPay(r, b) => UNCHANGED enrolled
    BY DEF BookToPay
  <2>3. \A r \in Requests : FinishPay(r) \/ ReadInstructors(r) \/ FinishUpdate(r) => UNCHANGED enrolled
    BY DEF FinishPay, ReadInstructors, FinishUpdate
  <2>4. \A b \in Bookings : HoldExpires(b) => UNCHANGED enrolled
    BY DEF HoldExpires
  <2> QED BY <1>1, <1>2, <1>6, <1>10, <2>1, <2>2, <2>3, <2>4, CreditSawASeat DEF StudentNext
<1>11. CASE StaffNext
  <2>1. \A b \in Bookings : ArchiveClosed(b) => UNCHANGED enrolled
    BY DEF ArchiveClosed
  <2>2. \A b \in Bookings, st \in {"pending", "confirmed", "closed"} : EditStatus(b, st) => UNCHANGED enrolled
    BY DEF EditStatus
  <2> QED BY <1>1, <1>3, <1>4, <1>5, <1>6, <1>11, <2>1, <2>2 DEF StaffNext
<1> QED BY <1>8, <1>9, <1>10, <1>11 DEF Next

\* Nobody is enrolled beyond the seats, for any number of transactions, but by a
\* credit booking whose view showed a seat (ensureEnrolledInTx).
THEOREM SeatsAreFree == Spec => EnrolmentFits
<1>1. IInv /\ [Next]_vars =>
        [\A c \in Cohorts :
           ~(enrolled'[c] \subseteq enrolled[c]) =>
             \/ Cardinality(enrolled'[c]) <= seats[c]
             \/ \E r \in Requests :
                  /\ request[r].do = "credit" /\ request'[r] = Idle
                  /\ request[r].cohort = c /\ Cardinality(request[r].view) < seats[c]]_vars
  BY EveryStepFits DEF FitsIn
<1> QED BY <1>1, Invariance, PTL DEF Spec, EnrolmentFits

=============================================================================
