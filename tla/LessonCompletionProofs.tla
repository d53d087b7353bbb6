------------------------ MODULE LessonCompletionProofs ------------------------
(***************************************************************************)
(* Proofs about LessonCompletion for any bookings, passes and requests.    *)
(* The inductive invariant adds to the types that a pass writes only rows  *)
(* it listed as open; the action property follows from it, one action at   *)
(* a time.                                                                 *)
(***************************************************************************)
EXTENDS LessonCompletion, TLAPS

\* TypeOK in three parts.
BookingsOK ==
  /\ when \in [Bookings -> When]
  /\ lesson \in [Bookings -> Statuses]
  /\ passed \in [Bookings -> Verdicts]
  /\ flag \in [Bookings -> Flags]

PassesOK ==
  /\ stage \in [Passes -> {"idle", "heal", "mark"}]
  /\ left \in [Passes -> SUBSET Bookings]
  /\ row \in [Passes -> [Bookings -> Row]]
  /\ \A p \in Passes : stage[p] = "idle" => left[p] = {}
  /\ \A p \in Passes : stage[p] = "mark" => \A b \in left[p] : Target(row[p][b]) # "scheduled"

RequestsOK ==
  /\ held \in [Requests -> {Idle} \cup [do : {"edit", "verdict"}, booking : Bookings, row : Row]]
  /\ changes \in 0 .. MaxChanges

\* What a pass has still to write was open when it was listed.
ListedOpen == \A p \in Passes : \A b \in left[p] : row[p][b].lesson \in Open

IInv == BookingsOK /\ PassesOK /\ RequestsOK /\ ListedOpen

LEMMA TypesSplit == TypeOK <=> BookingsOK /\ PassesOK /\ RequestsOK
BY DEF TypeOK, BookingsOK, PassesOK, RequestsOK

\* What a row leads to is a flag, and not one of a closed booking.
LEMMA TargetIsFlag ==
  ASSUME NEW r \in Row
  PROVE  Target(r) \in Flags \ Closings
BY DEF Target, Flags, Closings

LEMMA RowsAreRows ==
  ASSUME BookingsOK, NEW b \in Bookings
  PROVE  RowOf(b) \in Row /\ RowOf(b).lesson = lesson[b]
BY DEF BookingsOK, RowOf, Row

LEMMA NoRowIsRow == NoRow \in Row /\ NoRows \in [Bookings -> Row]
BY DEF NoRow, NoRows, Row, Statuses, Verdicts, Flags, Closings

\* The one of a listing whose rows are open, and due if they are to be marked.
LEMMA ListStep ==
  ASSUME IInv, NEW p \in Passes, NEW s \in {"idle", "heal", "mark"},
         NEW bs \in SUBSET Bookings, List(p, s, bs),
         s = "idle" => bs = {},
         \A b \in bs : lesson[b] \in Open,
         s = "mark" => \A b \in bs : Target(RowOf(b)) # "scheduled"
  PROVE  PassesOK' /\ ListedOpen'
<1> DEFINE listed == [b \in Bookings |-> IF b \in bs THEN RowOf(b) ELSE NoRow]
<1>1. listed \in [Bookings -> Row]
  BY RowsAreRows, NoRowIsRow DEF IInv
<1>2. /\ stage' = [stage EXCEPT ![p] = s] /\ left' = [left EXCEPT ![p] = bs]
      /\ row' = [row EXCEPT ![p] = listed]
  BY DEF List
<1>3. \A b \in bs : listed[b] = RowOf(b) /\ listed[b].lesson \in Open
  BY RowsAreRows DEF IInv
<1> HIDE DEF listed
<1>4. ListedOpen'
  BY <1>2, <1>3 DEF IInv, PassesOK, ListedOpen
<1>5. PassesOK'
  <2>1. ASSUME NEW q \in Passes, stage'[q] = "mark", NEW b \in left'[q]
        PROVE  Target(row'[q][b]) # "scheduled"
    <3>1. CASE q = p
      BY <3>1, <2>1, <1>2, <1>3 DEF IInv, PassesOK
    <3>2. CASE q # p
      BY <3>2, <2>1, <1>2 DEF IInv, PassesOK
    <3> QED BY <3>1, <3>2
  <2> QED BY <2>1, <1>1, <1>2 DEF IInv, PassesOK
<1> QED BY <1>4, <1>5

-----------------------------------------------------------------------------
(* The invariant.                                                          *)

LEMMA InitInv == Init => IInv
BY NoRowIsRow, ChangesAssumption
   DEF Init, IInv, BookingsOK, PassesOK, RequestsOK, ListedOpen, When, Statuses, Open, Verdicts, Flags, Idle

\* A pass of any kind.
LEMMA PassStep ==
  ASSUME IInv, NEW p \in Passes, BeginPass(p) \/ Continue(p) \/ Abort(p)
  PROVE  IInv'
<1>1. CASE BeginPass(p)
  <2>1. List(p, "heal", {b \in Bookings : Stale(b)})
    BY <1>1 DEF BeginPass
  <2>2. PassesOK' /\ ListedOpen'
    BY <2>1, ListStep DEF Stale
  <2> QED BY <2>1, <2>2 DEF List, booking, IInv, BookingsOK, RequestsOK
<1>2. CASE BeginMark(p)
  <2>1. List(p, "mark", {b \in Bookings : Due(b)})
    BY <1>2 DEF BeginMark
  <2>2. \A b \in Bookings : Due(b) => lesson[b] \in Open /\ Target(RowOf(b)) # "scheduled"
    BY DEF Due, Counted, Open
  <2>3. PassesOK' /\ ListedOpen'
    BY <2>1, <2>2, ListStep
  <2> QED BY <2>1, <2>3 DEF List, booking, IInv, BookingsOK, RequestsOK
<1>3. CASE EndPass(p)
  <2>1. List(p, "idle", {})
    BY <1>3 DEF EndPass
  <2>2. PassesOK' /\ ListedOpen'
    BY <2>1, ListStep
  <2> QED BY <2>1, <2>2 DEF List, booking, IInv, BookingsOK, RequestsOK
<1>4. ASSUME NEW b \in Bookings, Write(p, b)
      PROVE  IInv'
  <2>1. row[p][b] \in Row
    BY DEF IInv, PassesOK
  <2>2. BookingsOK'
    BY <1>4, <2>1, TargetIsFlag DEF Write, IInv, BookingsOK
  <2>3. PassesOK' /\ ListedOpen'
    BY <1>4, NoRowIsRow DEF Write, IInv, PassesOK, ListedOpen
  <2> QED BY <1>4, <2>2, <2>3 DEF Write, IInv, RequestsOK
<1>5. CASE Abort(p)
  <2>1. PassesOK' /\ ListedOpen'
    BY <1>5, NoRowIsRow DEF Abort, IInv, PassesOK, ListedOpen
  <2> QED BY <1>5, <2>1, ChangesAssumption DEF Abort, Changes, booking, IInv, BookingsOK, RequestsOK
<1> QED BY <1>1, <1>2, <1>3, <1>4, <1>5 DEF Continue

\* People and time touch no pass.
LEMMA PeopleStep ==
  ASSUME IInv, PeopleNext \/ \E b \in Bookings : TimePasses(b)
  PROVE  IInv'
<1> USE ChangesAssumption
<1> SUFFICES UNCHANGED passing /\ BookingsOK' /\ RequestsOK'
  BY DEF passing, IInv, PassesOK, ListedOpen
<1>1. ASSUME NEW b \in Bookings, TimePasses(b)
      PROVE  UNCHANGED passing /\ BookingsOK' /\ RequestsOK'
  BY <1>1 DEF TimePasses, passing, IInv, BookingsOK, RequestsOK, When
<1>2. ASSUME NEW b \in Bookings, ArchiveClosed(b)
      PROVE  UNCHANGED passing /\ BookingsOK' /\ RequestsOK'
  BY <1>2 DEF ArchiveClosed, Changes, IInv, BookingsOK, RequestsOK, Statuses
<1>3. ASSUME NEW b \in Bookings, NEW st \in {"cancelled", "refunded", "archived"}, Close(b, st)
      PROVE  UNCHANGED passing /\ BookingsOK' /\ RequestsOK'
  BY <1>3 DEF Close, Changes, IInv, BookingsOK, RequestsOK, Statuses, Flags, Closings
<1>4. ASSUME NEW q \in Requests, NEW b \in Bookings, NEW what \in {"edit", "verdict"}, Begin(q, b, what)
      PROVE  UNCHANGED passing /\ BookingsOK' /\ RequestsOK'
  <2>1. [do |-> what, booking |-> b, row |-> RowOf(b)] \in [do : {"edit", "verdict"}, booking : Bookings, row : Row]
    BY RowsAreRows DEF IInv
  <2> QED BY <1>4, <2>1 DEF Begin, Changes, booking, IInv, BookingsOK, RequestsOK
<1>5. ASSUME NEW q \in Requests, NEW st \in Statuses, NEW over \in BOOLEAN, FinishEdit(q, st, over),
             when' \in [Bookings -> When]
      PROVE  UNCHANGED passing /\ BookingsOK' /\ RequestsOK'
  <2>1. held[q] \in [do : {"edit", "verdict"}, booking : Bookings, row : Row]
    BY <1>5 DEF FinishEdit, IInv, RequestsOK, Idle
  <2>2. PICK b \in Bookings, r \in Row : b = held[q].booking /\ r = held[q].row
    BY <2>1
  <2>3. [r EXCEPT !.over = over] \in Row
    BY <1>5 DEF Row
  <2>4. lesson' \in [Bookings -> Statuses]
    BY <1>5, <2>2 DEF FinishEdit, Stored, IInv, BookingsOK
  <2>5. flag' \in [Bookings -> Flags]
    BY <1>5, <2>2, <2>3, TargetIsFlag DEF FinishEdit, IInv, BookingsOK
  <2> QED BY <1>5, <2>4, <2>5 DEF FinishEdit, IInv, BookingsOK, RequestsOK
<1>6. ASSUME NEW q \in Requests, NEW st \in Statuses, KeepDay(q, st)
      PROVE  UNCHANGED passing /\ BookingsOK' /\ RequestsOK'
  <2>1. held[q].row.over \in BOOLEAN
    BY <1>6 DEF KeepDay, IInv, RequestsOK, Idle, Row
  <2>2. when' \in [Bookings -> When]
    BY <1>6 DEF KeepDay, IInv, BookingsOK
  <2>3. FinishEdit(q, st, held[q].row.over) \/ FinishEdit(q, st, when[held[q].booking] = "over")
    BY <1>6 DEF KeepDay
  <2> QED BY <1>5, <2>1, <2>2, <2>3
<1>7. ASSUME NEW q \in Requests, NEW st \in Statuses, NEW w \in When, Move(q, st, w)
      PROVE  UNCHANGED passing /\ BookingsOK' /\ RequestsOK'
  <2>1. when' \in [Bookings -> When] /\ FinishEdit(q, st, w = "over")
    BY <1>7 DEF Move, IInv, BookingsOK
  <2> QED BY <1>5, <2>1
<1>8. ASSUME NEW q \in Requests, NEW v \in Verdicts, FinishVerdict(q, v)
      PROVE  UNCHANGED passing /\ BookingsOK' /\ RequestsOK'
  <2>1. held[q] \in [do : {"edit", "verdict"}, booking : Bookings, row : Row]
    BY <1>8 DEF FinishVerdict, IInv, RequestsOK, Idle
  <2>2. PICK b \in Bookings, r \in Row : b = held[q].booking /\ r = held[q].row
    BY <2>1
  <2>3. Judged(v) \in Flags
    BY DEF Judged, Flags
  <2> QED BY <1>8, <2>2, <2>3 DEF FinishVerdict, Stored, IInv, BookingsOK, RequestsOK
<1> QED
  BY <1>1, <1>2, <1>3, <1>4, <1>6, <1>7, <1>8 DEF PeopleNext, BeginVerdict

LEMMA StepInv == IInv /\ [Next]_vars => IInv'
<1> SUFFICES ASSUME IInv, [Next]_vars PROVE IInv'
  OBVIOUS
<1>1. CASE UNCHANGED vars
  BY <1>1 DEF vars, booking, passing, IInv, BookingsOK, PassesOK, RequestsOK, ListedOpen
<1>2. CASE Next
  BY <1>2, PassStep, PeopleStep DEF Next
<1> QED BY <1>1, <1>2

THEOREM Invariance == Spec => []IInv
BY InitInv, StepInv, PTL DEF Spec

\* Bookings, listed rows and what requests hold stay of their kind; nothing is
\* listed to be marked as a lesson still to come.
THEOREM TypeCorrect == Spec => []TypeOK
<1>1. IInv => TypeOK
  BY TypesSplit DEF IInv
<1> QED BY <1>1, Invariance, PTL

-----------------------------------------------------------------------------
(* The flag of a closed booking.                                           *)

\* Somebody read booking b before and has not written yet.
ReadBefore(b) ==
  \/ \E p \in Passes : b \in left[p] /\ row[p][b].lesson \in Open
  \/ \E q \in Requests : held[q].do # "idle" /\ held[q].booking = b

\* A step changes the flag of a booking that stays closed only so.
LEMMA ClosedStep ==
  ASSUME IInv, Next, NEW b \in Bookings,
         lesson[b] \notin Open, lesson'[b] \notin Open, flag[b] \in Closings
  PROVE  flag'[b] \in Closings \/ ReadBefore(b)
<1>1. ASSUME UNCHANGED flag
      PROVE  flag'[b] \in Closings \/ ReadBefore(b)
  BY <1>1
<1>2. ASSUME NEW p \in Passes, NEW c \in Bookings, Write(p, c)
      PROVE  flag'[b] \in Closings \/ ReadBefore(b)
  <2>1. CASE c = b
    BY <1>2, <2>1 DEF Write, IInv, ListedOpen, ReadBefore
  <2>2. CASE c # b
    BY <1>2, <2>2 DEF Write, IInv, BookingsOK
  <2> QED BY <2>1, <2>2
<1>3. ASSUME NEW c \in Bookings, NEW st \in {"cancelled", "refunded", "archived"}, Close(c, st)
      PROVE  flag'[b] \in Closings \/ ReadBefore(b)
  BY <1>3 DEF Close, IInv, BookingsOK
<1>4. ASSUME NEW q \in Requests, NEW st, NEW over, FinishEdit(q, st, over)
      PROVE  flag'[b] \in Closings \/ ReadBefore(b)
  <2>1. CASE held[q].booking = b
    BY <1>4, <2>1 DEF FinishEdit, ReadBefore
  <2>2. CASE held[q].booking # b
    BY <1>4, <2>2 DEF FinishEdit, IInv, BookingsOK
  <2> QED BY <2>1, <2>2
<1>5. ASSUME NEW q \in Requests, NEW v, FinishVerdict(q, v)
      PROVE  flag'[b] \in Closings \/ ReadBefore(b)
  <2>1. CASE held[q].booking = b
    BY <1>5, <2>1 DEF FinishVerdict, ReadBefore
  <2>2. CASE held[q].booking # b
    BY <1>5, <2>2 DEF FinishVerdict, IInv, BookingsOK
  <2> QED BY <2>1, <2>2
<1>6. CASE \E p \in Passes : BeginPass(p) \/ Continue(p) \/ Abort(p)
  <2>1. PICK p \in Passes :
          \/ BeginPass(p) \/ BeginMark(p) \/ EndPass(p) \/ Abort(p)
          \/ \E c \in Bookings : Write(p, c)
    BY <1>6 DEF Continue
  <2> QED BY <2>1, <1>1, <1>2 DEF BeginPass, BeginMark, EndPass, Abort, List, booking
<1>7. CASE \E c \in Bookings : TimePasses(c) \/ ArchiveClosed(c)
  BY <1>7, <1>1 DEF TimePasses, ArchiveClosed
<1>8. CASE \E q \in Requests, c \in Bookings : Begin(q, c, "edit") \/ BeginVerdict(q, c)
  BY <1>8, <1>1 DEF BeginVerdict, Begin, booking
<1>9. CASE \E q \in Requests, st \in Statuses : KeepDay(q, st) \/ \E w \in When : Move(q, st, w)
  BY <1>9, <1>4 DEF KeepDay, Move
<1> QED
  BY <1>3, <1>5, <1>6, <1>7, <1>8, <1>9 DEF Next, PeopleNext

\* A cancelled lesson keeps its flag but for those who read it while it was
\* open or whose request is under way: a pass that starts afterwards cannot
\* make it a lesson that counts for the salary.
THEOREM ClosedKept == Spec => ClosedKeepsFlag
<1>1. IInv /\ [Next]_vars =>
        [\A b \in Bookings :
           lesson[b] \notin Open /\ lesson'[b] \notin Open /\ flag[b] \in Closings =>
             \/ flag'[b] \in Closings
             \/ \E p \in Passes : b \in left[p] /\ row[p][b].lesson \in Open
             \/ \E q \in Requests : held[q].do # "idle" /\ held[q].booking = b]_vars
  BY ClosedStep DEF ReadBefore
<1> QED BY <1>1, Invariance, PTL DEF Spec, ClosedKeepsFlag

=============================================================================
