------------------------- MODULE SlotReservationProofs -------------------------
(***************************************************************************)
(* Proofs about SlotReservation for any bookings, any length of the day,   *)
(* any grids of starts and any number of concurrent requests.  The         *)
(* inductive invariant adds to the types that claims are disjoint (what    *)
(* the unique index keeps), that a request for a new booking asks for      *)
(* rows before its end, and the rows of untouched bookings.  Every step is *)
(* shown to touch one booking: of the others it may only drop rows of      *)
(* closed ones.                                                            *)
(***************************************************************************)
EXTENDS SlotReservation, TLAPS

\* TypeOK in two halves: the tables and the memory of the requests.
TablesOK ==
  /\ lesson \in [Bookings -> BookingStatus]
  /\ first \in [Bookings -> Hours]
  /\ last \in [Bookings -> Ends]
  /\ rows \in [Bookings -> SUBSET Hours]
  /\ given \in [Bookings -> SUBSET Hours]

MemoryOK ==
  /\ pc \in [Requests -> {"idle", "book", "enter", "schedule", "move", "remove", "patch"}]
  /\ on \in [Requests -> Bookings]
  /\ want \in [Requests -> SUBSET Hours]
  /\ until \in [Requests -> Ends]
  /\ gone \in [Requests -> {0} \cup Hours]
  /\ seenLesson \in [Requests -> BookingStatus]
  /\ seenFirst \in [Requests -> Hours]
  /\ seenLast \in [Requests -> Ends]

\* The unique index: an hour is claimed by one booking.
Claims == \A b, c \in Bookings : b # c => rows[b] \cap rows[c] = {}

\* An end that is no start's.
Ending(l, hours) == l # 0 => \A h \in hours : h <= l

\* What a request for a new booking is about to write.
Asked(a) == pc[a] \in {"book", "enter"} => want[a] # {} /\ Ending(until[a], want[a])

Holds(b) ==
  lesson[b] \in Live /\ given[b] # {} =>
    rows[b] = given[b] /\ Earliest(first[b], rows[b]) /\ Ending(last[b], rows[b])

\* The memory of the requests in order.
Memories == MemoryOK /\ \A a \in Requests : Asked(a)

Inv == TablesOK /\ Memories /\ Claims /\ \A b \in Bookings : Holds(b)

\* A step touches booking b: of another one it may drop rows if that is closed.
Touches(b) ==
  \A c \in Bookings \ {b} :
    /\ lesson'[c] = lesson[c] /\ given'[c] = given[c]
    /\ first'[c] = first[c] /\ last'[c] = last[c]
    /\ rows'[c] = rows[c] \/ (lesson[c] \notin Live /\ rows'[c] = {})

\* What is shown of every step.
Sound == /\ TablesOK' /\ Memories' /\ Claims'
         /\ \E b \in Bookings : Touches(b) /\ Holds(b)'

LEMMA NobodyIsABooking == Nobody \in Bookings
BY BookingsAssumption DEF Nobody

LEMMA HoursAreNumbers == Hours \subseteq Nat \ {0} /\ Ends \subseteq Nat /\ 1 \in Hours /\ 1 \in Ends
BY HourAssumption DEF Hours, Ends

LEMMA TypesSplit == TypeOK <=> TablesOK /\ MemoryOK
BY DEF TypeOK, TablesOK, MemoryOK

\* A request that ends leaves no memory behind.
LEMMA FinishKeepsMemory ==
  ASSUME Memories, NEW a \in Requests, Finish(a)
  PROVE  Memories'
<1>1. MemoryOK'
  BY NobodyIsABooking, HoursAreNumbers DEF Memories, MemoryOK, Finish, BookingStatus, Ends
<1>2. ASSUME NEW c \in Requests PROVE Asked(c)'
  <2>1. CASE c = a
    BY <2>1 DEF Finish, Asked, Memories, MemoryOK
  <2>2. CASE c # a
    BY <2>2 DEF Finish, Asked, Ending, Memories, MemoryOK
  <2> QED BY <2>1, <2>2
<1> QED BY <1>1, <1>2 DEF Memories

\* Reading a booking starts no new one.
LEMMA ReadKeepsAsked ==
  ASSUME Memories, NEW a \in Requests, pc'[a] \notin {"book", "enter"},
         \A c \in Requests \ {a} : /\ pc'[c] = pc[c] /\ want'[c] = want[c]
                                   /\ until'[c] = until[c]
  PROVE  \A c \in Requests : Asked(c)'
<1> SUFFICES ASSUME NEW c \in Requests PROVE Asked(c)'
  OBVIOUS
<1>1. CASE c = a
  BY <1>1 DEF Asked
<1>2. CASE c # a
  BY <1>2 DEF Asked, Ending, Memories
<1> QED BY <1>1, <1>2

\* A step that leaves the tables alone.
LEMMA TablesAlone ==
  ASSUME Inv, Memories', UNCHANGED <<bookingRow, rows, given>>
  PROVE  Sound
BY NobodyIsABooking
   DEF Inv, TablesOK, Claims, Holds, Touches, Sound, bookingRow, Earliest, Ending

\* Dropping the rows of closed bookings keeps claims disjoint.
LEMMA PurgedIsSmaller ==
  ASSUME TablesOK, NEW s \in [Bookings -> BookingStatus]
  PROVE  /\ Purged(s) \in [Bookings -> SUBSET Hours]
         /\ \A c \in Bookings : Purged(s)[c] \subseteq rows[c]
         /\ \A c \in Bookings : s[c] \in Live => Purged(s)[c] = rows[c]
         /\ \A c \in Bookings : s[c] \notin Live => Purged(s)[c] = {}
BY DEF Purged, TablesOK

\* Giving a booking hours that are free in a smaller table.
LEMMA ReplaceKeepsClaims ==
  ASSUME TablesOK, Claims, NEW b \in Bookings, NEW hours \in SUBSET Hours,
         NEW table \in [Bookings -> SUBSET Hours],
         \A c \in Bookings : table[c] \subseteq rows[c],
         Unique(b, hours, table), rows' = [table EXCEPT ![b] = hours]
  PROVE  Claims' /\ rows' \in [Bookings -> SUBSET Hours]
BY DEF TablesOK, Claims, Unique

\* The slot sync of a booking, in a transaction that has set the statuses.
LEMMA SyncStep ==
  ASSUME Inv, NEW b \in Bookings, NEW hours \in SUBSET Hours,
         NEW kept \in SUBSET Hours, kept \in {hours, {}},
         lesson' \in [Bookings -> BookingStatus],
         \A c \in Bookings \ {b} : lesson'[c] = lesson[c],
         Unique(b, hours, Purged(lesson')),
         rows' = [Purged(lesson') EXCEPT ![b] = kept]
  PROVE  /\ Claims' /\ rows' \in [Bookings -> SUBSET Hours]
         /\ rows'[b] = kept
         /\ \A c \in Bookings \ {b} :
              rows'[c] = rows[c] \/ (lesson[c] \notin Live /\ rows'[c] = {})
<1>1. Unique(b, kept, Purged(lesson'))
  BY DEF Unique
<1>2. Claims' /\ rows' \in [Bookings -> SUBSET Hours]
  BY <1>1, PurgedIsSmaller, ReplaceKeepsClaims DEF Inv
<1> QED BY <1>2, PurgedIsSmaller DEF Inv
-----------------------------------------------------------------------------
(* One lemma per group of actions.                                         *)

\* The end of a lesson is an hour of the day, at or after its starts, or none.
LEMMA EndOfLesson ==
  ASSUME NEW hours \in SUBSET Hours, NEW l \in Ends,
         PlanEnd(hours, l) \/ TheoryEnd(hours, l)
  PROVE  Ending(l, hours)
<1>1. CASE PlanEnd(hours, l)
  <2>1. PICK t \in hours : Latest(t, hours) /\ Latest(l, Range(t, Branch))
    BY <1>1 DEF PlanEnd
  <2>2. t <= l
    BY <2>1 DEF Latest, Range
  <2> QED BY <2>1, <2>2, HoursAreNumbers DEF Latest, Ending
<1>2. CASE TheoryEnd(hours, l)
  BY <1>2, HoursAreNumbers DEF TheoryEnd, Ending
<1> QED BY <1>1, <1>2

\* A check that succeeds.
LEMMA CheckStep ==
  ASSUME Inv, NEW a \in Requests, CheckStudent(a) \/ CheckStaff(a)
  PROVE  Sound
<1>1. PICK step \in {"book", "enter"}, hours \in (SUBSET Hours) \ {{}}, l \in Ends :
        /\ \E others \in SUBSET Bookings :
             \/ Practical(hours, l, others) \/ Personal(hours, l, others)
             \/ Custom(hours, l, others)
        /\ Check(a, step, hours, l)
  <2>1. CASE CheckStudent(a)
    <3>1. PICK hours \in (SUBSET Branch) \ {{}}, l \in Ends :
            Practical(hours, l, Bookings) /\ Check(a, "book", hours, l)
      BY <2>1 DEF CheckStudent
    <3>2. hours \in (SUBSET Hours) \ {{}}
      BY PlanAssumption DEF Hours
    <3> QED BY <3>1, <3>2
  <2>2. CASE CheckStaff(a)
    <3>1. PICK hours \in (SUBSET Hours) \ {{}}, l \in Ends :
            /\ \/ Practical(hours, l, Bookings) \/ Personal(hours, l, Bookings)
               \/ Custom(hours, l, Bookings)
            /\ Check(a, "enter", hours, l)
      BY <2>2 DEF CheckStaff
    <3> QED BY <3>1
  <2> QED BY <2>1, <2>2
<1>2. Ending(l, hours)
  <2>1. CASE PlanEnd(hours, l) \/ TheoryEnd(hours, l)
    BY <2>1, EndOfLesson
  <2>2. CASE \E end \in Hours, f \in hours : hours = {f} /\ f <= end /\ l = end
    BY <2>2 DEF Ending
  <2>3. \/ PlanEnd(hours, l) \/ TheoryEnd(hours, l)
        \/ \E end \in Hours, f \in hours : hours = {f} /\ f <= end /\ l = end
    BY <1>1 DEF Practical, Personal, Custom
  <2> QED BY <2>1, <2>2, <2>3
<1>3. MemoryOK'
  BY <1>1 DEF Check, Asks, Inv, Memories, MemoryOK
<1>4. ASSUME NEW c \in Requests PROVE Asked(c)'
  <2>1. CASE c = a
    <3>1. want'[a] = hours /\ until'[a] = l
      BY <1>1 DEF Check, Asks, Inv, Memories, MemoryOK
    <3> QED BY <1>1, <1>2, <2>1, <3>1 DEF Asked, Ending
  <2>2. CASE c # a
    BY <1>1, <2>2 DEF Check, Asks, Asked, Inv, Memories, MemoryOK, Ending
  <2> QED BY <2>1, <2>2
<1>5. UNCHANGED <<bookingRow, rows, given>>
  BY <1>1 DEF Check
<1> QED BY <1>3, <1>4, <1>5, TablesAlone DEF Memories

\* The starts of a booking are hours.
LEMMA StartsAreHours ==
  ASSUME TablesOK, NEW b \in Bookings
  PROVE  Entries(b) \in SUBSET Hours
<1>1. first[b] \in Hours /\ rows[b] \in SUBSET Hours
  BY DEF TablesOK
<1>2. Plan \subseteq Hours
  BY PlanAssumption DEF Hours
<1> QED BY <1>1, <1>2 DEF Entries

\* Requests that only read and check.
LEMMA ReadStep ==
  ASSUME Inv, NEW a \in Requests, NEW b \in Bookings,
         \/ CheckSchedule(a) \/ RequestFails(a)
         \/ ReadForSchedule(a, b) \/ ReadForPatch(a, b) \/ ReadForRemove(a, b)
  PROVE  Sound
<1>1. CASE CheckSchedule(a)
  <2>1. PICK hours \in SUBSET Hours, l \in Ends : Asks(a, hours, l)
    BY <1>1 DEF CheckSchedule
  <2>2. MemoryOK'
    BY <1>1, <2>1 DEF CheckSchedule, Asks, Inv, Memories, MemoryOK
  <2>3. \A c \in Requests : Asked(c)'
    BY <1>1, <2>1, ReadKeepsAsked DEF CheckSchedule, Asks, Inv, Memories, MemoryOK
  <2> QED BY <1>1, <2>2, <2>3, TablesAlone DEF CheckSchedule, Memories
<1>2. CASE RequestFails(a)
  BY <1>2, FinishKeepsMemory, TablesAlone DEF RequestFails, Inv
<1>3. CASE ReadForSchedule(a, b)
  <2>1. MemoryOK'
    BY <1>3 DEF ReadForSchedule, Read, ReadStatus, ReadTimes, Inv, Memories, MemoryOK, TablesOK
  <2>2. \A c \in Requests : Asked(c)'
    BY <1>3, ReadKeepsAsked DEF ReadForSchedule, Read, Inv, Memories, MemoryOK
  <2> QED BY <1>3, <2>1, <2>2, TablesAlone DEF ReadForSchedule, Read, Memories
<1>4. CASE ReadForPatch(a, b)
  <2>1. MemoryOK'
    BY <1>4 DEF ReadForPatch, Read, ReadStatus, Inv, Memories, MemoryOK, TablesOK
  <2>2. \A c \in Requests : Asked(c)'
    BY <1>4, ReadKeepsAsked DEF ReadForPatch, Read, Inv, Memories, MemoryOK
  <2> QED BY <1>4, <2>1, <2>2, TablesAlone DEF ReadForPatch, Read, Memories
<1>5. CASE ReadForRemove(a, b)
  <2>1. PICK h \in Entries(b), l \in Ends :
          /\ Asks(a, Entries(b) \ {h}, l)
          /\ gone' = [gone EXCEPT ![a] = IF rows[b] = {} THEN 0 ELSE h]
    BY <1>5 DEF ReadForRemove
  <2>2. Entries(b) \ {h} \in SUBSET Hours /\ h \in Hours
    BY StartsAreHours DEF Inv
  <2>3. MemoryOK'
    BY <1>5, <2>1, <2>2 DEF ReadForRemove, Read, ReadTimes, Asks, Inv, Memories, MemoryOK, TablesOK
  <2>4. \A c \in Requests : Asked(c)'
    BY <1>5, <2>1, ReadKeepsAsked DEF ReadForRemove, Read, Asks, Inv, Memories, MemoryOK
  <2> QED BY <1>5, <2>3, <2>4, TablesAlone DEF ReadForRemove, Read, Memories
<1> QED BY <1>1, <1>2, <1>3, <1>4, <1>5

\* A new booking takes free hours.
LEMMA CreateStep ==
  ASSUME Inv, NEW a \in Requests, NEW b \in Bookings, Book(a, b) \/ Enter(a, b)
  PROVE  Sound
<1>1. PICK status \in Live \cup {"cancelled"} : Create(a, b, status)
  BY DEF Book, Enter
<1>2. Memories'
  BY FinishKeepsMemory DEF Book, Enter, Inv
<1>3. /\ want[a] \in SUBSET Hours /\ until[a] \in Ends
      /\ Ending(until[a], want[a])
  BY DEF Inv, Memories, MemoryOK, Asked, Book, Enter
<1>4. PICK f \in want[a] : Earliest(f, want[a]) /\ first' = [first EXCEPT ![b] = f]
  BY <1>1 DEF Create
<1>5. /\ lesson' \in [Bookings -> BookingStatus]
      /\ first' \in [Bookings -> Hours]
      /\ last' \in [Bookings -> Ends]
      /\ given' \in [Bookings -> SUBSET Hours]
      /\ \A c \in Bookings \ {b} : /\ lesson'[c] = lesson[c] /\ given'[c] = given[c]
                                   /\ first'[c] = first[c] /\ last'[c] = last[c]
      /\ first'[b] = f /\ last'[b] = until[a] /\ given'[b] = want[a]
  BY <1>1, <1>3, <1>4 DEF Create, Inv, TablesOK, BookingStatus, Live
<1>6. /\ Claims' /\ rows' \in [Bookings -> SUBSET Hours]
      /\ rows'[b] = want[a]
      /\ \A c \in Bookings \ {b} :
           rows'[c] = rows[c] \/ (lesson[c] \notin Live /\ rows'[c] = {})
  <2>1. CASE Insert(b, want[a])
    BY <1>3, <2>1, ReplaceKeepsClaims DEF Insert, Inv, TablesOK
  <2>2. CASE Sync(b, want[a], lesson')
    BY <1>3, <1>5, <2>2, SyncStep DEF Sync
  <2> QED BY <2>1, <2>2 DEF Book, Enter
<1>7. Touches(b)
  BY <1>5, <1>6 DEF Touches
<1>8. Holds(b)'
  BY <1>3, <1>4, <1>5, <1>6 DEF Holds, Earliest, Ending
<1> QED BY <1>2, <1>5, <1>6, <1>7, <1>8 DEF Sound, TablesOK

\* Steps under the row lock.
LEMMA LockStep ==
  ASSUME Inv, NEW b \in Bookings, ByLock(b)
  PROVE  Sound
<1>1. Memories'
  BY DEF ByLock, ConfirmPayment, Cancel, Archive, Close, Delete, memory, Inv, Memories,
         MemoryOK, Asked, Ending
<1>2. CASE ConfirmPayment(b)
  <2>1. Touches(b) /\ Holds(b)'
    BY <1>2 DEF ConfirmPayment, Touches, Holds, Earliest, Ending, Inv, TablesOK, Live
  <2>2. TablesOK' /\ Claims'
    BY <1>2 DEF ConfirmPayment, Inv, TablesOK, Claims, BookingStatus, Live
  <2> QED BY <1>1, <2>1, <2>2 DEF Sound
<1>3. CASE Cancel(b) \/ Archive(b)
  <2>1. PICK status \in {"cancelled", "archived"} : Close(b, status)
    BY <1>3 DEF Cancel, Archive
  <2>2. TablesOK' /\ Claims'
    BY <2>1 DEF Close, Inv, TablesOK, Claims, BookingStatus
  <2>3. Touches(b) /\ Holds(b)'
    BY <2>1 DEF Close, Touches, Holds, Inv, TablesOK, Live
  <2> QED BY <1>1, <2>2, <2>3 DEF Sound
<1>4. CASE Delete(b)
  <2>1. TablesOK' /\ Claims'
    BY <1>4, HoursAreNumbers DEF Delete, Inv, TablesOK, Claims, BookingStatus, Ends
  <2>2. Touches(b) /\ Holds(b)'
    BY <1>4 DEF Delete, Touches, Holds, Inv, TablesOK, Live
  <2> QED BY <1>1, <2>1, <2>2 DEF Sound
<1> QED BY <1>2, <1>3, <1>4 DEF ByLock

\* What the three writes of a staff edit do to the tables, b being the booking
\* the request is about.
LEMMA TimesStep ==
  ASSUME Inv, NEW a \in Requests, NEW b \in Bookings, b = on[a],
         WriteTimes(a)
  PROVE  /\ first' \in [Bookings -> Hours] /\ last' \in [Bookings -> Ends]
         /\ \A c \in Bookings \ {b} : first'[c] = first[c] /\ last'[c] = last[c]
<1>1. want[a] \in SUBSET Hours /\ until[a] \in Ends
  BY DEF Inv, Memories, MemoryOK
<1> QED BY <1>1 DEF WriteTimes, Column, Inv, TablesOK

LEMMA StatusStep ==
  ASSUME Inv, NEW a \in Requests, NEW b \in Bookings, b = on[a],
         NEW next \in NextStatus(a), WriteStatus(a, next)
  PROVE  /\ lesson' \in [Bookings -> BookingStatus]
         /\ \A c \in Bookings \ {b} : lesson'[c] = lesson[c]
<1>1. next \in BookingStatus
  BY DEF NextStatus, Inv, Memories, MemoryOK, BookingStatus, Live
<1> QED BY <1>1 DEF WriteStatus, Column, Inv, TablesOK

LEMMA EditsStep ==
  ASSUME Inv, NEW a \in Requests, NEW b \in Bookings, b = on[a], Edits(a)
  PROVE  /\ given' \in [Bookings -> SUBSET Hours]
         /\ \A c \in Bookings \ {b} : given'[c] = given[c]
         /\ Holds(b)'
BY DEF Edits, Holds, Inv, TablesOK

\* The transaction of a staff edit.
LEMMA MoveStep ==
  ASSUME Inv, NEW a \in Requests, Move(a)
  PROVE  Sound
<1> DEFINE b == on[a]
<1>1. b \in Bookings /\ want[a] \in SUBSET Hours
  BY DEF Inv, Memories, MemoryOK
<1>2. Memories'
  BY FinishKeepsMemory DEF Move, Inv
<1>3. PICK next \in NextStatus(a) :
        /\ WriteStatus(a, next)
        /\ \/ next \in Live /\ Sync(b, want[a], lesson')
           \/ /\ next \notin Live
              /\ Unique(b, want[a], Purged(lesson'))
              /\ rows' = [Purged(lesson') EXCEPT ![b] = {}]
  BY DEF Move
<1>4. PICK kept \in {want[a], {}} :
        /\ Unique(b, want[a], Purged(lesson'))
        /\ rows' = [Purged(lesson') EXCEPT ![b] = kept]
  BY <1>3 DEF Sync
<1>5. WriteTimes(a) /\ Edits(a)
  BY DEF Move
<1>6. /\ lesson' \in [Bookings -> BookingStatus]
      /\ \A c \in Bookings \ {b} : lesson'[c] = lesson[c]
  BY <1>1, <1>3, StatusStep
<1>7. /\ first' \in [Bookings -> Hours] /\ last' \in [Bookings -> Ends]
      /\ \A c \in Bookings \ {b} : first'[c] = first[c] /\ last'[c] = last[c]
  BY <1>1, <1>5, TimesStep
<1> HIDE DEF b
<1>8. PICK d \in Bookings : d = b
  BY <1>1
<1>9. /\ Claims' /\ rows' \in [Bookings -> SUBSET Hours]
      /\ \A c \in Bookings \ {d} :
           rows'[c] = rows[c] \/ (lesson[c] \notin Live /\ rows'[c] = {})
  BY <1>1, <1>4, <1>6, <1>8, SyncStep
<1>10. /\ given' \in [Bookings -> SUBSET Hours]
       /\ \A c \in Bookings \ {d} : given'[c] = given[c]
       /\ Holds(d)'
  BY <1>5, <1>8, EditsStep DEF b
<1>11. Touches(d)
  BY <1>6, <1>7, <1>8, <1>9, <1>10 DEF Touches
<1> QED BY <1>2, <1>6, <1>7, <1>9, <1>10, <1>11 DEF Sound, TablesOK

LEMMA PatchStep ==
  ASSUME Inv, NEW a \in Requests, Patch(a)
  PROVE  Sound
<1>1. PICK d \in Bookings : d = on[a]
  BY DEF Inv, Memories, MemoryOK
<1>2. Memories'
  BY FinishKeepsMemory DEF Patch, Inv
<1>3. PICK next \in NextStatus(a) :
        WriteStatus(a, next) /\ (UNCHANGED rows \/ rows' = [rows EXCEPT ![d] = {}])
  BY <1>1 DEF Patch
<1>4. Edits(a) /\ UNCHANGED <<first, last>>
  BY DEF Patch
<1>5. /\ lesson' \in [Bookings -> BookingStatus]
      /\ \A c \in Bookings \ {d} : lesson'[c] = lesson[c]
  BY <1>1, <1>3, StatusStep
<1>6. /\ given' \in [Bookings -> SUBSET Hours]
      /\ \A c \in Bookings \ {d} : given'[c] = given[c]
      /\ Holds(d)'
  BY <1>1, <1>4, EditsStep
<1>7. Claims' /\ rows' \in [Bookings -> SUBSET Hours]
      /\ \A c \in Bookings \ {d} : rows'[c] = rows[c]
  BY <1>3 DEF Inv, TablesOK, Claims
<1>8. Touches(d)
  BY <1>4, <1>5, <1>6, <1>7 DEF Touches
<1> QED BY <1>2, <1>4, <1>5, <1>6, <1>7, <1>8 DEF Sound, TablesOK, Inv

LEMMA RemoveStep ==
  ASSUME Inv, NEW a \in Requests, RemoveSlot(a)
  PROVE  Sound
<1>1. PICK d \in Bookings : d = on[a]
  BY DEF Inv, Memories, MemoryOK
<1>2. Memories' /\ want[a] \in SUBSET Hours
  BY FinishKeepsMemory DEF RemoveSlot, Inv, Memories, MemoryOK
<1>3. WriteTimes(a) /\ Edits(a) /\ UNCHANGED lesson
  BY DEF RemoveSlot
<1>4. /\ first' \in [Bookings -> Hours] /\ last' \in [Bookings -> Ends]
      /\ \A c \in Bookings \ {d} : first'[c] = first[c] /\ last'[c] = last[c]
  BY <1>1, <1>2, <1>3, TimesStep
<1>5. /\ given' \in [Bookings -> SUBSET Hours]
      /\ \A c \in Bookings \ {d} : given'[c] = given[c]
      /\ Holds(d)'
  BY <1>1, <1>3, EditsStep
<1>6. /\ Claims' /\ rows' \in [Bookings -> SUBSET Hours]
      /\ \A c \in Bookings \ {d} :
           rows'[c] = rows[c] \/ (lesson[c] \notin Live /\ rows'[c] = {})
  <2>1. CASE rows' = [rows EXCEPT ![d] = @ \ {gone[a]}]
    BY <2>1 DEF Inv, TablesOK, Claims
  <2>2. CASE Sync(d, want[a], lesson)
    <3>1. /\ lesson' = lesson /\ lesson' \in [Bookings -> BookingStatus]
          /\ Unique(d, want[a], Purged(lesson'))
          /\ rows' = [Purged(lesson') EXCEPT ![d] = want[a]]
      BY <1>3, <2>2 DEF Sync, Inv, TablesOK
    <3> QED BY <1>2, <3>1, SyncStep
  <2> QED BY <1>1, <2>1, <2>2 DEF RemoveSlot
<1>7. Touches(d)
  BY <1>3, <1>4, <1>5, <1>6 DEF Touches
<1> QED BY <1>2, <1>3, <1>4, <1>5, <1>6, <1>7 DEF Sound, TablesOK, Inv
-----------------------------------------------------------------------------
(* Every step, and the theorems.                                           *)

LEMMA NextStep ==
  ASSUME Inv, Next
  PROVE  Sound
<1>1. CASE \E a \in Students : ByStudent(a)
  <2>1. PICK a \in Requests : ByStudent(a)
    BY <1>1 DEF Requests
  <2> QED BY <2>1, CheckStep, CreateStep DEF ByStudent
<1>2. CASE \E a \in Staff : ByStaff(a)
  <2>1. PICK a \in Requests : ByStaff(a)
    BY <1>2 DEF Requests
  <2>2. CASE CheckStaff(a) \/ CheckSchedule(a)
    BY <2>2, NobodyIsABooking, CheckStep, ReadStep
  <2>3. CASE Move(a) \/ Patch(a) \/ RemoveSlot(a)
    BY <2>3, MoveStep, PatchStep, RemoveStep
  <2>4. CASE \E b \in Bookings : \/ Enter(a, b)
                                 \/ ReadForSchedule(a, b) \/ ReadForPatch(a, b)
                                 \/ ReadForRemove(a, b)
    BY <2>4, ReadStep, CreateStep
  <2> QED BY <2>1, <2>2, <2>3, <2>4 DEF ByStaff
<1>3. CASE \E a \in Requests : RequestFails(a)
  BY <1>3, NobodyIsABooking, ReadStep
<1>4. CASE \E b \in Bookings : ByLock(b)
  BY <1>4, LockStep
<1> QED BY <1>1, <1>2, <1>3, <1>4 DEF Next

LEMMA InitInv == Init => Inv
BY NobodyIsABooking, HoursAreNumbers
   DEF Init, Inv, TablesOK, Memories, MemoryOK, Asked, Claims, Holds, BookingStatus, Live, Ends

LEMMA StepInv == Inv /\ [Next]_vars => Inv'
<1> SUFFICES ASSUME Inv, [Next]_vars PROVE Inv'
  OBVIOUS
<1>1. CASE UNCHANGED vars
  BY <1>1 DEF vars, bookingRow, memory, Inv, TablesOK, Memories, MemoryOK, Asked, Claims, Holds,
              Earliest, Ending
<1>2. CASE Next
  <2>1. Sound
    BY <1>2, NextStep
  <2>2. PICK d \in Bookings : Touches(d) /\ Holds(d)'
    BY <2>1 DEF Sound
  <2>3. \A c \in Bookings : Holds(c)'
    <3> SUFFICES ASSUME NEW c \in Bookings, c # d PROVE Holds(c)'
      BY <2>2
    <3> QED BY <2>2 DEF Touches, Inv, Holds, Earliest, Ending
  <2> QED BY <2>1, <2>3 DEF Sound, Inv
<1> QED BY <1>1, <1>2

THEOREM Invariance == Spec => []Inv
BY InitInv, StepInv, PTL DEF Spec

\* Every booking, row and request in progress stays of its kind: in particular
\* no sequence of moves and removals stores an hour outside the day.
THEOREM TypeCorrect == Spec => []TypeOK
<1>1. Inv => TypeOK
  BY TypesSplit DEF Inv, Memories
<1> QED BY <1>1, Invariance, PTL

\* An open booking that staff have not edited holds the rows it was booked with,
\* and its time and end_time agree with them, whatever other requests do.
THEOREM UntouchedKept == Spec => []UntouchedHoldsItsHours
<1>1. Inv => UntouchedHoldsItsHours
  BY DEF Inv, Holds, Ending, UntouchedHoldsItsHours
<1> QED BY <1>1, Invariance, PTL

\* What breaks NoDoubleBooking, of two open bookings that occupy one hour: one has
\* no slot rows and staff edited it, as a patch leaves it that opens a closed
\* booking again; or one has a row that is no start of the school's grid, as a
\* lesson with an end of its own has and as a branch with a grid of its own gives.
\* The index keeps starts apart, and only on the grid does that keep lessons apart.
DoublesHaveACause ==
  \A b, c \in Bookings :
    /\ b # c
    /\ lesson[b] \in Live /\ lesson[c] \in Live
    /\ Occupied(b) \cap Occupied(c) # {}
    => \E d \in {b, c} : \/ rows[d] = {} /\ given[d] = {}
                         \/ ~(rows[d] \subseteq Plan)

\* An hour a booking occupies whose rows are starts of the grid follows one of
\* these with no other start of the grid between.
LEMMA OnTheGrid ==
  ASSUME TablesOK, NEW b \in Bookings, rows[b] # {}, rows[b] \subseteq Plan,
         NEW h \in Occupied(b)
  PROVE  h \in Nat /\ \E t \in rows[b] : t <= h /\ \A n \in Plan : t < n => h < n
<1>1. /\ rows[b] \subseteq Nat /\ Plan \subseteq Nat /\ last[b] \in Nat
  BY HoursAreNumbers, PlanAssumption DEF TablesOK, Hours
<1>2. CASE RunsOn(b)
  <2>1. PICK t \in rows[b] : /\ rows[b] = {t} /\ t <= last[b]
                             /\ ~(\E n \in Plan : t < n /\ n <= last[b])
    BY <1>2 DEF RunsOn
  <2>2. h \in t .. last[b]
    BY <1>2, <2>1 DEF Occupied
  <2>3. t \in Nat /\ h \in Nat /\ t <= h /\ h <= last[b]
    BY <1>1, <2>2
  <2>4. \A n \in Plan : t < n => h < n
    BY <1>1, <2>1, <2>3
  <2> QED BY <2>3, <2>4
<1>3. CASE ~RunsOn(b)
  <2>1. Plan \cup rows[b] = Plan
    OBVIOUS
  <2>2. PICK t \in rows[b] : h \in Range(t, Plan)
    BY <1>3, <2>1 DEF Occupied, Ranges
  <2>3. t \in Nat /\ h \in Nat
    BY <1>1, <2>2, HoursAreNumbers DEF Range
  <2>4. t <= h /\ \A n \in Plan : t < n => h < n
    BY <1>1, <2>2, <2>3 DEF Range
  <2> QED BY <2>3, <2>4
<1> QED BY <1>2, <1>3

THEOREM DoublesExplained == Spec => []DoublesHaveACause
<1>1. Inv => DoublesHaveACause
  <2> SUFFICES ASSUME Inv, NEW b \in Bookings, NEW c \in Bookings, b # c,
                      lesson[b] \in Live, lesson[c] \in Live,
                      NEW h \in Occupied(b), h \in Occupied(c),
                      \A d \in {b, c} : /\ rows[d] # {} \/ given[d] # {}
                                        /\ rows[d] \subseteq Plan
               PROVE  FALSE
    BY DEF DoublesHaveACause
  <2>1. rows[b] # {} /\ rows[c] # {}
    BY DEF Inv, Holds
  <2>2. PICK t \in rows[b] : t <= h /\ \A n \in Plan : t < n => h < n
    BY <2>1, OnTheGrid DEF Inv
  <2>3. PICK u \in rows[c] : u <= h /\ \A n \in Plan : u < n => h < n
    BY <2>1, OnTheGrid DEF Inv
  <2>4. t # u
    BY DEF Inv, Claims
  <2>5. /\ t \in Nat /\ u \in Nat /\ t \in Plan /\ u \in Plan
    BY HoursAreNumbers DEF Inv, TablesOK
  <2>6. h \in Nat
    BY <2>1, OnTheGrid DEF Inv
  <2> QED BY <2>2, <2>3, <2>4, <2>5, <2>6
<1> QED BY <1>1, Invariance, PTL

LEMMA InitCalendar == Init => C!Init
BY DEF Init, C!Init, Booked, Live

\* A step arranges the hours of the one booking it touches.
LEMMA StepCalendar == Inv /\ [Next]_vars => [C!Next]_Booked
<1> SUFFICES ASSUME Inv, [Next]_vars PROVE [C!Next]_Booked
  OBVIOUS
<1>1. CASE UNCHANGED vars
  BY <1>1 DEF vars, bookingRow, Booked
<1>2. CASE Next
  <2>1. Sound
    BY <1>2, NextStep
  <2>2. PICK d \in Bookings : Touches(d)
    BY <2>1 DEF Sound
  <2> DEFINE wanted == Booked'[d]
  <2>3. \A c \in Bookings \ {d} : Booked'[c] = Booked[c]
    BY <2>2 DEF Touches, Booked
  <2>4. \A c \in Bookings : Booked'[c] \subseteq rows'[c] /\ Booked'[c] \subseteq Hours
    BY <2>1 DEF Sound, TablesOK, Booked
  <2>5. Booked' = [Booked EXCEPT ![d] = wanted]
    BY <2>3 DEF Booked
  <2>6. \A h \in wanted : C!Free(d, h)
    <3> SUFFICES ASSUME NEW h \in wanted, NEW c \in Bookings, c # d PROVE h \notin Booked[c]
      BY DEF C!Free
    <3>1. h \in rows'[d] /\ h \notin rows'[c]
      BY <2>1, <2>4 DEF Sound, Claims
    <3> QED BY <2>3, <2>4, <3>1
  <2>7. C!Arrange(d, wanted)
    BY <2>5, <2>6 DEF C!Arrange
  <2> QED BY <2>4, <2>7 DEF C!Next
<1> QED BY <1>1, <1>2

\* The hours claimed by open bookings implement the calendar: a transaction
\* changes one booking's hours and takes only hours no open booking claims.
THEOREM ImplementsCalendar == Spec => KeepsCalendar
BY InitCalendar, StepCalendar, Invariance, PTL DEF Spec, KeepsCalendar, C!Spec

=============================================================================
