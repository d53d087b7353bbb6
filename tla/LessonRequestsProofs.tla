-------------------------- MODULE LessonRequestsProofs --------------------------
(***************************************************************************)
(* Proofs about LessonRequests, for any number of requests, lessons and    *)
(* handlers and any size of the pool.                                      *)
(*                                                                         *)
(* That one lesson is made for a request rests on the row lock: Exclusive  *)
(* says that one handler holds it, LockedOpen that the request it found    *)
(* open stays so.  SeenKept is what a handler may still rely on when it    *)
(* writes: a lesson that was named is never taken away again, which keeps  *)
(* BookedHasLesson although a write carries only some columns.             *)
(***************************************************************************)
EXTENDS LessonRequests, TLAPS

Holding(h) == handler[h].at \in {"locked", "made"}
Deciding(h) == handler[h].at \in {"read", "wait"}

Exclusive ==
  \A g, h \in Handlers :
    Holding(g) /\ Holding(h) /\ handler[g].request = handler[h].request => g = h

LockedOpen ==
  \A h \in Handlers : Holding(h) =>
    Exists(handler[h].request) /\ ~Taken(row[handler[h].request])

MadeForIt ==
  \A h \in Handlers : handler[h].at = "made" => maker[handler[h].lesson] = handler[h].request

SeenKept ==
  \A h \in Handlers : Deciding(h) =>
    /\ Allows(handler[h].do, handler[h].seen, handler[h].lesson)
    /\ handler[h].do = "link" => handler[h].lesson # None
    /\ handler[h].seen.status = "booked" => handler[h].seen.lesson # None
    /\ handler[h].seen.lesson # None => row[handler[h].request].lesson # None

NamedIsBooked ==
  \A r \in Requests : ~crossed[r] /\ row[r].lesson # None => row[r].status = "booked"

\* A booked request names a lesson, also when writes that carry only some
\* columns cross (markContacted, cancel, linkExistingBooking).
BookedHasLesson == \A r \in Requests : row[r].status = "booked" => row[r].lesson # None

IInv ==
  /\ TypeOK
  /\ Exclusive
  /\ LockedOpen
  /\ MadeForIt
  /\ SeenKept
  /\ NamedIsBooked
  /\ LessonIsNamed
  /\ BookedHasLesson

-----------------------------------------------------------------------------

\* A handler that is not idle and not asking has a task.
LEMMA HasTask ==
  ASSUME TypeOK, NEW h \in Handlers, handler[h].at \in {"read", "wait", "locked", "made"}
  PROVE  handler[h] \in Working
  BY DEF TypeOK, Idle, Ask

\* The initial states.
LEMMA InitIInv == Init => IInv
  <1> SUFFICES ASSUME Init PROVE IInv
    OBVIOUS
  <1>1. \A h \in Handlers : handler[h].at = "idle"
    BY DEF Init, Idle
  <1>2. TypeOK
    BY <1>1 DEF Init, TypeOK, Row, Statuses
  <1>3. Exclusive /\ LockedOpen /\ MadeForIt /\ SeenKept
    BY <1>1 DEF Exclusive, LockedOpen, MadeForIt, SeenKept, Holding, Deciding
  <1>4. NamedIsBooked /\ LessonIsNamed /\ BookedHasLesson
    BY OfficeAssumption DEF Init, NamedIsBooked, LessonIsNamed, BookedHasLesson
  <1>5. QED
    BY <1>2, <1>3, <1>4 DEF IInv

\* Handlers that end, or only read and wait, change nothing the invariant
\* says of the rows: what they still hold, they held before.
LEMMA HandlersOnly ==
  ASSUME IInv, UNCHANGED <<row, maker, crossed>>, handler' \in [Handlers -> Working \cup {Idle, Ask}],
         \A h \in Handlers :
           \/ handler'[h] = handler[h]
           \/ handler'[h] = Idle /\ handler[h].at # "made"
           \/ handler'[h] = Ask /\ handler[h] = Idle
  PROVE  IInv'
  <1>1. \A h \in Handlers : handler'[h].at \in {"read", "wait", "locked", "made"} => handler'[h] = handler[h]
    BY DEF Idle, Ask
  <1>2. \A h \in Handlers : handler[h].at = "made" => handler'[h] = handler[h]
    BY DEF Idle
  <1>3. TypeOK'
    BY <1>1 DEF IInv, TypeOK
  <1>4. Exclusive'
    BY <1>1 DEF IInv, Exclusive, Holding
  <1>5. LockedOpen'
    BY <1>1 DEF IInv, LockedOpen, Holding, Exists
  <1>6. MadeForIt'
    BY <1>1 DEF IInv, MadeForIt
  <1>7. SeenKept'
    BY <1>1 DEF IInv, SeenKept, Deciding
  <1>8. NamedIsBooked' /\ BookedHasLesson'
    BY DEF IInv, NamedIsBooked, BookedHasLesson
  <1>9. LessonIsNamed'
    BY <1>2 DEF IInv, LessonIsNamed
  <1>10. QED
    BY <1>3, <1>4, <1>5, <1>6, <1>7, <1>8, <1>9 DEF IInv

\* A handler begins: it finds no pending request, or reads a row.
LEMMA BeginStep ==
  ASSUME IInv, NEW h \in Handlers, Begin(h)
  PROVE  IInv'
  <1>1. CASE BeginAsk(h)
    BY <1>1, HandlersOnly DEF BeginAsk, IInv, TypeOK
  <1>2. ASSUME NEW r \in Requests, NEW do \in Tasks, NEW l \in Lessons \cup {None}, Read(h, r, do, l)
        PROVE  IInv'
    <2> DEFINE new == [at |-> "read", do |-> do, request |-> r, seen |-> row[r], lesson |-> l]
    <2>1. new \in Working
      BY DEF IInv, TypeOK, Working
    <2>2. /\ handler' = [handler EXCEPT ![h] = new]
          /\ UNCHANGED <<row, maker, crossed>>
      BY <1>2 DEF Read
    <2>3. /\ \A g \in Handlers : g # h => handler'[g] = handler[g]
          /\ handler'[h] = new /\ handler[h] = Idle
      BY <1>2, <2>2 DEF Read, IInv, TypeOK
    <2>4. new.at = "read" /\ new.do = do /\ new.request = r /\ new.seen = row[r] /\ new.lesson = l
      OBVIOUS
    <2> HIDE DEF new
    <2>5. \A g \in Handlers : handler'[g].at \in {"locked", "made"} => handler'[g] = handler[g]
      BY <2>3, <2>4
    <2>6. \A g \in Handlers : handler[g].at = "made" => handler'[g] = handler[g]
      BY <2>3 DEF Idle
    <2>7. TypeOK'
      BY <2>1, <2>2, <2>5 DEF IInv, TypeOK
    <2>8. Exclusive' /\ LockedOpen' /\ MadeForIt'
      BY <2>2, <2>5 DEF IInv, Exclusive, LockedOpen, MadeForIt, Holding, Exists
    <2>9. /\ Allows(do, row[r], l)
          /\ do = "link" => l # None
      BY <1>2, OfficeAssumption DEF Read, Target
    <2>10. SeenKept'
      BY <2>2, <2>3, <2>4, <2>9 DEF IInv, SeenKept, Deciding, BookedHasLesson
    <2>11. NamedIsBooked' /\ BookedHasLesson' /\ LessonIsNamed'
      BY <2>2, <2>6 DEF IInv, NamedIsBooked, BookedHasLesson, LessonIsNamed
    <2>12. QED
      BY <2>7, <2>8, <2>10, <2>11 DEF IInv
  <1>3. QED
    BY <1>1, <1>2 DEF Begin

\* The student's request is created: a row nobody works on.
LEMMA FinishAskStep ==
  ASSUME IInv, NEW h \in Handlers, FinishAsk(h)
  PROVE  IInv'
  <1>1. /\ \A g \in Handlers : g # h => handler'[g] = handler[g]
        /\ handler'[h] = Idle /\ handler[h] = Ask /\ UNCHANGED <<maker, crossed>>
        /\ handler' \in [Handlers -> Working \cup {Idle, Ask}]
    BY DEF FinishAsk, Ends, IInv, TypeOK
  <1>2. CASE UNCHANGED row
    BY <1>1, <1>2, HandlersOnly DEF Ask
  <1>3. ASSUME NEW r \in Requests, row[r].status = "none", row' = [row EXCEPT ![r].status = "pending"]
        PROVE  IInv'
    <2>1. \A g \in Handlers : handler'[g].at \in {"read", "wait", "locked", "made"} => handler'[g] = handler[g]
      BY <1>1 DEF Idle
    <2>2. \A g \in Handlers : handler[g].at = "made" => handler'[g] = handler[g]
      BY <1>1 DEF Ask
    <2>3. /\ row' \in [Requests -> Row] /\ row[r] \in Row
          /\ row'[r].status = "pending" /\ row'[r].lesson = row[r].lesson
          /\ \A q \in Requests : q # r => row'[q] = row[q]
      BY <1>3 DEF IInv, TypeOK, Row, Statuses
    <2>4. TypeOK'
      BY <1>1, <2>1, <2>3 DEF IInv, TypeOK
    <2>5. Exclusive' /\ MadeForIt'
      BY <1>1, <2>1 DEF IInv, Exclusive, MadeForIt, Holding
    <2>6. LockedOpen'
      BY <1>3, <2>1, <2>3, HasTask DEF IInv, LockedOpen, Holding, Exists, Taken, Working
    <2>7. SeenKept'
      BY <2>1, <2>3, HasTask DEF IInv, SeenKept, Deciding, Working
    <2>8. NamedIsBooked' /\ BookedHasLesson'
      BY <1>1, <1>3, <2>3 DEF IInv, NamedIsBooked, BookedHasLesson
    <2>9. LessonIsNamed'
      <3> SUFFICES ASSUME NEW q \in Requests, ~crossed[q], NEW l \in Lessons, maker[l] = q
                   PROVE  \/ row'[q] = [status |-> "booked", lesson |-> l]
                          \/ \E g \in Handlers : /\ handler'[g].at = "made" /\ handler'[g].request = q
                                                 /\ handler'[g].lesson = l
        BY <1>1 DEF LessonIsNamed
      <3>1. \/ row[q] = [status |-> "booked", lesson |-> l]
            \/ \E g \in Handlers : handler[g].at = "made" /\ handler[g].request = q /\ handler[g].lesson = l
        BY DEF IInv, LessonIsNamed
      <3>2. row[q] = [status |-> "booked", lesson |-> l] => q # r
        BY <1>3
      <3>3. QED
        BY <2>2, <2>3, <3>1, <3>2
    <2>10. QED
      BY <2>4, <2>5, <2>6, <2>7, <2>8, <2>9 DEF IInv
  <1>4. QED
    BY <1>2, <1>3 DEF FinishAsk

\* A handler gets its connection and still remembers what it read.
LEMMA ConnectStep ==
  ASSUME IInv, NEW h \in Handlers, Connect(h)
  PROVE  IInv'
  <1>1. handler[h] \in Working
    BY HasTask DEF Connect, IInv
  <1>2. /\ handler' \in [Handlers -> Working \cup {Idle, Ask}]
        /\ \A g \in Handlers : g # h => handler'[g] = handler[g]
        /\ handler'[h] = [handler[h] EXCEPT !.at = "wait"]
        /\ UNCHANGED <<row, maker, crossed>>
    BY <1>1 DEF Connect, Goes, IInv, TypeOK, Working
  <1>3. /\ handler[h].at = "read" /\ handler'[h].at = "wait"
        /\ handler'[h].do = handler[h].do /\ handler'[h].request = handler[h].request
        /\ handler'[h].seen = handler[h].seen /\ handler'[h].lesson = handler[h].lesson
    BY <1>1, <1>2 DEF Connect, Working
  <1>4. \A g \in Handlers :
          handler'[g].at \in {"locked", "made"} \/ handler[g].at = "made" => handler'[g] = handler[g]
    BY <1>2, <1>3
  <1>5. TypeOK'
    BY <1>2, <1>4 DEF IInv, TypeOK
  <1>6. Exclusive' /\ LockedOpen' /\ MadeForIt'
    BY <1>2, <1>4 DEF IInv, Exclusive, LockedOpen, MadeForIt, Holding, Exists
  <1>7. SeenKept'
    <2>1. /\ Allows(handler[h].do, handler[h].seen, handler[h].lesson)
          /\ handler[h].do = "link" => handler[h].lesson # None
          /\ handler[h].seen.status = "booked" => handler[h].seen.lesson # None
          /\ handler[h].seen.lesson # None => row[handler[h].request].lesson # None
      BY <1>3 DEF IInv, SeenKept, Deciding
    <2>2. Allows(handler'[h].do, handler'[h].seen, handler'[h].lesson)
      BY <2>1, <1>3, Zenon
    <2>3. ASSUME NEW g \in Handlers, g # h, Deciding(g)'
          PROVE  Deciding(g) /\ handler'[g] = handler[g]
      BY <1>2, <2>3 DEF Deciding
    <2>4. ASSUME NEW g \in Handlers, Deciding(g)'
          PROVE  (/\ Allows(handler[g].do, handler[g].seen, handler[g].lesson)
                  /\ handler[g].do = "link" => handler[g].lesson # None
                  /\ handler[g].seen.status = "booked" => handler[g].seen.lesson # None
                  /\ handler[g].seen.lesson # None => row[handler[g].request].lesson # None)'
      <3>1. CASE g = h
        BY <1>2, <1>3, <2>1, <2>2, <3>1
      <3>2. CASE g # h
        BY <1>2, <2>3, <2>4, <3>2 DEF IInv, SeenKept
      <3>3. QED
        BY <3>1, <3>2
    <2>5. QED
      BY <2>4 DEF SeenKept
  <1>8. NamedIsBooked' /\ BookedHasLesson' /\ LessonIsNamed'
    BY <1>2, <1>4 DEF IInv, NamedIsBooked, BookedHasLesson, LessonIsNamed
  <1>9. QED
    BY <1>5, <1>6, <1>7, <1>8 DEF IInv

\* What a handler that does not book wants to set the row to.
LEMMA WantedRow ==
  ASSUME IInv, NEW h \in Handlers, handler[h].at = "wait", handler[h].do # "book"
  PROVE  LET seen == handler[h].seen
             w == Wanted(handler[h].do, seen, handler[h].lesson) IN
         /\ w \in Row /\ seen \in Row
         /\ w.status # "booked" => w.lesson = seen.lesson /\ seen.status # "booked"
         /\ w.status = "booked" => w.lesson # None /\ (seen.status = "booked" => w = seen)
  <1> DEFINE seen == handler[h].seen
             l == handler[h].lesson
             w == Wanted(handler[h].do, seen, l)
  <1>1. handler[h] \in Working
    BY HasTask DEF IInv
  <1>2. /\ seen \in Row /\ l \in Lessons \cup {None} /\ handler[h].do \in Tasks
        /\ seen = [status |-> seen.status, lesson |-> seen.lesson]
    BY <1>1 DEF Working, Row
  <1>3. /\ Allows(handler[h].do, seen, l)
        /\ handler[h].do = "link" => l # None
        /\ seen.status = "booked" => seen.lesson # None
    BY DEF IInv, SeenKept, Deciding
  <1>4. CASE handler[h].do = "contact"
    <2>1. w = [status |-> "contacted", lesson |-> seen.lesson]
      BY <1>2, <1>4 DEF Wanted, Row
    <2>2. seen.status # "booked"
      BY <1>3, <1>4 DEF Allows, Settled
    <2>3. QED
      BY <1>2, <2>1, <2>2 DEF Row, Statuses
  <1>5. CASE handler[h].do = "cancel"
    <2>1. w = [status |-> "cancelled", lesson |-> seen.lesson]
      BY <1>2, <1>5 DEF Wanted, Row
    <2>2. seen.status # "booked"
      BY <1>3, <1>5 DEF Allows, Settled
    <2>3. QED
      BY <1>2, <2>1, <2>2 DEF Row, Statuses
  <1>6. CASE handler[h].do = "remove"
    <2>1. w = [status |-> "removed", lesson |-> seen.lesson]
      BY <1>2, <1>6 DEF Wanted, Row
    <2>2. seen.status # "booked"
      BY <1>3, <1>6 DEF Allows
    <2>3. QED
      BY <1>2, <2>1, <2>2 DEF Row, Statuses
  <1>7. CASE handler[h].do = "link"
    <2>1. w = [status |-> "booked", lesson |-> l] /\ l # None
      BY <1>3, <1>7 DEF Wanted
    <2>2. seen.status = "booked" => seen.lesson = l
      BY <1>3, <1>7 DEF Allows, Fits, Taken
    <2>3. QED
      BY <1>2, <2>1, <2>2 DEF Row, Statuses
  <1>8. QED
    BY <1>2, <1>4, <1>5, <1>6, <1>7 DEF Tasks

\* What a write makes of the row: over the row it had read it leaves a booked
\* one as it is and gives another a lesson only by booking it; over any other
\* it takes no lesson away and books only with one.
LEMMA WriteRow ==
  ASSUME IInv, NEW h \in Handlers, handler[h].at = "wait", handler[h].do # "book"
  PROVE  LET r    == handler[h].request
             seen == handler[h].seen
             new  == Merged(row[r], seen, Wanted(handler[h].do, seen, handler[h].lesson)) IN
         /\ r \in Requests /\ new \in Row
         /\ row[r].lesson # None => new.lesson # None
         /\ new.status = "booked" => new.lesson # None
         /\ seen = row[r] /\ row[r].status = "booked" => new = row[r]
         /\ seen = row[r] /\ new.status # "booked" => new.lesson = row[r].lesson
  <1> DEFINE r    == handler[h].request
             seen == handler[h].seen
             w    == Wanted(handler[h].do, seen, handler[h].lesson)
             old  == row[r]
             new  == Merged(old, seen, w)
  <1>1. r \in Requests /\ old \in Row
    BY HasTask DEF IInv, TypeOK, Working
  <1>2. /\ w \in Row /\ seen \in Row
        /\ w.status # "booked" => w.lesson = seen.lesson /\ seen.status # "booked"
        /\ w.status = "booked" => w.lesson # None /\ (seen.status = "booked" => w = seen)
    BY WantedRow
  <1>3. /\ seen.lesson # None => old.lesson # None
        /\ seen.status = "booked" => seen.lesson # None
    BY DEF IInv, SeenKept, Deciding
  <1>4. old.status = "booked" => old.lesson # None
    BY <1>1 DEF IInv, BookedHasLesson
  <1> HIDE DEF w, old, seen
  <1>5. new = [status |-> IF w.status = seen.status THEN old.status ELSE w.status,
               lesson |-> IF w.lesson = seen.lesson THEN old.lesson ELSE w.lesson]
    BY DEF Merged
  <1>6. /\ new.status = IF w.status = seen.status THEN old.status ELSE w.status
        /\ new.lesson = IF w.lesson = seen.lesson THEN old.lesson ELSE w.lesson
    BY <1>5
  <1>7. new \in Row
    BY <1>1, <1>2, <1>5 DEF Row
  <1>8. old.lesson # None => new.lesson # None
    BY <1>2, <1>3, <1>6
  <1>9. new.status = "booked" => new.lesson # None
    BY <1>2, <1>3, <1>4, <1>6
  <1>10. seen = old /\ old.status = "booked" => new = old
    BY <1>1, <1>2, <1>5 DEF Row
  <1>11. seen = old /\ new.status # "booked" => new.lesson = old.lesson
    BY <1>2, <1>6
  <1>12. QED
    BY <1>1, <1>7, <1>8, <1>9, <1>10, <1>11 DEF w, old, seen

\* A write of a handler that does not book, of a row nobody holds.
LEMMA WriteStep ==
  ASSUME IInv, NEW h \in Handlers, Write(h)
  PROVE  IInv'
  <1> DEFINE r    == handler[h].request
             seen == handler[h].seen
             new  == Merged(row[r], seen, Wanted(handler[h].do, seen, handler[h].lesson))
  <1>1. /\ handler[h].at = "wait" /\ handler[h].do # "book" /\ ~Locked(r)
        /\ UNCHANGED maker
        /\ handler' = [handler EXCEPT ![h] = Idle]
    BY DEF Write, Ends
  <1>2. /\ handler' \in [Handlers -> Working \cup {Idle, Ask}]
        /\ \A g \in Handlers : g # h => handler'[g] = handler[g]
        /\ handler'[h] = Idle
    BY <1>1 DEF IInv, TypeOK
  <1>3. CASE UNCHANGED <<row, crossed>>
    BY <1>1, <1>2, <1>3, HandlersOnly
  <1>4. CASE /\ row' = [row EXCEPT ![r] = new]
             /\ crossed' = [crossed EXCEPT ![r] = @ \/ seen # row[r]]
    <2>1. /\ r \in Requests /\ new \in Row
          /\ row[r].lesson # None => new.lesson # None
          /\ new.status = "booked" => new.lesson # None
          /\ seen = row[r] /\ row[r].status = "booked" => new = row[r]
          /\ seen = row[r] /\ new.status # "booked" => new.lesson = row[r].lesson
      BY <1>1, WriteRow
    <2> HIDE DEF new
    <2>2. /\ row' \in [Requests -> Row] /\ row'[r] = new
          /\ \A q \in Requests : q # r => row'[q] = row[q]
      BY <1>4, <2>1 DEF IInv, TypeOK
    <2>3. /\ crossed' \in [Requests -> BOOLEAN]
          /\ ~crossed'[r] => ~crossed[r] /\ seen = row[r]
          /\ \A q \in Requests : q # r => crossed'[q] = crossed[q]
      BY <1>4, <2>1 DEF IInv, TypeOK
    <2> HIDE DEF r, seen
    <2>4. \A g \in Handlers : Holding(g) => handler[g].request # r
      BY <1>1 DEF Locked, Holding
    <2>5. \A g \in Handlers : handler'[g].at \in {"read", "wait", "locked", "made"} => handler'[g] = handler[g]
      BY <1>2 DEF Idle
    <2>6. \A g \in Handlers : handler[g].at = "made" => handler'[g] = handler[g]
      BY <1>1, <1>2
    <2>7. TypeOK'
      BY <1>1, <1>2, <2>2, <2>3, <2>5 DEF IInv, TypeOK
    <2>8. Exclusive' /\ MadeForIt'
      BY <1>1, <2>5 DEF IInv, Exclusive, MadeForIt, Holding
    <2>9. LockedOpen'
      BY <2>2, <2>4, <2>5, HasTask DEF IInv, LockedOpen, Holding, Exists, Working
    <2>10. SeenKept'
      BY <2>1, <2>2, <2>5, HasTask DEF IInv, SeenKept, Deciding, Working
    <2>11. BookedHasLesson'
      BY <2>1, <2>2 DEF IInv, BookedHasLesson
    <2>12. NamedIsBooked'
      <3> SUFFICES ASSUME NEW q \in Requests, ~crossed'[q], row'[q].lesson # None
                   PROVE  row'[q].status = "booked"
        BY DEF NamedIsBooked
      <3>1. CASE q # r
        BY <2>2, <2>3, <3>1 DEF IInv, NamedIsBooked
      <3>2. CASE q = r
        BY <2>1, <2>2, <2>3, <3>2 DEF IInv, NamedIsBooked
      <3>3. QED
        BY <3>1, <3>2
    <2>13. LessonIsNamed'
      <3> SUFFICES ASSUME NEW q \in Requests, ~crossed'[q], NEW l \in Lessons, maker[l] = q
                   PROVE  \/ row'[q] = [status |-> "booked", lesson |-> l]
                          \/ \E g \in Handlers : /\ handler'[g].at = "made" /\ handler'[g].request = q
                                                 /\ handler'[g].lesson = l
        BY <1>1 DEF LessonIsNamed
      <3>1. \/ row[q] = [status |-> "booked", lesson |-> l]
            \/ \E g \in Handlers : handler[g].at = "made" /\ handler[g].request = q /\ handler[g].lesson = l
        BY <2>3 DEF IInv, LessonIsNamed
      <3>2. CASE \E g \in Handlers : handler[g].at = "made" /\ handler[g].request = q /\ handler[g].lesson = l
        BY <2>6, <3>2
      <3>3. CASE row[q] = [status |-> "booked", lesson |-> l]
        BY <2>1, <2>2, <2>3, <3>3
      <3>4. QED
        BY <3>1, <3>2, <3>3
    <2>14. QED
      BY <2>7, <2>8, <2>9, <2>10, <2>11, <2>12, <2>13 DEF IInv
  <1>5. QED
    BY <1>3, <1>4 DEF Write

\* The row lock is taken, of a request that is still open.
LEMMA LockStep ==
  ASSUME IInv, NEW h \in Handlers, Lock(h)
  PROVE  IInv'
  <1> DEFINE r == handler[h].request
  <1>1. /\ handler[h].at = "wait" /\ handler[h].do = "book" /\ ~Locked(r)
        /\ UNCHANGED <<row, maker, crossed>>
    BY DEF Lock
  <1>2. handler[h] \in Working
    BY <1>1, HasTask DEF IInv
  <1>3. CASE Ends(h)
    BY <1>1, <1>3, HandlersOnly DEF Ends, IInv, TypeOK
  <1>4. CASE Bookable(r) /\ Goes(h, "locked")
    <2>1. /\ handler' \in [Handlers -> Working \cup {Idle, Ask}]
          /\ \A g \in Handlers : g # h => handler'[g] = handler[g]
          /\ handler'[h] = [handler[h] EXCEPT !.at = "locked"]
      BY <1>2, <1>4 DEF Goes, IInv, TypeOK, Working
    <2>2. handler'[h].at = "locked" /\ handler'[h].do = "book" /\ handler'[h].request = r
      BY <1>1, <1>2, <2>1 DEF Working
    <2>3. \A g \in Handlers : Holding(g) => handler[g].request # r
      BY <1>1 DEF Locked, Holding
    <2>4. Exists(r) /\ ~Taken(row[r])
      BY <1>4 DEF Bookable
    <2> HIDE DEF r
    <2>5. \A g \in Handlers : handler[g].at = "made" \/ handler'[g].at = "made" => handler'[g] = handler[g]
      BY <1>1, <2>1, <2>2
    <2>6. TypeOK'
      BY <1>1, <2>1, <2>2 DEF IInv, TypeOK
    <2>7. Exclusive'
      <3>1. ASSUME NEW g \in Handlers, g # h, Holding(g)'
            PROVE  Holding(g) /\ handler'[g] = handler[g] /\ handler'[g].request # r
        BY <2>1, <2>3, <3>1 DEF Holding
      <3>2. QED
        BY <2>2, <3>1 DEF IInv, Exclusive
    <2>8. LockedOpen'
      <3>1. ASSUME NEW g \in Handlers, Holding(g)'
            PROVE  (Exists(handler[g].request) /\ ~Taken(row[handler[g].request]))'
        <4>1. CASE g = h
          <5>1. handler'[g].request = r /\ row' = row
            BY <1>1, <2>2, <4>1
          <5>2. QED
            BY <2>4, <5>1 DEF Exists, Taken
        <4>2. CASE g # h
          BY <1>1, <2>1, <3>1, <4>2 DEF IInv, LockedOpen, Holding, Exists, Taken
        <4>3. QED
          BY <4>1, <4>2
      <3>2. QED
        BY <3>1 DEF LockedOpen
    <2>9. MadeForIt'
      BY <1>1, <2>5 DEF IInv, MadeForIt
    <2>10. SeenKept'
      BY <1>1, <2>1, <2>2 DEF IInv, SeenKept, Deciding
    <2>11. NamedIsBooked' /\ BookedHasLesson' /\ LessonIsNamed'
      BY <1>1, <2>5 DEF IInv, NamedIsBooked, BookedHasLesson, LessonIsNamed
    <2>12. QED
      BY <2>6, <2>7, <2>8, <2>9, <2>10, <2>11 DEF IInv
  <1>5. QED
    BY <1>3, <1>4 DEF Lock

\* The lesson is made, of an id no other handler has.
LEMMA MakeLessonStep ==
  ASSUME IInv, NEW h \in Handlers, NEW l \in Lessons, MakeLesson(h, l)
  PROVE  IInv'
  <1> DEFINE r == handler[h].request
  <1>1. /\ handler[h].at = "locked" /\ maker[l] = None
        /\ maker' = [maker EXCEPT ![l] = r]
        /\ handler' = [handler EXCEPT ![h].at = "made", ![h].lesson = l]
        /\ UNCHANGED <<row, crossed>>
    BY DEF MakeLesson
  <1>2. handler[h] \in Working /\ handler[h].do = "book" /\ l # None
    BY <1>1, HasTask, OfficeAssumption DEF IInv, TypeOK
  <1>3. /\ r \in Requests /\ r # None
        /\ handler' = [handler EXCEPT ![h] = [handler[h] EXCEPT !.at = "made", !.lesson = l]]
    BY <1>1, <1>2, OfficeAssumption DEF Working, IInv, TypeOK
  <1>4. [handler[h] EXCEPT !.at = "made", !.lesson = l] \in Working
    BY <1>2 DEF Working
  <1>5. /\ handler' \in [Handlers -> Working \cup {Idle, Ask}]
        /\ \A g \in Handlers : g # h => handler'[g] = handler[g]
        /\ handler'[h] = [handler[h] EXCEPT !.at = "made", !.lesson = l]
    BY <1>3, <1>4 DEF IInv, TypeOK
  <1>6. handler'[h].at = "made" /\ handler'[h].do = "book" /\ handler'[h].request = r /\ handler'[h].lesson = l
    BY <1>2, <1>5 DEF Working
  <1>7. /\ maker' \in [Lessons -> Requests \cup {Office, None}]
        /\ maker'[l] = r
        /\ \A k \in Lessons : k # l => maker'[k] = maker[k]
    BY <1>1, <1>3 DEF IInv, TypeOK
  <1> HIDE DEF r
  <1>8. TypeOK'
    BY <1>1, <1>2, <1>5, <1>6, <1>7 DEF IInv, TypeOK
  <1>9. \A g \in Handlers : Holding(g)' => Holding(g) /\ handler'[g].request = handler[g].request
    BY <1>1, <1>5, <1>6 DEF Holding, r
  <1>10. Exclusive' /\ LockedOpen'
    BY <1>1, <1>9 DEF IInv, Exclusive, LockedOpen, Exists
  <1>11. MadeForIt'
    <2>1. ASSUME NEW g \in Handlers, g # h, handler[g].at = "made"
          PROVE  handler[g].lesson \in Lessons /\ handler[g].lesson # l
      <3>1. handler[g] \in Working /\ handler[g].lesson # None
        BY <2>1, HasTask DEF IInv, TypeOK
      <3>2. maker[handler[g].lesson] \in Requests
        BY <2>1, <3>1 DEF IInv, MadeForIt, Working
      <3>3. QED
        BY <1>1, <3>1, <3>2, OfficeAssumption DEF Working
    <2>2. QED
      <3>1. ASSUME NEW g \in Handlers, handler'[g].at = "made"
            PROVE  maker'[handler'[g].lesson] = handler'[g].request
        <4>1. CASE g = h
          BY <1>6, <1>7, <4>1
        <4>2. CASE g # h
          <5>1. handler'[g] = handler[g] /\ handler[g].at = "made"
            BY <1>5, <3>1, <4>2
          <5>2. maker[handler[g].lesson] = handler[g].request
            BY <5>1 DEF IInv, MadeForIt
          <5>3. QED
            BY <1>7, <2>1, <4>2, <5>1, <5>2
        <4>3. QED
          BY <4>1, <4>2
      <3>2. QED
        BY <3>1 DEF MadeForIt
  <1>12. SeenKept'
    BY <1>1, <1>5, <1>6 DEF IInv, SeenKept, Deciding
  <1>13. NamedIsBooked' /\ BookedHasLesson'
    BY <1>1 DEF IInv, NamedIsBooked, BookedHasLesson
  <1>14. LessonIsNamed'
    <2> SUFFICES ASSUME NEW q \in Requests, ~crossed[q], NEW k \in Lessons, maker'[k] = q
                 PROVE  \/ row[q] = [status |-> "booked", lesson |-> k]
                        \/ \E g \in Handlers : /\ handler'[g].at = "made" /\ handler'[g].request = q
                                               /\ handler'[g].lesson = k
      BY <1>1 DEF LessonIsNamed
    <2>1. CASE k = l
      BY <1>6, <1>7, <2>1
    <2>2. CASE k # l
      <3>1. \/ row[q] = [status |-> "booked", lesson |-> k]
            \/ \E g \in Handlers : handler[g].at = "made" /\ handler[g].request = q /\ handler[g].lesson = k
        BY <1>7, <2>2 DEF IInv, LessonIsNamed
      <3>2. QED
        BY <1>1, <1>5, <3>1
    <2>3. QED
      BY <2>1, <2>2
  <1>15. QED
    BY <1>8, <1>10, <1>11, <1>12, <1>13, <1>14 DEF IInv

\* The request names the lesson it was locked for.
LEMMA NameLessonStep ==
  ASSUME IInv, NEW h \in Handlers, NameLesson(h)
  PROVE  IInv'
  <1> DEFINE r   == handler[h].request
             l   == handler[h].lesson
             new == [status |-> "booked", lesson |-> l]
  <1>1. /\ handler[h].at = "made"
        /\ row' = [row EXCEPT ![r] = new]
        /\ handler' = [handler EXCEPT ![h] = Idle]
        /\ UNCHANGED <<maker, crossed>>
    BY DEF NameLesson, Ends
  <1>2. handler[h] \in Working /\ l # None
    BY <1>1, HasTask DEF IInv, TypeOK
  <1>3. r \in Requests /\ l \in Lessons /\ maker[l] = r
    BY <1>1, <1>2 DEF Working, IInv, MadeForIt
  <1>4. new \in Row
    BY <1>3 DEF Row, Statuses
  <1>5. new.status = "booked" /\ new.lesson = l
    OBVIOUS
  <1> HIDE DEF new
  <1>6. /\ row' \in [Requests -> Row] /\ row'[r] = new
        /\ \A q \in Requests : q # r => row'[q] = row[q]
    BY <1>1, <1>3, <1>4 DEF IInv, TypeOK
  <1>7. /\ handler' \in [Handlers -> Working \cup {Idle, Ask}]
        /\ \A g \in Handlers : g # h => handler'[g] = handler[g]
        /\ handler'[h] = Idle
    BY <1>1 DEF IInv, TypeOK
  <1>8. \A g \in Handlers : handler'[g].at \in {"read", "wait", "locked", "made"} =>
          handler'[g] = handler[g] /\ g # h
    BY <1>7 DEF Idle
  <1>9. \A g \in Handlers : Holding(g) /\ g # h => handler[g].request # r
    BY <1>1 DEF IInv, Exclusive, Holding
  <1>10. TypeOK'
    BY <1>1, <1>6, <1>7, <1>8 DEF IInv, TypeOK
  <1>11. Exclusive' /\ MadeForIt'
    BY <1>1, <1>8 DEF IInv, Exclusive, MadeForIt, Holding
  <1>12. \A g \in Handlers : Holding(g)' =>
           /\ Holding(g) /\ g # h /\ handler'[g] = handler[g]
           /\ handler[g].request \in Requests
    BY <1>8, HasTask DEF Holding, IInv, Working
  <1>13. LockedOpen'
    BY <1>6, <1>9, <1>12 DEF IInv, LockedOpen, Exists
  <1>14. SeenKept'
    BY <1>2, <1>5, <1>6, <1>8, HasTask DEF IInv, SeenKept, Deciding, Working
  <1>15. NamedIsBooked' /\ BookedHasLesson'
    BY <1>1, <1>2, <1>5, <1>6 DEF IInv, NamedIsBooked, BookedHasLesson
  <1>16. LessonIsNamed'
    <2> SUFFICES ASSUME NEW q \in Requests, ~crossed[q], NEW k \in Lessons, maker[k] = q
                 PROVE  \/ row'[q] = [status |-> "booked", lesson |-> k]
                        \/ \E g \in Handlers : /\ handler'[g].at = "made" /\ handler'[g].request = q
                                               /\ handler'[g].lesson = k
      BY <1>1 DEF LessonIsNamed
    <2>1. CASE row[q] = [status |-> "booked", lesson |-> k]
      <3>1. Taken(row[q])
        BY <2>1, OfficeAssumption DEF Taken
      <3>2. q # r
        BY <1>1, <3>1 DEF IInv, LockedOpen, Holding
      <3>3. QED
        BY <1>6, <2>1, <3>2
    <2>2. ASSUME NEW g \in Handlers, handler[g].at = "made", handler[g].request = q, handler[g].lesson = k
          PROVE  \/ row'[q] = [status |-> "booked", lesson |-> k]
                 \/ \E f \in Handlers : /\ handler'[f].at = "made" /\ handler'[f].request = q
                                        /\ handler'[f].lesson = k
      <3>1. CASE g = h
        BY <1>6, <2>2, <3>1 DEF new
      <3>2. CASE g # h
        BY <1>7, <2>2, <3>2
      <3>3. QED
        BY <3>1, <3>2
    <2>3. QED
      BY <2>1, <2>2 DEF IInv, LessonIsNamed
  <1>17. QED
    BY <1>10, <1>11, <1>13, <1>14, <1>15, <1>16 DEF IInv

\* Handlers break off; those that had made a lesson are remembered.
LEMMA BreakOffStep ==
  ASSUME IInv, NEW S \in SUBSET Handlers, BreakOff(S)
  PROVE  IInv'
  <1>1. /\ UNCHANGED <<row, maker>>
        /\ handler' \in [Handlers -> Working \cup {Idle, Ask}]
        /\ crossed' \in [Requests -> BOOLEAN]
        /\ \A g \in Handlers : handler'[g] = IF g \in S THEN Idle ELSE handler[g]
        /\ \A r \in Requests : ~crossed'[r] =>
             ~crossed[r] /\ \A g \in S : ~(handler[g].at = "made" /\ handler[g].request = r)
    BY DEF BreakOff, IInv, TypeOK
  <1>2. \A g \in Handlers : handler'[g].at \in {"read", "wait", "locked", "made"} => handler'[g] = handler[g]
    BY <1>1 DEF Idle
  <1>3. TypeOK'
    BY <1>1, <1>2 DEF IInv, TypeOK
  <1>4. Exclusive' /\ LockedOpen' /\ MadeForIt'
    BY <1>1, <1>2 DEF IInv, Exclusive, LockedOpen, MadeForIt, Holding, Exists
  <1>5. SeenKept'
    BY <1>1, <1>2 DEF IInv, SeenKept, Deciding
  <1>6. NamedIsBooked' /\ BookedHasLesson'
    BY <1>1 DEF IInv, NamedIsBooked, BookedHasLesson
  <1>7. LessonIsNamed'
    <2> SUFFICES ASSUME NEW q \in Requests, ~crossed'[q], NEW k \in Lessons, maker[k] = q
                 PROVE  \/ row[q] = [status |-> "booked", lesson |-> k]
                        \/ \E g \in Handlers : /\ handler'[g].at = "made" /\ handler'[g].request = q
                                               /\ handler'[g].lesson = k
      BY <1>1 DEF LessonIsNamed
    <2>1. \/ row[q] = [status |-> "booked", lesson |-> k]
          \/ \E g \in Handlers : handler[g].at = "made" /\ handler[g].request = q /\ handler[g].lesson = k
      BY <1>1 DEF IInv, LessonIsNamed
    <2>2. QED
      BY <1>1, <2>1
  <1>8. QED
    BY <1>3, <1>4, <1>5, <1>6, <1>7 DEF IInv

\* A lesson the office books is made for no request.
LEMMA OfficeStep ==
  ASSUME IInv, NEW l \in Lessons, OfficeBooks(l)
  PROVE  IInv'
  <1>1. /\ maker[l] = None /\ UNCHANGED <<row, handler, crossed>>
        /\ maker' \in [Lessons -> Requests \cup {Office, None}] /\ maker'[l] = Office
        /\ \A k \in Lessons : k # l => maker'[k] = maker[k]
    BY DEF OfficeBooks, IInv, TypeOK
  <1>2. TypeOK'
    BY <1>1 DEF IInv, TypeOK
  <1>3. Exclusive' /\ LockedOpen' /\ SeenKept' /\ NamedIsBooked' /\ BookedHasLesson'
    BY <1>1 DEF IInv, Exclusive, LockedOpen, SeenKept, NamedIsBooked, BookedHasLesson, Holding, Deciding, Exists
  <1>4. MadeForIt'
    <2> SUFFICES ASSUME NEW g \in Handlers, handler[g].at = "made"
                 PROVE  maker'[handler[g].lesson] = handler[g].request
      BY <1>1 DEF MadeForIt
    <2>1. handler[g].lesson \in Lessons /\ handler[g].request \in Requests
      BY HasTask DEF IInv, TypeOK, Working
    <2>2. maker[handler[g].lesson] = handler[g].request
      BY DEF IInv, MadeForIt
    <2>3. QED
      BY <1>1, <2>1, <2>2, OfficeAssumption
  <1>5. LessonIsNamed'
    BY <1>1, OfficeAssumption DEF IInv, LessonIsNamed
  <1>6. QED
    BY <1>2, <1>3, <1>4, <1>5 DEF IInv

LEMMA NextIInv == IInv /\ [Next]_vars => IInv'
  <1> SUFFICES ASSUME IInv, [Next]_vars PROVE IInv'
    OBVIOUS
  <1>1. ASSUME NEW h \in Handlers, Continue(h)
        PROVE  IInv'
    <2>1. CASE RefuseLesson(h)
      BY <2>1, HandlersOnly DEF RefuseLesson, Ends, IInv, TypeOK
    <2>2. CASE GiveUp(h)
      BY <2>2, BreakOffStep DEF GiveUp
    <2>3. QED
      BY <1>1, <2>1, <2>2, FinishAskStep, ConnectStep, WriteStep, LockStep, NameLessonStep, MakeLessonStep
      DEF Continue
  <1>2. CASE Restart
    BY <1>2, BreakOffStep DEF Restart
  <1>3. CASE UNCHANGED vars
    BY <1>3 DEF vars, IInv, TypeOK, Exclusive, LockedOpen, MadeForIt, SeenKept, NamedIsBooked,
         LessonIsNamed, BookedHasLesson, Holding, Deciding, Exists
  <1>4. QED
    BY <1>1, <1>2, <1>3, BeginStep, OfficeStep DEF Next

-----------------------------------------------------------------------------
(* Theorems.                                                               *)

\* The inductive invariant holds in every reachable state.
THEOREM Invariance == Spec => []IInv
  BY InitIInv, NextIInv, PTL DEF Spec

\* Every row, lesson and handler has its type (LessonRequests.TypeOK).
THEOREM TypeCorrect == Spec => []TypeOK
  <1>1. IInv => TypeOK
    BY DEF IInv
  <1>2. QED
    BY <1>1, Invariance, PTL

\* A lesson made for a request is the one it is booked with, unless writes
\* crossed (createBookingFromRequest).
THEOREM MadeIsNamed == Spec => []LessonIsNamed
  <1>1. IInv => LessonIsNamed
    BY DEF IInv
  <1>2. QED
    BY <1>1, Invariance, PTL

\* Bookings of one request at once make one lesson: a second handler finds the
\* request taken under the lock, and a lesson in hand excludes a named one.
THEOREM MadeOnce == Spec => []OneLessonEach
  <1>1. ASSUME IInv, NEW r \in Requests, ~crossed[r], NEW l \in Lessons, NEW k \in Lessons,
               maker[l] = r, maker[k] = r
        PROVE  l = k
    <2> DEFINE Named(m) == row[r] = [status |-> "booked", lesson |-> m]
               InHand(h, m) == handler[h].at = "made" /\ handler[h].request = r /\ handler[h].lesson = m
    <2>1. /\ Named(l) \/ \E h \in Handlers : InHand(h, l)
          /\ Named(k) \/ \E h \in Handlers : InHand(h, k)
      BY <1>1 DEF IInv, LessonIsNamed
    <2>2. ASSUME NEW m \in Lessons, NEW n \in Lessons, Named(m), NEW h \in Handlers, InHand(h, n)
          PROVE  FALSE
      <3>1. Taken(row[r])
        BY <2>2, OfficeAssumption DEF Taken
      <3>2. QED
        BY <1>1, <2>2, <3>1 DEF IInv, LockedOpen, Holding
    <2>3. Named(l) /\ Named(k) => l = k
      OBVIOUS
    <2>4. ASSUME NEW g \in Handlers, NEW h \in Handlers, InHand(g, l), InHand(h, k)
          PROVE  l = k
      BY <1>1, <2>4 DEF IInv, Exclusive, Holding
    <2> HIDE DEF Named, InHand
    <2>5. QED
      BY <2>1, <2>2, <2>3, <2>4
  <1>2. IInv => OneLessonEach
    BY <1>1 DEF OneLessonEach
  <1>3. QED
    BY <1>2, Invariance, PTL

\* A booked request names a lesson, whatever writes cross.
THEOREM BookedWithLesson == Spec => []BookedHasLesson
  <1>1. IInv => BookedHasLesson
    BY DEF IInv
  <1>2. QED
    BY <1>1, Invariance, PTL

\* A booked request is changed only by a handler that had read it before it
\* was booked so, never by one that books.
THEOREM BookedForGood == Spec => BookedStays
  <1> DEFINE Stays(r) ==
        row[r].status = "booked" =>
          \/ row'[r] = row[r]
          \/ \E h \in Handlers : /\ handler[h].at = "wait" /\ handler[h].do # "book"
                                 /\ handler[h].request = r /\ handler[h].seen # row[r]
  <1>1. ASSUME IInv, [Next]_vars, NEW r \in Requests, row[r].status = "booked", row'[r] # row[r]
        PROVE  Stays(r)
    <2>1. PICK h \in Handlers : FinishAsk(h) \/ Write(h) \/ NameLesson(h)
      BY <1>1 DEF Next, vars, Begin, Continue, BeginAsk, Read, Connect, Lock, MakeLesson, RefuseLesson,
           GiveUp, BreakOff, Restart, OfficeBooks
    <2>2. CASE FinishAsk(h)
      <3>1. \A q \in Requests : row[q].status # "none" => row'[q] = row[q]
        BY <1>1, <2>2 DEF FinishAsk, IInv, TypeOK
      <3>2. QED
        BY <1>1, <3>1
    <2>3. CASE Write(h)
      <3>1. handler[h].at = "wait" /\ handler[h].do # "book"
        BY <2>3 DEF Write
      <3>2. /\ handler[h].request = r
            /\ row'[r] = Merged(row[r], handler[h].seen,
                           Wanted(handler[h].do, handler[h].seen, handler[h].lesson))
        BY <1>1, <2>3 DEF Write, IInv, TypeOK
      <3>3. handler[h].seen # row[r]
        BY <1>1, <3>1, <3>2, WriteRow
      <3>4. QED
        BY <3>1, <3>2, <3>3
    <2>4. CASE NameLesson(h)
      <3>1. handler[h].at = "made" /\ handler[h].request = r
        BY <1>1, <2>4 DEF NameLesson, IInv, TypeOK
      <3>2. Taken(row[r])
        BY <1>1 DEF Taken, IInv, BookedHasLesson
      <3>3. QED
        BY <1>1, <3>1, <3>2 DEF IInv, LockedOpen, Holding
    <2>5. QED
      BY <2>1, <2>2, <2>3, <2>4
  <1>2. IInv /\ [Next]_vars => [\A r \in Requests : Stays(r)]_vars
    BY <1>1
  <1>3. QED
    BY <1>2, Invariance, PTL DEF Spec, BookedStays

=============================================================================
