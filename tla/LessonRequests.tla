----------------------------- MODULE LessonRequests -----------------------------
(***************************************************************************)
(* The requests of a student for personal theory lessons with one          *)
(* instructor (services/personal-theory-lesson-request.service.ts) and the *)
(* lessons booked for them.                                                *)
(*                                                                         *)
(* A handler reads the row, decides, and writes later with a statement     *)
(* that waits for the row lock.  A handler that books locks the row in one *)
(* transaction and makes the booking in another, on a second connection of *)
(* the pool: the lesson is committed before the request names it, and a    *)
(* handler that waits for a connection or a lock gives up in the end.      *)
(***************************************************************************)
EXTENDS Integers, FiniteSets

CONSTANTS
  Requests,  \* ids of personal_theory_lesson_requests rows
  Lessons,   \* ids of theory_personal bookings of the student
  Handlers,  \* HTTP requests in progress at once
  PoolSize,  \* connections of the pool
  Office,    \* stands for staff who book a lesson without a request
  None

ASSUME PoolAssumption == PoolSize \in Nat \ {0}
ASSUME OfficeAssumption ==
  Office \notin Requests /\ None \notin Requests /\ None \notin Lessons /\ None # Office

VARIABLES
  row,      \* status and booked_lesson_id of each request
  maker,    \* for which request a lesson was made
  handler,  \* what each handler has read and where it waits
  crossed   \* history: the row was written by a handler that had read another
            \* one, or a handler broke off after its lesson was committed

vars == <<row, maker, handler, crossed>>

Statuses == {"none", "pending", "contacted", "booked", "cancelled", "removed"}
Row   == [status : Statuses, lesson : Lessons \cup {None}]
Tasks == {"contact", "cancel", "remove", "book", "link"}

\* "read": decided, without a connection; "wait": has one and waits for the row
\* lock; "locked": holds the row; "made": holds it and has committed a lesson.
Working ==
  [at : {"read", "wait", "locked", "made"}, do : Tasks, request : Requests, seen : Row,
   lesson : Lessons \cup {None}]
Idle == [at |-> "idle"]
Ask  == [at |-> "ask"]

TypeOK ==
  /\ row \in [Requests -> Row]
  /\ maker \in [Lessons -> Requests \cup {Office, None}]
  /\ handler \in [Handlers -> Working \cup {Idle, Ask}]
  /\ crossed \in [Requests -> BOOLEAN]
  /\ \A h \in Handlers :
       /\ handler[h].at \in {"locked", "made"} => handler[h].do = "book"
       /\ handler[h].at = "made" => handler[h].lesson # None

Init ==
  /\ row     = [r \in Requests |-> [status |-> "none", lesson |-> None]]
  /\ maker   = [l \in Lessons |-> None]
  /\ handler = [h \in Handlers |-> Idle]
  /\ crossed = [r \in Requests |-> FALSE]

Exists(r) == row[r].status \notin {"none", "removed"}

\* A query that waits for a lock and an open transaction keep their connection.
Connected == {h \in Handlers : handler[h].at \in {"wait", "locked", "made"}}
Free == Cardinality(Connected) < PoolSize

Locked(r) == \E h \in Handlers : handler[h].at \in {"locked", "made"} /\ handler[h].request = r

Ends(h) == handler' = [handler EXCEPT ![h] = Idle]
Goes(h, to) == handler' = [handler EXCEPT ![h].at = to]

-----------------------------------------------------------------------------
(* The student asks: no pending request is found, then the row is created. *)

\* createFromStudent
BeginAsk(h) ==
  /\ handler[h] = Idle /\ Free
  /\ \A r \in Requests : row[r].status # "pending"
  /\ handler' = [handler EXCEPT ![h] = Ask]
  /\ UNCHANGED <<row, maker, crossed>>

\* The ids of the model may run out.
FinishAsk(h) ==
  /\ handler[h] = Ask /\ Free
  /\ \/ \E r \in Requests :
          row[r].status = "none" /\ row' = [row EXCEPT ![r].status = "pending"]
     \/ (\A r \in Requests : row[r].status # "none") /\ UNCHANGED row
  /\ Ends(h)
  /\ UNCHANGED <<maker, crossed>>

-----------------------------------------------------------------------------
(* Decisions on a row that was read.                                       *)

\* A booking was already created for the request.
Taken(rw) == rw.status = "booked" /\ rw.lesson # None

\* Faulty: a booked request is not refused.
SettledCancelled(rw) == rw.status = "cancelled"

\* A contact and a cancellation are too late.
Settled(rw) == rw.status \in {"booked", "cancelled"}

\* Faulty: a request that names a lesson may be linked to another.
FitsAny(rw, l) == TRUE

\* A link repeats the one there is.
Fits(rw, l) == Taken(rw) => rw.lesson = l

\* markContacted, cancelFromStudent and cancel, remove,
\* createBookingFromRequest, linkExistingBooking.
Allows(do, rw, l) ==
  CASE do \in {"contact", "cancel"} -> ~Settled(rw)
    [] do = "remove" -> rw.status # "booked"
    [] do = "book"   -> ~Taken(rw) /\ rw.status # "cancelled"
    [] do = "link"   -> Fits(rw, l) /\ rw.status # "cancelled"

\* Only a link is to a lesson, one that is there.
Target(do, l) == IF do = "link" THEN l \in Lessons /\ maker[l] # None ELSE l = None

Read(h, r, do, l) ==
  /\ handler[h] = Idle /\ Free
  /\ Exists(r) /\ Target(do, l) /\ Allows(do, row[r], l)
  /\ handler' = [handler EXCEPT ![h] =
       [at |-> "read", do |-> do, request |-> r, seen |-> row[r], lesson |-> l]]
  /\ UNCHANGED <<row, maker, crossed>>

\* The statement, or the transaction, gets its connection.
Connect(h) ==
  /\ handler[h].at = "read" /\ Free
  /\ Goes(h, "wait")
  /\ UNCHANGED <<row, maker, crossed>>

\* What the handler sets the row to.
Wanted(do, seen, l) ==
  CASE do = "contact" -> [seen EXCEPT !.status = "contacted"]
    [] do = "cancel"  -> [seen EXCEPT !.status = "cancelled"]
    [] do = "remove"  -> [seen EXCEPT !.status = "removed"]
    [] do = "link"    -> [status |-> "booked", lesson |-> l]

\* row.update writes the columns that differ from what was read.
Merged(old, seen, new) ==
  [status |-> IF new.status = seen.status THEN old.status ELSE new.status,
   lesson |-> IF new.lesson = seen.lesson THEN old.lesson ELSE new.lesson]

\* The write; of a row removed in between it finds nothing.
Write(h) ==
  /\ handler[h].at = "wait" /\ handler[h].do # "book"
  /\ LET r == handler[h].request  seen == handler[h].seen IN
     /\ ~Locked(r)
     /\ \/ /\ Exists(r)
           /\ row' = [row EXCEPT ![r] =
                Merged(row[r], seen, Wanted(handler[h].do, seen, handler[h].lesson))]
           /\ crossed' = [crossed EXCEPT ![r] = @ \/ seen # row[r]]
        \/ ~Exists(r) /\ UNCHANGED <<row, crossed>>
  /\ Ends(h)
  /\ UNCHANGED maker

-----------------------------------------------------------------------------
(* createBookingFromRequest: the request's transaction around the one of   *)
(* the booking.                                                            *)

\* Faulty: the row is locked and not looked at again.
BookableOnce(r) == Exists(r)

\* The status is only compared with "booked" under the lock.
Bookable(r) == Exists(r) /\ ~Taken(row[r])

Lock(h) ==
  /\ handler[h].at = "wait" /\ handler[h].do = "book"
  /\ LET r == handler[h].request IN
     /\ ~Locked(r)
     /\ \/ Bookable(r) /\ Goes(h, "locked")
        \/ ~Bookable(r) /\ Ends(h)
  /\ UNCHANGED <<row, maker, crossed>>

\* Faulty: the id of the booking is not kept.
MakeLessonForgets(h, l) ==
  /\ handler[h].at = "locked" /\ Free
  /\ maker[l] = None
  /\ maker' = [maker EXCEPT ![l] = handler[h].request]
  /\ Goes(h, "made")
  /\ UNCHANGED <<row, crossed>>

\* BookingService.createAdmin, on a connection of its own ...
MakeLesson(h, l) ==
  /\ handler[h].at = "locked" /\ Free
  /\ maker[l] = None
  /\ maker' = [maker EXCEPT ![l] = handler[h].request]
  /\ handler' = [handler EXCEPT ![h].at = "made", ![h].lesson = l]
  /\ UNCHANGED <<row, crossed>>

\* ... or the hours are not free, and the request's transaction is undone.
RefuseLesson(h) ==
  /\ handler[h].at = "locked" /\ Free
  /\ Ends(h)
  /\ UNCHANGED <<row, maker, crossed>>

\* createAdmin lists the bookings on one more connection before it returns;
\* then the request names the lesson.
NameLesson(h) ==
  /\ handler[h].at = "made" /\ Free
  /\ row' = [row EXCEPT ![handler[h].request] = [status |-> "booked", lesson |-> handler[h].lesson]]
  /\ Ends(h)
  /\ UNCHANGED <<maker, crossed>>

-----------------------------------------------------------------------------
(* What goes wrong.                                                        *)

\* The wait for a row lock is limited by the database.
LockTimeout(h) == handler[h].at = "wait" /\ Locked(handler[h].request)

\* Faulty: the wait for a connection is not limited.
TimesOutLocks(h) == LockTimeout(h)

\* The wait for a connection is limited by the pool.
TimesOut(h) ==
  \/ LockTimeout(h)
  \/ handler[h].at \in {"ask", "read", "locked", "made"} /\ ~Free

\* Handlers in S end where they are and their transactions are undone.
BreakOff(S) ==
  /\ handler' = [h \in Handlers |-> IF h \in S THEN Idle ELSE handler[h]]
  /\ crossed' = [r \in Requests |->
       crossed[r] \/ \E h \in S : handler[h].at = "made" /\ handler[h].request = r]
  /\ UNCHANGED <<row, maker>>

GiveUp(h) == TimesOut(h) /\ BreakOff({h})

\* The process is restarted.
Restart == (\E h \in Handlers : handler[h] # Idle) /\ BreakOff(Handlers)

\* A booking staff make without a request.
OfficeBooks(l) ==
  /\ maker[l] = None
  /\ maker' = [maker EXCEPT ![l] = Office]
  /\ UNCHANGED <<row, handler, crossed>>

-----------------------------------------------------------------------------

Begin(h) ==
  \/ BeginAsk(h)
  \/ \E r \in Requests, do \in Tasks, l \in Lessons \cup {None} : Read(h, r, do, l)

Continue(h) ==
  \/ FinishAsk(h) \/ Connect(h) \/ Write(h) \/ Lock(h)
  \/ RefuseLesson(h) \/ NameLesson(h) \/ GiveUp(h)
  \/ \E l \in Lessons : MakeLesson(h, l)

Next ==
  \/ \E h \in Handlers : Begin(h) \/ Continue(h)
  \/ Restart
  \/ \E l \in Lessons : OfficeBooks(l)

Spec == Init /\ [][Next]_vars

\* Queues of the pool and of the row locks are served in order, and whoever
\* waits too long is told so.
FairSpec == Spec /\ \A h \in Handlers : WF_vars(Continue(h))

-----------------------------------------------------------------------------
(* Properties.                                                             *)

\* However many members of staff book one request at once, one lesson is made
\* for it ("A booking was already created for this request."), unless its row
\* was overwritten by a handler that had not seen it or a handler broke off
\* (createBookingFromRequest).
OneLessonEach ==
  \A r \in Requests : ~crossed[r] =>
    \A l, k \in Lessons : maker[l] = r /\ maker[k] = r => l = k

\* With the same exceptions, a lesson made for a request is the one the
\* request is booked with, or is about to be: no link, cancellation or removal
\* parts them.
LessonIsNamed ==
  \A r \in Requests : ~crossed[r] =>
    \A l \in Lessons : maker[l] = r =>
      \/ row[r] = [status |-> "booked", lesson |-> l]
      \/ \E h \in Handlers : handler[h].at = "made" /\ handler[h].request = r /\ handler[h].lesson = l

\* A booked request stays booked with its lesson, except for a handler that
\* had read it before; one that books never overwrites it, however long it
\* waited for the lock.
BookedStays ==
  [][\A r \in Requests : row[r].status = "booked" =>
       \/ row'[r] = row[r]
       \/ \E h \in Handlers : /\ handler[h].at = "wait" /\ handler[h].do # "book"
                              /\ handler[h].request = r /\ handler[h].seen # row[r]]_vars

\* Every handler ends: those that book hold one connection and wait for
\* another, those that write hold one and wait for a row, and when they use
\* up the pool the timeouts let them go.
EveryHandlerEnds == \A h \in Handlers : handler[h] # Idle ~> handler[h] = Idle

\* The refusal "Cancelled requests cannot be booked.": it looks at the row read
\* first, and the status read under the lock is only compared with "booked".
CancelledNotBooked ==
  [][\A r \in Requests : row[r].status = "cancelled" => row'[r].status # "booked"]_vars

=============================================================================
