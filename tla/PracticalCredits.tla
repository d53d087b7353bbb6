---------------------------- MODULE PracticalCredits ----------------------------
(***************************************************************************)
(* The practical lesson credits of one student: package orders with their  *)
(* lesson balance, the counters of the student's profile, extra lesson     *)
(* blocks, and the prepaid_meta in which a booking remembers what it took  *)
(* (services/student-practical-credits.service.ts,                         *)
(* student-entitlements.service.ts, booking.service.ts).                   *)
(*                                                                         *)
(* An operation that locks the rows it decides by is one step.  The        *)
(* assignment of a package, the order made for a sale and the undoing of a *)
(* sale are not: they look for orders without a lock, in the snapshot of   *)
(* their transaction, and write later what they made of it.  Each of them  *)
(* is a request with two steps, and whatever it saw may be stale by the    *)
(* second.                                                                 *)
(***************************************************************************)
EXTENDS Integers, FiniteSets, Functions

CONSTANTS
  Packages,     \* the catalogue
  Lessons,      \* practical lessons a package includes
  Orders,       \* ids of package_orders rows, in the order they are given out
  Extras,       \* ids of student_extra_practicals rows, oldest first
  ExtraLessons, \* lessons of an extra block (practicalTotal)
  Bookings,
  Requests,     \* transactions that look before they write, each run once
  Lengths,      \* hours of a booking
  Sales,        \* the orders bookings of the student may have sold already
  Unordered,    \* packages a student may be created with, which makes no order
  Typed,        \* <<completed, total>> staff may type into the profile
  None

ASSUME PackagesAssumption ==
  Lessons \in [Packages -> Nat] /\ None \notin Packages /\ Unordered \subseteq Packages
ASSUME IdsAssumption == Orders \subseteq Nat \ {0} /\ Extras \subseteq Nat \ {0}
ASSUME SizeAssumption == ExtraLessons \in Nat /\ Lengths \subseteq Nat \ {0}
\* The rows a student ever has are finitely many.
ASSUME RowsAssumption == IsFiniteSet(Orders) /\ IsFiniteSet(Bookings)
ASSUME TypedAssumption == Typed \subseteq Nat \X Nat
ASSUME SalesAssumption == Sales \subseteq [Bookings -> Orders \cup {0}]

VARIABLES
  order, item, included, booked,  \* package_orders.status and package_id, and
                                  \* the practical balance of the order
  package, total, completed,      \* profile: package_id, lessons_total,
                                  \* lessons_completed
  bought, used,                   \* extra blocks: present, practical_used
  lesson,                         \* bookings.status
  pkg, units, from, extra, sale,  \* prepaid_meta: pkg, packageBalanceUnits,
                                  \* packageOrderId, extras, packagePurchase
  at, seen                        \* what a request is about to do, and what it
                                  \* does it by

orders  == <<order, item, included, booked>>
profile == <<package, total, completed>>
extras  == <<bought, used>>
meta    == <<pkg, units, from, extra, sale>>
requests == <<at, seen>>
vars == <<orders, profile, extras, lesson, meta, requests>>

\* 'checkout' is a paid order whose source is student_checkout.
ActiveStatuses == {"active", "paid", "checkout"}

\* A request is about to assign a package that was bought, assigned, or chosen
\* in an edit of the student; in an edit, then to write the package into the
\* profile and to look for an order of it; to make the order, of an edit or of
\* a sale; or to archive a sale, undoing it or not.
Assigning == {"buy", "assign", "edit"}
Archiving == {"detach", "keep"}

Columns == {"package", "total", "completed"}

\* The order and the booking a request works on, what it will write into the
\* profile, and the columns it leaves out because they show that already;
\* pays: it sets the order to paid.
Sights == [order: Orders \cup {0}, pays: BOOLEAN, booking: Bookings \cup {None},
           package: Packages \cup {None}, total: Nat, completed: Nat, right: SUBSET Columns]

Nothing == [order |-> 0, pays |-> FALSE, booking |-> None,
            package |-> None, total |-> 0, completed |-> 0, right |-> {}]

RowsOK ==
  /\ order \in [Orders -> ActiveStatuses \cup {"none", "cancelled"}]
  /\ item \in [Orders -> Packages \cup {None}]
  /\ included \in [Orders -> Nat]
  /\ booked \in [Orders -> Nat]
  /\ package \in Packages \cup {None}
  /\ total \in Nat
  /\ completed \in Nat
  /\ bought \in [Extras -> BOOLEAN]
  /\ used \in [Extras -> 0 .. ExtraLessons]
  /\ lesson \in [Bookings -> {"none", "open", "closed", "archived"}]
  /\ pkg \in [Bookings -> Nat]
  /\ units \in [Bookings -> Nat]
  /\ from \in [Bookings -> Orders \cup {0}]
  /\ extra \in [Bookings -> [Extras -> Nat]]
  /\ sale \in [Bookings -> BOOLEAN]
  /\ \A o \in Orders : order[o] # "none" => item[o] \in Packages

RequestsOK ==
  /\ at \in [Requests -> {"idle", "done", "name", "ensure", "make", "sell"} \cup Assigning \cup Archiving]
  /\ seen \in [Requests -> Sights]

TypeOK == RowsOK /\ RequestsOK

\* StudentAdminService.create may put a package on the profile without an order.
\* The student is new, or staff have sold packages since and the bookings of
\* these sales are open.
Init ==
  \E sold \in Sales, p \in [Orders -> Packages] :
    LET S == Range(sold) \ {0} IN
    /\ order    = [o \in Orders |-> IF o \in S THEN "active" ELSE "none"]
    /\ item     = [o \in Orders |-> IF o \in S THEN p[o] ELSE None]
    /\ included = [o \in Orders |-> IF o \in S THEN Lessons[p[o]] ELSE 0]
    /\ booked   = [o \in Orders |-> 0]
    /\ package \in Unordered \cup {None} \cup {p[o] : o \in S}
    /\ total = (IF package = None THEN 0 ELSE Lessons[package])
    /\ completed \in 0 .. total
    /\ bought = [e \in Extras |-> FALSE]
    /\ used   = [e \in Extras |-> 0]
    /\ lesson = [b \in Bookings |-> IF sold[b] = 0 THEN "none" ELSE "open"]
    /\ pkg    = [b \in Bookings |-> 0]
    /\ units  = [b \in Bookings |-> 0]
    /\ from   = sold
    /\ extra  = [b \in Bookings |-> [e \in Extras |-> 0]]
    /\ sale   = [b \in Bookings |-> sold[b] # 0]
    /\ at     = [r \in Requests |-> "idle"]
    /\ seen   = [r \in Requests |-> Nothing]

-----------------------------------------------------------------------------
(* Orders, balances and the profile counters.                              *)

Least(m, n) == IF m <= n THEN m ELSE n
\* Faulty: the counters are not kept from going below zero.
MinusUnclamped(m, n) == m - n

Minus(m, n) == IF m <= n THEN 0 ELSE m - n        \* Math.max(0, m - n)

\* Faulty: a detached order is found too.
ActiveOrDetached(o) == order[o] # "none"

Active(o) == order[o] \in ActiveStatuses
ActiveOrders == {o \in Orders : Active(o)}

Newest(o, S) == o \in S /\ \A q \in S : q <= o

\* The lessons left on an order's balance, and of the profile counters.
Room(o) == Minus(included[o], booked[o])
ProfileRoom == Minus(total, completed)
ExtraRoom(e) == IF bought[e] THEN Minus(ExtraLessons, used[e]) ELSE 0

NextOrder(o) == order[o] = "none" /\ \A q \in Orders : order[q] = "none" => o <= q

\* A new order with its balance.
Create(o, p, st, inc, bkd) ==
  /\ NextOrder(o)
  /\ order'    = [order EXCEPT ![o] = st]
  /\ item'     = [item EXCEPT ![o] = p]
  /\ included' = [included EXCEPT ![o] = inc]
  /\ booked'   = [booked EXCEPT ![o] = bkd]

\* syncProfileCountersFromOrderBalances
SyncProfile(inc, bkd) == total' = inc /\ completed' = bkd

\* The order of a package that assignments reuse.
OrdersOf(p) == {o \in ActiveOrders : item[o] = p}

\* Request r is about to do a, by what it saw.
Turn(r, a, sight) == at' = [at EXCEPT ![r] = a] /\ seen' = [seen EXCEPT ![r] = sight]
Done(r) == Turn(r, "done", Nothing)

\* The counters that show t and c already.
Right(t, c) ==
  {f \in {"total", "completed"} : (f = "total" /\ total = t) \/ (f = "completed" /\ completed = c)}

\* The columns that differed in the snapshot are written, and no other.
WriteProfile(r) ==
  /\ package'   = IF "package" \in seen[r].right THEN package ELSE seen[r].package
  /\ total'     = IF "total" \in seen[r].right THEN total ELSE seen[r].total
  /\ completed' = IF "completed" \in seen[r].right THEN completed ELSE seen[r].completed

\* Of the orders S, the one that counts: 0 when there is none.
Chosen(o, S) == Newest(o, S) \/ (o = 0 /\ S = {})

\* What applyPackageAssignment finds: the order of p, or that there is none.  The
\* counters of a profile it writes first are read back, and then compared.
Assignment(p, o, a) ==
  LET t == IF o = 0 THEN Lessons[p] ELSE included[o]
      c == IF o = 0 THEN 0 ELSE booked[o]
  IN  [Nothing EXCEPT
         !.order = o, !.pays = (a = "buy" /\ o # 0 /\ order[o] = "active"),
         !.package = p, !.total = t, !.completed = c,
         !.right = (IF package = p THEN {"package"} ELSE {}) \cup
                   (IF o = 0 \/ (package = p /\ total = Lessons[p]) THEN Right(t, c) ELSE {})]

\* purchasePackageAfterOnlinePayment, unless the package was bought already,
\* assignPackage, and StudentAdminService.update with another package.
LookForOrder(r, p, a) ==
  /\ at[r] = "idle"
  /\ a = "buy" => \A o \in OrdersOf(p) : order[o] # "checkout"
  /\ a = "edit" => package # p
  /\ \E o \in Orders \cup {0} : Chosen(o, OrdersOf(p)) /\ Turn(r, a, Assignment(p, o, a))
  /\ UNCHANGED <<orders, profile, extras, lesson, meta>>

\* applyPackageAssignment goes on with the order it found, whatever has become
\* of that, or makes one.
Assign(r) ==
  /\ at[r] \in Assigning
  /\ \E o \in Orders :
       /\ \/ /\ seen[r].order = o
             /\ order' = [order EXCEPT ![o] = IF seen[r].pays THEN "paid" ELSE @]
             /\ UNCHANGED <<item, included, booked>>
          \/ /\ seen[r].order = 0
             /\ Create(o, seen[r].package, IF at[r] = "buy" THEN "checkout" ELSE "active",
                       Lessons[seen[r].package], 0)
       /\ \/ at[r] # "edit" /\ Done(r)
          \/ /\ at[r] = "edit"
             /\ Turn(r, "name", [Nothing EXCEPT !.order = o, !.package = seen[r].package])
  /\ WriteProfile(r)
  /\ UNCHANGED <<extras, lesson, meta>>

\* StudentAdminService.update then writes the package itself, which it still
\* holds as the profile showed it at first ...
NamePackage(r) ==
  /\ at[r] = "name"
  /\ package' = seen[r].package
  /\ Turn(r, "ensure", seen[r])
  /\ UNCHANGED <<orders, total, completed, extras, lesson, meta>>

\* What ensureActivePackageOrder puts into an order it creates.
EnsuredTotal(p) == IF total > 0 THEN total ELSE Lessons[p]

\* ... and ensures an order of it, as does an update that leaves the package
\* alone, and a sale: ensureActivePackageOrder looks for one ...
LookToEnsure(r, p, a) ==
  /\ \/ a = "make" /\ at[r] = "ensure" /\ seen[r].package = p
     \/ a = "make" /\ at[r] = "idle" /\ package = p
     \/ a = "sell" /\ at[r] = "idle"
  /\ OrdersOf(p) = {}
  /\ Turn(r, a, [Nothing EXCEPT !.package = p, !.total = EnsuredTotal(p), !.completed = completed,
                                !.right = {"package"} \cup Right(EnsuredTotal(p), completed)])
  /\ UNCHANGED <<orders, profile, extras, lesson, meta>>

HasOrder(r) ==
  /\ at[r] = "ensure" /\ OrdersOf(seen[r].package) # {}
  /\ Done(r)
  /\ UNCHANGED <<orders, profile, extras, lesson, meta>>

\* ... and makes it when there was none.
EnsureOrder(r) ==
  /\ at[r] = "make"
  /\ \E o \in Orders : Create(o, seen[r].package, "active", seen[r].total, seen[r].completed)
  /\ WriteProfile(r)
  /\ Done(r)
  /\ UNCHANGED <<extras, lesson, meta>>

-----------------------------------------------------------------------------
(* The student buys.                                                       *)

\* purchaseExtraPracticalAfterOnlinePayment
BuyExtra(e) ==
  /\ ~bought[e] /\ \A f \in Extras : f < e => bought[f]
  /\ bought' = [bought EXCEPT ![e] = TRUE]
  /\ UNCHANGED <<orders, profile, used, lesson, meta, requests>>

-----------------------------------------------------------------------------
(* Bookings.                                                               *)

\* A booking of the given meta.
Open(b, tp, tu, o, x, s) ==
  /\ lesson[b] = "none"
  /\ lesson' = [lesson EXCEPT ![b] = "open"]
  /\ pkg'   = [pkg EXCEPT ![b] = tp]
  /\ units' = [units EXCEPT ![b] = tu]
  /\ from'  = [from EXCEPT ![b] = o]
  /\ extra' = [extra EXCEPT ![b] = x]
  /\ sale'  = [sale EXCEPT ![b] = s]

NoExtras == [e \in Extras |-> 0]

PackageRoom == SumFunctionOnSet([o \in Orders |-> Room(o)], ActiveOrders)
ExtrasRoom  == SumFunctionOnSet([e \in Extras |-> ExtraRoom(e)], Extras)

\* availableSlotCount: with every balance used up, the profile counters speak.
Available ==
  ExtrasRoom + (IF PackageRoom > 0 THEN PackageRoom
                ELSE IF package = None THEN 0 ELSE ProfileRoom)

\* consumeSlots takes n credits: newest order first ...
TakesFromOrders(n, take, taken) ==
  /\ \A o \in Orders : take[o] > 0 => Active(o) /\ take[o] <= Room(o)
  /\ taken = SumFunctionOnSet(take, Orders)
  /\ taken = n \/ taken = PackageRoom
  /\ \A o, q \in ActiveOrders : q < o /\ take[q] > 0 => take[o] = Room(o)

\* ... then, whatever they leave, the profile, then the oldest block.
TakesFromExtras(n, x) ==
  /\ \A e \in Extras : x[e] <= ExtraRoom(e)
  /\ SumFunctionOnSet(x, Extras) = n
  /\ \A e, f \in Extras : e < f /\ x[f] > 0 => x[e] = ExtraRoom(e)

\* packageOrderId of the meta: the last order something was taken from.
LastTaken(take, o) ==
  \/ o \in Orders /\ take[o] > 0 /\ \A q \in Orders : take[q] > 0 => o <= q
  \/ o = 0 /\ \A q \in Orders : take[q] = 0

\* createFromStudentSlotSelection with enough credits ...
StudentBook(b, n) ==
  /\ lesson[b] = "none" /\ Available >= n
  /\ \E take \in [Orders -> 0 .. n], taken \in 0 .. n, o \in Orders \cup {0} :
       /\ LastTaken(take, o)
       /\ TakesFromOrders(n, take, taken)
       /\ LET own == Least(n - taken, ProfileRoom) IN
          \E x \in [Extras -> 0 .. n] :
            /\ TakesFromExtras(n - taken - own, x)
            /\ booked' = [q \in Orders |-> booked[q] + take[q]]
            /\ completed' = completed + own
            /\ used' = [e \in Extras |-> used[e] + x[e]]
            /\ Open(b, taken + own, taken, o, x, FALSE)
  /\ UNCHANGED <<order, item, included, package, total, bought, requests>>

\* ... and without: a booking to be paid.
StudentBookCash(b, n) ==
  /\ lesson[b] = "none" /\ Available < n
  /\ Open(b, 0, 0, 0, NoExtras, FALSE)
  /\ UNCHANGED <<orders, profile, extras, requests>>

\* consumePackageLessonCreditsInTx on the order it resolves: all n or nothing.
Consume(b, n, o) ==
  /\ Active(o) /\ Room(o) >= n
  /\ booked' = [booked EXCEPT ![o] = @ + n]
  /\ SyncProfile(included[o], booked[o] + n)
  /\ Open(b, n, n, o, NoExtras, FALSE)
  /\ UNCHANGED <<order, item, included, package, extras, requests>>

\* With no active order, or a stale id, one is made from the profile.
Bootstrap(b, n) ==
  /\ package # None /\ total >= completed + n
  /\ \E o \in Orders :
       /\ Create(o, package, "active", total, completed + n)
       /\ Open(b, n, n, o, NoExtras, FALSE)
  /\ SyncProfile(total, completed + n)
  /\ UNCHANGED <<package, extras, requests>>

\* createAdmin with package credits: the newest order, or the one staff chose;
\* createAdminPackageAtomic: the one it found.
StaffBook(b, n) ==
  \/ \E o \in Orders : Consume(b, n, o)
  \/ (ActiveOrders = {} \/ \E o \in Orders : order[o] = "cancelled") /\ Bootstrap(b, n)

\* createAdminPackageAtomic on the order it makes: its credits are booked ...
PackageBook(r, b, n) ==
  /\ at[r] = "sell"
  /\ LET p == seen[r].package
         c == seen[r].completed + n
     IN  /\ n <= Lessons[p] /\ c <= seen[r].total
         /\ \E o \in Orders :
              /\ Create(o, p, "active", seen[r].total, c)
              /\ Open(b, n, n, o, NoExtras, FALSE)
         /\ completed' = c
         /\ total' = IF "total" \in seen[r].right THEN total ELSE seen[r].total
  /\ Done(r)
  /\ UNCHANGED <<package, extras>>

\* ... or the package is sold without lessons.
SellNewOrder(r, b) ==
  /\ at[r] = "sell"
  /\ \E o \in Orders :
       /\ Create(o, seen[r].package, "active", seen[r].total, seen[r].completed)
       /\ Open(b, 0, 0, o, NoExtras, TRUE)
  /\ WriteProfile(r)
  /\ Done(r)
  /\ UNCHANGED extras

\* The same on the order it found, or was given: nothing asks for its status.
SellPackage(b) ==
  /\ \E o \in Orders : order[o] # "none" /\ Open(b, 0, 0, o, NoExtras, TRUE)
  /\ UNCHANGED <<orders, profile, extras, requests>>

-----------------------------------------------------------------------------
(* Bookings are closed.                                                    *)

\* The units a meta puts back on its order's balance: never below zero.
GivenBack(b) == Minus(booked[from[b]], units[b])

\* Faulty: the extra blocks get nothing back.
RestoreOrder(b) ==
  /\ booked' = IF units[b] > 0 THEN [booked EXCEPT ![from[b]] = GivenBack(b)] ELSE booked
  /\ UNCHANGED <<total, completed, used>>

\* restoreSlots and the balance part of finalizePracticalCancellationInTx.
Restore(b) ==
  /\ \/ /\ units[b] > 0
        /\ booked' = [booked EXCEPT ![from[b]] = GivenBack(b)]
        /\ SyncProfile(included[from[b]], GivenBack(b))
     \/ /\ units[b] = 0
        /\ completed' = Minus(completed, pkg[b])
        /\ UNCHANGED <<booked, total>>
  /\ used' = [e \in Extras |-> Minus(used[e], extra[b][e])]

\* Faulty: prepaid_meta stays on the closed booking.
KeepMeta(b) == UNCHANGED meta

ForgetMeta(b) ==
  /\ pkg'   = [pkg EXCEPT ![b] = 0]
  /\ units' = [units EXCEPT ![b] = 0]
  /\ from'  = [from EXCEPT ![b] = 0]
  /\ extra' = [extra EXCEPT ![b] = NoExtras]
  /\ sale'  = [sale EXCEPT ![b] = FALSE]

Finalize(b, st) ==
  /\ Restore(b)
  /\ ForgetMeta(b)
  /\ lesson' = [lesson EXCEPT ![b] = st]

\* archive holds the booking while it undoes the sale.
Locked(b) == \E r \in Requests : at[r] \in Archiving /\ seen[r].booking = b

\* Cancelled by the student, by approval, by a missed deadline.
Cancel(b) ==
  /\ lesson[b] = "open" /\ ~Locked(b)
  /\ Finalize(b, "closed")
  /\ UNCHANGED <<order, item, included, package, bought, requests>>

\* A staff edit sets the status alone, closing or reopening the booking.
EditStatus(b, st) ==
  /\ lesson[b] \notin {"none", st} /\ ~Locked(b)
  /\ lesson' = [lesson EXCEPT ![b] = st]
  /\ UNCHANGED <<orders, profile, extras, meta, requests>>

\* archive, the booking's own part: an open one gives its credits back.
Close(b) ==
  \/ lesson[b] = "open" /\ Finalize(b, "archived")
  \/ /\ lesson[b] = "closed"
     /\ lesson' = [lesson EXCEPT ![b] = "archived"]
     /\ UNCHANGED <<booked, total, completed, used, meta>>

\* archive of a booking that sold no package.
Archive(b) ==
  /\ ~sale[b] /\ ~Locked(b)
  /\ Close(b)
  /\ UNCHANGED <<order, item, included, package, bought, requests>>

\* Another open booking that sold the same order keeps it.
SoldElsewhere(b) == \E c \in Bookings \ {b} : lesson[c] = "open" /\ sale[c] /\ from[c] = from[b]

\* Faulty: the order being cancelled counts as left.
RemainingWithItself(b) == ActiveOrders

\* The active orders left when the sale is undone.
Remaining(b) == ActiveOrders \ {from[b]}

\* What detachStudentPackageForArchivedPurchaseInTx will write into a profile at
\* the package of the sale: the newest order left, or nothing.
Retreat(b, o) ==
  IF o = 0 THEN [Nothing EXCEPT !.booking = b]
  ELSE [Nothing EXCEPT
          !.order = o, !.booking = b,
          !.package = item[o], !.total = included[o], !.completed = booked[o],
          !.right = IF item[o] = item[from[b]] THEN Right(included[o], booked[o]) ELSE {}]

\* archive of a sale locks the booking and looks around ...
LookToArchive(r, b) ==
  /\ at[r] = "idle" /\ sale[b] /\ lesson[b] \in {"open", "closed"} /\ ~Locked(b)
  /\ \/ /\ ~SoldElsewhere(b)
        /\ \E o \in Orders \cup {0} : Chosen(o, Remaining(b)) /\ Turn(r, "detach", Retreat(b, o))
     \/ SoldElsewhere(b) /\ Turn(r, "keep", [Nothing EXCEPT !.booking = b])
  /\ UNCHANGED <<orders, profile, extras, lesson, meta>>

\* ... then cancels the order and moves the profile, which it reads locked, ...
Detach(r) ==
  /\ at[r] = "detach"
  /\ LET b == seen[r].booking IN
     /\ order' = [order EXCEPT ![from[b]] = "cancelled"]
     /\ \/ package = item[from[b]] /\ WriteProfile(r)
        \/ package # item[from[b]] /\ UNCHANGED profile
     /\ \/ lesson[b] = "open" /\ ForgetMeta(b)
        \/ lesson[b] = "closed" /\ UNCHANGED meta
     /\ lesson' = [lesson EXCEPT ![b] = "archived"]
  /\ Done(r)
  /\ UNCHANGED <<item, included, booked, extras>>

\* ... or leaves it to the other sale.
ArchiveAlone(r) ==
  /\ at[r] = "keep"
  /\ Close(seen[r].booking)
  /\ Done(r)
  /\ UNCHANGED <<order, item, included, package, bought>>

-----------------------------------------------------------------------------
(* Staff edit the student.                                                 *)

\* StudentAdminService.update with no package: the orders stay.
ClearPackage ==
  /\ package # None
  /\ package' = None
  /\ UNCHANGED <<orders, total, completed, extras, lesson, meta, requests>>

\* StudentAdminService.update of the counters; nothing relates the two.
SetCounters(c, t) ==
  /\ completed' = c /\ total' = t
  /\ UNCHANGED <<orders, package, extras, lesson, meta, requests>>

-----------------------------------------------------------------------------

StudentNext ==
  \/ \E e \in Extras : BuyExtra(e)
  \/ \E b \in Bookings, n \in Lengths : StudentBook(b, n) \/ StudentBookCash(b, n)
  \/ \E b \in Bookings : Cancel(b)

StaffNext ==
  \/ \E b \in Bookings, n \in Lengths : StaffBook(b, n)
  \/ \E b \in Bookings : Archive(b) \/ SellPackage(b)
  \/ \E b \in Bookings, st \in {"open", "closed"} : EditStatus(b, st)
  \/ ClearPackage
  \/ \E ct \in Typed : SetCounters(ct[1], ct[2])

\* What a request does by what it saw, after a step that only looks.
RequestNext(r) ==
  \/ \E p \in Packages :
       \/ \E a \in Assigning : LookForOrder(r, p, a)
       \/ \E a \in {"make", "sell"} : LookToEnsure(r, p, a)
  \/ Assign(r) \/ NamePackage(r) \/ HasOrder(r) \/ EnsureOrder(r)
  \/ \E b \in Bookings :
       \/ SellNewOrder(r, b)
       \/ \E n \in Lengths : PackageBook(r, b, n)
       \/ LookToArchive(r, b)
  \/ Detach(r) \/ ArchiveAlone(r)

Next == StudentNext \/ StaffNext \/ \E r \in Requests : RequestNext(r)

Spec == Init /\ [][Next]_vars

-----------------------------------------------------------------------------
(* Properties.                                                             *)

\* The orders never get more lessons back than was booked on them: what the
\* bookings still hold in their prepaid_meta is booked on some order, however
\* often they are closed, reopened by a staff edit and closed again
\* (finalizePracticalCancellationInTx clears prepaid_meta in the transaction
\* that restores it).
HeldUnitsAreBooked ==
  SumFunctionOnSet(units, Bookings) <= SumFunctionOnSet(booked, Orders)

\* Every used lesson of an extra block is in the prepaid_meta of a booking
\* that can still give it back, and in one only (consumeSlots, restoreSlots).
ExtrasAccountedFor ==
  \A e \in Extras : used[e] = SumFunctionOnSet([b \in Bookings |-> extra[b][e]], Bookings)

\* The order request r found has been cancelled since it looked.
Outrun(r) ==
  /\ at[r] \in Assigning \cup {"name", "detach"}
  /\ seen[r].order # 0 /\ order[seen[r].order] = "cancelled"

\* Lessons are only ever booked on an order the student still holds, and only
\* as many as it has left (consumeSlots, consumePackageLessonCreditsInTx).  A
\* cancelled order comes back in one way only: the student paid for the package
\* in a transaction that found the order active, before it was cancelled.
BooksOnlyWhatIsLeft ==
  [][\A o \in Orders :
       /\ order[o] # "none" /\ booked'[o] > booked[o] => order[o] \in ActiveStatuses /\ booked'[o] <= included[o]
       /\ order[o] = "cancelled" /\ order'[o] # "cancelled" =>
            \E r \in Requests : at[r] = "buy" /\ Outrun(r) /\ seen[r].order = o /\ at'[r] # "buy"]_vars

\* The student holds an active order for the package the profile shows.
ProfileHeld == package # None => \E o \in ActiveOrders : item[o] = package

\* No assignment, sale, or archived sale leaves the profile at a package the
\* student does not hold (detachStudentPackageForArchivedPurchaseInTx moves
\* the profile to the newest order that is left), but for the one that writes
\* the profile after another request cancelled the order it had found.
ProfileStaysHeld ==
  [][ProfileHeld /\ ~ProfileHeld' => \E r \in Requests : Outrun(r) /\ at'[r] # at[r]]_vars

\* consumeSlots, as it is documented: "throws if fewer than `slots` credits
\* are available", so open bookings hold no more lessons than the orders and
\* extra blocks of the student include.
HeldWithinBought ==
  SumFunctionOnSet([b \in Bookings |-> pkg[b] + SumFunctionOnSet(extra[b], Extras)], Bookings)
    <= SumFunctionOnSet(included, Orders) + ExtraLessons * Cardinality({e \in Extras : bought[e]})

=============================================================================
