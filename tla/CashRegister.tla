------------------------------ MODULE CashRegister ------------------------------
(***************************************************************************)
(* The cash register of the branches (services/cash-register.service.ts,   *)
(* director.service.ts): a shift is opened on a branch, cash entries are   *)
(* made on it, and closing it stores what the day's ledger lines add up    *)
(* to.  Fuel lines carry no branch and go to the one shift, of any branch, *)
(* that was open when they were made.                                      *)
(*                                                                         *)
(* A request that checks first and writes later, or that takes the time    *)
(* before it waits for a lock, is two steps.  A shift being opened is a    *)
(* row that has its time and is not committed yet.                         *)
(***************************************************************************)
EXTENDS Integers, FiniteSets

CONSTANTS
  Branches,
  Shifts,       \* ids of cash_shifts rows
  Lines,        \* ids of ledger lines
  Staff,
  DayLength,    \* instants of a calendar day
  SecondLength, \* instants of a second, the precision of a line's stamp
  MaxTime,      \* bound on the clock
  None

ASSUME ClockAssumption ==
  /\ DayLength \in Nat \ {0} /\ SecondLength \in Nat \ {0} /\ MaxTime \in Nat
  /\ DayLength % SecondLength = 0
ASSUME NoneAssumption == None \notin Branches /\ None \notin Shifts /\ None \notin Lines

VARIABLES
  clock,
  status,   \* cash_shifts.status; "opening" is a row not committed yet
  branch, opened, closed,
  counted,  \* the lines in the totals stored when the shift was closed
  kind,     \* "cash" is a director_cash_entries row, "fuel" a fuel row
  date, made,         \* the line's date, and when its row was created
  place, owner,       \* a cash line's branch_id and shift_id
  edited,             \* updated_at is later than created_at
  request             \* what each member of staff has checked and not yet done

shifts == <<status, branch, opened, closed, counted>>
lines  == <<kind, date, made, place, owner, edited>>
vars   == <<clock, shifts, lines, request>>

Instants == 0 .. MaxTime
Day(t)   == t \div DayLength
Days     == 0 .. Day(MaxTime)

Requests ==
  [do : {"idle"}] \cup [do : {"create"}, shift : Shifts]
    \cup [do : {"update", "delete"}, line : Lines]
    \cup [do : {"close"}, shift : Shifts, now : Instants]
Idle == [do |-> "idle"]

TypeOK ==
  /\ clock \in 0 .. MaxTime + DayLength
  /\ status \in [Shifts -> {"none", "opening", "open", "closed"}]
  /\ branch \in [Shifts -> Branches \cup {None}]
  /\ opened \in [Shifts -> Instants]
  /\ closed \in [Shifts -> Instants]
  /\ counted \in [Shifts -> SUBSET Lines]
  /\ kind \in [Lines -> {"none", "cash", "fuel", "deleted"}]
  /\ date \in [Lines -> Days]
  /\ made \in [Lines -> Instants]
  /\ place \in [Lines -> Branches \cup {None}]
  /\ owner \in [Lines -> Shifts \cup {None}]
  /\ edited \in [Lines -> BOOLEAN]
  /\ request \in [Staff -> Requests]
  /\ \A s \in Shifts : status[s] \in {"open", "closed"} => branch[s] \in Branches
  /\ \A s \in Shifts : status[s] = "closed" => opened[s] <= closed[s]

Init ==
  /\ clock = 0
  /\ status  = [s \in Shifts |-> "none"]
  /\ branch  = [s \in Shifts |-> None]
  /\ opened  = [s \in Shifts |-> 0]
  /\ closed  = [s \in Shifts |-> 0]
  /\ counted = [s \in Shifts |-> {}]
  /\ kind    = [l \in Lines |-> "none"]
  /\ date    = [l \in Lines |-> 0]
  /\ made    = [l \in Lines |-> 0]
  /\ place   = [l \in Lines |-> None]
  /\ owner   = [l \in Lines |-> None]
  /\ edited  = [l \in Lines |-> FALSE]
  /\ request = [w \in Staff |-> Idle]

\* No two rows are stamped at one instant.
TakesTime == clock <= MaxTime /\ clock' = clock + 1

\* The night passes.
Midnight ==
  /\ clock <= MaxTime
  /\ clock' = (Day(clock) + 1) * DayLength
  /\ UNCHANGED <<shifts, lines, request>>

-----------------------------------------------------------------------------
(* Which lines a shift counts.                                             *)

\* occurredAtFromDateOnly: to the second, or midnight when the line is dated
\* on another day than it was made.
Stamp(l) ==
  IF Day(made[l]) = date[l] THEN made[l] - (made[l] % SecondLength) ELSE date[l] * DayLength

\* attributeLines: the shift was open at t, or is to this moment.
Covers(s, t) ==
  \/ status[s] = "open" /\ opened[s] <= t /\ t <= clock
  \/ status[s] = "closed" /\ opened[s] <= t /\ t <= closed[s]

\* Faulty: every shift open at the time counts the line.
OwnersAny(l, s) == Covers(s, Stamp(l))

\* The shift is the only one that covers the fuel line; others are unassigned.
OwnsFuel(l, s) == {q \in Shifts : Covers(q, Stamp(l))} = {s}

\* Faulty: only the day the shift was opened is read.
OnOpeningDay(l, s, now) == date[l] = Day(opened[s])

\* The days linesForShift reads.
InDays(l, s, now) == Day(opened[s]) <= date[l] /\ date[l] <= Day(now)

\* linesForShift and totalsFromLines: the lines of the branch on the shift's
\* calendar days, and the fuel of the shift.
LinesOf(s, now) ==
  {l \in Lines :
     /\ InDays(l, s, now)
     /\ \/ kind[l] = "cash" /\ place[l] = branch[s]
        \/ kind[l] = "fuel" /\ OwnsFuel(l, s)}

-----------------------------------------------------------------------------
(* Opening and closing.                                                    *)

OpenShifts(b) == {s \in Shifts : status[s] = "open" /\ branch[s] = b}

\* Faulty: the row is created without its branch.
BeginOpenUnplaced(s, b) ==
  /\ status[s] = "none" /\ OpenShifts(b) = {}
  /\ status' = [status EXCEPT ![s] = "opening"]
  /\ opened' = [opened EXCEPT ![s] = clock]
  /\ TakesTime
  /\ UNCHANGED <<branch, closed, counted, lines, request>>

\* open: no open shift is found to lock, and the row takes its time ...
BeginOpen(s, b) ==
  /\ status[s] = "none" /\ OpenShifts(b) = {}
  /\ status' = [status EXCEPT ![s] = "opening"]
  /\ branch' = [branch EXCEPT ![s] = b]
  /\ opened' = [opened EXCEPT ![s] = clock]
  /\ TakesTime
  /\ UNCHANGED <<closed, counted, lines, request>>

\* Faulty: the model has no unique index on open_branch_key.
AnyKey(s) == TRUE

\* The unique index on open_branch_key, null in closed rows.
KeyIsFree(s) == OpenShifts(branch[s]) = {}

\* ... then the unique key lets it in or not.
FinishOpen(s) ==
  /\ status[s] = "opening"
  /\ \/ KeyIsFree(s) /\ status' = [status EXCEPT ![s] = "open"]
     \/ ~KeyIsFree(s) /\ status' = [status EXCEPT ![s] = "none"]
  /\ UNCHANGED <<clock, branch, opened, closed, counted, lines, request>>

\* close takes the closing time before it waits for the row ...
BeginClose(w, s) ==
  /\ request[w] = Idle /\ status[s] = "open"
  /\ request' = [request EXCEPT ![w] = [do |-> "close", shift |-> s, now |-> clock]]
  /\ TakesTime
  /\ UNCHANGED <<shifts, lines>>

\* Faulty: the status is not looked at again under the lock.
ClosableOnce(s) == status[s] \in {"open", "closed"}

Closable(s) == status[s] = "open"

\* ... and with the row locked reads the lines and stores the totals.
FinishClose(w) ==
  /\ request[w].do = "close"
  /\ LET s == request[w].shift  now == request[w].now IN
     \/ /\ Closable(s)
        /\ status'  = [status EXCEPT ![s] = "closed"]
        /\ closed'  = [closed EXCEPT ![s] = now]
        /\ counted' = [counted EXCEPT ![s] = LinesOf(s, now)]
     \/ ~Closable(s) /\ UNCHANGED <<status, closed, counted>>
  /\ request' = [request EXCEPT ![w] = Idle]
  /\ UNCHANGED <<clock, branch, opened, lines>>

-----------------------------------------------------------------------------
(* Entries of a shift: the status is read, then the row is written.        *)

\* A new line.
Create(l, k, d, b, s) ==
  /\ kind[l] = "none"
  /\ kind'  = [kind EXCEPT ![l] = k]
  /\ date'  = [date EXCEPT ![l] = d]
  /\ made'  = [made EXCEPT ![l] = clock]
  /\ place' = [place EXCEPT ![l] = b]
  /\ owner' = [owner EXCEPT ![l] = s]
  /\ TakesTime
  /\ UNCHANGED edited

\* createEntry
BeginEntry(w, s) ==
  /\ request[w] = Idle /\ status[s] = "open"
  /\ request' = [request EXCEPT ![w] = [do |-> "create", shift |-> s]]
  /\ UNCHANGED <<clock, shifts, lines>>

FinishEntry(w) ==
  /\ request[w].do = "create"
  /\ \E l \in Lines :
       Create(l, "cash", Day(clock), branch[request[w].shift], request[w].shift)
  /\ request' = [request EXCEPT ![w] = Idle]
  /\ UNCHANGED shifts

\* updateEntry, deleteEntry
BeginChange(w, l, what) ==
  /\ request[w] = Idle
  /\ kind[l] = "cash" /\ owner[l] \in Shifts /\ status[owner[l]] = "open"
  /\ request' = [request EXCEPT ![w] = [do |-> what, line |-> l]]
  /\ UNCHANGED <<clock, shifts, lines>>

Exists(l) == kind[l] \in {"cash", "fuel"}

Edit(l) == edited' = [edited EXCEPT ![l] = TRUE]
Remove(l) == kind' = [kind EXCEPT ![l] = "deleted"]

FinishChange(w) ==
  /\ request[w].do \in {"update", "delete"}
  /\ LET l == request[w].line IN
     \/ request[w].do = "update" /\ Exists(l) /\ Edit(l) /\ UNCHANGED kind
     \/ request[w].do = "delete" /\ Exists(l) /\ Remove(l) /\ UNCHANGED edited
     \/ ~Exists(l) /\ UNCHANGED <<kind, edited>>
  /\ request' = [request EXCEPT ![w] = Idle]
  /\ UNCHANGED <<clock, shifts, date, made, place, owner>>

-----------------------------------------------------------------------------
(* The director's ledger: no shift is looked at.                           *)

\* createCash, createFuel
DirectorCreate(l, d) ==
  /\ \/ \E b \in Branches : Create(l, "cash", d, b, None)
     \/ Create(l, "fuel", d, None, None)
  /\ UNCHANGED <<shifts, request>>

\* updateCash, updateFuel
DirectorUpdate(l, d) ==
  /\ \/ kind[l] = "cash" /\ \E b \in Branches : place' = [place EXCEPT ![l] = b]
     \/ kind[l] = "fuel" /\ UNCHANGED place
  /\ date' = [date EXCEPT ![l] = d]
  /\ Edit(l)
  /\ UNCHANGED <<clock, shifts, kind, made, owner, request>>

\* deleteCash, deleteFuel
DirectorDelete(l) ==
  /\ Exists(l) /\ Remove(l)
  /\ UNCHANGED <<clock, shifts, date, made, place, owner, edited, request>>

-----------------------------------------------------------------------------

StaffNext ==
  \/ \E s \in Shifts : FinishOpen(s) \/ \E b \in Branches : BeginOpen(s, b)
  \/ \E w \in Staff, s \in Shifts : BeginClose(w, s) \/ BeginEntry(w, s)
  \/ \E w \in Staff, l \in Lines, what \in {"update", "delete"} : BeginChange(w, l, what)
  \/ \E w \in Staff : FinishClose(w) \/ FinishEntry(w) \/ FinishChange(w)

DirectorNext ==
  \E l \in Lines : DirectorDelete(l) \/ \E d \in Days : DirectorCreate(l, d) \/ DirectorUpdate(l, d)

Next == Midnight \/ StaffNext \/ DirectorNext

Spec == Init /\ [][Next]_vars

-----------------------------------------------------------------------------
(* Properties.                                                             *)

\* A branch has one open drawer, however many members of staff open it at
\* once (open finds no row to lock; only the unique key decides).
OneOpenPerBranch ==
  \A s, q \in Shifts : status[s] = "open" /\ status[q] = "open" /\ branch[s] = branch[q] => s = q

\* What a shift was closed with never changes: a second close that waited for
\* the row changes nothing (close).
ClosedStaysAsCounted ==
  [][\A s \in Shifts :
       status[s] = "closed" => status'[s] = "closed" /\ closed'[s] = closed[s] /\ counted'[s] = counted[s]]_vars

\* A fuel line nobody edited is in the stored totals of two shifts only if it
\* was made after the closing time one of them took before it waited for the
\* row: never of two shifts that were both open when it was made, of one
\* branch or of two (attributeLines).
FuelCountedOnce ==
  \A s, q \in Shifts : \A l \in counted[s] \cap counted[q] :
    s # q /\ kind[l] = "fuel" /\ ~edited[l]
      => Stamp(l) > closed[s] \/ Stamp(l) > closed[q]

\* A cash entry made on a shift before its closing time was taken, and not
\* edited since, is in the totals the shift was closed with, over midnight
\* too (createEntry, linesForShift).
CountsItsEntries ==
  \A l \in Lines : kind[l] = "cash" /\ owner[l] \in Shifts /\ ~edited[l] =>
    (status[owner[l]] = "closed" /\ made[l] < closed[owner[l]] => l \in counted[owner[l]])

\* The refusal of updateEntry and deleteEntry, "Closed shift entries cannot be
\* changed": the check and the write are two steps, and the director's ledger
\* does not check.
ClosedEntriesFixed ==
  [][\A l \in Lines :
       kind[l] = "cash" /\ owner[l] \in Shifts /\ status[owner[l]] = "closed"
         => kind'[l] = "cash" /\ edited'[l] = edited[l]]_vars

=============================================================================
