--------------------------- MODULE CashRegisterProofs ---------------------------
(***************************************************************************)
(* Proofs about CashRegister for any branches, shifts, lines and staff,    *)
(* any length of the day and of the precision of a stamp.  Two kinds of    *)
(* steps are told apart: those that leave the shifts alone and write a     *)
(* line, and those that open or close a shift.                             *)
(***************************************************************************)
EXTENDS CashRegister, TLAPS

\* TypeOK in parts, with what the shifts of the tables have been through.
ClockOK == clock \in 0 .. MaxTime + DayLength

ShiftsOK ==
  /\ status \in [Shifts -> {"none", "opening", "open", "closed"}]
  /\ branch \in [Shifts -> Branches \cup {None}]
  /\ opened \in [Shifts -> Instants]
  /\ closed \in [Shifts -> Instants]
  /\ counted \in [Shifts -> SUBSET Lines]

LinesOK ==
  /\ kind \in [Lines -> {"none", "cash", "fuel", "deleted"}]
  /\ date \in [Lines -> Days]
  /\ made \in [Lines -> Instants]
  /\ place \in [Lines -> Branches \cup {None}]
  /\ owner \in [Lines -> Shifts \cup {None}]
  /\ edited \in [Lines -> BOOLEAN]

RequestOK == request \in [Staff -> Requests]

\* A shift was opened, and closed, before this moment.
Lived ==
  \A s \in Shifts : status[s] # "none" =>
    /\ branch[s] \in Branches /\ opened[s] <= clock
    /\ status[s] = "closed" => opened[s] <= closed[s] /\ closed[s] < clock

\* What a request has checked of a shift stays so, but that it may be closed.
Asked ==
  \A w \in Staff :
    /\ request[w].do \in {"create", "close"} => status[request[w].shift] \in {"open", "closed"}
    /\ request[w].do = "close" =>
         request[w].now < clock /\ opened[request[w].shift] <= request[w].now

\* Only closed shifts have counted lines, and fuel that was made while open.
Sums ==
  \A s \in Shifts :
    /\ status[s] # "closed" => counted[s] = {}
    /\ \A l \in counted[s] :
         /\ kind[l] # "none"
         /\ kind[l] = "fuel" /\ ~edited[l] => opened[s] <= Stamp(l)

\* A cash entry as it was made on its shift.
Entry(l) ==
  LET s == owner[l] IN
  /\ status[s] \in {"open", "closed"}
  /\ date[l] = Day(made[l]) /\ place[l] = branch[s] /\ opened[s] <= made[l]

Entered == \A l \in Lines : kind[l] = "cash" /\ owner[l] \in Shifts /\ ~edited[l] => Entry(l)

IInv ==
  /\ ClockOK /\ ShiftsOK /\ LinesOK /\ RequestOK
  /\ Lived /\ Asked /\ Sums /\ Entered
  /\ OneOpenPerBranch /\ FuelCountedOnce /\ CountsItsEntries

-----------------------------------------------------------------------------
(* The calendar.                                                           *)

LEMMA ClockConstants == DayLength \in Nat \ {0} /\ SecondLength \in Nat \ {0} /\ MaxTime \in Nat
BY ClockAssumption

LEMMA DayOfInstant ==
  ASSUME NEW t \in Instants
  PROVE  Day(t) \in Days
BY ClockConstants DEF Day, Days, Instants

LEMMA DaysFollow ==
  ASSUME NEW t \in Instants, NEW u \in Instants, t <= u
  PROVE  Day(t) <= Day(u)
BY ClockConstants DEF Day, Instants

\* Midnight is later, by a day at most.
LEMMA NightPasses ==
  ASSUME NEW t \in Instants
  PROVE  (Day(t) + 1) * DayLength \in t .. MaxTime + DayLength
<1>1. PICK q \in Nat, r \in 0 .. DayLength - 1 : q = Day(t) /\ t = q * DayLength + r
  BY ClockConstants DEF Day, Instants
<1>2. (q + 1) * DayLength = q * DayLength + DayLength
  BY ClockConstants
<1>3. q * DayLength \in Nat
  BY ClockConstants
<1> QED BY <1>1, <1>2, <1>3, ClockConstants DEF Instants

LEMMA StampIsInstant ==
  ASSUME LinesOK, NEW l \in Lines
  PROVE  Stamp(l) \in Int
<1>1. made[l] \in Nat /\ date[l] \in Nat
  BY ClockConstants DEF LinesOK, Instants, Days
<1>2. date[l] * DayLength \in Int /\ made[l] - (made[l] % SecondLength) \in Int
  BY <1>1, ClockConstants
<1> QED BY <1>2 DEF Stamp

\* A shift that covers a moment was opened before it.
LEMMA CoversSinceOpened ==
  ASSUME NEW s \in Shifts, NEW t \in Int, Covers(s, t)
  PROVE  opened[s] <= t
BY DEF Covers

-----------------------------------------------------------------------------
(* Steps that write lines.                                                 *)

\* The line is new, and a proper entry if it is one of a shift.
NewLine(l) ==
  /\ kind[l] = "none"
  /\ owner'[l] \in Shifts =>
       /\ status[owner'[l]] \in {"open", "closed"}
       /\ date'[l] = Day(made'[l]) /\ place'[l] = branch[owner'[l]]
       /\ opened[owner'[l]] <= made'[l]
       /\ status[owner'[l]] = "closed" => closed[owner'[l]] < made'[l]

\* The line is as it was, or edited, or deleted.
OldLine(l) ==
  /\ kind'[l] = kind[l] \/ (kind[l] # "none" /\ kind'[l] = "deleted")
  /\ owner'[l] = owner[l]
  /\ \/ edited'[l]
     \/ edited'[l] = edited[l] /\ date'[l] = date[l] /\ made'[l] = made[l] /\ place'[l] = place[l]

LEMMA LineStep ==
  ASSUME IInv, UNCHANGED shifts, clock' >= clock, ClockOK', LinesOK', RequestOK', Asked',
         \A l \in Lines : NewLine(l) \/ OldLine(l)
  PROVE  IInv'
<1> USE DEF shifts
<1>1. Lived' /\ ShiftsOK' /\ OneOpenPerBranch'
  BY ClockConstants DEF IInv, Lived, ShiftsOK, OneOpenPerBranch, ClockOK, Instants
<1>2. ASSUME NEW s \in Shifts, NEW l \in counted[s]
      PROVE  /\ l \in Lines /\ OldLine(l) /\ kind'[l] # "none"
             /\ kind'[l] = "fuel" /\ ~edited'[l] =>
                  kind[l] = "fuel" /\ ~edited[l] /\ Stamp(l)' = Stamp(l)
  <2>1. l \in Lines /\ kind[l] # "none"
    BY DEF IInv, Sums, ShiftsOK
  <2>2. OldLine(l)
    BY <2>1 DEF NewLine
  <2> QED BY <2>1, <2>2 DEF OldLine, Stamp
<1>3. Sums'
  BY <1>2 DEF IInv, Sums
<1>4. FuelCountedOnce'
  <2> SUFFICES ASSUME NEW s \in Shifts, NEW q \in Shifts, NEW l \in counted[s] \cap counted[q],
                      s # q, kind'[l] = "fuel", ~edited'[l]
               PROVE  Stamp(l)' > closed[s] \/ Stamp(l)' > closed[q]
    BY DEF FuelCountedOnce
  <2> QED BY <1>2 DEF IInv, FuelCountedOnce
<1>5. ASSUME NEW l \in Lines, kind'[l] = "cash", owner'[l] \in Shifts, ~edited'[l]
      PROVE  /\ Entry(l)'
             /\ status[owner'[l]] = "closed" /\ made'[l] < closed[owner'[l]] => l \in counted[owner'[l]]
  <2>1. CASE NewLine(l)
    <3>1. made'[l] \in Int /\ closed[owner'[l]] \in Int
      BY <1>5, ClockConstants DEF IInv, LinesOK, ShiftsOK, Instants
    <3> QED BY <1>5, <2>1, <3>1 DEF NewLine, Entry
  <2>2. CASE OldLine(l)
    BY <1>5, <2>2 DEF OldLine, IInv, Entered, Entry, CountsItsEntries
  <2> QED BY <2>1, <2>2
<1>6. Entered' /\ CountsItsEntries'
  BY <1>5 DEF Entered, CountsItsEntries
<1> QED BY <1>1, <1>3, <1>4, <1>6 DEF IInv

\* Nothing but requests is written.
LEMMA RequestStep ==
  ASSUME IInv, UNCHANGED <<shifts, lines>>, clock' >= clock, ClockOK', RequestOK', Asked'
  PROVE  IInv'
<1>1. LinesOK' /\ \A l \in Lines : OldLine(l)
  BY DEF lines, IInv, LinesOK, OldLine
<1> QED BY <1>1, LineStep

\* Time goes on and the requests stay.
LEMMA AskedStays ==
  ASSUME IInv, UNCHANGED <<status, opened, request>>, clock' >= clock, ClockOK'
  PROVE  Asked' /\ RequestOK'
<1>1. \A w \in Staff : request[w].do = "close" => request[w].now \in Int
  BY ClockConstants DEF IInv, RequestOK, Requests, Instants
<1> QED BY <1>1, ClockConstants DEF IInv, Asked, RequestOK, ClockOK

LEMMA TakesTimeFacts ==
  ASSUME IInv, TakesTime
  PROVE  clock \in Instants /\ clock' = clock + 1 /\ ClockOK' /\ Day(clock) \in Days
<1>1. clock \in Instants /\ clock' = clock + 1
  BY ClockConstants DEF TakesTime, IInv, ClockOK, Instants
<1> QED BY <1>1, DayOfInstant, ClockConstants DEF ClockOK, Instants

\* A new line of a date, place and shift.
LEMMA CreateStep ==
  ASSUME IInv, NEW l \in Lines, NEW k \in {"cash", "fuel"}, NEW d \in Days,
         NEW b \in Branches \cup {None}, NEW s \in Shifts \cup {None},
         Create(l, k, d, b, s), UNCHANGED shifts, RequestOK', Asked',
         s \in Shifts => status[s] \in {"open", "closed"} /\ d = Day(clock) /\ b = branch[s]
  PROVE  IInv'
<1>1. clock \in Instants /\ clock' = clock + 1 /\ ClockOK'
  BY TakesTimeFacts DEF Create
<1>2. LinesOK'
  BY <1>1 DEF Create, IInv, LinesOK
<1>3. \A m \in Lines \ {l} : OldLine(m)
  BY DEF Create, OldLine, IInv, LinesOK
<1>4. NewLine(l)
  <2>1. /\ kind[l] = "none" /\ owner'[l] = s /\ date'[l] = d /\ place'[l] = b /\ made'[l] = clock
    BY DEF Create, IInv, LinesOK
  <2> QED BY <2>1 DEF NewLine, IInv, Lived
<1>5. clock' >= clock
  BY <1>1, ClockConstants DEF Instants
<1> QED BY <1>1, <1>2, <1>3, <1>4, <1>5, LineStep

-----------------------------------------------------------------------------
(* One lemma per group of actions.                                         *)

LEMMA DirectorStep ==
  ASSUME IInv, DirectorNext
  PROVE  IInv'
<1> USE NoneAssumption
<1>1. PICK l \in Lines, d \in Days : DirectorDelete(l) \/ DirectorCreate(l, d) \/ DirectorUpdate(l, d)
  BY DayOfInstant, ClockConstants DEF DirectorNext, Instants
<1>2. CASE DirectorDelete(l)
  <2>1. LinesOK' /\ \A m \in Lines : OldLine(m)
    BY <1>2 DEF DirectorDelete, Exists, Remove, IInv, LinesOK, OldLine
  <2>2. clock' >= clock /\ ClockOK'
    BY <1>2, ClockConstants DEF DirectorDelete, IInv, ClockOK
  <2> QED BY <1>2, <2>1, <2>2, AskedStays, LineStep DEF DirectorDelete, shifts
<1>3. CASE DirectorUpdate(l, d)
  <2>1. LinesOK' /\ \A m \in Lines : OldLine(m)
    BY <1>3 DEF DirectorUpdate, Edit, IInv, LinesOK, OldLine
  <2>2. clock' >= clock /\ ClockOK'
    BY <1>3, ClockConstants DEF DirectorUpdate, IInv, ClockOK
  <2> QED BY <1>3, <2>1, <2>2, AskedStays, LineStep DEF DirectorUpdate, shifts
<1>4. CASE DirectorCreate(l, d)
  <2>1. PICK k \in {"cash", "fuel"}, b \in Branches \cup {None} : Create(l, k, d, b, None)
    BY <1>4 DEF DirectorCreate
  <2>2. clock' >= clock /\ ClockOK'
    BY <2>1, TakesTimeFacts, ClockConstants DEF Create, Instants
  <2>3. Asked' /\ RequestOK'
    BY <1>4, <2>2, AskedStays DEF DirectorCreate, shifts
  <2> QED BY <1>4, <2>1, <2>3, CreateStep DEF DirectorCreate
<1> QED BY <1>1, <1>2, <1>3, <1>4

\* A request that checks a shift or a line, or takes the closing time.
LEMMA BeginStep ==
  ASSUME IInv, NEW w \in Staff,
         \/ \E s \in Shifts : BeginClose(w, s) \/ BeginEntry(w, s)
         \/ \E l \in Lines, what \in {"update", "delete"} : BeginChange(w, l, what)
  PROVE  IInv'
<1>1. ASSUME NEW s \in Shifts, BeginClose(w, s)
      PROVE  IInv'
  <2>1. clock \in Instants /\ clock' = clock + 1 /\ ClockOK'
    BY <1>1, TakesTimeFacts DEF BeginClose
  <2>2. RequestOK'
    BY <1>1, <2>1 DEF BeginClose, IInv, RequestOK, Requests
  <2>3. Asked'
    <3>1. \A v \in Staff : request[v].do = "close" => request[v].now \in Int
      BY ClockConstants DEF IInv, RequestOK, Requests, Instants
    <3>2. \A v \in Staff \ {w} : request'[v] = request[v]
      BY <1>1 DEF BeginClose, IInv, RequestOK
    <3>3. request'[w] = [do |-> "close", shift |-> s, now |-> clock]
      BY <1>1 DEF BeginClose, IInv, RequestOK
    <3>4. opened[s] <= clock
      BY <1>1 DEF BeginClose, IInv, Lived
    <3> QED BY <1>1, <2>1, <3>1, <3>2, <3>3, <3>4, ClockConstants
            DEF BeginClose, shifts, IInv, Asked, Instants
  <2> QED BY <1>1, <2>1, <2>2, <2>3, RequestStep, ClockConstants DEF BeginClose, Instants
<1>2. ASSUME NEW s \in Shifts, BeginEntry(w, s)
      PROVE  IInv'
  <2>1. RequestOK' /\ Asked'
    BY <1>2 DEF BeginEntry, shifts, IInv, RequestOK, Requests, Asked
  <2>2. clock' >= clock /\ ClockOK'
    BY <1>2, ClockConstants DEF BeginEntry, IInv, ClockOK
  <2> QED BY <1>2, <2>1, <2>2, RequestStep DEF BeginEntry
<1>3. ASSUME NEW l \in Lines, NEW what \in {"update", "delete"}, BeginChange(w, l, what)
      PROVE  IInv'
  <2>1. RequestOK' /\ Asked'
    BY <1>3 DEF BeginChange, shifts, IInv, RequestOK, Requests, Asked
  <2>2. clock' >= clock /\ ClockOK'
    BY <1>3, ClockConstants DEF BeginChange, IInv, ClockOK
  <2> QED BY <1>3, <2>1, <2>2, RequestStep DEF BeginChange
<1> QED BY <1>1, <1>2, <1>3

\* A request that writes a line.
LEMMA WriteStep ==
  ASSUME IInv, NEW w \in Staff, FinishEntry(w) \/ FinishChange(w)
  PROVE  IInv'
<1>1. CASE FinishEntry(w)
  <2>1. request[w].shift \in Shifts /\ status[request[w].shift] \in {"open", "closed"}
    BY <1>1 DEF FinishEntry, IInv, RequestOK, Requests, Asked
  <2>2. PICK l \in Lines : Create(l, "cash", Day(clock), branch[request[w].shift], request[w].shift)
    BY <1>1 DEF FinishEntry
  <2>3. clock \in Instants /\ clock' = clock + 1 /\ ClockOK' /\ Day(clock) \in Days
    BY <2>2, TakesTimeFacts DEF Create
  <2>4. RequestOK'
    BY <1>1 DEF FinishEntry, IInv, RequestOK, Requests, Idle
  <2>5. Asked'
    <3>1. \A v \in Staff : request[v].do = "close" => request[v].now \in Int
      BY ClockConstants DEF IInv, RequestOK, Requests, Instants
    <3> QED BY <1>1, <2>3, <3>1, ClockConstants
            DEF FinishEntry, shifts, IInv, RequestOK, Asked, Idle, Instants
  <2>6. branch[request[w].shift] \in Branches \cup {None}
    BY <2>1 DEF IInv, ShiftsOK
  <2> QED BY <1>1, <2>1, <2>2, <2>3, <2>4, <2>5, <2>6, CreateStep DEF FinishEntry
<1>2. CASE FinishChange(w)
  <2>1. request[w].line \in Lines
    BY <1>2 DEF FinishChange, IInv, RequestOK, Requests
  <2>2. LinesOK' /\ \A m \in Lines : OldLine(m)
    BY <1>2, <2>1 DEF FinishChange, Exists, Remove, Edit, IInv, LinesOK, OldLine
  <2>3. RequestOK' /\ Asked'
    BY <1>2 DEF FinishChange, shifts, IInv, RequestOK, Requests, Idle, Asked
  <2>4. clock' >= clock /\ ClockOK'
    BY <1>2, ClockConstants DEF FinishChange, IInv, ClockOK
  <2> QED BY <1>2, <2>2, <2>3, <2>4, LineStep DEF FinishChange
<1> QED BY <1>1, <1>2

\* A shift is opened: the row takes its time, and the unique key lets it in.
LEMMA OpenStep ==
  ASSUME IInv, NEW s \in Shifts, FinishOpen(s) \/ \E b \in Branches : BeginOpen(s, b)
  PROVE  IInv'
<1>1. ASSUME NEW b \in Branches, BeginOpen(s, b)
      PROVE  IInv'
  <2>1. clock \in Instants /\ clock' = clock + 1 /\ ClockOK'
    BY <1>1, TakesTimeFacts DEF BeginOpen
  <2>2. ShiftsOK' /\ LinesOK' /\ RequestOK'
    BY <1>1, <2>1 DEF BeginOpen, lines, IInv, ShiftsOK, LinesOK, RequestOK
  <2>3. Lived'
    BY <1>1, <2>1, ClockConstants DEF BeginOpen, IInv, ShiftsOK, Lived, Instants
  <2>4. Asked'
    <3>1. \A v \in Staff : request[v].do = "close" => request[v].now \in Int
      BY ClockConstants DEF IInv, RequestOK, Requests, Instants
    <3>2. \A v \in Staff : request[v].do \in {"create", "close"} => request[v].shift \in Shifts \ {s}
      BY <1>1 DEF BeginOpen, IInv, RequestOK, Requests, Asked
    <3> QED BY <1>1, <2>1, <3>1, <3>2, ClockConstants
            DEF BeginOpen, IInv, ShiftsOK, Asked, Instants
  <2>5. Sums' /\ FuelCountedOnce'
    BY <1>1 DEF BeginOpen, lines, IInv, ShiftsOK, Sums, Stamp, FuelCountedOnce
  <2>6. Entered' /\ CountsItsEntries' /\ OneOpenPerBranch'
    BY <1>1 DEF BeginOpen, lines, IInv, ShiftsOK, Entered, Entry, CountsItsEntries, OneOpenPerBranch
  <2> QED BY <2>1, <2>2, <2>3, <2>4, <2>5, <2>6 DEF IInv
<1>2. CASE FinishOpen(s)
  <2>1. ShiftsOK' /\ LinesOK' /\ RequestOK' /\ ClockOK'
    BY <1>2 DEF FinishOpen, lines, IInv, ShiftsOK, LinesOK, RequestOK, ClockOK
  <2>2. Lived' /\ Asked'
    BY <1>2 DEF FinishOpen, IInv, ShiftsOK, RequestOK, Requests, Lived, Asked
  <2>3. Sums' /\ FuelCountedOnce'
    BY <1>2 DEF FinishOpen, lines, IInv, ShiftsOK, Sums, Stamp, FuelCountedOnce
  <2>4. Entered' /\ CountsItsEntries'
    BY <1>2 DEF FinishOpen, lines, IInv, ShiftsOK, Entered, Entry, CountsItsEntries
  <2>5. OneOpenPerBranch'
    BY <1>2 DEF FinishOpen, KeyIsFree, OpenShifts, IInv, ShiftsOK, OneOpenPerBranch
  <2> QED BY <2>1, <2>2, <2>3, <2>4, <2>5 DEF IInv
<1> QED BY <1>1, <1>2

\* The lines a closing shift counts leave out the fuel of every other shift,
\* and leave out no entry of its own made before the closing time.
LEMMA LinesCounted ==
  ASSUME IInv, NEW s \in Shifts, NEW now \in Instants, status[s] = "open", opened[s] <= now
  PROVE  /\ \A l \in LinesOf(s, now) :
              /\ l \in Lines /\ kind[l] # "none"
              /\ kind[l] = "fuel" =>
                   /\ opened[s] <= Stamp(l)
                   /\ \A q \in Shifts \ {s} : l \in counted[q] /\ ~edited[l] => Stamp(l) > closed[q]
         /\ \A l \in Lines : kind[l] = "cash" /\ owner[l] = s /\ ~edited[l] /\ made[l] < now
              => l \in LinesOf(s, now)
<1>1. ASSUME NEW l \in LinesOf(s, now)
      PROVE  /\ l \in Lines /\ kind[l] # "none"
             /\ kind[l] = "fuel" =>
                   /\ opened[s] <= Stamp(l)
                   /\ \A q \in Shifts \ {s} : l \in counted[q] /\ ~edited[l] => Stamp(l) > closed[q]
  <2>1. l \in Lines /\ kind[l] \in {"cash", "fuel"} /\ (kind[l] = "fuel" => OwnsFuel(l, s))
    BY DEF LinesOf
  <2>2. Stamp(l) \in Int
    BY <2>1, StampIsInstant DEF IInv
  <2>3. ASSUME kind[l] = "fuel"
        PROVE  /\ opened[s] <= Stamp(l)
               /\ \A q \in Shifts \ {s} : l \in counted[q] /\ ~edited[l] => Stamp(l) > closed[q]
    <3>1. Covers(s, Stamp(l)) /\ \A q \in Shifts \ {s} : ~Covers(q, Stamp(l))
      BY <2>1, <2>3 DEF OwnsFuel
    <3>2. opened[s] <= Stamp(l)
      BY <3>1, <2>2, CoversSinceOpened
    <3>3. ASSUME NEW q \in Shifts \ {s}, l \in counted[q], ~edited[l]
          PROVE  Stamp(l) > closed[q]
      <4>1. status[q] = "closed" /\ opened[q] <= Stamp(l)
        BY <2>3, <3>3 DEF IInv, Sums
      <4>2. closed[q] \in Int
        BY ClockConstants DEF IInv, ShiftsOK, Instants
      <4> QED BY <2>2, <3>1, <4>1, <4>2 DEF Covers
    <3> QED BY <3>2, <3>3
  <2> QED BY <2>1, <2>3
<1>2. ASSUME NEW l \in Lines, kind[l] = "cash", owner[l] = s, ~edited[l], made[l] < now
      PROVE  l \in LinesOf(s, now)
  <2>1. date[l] = Day(made[l]) /\ place[l] = branch[s] /\ opened[s] <= made[l]
    BY <1>2 DEF IInv, Entered, Entry
  <2>2. made[l] \in Instants /\ opened[s] \in Instants /\ made[l] <= now
    BY <1>2, ClockConstants DEF IInv, LinesOK, ShiftsOK, Instants
  <2>3. Day(opened[s]) <= date[l] /\ date[l] <= Day(now)
    BY <2>1, <2>2, DaysFollow
  <2> QED BY <1>2, <2>1, <2>3 DEF LinesOf, InDays
<1> QED BY <1>1, <1>2

LEMMA CloseStep ==
  ASSUME IInv, NEW w \in Staff, FinishClose(w)
  PROVE  IInv'
<1>1. PICK s \in Shifts, now \in Instants :
        /\ s = request[w].shift /\ now = request[w].now
        /\ status[s] \in {"open", "closed"} /\ now < clock /\ opened[s] <= now
  BY DEF FinishClose, IInv, RequestOK, Requests, Asked
<1>2. RequestOK' /\ ClockOK' /\ LinesOK'
  BY DEF FinishClose, lines, IInv, RequestOK, Requests, Idle, ClockOK, LinesOK
<1>3. CASE status[s] = "closed"
  <2>1. UNCHANGED <<shifts, lines, clock>>
    BY <1>1, <1>3 DEF FinishClose, Closable, shifts
  <2>2. Asked'
    BY <2>1 DEF FinishClose, shifts, IInv, RequestOK, Asked, Idle
  <2>3. clock' >= clock
    BY <2>1, ClockConstants DEF IInv, ClockOK
  <2> QED BY <1>2, <2>1, <2>2, <2>3, RequestStep
<1>4. CASE status[s] = "open"
  <2>1. /\ status'  = [status EXCEPT ![s] = "closed"]
        /\ closed'  = [closed EXCEPT ![s] = now]
        /\ counted' = [counted EXCEPT ![s] = LinesOf(s, now)]
        /\ UNCHANGED <<clock, branch, opened, lines>>
    BY <1>1, <1>4 DEF FinishClose, Closable
  <2>2. ShiftsOK'
    BY <2>1, LinesCounted, <1>1, <1>4 DEF IInv, ShiftsOK
  <2>3. Lived'
    BY <1>1, <2>1 DEF IInv, ShiftsOK, Lived
  <2>4. Asked'
    BY <2>1 DEF FinishClose, IInv, ShiftsOK, RequestOK, Requests, Asked, Idle
  <2>5. Sums'
    BY <1>1, <1>4, <2>1, LinesCounted DEF lines, IInv, ShiftsOK, Sums, Stamp
  <2>6. FuelCountedOnce'
    <3>1. \A l \in Lines : Stamp(l)' = Stamp(l)
      BY <2>1 DEF lines, Stamp
    <3>2. /\ counted'[s] = LinesOf(s, now)
          /\ \A q \in Shifts \ {s} : counted'[q] = counted[q] /\ closed'[q] = closed[q]
      BY <2>1 DEF IInv, ShiftsOK
    <3> SUFFICES ASSUME NEW p \in Shifts, NEW q \in Shifts, NEW l \in counted'[p] \cap counted'[q],
                        p # q, kind[l] = "fuel", ~edited[l]
                 PROVE  Stamp(l) > closed'[p] \/ Stamp(l) > closed'[q]
      <4>1. \A p \in Shifts : counted'[p] \subseteq Lines
        BY <2>2 DEF ShiftsOK
      <4> QED BY <2>1, <3>1, <4>1 DEF lines, FuelCountedOnce
    <3>3. CASE p # s /\ q # s
      BY <3>2, <3>3 DEF IInv, FuelCountedOnce
    <3>4. CASE p = s
      BY <3>2, <3>4, <1>1, <1>4, LinesCounted
    <3>5. CASE q = s
      BY <3>2, <3>5, <1>1, <1>4, LinesCounted
    <3> QED BY <3>3, <3>4, <3>5
  <2>7. Entered'
    BY <2>1 DEF lines, IInv, ShiftsOK, Entered, Entry
  <2>8. CountsItsEntries'
    BY <1>1, <1>4, <2>1, LinesCounted DEF lines, IInv, ShiftsOK, CountsItsEntries
  <2>9. OneOpenPerBranch'
    BY <2>1 DEF IInv, ShiftsOK, OneOpenPerBranch
  <2> QED BY <1>2, <2>2, <2>3, <2>4, <2>5, <2>6, <2>7, <2>8, <2>9 DEF IInv
<1> QED BY <1>1, <1>3, <1>4

-----------------------------------------------------------------------------

LEMMA InitInv == Init => IInv
<1> SUFFICES ASSUME Init PROVE IInv
  OBVIOUS
<1>1. 0 \in Instants /\ 0 \in Days
  BY ClockConstants, DayOfInstant DEF Instants, Day, Days
<1>2. ClockOK /\ ShiftsOK /\ LinesOK /\ RequestOK
  BY <1>1, ClockConstants DEF Init, ClockOK, ShiftsOK, LinesOK, RequestOK, Requests, Idle
<1>3. Lived /\ Asked /\ Sums /\ Entered
  BY DEF Init, Lived, Asked, Sums, Entered, Idle
<1>4. OneOpenPerBranch /\ FuelCountedOnce /\ CountsItsEntries
  BY DEF Init, OneOpenPerBranch, FuelCountedOnce, CountsItsEntries
<1> QED BY <1>2, <1>3, <1>4 DEF IInv

LEMMA StepInv == IInv /\ [Next]_vars => IInv'
<1> SUFFICES ASSUME IInv, [Next]_vars PROVE IInv'
  OBVIOUS
<1>1. CASE UNCHANGED vars
  <2>1. UNCHANGED <<shifts, lines, clock, request>> /\ clock' >= clock /\ ClockOK'
    BY <1>1, ClockConstants DEF vars, IInv, ClockOK
  <2> QED BY <2>1, AskedStays, RequestStep DEF shifts
<1>2. CASE Midnight
  <2>1. clock \in Instants
    BY <1>2, ClockConstants DEF Midnight, IInv, ClockOK, Instants
  <2>2. clock' >= clock /\ ClockOK'
    BY <1>2, <2>1, NightPasses, ClockConstants DEF Midnight, ClockOK, Instants
  <2> QED BY <1>2, <2>2, AskedStays, RequestStep DEF Midnight, shifts
<1>3. CASE StaffNext
  BY <1>3, OpenStep, BeginStep, CloseStep, WriteStep DEF StaffNext
<1> QED BY <1>1, <1>2, <1>3, DirectorStep DEF Next

THEOREM Invariance == Spec => []IInv
BY InitInv, StepInv, PTL DEF Spec

\* Shifts, lines and requests stay of their kind; a shift is closed no earlier
\* than it was opened.
THEOREM TypeCorrect == Spec => []TypeOK
<1>1. IInv => TypeOK
  BY DEF IInv, ClockOK, ShiftsOK, LinesOK, RequestOK, Lived, TypeOK
<1> QED BY <1>1, Invariance, PTL

\* However many members of staff open a shift at once, a branch has one open.
THEOREM OpenOncePerBranch == Spec => []OneOpenPerBranch
<1>1. IInv => OneOpenPerBranch
  BY DEF IInv
<1> QED BY <1>1, Invariance, PTL

\* Fuel that was made while two shifts were open is in the totals of neither or
\* of the one that was closed last, for any number of shifts and branches.
THEOREM FuelIsCountedOnce == Spec => []FuelCountedOnce
<1>1. IInv => FuelCountedOnce
  BY DEF IInv
<1> QED BY <1>1, Invariance, PTL

\* No entry made before the closing time is missing from the totals, whatever
\* the length of the day and however often midnight passes.
THEOREM EntriesAreCounted == Spec => []CountsItsEntries
<1>1. IInv => CountsItsEntries
  BY DEF IInv
<1> QED BY <1>1, Invariance, PTL

\* No step changes what a shift was closed with.
LEMMA ClosedStep ==
  ASSUME IInv, [Next]_vars, NEW s \in Shifts, status[s] = "closed"
  PROVE  status'[s] = "closed" /\ closed'[s] = closed[s] /\ counted'[s] = counted[s]
<1>1. ASSUME NEW q \in Shifts, FinishOpen(q) \/ \E b \in Branches : BeginOpen(q, b)
      PROVE  status'[s] = "closed" /\ closed'[s] = closed[s] /\ counted'[s] = counted[s]
  BY <1>1 DEF FinishOpen, BeginOpen, IInv, ShiftsOK
<1>2. ASSUME NEW w \in Staff, FinishClose(w)
      PROVE  status'[s] = "closed" /\ closed'[s] = closed[s] /\ counted'[s] = counted[s]
  BY <1>2 DEF FinishClose, Closable, IInv, ShiftsOK
<1>3. ASSUME UNCHANGED shifts
      PROVE  status'[s] = "closed" /\ closed'[s] = closed[s] /\ counted'[s] = counted[s]
  BY <1>3 DEF shifts
<1>4. CASE UNCHANGED vars \/ Midnight \/ DirectorNext
  BY <1>3, <1>4 DEF vars, Midnight, DirectorNext, DirectorCreate, DirectorUpdate, DirectorDelete
<1>5. CASE StaffNext
  BY <1>1, <1>2, <1>3, <1>5 DEF StaffNext, BeginClose, BeginEntry, BeginChange, FinishEntry, FinishChange
<1> QED BY <1>4, <1>5 DEF Next

\* A shift that is closed keeps its time and totals, whoever closes it again.
THEOREM ClosedForGood == Spec => ClosedStaysAsCounted
<1>1. IInv /\ [Next]_vars =>
        [\A s \in Shifts :
           status[s] = "closed" =>
             status'[s] = "closed" /\ closed'[s] = closed[s] /\ counted'[s] = counted[s]]_vars
  BY ClosedStep
<1> QED BY <1>1, Invariance, PTL DEF Spec, ClosedStaysAsCounted

=============================================================================
