------------------------- MODULE VposCheckoutProofs -------------------------
(* Theorems of VposCheckout, for every value of its constants.             *)
EXTENDS VposCheckout, TLAPS

(* What a handler holds in memory at each program counter.                 *)
HoldsSession == {"register", "ask", "unpaid", "captured", "insert", "throw", "reload"}
HoldsTarget  == {"reuse", "duplicates", "expire", "create"}

HandlerOK(a) ==
  /\ pc[a] \in HoldsSession => at[a] \in Sessions /\ Used(at[a])
  /\ pc[a] \in HoldsTarget => want[a] \in Targets
  /\ pc[a] = "register" => bank[at[a]] = "none"
  /\ pc[a] \in {"captured", "insert"} => bank[at[a]] = "captured"
  /\ a \in Crons => \A s \in todo[a] : Used(s)

HandlerInv ==
  /\ \A a \in Actors : HandlerOK(a)
  /\ \A a, c \in Actors : pc[a] = "register" /\ pc[c] = "register" /\ at[a] = at[c]
                          => a = c

(* The open transactions of packages and blocks: what one has found stays  *)
(* true of its own order, because it has locked the session; of the other  *)
(* orders of its package only unless the session is marked raced.          *)
Looked(a) ==
  /\ target[at[a]] \in Packages \cup Extras
  /\ at[a] \notin ledger
  /\ target[at[a]] \in Packages /\ Ordered(target[at[a]]) => at[a] \in raced

LockInv ==
  /\ \A a \in Actors : pc[a] = "insert" => Looked(a)
  /\ \A a, c \in Actors : pc[a] = "insert" /\ pc[c] = "insert" /\ at[a] = at[c]
                          => a = c

(* The rows: OneGrantPerTarget and the other safety properties are         *)
(* inductive together with what a grant leaves behind.                     *)
RowsInv ==
  /\ \A s \in Sessions : ~Used(s) => /\ bank[s] = "none"
                                     /\ status[s] # "paid"
  /\ \A s \in ledger : grants[s] > 0
  /\ \A s \in Sessions : grants[s] > 0 => \/ target[s] \in Bookings /\ paid[target[s]]
                                          \/ target[s] \in Packages \cup Extras /\ s \in ledger
  /\ GrantedWasCaptured
  /\ OneGrantPerOrder
  /\ OneGrantPerTarget

IInv == TypeOK /\ HandlerInv /\ LockInv /\ RowsInv

-----------------------------------------------------------------------------

LEMMA TypingInit == Init => TypeOK /\ HandlerInv /\ LockInv
  BY DistinctKinds, TimeConstants
  DEF Init, TypeOK, HandlerInv, HandlerOK, LockInv, SessionStatus, BankStatus, BookingStatus, Pcs,
      Entries, HoldsSession, HoldsTarget

LEMMA TypingVerify ==
  ASSUME TypeOK, HandlerInv, NEW a \in Actors, Verify(a)
  PROVE  TypeOK'
<1> USE DistinctKinds, TimeConstants
    DEF TypeOK, SessionStatus, BankStatus, BookingStatus, Pcs, Entries, Finish, Goto,
        sessionRows, bookingRows, granted, memory
<1>1. CASE AskBank(a)
  BY <1>1 DEF AskBank
<1>2. CASE RecordUnpaid(a)
  BY <1>2 DEF RecordUnpaid, UpdateFailed, SetStatus
<1>3. CASE FulfilAlreadyPaid(a)
  BY <1>3 DEF FulfilAlreadyPaid
<1>4. CASE FulfilBooking(a)
  <2> DEFINE b == target[at[a]]
  <2>1. CASE paid[b] /\ UNCHANGED <<bookingRows, granted>>
    BY <1>4, <2>1 DEF FulfilBooking, Settle, SetStatus
  <2>2. CASE ConfirmPaid(b) /\ Grant(at[a]) /\ ledger' \in {ledger, ledger \cup {at[a]}}
    <3>1. at[a] \in Sessions /\ b \in Bookings
      BY <1>4 DEF FulfilBooking, Settle, HandlerInv, HandlerOK, HoldsSession
    <3>2. ledger' \in SUBSET Sessions
      BY <2>2, <3>1
    <3> QED BY <1>4, <2>2, <3>1, <3>2 DEF FulfilBooking, Settle, SetStatus, ConfirmPaid, Grant
  <2> QED BY <1>4, <2>1, <2>2 DEF FulfilBooking
<1>5. CASE FulfilEntitlementGone(a) \/ FulfilEntitlementDone(a)
  BY <1>5 DEF FulfilEntitlementGone, FulfilEntitlementDone, Settle, SetStatus
<1>10. CASE FulfilEntitlementLook(a)
  BY <1>10 DEF FulfilEntitlementLook, LookAndInsert
<1>11. CASE FulfilEntitlementInsert(a)
  <2>1. at[a] \in Sessions
    BY <1>11 DEF FulfilEntitlementInsert, HandlerInv, HandlerOK, HoldsSession
  <2>2. Racing(a) \subseteq Sessions
    BY DEF Racing, HandlerInv, HandlerOK, HoldsSession
  <2>3. ledger' \in SUBSET Sessions /\ raced' \in SUBSET Sessions
    BY <1>11, <2>1, <2>2 DEF FulfilEntitlementInsert
  <2> QED BY <1>11, <2>1, <2>3 DEF FulfilEntitlementInsert, Grant
<1>12. CASE RollBack(a)
  BY <1>12 DEF RollBack
<1>6. CASE FulfilThrows(a)
  BY <1>6 DEF FulfilThrows
<1>7. CASE Catch(a)
  BY <1>7 DEF Catch, UpdateFailed, SetStatus
<1>8. CASE CatchFail(a)
  <2>1. CASE pc' = [pc EXCEPT ![a] = "reload"] /\ UNCHANGED <<op, at, seen, want, todo, rows>>
    BY <1>8, <2>1 DEF CatchFail
  <2>2. CASE Finish(a)
    BY <1>8, <2>2 DEF CatchFail
  <2> QED BY <1>8, <2>1, <2>2 DEF CatchFail
<1>9. CASE FailPending(a)
  BY <1>9 DEF FailPending, UpdateFailed, SetStatus
<1> QED BY <1>1, <1>2, <1>3, <1>4, <1>5, <1>6, <1>7, <1>8, <1>9, <1>10, <1>11, <1>12 DEF Verify

LEMMA TypingRequest ==
  ASSUME TypeOK, HandlerInv, NEW a \in Requests, RequestStep(a)
  PROVE  TypeOK'
<1> USE DistinctKinds, TimeConstants
    DEF TypeOK, SessionStatus, BankStatus, BookingStatus, Pcs, Entries, Finish, Goto,
        GotoWithSessions, sessionRows, bookingRows, granted, memory
<1>0. a \in Actors
  BY DEF Actors
<1>1. ASSUME NEW t \in Targets, Initiate(a, t)
      PROVE  TypeOK'
  BY <1>0, <1>1 DEF Initiate
<1>2. CASE InitiateReuse(a)
  <2>1. CASE Finish(a) /\ UNCHANGED sessionRows
    BY <1>0, <1>2, <2>1 DEF InitiateReuse
  <2>2. ASSUME NEW S, Goto(a, "duplicates"), SetStatus(S, "expired")
        PROVE  TypeOK'
    BY <1>0, <1>2, <2>2 DEF InitiateReuse, SetStatus
  <2> QED BY <1>2, <2>1, <2>2 DEF InitiateReuse
<1>3. CASE InitiateFindDuplicates(a)
  BY <1>0, <1>3 DEF InitiateFindDuplicates, PendingFor
<1>4. CASE InitiateExpireDuplicates(a)
  BY <1>0, <1>4 DEF InitiateExpireDuplicates, SetStatus
<1>5. ASSUME NEW s \in Sessions, InitiateCreate(a, s)
      PROVE  TypeOK'
  BY <1>0, <1>5 DEF InitiateCreate, HandlerInv, HandlerOK, HoldsTarget
<1>6. CASE InitiateRegister(a)
  BY <1>0, <1>6 DEF InitiateRegister
<1>7. CASE InitiateRegisterFails(a)
  BY <1>0, <1>7 DEF InitiateRegisterFails, SetStatus
<1>8. ASSUME NEW s \in Sessions, NEW entry \in {"return", "fail", "sync"}, Load(a, entry, s)
      PROVE  TypeOK'
  BY <1>0, <1>8 DEF Load
<1>9. CASE Verify(a)
  BY <1>0, <1>9, TypingVerify
<1> QED BY <1>1, <1>2, <1>3, <1>4, <1>5, <1>6, <1>7, <1>8, <1>9 DEF RequestStep

LEMMA TypingCron ==
  ASSUME TypeOK, HandlerInv, NEW a \in Crons, CronStep(a)
  PROVE  TypeOK'
<1> USE DistinctKinds, TimeConstants
    DEF TypeOK, SessionStatus, BankStatus, BookingStatus, Pcs, Entries, Goto,
        GotoWithSessions, GotoWithBookings, sessionRows, bookingRows, granted, memory
<1>0. a \in Actors
  BY DEF Actors
<1>1. CASE CronExpire(a)
  BY <1>0, <1>1 DEF CronExpire, SetStatus
<1>2. CASE CronList(a)
  BY <1>0, <1>2 DEF CronList
<1>3. ASSUME NEW s \in Sessions, CronPoll(a, s)
      PROVE  TypeOK'
  BY <1>0, <1>3 DEF CronPoll
<1>4. CASE Verify(a)
  BY <1>0, <1>4, TypingVerify
<1>5. CASE CronProtect(a)
  BY <1>0, <1>5 DEF CronProtect
<1>6. CASE CronDestroy(a)
  BY <1>0, <1>6 DEF CronDestroy
<1>7. CASE CronDeadline(a)
  BY <1>0, <1>7 DEF CronDeadline
<1>8. ASSUME NEW b \in Bookings, CronCancel(a, b)
      PROVE  TypeOK'
  <2>1. CASE Close(b)
    BY <1>0, <1>8, <2>1 DEF CronCancel, Close
  <2>2. CASE UNCHANGED bookingRows
    BY <1>0, <1>8, <2>2 DEF CronCancel
  <2> QED BY <1>8, <2>1, <2>2 DEF CronCancel
<1>9. CASE CronDone(a)
  BY <1>0, <1>9 DEF CronDone
<1> QED BY <1>1, <1>2, <1>3, <1>4, <1>5, <1>6, <1>7, <1>8, <1>9 DEF CronStep

LEMMA TypingEnvironment ==
  ASSUME TypeOK,
         \/ \E s \in Sessions : BankStep(s)
         \/ \E b \in Bookings : BookingStep(b)
         \/ \E t \in Packages \cup Extras : Withdraw(t) \/ Restore(t)
         \/ Tick
         \/ Restart
  PROVE  TypeOK'
<1> USE DistinctKinds, TimeConstants
    DEF TypeOK, SessionStatus, BankStatus, BookingStatus, Pcs, Entries,
        sessionRows, bookingRows, granted, memory
<1>1. ASSUME NEW s \in Sessions, BankStep(s)
      PROVE  TypeOK'
  BY <1>1 DEF BankStep, BankCapture, BankDecline
<1>2. ASSUME NEW b \in Bookings, BookingStep(b)
      PROVE  TypeOK'
  <2>1. CASE CreateBooking(b)
    <3>1. CASE lesson' = [lesson EXCEPT ![b] = "pending"] /\ StartHold(b)
      BY <2>1, <3>1 DEF CreateBooking, StartHold
    <3>2. CASE lesson' = [lesson EXCEPT ![b] = "pending_payment"] /\ UNCHANGED <<paid, held, left, ext>>
      BY <2>1, <3>2 DEF CreateBooking
    <3> QED BY <2>1, <3>1, <3>2 DEF CreateBooking
  <2>2. CASE StartPaymentWindow(b)
    BY <2>2 DEF StartPaymentWindow, StartHold
  <2>3. CASE ExtendHold(b)
    BY <2>3 DEF ExtendHold, Extend
  <2>4. CASE CancelBooking(b)
    BY <2>4 DEF CancelBooking, Close
  <2> QED BY <1>2, <2>1, <2>2, <2>3, <2>4 DEF BookingStep
<1>3. CASE Tick
  BY <1>3 DEF Tick, IsFresh, HoldActive
<1>4. CASE Restart
  BY <1>4 DEF Restart
<1>5. ASSUME NEW t \in Packages \cup Extras, Withdraw(t) \/ Restore(t)
      PROVE  TypeOK'
  BY <1>5 DEF Withdraw, Restore
<1> QED BY <1>1, <1>2, <1>3, <1>4, <1>5

-----------------------------------------------------------------------------
(* The handlers' memory.                                                   *)

\* A step of handler a that registers nothing and leaves every session's
\* target and order alone keeps HandlerInv if a itself stays in order.
LEMMA HandlerStep ==
  ASSUME TypeOK, HandlerInv, NEW a \in Actors,
         \A c \in Actors \ {a} : /\ pc'[c] = pc[c] /\ at'[c] = at[c]
                                 /\ want'[c] = want[c] /\ todo'[c] = todo[c],
         UNCHANGED <<target, bank>>,
         HandlerOK(a)', pc'[a] # "register"
  PROVE  HandlerInv'
<1>1. \A c \in Actors : HandlerOK(c)'
  BY DEF HandlerInv, HandlerOK, Used
<1>2. \A c, d \in Actors : pc'[c] = "register" /\ pc'[d] = "register" /\ at'[c] = at'[d] => c = d
  BY DEF HandlerInv
<1> QED BY <1>1, <1>2 DEF HandlerInv

\* A step that changes no handler, keeps targets and changes an order only when
\* it was open keeps HandlerInv.
LEMMA HandlerFrame ==
  ASSUME HandlerInv, UNCHANGED <<pc, at, want, todo, target>>,
         \A s \in Sessions : bank'[s] = bank[s] \/ bank[s] = "open"
  PROVE  HandlerInv'
  BY DEF HandlerInv, HandlerOK, HoldsSession, Used

LEMMA HandlerVerify ==
  ASSUME TypeOK, HandlerInv, NEW a \in Actors, Verify(a)
  PROVE  HandlerInv'
<1> USE DEF Finish, Goto, sessionRows, HandlerOK, HoldsSession, HoldsTarget
<1>1. HandlerOK(a)
  BY DEF HandlerInv
<1>2. ASSUME Finish(a), UNCHANGED <<target, bank>>
      PROVE  HandlerInv'
  <2>1. HandlerOK(a)' /\ pc'[a] # "register"
    BY <1>1, <1>2 DEF TypeOK, Used
  <2> QED BY <1>2, <2>1, HandlerStep DEF TypeOK
<1>3. ASSUME NEW next \in {"captured", "insert", "unpaid", "throw", "reload"}, Goto(a, next),
             UNCHANGED <<target, bank>>, pc[a] \in HoldsSession,
             next \in {"captured", "insert"} => bank[at[a]] = "captured"
      PROVE  HandlerInv'
  <2>1. HandlerOK(a)' /\ pc'[a] # "register"
    BY <1>1, <1>3 DEF TypeOK, Used
  <2> QED BY <1>3, <2>1, HandlerStep DEF TypeOK
<1>4. CASE AskBank(a)
  BY <1>3, <1>4 DEF AskBank
<1>5. CASE RecordUnpaid(a)
  BY <1>2, <1>5 DEF RecordUnpaid, UpdateFailed, SetStatus
<1>6. CASE FulfilAlreadyPaid(a)
  BY <1>2, <1>6 DEF FulfilAlreadyPaid
<1>7. CASE FulfilBooking(a)
  BY <1>2, <1>7 DEF FulfilBooking, Settle, SetStatus
<1>8. CASE FulfilEntitlementGone(a) \/ FulfilEntitlementDone(a) \/ FulfilEntitlementInsert(a)
  BY <1>2, <1>8
  DEF FulfilEntitlementGone, FulfilEntitlementDone, FulfilEntitlementInsert, Settle, SetStatus
<1>9. CASE FulfilEntitlementLook(a) \/ RollBack(a) \/ FulfilThrows(a)
  <2>1. bank[at[a]] = "captured"
    BY <1>1, <1>9 DEF FulfilEntitlementLook, LookAndInsert, Entitlement, RollBack, FulfilThrows,
                      HandlerOK
  <2> QED BY <1>3, <1>9, <2>1
      DEF FulfilEntitlementLook, LookAndInsert, Entitlement, RollBack, FulfilThrows
<1>10. CASE Catch(a)
  BY <1>2, <1>10 DEF Catch, UpdateFailed, SetStatus
<1>11. CASE CatchFail(a)
  BY <1>2, <1>3, <1>11 DEF CatchFail
<1>12. CASE FailPending(a)
  BY <1>2, <1>12 DEF FailPending, UpdateFailed, SetStatus
<1> QED BY <1>4, <1>5, <1>6, <1>7, <1>8, <1>9, <1>10, <1>11, <1>12 DEF Verify

LEMMA HandlerRequest ==
  ASSUME TypeOK, HandlerInv, RowsInv, NEW a \in Requests, RequestStep(a)
  PROVE  HandlerInv'
<1> USE DEF Finish, Goto, GotoWithSessions, sessionRows, HandlerOK, HoldsSession, HoldsTarget
<1>0. a \in Actors /\ a \notin Crons /\ HandlerOK(a)
  BY DistinctKinds DEF Actors, HandlerInv
<1>1. ASSUME NEW t \in Targets, Initiate(a, t)
      PROVE  HandlerInv'
  <2>1. HandlerOK(a)' /\ pc'[a] # "register"
    BY <1>0, <1>1 DEF Initiate, TypeOK
  <2> QED BY <1>0, <1>1, <2>1, HandlerStep DEF Initiate, TypeOK
<1>2. CASE InitiateReuse(a)
  <2>1. UNCHANGED <<target, bank>> /\ (Finish(a) \/ Goto(a, "duplicates"))
    BY <1>2 DEF InitiateReuse, SetStatus
  <2>2. HandlerOK(a)' /\ pc'[a] # "register"
    BY <1>0, <1>2, <2>1 DEF InitiateReuse, TypeOK
  <2>3. \A c \in Actors \ {a} : /\ pc'[c] = pc[c] /\ at'[c] = at[c]
                                /\ want'[c] = want[c] /\ todo'[c] = todo[c]
    BY <1>0, <2>1 DEF TypeOK
  <2> QED BY <1>0, <2>1, <2>2, <2>3, HandlerStep
<1>3. CASE InitiateFindDuplicates(a)
  <2>1. HandlerOK(a)' /\ pc'[a] # "register"
    BY <1>0, <1>3 DEF InitiateFindDuplicates, TypeOK
  <2> QED BY <1>0, <1>3, <2>1, HandlerStep DEF InitiateFindDuplicates, TypeOK
<1>4. CASE InitiateExpireDuplicates(a)
  <2>1. HandlerOK(a)' /\ pc'[a] # "register"
    BY <1>0, <1>4 DEF InitiateExpireDuplicates, TypeOK
  <2> QED BY <1>0, <1>4, <2>1, HandlerStep DEF InitiateExpireDuplicates, SetStatus, TypeOK
<1>5. ASSUME NEW s \in Sessions, InitiateCreate(a, s)
      PROVE  HandlerInv'
  <2>1. want[a] \in Targets /\ want[a] # None /\ ~Used(s) /\ bank[s] = "none"
    BY <1>0, <1>5, DistinctKinds DEF InitiateCreate, RowsInv
  <2>2. \A c \in Actors \ {a} : HandlerOK(c)' /\ ~(pc'[c] = "register" /\ at'[c] = s)
    BY <1>0, <1>5, <2>1 DEF InitiateCreate, HandlerInv, TypeOK, Used
  <2>3. HandlerOK(a)'
    BY <1>0, <1>5, <2>1 DEF InitiateCreate, TypeOK, Used
  <2>4. \A c, d \in Actors : pc'[c] = "register" /\ pc'[d] = "register" /\ at'[c] = at'[d]
                             => c = d
    BY <1>0, <1>5, <2>2 DEF InitiateCreate, HandlerInv, TypeOK
  <2> QED BY <2>2, <2>3, <2>4 DEF HandlerInv
<1>6. CASE InitiateRegister(a)
  <2>1. \A c \in Actors \ {a} : pc[c] = "register" => at[c] # at[a]
    BY <1>0, <1>6 DEF InitiateRegister, HandlerInv
  <2>2. \A c \in Actors : HandlerOK(c)'
    BY <1>0, <1>6, <2>1 DEF InitiateRegister, HandlerInv, TypeOK, Used
  <2>3. \A c, d \in Actors : pc'[c] = "register" /\ pc'[d] = "register" /\ at'[c] = at'[d]
                             => c = d
    BY <1>0, <1>6 DEF InitiateRegister, HandlerInv, TypeOK
  <2> QED BY <2>2, <2>3 DEF HandlerInv
<1>7. CASE InitiateRegisterFails(a)
  <2>1. HandlerOK(a)' /\ pc'[a] # "register"
    BY <1>0, <1>7 DEF InitiateRegisterFails, TypeOK
  <2> QED BY <1>0, <1>7, <2>1, HandlerStep DEF InitiateRegisterFails, SetStatus, TypeOK
<1>8. ASSUME NEW s \in Sessions, NEW entry \in {"return", "fail", "sync"}, Load(a, entry, s)
      PROVE  HandlerInv'
  <2>1. HandlerOK(a)' /\ pc'[a] # "register"
    BY <1>0, <1>8 DEF Load, TypeOK, Used
  <2> QED BY <1>0, <1>8, <2>1, HandlerStep DEF Load, TypeOK
<1>9. CASE Verify(a)
  BY <1>0, <1>9, HandlerVerify
<1> QED BY <1>1, <1>2, <1>3, <1>4, <1>5, <1>6, <1>7, <1>8, <1>9 DEF RequestStep

LEMMA HandlerCron ==
  ASSUME TypeOK, HandlerInv, NEW a \in Crons, CronStep(a)
  PROVE  HandlerInv'
<1> USE DEF Goto, GotoWithSessions, GotoWithBookings, sessionRows, HandlerOK,
            HoldsSession, HoldsTarget
<1>0. a \in Actors /\ HandlerOK(a)
  BY DEF Actors, HandlerInv
<1>1. CASE CronExpire(a)
  <2>1. HandlerOK(a)' /\ pc'[a] # "register"
    BY <1>0, <1>1 DEF CronExpire, SetStatus, TypeOK, Used
  <2> QED BY <1>0, <1>1, <2>1, HandlerStep DEF CronExpire, SetStatus, TypeOK
<1>2. CASE CronList(a)
  <2>1. HandlerOK(a)' /\ pc'[a] # "register"
    BY <1>0, <1>2 DEF CronList, TypeOK, Used
  <2> QED BY <1>0, <1>2, <2>1, HandlerStep DEF CronList, TypeOK
<1>3. ASSUME NEW s \in Sessions, CronPoll(a, s)
      PROVE  HandlerInv'
  <2>1. HandlerOK(a)' /\ pc'[a] # "register"
    BY <1>0, <1>3 DEF CronPoll, TypeOK, Used
  <2> QED BY <1>0, <1>3, <2>1, HandlerStep DEF CronPoll, TypeOK
<1>4. CASE Verify(a)
  BY <1>0, <1>4, HandlerVerify
<1>5. ASSUME NEW next \in {"destroy", "deadline", "cancel"}, NEW S,
             Goto(a, next) \/ GotoWithBookings(a, next, S), UNCHANGED <<target, bank>>
      PROVE  HandlerInv'
  <2>1. HandlerOK(a)' /\ pc'[a] # "register"
    BY <1>0, <1>5 DEF TypeOK, Used
  <2>2. \A c \in Actors \ {a} : /\ pc'[c] = pc[c] /\ at'[c] = at[c]
                                /\ want'[c] = want[c] /\ todo'[c] = todo[c]
    BY <1>0, <1>5 DEF TypeOK
  <2> QED BY <1>0, <1>5, <2>1, <2>2, HandlerStep
<1>6. CASE CronProtect(a)
  BY <1>5, <1>6 DEF CronProtect
<1>7. CASE CronDestroy(a)
  BY <1>5, <1>7 DEF CronDestroy
<1>8. CASE CronDeadline(a)
  BY <1>5, <1>8 DEF CronDeadline
<1>9. ASSUME NEW b \in Bookings, CronCancel(a, b)
      PROVE  HandlerInv'
  BY <1>5, <1>9 DEF CronCancel
<1>10. CASE CronDone(a)
  <2>1. HandlerOK(a)' /\ pc'[a] # "register"
    BY <1>0, <1>10 DEF CronDone, TypeOK, Used
  <2> QED BY <1>0, <1>10, <2>1, HandlerStep DEF CronDone, TypeOK
<1> QED
  BY <1>1, <1>2, <1>3, <1>4, <1>6, <1>7, <1>8, <1>9, <1>10 DEF CronStep

LEMMA HandlerEnvironment ==
  ASSUME TypeOK, HandlerInv,
         \/ \E s \in Sessions : BankStep(s)
         \/ \E b \in Bookings : BookingStep(b)
         \/ \E t \in Packages \cup Extras : Withdraw(t) \/ Restore(t)
         \/ Tick
         \/ Restart
  PROVE  HandlerInv'
<1> USE DEF sessionRows, memory
<1>1. ASSUME NEW s \in Sessions, BankStep(s)
      PROVE  HandlerInv'
  BY <1>1, HandlerFrame DEF BankStep, BankCapture, BankDecline, InFlight, TypeOK
<1>2. ASSUME NEW b \in Bookings, BookingStep(b)
      PROVE  HandlerInv'
  BY <1>2, HandlerFrame
  DEF BookingStep, CreateBooking, StartPaymentWindow, ExtendHold, CancelBooking
<1>3. CASE Tick
  BY <1>3, HandlerFrame DEF Tick
<1>4. CASE Restart
  BY <1>4 DEF Restart, HandlerInv, HandlerOK, HoldsSession, HoldsTarget
<1>5. ASSUME NEW t \in Packages \cup Extras, Withdraw(t) \/ Restore(t)
      PROVE  HandlerInv'
  BY <1>5, HandlerFrame DEF Withdraw, Restore
<1> QED BY <1>1, <1>2, <1>3, <1>4, <1>5

-----------------------------------------------------------------------------
(* The open transactions.                                                  *)

\* A step that opens no transaction, hands over no package or block, and takes
\* the mark from no session whose transaction stays open.
LEMMA LockFrame ==
  ASSUME TypeOK, HandlerInv, LockInv,
         \A c \in Actors : pc'[c] = "insert" => /\ pc[c] = "insert"
                                                /\ at'[c] = at[c]
                                                /\ at[c] \in raced => at[c] \in raced',
         \A r \in Sessions : /\ Used(r) => target'[r] = target[r]
                             /\ target'[r] \in Packages \cup Extras =>
                                  /\ grants'[r] > 0 => grants[r] > 0 /\ target'[r] = target[r]
                                  /\ r \in ledger' => r \in ledger
  PROVE  LockInv'
<1>1. ASSUME NEW c \in Actors, pc'[c] = "insert"
      PROVE  Looked(c)'
  <2>1. /\ Looked(c) /\ at'[c] = at[c] /\ at[c] \in Sessions
        /\ target'[at[c]] = target[at[c]]
    BY <1>1 DEF LockInv, HandlerInv, HandlerOK, HoldsSession
  <2>2. \A t \in Packages : Ordered(t)' => Ordered(t)
    BY DEF Ordered
  <2>3. at[c] \in raced => at[c] \in raced'
    BY <1>1
  <2>4. at[c] \in ledger' => at[c] \in ledger
    BY <2>1 DEF Looked
  <2> QED BY <2>1, <2>2, <2>3, <2>4 DEF Looked
<1>2. \A c, d \in Actors : pc'[c] = "insert" /\ pc'[d] = "insert" /\ at'[c] = at'[d] => c = d
  BY DEF LockInv
<1> QED BY <1>1, <1>2 DEF LockInv

LEMMA LockVerify ==
  ASSUME TypeOK, HandlerInv, LockInv, RowsInv, NEW a \in Actors, Verify(a)
  PROVE  LockInv'
<1> USE DEF Finish, Goto, sessionRows, granted
<1>1. ASSUME UNCHANGED <<target, ledger, grants, at>> \/ (UNCHANGED <<target, ledger, grants>> /\ Finish(a)),
             pc' = [pc EXCEPT ![a] = pc'[a]], pc'[a] # "insert",
             \A c \in Actors \ {a} : pc[c] = "insert" /\ at[c] \in raced => at[c] \in raced'
      PROVE  LockInv'
  <2>1. \A c \in Actors : pc'[c] = "insert" => /\ pc[c] = "insert" /\ at'[c] = at[c]
                                               /\ at[c] \in raced => at[c] \in raced'
    BY <1>1 DEF TypeOK
  <2> QED BY <1>1, <2>1, LockFrame
<1>2. CASE RecordUnpaid(a) \/ Catch(a) \/ FailPending(a)
  BY <1>1, <1>2 DEF RecordUnpaid, Catch, FailPending, UpdateFailed, SetStatus, TypeOK
<1>3. CASE AskBank(a) \/ FulfilAlreadyPaid(a) \/ FulfilThrows(a) \/ CatchFail(a)
  BY <1>1, <1>3 DEF AskBank, FulfilAlreadyPaid, FulfilThrows, CatchFail, TypeOK
<1>4. CASE FulfilEntitlementGone(a) \/ FulfilEntitlementDone(a)
  BY <1>1, <1>4 DEF FulfilEntitlementGone, FulfilEntitlementDone, Settle, SetStatus, TypeOK
<1>5. CASE RollBack(a)
  <2>1. \A c \in Actors \ {a} : pc[c] = "insert" => at[c] # at[a]
    BY <1>5 DEF RollBack, LockInv
  <2>2. \A c \in Actors \ {a} : pc[c] = "insert" /\ at[c] \in raced => at[c] \in raced'
    BY <1>5, <2>1 DEF RollBack
  <2>3. UNCHANGED <<target, ledger, grants, at>> /\ pc' = [pc EXCEPT ![a] = "throw"]
    BY <1>5 DEF RollBack
  <2>4. pc' = [pc EXCEPT ![a] = pc'[a]] /\ pc'[a] # "insert"
    BY <2>3 DEF TypeOK
  <2> QED BY <1>1, <2>2, <2>3, <2>4
<1>6. CASE FulfilBooking(a)
  <2>1. at[a] \in Sessions /\ target[at[a]] \in Bookings /\ UNCHANGED <<target, raced>>
    BY <1>6 DEF FulfilBooking, Settle, SetStatus, HandlerInv, HandlerOK, HoldsSession
  <2>2. target[at[a]] \notin Packages \cup Extras
    BY <2>1, DistinctKinds
  <2>3. \A r \in Sessions : r # at[a] => grants'[r] = grants[r] /\ (r \in ledger' => r \in ledger)
    BY <1>6, <2>1 DEF FulfilBooking, Grant, TypeOK
  <2>4. \A c \in Actors : pc'[c] = "insert" => pc[c] = "insert" /\ at'[c] = at[c]
    BY <1>6 DEF FulfilBooking, Settle, TypeOK
  <2> QED BY <2>1, <2>2, <2>3, <2>4, LockFrame
<1>7. CASE FulfilEntitlementLook(a)
  <2>1. /\ pc[a] = "captured" /\ Unlocked({at[a]}) /\ ~FoundOrder(at[a])
        /\ target[at[a]] \in Packages \cup Extras
        /\ pc' = [pc EXCEPT ![a] = "insert"]
        /\ UNCHANGED <<target, at, ledger, grants, raced>>
    BY <1>7 DEF FulfilEntitlementLook, LookAndInsert, Entitlement
  <2>2. \A c \in Actors : pc'[c] = "insert" => c = a \/ pc[c] = "insert"
    BY <2>1 DEF TypeOK
  <2>3. Looked(a)
    BY <2>1 DEF Looked, FoundOrder
  <2>4. \A c \in Actors : pc'[c] = "insert" => Looked(c)'
    BY <2>1, <2>2, <2>3 DEF LockInv, Looked, Ordered
  <2>5. \A c, d \in Actors : pc'[c] = "insert" /\ pc'[d] = "insert" /\ at'[c] = at'[d] => c = d
    BY <2>1, <2>2 DEF LockInv, Unlocked
  <2> QED BY <2>4, <2>5 DEF LockInv
<1>8. CASE FulfilEntitlementInsert(a)
  <2>1. /\ pc[a] = "insert" /\ Grant(at[a])
        /\ ledger' = ledger \cup {at[a]} /\ raced' = raced \cup Racing(a)
        /\ UNCHANGED target /\ Finish(a)
    BY <1>8 DEF FulfilEntitlementInsert
  <2>2. \A c \in Actors : pc'[c] = "insert" => c # a /\ pc[c] = "insert" /\ at'[c] = at[c]
    BY <2>1 DEF TypeOK
  <2>3. ASSUME NEW c \in Actors, pc'[c] = "insert"
        PROVE  Looked(c)'
    <3>1. Looked(c) /\ at[c] # at[a] /\ at[c] \in Sessions /\ at'[c] = at[c] /\ c # a
      BY <2>1, <2>2, <2>3 DEF LockInv, HandlerInv, HandlerOK, HoldsSession
    <3>2. \A r \in Sessions : r # at[a] => grants'[r] = grants[r]
      BY <2>1 DEF Grant, TypeOK
    <3>3. target[at[c]] = target[at[a]] => at[c] \in Racing(a)
      BY <2>2, <2>3, <3>1 DEF Racing
    <3>4. target[at[c]] # target[at[a]] /\ Ordered(target[at[c]])' => Ordered(target[at[c]])
      BY <2>1, <3>1, <3>2 DEF Ordered
    <3> QED BY <2>1, <3>1, <3>3, <3>4 DEF Looked, Ordered
  <2>4. \A c, d \in Actors : pc'[c] = "insert" /\ pc'[d] = "insert" /\ at'[c] = at'[d] => c = d
    BY <2>2 DEF LockInv
  <2> QED BY <2>3, <2>4 DEF LockInv
<1> QED BY <1>2, <1>3, <1>4, <1>5, <1>6, <1>7, <1>8 DEF Verify

LEMMA LockRequest ==
  ASSUME TypeOK, HandlerInv, LockInv, RowsInv, NEW a \in Requests, RequestStep(a)
  PROVE  LockInv'
<1> USE DEF Finish, Goto, GotoWithSessions, sessionRows, granted
<1>0. a \in Actors
  BY DEF Actors
<1>1. CASE Verify(a)
  BY <1>0, <1>1, LockVerify
<1>2. ASSUME NEW s \in Sessions, InitiateCreate(a, s)
      PROVE  LockInv'
  <2>1. ~Used(s) /\ grants[s] = 0 /\ s \notin ledger
    BY <1>2 DEF InitiateCreate, RowsInv, GrantedWasCaptured, TypeOK
  <2>2. \A c \in Actors : pc'[c] = "insert" => pc[c] = "insert" /\ at'[c] = at[c]
    BY <1>0, <1>2 DEF InitiateCreate, TypeOK
  <2>3. \A r \in Sessions : r # s => target'[r] = target[r]
    BY <1>2 DEF InitiateCreate, TypeOK
  <2>4. UNCHANGED <<ledger, grants, raced>>
    BY <1>2 DEF InitiateCreate
  <2>5. ASSUME NEW r \in Sessions
        PROVE  /\ Used(r) => target'[r] = target[r]
               /\ grants'[r] > 0 => grants[r] > 0 /\ target'[r] = target[r]
               /\ r \in ledger' => r \in ledger
    BY <2>1, <2>3, <2>4
  <2> QED BY <2>2, <2>4, <2>5, LockFrame
<1>3. ASSUME UNCHANGED <<target, ledger, grants, raced>>,
             \A c \in Actors : pc'[c] = "insert" => pc[c] = "insert" /\ at'[c] = at[c]
      PROVE  LockInv'
  BY <1>3, LockFrame
<1>4. ASSUME NEW t \in Targets, Initiate(a, t)
      PROVE  LockInv'
  BY <1>0, <1>3, <1>4 DEF Initiate, TypeOK
<1>5. CASE InitiateReuse(a)
  BY <1>0, <1>3, <1>5 DEF InitiateReuse, SetStatus, TypeOK
<1>6. CASE InitiateFindDuplicates(a) \/ InitiateExpireDuplicates(a)
  BY <1>0, <1>3, <1>6 DEF InitiateFindDuplicates, InitiateExpireDuplicates, SetStatus, TypeOK
<1>7. CASE InitiateRegister(a) \/ InitiateRegisterFails(a)
  BY <1>0, <1>3, <1>7 DEF InitiateRegister, InitiateRegisterFails, SetStatus, TypeOK
<1>8. ASSUME NEW s \in Sessions, NEW entry \in {"return", "fail", "sync"}, Load(a, entry, s)
      PROVE  LockInv'
  BY <1>0, <1>3, <1>8 DEF Load, TypeOK
<1> QED BY <1>1, <1>2, <1>4, <1>5, <1>6, <1>7, <1>8 DEF RequestStep

LEMMA LockCron ==
  ASSUME TypeOK, HandlerInv, LockInv, RowsInv, NEW a \in Crons, CronStep(a)
  PROVE  LockInv'
<1> USE DEF Goto, GotoWithSessions, GotoWithBookings, sessionRows, granted
<1>0. a \in Actors
  BY DEF Actors
<1>1. CASE Verify(a)
  BY <1>0, <1>1, LockVerify
<1>2. ASSUME UNCHANGED <<target, ledger, grants, raced>>,
             \A c \in Actors : pc'[c] = "insert" => pc[c] = "insert" /\ at'[c] = at[c]
      PROVE  LockInv'
  BY <1>2, LockFrame
<1>3. CASE CronExpire(a) \/ CronList(a) \/ CronProtect(a)
  BY <1>0, <1>2, <1>3 DEF CronExpire, CronList, CronProtect, SetStatus, TypeOK
<1>4. ASSUME NEW s \in Sessions, CronPoll(a, s)
      PROVE  LockInv'
  BY <1>0, <1>2, <1>4 DEF CronPoll, TypeOK
<1>5. CASE CronDestroy(a) \/ CronDeadline(a) \/ CronDone(a)
  BY <1>0, <1>2, <1>5 DEF CronDestroy, CronDeadline, CronDone, TypeOK
<1>6. ASSUME NEW b \in Bookings, CronCancel(a, b)
      PROVE  LockInv'
  BY <1>0, <1>2, <1>6 DEF CronCancel, TypeOK
<1> QED BY <1>1, <1>3, <1>4, <1>5, <1>6 DEF CronStep

LEMMA LockEnvironment ==
  ASSUME TypeOK, HandlerInv, LockInv,
         \/ \E s \in Sessions : BankStep(s)
         \/ \E b \in Bookings : BookingStep(b)
         \/ \E t \in Packages \cup Extras : Withdraw(t) \/ Restore(t)
         \/ Tick
         \/ Restart
  PROVE  LockInv'
<1> USE DEF sessionRows, granted, memory
<1>1. CASE UNCHANGED <<target, granted, pc, at>>
  BY <1>1, LockFrame
<1>2. CASE \E s \in Sessions : BankStep(s)
  BY <1>1, <1>2 DEF BankStep, BankCapture, BankDecline
<1>3. CASE \E b \in Bookings : BookingStep(b)
  BY <1>1, <1>3 DEF BookingStep, CreateBooking, StartPaymentWindow, ExtendHold, CancelBooking
<1>4. CASE Tick \/ \E t \in Packages \cup Extras : Withdraw(t) \/ Restore(t)
  BY <1>1, <1>4 DEF Tick, Withdraw, Restore
<1>5. CASE Restart
  BY <1>5 DEF Restart, LockInv
<1> QED BY <1>2, <1>3, <1>4, <1>5

-----------------------------------------------------------------------------
(* The rows.                                                               *)

\* A step that grants nothing, un-pays no booking, keeps every used session's
\* target and captured order, and marks no further session paid.
LEMMA RowsFrame ==
  ASSUME TypeOK, RowsInv, UNCHANGED <<target, ledger, grants>>,
         \A s \in raced : grants[s] > 0 => s \in raced',
         \A b \in Bookings : paid[b] => paid'[b],
         \A s \in Sessions : /\ status'[s] = "paid" => status[s] = "paid"
                             /\ bank[s] = "captured" => bank'[s] = "captured"
                             /\ ~Used(s) => bank'[s] = bank[s]
  PROVE  RowsInv'
<1> USE DEF granted
<1>1. \A s \in Sessions : ~Used(s)' => bank'[s] = "none" /\ status'[s] # "paid"
  BY DEF RowsInv, Used
<1>2. \A s \in ledger' : grants'[s] > 0
  BY DEF RowsInv
<1>3. \A s \in Sessions : grants'[s] > 0 => \/ target'[s] \in Bookings /\ paid'[target'[s]]
                                            \/ target'[s] \in Packages \cup Extras /\ s \in ledger'
  BY DEF RowsInv
<1>4. GrantedWasCaptured' /\ OneGrantPerOrder' /\ OneGrantPerTarget'
  BY DEF RowsInv, GrantedWasCaptured, OneGrantPerOrder, OneGrantPerTarget
<1> QED BY <1>1, <1>2, <1>3, <1>4 DEF RowsInv

LEMMA RowsVerify ==
  ASSUME TypeOK, HandlerInv, LockInv, RowsInv, NEW a \in Actors, Verify(a)
  PROVE  RowsInv'
<1> USE DEF Finish, Goto, sessionRows, bookingRows
<1>1. CASE UNCHANGED <<target, granted, paid, bank>>
           /\ \A s \in Sessions : status'[s] = "paid" => status[s] = "paid"
  BY <1>1, RowsFrame DEF granted
<1>2. CASE RecordUnpaid(a) \/ Catch(a) \/ FailPending(a)
  BY <1>1, <1>2 DEF RecordUnpaid, Catch, FailPending, UpdateFailed, SetStatus, TypeOK
<1>3. CASE AskBank(a) \/ FulfilAlreadyPaid(a) \/ FulfilThrows(a) \/ CatchFail(a)
  BY <1>1, <1>3 DEF AskBank, FulfilAlreadyPaid, FulfilThrows, CatchFail
<1>4. CASE FulfilBooking(a)
  <2>1. PICK s \in Sessions, b \in Bookings : s = at[a] /\ b = target[s] /\ bank[s] = "captured"
    BY <1>4 DEF FulfilBooking, Settle, HandlerInv, HandlerOK, HoldsSession
  <2>2. /\ UNCHANGED <<target, bank>>
        /\ \A r \in Sessions : status'[r] = "paid" => status[r] = "paid" \/ r = s
    BY <1>4, <2>1 DEF FulfilBooking, Settle, SetStatus
  <2>3. CASE paid[b] /\ UNCHANGED <<bookingRows, granted>>
    BY <2>1, <2>2, <2>3
    DEF granted, RowsInv, Used, GrantedWasCaptured, OneGrantPerOrder, OneGrantPerTarget
  <2>4. CASE ~paid[b] /\ ConfirmPaid(b) /\ Grant(s) /\ ledger' \in {ledger, ledger \cup {s}}
             /\ raced' = raced
    <3>1. \A r \in Sessions : target[r] = b => grants[r] = 0
      BY <2>1, <2>4, DistinctKinds DEF RowsInv, TypeOK
    <3>2. grants' \in [Sessions -> Nat] /\ grants'[s] = 1
          /\ \A r \in Sessions \ {s} : grants'[r] = grants[r]
      BY <2>1, <2>4, <3>1 DEF Grant, TypeOK
    <3>3. paid'[b] /\ \A c \in Bookings : paid[c] => paid'[c]
      BY <2>1, <2>4 DEF ConfirmPaid, TypeOK
    <3>4. \A r \in Sessions : ~Used(r)' => bank'[r] = "none" /\ status'[r] # "paid"
      BY <2>1, <2>2, DistinctKinds DEF RowsInv, Used
    <3>5. \A r \in ledger' : grants'[r] > 0
      BY <2>4, <3>2 DEF RowsInv, TypeOK
    <3>6. \A r \in Sessions : grants'[r] > 0 =>
             \/ target'[r] \in Bookings /\ paid'[target'[r]]
             \/ target'[r] \in Packages \cup Extras /\ r \in ledger'
      BY <2>1, <2>2, <2>4, <3>2, <3>3 DEF RowsInv, TypeOK
    <3>7. GrantedWasCaptured' /\ OneGrantPerOrder'
      BY <2>1, <2>2, <3>2 DEF RowsInv, GrantedWasCaptured, OneGrantPerOrder
    <3>8. OneGrantPerTarget'
      BY <2>1, <2>2, <2>4, <3>1, <3>2 DEF RowsInv, OneGrantPerTarget, TypeOK
    <3> QED BY <3>4, <3>5, <3>6, <3>7, <3>8 DEF RowsInv
  <2> QED BY <1>4, <2>1, <2>3, <2>4 DEF FulfilBooking, AwaitsPayment
<1>5. CASE FulfilEntitlementGone(a) \/ FulfilEntitlementDone(a)
  <2>1. at[a] \in Sessions /\ Used(at[a])
    BY <1>5 DEF FulfilEntitlementGone, FulfilEntitlementDone, Settle, HandlerInv, HandlerOK,
                HoldsSession
  <2>2. /\ UNCHANGED <<target, bank, granted>>
        /\ \A r \in Sessions : status'[r] = "paid" => status[r] = "paid" \/ r = at[a]
    BY <1>5, <2>1 DEF FulfilEntitlementGone, FulfilEntitlementDone, Settle, SetStatus
  <2>3. UNCHANGED paid
    BY <1>5 DEF FulfilEntitlementGone, FulfilEntitlementDone
  <2> QED BY <2>1, <2>2, <2>3
      DEF granted, RowsInv, Used, GrantedWasCaptured, OneGrantPerOrder, OneGrantPerTarget
<1>6. CASE FulfilEntitlementLook(a)
  BY <1>1, <1>6 DEF FulfilEntitlementLook, LookAndInsert, granted
<1>7. CASE RollBack(a)
  <2>1. at[a] \in Sessions /\ grants[at[a]] = 0
    BY <1>7, DistinctKinds
    DEF RollBack, LockInv, Looked, RowsInv, TypeOK, HandlerInv, HandlerOK, HoldsSession
  <2> QED BY <1>7, <2>1, RowsFrame DEF RollBack
<1>8. CASE FulfilEntitlementInsert(a)
  <2>1. PICK s \in Sessions, t \in Packages \cup Extras :
           /\ s = at[a] /\ t = target[s] /\ bank[s] = "captured"
           /\ s \notin ledger /\ (t \in Packages /\ Ordered(t) => s \in raced)
    BY <1>8 DEF FulfilEntitlementInsert, HandlerInv, HandlerOK, HoldsSession, LockInv, Looked
  <2>2. /\ UNCHANGED <<target, bank, paid>>
        /\ Grant(s) /\ ledger' = ledger \cup {s} /\ raced \subseteq raced'
        /\ \A r \in Sessions : status'[r] = "paid" => status[r] = "paid" \/ r = s
    BY <1>8, <2>1 DEF FulfilEntitlementInsert, TypeOK
  <2>3. grants[s] = 0 /\ t \notin Bookings
    BY <2>1, DistinctKinds DEF RowsInv, TypeOK
  <2>4. grants' \in [Sessions -> Nat] /\ grants'[s] = 1
        /\ \A r \in Sessions \ {s} : grants'[r] = grants[r]
    BY <2>1, <2>2, <2>3 DEF Grant, TypeOK
  <2>5. \A r \in Sessions : ~Used(r)' => bank'[r] = "none" /\ status'[r] # "paid"
    BY <2>1, <2>2, DistinctKinds DEF RowsInv, Used
  <2>6. \A r \in ledger' : grants'[r] > 0
    BY <2>2, <2>4 DEF RowsInv, TypeOK
  <2>7. \A r \in Sessions : grants'[r] > 0 =>
           \/ target'[r] \in Bookings /\ paid'[target'[r]]
           \/ target'[r] \in Packages \cup Extras /\ r \in ledger'
    BY <2>1, <2>2, <2>4 DEF RowsInv, TypeOK
  <2>8. GrantedWasCaptured' /\ OneGrantPerOrder'
    BY <2>1, <2>2, <2>4 DEF RowsInv, GrantedWasCaptured, OneGrantPerOrder
  <2>9. ASSUME NEW q \in Sessions, NEW r \in Sessions, grants'[q] > 0, grants'[r] > 0,
               target[q] = target[r], q # r
        PROVE  \/ target[q] \in Packages /\ (q \in raced' \/ r \in raced')
               \/ target[q] \in Extras
    <3>1. CASE q = s
      BY <2>1, <2>2, <2>4, <2>9, <3>1 DEF Ordered
    <3>2. CASE r = s
      BY <2>1, <2>2, <2>4, <2>9, <3>2 DEF Ordered
    <3>3. CASE q # s /\ r # s
      BY <2>2, <2>4, <2>9, <3>3 DEF RowsInv, OneGrantPerTarget
    <3> QED BY <3>1, <3>2, <3>3
  <2>10. OneGrantPerTarget'
    BY <2>2, <2>9 DEF OneGrantPerTarget
  <2> QED BY <2>5, <2>6, <2>7, <2>8, <2>10 DEF RowsInv
<1> QED BY <1>2, <1>3, <1>4, <1>5, <1>6, <1>7, <1>8 DEF Verify

LEMMA RowsRequest ==
  ASSUME TypeOK, HandlerInv, LockInv, RowsInv, NEW a \in Requests, RequestStep(a)
  PROVE  RowsInv'
<1> USE DEF sessionRows, bookingRows
<1>0. a \in Actors /\ HandlerOK(a)
  BY DEF Actors, HandlerInv
<1>1. CASE UNCHANGED <<target, granted, paid, bank>>
           /\ \A s \in Sessions : status'[s] = "paid" => status[s] = "paid"
  BY <1>1, RowsFrame DEF granted
<1>2. CASE \/ \E t \in Targets : Initiate(a, t)
           \/ InitiateFindDuplicates(a)
           \/ \E s \in Sessions, entry \in {"return", "fail", "sync"} : Load(a, entry, s)
  BY <1>1, <1>2 DEF Initiate, InitiateFindDuplicates, Load
<1>3. CASE InitiateReuse(a) \/ InitiateExpireDuplicates(a) \/ InitiateRegisterFails(a)
  BY <1>1, <1>3
  DEF InitiateReuse, InitiateExpireDuplicates, InitiateRegisterFails, SetStatus, TypeOK
<1>4. ASSUME NEW s \in Sessions, InitiateCreate(a, s)
      PROVE  RowsInv'
  <2>1. /\ ~Used(s) /\ bank[s] = "none" /\ status[s] # "paid"
        /\ grants[s] = 0 /\ s \notin ledger
    BY <1>4 DEF InitiateCreate, RowsInv, GrantedWasCaptured, TypeOK
  <2>2. /\ UNCHANGED <<status, bank, granted, paid>>
        /\ \A r \in Sessions \ {s} : target'[r] = target[r]
    BY <1>4 DEF InitiateCreate, TypeOK
  <2>3. \A r \in Sessions : ~Used(r)' => bank'[r] = "none" /\ status'[r] # "paid"
    BY <2>1, <2>2 DEF RowsInv, Used
  <2>4. \A r \in ledger' : grants'[r] > 0
    BY <2>2 DEF RowsInv, granted
  <2>5. \A r \in Sessions : grants'[r] > 0 =>
           \/ target'[r] \in Bookings /\ paid'[target'[r]]
           \/ target'[r] \in Packages \cup Extras /\ r \in ledger'
    BY <2>1, <2>2 DEF RowsInv, granted
  <2>6. GrantedWasCaptured' /\ OneGrantPerOrder' /\ OneGrantPerTarget'
    BY <2>1, <2>2
    DEF RowsInv, granted, GrantedWasCaptured, OneGrantPerOrder, OneGrantPerTarget
  <2> QED BY <2>3, <2>4, <2>5, <2>6 DEF RowsInv
<1>5. CASE InitiateRegister(a)
  <2>1. at[a] \in Sessions /\ Used(at[a]) /\ bank[at[a]] = "none"
    BY <1>0, <1>5 DEF InitiateRegister, HandlerOK, HoldsSession
  <2> QED BY <1>5, <2>1, RowsFrame DEF InitiateRegister, granted, TypeOK
<1>6. CASE Verify(a)
  BY <1>0, <1>6, RowsVerify
<1> QED BY <1>2, <1>3, <1>4, <1>5, <1>6 DEF RequestStep

LEMMA RowsCron ==
  ASSUME TypeOK, HandlerInv, LockInv, RowsInv, NEW a \in Crons, CronStep(a)
  PROVE  RowsInv'
<1> USE DEF sessionRows, bookingRows
<1>1. CASE UNCHANGED <<target, granted, paid, bank>>
           /\ \A s \in Sessions : status'[s] = "paid" => status[s] = "paid"
  BY <1>1, RowsFrame DEF granted
<1>2. CASE CronExpire(a)
  BY <1>1, <1>2 DEF CronExpire, SetStatus
<1>3. CASE CronList(a) \/ CronProtect(a) \/ CronDestroy(a) \/ CronDeadline(a) \/ CronDone(a)
  BY <1>1, <1>3 DEF CronList, CronProtect, CronDestroy, CronDeadline, CronDone
<1>4. ASSUME NEW s \in Sessions, CronPoll(a, s)
      PROVE  RowsInv'
  BY <1>1, <1>4 DEF CronPoll
<1>5. ASSUME NEW b \in Bookings, CronCancel(a, b)
      PROVE  RowsInv'
  BY <1>1, <1>5 DEF CronCancel, Close
<1>6. CASE Verify(a)
  BY <1>6, RowsVerify DEF Actors
<1> QED BY <1>2, <1>3, <1>4, <1>5, <1>6 DEF CronStep

LEMMA RowsEnvironment ==
  ASSUME TypeOK, RowsInv,
         \/ \E s \in Sessions : BankStep(s)
         \/ \E b \in Bookings : BookingStep(b)
         \/ \E t \in Packages \cup Extras : Withdraw(t) \/ Restore(t)
         \/ Tick
         \/ Restart
  PROVE  RowsInv'
<1> USE DEF sessionRows, bookingRows, granted
<1>1. ASSUME NEW s \in Sessions, BankStep(s)
      PROVE  RowsInv'
  <2>1. bank[s] = "open" /\ Used(s)
    BY <1>1 DEF BankStep, BankCapture, BankDecline, InFlight, RowsInv
  <2> QED BY <1>1, <2>1, RowsFrame DEF BankStep, BankCapture, BankDecline, TypeOK
<1>2. ASSUME NEW b \in Bookings, BookingStep(b)
      PROVE  RowsInv'
  BY <1>2, RowsFrame
  DEF BookingStep, CreateBooking, StartPaymentWindow, ExtendHold, CancelBooking,
      StartHold, Extend, Close
<1>3. CASE Tick \/ Restart
  BY <1>3, RowsFrame DEF Tick, Restart
<1>4. ASSUME NEW t \in Packages \cup Extras, Withdraw(t) \/ Restore(t)
      PROVE  RowsInv'
  BY <1>4, RowsFrame DEF Withdraw, Restore
<1> QED BY <1>1, <1>2, <1>3, <1>4

-----------------------------------------------------------------------------

LEMMA RowsInit == Init => RowsInv
  BY DistinctKinds
  DEF Init, RowsInv, Used, GrantedWasCaptured, OneGrantPerOrder, OneGrantPerTarget

LEMMA Inductive == IInv /\ [Next]_vars => IInv'
<1> SUFFICES ASSUME IInv, [Next]_vars
             PROVE  TypeOK' /\ HandlerInv' /\ LockInv' /\ RowsInv'
  BY DEF IInv
<1>0. TypeOK /\ HandlerInv /\ LockInv /\ RowsInv
  BY DEF IInv
<1>1. ASSUME NEW a \in Requests, RequestStep(a)
      PROVE  TypeOK' /\ HandlerInv' /\ LockInv' /\ RowsInv'
  BY <1>0, <1>1, TypingRequest, HandlerRequest, LockRequest, RowsRequest
<1>2. ASSUME NEW a \in Crons, CronStep(a)
      PROVE  TypeOK' /\ HandlerInv' /\ LockInv' /\ RowsInv'
  BY <1>0, <1>2, TypingCron, HandlerCron, LockCron, RowsCron
<1>3. CASE \/ \E s \in Sessions : BankStep(s)
           \/ \E b \in Bookings : BookingStep(b)
           \/ \E t \in Packages \cup Extras : Withdraw(t) \/ Restore(t)
           \/ Tick
           \/ Restart
  BY <1>0, <1>3, TypingEnvironment, HandlerEnvironment, LockEnvironment, RowsEnvironment
<1>4. CASE UNCHANGED vars
  <2> USE <1>0, <1>4 DEF vars, sessionRows, bookingRows, granted, memory
  <2>1. TypeOK'
    BY DEF TypeOK
  <2>2. HandlerInv'
    BY HandlerFrame
  <2>3. LockInv'
    BY LockFrame
  <2>4. RowsInv'
    BY RowsFrame
  <2> QED BY <2>1, <2>2, <2>3, <2>4
<1> QED BY <1>1, <1>2, <1>3, <1>4 DEF Next

THEOREM InvariantHolds == Spec => []IInv
<1>1. Init => IInv
  BY TypingInit, RowsInit DEF IInv
<1> QED BY <1>1, Inductive, PTL DEF Spec

\* Type correctness of the checkout: every row, order and handler of
\* VposCheckout stays in its type.
THEOREM TypeCorrect == Spec => []TypeOK
  BY InvariantHolds, PTL DEF IInv

\* An order creates what it pays for at most once, over every interleaving of
\* its return link, fail link, syncs and cron polls.
THEOREM OrderGrantsOnce == Spec => []OneGrantPerOrder
<1>1. IInv => OneGrantPerOrder
  BY DEF IInv, RowsInv
<1> QED BY <1>1, InvariantHolds, PTL

\* A booking is handed over for one order only; a package too, except by
\* transactions that overlapped.
THEOREM TargetGrantedOnce == Spec => []OneGrantPerTarget
<1>1. IInv => OneGrantPerTarget
  BY DEF IInv, RowsInv
<1> QED BY <1>1, InvariantHolds, PTL

\* What was handed over had been captured by the bank.
THEOREM GrantsAreCaptured == Spec => []GrantedWasCaptured
<1>1. IInv => GrantedWasCaptured
  BY DEF IInv, RowsInv
<1> QED BY <1>1, InvariantHolds, PTL

\* What a step leaves alone or only adds to: payments of bookings, grants, the
\* target of a session in use.
Grown ==
  /\ \A b \in Bookings : paid[b] => paid'[b]
  /\ \A s \in Sessions : /\ grants[s] > 0 => grants'[s] > 0
                         /\ Used(s) => target'[s] = target[s]

\* A session turns paid only when it was delivered or could not be.
Settled ==
  \A s \in Sessions : status'[s] = "paid" /\ status[s] # "paid" =>
     \/ Delivered(s)'
     \/ target[s] \in (Packages \cup Extras) \ offered

LEMMA VerifySettles ==
  ASSUME IInv, NEW a \in Actors, Verify(a)
  PROVE  Grown /\ Settled
<1> USE DEF IInv, Grown, Settled, Finish, Goto, sessionRows, bookingRows, granted
<1>0. pc[a] \in HoldsSession => at[a] \in Sessions /\ Used(at[a])
  BY DEF HandlerInv, HandlerOK
<1>1. CASE RecordUnpaid(a) \/ Catch(a) \/ FailPending(a)
  BY <1>1 DEF RecordUnpaid, Catch, FailPending, UpdateFailed, SetStatus, TypeOK
<1>2. CASE AskBank(a) \/ FulfilAlreadyPaid(a) \/ FulfilThrows(a) \/ CatchFail(a)
           \/ FulfilEntitlementLook(a) \/ RollBack(a)
  BY <1>2 DEF AskBank, FulfilAlreadyPaid, FulfilThrows, CatchFail, FulfilEntitlementLook,
              LookAndInsert, RollBack
<1>3. CASE FulfilBooking(a)
  <2>1. PICK s \in Sessions, b \in Bookings : s = at[a] /\ b = target[s]
    BY <1>0, <1>3 DEF FulfilBooking, Settle, HoldsSession
  <2>2. /\ UNCHANGED target
        /\ \A r \in Sessions : status'[r] = "paid" => status[r] = "paid" \/ r = s
    BY <1>3, <2>1 DEF FulfilBooking, Settle, SetStatus
  <2>3. Grown /\ paid'[b]
    <3>1. CASE paid[b] /\ UNCHANGED <<bookingRows, granted>>
      BY <2>1, <2>2, <3>1
    <3>2. CASE ConfirmPaid(b) /\ Grant(s)
      BY <2>1, <2>2, <3>2 DEF ConfirmPaid, Grant, TypeOK
    <3> QED BY <1>3, <2>1, <3>1, <3>2 DEF FulfilBooking
  <2> QED BY <2>1, <2>2, <2>3 DEF Delivered
<1>4. CASE FulfilEntitlementGone(a) \/ FulfilEntitlementDone(a)
  <2>1. PICK s \in Sessions : s = at[a]
    BY <1>0, <1>4 DEF FulfilEntitlementGone, FulfilEntitlementDone, Entitlement, HoldsSession
  <2>2. /\ UNCHANGED <<target, granted, paid>>
        /\ \A r \in Sessions : status'[r] = "paid" => status[r] = "paid" \/ r = s
    BY <1>4, <2>1 DEF FulfilEntitlementGone, FulfilEntitlementDone, Settle, SetStatus
  <2>3. target[s] \in offered => FoundOrder(s)
    BY <1>4, <2>1 DEF FulfilEntitlementGone, FulfilEntitlementDone
  <2>4. target[s] \in Packages \cup Extras
    BY <1>4, <2>1 DEF FulfilEntitlementGone, FulfilEntitlementDone, Entitlement
  <2>5. FoundOrder(s) => Delivered(s)'
    <3>1. CASE s \in ledger
      BY <2>1, <2>2, <2>4, <3>1 DEF RowsInv, Delivered, Ordered
    <3>2. CASE target[s] \in Packages /\ Ordered(target[s])
      BY <2>1, <2>2, <3>2 DEF Delivered, Ordered
    <3> QED BY <3>1, <3>2 DEF FoundOrder
  <2> QED BY <2>1, <2>2, <2>3, <2>4, <2>5
<1>5. CASE FulfilEntitlementInsert(a)
  <2>1. PICK s \in Sessions : s = at[a] /\ target[s] \in Packages \cup Extras
    BY <1>0, <1>5 DEF FulfilEntitlementInsert, HoldsSession, LockInv, Looked
  <2>2. /\ UNCHANGED <<target, paid>>
        /\ \A r \in Sessions : status'[r] = "paid" => status[r] = "paid" \/ r = s
        /\ grants'[s] > 0 /\ \A r \in Sessions : grants[r] > 0 => grants'[r] > 0
    BY <1>5, <2>1 DEF FulfilEntitlementInsert, Grant, TypeOK
  <2>3. Delivered(s)'
    BY <2>1, <2>2 DEF Delivered, Ordered
  <2> QED BY <2>1, <2>2, <2>3
<1> QED BY <1>1, <1>2, <1>3, <1>4, <1>5 DEF Verify

LEMMA StepSettles ==
  ASSUME IInv, [Next]_vars
  PROVE  Grown /\ Settled
<1> USE DEF IInv, Grown, Settled, sessionRows, bookingRows, granted, memory
<1>1. ASSUME NEW a \in Requests, RequestStep(a)
      PROVE  Grown /\ Settled
  <2>1. CASE \/ \E t \in Targets : Initiate(a, t)
             \/ InitiateFindDuplicates(a) \/ InitiateRegister(a)
             \/ \E s \in Sessions, entry \in {"return", "fail", "sync"} : Load(a, entry, s)
    BY <2>1 DEF Initiate, InitiateFindDuplicates, InitiateRegister, Load
  <2>2. CASE InitiateReuse(a) \/ InitiateExpireDuplicates(a) \/ InitiateRegisterFails(a)
    BY <2>2 DEF InitiateReuse, InitiateExpireDuplicates, InitiateRegisterFails, SetStatus, TypeOK
  <2>3. CASE \E s \in Sessions : InitiateCreate(a, s)
    BY <2>3 DEF InitiateCreate, Used, TypeOK
  <2>4. CASE Verify(a)
    BY <2>4, VerifySettles DEF Actors
  <2> QED BY <1>1, <2>1, <2>2, <2>3, <2>4 DEF RequestStep
<1>2. ASSUME NEW a \in Crons, CronStep(a)
      PROVE  Grown /\ Settled
  <2>1. CASE \/ CronList(a) \/ \E s \in Sessions : CronPoll(a, s)
             \/ CronProtect(a) \/ CronDestroy(a) \/ CronDeadline(a) \/ CronDone(a)
    BY <2>1 DEF CronList, CronPoll, CronProtect, CronDestroy, CronDeadline, CronDone
  <2>2. CASE CronExpire(a)
    BY <2>2 DEF CronExpire, SetStatus
  <2>3. CASE \E b \in Bookings : CronCancel(a, b)
    BY <2>3 DEF CronCancel, Close
  <2>4. CASE Verify(a)
    BY <2>4, VerifySettles DEF Actors
  <2> QED BY <1>2, <2>1, <2>2, <2>3, <2>4 DEF CronStep
<1>3. CASE \/ \E s \in Sessions : BankStep(s)
           \/ \E b \in Bookings : BookingStep(b)
           \/ \E t \in Packages \cup Extras : Withdraw(t) \/ Restore(t)
           \/ Tick \/ Restart \/ UNCHANGED vars
  BY <1>3
  DEF BankStep, BankCapture, BankDecline, BookingStep, CreateBooking, StartPaymentWindow,
      ExtendHold, CancelBooking, StartHold, Extend, Close, Withdraw, Restore, Tick, Restart, vars
<1> QED BY <1>1, <1>2, <1>3 DEF Next

\* A session recorded as paid stays delivered: an order whose transaction ended
\* left behind what it is for, unless that was gone when it was settled.
THEOREM PaidStaysDelivered == Spec => PaidIsDelivered
<1>1. ASSUME IInv, [Next]_vars, NEW s \in Sessions, PaidInVain(s)', ~PaidInVain(s)
      PROVE  status[s] # "paid" /\ target[s] \in (Packages \cup Extras) \ offered
  <2>1. Grown /\ Settled
    BY <1>1, StepSettles
  <2>2. Delivered(s) => Delivered(s)'
    <3>1. ASSUME NEW r \in Sessions, grants[r] > 0
          PROVE  Used(r)
      BY <1>1, <3>1 DEF IInv, RowsInv, GrantedWasCaptured
    <3>2. Delivered(s) => target'[s] = target[s]
      BY <2>1, <3>1, DistinctKinds DEF Grown, Delivered, Used, Targets
    <3>3. Ordered(target[s]) => Ordered(target[s])' \/ target'[s] # target[s]
      BY <2>1, <3>1 DEF Grown, Ordered
    <3> QED BY <2>1, <3>2, <3>3 DEF Grown, Delivered
  <2> QED BY <1>1, <2>1, <2>2 DEF PaidInVain, Settled
<1>2. IInv /\ [Next]_vars =>
        \A s \in Sessions : PaidInVain(s)' =>
          PaidInVain(s) \/ (/\ status[s] # "paid"
                            /\ target[s] \in (Packages \cup Extras) \ offered)
  BY <1>1
<1> QED BY <1>2, InvariantHolds, PTL DEF Spec, PaidIsDelivered

\* A cancelled or deleted booking is not revived by a late payment: only a
\* booking that awaits payment is confirmed, and nothing reopens it.
THEOREM ClosedForGood == Spec => ClosedStaysClosed
<1> DEFINE Kept == \A b \in Bookings : lesson[b] \in {"closed", "deleted"} => lesson'[b] = lesson[b]
<1>1. ASSUME TypeOK, HandlerInv, [Next]_vars
      PROVE  Kept
  <2> USE DEF bookingRows
  <2>1. ASSUME NEW a \in Actors, Verify(a)
        PROVE  Kept
    BY <1>1, <2>1
    DEF Verify, AskBank, RecordUnpaid, FulfilAlreadyPaid, FulfilBooking,
        FulfilEntitlementGone, FulfilEntitlementDone, FulfilEntitlementLook, LookAndInsert,
        FulfilEntitlementInsert, RollBack, FulfilThrows, Catch, CatchFail, FailPending, ConfirmPaid, AwaitsPayment, TypeOK
  <2>2. ASSUME NEW a \in Requests, RequestStep(a)
        PROVE  Kept
    BY <2>1, <2>2
    DEF Actors, RequestStep, Initiate, InitiateReuse, InitiateFindDuplicates,
        InitiateExpireDuplicates, InitiateCreate, InitiateRegister, InitiateRegisterFails,
        Load
  <2>3. ASSUME NEW a \in Crons, CronStep(a)
        PROVE  Kept
    <3>1. CASE CronDestroy(a)
      BY <3>1 DEF CronDestroy, AwaitsPayment
    <3>2. ASSUME NEW b \in Bookings, CronCancel(a, b)
          PROVE  Kept
      BY <1>1, <3>2 DEF CronCancel, Close, Reserved, TypeOK
    <3> QED BY <2>1, <2>3, <3>1, <3>2
        DEF Actors, CronStep, CronExpire, CronList, CronPoll, CronProtect, CronDeadline,
            CronDone
  <2>4. ASSUME NEW b \in Bookings, BookingStep(b)
        PROVE  Kept
    BY <1>1, <2>4 DEF BookingStep, CreateBooking, StartPaymentWindow, ExtendHold, Extend,
                      CancelBooking, Close, TypeOK
  <2>5. CASE \/ \E s \in Sessions : BankStep(s)
             \/ \E t \in Packages \cup Extras : Withdraw(t) \/ Restore(t)
             \/ Tick \/ Restart \/ UNCHANGED vars
    BY <2>5 DEF BankStep, BankCapture, BankDecline, Withdraw, Restore, Tick, Restart, vars
  <2> QED BY <1>1, <2>2, <2>3, <2>4, <2>5 DEF Next
<1> QED BY <1>1, InvariantHolds, PTL DEF IInv, ClosedStaysClosed, Spec

-----------------------------------------------------------------------------
(* The checkout implements Delivery.                                       *)

LEMMA InitDelivery == Init => D!Init
  BY DEF Init, D!Init, Captured, Withdrawn

\* A step that changes nothing Delivery speaks of is a stutter ...
LEMMA Stutters ==
  ASSUME UNCHANGED <<target, bank, lesson, grants>>
  PROVE  [D!Next]_(D!vars)
  BY DEF D!vars, Captured, Withdrawn

\* ... and one that only closes or deletes bookings withdraws them.
LEMMA Withdraws ==
  ASSUME UNCHANGED <<target, bank, grants>>,
         Withdrawn \subseteq Withdrawn'
  PROVE  [D!Next]_(D!vars)
<1>1. Withdrawn' \in SUBSET Targets
  BY DEF Withdrawn, Targets
<1>2. Withdrawn' = Withdrawn \cup Withdrawn'
  OBVIOUS
<1>3. Captured' = Captured
  BY DEF Captured
<1>4. D!Withdraw(Withdrawn')
  BY <1>2, <1>3 DEF D!Withdraw
<1> QED BY <1>1, <1>4 DEF D!Next

\* A fulfilment hands over nothing, or the good of one captured order.
LEMMA VerifyDelivers ==
  ASSUME IInv, NEW a \in Actors, Verify(a)
  PROVE  [D!Next]_(D!vars)
<1> USE DEF Finish, Goto, sessionRows, bookingRows, granted, IInv
<1>1. CASE RecordUnpaid(a) \/ Catch(a) \/ FailPending(a)
  BY <1>1, Stutters DEF RecordUnpaid, Catch, FailPending, UpdateFailed, SetStatus
<1>2. CASE AskBank(a) \/ FulfilAlreadyPaid(a) \/ FulfilThrows(a) \/ CatchFail(a)
           \/ FulfilEntitlementLook(a) \/ RollBack(a)
  BY <1>2, Stutters DEF AskBank, FulfilAlreadyPaid, FulfilThrows, CatchFail,
                        FulfilEntitlementLook, LookAndInsert, RollBack
<1>3. ASSUME NEW s \in Sessions, Grant(s), bank[s] = "captured", grants[s] = 0,
             target[s] \notin Withdrawn, Withdrawn' = Withdrawn,
             \A r \in Sessions : target[r] = target[s] /\ grants[r] > 0
                               => target[s] \notin Bookings,
             UNCHANGED <<target, bank>>
      PROVE  [D!Next]_(D!vars)
  <2>1. Captured' = Captured /\ s \in Captured
    BY <1>3 DEF Captured
  <2>2. grants' = [grants EXCEPT ![s] = 1]
    BY <1>3 DEF Grant, TypeOK
  <2>3. ~D!Taken(target[s])
    BY <1>3 DEF D!Taken
  <2>4. D!Deliver(s)
    BY <1>3, <2>1, <2>2, <2>3 DEF D!Deliver
  <2> QED BY <2>4 DEF D!Next
<1>4. CASE FulfilBooking(a)
  <2>1. PICK s \in Sessions, b \in Bookings : s = at[a] /\ b = target[s] /\ bank[s] = "captured"
    BY <1>4 DEF FulfilBooking, Settle, HandlerInv, HandlerOK, HoldsSession
  <2>2. UNCHANGED <<target, bank>>
    BY <1>4 DEF FulfilBooking, Settle, SetStatus
  <2>3. CASE UNCHANGED <<bookingRows, granted>>
    BY <2>2, <2>3, Stutters
  <2>4. CASE AwaitsPayment(b) /\ ConfirmPaid(b) /\ Grant(s)
    <3>1. \A r \in Sessions : target[r] = b => grants[r] = 0
      BY <2>1, <2>4, DistinctKinds DEF RowsInv, TypeOK, AwaitsPayment
    <3>2. b \notin Withdrawn /\ Withdrawn' = Withdrawn
      BY <2>1, <2>4 DEF AwaitsPayment, ConfirmPaid, Withdrawn, TypeOK
    <3> QED BY <1>3, <2>1, <2>2, <2>4, <3>1, <3>2
  <2> QED BY <1>4, <2>1, <2>3, <2>4 DEF FulfilBooking
<1>5. CASE FulfilEntitlementGone(a) \/ FulfilEntitlementDone(a)
  BY <1>5, Stutters DEF FulfilEntitlementGone, FulfilEntitlementDone, Settle, SetStatus
<1>6. CASE FulfilEntitlementInsert(a)
  <2>1. PICK s \in Sessions, t \in Packages \cup Extras :
           s = at[a] /\ t = target[s] /\ bank[s] = "captured" /\ s \notin ledger
    BY <1>6 DEF FulfilEntitlementInsert, HandlerInv, HandlerOK, HoldsSession, LockInv, Looked
  <2>2. UNCHANGED <<target, bank, lesson>> /\ Grant(s)
    BY <1>6, <2>1 DEF FulfilEntitlementInsert
  <2>3. grants[s] = 0 /\ t \notin Bookings
    BY <2>1, DistinctKinds DEF RowsInv, TypeOK
  <2>4. t \notin Withdrawn /\ Withdrawn' = Withdrawn
    BY <2>2, <2>3 DEF Withdrawn
  <2> QED BY <1>3, <2>1, <2>2, <2>3, <2>4
<1> QED BY <1>1, <1>2, <1>4, <1>5, <1>6 DEF Verify

LEMMA StepDelivery == IInv /\ [Next]_vars => [D!Next]_(D!vars)
<1> SUFFICES ASSUME IInv, [Next]_vars PROVE [D!Next]_(D!vars)
  OBVIOUS
<1> USE DEF sessionRows, bookingRows, granted, memory
<1>1. ASSUME NEW a \in Requests, RequestStep(a)
      PROVE  [D!Next]_(D!vars)
  <2>1. CASE \/ \E t \in Targets : Initiate(a, t)
             \/ InitiateReuse(a) \/ InitiateFindDuplicates(a) \/ InitiateExpireDuplicates(a)
             \/ InitiateRegisterFails(a)
             \/ \E s \in Sessions, entry \in {"return", "fail", "sync"} : Load(a, entry, s)
    BY <2>1, Stutters
    DEF Initiate, InitiateReuse, InitiateFindDuplicates, InitiateExpireDuplicates,
        InitiateRegisterFails, Load, SetStatus
  <2>2. ASSUME NEW s \in Sessions, InitiateCreate(a, s)
        PROVE  [D!Next]_(D!vars)
    <3>1. want[a] \in Targets /\ target[s] = None
      BY <2>2 DEF InitiateCreate, Used, IInv, HandlerInv, HandlerOK, HoldsTarget, Actors
    <3>2. Captured' = Captured /\ Withdrawn' = Withdrawn
      BY <2>2 DEF InitiateCreate, Captured, Withdrawn
    <3>3. D!Place(s, want[a])
      BY <2>2, <3>1, <3>2 DEF InitiateCreate, D!Place
    <3> QED BY <3>1, <3>3 DEF D!Next
  <2>3. CASE InitiateRegister(a)
    <3>1. bank[at[a]] = "none"
      BY <2>3 DEF InitiateRegister, IInv, HandlerInv, HandlerOK, Actors
    <3>2. Captured' = Captured /\ Withdrawn' = Withdrawn
      BY <2>3, <3>1 DEF InitiateRegister, Captured, Withdrawn, IInv, TypeOK
    <3> QED BY <2>3, <3>2 DEF InitiateRegister, D!vars
  <2>4. CASE Verify(a)
    BY <2>4, VerifyDelivers DEF Actors
  <2> QED BY <1>1, <2>1, <2>2, <2>3, <2>4 DEF RequestStep
<1>2. ASSUME NEW a \in Crons, CronStep(a)
      PROVE  [D!Next]_(D!vars)
  <2>1. CASE \/ CronExpire(a) \/ CronList(a) \/ \E s \in Sessions : CronPoll(a, s)
             \/ CronProtect(a) \/ CronDeadline(a) \/ CronDone(a)
    BY <2>1, Stutters
    DEF CronExpire, CronList, CronPoll, CronProtect, CronDeadline, CronDone, SetStatus
  <2>2. CASE CronDestroy(a)
    <3>1. Withdrawn \subseteq Withdrawn'
      BY <2>2 DEF CronDestroy, Withdrawn
    <3> QED BY <2>2, <3>1, Withdraws DEF CronDestroy
  <2>3. ASSUME NEW b \in Bookings, CronCancel(a, b)
        PROVE  [D!Next]_(D!vars)
    <3>1. Withdrawn \subseteq Withdrawn'
      BY <2>3 DEF CronCancel, Close, Withdrawn, IInv, TypeOK
    <3> QED BY <2>3, <3>1, Withdraws DEF CronCancel
  <2>4. CASE Verify(a)
    BY <2>4, VerifyDelivers DEF Actors
  <2> QED BY <1>2, <2>1, <2>2, <2>3, <2>4 DEF CronStep
<1>3. ASSUME NEW s \in Sessions, BankStep(s)
      PROVE  [D!Next]_(D!vars)
  <2>1. target[s] # None /\ bank \in [Sessions -> BankStatus]
    BY <1>3 DEF BankStep, BankCapture, BankDecline, InFlight, IInv, RowsInv, Used, TypeOK
  <2>2. CASE BankCapture(s)
    <3>1. Captured' = Captured \cup {s} /\ Withdrawn' = Withdrawn
      BY <2>1, <2>2 DEF BankCapture, Captured, Withdrawn
    <3>2. D!Capture(s)
      BY <2>1, <2>2, <3>1 DEF BankCapture, D!Capture
    <3> QED BY <3>2 DEF D!Next
  <2>3. CASE BankDecline(s)
    <3>1. Captured' = Captured /\ Withdrawn' = Withdrawn
      BY <2>1, <2>3 DEF BankDecline, Captured, Withdrawn
    <3> QED BY <2>3, <3>1 DEF BankDecline, D!vars
  <2> QED BY <1>3, <2>2, <2>3 DEF BankStep
<1>4. ASSUME NEW b \in Bookings, BookingStep(b)
      PROVE  [D!Next]_(D!vars)
  <2>1. UNCHANGED <<target, bank, grants>>
    BY <1>4 DEF BookingStep, CreateBooking, StartPaymentWindow, ExtendHold, CancelBooking
  <2>2. Withdrawn \subseteq Withdrawn'
    BY <1>4 DEF BookingStep, CreateBooking, StartPaymentWindow, ExtendHold, Extend,
                CancelBooking, Close, Withdrawn, IInv, TypeOK
  <2> QED BY <2>1, <2>2, Withdraws
<1>5. CASE \/ \E t \in Packages \cup Extras : Withdraw(t) \/ Restore(t)
           \/ Tick \/ Restart \/ UNCHANGED vars
  BY <1>5, Stutters DEF Withdraw, Restore, Tick, Restart, vars
<1> QED BY <1>1, <1>2, <1>3, <1>4, <1>5 DEF Next

\* The checkout implements Delivery: every step of a handler, the bank, the cron
\* pass or a booking is one step of it or a stutter.
THEOREM ImplementsDelivery == Spec => KeepsDelivery
BY InitDelivery, StepDelivery, InvariantHolds, PTL DEF Spec, KeepsDelivery, D!Spec

=============================================================================
