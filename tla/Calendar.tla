------------------------------- MODULE Calendar -------------------------------
(***************************************************************************)
(* What the booking calendar of one instructor's day promises: an hour is  *)
(* held by one booking at a time, and a booking takes free hours only.  It *)
(* never loses an hour because of what happens to another booking.         *)
(***************************************************************************)
CONSTANTS Bookings, Hours

VARIABLE held      \* the hours each booking holds

Init == held = [b \in Bookings |-> {}]

Free(b, h) == \A c \in Bookings : c # b => h \notin held[c]

\* One booking gives back some of its hours and takes free ones.
Arrange(b, wanted) ==
  /\ held' = [held EXCEPT ![b] = wanted]
  /\ \A h \in wanted : Free(b, h)

Next == \E b \in Bookings, wanted \in SUBSET Hours : Arrange(b, wanted)

Spec == Init /\ [][Next]_held

\* No hour is held by two bookings.
Exclusive == \A b, c \in Bookings : b # c => held[b] \cap held[c] = {}

===============================================================================
