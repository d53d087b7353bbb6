------------------------- MODULE MCSlotReservation -------------------------
(* Instances of SlotReservation for TLC: two bookings over three hours, of *)
(* which the first and the third are starts of the grid, or over two that  *)
(* both are; a request of a student and one of staff.                      *)
EXTENDS SlotReservation

CONSTANTS q1, w1

OneStudent == {q1}
OneOfStaff == {w1}

=============================================================================
