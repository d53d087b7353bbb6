-------------------------- MODULE MCBookingLedger --------------------------
(* Instances of BookingLedger for TLC, with one request in progress.  A    *)
(* price of two units allows one partial payment.                          *)
EXTENDS BookingLedger

CONSTANT q1

OneRequest == {q1}

=============================================================================
