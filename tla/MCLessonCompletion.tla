-------------------------- MODULE MCLessonCompletion --------------------------
(* Instance of LessonCompletion for TLC.                                   *)
EXTENDS LessonCompletion

CONSTANTS b1, p1, p2, q1, q2

OneBooking  == {b1}
TwoPasses   == {p1, p2}
TwoRequests == {q1, q2}

=============================================================================
