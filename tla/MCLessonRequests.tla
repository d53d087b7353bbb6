--------------------------- MODULE MCLessonRequests ---------------------------
(* Instance of LessonRequests for TLC: two handlers use up a pool of two.  *)
EXTENDS LessonRequests

CONSTANTS r1, l1, l2, l3, h1, h2

OneRequest   == {r1}
ThreeLessons == {l1, l2, l3}
TwoHandlers  == {h1, h2}

=============================================================================
