---------------------------- MODULE MCTheoryCohort ----------------------------
(* Instance of TheoryCohort for TLC.                                       *)
EXTENDS TheoryCohort, TLC

CONSTANTS c1, s1, s2, b1, b2, r1

OneCohort   == {c1}
TwoStudents == {s1, s2}
TwoBookings == {b1, b2}
OneRequest  == {r1}

\* Both days, the second alone, and no lessons yet.
ThreePlans ==
  {[first |-> 0, last |-> 1, weekdays |-> {0, 1}, total |-> 2],
   [first |-> 0, last |-> 1, weekdays |-> {1}, total |-> 2],
   [first |-> 0, last |-> 1, weekdays |-> {0, 1}, total |-> 0]}

Symmetry == Permutations(Students) \cup Permutations(Bookings)

=============================================================================
