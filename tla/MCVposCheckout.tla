--------------------------- MODULE MCVposCheckout ---------------------------
(* Instances of VposCheckout for TLC.  A tick stands for ten minutes where  *)
(* the hold is one, for longer than the hold where it is none.              *)
EXTENDS VposCheckout, TLC

CONSTANTS s1, s2, b1, p1, e1, r1, r2, c1

OneSession   == {s1}
TwoSessions  == {s1, s2}
OneBooking   == {b1}
OnePackage   == {p1}
OneExtra     == {e1}
OneRequest   == {r1}
TwoRequests  == {r1, r2}
OneCron      == {c1}

Symmetry == Permutations(Sessions) \cup Permutations(Requests) \cup Permutations(Crons)

=============================================================================
