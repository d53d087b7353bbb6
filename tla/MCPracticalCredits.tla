-------------------------- MODULE MCPracticalCredits --------------------------
(* Instances of PracticalCredits for TLC.                                  *)
EXTENDS PracticalCredits, TLC

CONSTANTS p1, p2, b1, b2, r1, r2

OnePackage  == {p1}
TwoPackages == {p1, p2}
TwoBookings == {b1, b2}
TwoRequests == {r1, r2}

OneAndTwo  == [p \in Packages |-> IF p = p1 THEN 1 ELSE 2]
TwoLessons == {<<0, 2>>}

\* Nothing was sold before, or every order there can be.
NoneOrAll == {s \in [Bookings -> Orders \cup {0}] : Range(s) \in {{0}, Orders}}

Symmetry == Permutations(Bookings) \cup Permutations(Requests)

=============================================================================
