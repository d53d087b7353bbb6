---------------------------- MODULE MCCashRegister ----------------------------
(* Instance of CashRegister for TLC.                                       *)
EXTENDS CashRegister, TLC

CONSTANTS x, y, w1, w2

TwoBranches == {x, y}
TwoStaff    == {w1, w2}

Symmetry == Permutations(Branches) \cup Permutations(Staff)

=============================================================================
