----------------------------- MODULE MC_Cascade -----------------------------
(* Model values for Cascade: two pushers of U and two relay ports.         *)
EXTENDS Cascade, TLC

CONSTANTS p1, p2, o1, o2

TwoPushers == {p1, p2}
TwoPorts == {o1, o2}

=============================================================================
