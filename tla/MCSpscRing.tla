------------------------------ MODULE MCSpscRing ------------------------------
(* Model-checking instance of SpscRing: four slots, cursors that wrap after *)
(* two rounds of them, two values.                                           *)
EXTENDS SpscRing

CONSTANTS v, w

TwoValues == {v, w}

=============================================================================
