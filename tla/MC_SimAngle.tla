----------------------------- MODULE MC_SimAngle -----------------------------
(***************************************************************************)
(* SimAngle for TLC: arguments on both sides of every fold boundary        *)
(* (-540, -180, 180, 540 degrees; -36, 12, 36 hours; 7 hours), a small step either *)
(* side of 180, and durations that scale an angle past a whole turn.      *)
(***************************************************************************)
EXTENDS SimAngle

MCDegs == {-540, -195, -180, 0, 15, 180, 345, 540}
MCHrs == {-36, -12, 0, 7, 12, 36}
MCFactors == {-1, 2, 5}

=============================================================================
