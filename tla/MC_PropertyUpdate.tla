------------------------- MODULE MC_PropertyUpdate -------------------------
(***************************************************************************)
(* Instances of PropertyUpdate for TLC: a two-widget property (enough for *)
(* a reader to straddle a write), the four IPState values, two timeouts.  *)
(* The torn-read run sends whole elements only.                           *)
(***************************************************************************)
EXTENDS PropertyUpdate

CONSTANTS a, b, Idle, Ok, Busy, Alert, t0, t1

TwoWidgets == {a, b}
States     == {Idle, Ok, Busy, Alert}
TwoTimeouts == {t0, t1}
\* Elements naming any subset of the widgets, or all of them.
AnyWidgets  == SUBSET TwoWidgets
AllWidgets  == {TwoWidgets}

=============================================================================
