------------------------- MODULE MC_DeviceRegistry -------------------------
(***************************************************************************)
(* Instances of DeviceRegistry for TLC.  Names and threads are model       *)
(* values.  Two of the five INDI property types are enough for the       *)
(* kind-specific lookup of registerProperty to differ from the kind-blind  *)
(* one of buildProp; the two-thread run uses one type, so that what it    *)
(* finds comes from the locking alone.                                     *)
(***************************************************************************)
EXTENDS DeviceRegistry

CONSTANTS t1, t2, p1, p2

OneThread  == {t1}
TwoThreads == {t1, t2}
TwoNames   == {p1, p2}
OneKind    == {"number"}
TwoKinds   == {"number", "switch"}

\* A skeleton file defining p1 twice, and one whose first element is empty.
Def1(n, e) == [name |-> n, kind |-> "number", empty |-> e]
TwoSkeletons == {<<Def1(p1, FALSE), Def1(p1, FALSE)>>, <<Def1(p2, TRUE), Def1(p1, FALSE)>>}
NoSkeletons == {}

=============================================================================
