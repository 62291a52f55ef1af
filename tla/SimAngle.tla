------------------------------ MODULE SimAngle ------------------------------
(***************************************************************************)
(* The Angle class of the telescope simulator (scopesim_helper.h 48-230)  *)
(* and the one Axis member with a body that assigns one (AbortSlew).  An  *)
(* Angle holds degrees folded into -180 <= angle < 180 by range(), and   *)
(* every constructor, setter and arithmetic operator folds its result.    *)
(*                                                                         *)
(* The angles are kept on a grid of whole multiples of 15 degrees (one    *)
(* hour).  On that grid every double the code computes (sums, the folds   *)
(* by 360, hours * 15, angle / 15) is an exact integer, so integer        *)
(* arithmetic here is the code's arithmetic, not an approximation of it.  *)
(*                                                                         *)
(* The two Angle objects are an Axis's position and target.  Beside each  *)
(* one the model keeps exact[o], the same value computed without folding  *)
(* (reduced mod 360 to stay finite): the reference the folded arithmetic  *)
(* is checked against.                                                     *)
(***************************************************************************)
EXTENDS Integers

CONSTANTS
    Degs,        \* double arguments in degrees (setDegrees, +=, -=, operator+ and -)
    Hrs,         \* double arguments in hours (setHours)
    Factors      \* double arguments of operator * (a duration)

ASSUME Degs \subseteq Int /\ \A d \in Degs : d % 15 = 0
ASSUME Hrs \subseteq Int /\ Factors \subseteq Int

Objs == {"position", "target"}

VARIABLES
    angle,       \* Angle::angle of each object
    exact        \* the unfolded value of each object, mod 360

vars == <<angle, exact>>

(***************************************************************************)
(* range(deg): while deg >= 180 subtract 360, then while deg < -180 add    *)
(* 360.  The two loops are FoldDown and FoldUp.                           *)
(***************************************************************************)
RECURSIVE FoldDown(_), FoldUp(_), FoldDownPast(_)
FoldDown(deg) == IF deg >= 180 THEN FoldDown(deg - 360) ELSE deg
FoldUp(deg) == IF deg < -180 THEN FoldUp(deg + 360) ELSE deg

\* The first loop testing deg > 180: 180 itself is kept.
FoldDownPast(deg) == IF deg > 180 THEN FoldDownPast(deg - 360) ELSE deg
rangePast(deg) == FoldUp(FoldDownPast(deg))

range(deg) == FoldUp(FoldDown(deg))

\* hrstoDeg(hrs): range(hrs * 15.0).
hrstoDeg(hrs) == range(hrs * 15)

\* Degrees360(): angle when >= 0, else 360 + angle.
Degrees360(a) == IF a >= 0 THEN a ELSE 360 + a

\* Hours() computing h < 0 as h <= 0: 0 degrees is 24 hours.
HoursAtZero(a) == LET h == a \div 15 IN IF h <= 0 THEN 24 + h ELSE h

\* Hours(): h = angle / 15, plus 24 when negative.
Hours(a) == LET h == a \div 15 IN IF h < 0 THEN 24 + h ELSE h

(***************************************************************************)
(* The value-returning operators: operator+ and add (angle or double),    *)
(* operator- and subtract, unary minus and operator * all construct        *)
(* Angle(result), that is range(result).  difference() is range(a - b)    *)
(* as a double, and the relational operators compare it with 0.           *)
(***************************************************************************)
Plus(a, b) == range(a + b)

\* operator- computing rhs - this.
MinusSwapped(a, b) == range(b - a)

Minus(a, b) == range(a - b)
Negate(a) == range(-a)
Times(a, k) == range(a * k)
difference(a, b) == range(a - b)
Greater(a, b) == difference(a, b) > 0
Less(a, b) == difference(a, b) < 0

\* The reference fold: the value in -180..179 that is d modulo 360.
RefRange(d) == CHOOSE r \in -180..179 : (r - d) % 360 = 0

TypeOK ==
    /\ angle \in [Objs -> -180..179]
    /\ exact \in [Objs -> 0..359]

\* Angle(): both objects start at 0.
Init ==
    /\ angle = [o \in Objs |-> 0]
    /\ exact = [o \in Objs |-> 0]

\* Object o's unfolded value becomes e.
Exact(o, e) == exact' = [exact EXCEPT ![o] = e % 360]

\* Object o's Angle::angle becomes v.
Angle(o, v) == angle' = [angle EXCEPT ![o] = v]

\* setDegrees(deg), and assignment of Angle(deg).
setDegrees(o, d) == Angle(o, range(d)) /\ Exact(o, d)

\* setHours(hrs).
setHours(o, h) == Angle(o, hrstoDeg(h)) /\ Exact(o, h * 15)

\* operator += and -= with a double.
addDegrees(o, d) == Angle(o, range(angle[o] + d)) /\ Exact(o, exact[o] + d)
subDegrees(o, d) == Angle(o, range(angle[o] - d)) /\ Exact(o, exact[o] - d)

\* operator += and -= with another Angle p.
addAngle(o, p) == Angle(o, range(angle[o] + angle[p])) /\ Exact(o, exact[o] + exact[p])
subAngle(o, p) == Angle(o, range(angle[o] - angle[p])) /\ Exact(o, exact[o] - exact[p])

\* o = p + q, o = p - q, o = -p, o = p * k (add, subtract, operators).
assignSum(o, p, q) == Angle(o, Plus(angle[p], angle[q])) /\ Exact(o, exact[p] + exact[q])
assignDifference(o, p, q) ==
    Angle(o, Minus(angle[p], angle[q])) /\ Exact(o, exact[p] - exact[q])
assignNegation(o, p) == Angle(o, Negate(angle[p])) /\ Exact(o, -exact[p])
assignProduct(o, p, k) == Angle(o, Times(angle[p], k)) /\ Exact(o, exact[p] * k)

\* Axis::AbortSlew(): target = position.
AbortSlew ==
    /\ angle' = [angle EXCEPT !["target"] = angle["position"]]
    /\ exact' = [exact EXCEPT !["target"] = exact["position"]]

Next ==
    \/ AbortSlew
    \/ \E o \in Objs, h \in Hrs : setHours(o, h)
    \/ \E o \in Objs, d \in Degs :
           setDegrees(o, d) \/ addDegrees(o, d) \/ subDegrees(o, d)
    \/ \E o, p \in Objs : addAngle(o, p) \/ subAngle(o, p) \/ assignNegation(o, p)
    \/ \E o, p, q \in Objs : assignSum(o, p, q) \/ assignDifference(o, p, q)
    \/ \E o, p \in Objs, k \in Factors : assignProduct(o, p, k)

Spec == Init /\ [][Next]_vars

-----------------------------------------------------------------------------
(***************************************************************************)
(* Properties                                                              *)
(***************************************************************************)

(***************************************************************************)
(* Folding is exact modular arithmetic: after any sequence of setters,    *)
(* += / -=, and assignments from operator+, -, unary -, * and setHours,   *)
(* each Angle holds the one value in -180..179 that equals, modulo 360,   *)
(* what the same operations give without folding (range's two loops,      *)
(* including the boundary at 180 itself).                                  *)
(***************************************************************************)
Canonical ==
    \A o \in Objs : angle[o] = RefRange(exact[o])

(***************************************************************************)
(* The 0..360 and 0..24 views agree with the angle: Degrees360() is the   *)
(* angle modulo 360 and Hours() the same angle in hours, for every angle  *)
(* an object can hold, 0 and -180 included.                                *)
(***************************************************************************)
ViewsAgree ==
    \A o \in Objs :
        /\ Degrees360(angle[o]) = exact[o]
        /\ Hours(angle[o]) * 15 = exact[o]

=============================================================================
