--------------------------- MODULE Polarization ----------------------------
(***************************************************************************)
(* The four BB84 states as angles and what a rotation of the fibre turns   *)
(* them into (src/optical/channel.py, src/optical/polarization.py).        *)
(* Angles are whole degrees, of which 180 make a turn: no whole degree     *)
(* lies half-way between two states, so that the nearest one is unique.    *)
(***************************************************************************)
EXTENDS Integers

Bits  == {0, 1}
Bases == {"Z", "X"}
Turn  == 180

(* The angle of each state: H, V, D and A in this order. *)
Angle(basis, bit) == CASE basis = "Z" /\ bit = 0 -> 0
                       [] basis = "Z" /\ bit = 1 -> 90
                       [] basis = "X" /\ bit = 0 -> 45
                       [] basis = "X" /\ bit = 1 -> 135

(* The distance of two angles on the circle. *)
Apart(a, b) == LET d == (a - b) % Turn IN IF d <= Turn - d THEN d ELSE Turn - d

(* Mutant: the distance does not go around the circle. *)
NearestOnTheLine(angle, basis, bit) ==
  \A u \in Bases, c \in Bits :
    LET a == angle % Turn
        Far(x) == IF a <= x THEN x - a ELSE a - x
    IN Far(Angle(basis, bit)) <= Far(Angle(u, c))

(* _nearest_state: the state a rotated angle is projected to. *)
Nearest(angle, basis, bit) ==
  \A u \in Bases, c \in Bits : Apart(angle, Angle(basis, bit)) <= Apart(angle, Angle(u, c))

(* theta is closer to no rotation than to that to the next state. *)
Slight(theta) == Apart(theta, 0) <= 22
=============================================================================
