---------------------------- MODULE MCSideBySide ----------------------------
(* Instances for TLC of SideBySide. *)
EXTENDS SideBySide, TLC

CONSTANTS p1, p2, w1, w2, s1, s2, s3, m1, m2, a, b, i1, i2, i3, t1, t2, v1, v2, g, t, z, u

(* A duty under way and room for its successor, or a duty whose driver m1     *)
(* has vehicle m2, which another driver has on a flexi duty of the same day.  *)
TwoTripsOnS1 == [k \in Schedules \cup Waybills |-> IF k = s1 THEN {1, 2} ELSE {1}]
Duty(status, s, day, who, flexi) ==
  [status |-> status, sched |-> s, day |-> day, who |-> who, flexi |-> flexi]
OneRepeating ==
  [w \in Waybills |-> IF w = w1 THEN Duty("online", s1, 1, {m1}, FALSE) ELSE [status |-> "none"]]
OneFlexi ==
  [w \in Waybills |-> IF w = w1 THEN Duty("upcoming", s2, 2, {m1, m2}, FALSE)
                       ELSE Duty("upcoming", s3, 2, {m2}, TRUE)]
RepeatingOrFlexi == {OneRepeating, OneFlexi}

(* Two vehicles that have the same number, one after the other.              *)
SameNumber == [v \in Vehicles |-> 1]

(* A route with two stops, and room for one more.                            *)
TwoStops ==
  [p \in 1..3 |-> IF p = 3 THEN [there |-> FALSE, order |-> 0, stop |-> "none"]
                  ELSE [there |-> TRUE, order |-> p, stop |-> IF p = 1 THEN a ELSE b]]

\* A row that is put second, or deleted.
MovedOrGone == {[there |-> TRUE, order |-> 2, stop |-> a], [there |-> FALSE, order |-> 2, stop |-> b]}

(* A stage whose name has an edge space on master, and a timetable.          *)
StageAndTimetable == [k \in Rows |-> IF k = g THEN "stage" ELSE "timetable"]
WithoutSpace == [c \in Spaced |-> "x"]
MasterAtFirst == [k \in Rows |-> IF k = g THEN "x_" ELSE "x"]
ProdAtFirst == [k \in Rows |-> "y"]
NoneOrBoth == {{}, Rows}

(* A repeating schedule with a duty to copy, every day, but the first, or not *)
(* at all, and a person who asks for all of its three days or for the last.   *)
EveryDay == [s \in Repeating |-> {1, 2, 3}]
TheFirst == [s \in Repeating |-> {1}]
AllOrTheLast == {<<1, 3>>, <<3, 3>>}

Symmetry == Permutations({p1, p2})
=============================================================================
