--------------------------- MODULE MCScheduleBoard ---------------------------
(***************************************************************************)
(* An instance of ScheduleBoard for TLC: two sections of one teacher.       *)
(***************************************************************************)
EXTENDS ScheduleBoard

CONSTANTS teacher, b1, b2, s1, s2, r1, r2

MCRoomTimes == [r \in Rooms |-> IF r = r1 THEN Times ELSE {1}]
\* The name of r1 begins with the number of r2, where it is then shown if r2 can
\* be used at that time; the name of r2 begins with no number of a room.
MCRoomOfName == [r \in Rooms |-> IF r = r1 THEN r2 ELSE None]
MCTaughtBy == [s \in Sections |-> {teacher}]
MCAvailable == [t \in {teacher} |-> Times]

\* One section is scheduled, the other is not.
MCBoards == {[times |-> [s \in Sections |-> IF s = s1 THEN {1} ELSE {}], booked |-> {<<s1, r1, 1>>}]}

At(t) == [room |-> r1, times |-> {t}]

\* One is thrown out and the other gets its place, or goes where the page that
\* reads the entry finds no room.
MCPlans == {[s \in {s1, s2} |-> IF s = s1 THEN Nowhere ELSE At(1)], [s \in {s2} |-> At(2)]}
=============================================================================
