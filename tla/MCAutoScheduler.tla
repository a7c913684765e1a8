--------------------------- MODULE MCAutoScheduler ---------------------------
(***************************************************************************)
(* An instance of AutoScheduler for TLC: two rooms, three timeslots with    *)
(* lunch in the second, a section of two hours and three of one.            *)
(***************************************************************************)
EXTENDS AutoScheduler

CONSTANTS A, B, x, y, z, w, p, q

MCSlots == <<<<A, 1>>, <<A, 2>>, <<A, 3>>, <<B, 1>>, <<B, 2>>>>
MCStart == <<0, 60, 130>>
MCEnd == <<60, 120, 190>>
MCLunches == {{2, 3}}
MCDuration == [s \in Sections |-> IF s = x THEN 120 ELSE 60]
MCTaughtBy == [s \in Sections |-> IF s = x THEN {p} ELSE IF s = y THEN {p, q} ELSE IF s = z THEN {q} ELSE {}]
MCDeclared == [t \in Teachers |-> IF t = p THEN {1, 2} ELSE {1, 2, 3}]
MCAllowed == (Sections \X Rooms) \ {<<z, B>>}

\* Sections in the first room and late in the day are worth less.
MCValue(s, r) == (IF s = x THEN 30 ELSE 20) + (IF r[1] = B THEN 2 ELSE 0) - r[2]

NoSection == [s \in Sections |-> {}]

\* Sections that were scheduled by hand may start where their teachers are not
\* available.
MCLoaded ==
    {[NoSection EXCEPT ![x] = h, ![y] = RoomslotsFor(y, i), ![z] = RoomslotsFor(z, j), ![w] = k] :
        h \in {{}, {<<B, 1>>, <<B, 2>>}}, i \in Range(Slots), j \in Range(Slots),
        k \in {{}, {<<A, 1>>}, {<<A, 2>>}, {<<B, 2>>}}}
=============================================================================
