------------------------------ MODULE MCLottery ------------------------------
(***************************************************************************)
(* An instance of Lottery for TLC: a morning slot, two lunch periods and an *)
(* afternoon slot; a class with a long section (morning and first lunch)    *)
(* and one in the afternoon, a class in the morning, a class in the second  *)
(* lunch period, and a lunch in each period.                                *)
(***************************************************************************)
EXTENDS Lottery

CONSTANTS u1, u2, u3, long, late, short, noon, lunch1, lunch2,
          a, b, c, lunch, t1, l1, l2, t2

MCParentClass == [s \in Sections |-> CASE s \in {long, late} -> a [] s = short -> b
                                       [] s = noon -> c [] OTHER -> lunch]
MCMeetingTimes == [s \in Sections |-> CASE s = long -> {t1, l1} [] s = late -> {t2}
                                        [] s = short -> {t1} [] s = lunch1 -> {l1}
                                        [] OTHER -> {l2}]
MCCapacity == [s \in Sections |-> IF s \in {long, lunch1} THEN 1 ELSE 2]
MCDays == {{l1, l2}}

\* What one student may ask for: at priority 1, and as an interest.
Wishes == {<<{long}, {short, late}>>, <<{short, noon}, {long}>>,
           <<{}, {long, noon, lunch2}>>, <<{noon, long}, {}>>,
           <<{late, lunch1}, {short, noon}>>}

MCSignups == {[l \in 1..2 |-> UNION {{u} \X w[u][l] : u \in Students}] :
                  w \in [Students -> Wishes]}

\* The third student is too old for the long section.
MCGraded == {p \in Students \X Sections : ~(p[1] = u3 /\ p[2] = long)}

Default == [program_size_max |-> 0, max_sections |-> 0, max_timeslots |-> 0,
            check_grade |-> TRUE, exceptions |-> FALSE, assign_lunches |-> TRUE]
MCOptionSets == {Default,
                 [Default EXCEPT !.program_size_max = 2, !.exceptions = TRUE],
                 [Default EXCEPT !.max_sections = 1, !.assign_lunches = FALSE],
                 [Default EXCEPT !.max_timeslots = 1, !.check_grade = FALSE]}
=============================================================================
