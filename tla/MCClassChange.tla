---------------------------- MODULE MCClassChange ----------------------------
(***************************************************************************)
(* An instance of ClassChange for TLC: four students with requests, one     *)
(* without; a section of two timeslots and four short ones, two of them of  *)
(* the same class.                                                          *)
(***************************************************************************)
EXTENDS ClassChange

CONSTANTS a, b, c, d

MCParentClass == <<a, b, c, d, b>>
MCMeetingTimes == <<{1, 2}, {1}, {2}, {1}, {2}>>
MCCapacity == <<2, 1, 1, 1, 1>>

\* The sections a student is in, those requested, and those of high priority.
Kinds == <<[in |-> {1}, wants |-> {4}, first |-> {}],
           [in |-> {2, 3}, wants |-> {1}, first |-> {}],
           [in |-> {}, wants |-> {1}, first |-> {1}],
           [in |-> {4, 3}, wants |-> {2}, first |-> {}],
           [in |-> {}, wants |-> {2, 5}, first |-> {2}]>>

\* The kinds of the four students.
Mixes == {<<1, 1, 2, 2>>, <<1, 1, 3, 4>>, <<1, 2, 3, 4>>, <<1, 2, 4, 5>>, <<2, 2, 4, 4>>, <<2, 3, 4, 5>>}

\* The column is exact, or it misses a student of section 1.
Counted(rows, low) ==
    [s \in Sections |->
        Cardinality({p \in rows : p[2] = s}) - (IF s \in low /\ (\E p \in rows : p[2] = s) THEN 1 ELSE 0)]

MCInputs ==
    {LET rows == UNION {{u} \X Kinds[k[u]].in : u \in Students} \union web
     IN  [enrolled |-> rows,
          enrolled_students |-> Counted(rows, low),
          request |-> UNION {{u} \X Kinds[k[u]].wants : u \in Students},
          waitlist |-> [p \in Students \X Sections |-> IF p[2] \in Kinds[k[p[1]]].first THEN 1 ELSE 0]] :
        k \in Mixes, web \in {{}, Web \X {4}}, low \in {{}, {1}}}
=============================================================================
