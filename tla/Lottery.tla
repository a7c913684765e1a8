------------------------------- MODULE Lottery -------------------------------
(***************************************************************************)
(* The class lottery: LotteryAssignmentController.compute_assignments       *)
(* (program/controllers/lottery.py), which fills the sections one priority  *)
(* level at a time and then gives every attending student a lunch.          *)
(*                                                                          *)
(* The lottery runs on the preferences it has read; a draw by weight is a   *)
(* choice of any students of the right number.  Level Interested stands for *)
(* priority=False, the pass over the students who are merely interested.    *)
(* The rank passes of use_student_apps are left out: with that option       *)
(* initialize() adds two QuerySets, which raises a TypeError.               *)
(***************************************************************************)
EXTENDS Integers, FiniteSets, FiniteSetsExt

CONSTANTS
    Students,        \* lotteried_students
    Sections,        \* accepted, open and scheduled sections
    Classes,         \* their parent classes
    Times,           \* timeslots of the program
    ParentClass,     \* section -> its class
    MeetingTimes,    \* section -> its timeslots
    Capacity,        \* section -> its capacity
    LunchSections,   \* sections whose category is lunch
    Days,            \* the lunch periods of every day that has some
    Limit,           \* effective_priority_limit
    Signups,         \* possible preferences: level -> {<<student, section>>}
    Graded,          \* <<student, section>>: the grade is within the limits
    OptionSets       \* possible options of a run

Interested == Limit + 1
Levels == 1..Interested

\* What the administrator and the program may set; zero is no limit.
Options == [program_size_max : Nat, max_sections : Nat, max_timeslots : Nat,
            check_grade : BOOLEAN, exceptions : BOOLEAN, assign_lunches : BOOLEAN]

ASSUME LotteryAssumption ==
    /\ IsFiniteSet(Students) /\ IsFiniteSet(Sections) /\ IsFiniteSet(Times)
    /\ ParentClass \in [Sections -> Classes]
    /\ MeetingTimes \in [Sections -> (SUBSET Times) \ {{}}]
    /\ Capacity \in [Sections -> Nat]
    /\ LunchSections \subseteq Sections
    /\ Days \subseteq (SUBSET Times) \ {{}}
    /\ \A d, e \in Days : d # e => d \intersect e = {}
    \* get_lunch_sections makes one section for a lunch period.
    \* get_lunch_subject makes one class for the lunches of a day.
    /\ \A s \in LunchSections : \E d \in Days : \E t \in d :
           /\ MeetingTimes[s] = {t}
           /\ \A x \in Sections : ParentClass[x] = ParentClass[s] =>
                  x \in LunchSections /\ MeetingTimes[x] \subseteq d
    /\ Limit \in Nat
    /\ Signups \subseteq [Levels -> SUBSET (Students \X Sections)]
    /\ Graded \subseteq Students \X Sections
    /\ OptionSets \subseteq Options

VARIABLES
    options,            \* options of this run
    signup,             \* priority[1..Limit] and interest
    level,              \* the level that is being filled, or past the last one
    todo,               \* sections that are still to be filled at this level
    student_sections,   \* <<student, section>>
    student_schedules,  \* <<student, timeslot>>: occupied
    days,               \* lunch: days that are still to be gone through
    day,                \* lunch: the periods of the present day
    hungry              \* lunch: students still to be looked at on that day

vars == <<options, signup, level, todo, student_sections, student_schedules,
          days, day, hungry>>

\* compute_assignments begins with clear_assignments.
Init ==
    /\ options \in OptionSets
    /\ signup \in Signups
    /\ level = 1
    /\ todo = Sections
    /\ student_sections = {}
    /\ student_schedules = {}
    /\ days = Days
    /\ day = {}
    /\ hungry = {}

-----------------------------------------------------------------------------
StudentsIn(s) == {u \in Students : <<u, s>> \in student_sections}
SectionsOf(u) == {s \in Sections : <<u, s>> \in student_sections}
TimesOf(u) == {t \in Times : <<u, t>> \in student_schedules}
Attending == {u \in Students : TimesOf(u) # {}}

\* num_spaces: what the section and, if it has a size, the program can take.
Spaces(s) ==
    LET section == Capacity[s] - Cardinality(StudentsIn(s))
        program == options.program_size_max - Cardinality(Attending)
    IN  IF options.program_size_max = 0 \/ section < program THEN section ELSE program

\* The section takes all lunch periods of some day.
CoversLunch(s) == \E d \in Days : d \subseteq MeetingTimes[s]

\* Free at one of the times.
IsFreeOnce(u, s) == \E t \in MeetingTimes[s] : <<u, t>> \notin student_schedules

\* The student is free at the times of s.
IsFree(u, s) == \A t \in MeetingTimes[s] : <<u, t>> \notin student_schedules

\* The student has no section of the same class.
NotInClass(u, s) ==
    \A x \in Sections : ParentClass[x] = ParentClass[s] => <<u, x>> \notin student_sections

\* A section that meets in a lunch period asks for all the others to be free.
KeepsLunch(u, s) ==
    \A d \in Days : \A t \in d \intersect MeetingTimes[s] :
        \A x \in d \ {t} : <<u, x>> \notin student_schedules

\* The student has fewer sections and timeslots than the options allow.
WithinLimits(u) ==
    /\ options.max_sections # 0 => Cardinality(SectionsOf(u)) < options.max_sections
    /\ options.max_timeslots # 0 => Cardinality(TimesOf(u)) < options.max_timeslots

\* Grades are not looked at for the grade range exceptions, the last priority.
GradeFits(u, s, l) ==
    options.check_grade /\ ~(l = Limit /\ options.exceptions) => <<u, s>> \in Graded

\* The student passes every filter of fill_section.
Eligible(u, s, l) ==
    /\ GradeFits(u, s, l)
    /\ WithinLimits(u)
    /\ IsFree(u, s)
    /\ NotInClass(u, s)
    /\ KeepsLunch(u, s)

\* possible_students
Candidates(s, l) == {u \in Students : <<u, s>> \in signup[l] /\ Eligible(u, s, l)}

\* The order in which the sections are filled: priorities by length, the
\* longest first, at random among equals; interest by demand, the number of
\* interested students over the capacity (with no seats, last).
Demand(s) == Cardinality({u \in Students : <<u, s>> \in signup[Interested]})

Before(s, x) ==
    IF level < Interested
    THEN Cardinality(MeetingTimes[s]) >= Cardinality(MeetingTimes[x])
    ELSE \/ Capacity[x] = 0
         \/ Capacity[s] # 0 /\ Demand(s) * Capacity[x] <= Demand(x) * Capacity[s]

\* A seat is always kept free.
SelectionsTooFew(s) ==
    LET candidates == IF Spaces(s) = 0 \/ CoversLunch(s) THEN {} ELSE Candidates(s, level)
    IN  IF Cardinality(candidates) < Spaces(s) THEN {candidates}
        ELSE kSubset(Spaces(s) - 1, candidates)

\* One student more than there are spaces.
SelectionsTooMany(s) ==
    LET candidates == IF Spaces(s) = 0 \/ CoversLunch(s) THEN {} ELSE Candidates(s, level)
    IN  IF Cardinality(candidates) <= Spaces(s) + 1 THEN {candidates}
        ELSE kSubset(Spaces(s) + 1, candidates)

\* The students selected for s: all candidates where there is room for them,
\* as many as there are spaces otherwise.
Selections(s) ==
    LET candidates == IF Spaces(s) = 0 \/ CoversLunch(s) THEN {} ELSE Candidates(s, level)
    IN  IF Cardinality(candidates) <= Spaces(s) THEN {candidates}
        ELSE kSubset(Spaces(s), candidates)

\* Students enter section s, which occupies its times.
Assign(chosen, s) ==
    /\ student_sections' = student_sections \union (chosen \X {s})
    /\ student_schedules' = student_schedules \union (chosen \X MeetingTimes[s])

\* fill_section, called for one section after the other.
FillSection(s) ==
    /\ level \in Levels
    /\ s \in todo
    /\ \A x \in todo : Before(s, x)
    /\ \E chosen \in Selections(s) : Assign(chosen, s)
    /\ todo' = todo \ {s}
    /\ UNCHANGED <<options, signup, level, days, day, hungry>>

\* The next level begins with all sections; after the last, the lunches.
NextLevel ==
    /\ level \in Levels
    /\ todo = {}
    /\ level' = level + 1
    /\ todo' = IF level = Interested THEN {} ELSE Sections
    /\ UNCHANGED <<options, signup, student_sections, student_schedules, days, day, hungry>>

-----------------------------------------------------------------------------
(* assign_lunches                                                           *)

LunchesAt(t) == {s \in LunchSections : t \in MeetingTimes[s]}
PeriodSize(t) == MapThenSumSet(LAMBDA s : Cardinality(StudentsIn(s)), LunchesAt(t))

\* The student has lunch on the present day.
HasLunch(u) == \E t \in day : LunchesAt(t) \intersect SectionsOf(u) # {}

\* Free periods of the present day.
FreePeriods(u) == {t \in day : <<u, t>> \notin student_schedules}

OpenSections(t) == {s \in LunchesAt(t) : Cardinality(StudentsIn(s)) < Capacity[s]}

\* Only periods that have a lunch section are of use; all students who got a
\* class are gone through.  The days do not interfere, so their order does not
\* matter.
NextDay ==
    /\ level > Interested
    /\ options.assign_lunches /\ LunchSections # {}
    /\ hungry = {}
    /\ \E d \in days :
        /\ days' = days \ {d}
        /\ day' = {t \in d : LunchesAt(t) # {}}
        /\ hungry' = IF day' = {} THEN {} ELSE {u \in Students : SectionsOf(u) # {}}
    /\ UNCHANGED <<options, signup, level, todo, student_sections, student_schedules>>

\* The periods a student can eat in: those when the student is free and a
\* lunch section has room.
LunchOptions(u) == {t \in FreePeriods(u) : OpenSections(t) # {}}

\* The students of the day, a student who finds no lunch being kept in line.
AfterLunchWaiting(u) == IF LunchOptions(u) = {} THEN hungry ELSE hungry \ {u}

\* The students of the day that remain after u.
AfterLunch(u) == hungry \ {u}

\* The students with the fewest free periods come first, at random among
\* equals.  The emptiest period is taken, and the emptiest section in it.
AssignLunch(u) ==
    /\ u \in hungry
    /\ \A v \in hungry : Cardinality(FreePeriods(u)) <= Cardinality(FreePeriods(v))
    /\ \/ /\ HasLunch(u) \/ LunchOptions(u) = {}
          /\ UNCHANGED <<student_sections, student_schedules>>
       \/ /\ ~HasLunch(u)
          /\ \E t \in LunchOptions(u) :
              /\ \A x \in LunchOptions(u) : PeriodSize(t) <= PeriodSize(x)
              /\ \E s \in OpenSections(t) :
                  /\ \A x \in OpenSections(t) :
                         Cardinality(StudentsIn(s)) <= Cardinality(StudentsIn(x))
                  /\ Assign({u}, s)
    /\ hungry' = AfterLunch(u)
    /\ UNCHANGED <<options, signup, level, todo, days, day>>

Finished ==
    /\ level > Interested
    /\ hungry = {}
    /\ days = {} \/ ~options.assign_lunches \/ LunchSections = {}

\* The result is there; nothing more happens.
Stop == Finished /\ UNCHANGED vars

Next ==
    \/ \E s \in Sections : FillSection(s)
    \/ NextLevel
    \/ NextDay
    \/ \E u \in Students : AssignLunch(u)
    \/ Stop

Spec == Init /\ [][Next]_vars /\ WF_vars(Next)

-----------------------------------------------------------------------------
(* Properties.                                                              *)

\* The types of the state.
TypeOK ==
    /\ options \in OptionSets
    /\ signup \in Signups
    /\ level \in 1..(Interested + 1)
    /\ todo \subseteq Sections
    /\ student_sections \subseteq Students \X Sections
    /\ student_schedules \subseteq Students \X Times
    /\ days \subseteq Days
    /\ day \subseteq UNION Days
    /\ hungry \subseteq Students

\* No section has more students than seats ("Check that no sections are
\* overfilled", check_assignments), and no more students than the program has
\* room for get a schedule, after the draws of any number of levels and the
\* lunches.
LimitsKept ==
    /\ TypeOK
    /\ \A s \in Sections : Cardinality(StudentsIn(s)) <= Capacity[s]
    /\ options.program_size_max # 0 => Cardinality(Attending) <= options.program_size_max

\* The occupied timeslots are those of the sections, and no two of them are at
\* the same time ("each student's schedule is consistent with their assigned
\* sections", check_assignments).
IsConsistent(u) ==
    /\ TimesOf(u) = UNION {MeetingTimes[s] : s \in SectionsOf(u)}
    /\ \A s, x \in SectionsOf(u) : s # x => MeetingTimes[s] \intersect MeetingTimes[x] = {}

\* On every day there is a lunch period that no class takes ("1 or more open
\* lunch periods per day", check_assignments).
KeepsLunches(u) ==
    \A d \in Days : \E t \in d : \A s \in SectionsOf(u) : t \in MeetingTimes[s] => s \in LunchSections

\* Every student can follow the schedule that the levels and the lunches,
\* computed one after the other, add up to, and gets no class twice.
SchedulesPossible ==
    \A u \in Students :
        /\ IsConsistent(u)
        /\ KeepsLunches(u)
        /\ \A s, x \in SectionsOf(u) : ParentClass[s] = ParentClass[x] => s = x

\* fill_section has been called for s at level l.
Offered(s, l) == l < level \/ (l = level /\ s \notin todo)

\* s has a seat, and u, who signed up for it at level l, could still take it.
CouldTake(u, s, l) ==
    /\ <<u, s>> \in signup[l] \ student_sections
    /\ Cardinality(StudentsIn(s)) < Capacity[s]
    /\ ~CoversLunch(s)
    /\ Eligible(u, s, l)

\* No seat is wasted: in a program without a size, a student who signed up for
\* a section that still has a seat, and did not get it, could not take it.
NothingWasted ==
    options.program_size_max = 0 =>
        \A l \in Levels, s \in Sections, u \in Students : Offered(s, l) => ~CouldTake(u, s, l)

\* A seat goes to a student of some level only when nobody who asked for the
\* section at a higher priority could take it (in a program without a size).
PriorityRespected ==
    [][options.program_size_max = 0 =>
          \A s \in Sections, u, v \in Students : \A l \in Levels :
              /\ <<u, s>> \in student_sections' \ student_sections
              /\ l < level
              => ~CouldTake(v, s, l)]_vars

\* The periods of the present day are those of some day that have a lunch, and
\* only students with a section are looked at.
LunchOK ==
    /\ day = {} \/ \E d \in Days : day = {t \in d : LunchesAt(t) # {}}
    /\ \A u \in hungry : SectionsOf(u) # {}

\* The inductive invariant.
LotteryInv == LimitsKept /\ SchedulesPossible /\ NothingWasted /\ LunchOK

\* Every run comes to an end.
RunEnds == <>Finished
=============================================================================
