---------------------------- MODULE LotteryProofs ----------------------------
(***************************************************************************)
(* Proofs about Lottery, for any students, sections, lunches, preferences   *)
(* and options: what a run of the lottery computes is a possible schedule   *)
(* for every student, within all limits, and wastes no seat.                *)
(*                                                                          *)
(* None of the invariants is inductive alone.  The program size needs that  *)
(* a student who gets a lunch was attending before, which is LunchOK and    *)
(* the consistency of schedules; an open lunch period needs that a free     *)
(* timeslot is one without a section, which is the consistency again; and   *)
(* a seat is not wasted because a draw that leaves out a candidate fills    *)
(* the section, which needs that no section is overfull.                    *)
(***************************************************************************)
EXTENDS Lottery, FiniteSetTheorems, TLAPS

\* A union has no more elements than its parts together.
LEMMA UnionBound ==
    ASSUME NEW S, NEW T, IsFiniteSet(S), IsFiniteSet(T)
    PROVE  /\ Cardinality(S) \in Nat /\ Cardinality(T) \in Nat
           /\ IsFiniteSet(S \union T) /\ Cardinality(S \union T) \in Nat
           /\ Cardinality(S \union T) <= Cardinality(S) + Cardinality(T)
<1>1. IsFiniteSet(S \union T) /\ IsFiniteSet(S \intersect T)
  BY FS_Union, FS_Intersection
<1>2. Cardinality(S \union T) = Cardinality(S) + Cardinality(T) - Cardinality(S \intersect T)
  BY FS_Union
<1>3. /\ Cardinality(S) \in Nat /\ Cardinality(T) \in Nat
      /\ Cardinality(S \union T) \in Nat /\ Cardinality(S \intersect T) \in Nat
  BY <1>1, FS_CardinalityType
<1> QED BY <1>1, <1>2, <1>3

\* The initial state has no assignments.
LEMMA InitInv == Init => LotteryInv
<1> SUFFICES ASSUME Init PROVE LotteryInv
  OBVIOUS
<1> USE LotteryAssumption DEF Init
<1>1. TypeOK
  BY DEF TypeOK, Interested
<1>2. \A s \in Sections : StudentsIn(s) = {}
  BY DEF StudentsIn
<1>3. Attending = {}
  BY DEF Attending, TimesOf
<1>4. \A u \in Students : SectionsOf(u) = {} /\ TimesOf(u) = {}
  BY DEF SectionsOf, TimesOf
<1>5. LimitsKept
  <2>1. options.program_size_max \in Nat
    BY <1>1 DEF TypeOK, Options
  <2>2. \A s \in Sections : Cardinality(StudentsIn(s)) = 0
    BY <1>2, FS_EmptySet
  <2>3. Cardinality(Attending) = 0
    BY <1>3, FS_EmptySet
  <2>4. \A s \in Sections : 0 <= Capacity[s]
    OBVIOUS
  <2> QED BY <1>1, <2>1, <2>2, <2>3, <2>4 DEF LimitsKept
<1>6. SchedulesPossible
  BY <1>4 DEF SchedulesPossible, IsConsistent, KeepsLunches
<1>7. NothingWasted
  BY DEF NothingWasted, Offered, Levels, Interested
<1>8. LunchOK
  BY DEF LunchOK
<1> QED BY <1>5, <1>6, <1>7, <1>8 DEF LotteryInv

\* The sets of students and sections are finite.
LEMMA Finite ==
    ASSUME TypeOK
    PROVE  /\ \A s \in Sections : IsFiniteSet(StudentsIn(s)) /\ Cardinality(StudentsIn(s)) \in Nat
           /\ \A u \in Students : IsFiniteSet(SectionsOf(u)) /\ Cardinality(SectionsOf(u)) \in Nat
           /\ \A u \in Students : IsFiniteSet(TimesOf(u)) /\ Cardinality(TimesOf(u)) \in Nat
           /\ IsFiniteSet(Attending) /\ Cardinality(Attending) \in Nat
           /\ \A S \in SUBSET Students : IsFiniteSet(S) /\ Cardinality(S) \in Nat
<1> USE LotteryAssumption
<1>1. \A S \in SUBSET Students : IsFiniteSet(S) /\ Cardinality(S) \in Nat
  BY FS_Subset, FS_CardinalityType
<1>2. \A S \in SUBSET Sections : IsFiniteSet(S) /\ Cardinality(S) \in Nat
  BY FS_Subset, FS_CardinalityType
<1>3. \A S \in SUBSET Times : IsFiniteSet(S) /\ Cardinality(S) \in Nat
  BY FS_Subset, FS_CardinalityType
<1>4. /\ \A s \in Sections : StudentsIn(s) \in SUBSET Students
      /\ \A u \in Students : SectionsOf(u) \in SUBSET Sections /\ TimesOf(u) \in SUBSET Times
      /\ Attending \in SUBSET Students
  BY DEF StudentsIn, SectionsOf, TimesOf, Attending
<1> QED BY <1>1, <1>2, <1>3, <1>4

\* What Assign does to each view of the assignments.
LEMMA AssignEffects ==
    ASSUME TypeOK, NEW chosen \in SUBSET Students, NEW s \in Sections, Assign(chosen, s)
    PROVE  /\ student_sections' \subseteq Students \X Sections
           /\ student_schedules' \subseteq Students \X Times
           /\ student_sections \subseteq student_sections'
           /\ student_schedules \subseteq student_schedules'
           /\ \A x \in Sections : StudentsIn(x)' = IF x = s THEN StudentsIn(x) \union chosen ELSE StudentsIn(x)
           /\ \A u \in Students : SectionsOf(u)' = IF u \in chosen THEN SectionsOf(u) \union {s} ELSE SectionsOf(u)
           /\ \A u \in Students : TimesOf(u)' = IF u \in chosen THEN TimesOf(u) \union MeetingTimes[s] ELSE TimesOf(u)
           /\ Attending' = Attending \union chosen
<1> USE LotteryAssumption DEF Assign, TypeOK
<1>1. MeetingTimes[s] \subseteq Times /\ MeetingTimes[s] # {}
  OBVIOUS
<1>2. /\ student_sections' \subseteq Students \X Sections
      /\ student_schedules' \subseteq Students \X Times
      /\ student_sections \subseteq student_sections'
      /\ student_schedules \subseteq student_schedules'
  BY <1>1
<1>3. \A x \in Sections : StudentsIn(x)' = IF x = s THEN StudentsIn(x) \union chosen ELSE StudentsIn(x)
  BY DEF StudentsIn
<1>4. \A u \in Students : SectionsOf(u)' = IF u \in chosen THEN SectionsOf(u) \union {s} ELSE SectionsOf(u)
  BY DEF SectionsOf
<1>5. \A u \in Students : TimesOf(u)' = IF u \in chosen THEN TimesOf(u) \union MeetingTimes[s] ELSE TimesOf(u)
  BY <1>1 DEF TimesOf
<1>6. Attending' = Attending \union chosen
  BY <1>1, <1>5 DEF Attending
<1> QED BY <1>2, <1>3, <1>4, <1>5, <1>6

\* As assignments only grow, who could not take a section never can again.
LEMMA CouldTakeShrinks ==
    ASSUME TypeOK, TypeOK', UNCHANGED <<options, signup>>,
           student_sections \subseteq student_sections',
           student_schedules \subseteq student_schedules',
           NEW s \in Sections, NEW u \in Students, NEW l \in Levels,
           CouldTake(u, s, l)'
    PROVE  CouldTake(u, s, l)
<1> USE LotteryAssumption
<1>1. /\ StudentsIn(s) \subseteq StudentsIn(s)'
      /\ SectionsOf(u) \subseteq SectionsOf(u)'
      /\ TimesOf(u) \subseteq TimesOf(u)'
  BY DEF StudentsIn, SectionsOf, TimesOf
<1>2. /\ IsFiniteSet(StudentsIn(s)') /\ IsFiniteSet(SectionsOf(u)') /\ IsFiniteSet(TimesOf(u)')
      /\ Cardinality(StudentsIn(s)) \in Nat /\ Cardinality(StudentsIn(s)') \in Nat
      /\ Cardinality(SectionsOf(u)) \in Nat /\ Cardinality(SectionsOf(u)') \in Nat
      /\ Cardinality(TimesOf(u)) \in Nat /\ Cardinality(TimesOf(u)') \in Nat
  <2>1. /\ StudentsIn(s) \in SUBSET Students /\ StudentsIn(s)' \in SUBSET Students
        /\ SectionsOf(u) \in SUBSET Sections /\ SectionsOf(u)' \in SUBSET Sections
        /\ TimesOf(u) \in SUBSET Times /\ TimesOf(u)' \in SUBSET Times
    BY DEF StudentsIn, SectionsOf, TimesOf
  <2> QED BY <2>1, FS_Subset, FS_CardinalityType
<1>3. /\ Cardinality(StudentsIn(s)) <= Cardinality(StudentsIn(s)')
      /\ Cardinality(SectionsOf(u)) <= Cardinality(SectionsOf(u)')
      /\ Cardinality(TimesOf(u)) <= Cardinality(TimesOf(u)')
  BY <1>1, <1>2, FS_Subset
<1>4. Cardinality(StudentsIn(s)) < Capacity[s]
  BY <1>2, <1>3 DEF CouldTake
<1>5. options \in Options
  BY DEF TypeOK
<1>6. WithinLimits(u)
  BY <1>2, <1>3, <1>5 DEF CouldTake, Eligible, WithinLimits, Options
<1>7. GradeFits(u, s, l) /\ IsFree(u, s) /\ NotInClass(u, s) /\ KeepsLunch(u, s)
  BY DEF CouldTake, Eligible, GradeFits, IsFree, NotInClass, KeepsLunch
<1> QED BY <1>4, <1>6, <1>7 DEF CouldTake, Eligible

-----------------------------------------------------------------------------
(* fill_section.                                                            *)

\* Whom a draw may select.
LEMMA Drawn ==
    ASSUME LotteryInv, NEW s \in Sections, NEW chosen \in Selections(s)
    PROVE  /\ chosen \subseteq Candidates(s, level)
           /\ chosen \in SUBSET Students
           /\ Spaces(s) \in Nat
           /\ Cardinality(chosen) <= Spaces(s)
           /\ CoversLunch(s) => chosen = {}
           /\ chosen = Candidates(s, level) \/ Cardinality(chosen) = Spaces(s) \/ CoversLunch(s)
<1> DEFINE candidates == IF Spaces(s) = 0 \/ CoversLunch(s) THEN {} ELSE Candidates(s, level)
<1>1. TypeOK /\ LimitsKept
  BY DEF LotteryInv, LimitsKept
<1>2. Candidates(s, level) \in SUBSET Students
  BY DEF Candidates
<1>3. Spaces(s) \in Nat
  <2>1. options.program_size_max \in Nat
    BY <1>1, LotteryAssumption DEF TypeOK, Options
  <2>2. Capacity[s] \in Nat
    BY LotteryAssumption
  <2>3. Cardinality(StudentsIn(s)) \in Nat /\ Cardinality(Attending) \in Nat
    BY <1>1, Finite
  <2> QED BY <1>1, <2>1, <2>2, <2>3 DEF Spaces, LimitsKept
<1>4. candidates \in SUBSET Students /\ IsFiniteSet(candidates) /\ Cardinality(candidates) \in Nat
  BY <1>1, <1>2, Finite
<1>5. \/ chosen = candidates /\ Cardinality(chosen) <= Spaces(s)
      \/ chosen \subseteq candidates /\ Cardinality(chosen) = Spaces(s)
  BY <1>3, <1>4 DEF Selections, kSubset
<1>6. CASE Spaces(s) = 0
  BY <1>2, <1>3, <1>5, <1>6, FS_EmptySet
<1>7. CASE CoversLunch(s)
  BY <1>2, <1>3, <1>5, <1>7
<1>8. CASE ~(Spaces(s) = 0 \/ CoversLunch(s))
  BY <1>2, <1>3, <1>5, <1>8
<1> QED BY <1>6, <1>7, <1>8

\* What every action does to the assignments, given the section s and the
\* students who enter it.
LEMMA FillTypes ==
    ASSUME LotteryInv, NEW s \in Sections, s \in todo,
           NEW chosen \in SUBSET Students, Assign(chosen, s),
           todo' = todo \ {s}, UNCHANGED <<options, signup, level, days, day, hungry>>
    PROVE  TypeOK'
<1>1. TypeOK
  BY DEF LotteryInv, LimitsKept
<1> QED BY <1>1, AssignEffects DEF TypeOK

\* Nobody is drawn beyond the seats of the section or the size of the program.
LEMMA FillLimits ==
    ASSUME LotteryInv, NEW s \in Sections, NEW chosen \in Selections(s),
           Assign(chosen, s), TypeOK', UNCHANGED options
    PROVE  LimitsKept'
<1>1. TypeOK /\ LimitsKept
  BY DEF LotteryInv, LimitsKept
<1>2. chosen \in SUBSET Students /\ Cardinality(chosen) <= Spaces(s) /\ Spaces(s) \in Nat
  BY Drawn
<1>3. IsFiniteSet(chosen) /\ Cardinality(chosen) \in Nat
  BY <1>1, <1>2, Finite
<1>4. options.program_size_max \in Nat /\ Capacity[s] \in Nat
  BY <1>1, LotteryAssumption DEF TypeOK, Options
<1>5. /\ IsFiniteSet(StudentsIn(s)) /\ Cardinality(StudentsIn(s)) \in Nat
      /\ IsFiniteSet(Attending) /\ Cardinality(Attending) \in Nat
  BY <1>1, Finite
<1>6. /\ Cardinality(StudentsIn(s) \union chosen) \in Nat
      /\ Cardinality(StudentsIn(s) \union chosen) <= Cardinality(StudentsIn(s)) + Cardinality(chosen)
  BY <1>3, <1>5, UnionBound
<1>7. /\ Cardinality(Attending \union chosen) \in Nat
      /\ Cardinality(Attending \union chosen) <= Cardinality(Attending) + Cardinality(chosen)
  BY <1>3, <1>5, UnionBound
<1>8. Cardinality(StudentsIn(s) \union chosen) <= Capacity[s]
  BY <1>2, <1>3, <1>4, <1>5, <1>6 DEF Spaces
<1>9. options.program_size_max # 0 => Cardinality(Attending \union chosen) <= options.program_size_max
  BY <1>2, <1>3, <1>4, <1>5, <1>7 DEF Spaces
<1>10. \A x \in Sections : StudentsIn(x)' = IF x = s THEN StudentsIn(x) \union chosen ELSE StudentsIn(x)
  BY <1>1, <1>2, AssignEffects
<1>11. Attending' = Attending \union chosen
  BY <1>1, <1>2, AssignEffects
<1> QED BY <1>1, <1>8, <1>9, <1>10, <1>11 DEF LimitsKept

\* Whoever enters a section that he or she is eligible for, and that does not
\* take all of lunch, still has a possible schedule.
LEMMA FillSchedules ==
    ASSUME LotteryInv, NEW s \in Sections, NEW chosen \in SUBSET Students,
           Assign(chosen, s), chosen # {} => ~CoversLunch(s),
           \A u \in chosen : IsFree(u, s) /\ NotInClass(u, s) /\ KeepsLunch(u, s)
    PROVE  SchedulesPossible'
<1> SUFFICES ASSUME NEW u \in Students
             PROVE  /\ IsConsistent(u)' /\ KeepsLunches(u)'
                    /\ \A y, x \in SectionsOf(u)' : ParentClass[y] = ParentClass[x] => y = x
  BY DEF SchedulesPossible
<1>1. TypeOK /\ IsConsistent(u) /\ KeepsLunches(u)
      /\ \A y, x \in SectionsOf(u) : ParentClass[y] = ParentClass[x] => y = x
  BY DEF LotteryInv, LimitsKept, SchedulesPossible
<1>2. /\ SectionsOf(u)' = IF u \in chosen THEN SectionsOf(u) \union {s} ELSE SectionsOf(u)
      /\ TimesOf(u)' = IF u \in chosen THEN TimesOf(u) \union MeetingTimes[s] ELSE TimesOf(u)
  BY <1>1, AssignEffects
<1>3. CASE u \notin chosen
  BY <1>1, <1>2, <1>3 DEF IsConsistent, KeepsLunches
<1>4. CASE u \in chosen
  <2>1. SectionsOf(u)' = SectionsOf(u) \union {s} /\ TimesOf(u)' = TimesOf(u) \union MeetingTimes[s]
    BY <1>2, <1>4
  <2>2. MeetingTimes[s] \subseteq Times /\ \A t \in MeetingTimes[s] : t \notin TimesOf(u)
    BY <1>4, LotteryAssumption DEF IsFree, TimesOf
  <2>3. \A x \in SectionsOf(u) : MeetingTimes[x] \subseteq TimesOf(u)
    BY <1>1 DEF IsConsistent
  <2>4. IsConsistent(u)'
    <3>1. TimesOf(u)' = UNION {MeetingTimes[x] : x \in SectionsOf(u)'}
      BY <1>1, <2>1 DEF IsConsistent
    <3>2. ASSUME NEW y \in SectionsOf(u)', NEW x \in SectionsOf(u)', y # x
          PROVE  MeetingTimes[y] \intersect MeetingTimes[x] = {}
      BY <1>1, <2>1, <2>2, <2>3, <3>2 DEF IsConsistent
    <3> QED BY <3>1, <3>2 DEF IsConsistent
  <2>5. KeepsLunches(u)'
    <3> SUFFICES ASSUME NEW d \in Days
                 PROVE  \E t \in d : \A x \in SectionsOf(u)' : t \in MeetingTimes[x] => x \in LunchSections
      BY DEF KeepsLunches
    <3>1. CASE d \intersect MeetingTimes[s] = {}
      BY <1>1, <2>1, <3>1 DEF KeepsLunches
    <3>2. CASE d \intersect MeetingTimes[s] # {}
      <4>1. PICK t \in d : t \in MeetingTimes[s]
        BY <3>2
      <4>2. PICK e \in d : e \notin MeetingTimes[s]
        BY <1>4 DEF CoversLunch
      <4>3. e \in Times /\ e \notin TimesOf(u)
        BY <1>4, <4>1, <4>2, LotteryAssumption DEF KeepsLunch, TimesOf
      <4>4. \A x \in SectionsOf(u)' : e \notin MeetingTimes[x]
        BY <2>1, <2>3, <4>2, <4>3
      <4> QED BY <4>4
    <3> QED BY <3>1, <3>2
  <2>6. \A x \in SectionsOf(u) : ParentClass[x] # ParentClass[s]
    BY <1>4 DEF NotInClass, SectionsOf
  <2>7. \A y, x \in SectionsOf(u)' : ParentClass[y] = ParentClass[x] => y = x
    BY <1>1, <2>1, <2>6
  <2> QED BY <2>4, <2>5, <2>7
<1> QED BY <1>3, <1>4

\* A candidate who is not drawn finds the section full.
LEMMA FillWastesNothing ==
    ASSUME LotteryInv, NEW s \in Sections, s \in todo, level \in Levels,
           NEW chosen \in Selections(s), Assign(chosen, s), TypeOK',
           todo' = todo \ {s}, UNCHANGED <<options, signup, level>>
    PROVE  NothingWasted'
<1>1. TypeOK /\ LimitsKept
  BY DEF LotteryInv, LimitsKept
<1> SUFFICES ASSUME options.program_size_max = 0,
                    NEW l \in Levels, NEW x \in Sections, NEW u \in Students,
                    Offered(x, l)', CouldTake(u, x, l)'
             PROVE  FALSE
  BY DEF NothingWasted
<1>2. /\ chosen \in SUBSET Students
      /\ chosen \subseteq Candidates(s, level)
      /\ Spaces(s) \in Nat /\ Cardinality(chosen) <= Spaces(s)
      /\ chosen = Candidates(s, level) \/ Cardinality(chosen) = Spaces(s) \/ CoversLunch(s)
  BY Drawn
<1>3. CouldTake(u, x, l)
  BY <1>1, <1>2, AssignEffects, CouldTakeShrinks
<1>4. ~Offered(x, l)
  BY <1>3 DEF LotteryInv, NothingWasted
<1>5. x = s /\ l = level
  BY <1>4 DEF Offered
<1>6. u \in Candidates(s, level)
  BY <1>3, <1>5 DEF Candidates, CouldTake
<1>7. u \notin chosen
  BY <1>1, <1>2, <1>5, AssignEffects DEF CouldTake, Assign
<1>8. Cardinality(chosen) = Spaces(s)
  BY <1>2, <1>3, <1>5, <1>6, <1>7 DEF CouldTake
<1>9. StudentsIn(s)' = StudentsIn(s) \union chosen
  BY <1>1, <1>2, AssignEffects
<1>10. StudentsIn(s) \intersect chosen = {}
  BY <1>2 DEF StudentsIn, Candidates, Eligible, NotInClass
<1>11. Cardinality(StudentsIn(s)') = Capacity[s]
  <2>1. IsFiniteSet(StudentsIn(s)) /\ Cardinality(StudentsIn(s)) \in Nat
        /\ IsFiniteSet(chosen) /\ Cardinality(chosen) \in Nat
    BY <1>1, <1>2, Finite
  <2>2. Cardinality(StudentsIn(s) \union chosen) = Cardinality(StudentsIn(s)) + Cardinality(chosen)
    BY <1>10, <2>1, FS_Union, FS_EmptySet
  <2>3. Spaces(s) = Capacity[s] - Cardinality(StudentsIn(s)) /\ Capacity[s] \in Nat
    BY LotteryAssumption DEF Spaces
  <2> QED BY <1>8, <1>9, <2>1, <2>2, <2>3
<1>12. Cardinality(StudentsIn(s)') < Capacity[s]
  BY <1>5 DEF CouldTake
<1>13. Capacity[s] \in Nat
  BY LotteryAssumption
<1> QED BY <1>11, <1>12, <1>13

LEMMA FillSectionInv ==
    ASSUME LotteryInv, NEW s \in Sections, FillSection(s)
    PROVE  LotteryInv'
<1>1. PICK chosen \in Selections(s) : Assign(chosen, s)
  BY DEF FillSection
<1>2. /\ chosen \in SUBSET Students
      /\ chosen \subseteq Candidates(s, level)
      /\ CoversLunch(s) => chosen = {}
  BY Drawn
<1>3. /\ s \in todo /\ level \in Levels
      /\ todo' = todo \ {s} /\ UNCHANGED <<options, signup, level, days, day, hungry>>
  BY DEF FillSection
<1>4. TypeOK'
  BY <1>1, <1>2, <1>3, FillTypes
<1>5. LimitsKept'
  BY <1>1, <1>3, <1>4, FillLimits
<1>6. SchedulesPossible'
  <2>1. \A u \in chosen : IsFree(u, s) /\ NotInClass(u, s) /\ KeepsLunch(u, s)
    BY <1>2 DEF Candidates, Eligible
  <2> QED BY <1>1, <1>2, <2>1, FillSchedules
<1>7. NothingWasted'
  BY <1>1, <1>3, <1>4, FillWastesNothing
<1>8. LunchOK'
  <2>1. TypeOK /\ LunchOK
    BY DEF LotteryInv, LimitsKept
  <2>2. \A u \in Students : SectionsOf(u) \subseteq SectionsOf(u)'
    <3>1. \A u \in Students : SectionsOf(u)' = IF u \in chosen THEN SectionsOf(u) \union {s} ELSE SectionsOf(u)
      BY <1>1, <1>2, <2>1, AssignEffects
    <3> QED BY <3>1
  <2> QED BY <1>3, <2>1, <2>2 DEF LunchOK, TypeOK, LunchesAt
<1> QED BY <1>5, <1>6, <1>7, <1>8 DEF LotteryInv

-----------------------------------------------------------------------------
(* assign_lunches, and the steps that change no assignment.                 *)

\* The state functions of the invariant depend on the assignments only.
LEMMA SameAssignments ==
    ASSUME LotteryInv, TypeOK',
           UNCHANGED <<options, signup, student_sections, student_schedules>>
    PROVE  /\ LimitsKept' /\ SchedulesPossible'
           /\ \A u \in Students : SectionsOf(u)' = SectionsOf(u)
           /\ \A l \in Levels, s \in Sections, u \in Students : CouldTake(u, s, l)' = CouldTake(u, s, l)
<1>1. /\ \A s \in Sections : StudentsIn(s)' = StudentsIn(s)
      /\ \A u \in Students : SectionsOf(u)' = SectionsOf(u) /\ TimesOf(u)' = TimesOf(u)
      /\ Attending' = Attending
  BY DEF StudentsIn, SectionsOf, TimesOf, Attending
<1>2. LimitsKept'
  BY <1>1 DEF LotteryInv, LimitsKept
<1>3. SchedulesPossible'
  BY <1>1 DEF LotteryInv, SchedulesPossible, IsConsistent, KeepsLunches
<1>4. \A l \in Levels, s \in Sections, u \in Students : CouldTake(u, s, l)' = CouldTake(u, s, l)
  BY <1>1 DEF CouldTake, Eligible, GradeFits, WithinLimits, IsFree, NotInClass, KeepsLunch
<1> QED BY <1>1, <1>2, <1>3, <1>4

LEMMA NextLevelInv ==
    ASSUME LotteryInv, NextLevel
    PROVE  LotteryInv'
<1>1. TypeOK
  BY DEF LotteryInv, LimitsKept
<1>2. TypeOK'
  BY <1>1, LotteryAssumption DEF TypeOK, NextLevel, Levels, Interested
<1>3. LimitsKept' /\ SchedulesPossible'
  BY <1>2, SameAssignments DEF NextLevel
<1>4. NothingWasted'
  <2> SUFFICES ASSUME options.program_size_max = 0,
                      NEW l \in Levels, NEW s \in Sections, NEW u \in Students, Offered(s, l)'
               PROVE  ~CouldTake(u, s, l)'
    BY DEF NothingWasted, NextLevel
  <2>1. Offered(s, l)
    BY <1>1, LotteryAssumption DEF Offered, NextLevel, TypeOK, Levels, Interested
  <2>2. CouldTake(u, s, l)' = CouldTake(u, s, l)
    BY <1>2, SameAssignments DEF NextLevel
  <2> QED BY <2>1, <2>2 DEF LotteryInv, NothingWasted
<1>5. LunchOK'
  BY <1>1 DEF LotteryInv, LunchOK, NextLevel, LunchesAt, SectionsOf, TypeOK
<1> QED BY <1>3, <1>4, <1>5 DEF LotteryInv

\* Steps of assign_lunches leave what was offered as it is.
LEMMA NothingWastedLater ==
    ASSUME LotteryInv, TypeOK', UNCHANGED <<options, signup, level, todo>>,
           student_sections \subseteq student_sections',
           student_schedules \subseteq student_schedules'
    PROVE  NothingWasted'
<1>1. TypeOK /\ NothingWasted
  BY DEF LotteryInv, LimitsKept
<1> SUFFICES ASSUME options.program_size_max = 0,
                    NEW l \in Levels, NEW s \in Sections, NEW u \in Students,
                    Offered(s, l), CouldTake(u, s, l)'
             PROVE  FALSE
  BY DEF NothingWasted, Offered
<1>2. CouldTake(u, s, l)
  BY <1>1, CouldTakeShrinks
<1> QED BY <1>1, <1>2 DEF NothingWasted

LEMMA NextDayInv ==
    ASSUME LotteryInv, NextDay
    PROVE  LotteryInv'
<1>1. TypeOK
  BY DEF LotteryInv, LimitsKept
<1>2. TypeOK'
  BY <1>1, LotteryAssumption DEF TypeOK, NextDay
<1>3. LimitsKept' /\ SchedulesPossible'
  BY <1>2, SameAssignments DEF NextDay
<1>4. NothingWasted'
  BY <1>2, NothingWastedLater DEF NextDay
<1>5. LunchOK'
  BY <1>1 DEF LunchOK, NextDay, LunchesAt, SectionsOf, TypeOK
<1> QED BY <1>3, <1>4, <1>5 DEF LotteryInv

\* What is known of a lunch section s that u gets for period t.
LEMMA LunchFits ==
    ASSUME LotteryInv, NEW u \in hungry, ~HasLunch(u),
           NEW t \in LunchOptions(u), NEW s \in OpenSections(t)
    PROVE  /\ u \in Attending
           /\ s \in LunchSections /\ s \in Sections /\ MeetingTimes[s] = {t}
           /\ t \notin TimesOf(u)
           /\ \A x \in SectionsOf(u) : ParentClass[x] # ParentClass[s]
           /\ Cardinality(StudentsIn(s)) < Capacity[s]
<1>1. TypeOK /\ LunchOK /\ IsConsistent(u) /\ u \in Students
  BY DEF LotteryInv, LimitsKept, SchedulesPossible, TypeOK
<1>2. t \in day /\ t \notin TimesOf(u)
  BY DEF LunchOptions, FreePeriods, TimesOf
<1>3. s \in LunchSections /\ t \in MeetingTimes[s] /\ Cardinality(StudentsIn(s)) < Capacity[s]
  BY DEF OpenSections, LunchesAt
<1>4. s \in Sections
  BY <1>3, LotteryAssumption
<1>5. PICK d \in Days : \E e \in d :
          /\ MeetingTimes[s] = {e}
          /\ \A x \in Sections : ParentClass[x] = ParentClass[s] =>
                 x \in LunchSections /\ MeetingTimes[x] \subseteq d
  BY <1>3, LotteryAssumption
<1>6. MeetingTimes[s] = {t} /\ t \in d
  BY <1>3, <1>5
<1>7. day = {e \in d : LunchesAt(e) # {}}
  <2>1. PICK c \in Days : day = {e \in c : LunchesAt(e) # {}}
    BY <1>1, <1>2 DEF LunchOK
  <2>2. c = d
    BY <1>2, <1>6, <2>1, LotteryAssumption
  <2> QED BY <2>1, <2>2
<1>8. ASSUME NEW x \in SectionsOf(u), ParentClass[x] = ParentClass[s]
      PROVE  FALSE
  <2>1. x \in Sections /\ x \in LunchSections /\ MeetingTimes[x] \subseteq d
    BY <1>5, <1>8 DEF SectionsOf
  <2>2. PICK e \in MeetingTimes[x] : e \in d
    BY <2>1, LotteryAssumption
  <2>3. e \in day /\ x \in LunchesAt(e)
    BY <1>7, <2>1, <2>2 DEF LunchesAt
  <2> QED BY <1>8, <2>3 DEF HasLunch
<1>9. u \in Attending
  <2>1. PICK x \in SectionsOf(u) : TRUE
    BY <1>1 DEF LunchOK
  <2>2. MeetingTimes[x] # {} /\ MeetingTimes[x] \subseteq TimesOf(u)
    BY <1>1, LotteryAssumption DEF IsConsistent, SectionsOf
  <2> QED BY <1>1, <2>2 DEF Attending
<1> QED BY <1>2, <1>3, <1>4, <1>6, <1>8, <1>9

\* A student who gets a lunch keeps a possible schedule: the lunch is at a free
\* time, and there is only one of a day.
LEMMA LunchSchedules ==
    ASSUME LotteryInv, NEW u \in Students, NEW s \in Sections, NEW t,
           s \in LunchSections, MeetingTimes[s] = {t}, t \notin TimesOf(u),
           \A x \in SectionsOf(u) : ParentClass[x] # ParentClass[s],
           Assign({u}, s)
    PROVE  SchedulesPossible'
<1> SUFFICES ASSUME NEW v \in Students
             PROVE  /\ IsConsistent(v)' /\ KeepsLunches(v)'
                    /\ \A y, x \in SectionsOf(v)' : ParentClass[y] = ParentClass[x] => y = x
  BY DEF SchedulesPossible
<1>1. TypeOK /\ IsConsistent(v) /\ KeepsLunches(v)
      /\ \A y, x \in SectionsOf(v) : ParentClass[y] = ParentClass[x] => y = x
  BY DEF LotteryInv, LimitsKept, SchedulesPossible
<1>2. /\ SectionsOf(v)' = IF v \in {u} THEN SectionsOf(v) \union {s} ELSE SectionsOf(v)
      /\ TimesOf(v)' = IF v \in {u} THEN TimesOf(v) \union MeetingTimes[s] ELSE TimesOf(v)
  BY <1>1, AssignEffects
<1>3. CASE v # u
  BY <1>1, <1>2, <1>3 DEF IsConsistent, KeepsLunches
<1>4. CASE v = u
  <2>1. SectionsOf(v)' = SectionsOf(v) \union {s} /\ TimesOf(v)' = TimesOf(v) \union {t}
    BY <1>2, <1>4
  <2>2. \A x \in SectionsOf(v) : t \notin MeetingTimes[x]
    BY <1>1, <1>4 DEF IsConsistent
  <2>3. IsConsistent(v)'
    <3>1. TimesOf(v)' = UNION {MeetingTimes[x] : x \in SectionsOf(v)'}
      BY <1>1, <2>1 DEF IsConsistent
    <3>2. ASSUME NEW y \in SectionsOf(v)', NEW x \in SectionsOf(v)', y # x
          PROVE  MeetingTimes[y] \intersect MeetingTimes[x] = {}
      BY <1>1, <2>1, <2>2, <3>2 DEF IsConsistent
    <3> QED BY <3>1, <3>2 DEF IsConsistent
  <2>4. KeepsLunches(v)'
    BY <1>1, <2>1 DEF KeepsLunches
  <2>5. \A y, x \in SectionsOf(v)' : ParentClass[y] = ParentClass[x] => y = x
    BY <1>1, <1>4, <2>1
  <2> QED BY <2>3, <2>4, <2>5
<1> QED BY <1>3, <1>4

\* A lunch section with a seat has room for one more, and the program had the
\* student already.
LEMMA LunchLimits ==
    ASSUME LotteryInv, NEW u \in Attending, NEW s \in Sections,
           Cardinality(StudentsIn(s)) < Capacity[s],
           Assign({u}, s), TypeOK', UNCHANGED options
    PROVE  LimitsKept'
<1>1. TypeOK /\ LimitsKept /\ u \in Students
  BY DEF LotteryInv, LimitsKept, Attending
<1>2. /\ \A x \in Sections : StudentsIn(x)' = IF x = s THEN StudentsIn(x) \union {u} ELSE StudentsIn(x)
      /\ Attending' = Attending \union {u}
  BY <1>1, AssignEffects
<1>3. Attending' = Attending
  BY <1>2
<1>4. IsFiniteSet(StudentsIn(s)) /\ Cardinality(StudentsIn(s)) \in Nat /\ Capacity[s] \in Nat
  BY <1>1, Finite, LotteryAssumption
<1>5. Cardinality(StudentsIn(s) \union {u}) <= Capacity[s]
  <2>1. Cardinality(StudentsIn(s) \union {u}) \in {Cardinality(StudentsIn(s)), Cardinality(StudentsIn(s)) + 1}
    BY <1>4, FS_AddElement
  <2> QED BY <1>4, <2>1
<1> QED BY <1>1, <1>2, <1>3, <1>5 DEF LimitsKept

LEMMA AssignLunchInv ==
    ASSUME LotteryInv, NEW u \in Students, AssignLunch(u)
    PROVE  LotteryInv'
<1>1. TypeOK /\ LunchOK
  BY DEF LotteryInv, LimitsKept
<1>2. /\ u \in hungry /\ hungry' = hungry \ {u}
      /\ UNCHANGED <<options, signup, level, todo, days, day>>
  BY DEF AssignLunch, AfterLunch
<1>3. CASE UNCHANGED <<student_sections, student_schedules>>
  <2>1. TypeOK'
    BY <1>1, <1>2, <1>3 DEF TypeOK
  <2>2. LimitsKept' /\ SchedulesPossible'
    BY <1>2, <1>3, <2>1, SameAssignments
  <2>3. NothingWasted'
    BY <1>2, <1>3, <2>1, NothingWastedLater
  <2>4. LunchOK'
    BY <1>1, <1>2, <1>3 DEF LunchOK, LunchesAt, SectionsOf
  <2> QED BY <2>2, <2>3, <2>4 DEF LotteryInv
<1>4. CASE ~UNCHANGED <<student_sections, student_schedules>>
  <2>1. ~HasLunch(u)
    BY <1>4 DEF AssignLunch
  <2>2. PICK t \in LunchOptions(u) : \E s \in OpenSections(t) : Assign({u}, s)
    BY <1>4 DEF AssignLunch
  <2>3. PICK s \in OpenSections(t) : Assign({u}, s)
    BY <2>2
  <2>4. /\ u \in Attending
        /\ s \in LunchSections /\ s \in Sections /\ MeetingTimes[s] = {t}
        /\ t \notin TimesOf(u)
        /\ \A x \in SectionsOf(u) : ParentClass[x] # ParentClass[s]
        /\ Cardinality(StudentsIn(s)) < Capacity[s]
    BY <1>2, <2>1, LunchFits
  <2>5. /\ student_sections' \subseteq Students \X Sections
        /\ student_schedules' \subseteq Students \X Times
        /\ student_sections \subseteq student_sections'
        /\ student_schedules \subseteq student_schedules'
        /\ \A v \in Students : SectionsOf(v)' = IF v \in {u} THEN SectionsOf(v) \union {s} ELSE SectionsOf(v)
    BY <1>1, <2>3, <2>4, AssignEffects
  <2>6. TypeOK'
    BY <1>1, <1>2, <2>5 DEF TypeOK
  <2>7. LimitsKept'
    BY <1>2, <2>3, <2>4, <2>6, LunchLimits
  <2>8. SchedulesPossible'
    BY <2>3, <2>4, LunchSchedules
  <2>9. NothingWasted'
    BY <1>2, <2>5, <2>6, NothingWastedLater
  <2>10. LunchOK'
    BY <1>1, <1>2, <2>5 DEF LunchOK, LunchesAt, TypeOK
  <2> QED BY <2>7, <2>8, <2>9, <2>10 DEF LotteryInv
<1> QED BY <1>3, <1>4

-----------------------------------------------------------------------------
(* The theorems.                                                            *)

\* Every step keeps the invariant.
LEMMA NextInv == LotteryInv /\ [Next]_vars => LotteryInv'
<1> SUFFICES ASSUME LotteryInv, [Next]_vars PROVE LotteryInv'
  OBVIOUS
<1>1. CASE \E s \in Sections : FillSection(s)
  BY <1>1, FillSectionInv
<1>2. CASE NextLevel
  BY <1>2, NextLevelInv
<1>3. CASE NextDay
  BY <1>3, NextDayInv
<1>4. CASE \E u \in Students : AssignLunch(u)
  BY <1>4, AssignLunchInv
<1>5. CASE UNCHANGED vars
  <2>1. TypeOK'
    BY <1>5 DEF vars, LotteryInv, LimitsKept, TypeOK
  <2>2. LimitsKept' /\ SchedulesPossible'
    BY <1>5, <2>1, SameAssignments DEF vars
  <2>3. NothingWasted'
    BY <1>5, <2>1, NothingWastedLater DEF vars
  <2>4. LunchOK'
    BY <1>5 DEF vars, LotteryInv, LunchOK, LunchesAt, SectionsOf
  <2> QED BY <2>2, <2>3, <2>4 DEF LotteryInv
<1> QED BY <1>1, <1>2, <1>3, <1>4, <1>5 DEF Next, Stop

\* LotteryInv holds in every reachable state.
THEOREM LotteryInvariant == Spec => []LotteryInv
<1> QED BY InitInv, NextInv, PTL DEF Spec

\* Whatever is drawn, no section gets more students than it has seats and the
\* program no more than its size: the capacity arithmetic of fill_section and
\* assign_lunches.
THEOREM LotteryKeepsLimits == Spec => []LimitsKept
<1>1. LotteryInv => LimitsKept
  BY DEF LotteryInv
<1> QED BY <1>1, LotteryInvariant, PTL

\* The levels and lunches of compute_assignments add up to a schedule that
\* every student can follow, with a lunch period left open on every day.
THEOREM LotterySchedulesPossible == Spec => []SchedulesPossible
<1>1. LotteryInv => SchedulesPossible
  BY DEF LotteryInv
<1> QED BY <1>1, LotteryInvariant, PTL

\* After fill_section no student who asked for the section, and did not get it,
\* could take a seat that is left.
THEOREM LotteryWastesNothing == Spec => []NothingWasted
<1>1. LotteryInv => NothingWasted
  BY DEF LotteryInv
<1> QED BY <1>1, LotteryInvariant, PTL

\* No seat goes to a level as long as somebody of a higher priority could take
\* it: the levels of compute_assignments are in order.
THEOREM LotteryRespectsPriority == Spec => PriorityRespected
<1> DEFINE Respected ==
        options.program_size_max = 0 =>
          \A s \in Sections, u, v \in Students : \A l \in Levels :
              /\ <<u, s>> \in student_sections' \ student_sections
              /\ l < level
              => ~CouldTake(v, s, l)
<1>1. LotteryInv /\ [Next]_vars => Respected
  BY DEF LotteryInv, NothingWasted, Offered
<1> QED BY <1>1, LotteryInvariant, PTL DEF Spec, PriorityRespected
=============================================================================
