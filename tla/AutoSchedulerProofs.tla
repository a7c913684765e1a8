------------------------ MODULE AutoSchedulerProofs ------------------------
(***************************************************************************)
(* Proofs about AutoScheduler, for any roomslots, sections, teachers, scores *)
(* and depth.  First the checks of the single actions, which look at one    *)
(* section, are as strict as the check of the whole schedule, and an undo   *)
(* gives back what was there before an action.  Then the search: its        *)
(* invariant IInv says that the history leads from the loaded schedule to   *)
(* the present one through valid schedules only, and that whoever undoes    *)
(* what a call has proposed leaves no more actions than there were when the *)
(* call began.                                                              *)
(***************************************************************************)
EXTENDS AutoScheduler, FiniteSetTheorems, WellFoundedInduction, TLAPS

Schedules == [Sections -> SUBSET Range(Slots)]

\* A roomslot is a room with a timeslot, and timeslots are numbered.
LEMMA Roomslots ==
    \A q \in Range(Slots) : q[1] \in Rooms /\ q[2] \in DOMAIN Start /\ q[2] \in Int /\ q = <<q[1], q[2]>>
<1>1. \A q \in Range(Slots) : q \in Rooms \X DOMAIN Start
  BY SchedulerAssumption DEF Range
<1>2. DOMAIN Start \subseteq Int
  BY SchedulerAssumption
<1> QED BY <1>1, <1>2

\* What a section asks for itself, and what two sections ask of each other:
\* the check of the schedule, section by section.
Alone(s, slots) ==
    slots # {} => /\ Cardinality({r[1] : r \in slots}) = 1
                  /\ ContiguousTimes(TimesOf(slots))
                  /\ RightLength(s, TimesOf(slots))
                  /\ \A t \in TaughtBy[s] : TimesOf(slots) \subseteq Available(t)

Apart(s, x, S, X) ==
    /\ S \intersect X = {}
    /\ TaughtBy[s] \intersect TaughtBy[x] # {} => TimesOf(S) \intersect TimesOf(X) = {}

LEMMA ValidIsPairwise ==
    ASSUME NEW a
    PROVE  Valid(a) <=> /\ \A s \in Sections : Alone(s, a[s])
                        /\ \A s, x \in Sections : s # x => Apart(s, x, a[s], a[x])
BY DEF Valid, CheckSchedule, NoDoubleBooking, Alone, Apart, IsScheduled

\* An empty section has no times.
LEMMA NoTimes == TimesOf({}) = {}
BY DEF TimesOf

\* What the teachers of s do beside s, they do in other sections.
LEMMA TeachersFreeFacts ==
    ASSUME NEW a, Valid(a), NEW s \in Sections, NEW x \in Sections, s # x, NEW T,
           TeachersFree(a, s, T), TaughtBy[s] \intersect TaughtBy[x] # {}
    PROVE  T \intersect TimesOf(a[x]) = {}
<1>1. PICK t \in TaughtBy[s] : t \in TaughtBy[x]
  OBVIOUS
<1>2. TimesOf(a[x]) \subseteq Teaching(a, t)
  BY <1>1 DEF Teaching
<1>3. TimesOf(a[s]) \intersect TimesOf(a[x]) = {}
  BY ValidIsPairwise DEF Apart
<1> QED BY <1>1, <1>2, <1>3 DEF TeachersFree

\* A section that is put where its own constraints and its teachers let it be.
LEMMA PlacedApart ==
    ASSUME NEW a \in Schedules, Valid(a), NEW s \in Sections, NEW S,
           Alone(s, S), RoomsFree(a, s, S), TeachersFree(a, s, TimesOf(S))
    PROVE  Valid([a EXCEPT ![s] = S])
<1> DEFINE b == [a EXCEPT ![s] = S]
<1>1. b[s] = S /\ \A x \in Sections : x # s => b[x] = a[x]
  BY DEF Schedules
<1> HIDE DEF b
<1>2. \A x \in Sections : Alone(x, a[x])
  BY ValidIsPairwise
<1>3. \A x, y \in Sections : x # y => Apart(x, y, a[x], a[y])
  BY ValidIsPairwise
<1>4. ASSUME NEW x \in Sections, x # s
      PROVE  Apart(s, x, S, a[x]) /\ Apart(x, s, a[x], S)
  <2>1. S \intersect a[x] = {}
    BY <1>4 DEF RoomsFree, Occupants
  <2>2. TaughtBy[s] \intersect TaughtBy[x] # {} => TimesOf(S) \intersect TimesOf(a[x]) = {}
    BY <1>4, TeachersFreeFacts
  <2> QED BY <2>1, <2>2 DEF Apart
<1>5. \A x \in Sections : Alone(x, b[x])
  BY <1>1, <1>2
<1>6. \A x, y \in Sections : x # y => Apart(x, y, b[x], b[y])
  BY <1>1, <1>3, <1>4
<1>7. Valid(b)
  BY <1>5, <1>6, ValidIsPairwise
<1> QED BY <1>7 DEF b

\* A roomslot with those that follow it, up to some number, is in one room.
LEMMA OneRoom ==
    ASSUME NEW s \in Sections, NEW r \in Range(Slots)
    PROVE  Cardinality({q[1] : q \in RoomslotsFor(s, r)}) = 1
<1> DEFINE following == {t \in RoomTimes(r[1]) : t >= r[2]}
           Covers(t) == Duration[s] - (End[t] - Start[r[2]]) <= Delta
           taken == {t \in following : \A u \in following : u < t => ~Covers(u)}
<1>1. RoomslotsFor(s, r) = {r[1]} \X taken
  BY DEF RoomslotsFor
<1>2. \A q \in Range(Slots) : q[2] \in Int
  BY Roomslots
<1>3. r[2] \in following /\ \A u \in following : u \in Int /\ u >= r[2]
  BY <1>2 DEF RoomTimes
<1>4. r[2] \in taken
  <2> HIDE DEF Covers, following
  <2> QED BY <1>3
<1> HIDE DEF taken
<1>5. {q[1] : q \in {r[1]} \X taken} = {r[1]}
  <2>1. \A q \in {r[1]} \X taken : q[1] = r[1]
    OBVIOUS
  <2>2. <<r[1], r[2]>> \in {r[1]} \X taken /\ <<r[1], r[2]>>[1] = r[1]
    BY <1>4
  <2> QED BY <2>1, <2>2
<1> QED BY <1>1, <1>5, FS_Singleton

LEMMA PlaceValid ==
    ASSUME NEW a \in Schedules, Valid(a), NEW s \in Sections, NEW r \in Range(Slots),
           Fits(a, s, RoomslotsFor(s, r)), RoomsFree(a, s, RoomslotsFor(s, r))
    PROVE  Valid(Place(a, s, r))
<1> DEFINE S == RoomslotsFor(s, r)
<1>1. Cardinality({q[1] : q \in S}) = 1
  BY OneRoom
<1>2. /\ ContiguousTimes(TimesOf(S)) /\ RightLength(s, TimesOf(S))
      /\ TeachersAvailable(a, s, TimesOf(S)) /\ TeachersFree(a, s, TimesOf(S))
  BY DEF Fits
<1>3. Alone(s, a[s])
  BY ValidIsPairwise
<1> HIDE DEF S
<1>4. \A t \in TaughtBy[s] : TimesOf(S) \subseteq Available(t)
  BY <1>2, <1>3, NoTimes DEF TeachersAvailable, Alone
<1>5. Alone(s, S)
  BY <1>1, <1>2, <1>4 DEF Alone
<1>6. RoomsFree(a, s, S)
  BY DEF S
<1>7. Valid([a EXCEPT ![s] = S])
  BY <1>2, <1>5, <1>6, PlacedApart
<1> QED BY <1>7 DEF Place, S

LEMMA ClearValid ==
    ASSUME NEW a \in Schedules, Valid(a), NEW s \in Sections
    PROVE  Valid(Clear(a, s))
<1>1. Alone(s, {}) /\ RoomsFree(a, s, {}) /\ TeachersFree(a, s, TimesOf({}))
  BY NoTimes DEF Alone, RoomsFree, TeachersFree
<1>2. Valid([a EXCEPT ![s] = {}])
  BY <1>1, PlacedApart
<1> QED BY <1>2 DEF Clear

\* The teachers of s are asked about the times of x, and the other way round;
\* the rooms need not be asked, since the two just change them.
LEMMA SwapValid ==
    ASSUME NEW a \in Schedules, Valid(a), NEW s \in Sections, NEW x \in Sections, s # x,
           CheckSwapSections(a, s, x)
    PROVE  Valid(Swapped(a, s, x))
<1> DEFINE b == Swapped(a, s, x)
<1>1. b[s] = a[x] /\ b[x] = a[s] /\ \A y \in Sections \ {s, x} : b[y] = a[y]
  BY DEF Swapped, Schedules
<1> HIDE DEF b
<1>2. \A y \in Sections : Alone(y, a[y])
  BY ValidIsPairwise
<1>3. \A y, z \in Sections : y # z => Apart(y, z, a[y], a[z])
  BY ValidIsPairwise
<1>4. Alone(s, a[x])
  <2>1. Duration[s] = Duration[x] /\ TeachersAvailable(a, s, TimesOf(a[x])) /\ a[s] # {}
    BY DEF CheckSwapSections, IsScheduled
  <2>2. Alone(s, a[s]) /\ Alone(x, a[x])
    BY <1>2
  <2>3. \A t \in TaughtBy[s] : TimesOf(a[x]) \subseteq Available(t)
    BY <2>1, <2>2 DEF TeachersAvailable, Alone
  <2> QED BY <2>1, <2>2, <2>3 DEF Alone, RightLength
<1>5. Alone(x, a[s])
  <2>1. Duration[s] = Duration[x] /\ TeachersAvailable(a, x, TimesOf(a[s])) /\ a[x] # {}
    BY DEF CheckSwapSections, IsScheduled
  <2>2. Alone(s, a[s]) /\ Alone(x, a[x])
    BY <1>2
  <2>3. \A t \in TaughtBy[x] : TimesOf(a[s]) \subseteq Available(t)
    BY <2>1, <2>2 DEF TeachersAvailable, Alone
  <2> QED BY <2>1, <2>2, <2>3 DEF Alone, RightLength
<1>6. ASSUME NEW y \in Sections \ {s, x}
      PROVE  Apart(s, y, a[x], a[y]) /\ Apart(y, s, a[y], a[x])
  <2>1. a[x] \intersect a[y] = {}
    BY <1>3 DEF Apart
  <2>2. TaughtBy[s] \intersect TaughtBy[y] # {} => TimesOf(a[x]) \intersect TimesOf(a[y]) = {}
    BY TeachersFreeFacts DEF CheckSwapSections
  <2> QED BY <2>1, <2>2 DEF Apart
<1>7. ASSUME NEW y \in Sections \ {s, x}
      PROVE  Apart(x, y, a[s], a[y]) /\ Apart(y, x, a[y], a[s])
  <2>1. a[s] \intersect a[y] = {}
    BY <1>3 DEF Apart
  <2>2. TaughtBy[x] \intersect TaughtBy[y] # {} => TimesOf(a[s]) \intersect TimesOf(a[y]) = {}
    BY TeachersFreeFacts DEF CheckSwapSections
  <2> QED BY <2>1, <2>2 DEF Apart
<1>8. Apart(s, x, a[x], a[s]) /\ Apart(x, s, a[s], a[x])
  BY <1>3 DEF Apart
<1>9. \A y \in Sections : Alone(y, b[y])
  BY <1>1, <1>2, <1>4, <1>5
<1>10. ASSUME NEW y \in Sections, NEW z \in Sections, y # z PROVE Apart(y, z, b[y], b[z])
  <2>1. CASE y \notin {s, x} /\ z \notin {s, x}
    BY <1>1, <1>3, <1>10, <2>1
  <2>2. CASE y \in {s, x} /\ z \notin {s, x}
    BY <1>1, <1>6, <1>7, <2>2
  <2>3. CASE y \notin {s, x} /\ z \in {s, x}
    BY <1>1, <1>6, <1>7, <2>3
  <2>4. CASE y \in {s, x} /\ z \in {s, x}
    BY <1>1, <1>8, <1>10, <2>4
  <2> QED BY <2>1, <2>2, <2>3, <2>4
<1>11. Valid(b)
  BY <1>9, <1>10, ValidIsPairwise
<1> QED BY <1>11 DEF b

\* Whatever valid schedule is in memory, what the checks of the single actions
\* allow leads to a schedule that the check of the whole schedule accepts and
\* that has no room booked twice.
THEOREM ChecksSuffice == assigned \in Schedules /\ Valid(assigned) => ChecksSound
<1> SUFFICES ASSUME assigned \in Schedules, Valid(assigned), NEW s \in Sections
             PROVE  /\ \A r \in Range(Slots) :
                          CheckScheduleSection(assigned, s, r) \/ CheckMoveSection(assigned, s, r)
                              => Valid(Place(assigned, s, r))
                    /\ CheckUnscheduleSection(assigned, s) => Valid(Clear(assigned, s))
                    /\ \A x \in Sections \ {s} :
                          CheckSwapSections(assigned, s, x) => Valid(Swapped(assigned, s, x))
  BY DEF ChecksSound
<1>1. \A r \in Range(Slots) :
          CheckScheduleSection(assigned, s, r) \/ CheckMoveSection(assigned, s, r)
              => Valid(Place(assigned, s, r))
  BY PlaceValid DEF CheckScheduleSection, CheckMoveSection
<1>2. Valid(Clear(assigned, s))
  BY ClearValid
<1>3. \A x \in Sections \ {s} : CheckSwapSections(assigned, s, x) => Valid(Swapped(assigned, s, x))
  BY SwapValid
<1> QED BY <1>1, <1>2, <1>3

-----------------------------------------------------------------------------
(* One action and its undo.                                                 *)

\* A section that is placed from a roomslot on has it as its first.
LEMMA FirstOfBlock ==
    ASSUME NEW s \in Sections, NEW r \in Range(Slots)
    PROVE  First(RoomslotsFor(s, r)) = r /\ RoomslotsFor(s, r) # {}
<1> DEFINE S == RoomslotsFor(s, r)
<1>1. r = <<r[1], r[2]>> /\ \A q \in Range(Slots) : q[2] \in Int
  BY Roomslots
<1>2. \A q \in S : q = <<r[1], q[2]>> /\ q[2] \in Int /\ r[2] <= q[2]
  BY <1>1 DEF RoomslotsFor, RoomTimes
<1>3. r \in S
  <2>1. r[2] \in RoomTimes(r[1])
    BY DEF RoomTimes
  <2>2. \A u \in RoomTimes(r[1]) : u \in Int
    BY <1>1 DEF RoomTimes
  <2>3. \A u \in {t \in RoomTimes(r[1]) : t >= r[2]} : ~(u < r[2])
    BY <1>1, <2>2
  <2>4. <<r[1], r[2]>> \in S
    BY <1>1, <2>1, <2>3 DEF RoomslotsFor
  <2> QED BY <1>1, <2>4
<1> HIDE DEF S
<1>4. \A p \in S : (\A q \in S : p[2] <= q[2]) <=> p = r
  <2> TAKE p \in S
  <2>1. ASSUME \A q \in S : p[2] <= q[2] PROVE p = r
    <3>1. p[2] = r[2]
      BY <1>1, <1>2, <1>3, <2>1
    <3> QED BY <1>1, <1>2, <3>1
  <2> QED BY <1>2, <2>1
<1>5. First(S) = r
  BY <1>3, <1>4 DEF First
<1> QED BY <1>3, <1>5 DEF S

LEMMA LastAction ==
    ASSUME NEW h \in Seq(Action), NEW x \in Action
    PROVE  /\ Append(h, x) # <<>> /\ Last(Append(h, x)) = x
           /\ Front(Append(h, x)) = h
<1>1. Append(h, x) # <<>> /\ Last(Append(h, x)) = x
  BY DEF Last
<1>2. Front(Append(h, x)) = h
  BY DEF Front
<1> QED BY <1>1, <1>2

\* undo() gives back the schedule and the history from before the action,
\* whatever action the checks let pass, provided that the section was in one
\* block: what it gives back is the block from the first roomslot on.
THEOREM UndoReverts ==
    ASSUME NEW a \in Schedules, NEW h \in Seq(Action), NEW act \in Action,
           act.start \in Range(Slots) \/ act.action = "unschedule",
           InOneBlock(a, act.section),
           Legal([assigned |-> a, history |-> h], act)
    PROVE  Undo(PerformAction([assigned |-> a, history |-> h], act))
               = [assigned |-> a, history |-> h]
<1> DEFINE m == [assigned |-> a, history |-> h]
           s == act.section
           from == IF act.action = "schedule" THEN None ELSE First(a[s])
           done == Act(act.action, s, act.start, from)
           b == IF act.action = "unschedule" THEN Clear(a, s) ELSE Place(a, s, act.start)
<1>1. act.action \in {"schedule", "move", "unschedule"} /\ s \in Sections
      /\ act.start \in Range(Slots) \union {None}
  BY DEF Action
<1>2. PerformAction(m, act) = [assigned |-> b, history |-> Append(h, done)]
  BY DEF PerformAction
<1>3. \/ act.action = "schedule" /\ a[s] = {}
      \/ act.action # "schedule" /\ a[s] # {}
  BY <1>1 DEF Legal, CheckScheduleSection, CheckMoveSection, CheckUnscheduleSection, IsScheduled
<1>4. /\ done.action = act.action /\ done.section = s /\ done.prev = from
      /\ done \in Action
  <2>1. from \in Range(Slots) \union {None}
    BY <1>1, <1>3 DEF InOneBlock, IsScheduled
  <2> HIDE DEF from
  <2> QED BY <1>1, <2>1 DEF Act, Action
<1>5. \/ act.action = "schedule" /\ [b EXCEPT ![s] = {}] = a
      \/ act.action # "schedule" /\ [b EXCEPT ![s] = RoomslotsFor(s, from)] = a
  <2>1. \E S : b = [a EXCEPT ![s] = S]
    BY DEF Clear, Place
  <2>2. \A T : [b EXCEPT ![s] = T] = [a EXCEPT ![s] = T]
    BY <2>1 DEF Schedules
  <2>3. [a EXCEPT ![s] = a[s]] = a
    BY DEF Schedules
  <2>4. act.action # "schedule" => RoomslotsFor(s, from) = a[s]
    BY <1>3 DEF InOneBlock, IsScheduled
  <2> HIDE DEF b, from
  <2> QED BY <1>3, <2>2, <2>3, <2>4
<1> HIDE DEF b, done
<1>6. /\ Append(h, done) # <<>> /\ Last(Append(h, done)) = done
      /\ Front(Append(h, done)) = h
  BY <1>4, LastAction
<1>7. Undo([assigned |-> b, history |-> Append(h, done)])
        = [assigned |-> IF act.action = "schedule" THEN Clear(b, s) ELSE Place(b, s, from),
           history |-> h]
  BY <1>4, <1>6 DEF Undo
<1> QED BY <1>2, <1>5, <1>7 DEF Clear, Place

\* The actions keep sections in one block, so that one undo after the other
\* gives back what was there.
THEOREM ActionsKeepBlocks ==
    ASSUME NEW a \in Schedules, NEW h \in Seq(Action), NEW act \in Action,
           act.start \in Range(Slots) \/ act.action = "unschedule",
           \A s \in Sections : InOneBlock(a, s)
    PROVE  \A s \in Sections :
               InOneBlock(PerformAction([assigned |-> a, history |-> h], act).assigned, s)
<1> DEFINE m == [assigned |-> a, history |-> h]
           x == act.section
           b == PerformAction(m, act).assigned
<1>1. x \in Sections
  BY DEF Action
<1>2. \/ b = a
      \/ b = [a EXCEPT ![x] = {}]
      \/ act.start \in Range(Slots) /\ b = [a EXCEPT ![x] = RoomslotsFor(x, act.start)]
  BY DEF PerformAction, Clear, Place
<1> HIDE DEF b
<1>3. CASE b = a
  BY <1>3 DEF b
<1>4. CASE b = [a EXCEPT ![x] = {}]
  <2>1. b[x] = {} /\ \A s \in Sections : s # x => b[s] = a[s]
    BY <1>1, <1>4 DEF Schedules
  <2>2. \A s \in Sections : InOneBlock(b, s)
    BY <2>1 DEF InOneBlock, IsScheduled
  <2> QED BY <2>2 DEF b
<1>5. CASE act.start \in Range(Slots) /\ b = [a EXCEPT ![x] = RoomslotsFor(x, act.start)]
  <2>1. b[x] = RoomslotsFor(x, act.start) /\ \A s \in Sections : s # x => b[s] = a[s]
    BY <1>1, <1>5 DEF Schedules
  <2>2. InOneBlock(b, x)
    BY <1>1, <1>5, <2>1, FirstOfBlock DEF InOneBlock
  <2>3. \A s \in Sections : InOneBlock(b, s)
    BY <2>1, <2>2 DEF InOneBlock, IsScheduled
  <2> QED BY <2>3 DEF b
<1> QED BY <1>2, <1>3, <1>4, <1>5

-----------------------------------------------------------------------------
(* Recursive functions on an interval.                                      *)

LEMMA LeastNatural ==
    ASSUME NEW T, T \subseteq Nat, T # {}
    PROVE  \E n \in T : \A m \in T : n <= m
<1>1. PICK n \in T : \A m \in T : ~(<<m, n>> \in OpToRel(<, Nat))
  BY NatLessThanWellFounded, WFMin
<1>2. \A m \in T : ~(m < n)
  BY <1>1 DEF OpToRel
<1> QED BY <1>2

\* Induction, about the numbers in a set.
LEMMA Induction ==
    ASSUME NEW n \in Nat, NEW T, 0 \in T, \A i \in 1..n : i - 1 \in T => i \in T
    PROVE  \A i \in 0..n : i \in T
<1> SUFFICES ASSUME NEW j \in 0..n, j \notin T PROVE FALSE
  OBVIOUS
<1> DEFINE B == {i \in Nat : i \in 0..n /\ i \notin T}
<1>1. PICK i \in B : \A m \in B : i <= m
  <2>1. B \subseteq Nat /\ B # {}
    OBVIOUS
  <2> HIDE DEF B
  <2> QED BY <2>1, LeastNatural
<1>2. i \in 1..n /\ i - 1 \notin B /\ i - 1 \in 0..n
  BY <1>1
<1> QED BY <1>1, <1>2

\* A step function of a set of values can be iterated.
Iterable(n, S, base, F) ==
    \E g \in [0..n -> S] : g[0] = base /\ \A i \in 1..n : g[i] = F[<<i, g[i - 1]>>]

LEMMA Iteration ==
    ASSUME NEW n \in Nat, NEW S, NEW base \in S, NEW F \in [(1..n) \X S -> S]
    PROVE  Iterable(n, S, base, F)
<1> DEFINE Iterates(k, g) == g[0] = base /\ \A i \in 1..k : g[i] = F[<<i, g[i - 1]>>]
           T == {k \in 0..n : \E g \in [0..k -> S] : Iterates(k, g)}
<1>1. 0 \in T
  <2> DEFINE g == [i \in 0..0 |-> base]
  <2>1. g \in [0..0 -> S] /\ g[0] = base /\ 1..0 = {}
    OBVIOUS
  <2> HIDE DEF g
  <2> QED BY <2>1
<1>2. ASSUME NEW k \in 1..n, k - 1 \in T PROVE k \in T
  <2>1. PICK g \in [0..(k - 1) -> S] : Iterates(k - 1, g)
    BY <1>2
  <2> DEFINE h == [i \in 0..k |-> IF i = k THEN F[<<k, g[k - 1]>>] ELSE g[i]]
  <2>2. h \in [0..k -> S]
    BY <2>1
  <2>3. \A i \in 1..k : h[i] = F[<<i, h[i - 1]>>]
    <3> TAKE i \in 1..k
    <3>1. CASE i = k
      <4>1. h[k] = F[<<k, g[k - 1]>>] /\ h[k - 1] = g[k - 1]
        OBVIOUS
      <4> QED BY <3>1, <4>1
    <3>2. CASE i # k
      <4>1. i \in 1..(k - 1) /\ h[i] = g[i] /\ h[i - 1] = g[i - 1]
        BY <3>2
      <4> QED BY <2>1, <4>1
    <3> QED BY <3>1, <3>2
  <2>4. h[0] = base
    BY <2>1
  <2> HIDE DEF h
  <2> QED BY <2>2, <2>3, <2>4
<1> HIDE DEF T
<1>3. \A i \in 0..n : i \in T
  BY <1>1, <1>2, Induction
<1>4. n \in T
  BY <1>3
<1> QED BY <1>4 DEF T, Iterable

-----------------------------------------------------------------------------
(* The schedules on the way from the loaded one to the current one.         *)

ProperAction == {x \in Action : x.action = "unschedule" \/ x.start \in Range(Slots)}

\* A schedule that the search may be in.
Good(a) ==
    /\ Valid(a)
    /\ \A s \in Sections : InOneBlock(a, s)
    /\ \A s \in Sections : IsScheduled(a, s) /\ a[s] # loaded[s] =>
           ~OverLunch(TimesOf(a[s])) /\ <<s, First(a[s])[1]>> \in Allowed

From(a) == [assigned |-> a, history |-> <<>>]

\* The action is legal in a, is recorded as it stands and leads to b.
Leads(a, act, b) == PerformAction(From(a), act) = [assigned |-> b, history |-> <<act>>]

\* The schedules that the history has led through.
Path(m, g) ==
    /\ g \in [0..Len(m.history) -> Schedules]
    /\ g[0] = loaded
    /\ g[Len(m.history)] = m.assigned
    /\ \A i \in 0..Len(m.history) : Good(g[i])
    /\ \A i \in 1..Len(m.history) : Leads(g[i - 1], m.history[i], g[i])

Traced == {m \in [assigned : Schedules, history : Seq(ProperAction)] : \E g : Path(m, g)}

LEMMA BlockTypes ==
    ASSUME NEW s \in Sections, NEW r \in Range(Slots)
    PROVE  RoomslotsFor(s, r) \subseteq Range(Slots)
<1> SUFFICES ASSUME NEW q \in RoomslotsFor(s, r) PROVE q \in Range(Slots)
  OBVIOUS
<1>1. q[1] = r[1] /\ q[2] \in RoomTimes(r[1]) /\ q = <<q[1], q[2]>>
  BY DEF RoomslotsFor
<1>2. PICK p \in Range(Slots) : p[1] = r[1] /\ p[2] = q[2]
  BY <1>1 DEF RoomTimes
<1> QED BY <1>1, <1>2, Roomslots

\* What an action does to the schedule, and how it is recorded.
Effect(a, act) ==
    IF act.action = "unschedule" THEN Clear(a, act.section) ELSE Place(a, act.section, act.start)

Record(a, act) ==
    Act(act.action, act.section, act.start,
        IF act.action = "schedule" THEN None ELSE First(a[act.section]))

LEMMA PerformDef ==
    ASSUME NEW m, NEW act
    PROVE  PerformAction(m, act) =
               IF Legal(From(m.assigned), act)
               THEN [assigned |-> Effect(m.assigned, act),
                     history |-> Append(m.history, Record(m.assigned, act))]
               ELSE m
BY DEF PerformAction, Legal, From, Effect, Record

\* An action that is recorded as it stands can be done again from there.
LEMMA LeadsFacts ==
    ASSUME NEW a, NEW act, NEW b, Leads(a, act, b)
    PROVE  Legal(From(a), act) /\ Effect(a, act) = b /\ Record(a, act) = act
<1>1. PerformAction(From(a), act) = [assigned |-> b, history |-> <<act>>]
  BY DEF Leads
<1>2. From(a).assigned = a /\ From(a).history = <<>>
  BY DEF From
<1>3. Legal(From(a), act)
  <2>1. SUFFICES ASSUME ~Legal(From(a), act) PROVE FALSE
    OBVIOUS
  <2>2. PerformAction(From(a), act) = From(a)
    BY <1>2, <2>1, PerformDef
  <2>3. <<act>> = <<>>
    BY <1>1, <1>2, <2>2
  <2> QED BY <2>3
<1>4. PerformAction(From(a), act)
        = [assigned |-> Effect(a, act), history |-> Append(<<>>, Record(a, act))]
  BY <1>2, <1>3, PerformDef
<1>5. Effect(a, act) = b /\ <<Record(a, act)>> = <<act>>
  BY <1>1, <1>4
<1> QED BY <1>3, <1>5

LEMMA EffectFacts ==
    ASSUME NEW a \in Schedules, Good(a), NEW act \in ProperAction, Legal(From(a), act)
    PROVE  /\ Effect(a, act) \in Schedules
           /\ Good(Effect(a, act))
           /\ Record(a, act) \in ProperAction
           /\ Leads(a, Record(a, act), Effect(a, act))
<1> DEFINE s == act.section
           b == Effect(a, act)
           rec == Record(a, act)
<1>1. /\ act.action \in {"schedule", "move", "unschedule"} /\ s \in Sections
      /\ act.start \in Range(Slots) \union {None}
      /\ act.action # "unschedule" => act.start \in Range(Slots)
  BY DEF ProperAction, Action
<1>2. /\ act.action = "schedule" => CheckScheduleSection(a, s, act.start)
      /\ act.action = "move" => CheckMoveSection(a, s, act.start)
      /\ act.action = "unschedule" => CheckUnscheduleSection(a, s)
  BY DEF Legal, From
<1>3. /\ rec.action = act.action /\ rec.section = s /\ rec.start = act.start
      /\ rec \in ProperAction
  <2> DEFINE from == IF act.action = "schedule" THEN None ELSE First(a[s])
  <2>1. from \in Range(Slots) \union {None}
    BY <1>1, <1>2 DEF Good, InOneBlock, CheckMoveSection, CheckUnscheduleSection
  <2> HIDE DEF from
  <2>2. Act(act.action, s, act.start, from) \in Action
    BY <1>1, <2>1 DEF Act, Action
  <2>3. rec = Act(act.action, s, act.start, from)
    BY DEF Record, from
  <2> HIDE DEF rec
  <2> QED BY <1>1, <2>2, <2>3 DEF Act, ProperAction
<1>4. Leads(a, rec, b)
  <2>1. Legal(From(a), rec) /\ Effect(a, rec) = b /\ Record(a, rec) = rec
    <3> HIDE DEF rec
    <3>1. Legal(From(a), rec)
      BY <1>3 DEF Legal
    <3>2. Effect(a, rec) = b
      BY <1>3 DEF Effect
    <3>3. Record(a, rec) = rec
      BY <1>3 DEF Record, rec
    <3> QED BY <3>1, <3>2, <3>3
  <2> HIDE DEF rec, b
  <2>2. From(a).assigned = a /\ Append(From(a).history, rec) = <<rec>>
    BY DEF From
  <2> QED BY <2>1, <2>2, PerformDef DEF Leads
<1>5. CASE act.action = "unschedule"
  <2>1. b = [a EXCEPT ![s] = {}]
    BY <1>5 DEF Effect, Clear
  <2>2. b \in Schedules /\ b[s] = {} /\ \A x \in Sections : x # s => b[x] = a[x]
    BY <1>1, <2>1 DEF Schedules
  <2>3. Valid(b)
    BY <1>1, <1>5, ClearValid DEF Good, Effect
  <2> HIDE DEF b
  <2>4. Good(b)
    BY <2>2, <2>3 DEF Good, InOneBlock, IsScheduled
  <2> QED BY <1>3, <1>4, <2>2, <2>4 DEF b
<1>6. CASE act.action # "unschedule"
  <2> DEFINE r == act.start
             S == RoomslotsFor(s, r)
  <2>1. r \in Range(Slots) /\ Fits(a, s, S) /\ RoomsFree(a, s, S)
    BY <1>1, <1>2, <1>6 DEF CheckScheduleSection, CheckMoveSection
  <2>2. S \in SUBSET Range(Slots) /\ First(S) = r
    BY <1>1, <2>1, BlockTypes, FirstOfBlock
  <2>3. b = [a EXCEPT ![s] = S]
    BY <1>6 DEF Effect, Place
  <2>4. Valid(b)
    <3>1. Valid(Place(a, s, r))
      BY <1>1, <2>1, PlaceValid DEF Good
    <3> QED BY <3>1, <2>3 DEF Place
  <2>5. ~OverLunch(TimesOf(S)) /\ <<s, First(S)[1]>> \in Allowed
    BY <2>1 DEF Fits, RoomSuits
  <2>6. S = RoomslotsFor(s, First(S)) /\ First(S) \in Range(Slots)
    BY <2>1, <2>2
  <2> HIDE DEF S, b
  <2>7. b \in Schedules /\ b[s] = S /\ \A x \in Sections : x # s => b[x] = a[x]
    BY <1>1, <2>2, <2>3 DEF Schedules
  <2>8. Good(b)
    BY <2>4, <2>5, <2>6, <2>7 DEF Good, InOneBlock, IsScheduled
  <2> QED BY <1>3, <1>4, <2>7, <2>8 DEF b
<1> QED BY <1>5, <1>6

LEMMA TracedFacts ==
    ASSUME NEW m \in Traced
    PROVE  /\ m.assigned \in Schedules /\ m.history \in Seq(ProperAction)
           /\ m = [assigned |-> m.assigned, history |-> m.history]
           /\ Len(m.history) \in Nat
           /\ Good(m.assigned)
<1>1. PICK g : Path(m, g)
  BY DEF Traced
<1>2. m \in [assigned : Schedules, history : Seq(ProperAction)]
  BY DEF Traced
<1>3. Len(m.history) \in 0..Len(m.history)
  BY <1>2
<1>4. Good(g[Len(m.history)]) /\ g[Len(m.history)] = m.assigned
  BY <1>1, <1>3 DEF Path
<1> QED BY <1>2, <1>4

LEMMA PerformTraced ==
    ASSUME NEW m \in Traced, NEW act \in ProperAction
    PROVE  /\ PerformAction(m, act) \in Traced
           /\ Len(PerformAction(m, act).history) \in {Len(m.history), Len(m.history) + 1}
<1> DEFINE a == m.assigned
           h == m.history
           n == Len(h)
           b == Effect(a, act)
           rec == Record(a, act)
<1>1. a \in Schedules /\ h \in Seq(ProperAction) /\ n \in Nat /\ Good(a)
  BY TracedFacts
<1>2. CASE ~Legal(From(a), act)
  <2>1. PerformAction(m, act) = m
    BY <1>2, PerformDef
  <2> QED BY <2>1
<1>3. CASE Legal(From(a), act)
  <2>1. b \in Schedules /\ Good(b) /\ rec \in ProperAction /\ Leads(a, rec, b)
    BY <1>1, <1>3, EffectFacts
  <2> DEFINE k == [assigned |-> b, history |-> Append(h, rec)]
  <2>2. PerformAction(m, act) = k
    BY <1>3, PerformDef
  <2> HIDE DEF b, rec
  <2>3. PICK g : Path(m, g)
    BY DEF Traced
  <2> DEFINE f == [i \in 0..(n + 1) |-> IF i = n + 1 THEN b ELSE g[i]]
  <2>4. Append(h, rec) \in Seq(ProperAction) /\ Len(Append(h, rec)) = n + 1
    BY <1>1, <2>1
  <2>5. Append(h, rec)[n + 1] = rec /\ \A i \in 1..n : Append(h, rec)[i] = h[i]
    BY <1>1, <2>1
  <2>6. g \in [0..n -> Schedules] /\ g[0] = loaded /\ g[n] = a
        /\ (\A i \in 0..n : Good(g[i])) /\ \A i \in 1..n : Leads(g[i - 1], h[i], g[i])
    BY <2>3 DEF Path
  <2> HIDE DEF n, h, a
  <2>7. f \in [0..(n + 1) -> Schedules] /\ f[n + 1] = b /\ \A i \in 0..n : f[i] = g[i]
    BY <1>1, <2>1, <2>6
  <2> HIDE DEF f
  <2>8. f[0] = loaded /\ \A i \in 0..(n + 1) : Good(f[i])
    BY <1>1, <2>1, <2>6, <2>7
  <2>9. \A i \in 1..(n + 1) : Leads(f[i - 1], Append(h, rec)[i], f[i])
    <3> TAKE i \in 1..(n + 1)
    <3>1. CASE i = n + 1
      <4>1. i - 1 = n /\ n \in 0..n
        BY <1>1, <3>1
      <4>2. f[i - 1] = a /\ Append(h, rec)[i] = rec /\ f[i] = b
        BY <2>5, <2>6, <2>7, <3>1, <4>1
      <4> QED BY <2>1, <4>2
    <3>2. CASE i # n + 1
      <4>1. i \in 1..n /\ i - 1 \in 0..n /\ i \in 0..n
        BY <1>1, <3>2
      <4> QED BY <2>5, <2>6, <2>7, <4>1
    <3> QED BY <3>1, <3>2
  <2>10. Path(k, f)
    <3>1. k.assigned = b /\ k.history = Append(h, rec)
      OBVIOUS
    <3> HIDE DEF k
    <3> QED BY <2>4, <2>7, <2>8, <2>9, <3>1 DEF Path
  <2>11. k \in [assigned : Schedules, history : Seq(ProperAction)]
    BY <2>1, <2>4
  <2>12. k \in Traced
    BY <2>10, <2>11 DEF Traced
  <2> QED BY <2>2, <2>4, <2>12 DEF n, h
<1> QED BY <1>2, <1>3

LEMMA FrontFacts ==
    ASSUME NEW h \in Seq(ProperAction), h # <<>>
    PROVE  /\ Front(h) \in Seq(ProperAction) /\ Last(h) = h[Len(h)] /\ Last(h) \in ProperAction
           /\ Len(Front(h)) = Len(h) - 1 /\ Len(h) \in Nat \ {0}
           /\ \A i \in 1..(Len(h) - 1) : Front(h)[i] = h[i]
           /\ Append(Front(h), Last(h)) = h
<1>1. Len(h) \in Nat \ {0} /\ Last(h) = h[Len(h)]
  BY DEF Last
<1>2. Front(h) = SubSeq(h, 1, Len(h) - 1)
  BY DEF Front
<1>3. /\ Front(h) \in Seq(ProperAction) /\ Len(Front(h)) = Len(h) - 1
      /\ \A i \in 1..(Len(h) - 1) : Front(h)[i] = h[i]
  <2>1. \A i \in 1..(Len(h) - 1) : h[i] \in ProperAction
    BY <1>1
  <2>2. Front(h) = [i \in 1..(Len(h) - 1) |-> h[i]]
    BY <1>1, <1>2
  <2> QED BY <1>1, <2>1, <2>2
<1>4. Append(Front(h), Last(h)) = h
  BY <1>1, <1>3
<1> QED BY <1>1, <1>3, <1>4

\* One undo goes one schedule back.
LEMMA UndoTraced ==
    ASSUME NEW m \in Traced
    PROVE  /\ Undo(m) \in Traced
           /\ Len(Undo(m).history) = IF m.history = <<>> THEN 0 ELSE Len(m.history) - 1
<1> DEFINE h == m.history
           n == Len(h)
<1>1. m.assigned \in Schedules /\ h \in Seq(ProperAction) /\ n \in Nat
      /\ m = [assigned |-> m.assigned, history |-> m.history]
  BY TracedFacts
<1>2. CASE h = <<>>
  BY <1>1, <1>2 DEF Undo
<1>3. CASE h # <<>>
  <2> DEFINE act == Last(h)
             f == Front(h)
  <2>1. /\ f \in Seq(ProperAction) /\ act = h[n] /\ act \in ProperAction
        /\ Len(f) = n - 1 /\ n \in Nat \ {0}
        /\ \A i \in 1..(n - 1) : f[i] = h[i]
        /\ Append(f, act) = h
    BY <1>1, <1>3, FrontFacts
  <2>2. PICK g : Path(m, g)
    BY DEF Traced
  <2> DEFINE a == g[n - 1]
             k == [assigned |-> a, history |-> f]
  <2>3. g \in [0..n -> Schedules] /\ g[0] = loaded /\ g[n] = m.assigned
        /\ (\A i \in 0..n : Good(g[i])) /\ \A i \in 1..n : Leads(g[i - 1], h[i], g[i])
    BY <2>2 DEF Path
  <2> HIDE DEF n, act, f
  <2>4. a \in Schedules /\ Good(a) /\ Leads(a, act, m.assigned)
    BY <2>1, <2>3
  <2> DEFINE e == [i \in 0..(n - 1) |-> g[i]]
  <2>5. e \in [0..(n - 1) -> Schedules] /\ e[0] = loaded /\ e[n - 1] = a
        /\ \A i \in 0..(n - 1) : e[i] = g[i] /\ Good(e[i])
    BY <2>1, <2>3
  <2> HIDE DEF e, a
  <2>6. \A i \in 1..(n - 1) : Leads(e[i - 1], f[i], e[i])
    BY <2>1, <2>3, <2>5
  <2>7. k \in Traced
    <3>1. Path(k, e)
      BY <2>1, <2>5, <2>6 DEF Path
    <3>2. k \in [assigned : Schedules, history : Seq(ProperAction)]
      BY <2>1, <2>4
    <3> QED BY <3>1, <3>2 DEF Traced
  <2>8. Legal(From(a), act) /\ Effect(a, act) = m.assigned /\ Record(a, act) = act
    BY <2>4, LeadsFacts
  <2>9. PerformAction(k, act) = m
    <3>1. k.assigned = a /\ k.history = f
      OBVIOUS
    <3> HIDE DEF k
    <3>2. PerformAction(k, act) = [assigned |-> m.assigned, history |-> h]
      BY <2>1, <2>8, <3>1, PerformDef
    <3> QED BY <1>1, <3>2
  <2>10. Undo(PerformAction(k, act)) = k
    <3>1. act \in Action /\ (act.start \in Range(Slots) \/ act.action = "unschedule")
      BY <2>1 DEF ProperAction
    <3>2. InOneBlock(a, act.section)
      BY <2>4, <3>1 DEF Good, Action
    <3>3. f \in Seq(Action)
      BY <2>1 DEF ProperAction
    <3>4. Legal(k, act)
      BY <2>8 DEF Legal, From
    <3> QED BY <2>4, <3>1, <3>2, <3>3, <3>4, UndoReverts
  <2>11. Undo(m) = k /\ Len(k.history) = n - 1
    BY <2>1, <2>9, <2>10
  <2> HIDE DEF k
  <2> QED BY <1>3, <2>7, <2>11 DEF n
<1> QED BY <1>2, <1>3

-----------------------------------------------------------------------------
(* Many actions and many undos.                                             *)

\* The recursive function of PerformAll exists where actions can be repeated.
HasRun(S, m, acts) ==
    \E d \in [0..Len(acts) -> S] :
        /\ d[0] = m /\ d[Len(acts)] = PerformAll(m, acts)
        /\ \A i \in 1..Len(acts) : d[i] = PerformAction(d[i - 1], acts[i])

LEMMA PerformAllRuns ==
    ASSUME NEW S, \A x \in S : \A act \in ProperAction : PerformAction(x, act) \in S,
           NEW m \in S, NEW acts \in Seq(ProperAction)
    PROVE  HasRun(S, m, acts)
<1> DEFINE n == Len(acts)
           F == [p \in (1..n) \X S |-> PerformAction(p[2], acts[p[1]])]
           Is(d) == d = [i \in 0..n |-> IF i = 0 THEN m ELSE PerformAction(d[i - 1], acts[i])]
           d == CHOOSE d : Is(d)
<1>1. n \in Nat /\ \A i \in 1..n : acts[i] \in ProperAction
  OBVIOUS
<1>2. \A i \in 1..n : \A x \in S : F[<<i, x>>] = PerformAction(x, acts[i])
  OBVIOUS
<1>3. F \in [(1..n) \X S -> S]
  BY <1>1
<1> HIDE DEF F, n
<1>4. PICK g \in [0..n -> S] : g[0] = m /\ \A i \in 1..n : g[i] = F[<<i, g[i - 1]>>]
  <2>1. Iterable(n, S, m, F)
    BY <1>1, <1>3, Iteration
  <2> QED BY <2>1 DEF Iterable
<1>5. \A i \in 1..n : g[i] = PerformAction(g[i - 1], acts[i])
  <2> TAKE i \in 1..n
  <2>1. g[i - 1] \in S
    BY <1>1, <1>4
  <2> QED BY <1>2, <1>4, <2>1
<1>6. Is(g)
  <2>1. g = [i \in 0..n |-> g[i]]
    BY <1>4
  <2>2. \A i \in 0..n : g[i] = IF i = 0 THEN m ELSE PerformAction(g[i - 1], acts[i])
    BY <1>1, <1>4, <1>5
  <2> QED BY <2>1, <2>2
<1>7. Is(d)
  BY <1>6
<1>8. PerformAll(m, acts) = d[n]
  BY DEF PerformAll, n
<1> HIDE DEF d
<1>9. d[0] = m /\ \A i \in 1..n : d[i] = PerformAction(d[i - 1], acts[i])
  BY <1>1, <1>7
<1>10. \A i \in 0..n : d[i] \in S
  <2> DEFINE T == {i \in 0..n : d[i] \in S}
  <2>1. 0 \in T
    BY <1>1, <1>9
  <2>2. \A i \in 1..n : i - 1 \in T => i \in T
    BY <1>1, <1>9
  <2> HIDE DEF T
  <2>3. \A i \in 0..n : i \in T
    BY <1>1, <2>1, <2>2, Induction
  <2> QED BY <2>3 DEF T
<1>11. d \in [0..n -> S]
  BY <1>7, <1>10
<1> QED BY <1>8, <1>9, <1>11 DEF HasRun, n

LEMMA PerformAllTraced ==
    ASSUME NEW m \in Traced, NEW acts \in Seq(ProperAction)
    PROVE  /\ PerformAll(m, acts) \in Traced
           /\ Len(m.history) <= Len(PerformAll(m, acts).history)
           /\ Len(PerformAll(m, acts).history) <= Len(m.history) + Len(acts)
<1> DEFINE n == Len(acts)
<1>1. n \in Nat /\ \A i \in 1..n : acts[i] \in ProperAction
  OBVIOUS
<1>2. \A x \in Traced : \A act \in ProperAction : PerformAction(x, act) \in Traced
  BY PerformTraced
<1>3. PICK d \in [0..n -> Traced] :
          /\ d[0] = m /\ d[n] = PerformAll(m, acts)
          /\ \A i \in 1..n : d[i] = PerformAction(d[i - 1], acts[i])
  <2>1. HasRun(Traced, m, acts)
    BY <1>2, PerformAllRuns
  <2> QED BY <2>1 DEF HasRun
<1> DEFINE L(i) == Len(d[i].history)
           B == {i \in 0..n : L(0) <= L(i) /\ L(i) <= L(0) + i}
<1>4. \A i \in 0..n : d[i] \in Traced /\ L(i) \in Nat
  BY <1>3, TracedFacts
<1>5. \A i \in 1..n : L(i) \in {L(i - 1), L(i - 1) + 1}
  <2> TAKE i \in 1..n
  <2>1. d[i - 1] \in Traced /\ acts[i] \in ProperAction /\ d[i] = PerformAction(d[i - 1], acts[i])
    BY <1>1, <1>3
  <2> QED BY <2>1, PerformTraced
<1> HIDE DEF L, n
<1>6. 0 \in B
  BY <1>1, <1>4
<1>7. ASSUME NEW i \in 1..n, i - 1 \in B PROVE i \in B
  <2>1. L(0) \in Nat /\ L(i - 1) \in Nat /\ L(i) \in Nat /\ i \in 0..n
    BY <1>1, <1>4
  <2>2. L(0) <= L(i - 1) /\ L(i - 1) <= L(0) + (i - 1)
    BY <1>7
  <2>3. L(i) = L(i - 1) \/ L(i) = L(i - 1) + 1
    BY <1>5
  <2> QED BY <1>1, <2>1, <2>2, <2>3
<1> HIDE DEF B
<1>8. \A i \in 0..n : i \in B
  BY <1>1, <1>6, <1>7, Induction
<1>9. n \in 0..n /\ n \in B
  BY <1>1, <1>8
<1> QED BY <1>3, <1>4, <1>9 DEF B, L, n

LEMMA RevertRuns ==
    ASSUME NEW m \in Traced, NEW n \in Nat
    PROVE  \E d \in [0..n -> Traced] :
               /\ d[0] = m /\ d[n] = Revert(m, n)
               /\ \A i \in 1..n : d[i] = Undo(d[i - 1])
<1> DEFINE S == Traced
           F == [p \in (1..n) \X S |-> Undo(p[2])]
           Is(d) == d = [i \in 0..n |-> IF i = 0 THEN m ELSE Undo(d[i - 1])]
           d == CHOOSE d : Is(d)
<1>1. \A x \in S : Undo(x) \in S
  BY UndoTraced
<1>2. \A i \in 1..n : \A x \in S : F[<<i, x>>] = Undo(x)
  OBVIOUS
<1>3. F \in [(1..n) \X S -> S]
  BY <1>1
<1> HIDE DEF F
<1>4. PICK g \in [0..n -> S] : g[0] = m /\ \A i \in 1..n : g[i] = F[<<i, g[i - 1]>>]
  <2>1. Iterable(n, S, m, F)
    BY <1>3, Iteration
  <2> QED BY <2>1 DEF Iterable
<1>5. \A i \in 1..n : g[i] = Undo(g[i - 1])
  <2> TAKE i \in 1..n
  <2>1. g[i - 1] \in S
    BY <1>4
  <2> QED BY <1>2, <1>4, <2>1
<1>6. Is(g)
  <2>1. g = [i \in 0..n |-> g[i]]
    BY <1>4
  <2>2. \A i \in 0..n : g[i] = IF i = 0 THEN m ELSE Undo(g[i - 1])
    BY <1>4, <1>5
  <2> QED BY <2>1, <2>2
<1>7. Is(d)
  BY <1>6
<1>8. Revert(m, n) = d[n]
  BY DEF Revert
<1> HIDE DEF d
<1>9. d[0] = m /\ \A i \in 1..n : d[i] = Undo(d[i - 1])
  BY <1>7
<1>10. \A i \in 0..n : d[i] \in S
  <2> DEFINE T == {i \in 0..n : d[i] \in S}
  <2>1. 0 \in T
    BY <1>9
  <2>2. \A i \in 1..n : i - 1 \in T => i \in T
    BY <1>1, <1>9
  <2> HIDE DEF T
  <2>3. \A i \in 0..n : i \in T
    BY <2>1, <2>2, Induction
  <2> QED BY <2>3 DEF T
<1>11. d \in [0..n -> S]
  BY <1>7, <1>10
<1> QED BY <1>8, <1>9, <1>11

\* Undoing more than was done gives the schedule as it was loaded.
LEMMA RevertTraced ==
    ASSUME NEW m \in Traced, NEW n \in Nat
    PROVE  /\ Revert(m, n) \in Traced
           /\ Len(Revert(m, n).history)
                  = IF n <= Len(m.history) THEN Len(m.history) - n ELSE 0
<1>1. PICK d \in [0..n -> Traced] :
          /\ d[0] = m /\ d[n] = Revert(m, n)
          /\ \A i \in 1..n : d[i] = Undo(d[i - 1])
  BY RevertRuns
<1> DEFINE L(i) == Len(d[i].history)
           B == {i \in 0..n : L(i) = IF i <= L(0) THEN L(0) - i ELSE 0}
<1>2. \A i \in 0..n : d[i] \in Traced /\ L(i) \in Nat
  BY <1>1, TracedFacts
<1>3. \A i \in 1..n : L(i) = IF L(i - 1) = 0 THEN 0 ELSE L(i - 1) - 1
  <2> TAKE i \in 1..n
  <2>1. d[i - 1] \in Traced /\ d[i] = Undo(d[i - 1]) /\ i - 1 \in 0..n
    BY <1>1
  <2>2. d[i - 1].history \in Seq(ProperAction)
    BY <2>1, TracedFacts
  <2>3. d[i - 1].history = <<>> <=> L(i - 1) = 0
    BY <2>2
  <2> QED BY <2>1, <2>3, UndoTraced
<1> HIDE DEF L
<1>4. 0 \in B
  BY <1>2
<1>5. \A i \in 1..n : i - 1 \in B => i \in B
  BY <1>2, <1>3
<1> HIDE DEF B
<1>6. \A i \in 0..n : i \in B
  BY <1>4, <1>5, Induction
<1>7. n \in 0..n /\ n \in B
  BY <1>6
<1> QED BY <1>1, <1>2, <1>7 DEF B, L

LEMMA LoadedTraced ==
    ASSUME loaded \in Schedules, Good(loaded)
    PROVE  From(loaded) \in Traced
<1> DEFINE m == From(loaded)
           e == [i \in 0..0 |-> loaded]
<1>1. m.assigned = loaded /\ m.history = <<>>
  BY DEF From
<1>2. m \in [assigned : Schedules, history : Seq(ProperAction)]
  BY <1>1 DEF From
<1>3. e \in [0..0 -> Schedules] /\ e[0] = loaded /\ (\A i \in 0..0 : e[i] = loaded) /\ Len(<<>>) = 0
  OBVIOUS
<1> HIDE DEF e, m
<1>4. Path(m, e)
  BY <1>1, <1>3 DEF Path
<1> QED BY <1>2, <1>4 DEF Traced, m

\* What is exported is the way from the schedule as it was loaded.
LEMMA Replay ==
    ASSUME NEW m \in Traced
    PROVE  PerformAll(From(loaded), m.history) = m
<1> DEFINE h == m.history
           n == Len(h)
           From0 == From(loaded)
<1>1. /\ m.assigned \in Schedules /\ h \in Seq(ProperAction) /\ n \in Nat
      /\ m = [assigned |-> m.assigned, history |-> h]
  BY TracedFacts
<1>2. PICK g : Path(m, g)
  BY DEF Traced
<1>3. g \in [0..n -> Schedules] /\ g[0] = loaded /\ g[n] = m.assigned
      /\ (\A i \in 0..n : Good(g[i])) /\ \A i \in 1..n : Leads(g[i - 1], h[i], g[i])
  BY <1>2 DEF Path
<1>4. From0 \in Traced
  <2>1. loaded \in Schedules /\ Good(loaded)
    BY <1>1, <1>3
  <2> QED BY <2>1, LoadedTraced
<1>5. PICK d \in [0..n -> Traced] :
          /\ d[0] = From0 /\ d[n] = PerformAll(From0, h)
          /\ \A i \in 1..n : d[i] = PerformAction(d[i - 1], h[i])
  <2>1. \A x \in Traced : \A act \in ProperAction : PerformAction(x, act) \in Traced
    BY PerformTraced
  <2>2. HasRun(Traced, From0, h)
    BY <1>1, <1>4, <2>1, PerformAllRuns
  <2> QED BY <2>2 DEF HasRun
<1> DEFINE At(i) == [assigned |-> g[i], history |-> SubSeq(h, 1, i)]
           B == {i \in 0..n : d[i] = At(i)}
<1> HIDE DEF n, h
<1>6. 0 \in B
  <2>1. SubSeq(h, 1, 0) = <<>>
    BY <1>1
  <2>2. At(0) = From(loaded)
    BY <1>3, <2>1 DEF From
  <2> QED BY <1>1, <1>5, <2>2
<1>7. ASSUME NEW i \in 1..n, i - 1 \in B PROVE i \in B
  <2>1. i \in Nat /\ i <= Len(h) /\ h[i] \in ProperAction /\ i \in 0..n
    BY <1>1 DEF n
  <2>2. Append(SubSeq(h, 1, i - 1), h[i]) = SubSeq(h, 1, i)
    BY <1>1, <2>1
  <2>3. Legal(From(g[i - 1]), h[i]) /\ Effect(g[i - 1], h[i]) = g[i] /\ Record(g[i - 1], h[i]) = h[i]
    BY <1>3, LeadsFacts
  <2>4. d[i - 1].assigned = g[i - 1] /\ d[i - 1].history = SubSeq(h, 1, i - 1)
    BY <1>7
  <2>5. PerformAction(d[i - 1], h[i]) = At(i)
    BY <2>2, <2>3, <2>4, PerformDef
  <2> QED BY <1>5, <2>1, <2>5
<1> HIDE DEF B
<1>8. \A i \in 0..n : i \in B
  BY <1>1, <1>6, <1>7, Induction
<1>9. d[n] = At(n)
  BY <1>1, <1>8 DEF B
<1>10. SubSeq(h, 1, n) = h
  BY <1>1 DEF n
<1> QED BY <1>1, <1>3, <1>5, <1>9, <1>10 DEF h

-----------------------------------------------------------------------------
(* The score: a sum over a finite set.                                      *)

AnyOf(T) == CHOOSE x \in T : TRUE

\* The recursive function behind a sum.
SumsUp(G, F, S) ==
    G = [T \in SUBSET S |-> IF T = {} THEN 0 ELSE F[AnyOf(T)] + G[T \ {AnyOf(T)}]]

AtMost(S, k) == {T \in SUBSET S : Cardinality(T) <= k}

LEMMA Smaller ==
    ASSUME NEW S, IsFiniteSet(S), NEW T \in SUBSET S, T # {}
    PROVE  /\ AnyOf(T) \in T /\ T \ {AnyOf(T)} \in SUBSET S
           /\ Cardinality(T) \in Nat /\ 0 < Cardinality(T)
           /\ Cardinality(T \ {AnyOf(T)}) = Cardinality(T) - 1
<1>1. AnyOf(T) \in T
  BY DEF AnyOf
<1>2. IsFiniteSet(T)
  BY FS_Subset
<1>3. Cardinality(T \ {AnyOf(T)}) = Cardinality(T) - 1
  BY <1>1, <1>2, FS_RemoveElement
<1>4. Cardinality(T) \in Nat /\ Cardinality(T) # 0
  BY <1>2, FS_CardinalityType, FS_EmptySet
<1> QED BY <1>1, <1>3, <1>4

LEMMA SumTyped ==
    ASSUME NEW S, IsFiniteSet(S), NEW F, \A x \in S : F[x] \in Int, NEW G, SumsUp(G, F, S)
    PROVE  \A T \in SUBSET S : G[T] \in Int
<1> DEFINE n == Cardinality(S)
           B == {k \in 0..n : \A T \in AtMost(S, k) : G[T] \in Int}
<1>1. n \in Nat
  BY FS_CardinalityType
<1>2. \A T \in SUBSET S : G[T] = IF T = {} THEN 0 ELSE F[AnyOf(T)] + G[T \ {AnyOf(T)}]
  BY DEF SumsUp
<1>3. 0 \in B
  <2> SUFFICES ASSUME NEW T \in AtMost(S, 0) PROVE G[T] \in Int
    BY <1>1
  <2>1. T \in SUBSET S /\ Cardinality(T) <= 0
    BY DEF AtMost
  <2>2. T = {}
    <3> SUFFICES ASSUME T # {} PROVE FALSE
      OBVIOUS
    <3>1. Cardinality(T) \in Nat /\ 0 < Cardinality(T)
      BY <2>1, Smaller
    <3> QED BY <2>1, <3>1
  <2>3. G[T] = 0
    BY <1>2, <2>1, <2>2
  <2> QED BY <2>3
<1>4. ASSUME NEW k \in 1..n, k - 1 \in B PROVE k \in B
  <2> SUFFICES ASSUME NEW T \in AtMost(S, k) PROVE G[T] \in Int
    BY <1>1
  <2>1. CASE T = {}
    <3>1. {} \in SUBSET S
      OBVIOUS
    <3>2. G[{}] = 0
      BY <1>2, <3>1
    <3> QED BY <2>1, <3>2
  <2>2. CASE T # {}
    <3> DEFINE x == AnyOf(T)
    <3>1. T \in SUBSET S /\ Cardinality(T) <= k
      BY DEF AtMost
    <3>2. x \in S /\ T \ {x} \in SUBSET S /\ Cardinality(T \ {x}) <= k - 1
      BY <2>2, <3>1, Smaller
    <3>3. G[T \ {x}] \in Int
      BY <1>4, <3>2 DEF AtMost
    <3>4. G[T] = F[x] + G[T \ {x}]
      BY <1>2, <2>2, <3>1
    <3> HIDE DEF x
    <3> QED BY <3>2, <3>3, <3>4
  <2> QED BY <2>1, <2>2
<1> HIDE DEF B
<1>5. \A k \in 0..n : k \in B
  BY <1>1, <1>3, <1>4, Induction
<1>6. n \in B
  BY <1>1, <1>5
<1> SUFFICES ASSUME NEW T \in SUBSET S PROVE G[T] \in Int
  OBVIOUS
<1>7. Cardinality(T) <= n
  BY FS_Subset
<1> QED BY <1>6, <1>7 DEF B, AtMost

HasSum(F, S) == \E G : SumsUp(G, F, S)

LEMMA SumExists ==
    ASSUME NEW S, IsFiniteSet(S), NEW F
    PROVE  HasSum(F, S)
<1> DEFINE n == Cardinality(S)
           Entry(G, T) == IF T = {} THEN 0 ELSE F[AnyOf(T)] + G[T \ {AnyOf(T)}]
           Sums(k, G) == G = [T \in AtMost(S, k) |-> Entry(G, T)]
           Has(k) == \E G : Sums(k, G)
           B == {k \in 0..n : Has(k)}
<1>1. n \in Nat
  BY FS_CardinalityType
<1>2. 0 \in B
  <2> DEFINE G == [T \in AtMost(S, 0) |-> 0]
  <2>1. ASSUME NEW T \in AtMost(S, 0), T # {} PROVE FALSE
    <3>1. T \in SUBSET S /\ Cardinality(T) <= 0
      BY DEF AtMost
    <3>2. Cardinality(T) \in Nat /\ 0 < Cardinality(T)
      BY <2>1, <3>1, Smaller
    <3> QED BY <3>1, <3>2
  <2>2. Sums(0, G)
    BY <2>1
  <2>3. Has(0)
    <3> HIDE DEF Sums
    <3> QED BY <2>2
  <2> HIDE DEF Has
  <2> QED BY <1>1, <2>3
<1>3. ASSUME NEW k \in 1..n, k - 1 \in B PROVE k \in B
  <2>1. PICK G : Sums(k - 1, G)
    <3> HIDE DEF Sums
    <3> QED BY <1>3
  <2> DEFINE H == [T \in AtMost(S, k) |-> Entry(G, T)]
  <2>2. \A T \in AtMost(S, k - 1) : T \in AtMost(S, k) /\ G[T] = Entry(G, T)
    <3> TAKE T \in AtMost(S, k - 1)
    <3>1. T \in SUBSET S /\ Cardinality(T) \in Nat /\ Cardinality(T) <= k - 1
      BY FS_Subset, FS_CardinalityType DEF AtMost
    <3>2. T \in AtMost(S, k)
      BY <1>1, <3>1 DEF AtMost
    <3> QED BY <2>1, <3>2
  <2>3. \A T \in AtMost(S, k - 1) : H[T] = G[T]
    BY <2>2
  <2>4. \A T \in AtMost(S, k) : Entry(H, T) = Entry(G, T)
    <3> TAKE T \in AtMost(S, k)
    <3> SUFFICES ASSUME T # {} PROVE H[T \ {AnyOf(T)}] = G[T \ {AnyOf(T)}]
      <4> HIDE DEF H
      <4> QED OBVIOUS
    <3>1. T \in SUBSET S /\ Cardinality(T) <= k
      BY DEF AtMost
    <3>2. T \ {AnyOf(T)} \in AtMost(S, k - 1)
      BY <3>1, Smaller DEF AtMost
    <3> QED BY <2>3, <3>2
  <2>5. Sums(k, H)
    BY <2>4
  <2>6. Has(k)
    <3> HIDE DEF Sums, H
    <3> QED BY <2>5
  <2> HIDE DEF Has
  <2> QED BY <1>1, <2>6
<1> HIDE DEF B
<1>4. \A k \in 0..n : k \in B
  BY <1>1, <1>2, <1>3, Induction
<1>5. PICK G : Sums(n, G)
  <2>1. n \in B
    BY <1>1, <1>4
  <2> HIDE DEF Sums
  <2> QED BY <2>1 DEF B
<1>6. AtMost(S, n) = SUBSET S
  BY FS_Subset DEF AtMost
<1>7. SumsUp(G, F, S)
  BY <1>5, <1>6 DEF SumsUp
<1> QED BY <1>7 DEF HasSum

\* The score of a schedule is a number.
LEMMA ScoreTyped ==
    ASSUME NEW a, \A s \in Sections : InOneBlock(a, s)
    PROVE  score_schedule(a) \in Int
<1> DEFINE S == {s \in Sections : IsScheduled(a, s)}
           F == [s \in S |-> Value(s, First(a[s]))]
           Is(G) == G = [T \in SUBSET S |->
                            IF T = {} THEN 0
                            ELSE Value(AnyOf(T), First(a[AnyOf(T)])) + G[T \ {AnyOf(T)}]]
           G == CHOOSE G : Is(G)
<1>1. IsFiniteSet(S)
  BY SchedulerAssumption, FS_Subset
<1>2. \A s \in S : F[s] \in Int
  BY SchedulerAssumption DEF InOneBlock
<1>3. ASSUME NEW H PROVE Is(H) <=> SumsUp(H, F, S)
  <2>1. \A T \in SUBSET S : T # {} => F[AnyOf(T)] = Value(AnyOf(T), First(a[AnyOf(T)]))
    BY DEF AnyOf
  <2> HIDE DEF F, S
  <2> QED BY <2>1 DEF SumsUp
<1>4. score_schedule(a) = G[S]
  BY DEF score_schedule, MapThenSumSet, MapThenFoldSet, AnyOf
<1> HIDE DEF S, F
<1>5. \E H : SumsUp(H, F, S)
  <2>1. HasSum(F, S)
    BY <1>1, SumExists
  <2> QED BY <2>1 DEF HasSum
<1>6. Is(G)
  <2>1. \E H : Is(H)
    BY <1>3, <1>5
  <2> QED BY <2>1
<1>7. SumsUp(G, F, S)
  BY <1>3, <1>6
<1> HIDE DEF G
<1>8. G[S] \in Int
  BY <1>1, <1>2, <1>7, SumTyped
<1> QED BY <1>4, <1>8

-----------------------------------------------------------------------------
(* The invariant of the search.                                             *)

\* Of a call of optimize_section: its lists hold actions that can be done, it
\* has proposed nothing when it takes up a roomslot, and it waits for a call
\* about the first of the others.
ProperFrame ==
    {f \in Frame : /\ f.best_actions \in Seq(ProperAction) /\ f.proposed \in Seq(ProperAction)
                   /\ f.next >= 1
                   /\ f.pc = "slot" => f.proposed = <<>>
                   /\ f.pc = "returned" => f.others # <<>>}

\* The actions in a history of n that the call at the top does not know of,
\* where r have been returned to it.
Excess(n, f, r) == n - Len(f.proposed) - (IF f.pc = "returned" THEN r ELSE 0)

\* How many actions there were at most when the calls started: the first call
\* starts with none, and one call can undo all that it has proposed.
IsBase(base, st, n, r) ==
    /\ base \in [1..Len(st) -> Nat]
    /\ st # <<>> => base[Len(st)] = 0 /\ Excess(n, st[1], r) <= base[1]
    /\ \A i \in 1..(Len(st) - 1) : base[i] <= base[i + 1] + Len(st[i + 1].proposed)

Covered(st, n, r) == \E base : IsBase(base, st, n, r)

Stacks == {st \in Seq(ProperFrame) : \A i \in 2..Len(st) : st[i].pc = "returned"}

IInv ==
    /\ TypeOK
    /\ Manipulator \in Traced
    /\ returned \in Seq(ProperAction)
    /\ stack \in Stacks
    /\ Covered(stack, Len(history), Len(returned))

LEMMA TopFacts ==
    ASSUME NEW st \in Stacks, st # <<>>
    PROVE  /\ Len(st) \in Nat /\ 1 <= Len(st)
           /\ Head(st) = st[1] /\ st[1] \in ProperFrame
           /\ Tail(st) \in Seq(ProperFrame) /\ Len(Tail(st)) = Len(st) - 1
           /\ \A i \in 1..(Len(st) - 1) : Tail(st)[i] = st[i + 1]
           /\ Tail(st) \in Stacks
<1>1. st \in Seq(ProperFrame) /\ \A i \in 2..Len(st) : st[i].pc = "returned"
  BY DEF Stacks
<1> HIDE DEF ProperFrame
<1>2. /\ Len(st) \in Nat /\ 1 <= Len(st)
      /\ Head(st) = st[1] /\ st[1] \in ProperFrame
      /\ Tail(st) \in Seq(ProperFrame) /\ Len(Tail(st)) = Len(st) - 1
      /\ \A i \in 1..(Len(st) - 1) : Tail(st)[i] = st[i + 1]
  BY <1>1
<1>3. \A i \in 2..(Len(st) - 1) : Tail(st)[i].pc = "returned"
  BY <1>1, <1>2
<1> QED BY <1>2, <1>3 DEF Stacks

\* The top of the stack is replaced.
LEMMA ReplaceTop ==
    ASSUME NEW st \in Stacks, st # <<>>, NEW f \in ProperFrame
    PROVE  /\ <<f>> \o Tail(st) \in Stacks
           /\ <<f>> \o Tail(st) # <<>> /\ Len(<<f>> \o Tail(st)) = Len(st)
           /\ (<<f>> \o Tail(st))[1] = f
           /\ \A i \in 2..Len(st) : (<<f>> \o Tail(st))[i] = st[i]
<1> DEFINE t == Tail(st)
           u == <<f>> \o t
<1>1. /\ Len(st) \in Nat /\ 1 <= Len(st) /\ t \in Seq(ProperFrame) /\ Len(t) = Len(st) - 1
      /\ \A i \in 1..(Len(st) - 1) : t[i] = st[i + 1]
      /\ \A i \in 2..Len(st) : st[i].pc = "returned"
  BY TopFacts DEF Stacks
<1> HIDE DEF t
<1>2. u \in Seq(ProperFrame) /\ Len(u) = Len(st) /\ u[1] = f
      /\ \A i \in 2..Len(st) : u[i] = t[i - 1]
  BY <1>1
<1> HIDE DEF u
<1>3. \A i \in 2..Len(st) : u[i] = st[i]
  BY <1>1, <1>2
<1>4. u \in Stacks
  BY <1>1, <1>2, <1>3 DEF Stacks
<1> QED BY <1>1, <1>2, <1>3, <1>4 DEF u, t

LEMMA ReplaceCovered ==
    ASSUME NEW st \in Stacks, st # <<>>, NEW f \in ProperFrame,
           NEW n \in Nat, NEW r \in Nat, NEW n2 \in Nat, NEW r2 \in Nat,
           Covered(st, n, r),
           Excess(n2, f, r2) <= Excess(n, st[1], r) \/ Excess(n2, f, r2) <= 0
    PROVE  Covered(<<f>> \o Tail(st), n2, r2)
<1> DEFINE u == <<f>> \o Tail(st)
<1>1. PICK base : IsBase(base, st, n, r)
  BY DEF Covered
<1>2. /\ Len(st) \in Nat /\ 1 <= Len(st) /\ u # <<>> /\ Len(u) = Len(st) /\ u[1] = f
      /\ \A i \in 2..Len(st) : u[i] = st[i]
  BY ReplaceTop, TopFacts
<1>3. /\ base \in [1..Len(st) -> Nat] /\ base[Len(st)] = 0 /\ Excess(n, st[1], r) <= base[1]
      /\ \A i \in 1..(Len(st) - 1) : base[i] <= base[i + 1] + Len(st[i + 1].proposed)
  BY <1>1 DEF IsBase
<1>4. Excess(n, st[1], r) \in Int /\ Excess(n2, f, r2) \in Int
  BY TopFacts DEF Excess, ProperFrame
<1> HIDE DEF u
<1>5. Excess(n2, u[1], r2) <= base[1]
  BY <1>2, <1>3, <1>4
<1>6. \A i \in 1..(Len(u) - 1) : base[i] <= base[i + 1] + Len(u[i + 1].proposed)
  BY <1>2, <1>3
<1>7. IsBase(base, u, n2, r2)
  BY <1>2, <1>3, <1>5, <1>6 DEF IsBase
<1> QED BY <1>7 DEF Covered, u

\* A call is put upon the call that waits for it.
LEMMA PushTop ==
    ASSUME NEW st \in Stacks, st # <<>>, NEW c \in ProperFrame, NEW f \in ProperFrame,
           f.pc = "returned"
    PROVE  /\ <<c, f>> \o Tail(st) \in Stacks
           /\ <<c, f>> \o Tail(st) # <<>> /\ Len(<<c, f>> \o Tail(st)) = Len(st) + 1
           /\ (<<c, f>> \o Tail(st))[1] = c /\ (<<c, f>> \o Tail(st))[2] = f
           /\ \A i \in 2..Len(st) : (<<c, f>> \o Tail(st))[i + 1] = st[i]
<1> DEFINE t == Tail(st)
           u == <<c, f>> \o t
<1>1. /\ Len(st) \in Nat /\ 1 <= Len(st) /\ t \in Seq(ProperFrame) /\ Len(t) = Len(st) - 1
      /\ \A i \in 1..(Len(st) - 1) : t[i] = st[i + 1]
      /\ \A i \in 2..Len(st) : st[i].pc = "returned"
  BY TopFacts DEF Stacks
<1> HIDE DEF t
<1>2. u \in Seq(ProperFrame) /\ Len(u) = Len(st) + 1 /\ u[1] = c /\ u[2] = f
      /\ \A i \in 3..(Len(st) + 1) : u[i] = t[i - 2]
  BY <1>1
<1> HIDE DEF u
<1>3. \A i \in 2..Len(st) : u[i + 1] = st[i]
  <2> TAKE i \in 2..Len(st)
  <2>1. i + 1 \in 3..(Len(st) + 1) /\ i - 1 \in 1..(Len(st) - 1)
    BY <1>1
  <2>2. u[i + 1] = t[i - 1] /\ t[i - 1] = st[i]
    BY <1>1, <1>2, <2>1
  <2> QED BY <2>2
<1>4. \A i \in 2..Len(u) : u[i].pc = "returned"
  <2> TAKE i \in 2..Len(u)
  <2>1. i = 2 \/ i - 1 \in 2..Len(st)
    BY <1>1, <1>2
  <2>2. i - 1 \in 2..Len(st) => u[i] = st[i - 1]
    BY <1>1, <1>2, <1>3
  <2> QED BY <1>1, <1>2, <2>1, <2>2
<1>5. u \in Stacks
  BY <1>2, <1>4 DEF Stacks
<1> QED BY <1>1, <1>2, <1>3, <1>5 DEF u, t

LEMMA PushCovered ==
    ASSUME NEW st \in Stacks, st # <<>>, NEW c \in ProperFrame, NEW f \in ProperFrame,
           f.pc = "returned", f.proposed = st[1].proposed, st[1].pc # "returned",
           NEW n \in Nat, NEW r \in Nat, NEW r2 \in Nat, Covered(st, n, r)
    PROVE  Covered(<<c, f>> \o Tail(st), n, r2)
<1> DEFINE u == <<c, f>> \o Tail(st)
           k == Len(st)
<1>1. PICK base : IsBase(base, st, n, r)
  BY DEF Covered
<1>2. /\ k \in Nat /\ 1 <= k /\ u # <<>> /\ Len(u) = k + 1 /\ u[1] = c /\ u[2] = f
      /\ \A i \in 2..k : u[i + 1] = st[i]
  BY PushTop, TopFacts
<1>3. /\ base \in [1..k -> Nat] /\ base[k] = 0 /\ Excess(n, st[1], r) <= base[1]
      /\ \A i \in 1..(k - 1) : base[i] <= base[i + 1] + Len(st[i + 1].proposed)
  BY <1>1 DEF IsBase
<1>4. /\ Len(f.proposed) \in Nat /\ Len(c.proposed) \in Nat
      /\ Excess(n, st[1], r) = n - Len(f.proposed)
      /\ Excess(n, c, r2) \in Int /\ Excess(n, c, r2) <= n
  <2>1. Len(f.proposed) \in Nat /\ Len(c.proposed) \in Nat
    BY DEF ProperFrame
  <2>2. Excess(n, st[1], r) = n - Len(f.proposed)
    BY <2>1 DEF Excess
  <2>3. Excess(n, c, r2) \in Int /\ Excess(n, c, r2) <= n
    <3> DEFINE back == IF c.pc = "returned" THEN r2 ELSE 0
           L == Len(c.proposed)
           e == Excess(n, c, r2)
    <3>1. back \in Nat /\ L \in Nat /\ n \in Nat /\ e = n - L - back
      BY <2>1 DEF Excess
    <3> HIDE DEF back, L, e
    <3>2. e \in Int /\ e <= n
      BY <3>1
    <3> QED BY <3>2 DEF e
  <2> QED BY <2>1, <2>2, <2>3
<1> HIDE DEF u, k
<1> DEFINE b == [i \in 1..(k + 1) |-> IF i = 1 THEN base[1] + Len(f.proposed) ELSE base[i - 1]]
<1>5. b \in [1..(k + 1) -> Nat] /\ b[1] = base[1] + Len(f.proposed)
      /\ \A i \in 1..k : b[i + 1] = base[i]
  BY <1>2, <1>3, <1>4
<1> HIDE DEF b
<1>6. b[k + 1] = 0 /\ Excess(n, u[1], r2) <= b[1]
  BY <1>2, <1>3, <1>4, <1>5
<1>7. \A i \in 1..k : b[i] <= b[i + 1] + Len(u[i + 1].proposed)
  <2> TAKE i \in 1..k
  <2>1. CASE i = 1
    BY <1>2, <1>3, <1>4, <1>5, <2>1
  <2>2. CASE i # 1
    <3>1. i - 1 \in 1..(k - 1) /\ i - 1 \in 1..k /\ i \in 2..k
      BY <1>2, <2>2
    <3>2. b[i] = base[i - 1] /\ b[i + 1] = base[i] /\ u[i + 1] = st[i]
      BY <1>2, <1>5, <3>1
    <3>3. base[i - 1] <= base[i] + Len(st[i].proposed)
      BY <1>3, <3>1
    <3> QED BY <3>2, <3>3
  <2> QED BY <2>1, <2>2
<1>8. IsBase(b, u, n, r2)
  BY <1>2, <1>5, <1>6, <1>7 DEF IsBase
<1> QED BY <1>8 DEF Covered, u

\* The call that has proposed nothing more returns what it has done again.
LEMMA PopCovered ==
    ASSUME NEW st \in Stacks, st # <<>>, st[1].pc = "slot",
           NEW n \in Nat, NEW r \in Nat, NEW n2 \in Nat, NEW r2 \in Nat,
           Covered(st, n, r), n2 <= n + r2
    PROVE  Covered(Tail(st), n2, r2)
<1> DEFINE u == Tail(st)
           k == Len(st)
<1>1. PICK base : IsBase(base, st, n, r)
  BY DEF Covered
<1>2. /\ k \in Nat /\ 1 <= k /\ u \in Seq(ProperFrame) /\ Len(u) = k - 1
      /\ \A i \in 1..(k - 1) : u[i] = st[i + 1]
      /\ st[1] \in ProperFrame /\ \A i \in 2..k : st[i] \in ProperFrame /\ st[i].pc = "returned"
  BY TopFacts DEF Stacks
<1>3. /\ base \in [1..k -> Nat] /\ base[k] = 0 /\ Excess(n, st[1], r) <= base[1]
      /\ \A i \in 1..(k - 1) : base[i] <= base[i + 1] + Len(st[i + 1].proposed)
  BY <1>1 DEF IsBase
<1>4. n <= base[1]
  <2>1. st[1].proposed = <<>> /\ st[1].pc # "returned"
    BY <1>2 DEF ProperFrame
  <2>2. Excess(n, st[1], r) = n
    BY <2>1 DEF Excess
  <2> QED BY <1>3, <2>2
<1> HIDE DEF u, k
<1> DEFINE b == [i \in 1..(k - 1) |-> base[i + 1]]
<1>5. b \in [1..(k - 1) -> Nat] /\ \A i \in 1..(k - 1) : b[i] = base[i + 1]
  BY <1>2, <1>3
<1> HIDE DEF b
<1>6. ASSUME u # <<>> PROVE b[k - 1] = 0 /\ Excess(n2, u[1], r2) <= b[1]
  <2>1. k - 1 \in 1..(k - 1) /\ 1 \in 1..(k - 1) /\ 2 \in 2..k
    BY <1>2, <1>6
  <2>2. u[1] = st[2] /\ st[2] \in ProperFrame /\ st[2].pc = "returned"
        /\ b[1] = base[2] /\ b[k - 1] = base[k]
        /\ base[1] <= base[2] + Len(st[2].proposed) /\ base[1] \in Nat /\ base[2] \in Nat
    BY <1>2, <1>3, <1>5, <2>1
  <2>3. Len(st[2].proposed) \in Nat
    BY <2>2 DEF ProperFrame
  <2>4. Excess(n2, u[1], r2) = n2 - Len(st[2].proposed) - r2
    BY <2>2 DEF Excess
  <2> QED BY <1>3, <1>4, <2>2, <2>3, <2>4
<1>7. \A i \in 1..(k - 2) : b[i] <= b[i + 1] + Len(u[i + 1].proposed)
  <2> TAKE i \in 1..(k - 2)
  <2>1. i + 1 \in 1..(k - 1) /\ i \in 1..(k - 1) /\ (i + 1) + 1 = i + 2
    BY <1>2
  <2>2. b[i] = base[i + 1] /\ b[i + 1] = base[i + 2] /\ u[i + 1] = st[i + 2]
    BY <1>2, <1>5, <2>1
  <2>3. base[i + 1] <= base[i + 2] + Len(st[i + 2].proposed)
    BY <1>3, <2>1
  <2> QED BY <2>2, <2>3
<1>8. IsBase(b, u, n2, r2)
  <2>1. (k - 1) - 1 = k - 2
    BY <1>2
  <2> QED BY <1>2, <1>5, <1>6, <1>7, <2>1 DEF IsBase
<1> QED BY <1>8 DEF Covered, u

\* The schedules on the way do not depend on anything but the loaded one.
LEMMA LoadedStays ==
    ASSUME loaded' = loaded
    PROVE  Traced' = Traced
<1>1. ASSUME NEW t PROVE Available(t)' = Available(t)
  BY DEF Available
<1>2. ASSUME NEW a PROVE CheckSchedule(a)' = CheckSchedule(a)
  BY <1>1 DEF CheckSchedule
<1>3. ASSUME NEW a PROVE Good(a)' <=> Good(a)
  BY <1>2 DEF Good, Valid
<1>4. ASSUME NEW a, NEW s, NEW T PROVE TeachersAvailable(a, s, T)' <=> TeachersAvailable(a, s, T)
  BY <1>1 DEF TeachersAvailable
<1>5. ASSUME NEW a, NEW s, NEW S PROVE Fits(a, s, S)' <=> Fits(a, s, S)
  BY <1>4 DEF Fits
<1>6. ASSUME NEW m, NEW act PROVE Legal(m, act)' <=> Legal(m, act)
  BY <1>5 DEF Legal, CheckScheduleSection, CheckMoveSection
<1>7. ASSUME NEW m, NEW act PROVE PerformAction(m, act)' = PerformAction(m, act)
  BY <1>6 DEF PerformAction
<1>8. ASSUME NEW a, NEW act, NEW b PROVE Leads(a, act, b)' <=> Leads(a, act, b)
  BY <1>7 DEF Leads
<1>9. ASSUME NEW m, NEW g PROVE Path(m, g)' <=> Path(m, g)
  BY <1>3, <1>8 DEF Path
<1> QED BY <1>9 DEF Traced

\* What every step has to show.
LEMMA Closing ==
    ASSUME loaded \in Loaded, loaded' = loaded, NEW m \in Traced, Becomes(m),
           stack' \in Stacks, returned' \in Seq(ProperAction), late' \in BOOLEAN,
           Covered(stack', Len(m.history), Len(returned'))
    PROVE  IInv'
<1>1. /\ m.assigned \in Schedules /\ m.history \in Seq(ProperAction)
      /\ m = [assigned |-> m.assigned, history |-> m.history]
  BY TracedFacts
<1>2. assigned' = m.assigned /\ history' = m.history
  BY DEF Becomes
<1>3. ProperAction \subseteq Action /\ ProperFrame \subseteq Frame
  BY DEF ProperAction, ProperFrame
<1>4. stack' \in Seq(ProperFrame)
  BY DEF Stacks
<1>5. history' \in Seq(Action) /\ returned' \in Seq(Action) /\ stack' \in Seq(Frame)
  <2> HIDE DEF Action, Frame, ProperAction, ProperFrame
  <2> QED BY <1>1, <1>2, <1>3, <1>4
<1>6. TypeOK'
  BY <1>1, <1>2, <1>5 DEF TypeOK, Schedules
<1>7. Manipulator' \in Traced'
  <2>1. Manipulator' = m
    BY <1>1, <1>2 DEF Manipulator
  <2> QED BY <2>1, LoadedStays
<1>8. Covered(stack, Len(history), Len(returned))'
  BY <1>2
<1> QED BY <1>6, <1>7, <1>8 DEF IInv

LEMMA CallFacts ==
    ASSUME \A s \in Sections : InOneBlock(assigned, s), NEW s \in Sections, NEW d \in 1..Depth
    PROVE  /\ Call(s, d) \in ProperFrame
           /\ Call(s, d).pc = "slot" /\ Call(s, d).proposed = <<>>
<1>1. score_schedule(assigned) \in Int
  BY ScoreTyped
<1>2. Call(s, d) \in Frame
  BY <1>1 DEF Call, Frame
<1> DEFINE c == Call(s, d)
<1>3. c.best_actions = <<>> /\ c.proposed = <<>> /\ c.next = 1 /\ c.pc = "slot"
  BY DEF Call
<1>4. <<>> \in Seq(ProperAction)
  OBVIOUS
<1> HIDE DEF c
<1>5. c \in ProperFrame
  <2>1. c \in Frame
    BY <1>2 DEF c
  <2>2. c.next >= 1 /\ c.pc # "returned"
    BY <1>3
  <2>3. c.best_actions \in Seq(ProperAction) /\ c.proposed \in Seq(ProperAction)
    BY <1>3, <1>4
  <2> QED BY <1>3, <2>1, <2>2, <2>3 DEF ProperFrame
<1> QED BY <1>3, <1>5 DEF c

LEMMA InitIInv == Init => IInv
<1> SUFFICES ASSUME Init PROVE IInv
  OBVIOUS
<1>1. loaded \in Loaded /\ Valid(loaded) /\ assigned = loaded /\ history = <<>>
      /\ returned = <<>> /\ late = FALSE
  BY DEF Init, None
<1>2. loaded \in Schedules /\ \A s \in Sections : InOneBlock(loaded, s)
  BY <1>1, SchedulerAssumption, LoadedAssumption DEF Schedules
<1>3. Manipulator \in Traced
  <2>1. Good(loaded)
    BY <1>1, <1>2 DEF Good
  <2>2. Manipulator = From(loaded)
    BY <1>1 DEF Manipulator, From
  <2> QED BY <1>2, <2>1, <2>2, LoadedTraced
<1>4. PICK s \in Targets : stack = <<Call(s, Depth)>>
  BY DEF Init
<1> DEFINE c == Call(s, Depth)
<1>5. c \in ProperFrame /\ c.pc = "slot" /\ c.proposed = <<>>
  <2>1. Depth \in 1..Depth /\ s \in Sections
    BY SchedulerAssumption
  <2> QED BY <1>1, <1>2, <2>1, CallFacts
<1> HIDE DEF c
<1>6. stack \in Seq(ProperFrame) /\ Len(stack) = 1 /\ stack[1] = c
  BY <1>4, <1>5 DEF c
<1>7. stack \in Stacks
  <2>1. \A i \in 2..Len(stack) : FALSE
    BY <1>6
  <2> QED BY <1>6, <2>1 DEF Stacks
<1>8. Covered(stack, Len(history), Len(returned))
  <2> DEFINE base == [i \in 1..1 |-> 0]
  <2>1. base \in [1..1 -> Nat] /\ base[1] = 0
    OBVIOUS
  <2>2. Excess(0, c, 0) = 0
    <3>1. Len(c.proposed) = 0 /\ ~(c.pc = "returned")
      BY <1>5
    <3> QED BY <3>1 DEF Excess
  <2> HIDE DEF base
  <2>3. IsBase(base, stack, 0, 0)
    BY <1>6, <2>1, <2>2 DEF IsBase
  <2>4. Len(history) = 0 /\ Len(returned) = 0
    BY <1>1
  <2> QED BY <2>3, <2>4 DEF Covered
<1>9. TypeOK
  <2>1. stack \in Seq(Frame)
    BY <1>6 DEF ProperFrame
  <2>2. history \in Seq(Action) /\ returned \in Seq(Action)
    BY <1>1
  <2> HIDE DEF Frame, Action
  <2> QED BY <1>1, <1>2, <2>1, <2>2 DEF TypeOK, Schedules
<1>10. returned \in Seq(ProperAction)
  BY <1>1
<1> QED BY <1>3, <1>7, <1>8, <1>9, <1>10 DEF IInv

LEMMA IInvFacts ==
    ASSUME IInv
    PROVE  /\ Manipulator \in Traced /\ Manipulator.assigned = assigned /\ Manipulator.history = history
           /\ loaded \in Loaded /\ late \in BOOLEAN
           /\ Good(assigned) /\ Len(history) \in Nat /\ history \in Seq(ProperAction)
           /\ returned \in Seq(ProperAction) /\ Len(returned) \in Nat
           /\ stack \in Stacks /\ Covered(stack, Len(history), Len(returned))
<1>1. Manipulator.assigned = assigned /\ Manipulator.history = history
  BY DEF Manipulator
<1> QED BY <1>1, TracedFacts DEF IInv, TypeOK

\* The sections to be thrown out are a sequence of sections.
LEMMA EvictedTyped ==
    ASSUME NEW s, NEW r, NEW others \in Evicted(s, r)
    PROVE  others \in Seq(Sections)
<1> DEFINE S == UNION {Occupants(assigned, q) : q \in RoomslotsFor(s, r)}
<1>1. S \subseteq Sections
  BY DEF Occupants
<1>2. others \in SetToSeqs(S)
  BY DEF Evicted
<1> HIDE DEF S
<1>3. others \in [1..Cardinality(S) -> S]
  BY <1>2 DEF SetToSeqs
<1>4. Cardinality(S) \in Nat
  BY <1>1, SchedulerAssumption, FS_Subset, FS_CardinalityType
<1> QED BY <1>1, <1>3, <1>4

\* The calls that the steps leave at the top.
LEMMA NextSlot ==
    ASSUME NEW f \in ProperFrame, f.pc = "slot"
    PROVE  LET g == [f EXCEPT !.next = @ + 1]
           IN  g \in ProperFrame /\ g.pc = "slot" /\ g.proposed = <<>>
<1> DEFINE g == [f EXCEPT !.next = @ + 1]
<1>1. f \in Frame /\ f.proposed = <<>> /\ f.next >= 1 /\ f.best_actions \in Seq(ProperAction)
  BY DEF ProperFrame
<1>2. g \in Frame
  BY <1>1 DEF Frame
<1>3. /\ g.pc = "slot" /\ g.proposed = <<>> /\ g.best_actions = f.best_actions
      /\ g.next = f.next + 1 /\ f.next \in Nat
  BY <1>1 DEF Frame
<1> HIDE DEF g
<1>4. g.next >= 1 /\ g.pc # "returned" /\ <<>> \in Seq(ProperAction)
  BY <1>1, <1>3
<1>5. g \in ProperFrame
  BY <1>1, <1>2, <1>3, <1>4 DEF ProperFrame
<1> QED BY <1>3, <1>5 DEF g

Proposed(f, others, proposed) ==
    [f EXCEPT !.others = others, !.pc = "recurse", !.proposed = proposed]

LEMMA Proposing ==
    ASSUME NEW f \in ProperFrame, NEW others \in Seq(Sections), NEW proposed \in Seq(ProperAction)
    PROVE  /\ Proposed(f, others, proposed) \in ProperFrame
           /\ Proposed(f, others, proposed).pc = "recurse"
           /\ Proposed(f, others, proposed).proposed = proposed
<1> DEFINE g == [f EXCEPT !.others = others, !.pc = "recurse", !.proposed = proposed]
<1>1. f \in Frame /\ f.next >= 1 /\ f.best_actions \in Seq(ProperAction)
  BY DEF ProperFrame
<1>2. proposed \in Seq(Action)
  BY DEF ProperAction
<1>3. g \in Frame
  BY <1>1, <1>2 DEF Frame
<1>4. /\ g.pc = "recurse" /\ g.proposed = proposed /\ g.best_actions = f.best_actions
      /\ g.next = f.next
  BY <1>1 DEF Frame
<1> HIDE DEF g
<1>5. g.pc # "returned" /\ g.pc # "slot"
  BY <1>4
<1>6. g \in ProperFrame
  BY <1>1, <1>3, <1>4, <1>5 DEF ProperFrame
<1> QED BY <1>4, <1>6 DEF g, Proposed

LEMMA TrySlotStep == IInv /\ stack # <<>> /\ TrySlot => IInv'
<1> SUFFICES ASSUME IInv, stack # <<>>, TrySlot PROVE IInv'
  OBVIOUS
<1>1. PICK others \in Evicted(Top.section, Slots[Top.next]) : TryEvicting(others)
  BY DEF TrySlot
<1> DEFINE s == Top.section
           r == Slots[Top.next]
           evictions == [i \in DOMAIN others |-> Act("unschedule", others[i], None, None)]
           cleared == PerformAll(Manipulator, evictions)
           kind == IF IsScheduled(cleared.assigned, s) THEN "move" ELSE "schedule"
           act == Act(kind, s, r, None)
           placed == PerformAction(cleared, act)
           n == Len(placed.history) - Len(history)
           proposed == SubSeq(placed.history, Len(history) + 1, Len(history) + n)
           next == [Top EXCEPT !.next = @ + 1]
           self == Proposed(Top, others, proposed)
           back == IF Top.depth = 1 THEN Manipulator ELSE Revert(cleared, Len(others))
<1>2. /\ Manipulator \in Traced /\ Manipulator.history = history
      /\ loaded \in Loaded /\ late \in BOOLEAN /\ Len(history) \in Nat
      /\ returned \in Seq(ProperAction) /\ Len(returned) \in Nat
      /\ stack \in Stacks /\ Covered(stack, Len(history), Len(returned))
  BY IInvFacts
<1>3. Top = stack[1] /\ Top \in ProperFrame /\ Rest = Tail(stack)
  BY <1>2, TopFacts DEF Top, Rest
<1>4. /\ Top.pc = "slot" /\ Top.proposed = <<>> /\ Top.next \in Nat /\ 1 <= Top.next
      /\ Top.next <= Len(Slots) /\ s \in Sections
  BY <1>3 DEF TrySlot, ProperFrame, Frame
<1>5. r \in Range(Slots)
  BY <1>4, SchedulerAssumption DEF Range
<1>6. others \in Seq(Sections) /\ Len(others) \in Nat
  BY <1>1, EvictedTyped
<1>7. evictions \in Seq(ProperAction) /\ Len(evictions) = Len(others)
  <2>1. \A i \in DOMAIN others : Act("unschedule", others[i], None, None) \in ProperAction
    BY <1>6 DEF Act, ProperAction, Action
  <2> QED BY <1>6, <2>1
<1>8. act \in ProperAction
  BY <1>4, <1>5 DEF Act, ProperAction, Action
<1>9. \/ stack' = <<next>> \o Rest /\ Becomes(back)
      \/ stack' = <<self>> \o Rest /\ Becomes(placed)
  BY <1>1 DEF TryEvicting, Proposed
<1>10. UNCHANGED <<loaded, returned, late>>
  BY <1>1 DEF TryEvicting
<1> HIDE DEF evictions, act, s, r
<1>11. /\ cleared \in Traced /\ cleared.history \in Seq(ProperAction) /\ Len(cleared.history) \in Nat
       /\ Len(history) <= Len(cleared.history)
       /\ Len(cleared.history) <= Len(history) + Len(others)
  BY <1>2, <1>7, PerformAllTraced, TracedFacts
<1> HIDE DEF cleared
<1>12. /\ placed \in Traced /\ placed.history \in Seq(ProperAction) /\ Len(placed.history) \in Nat
       /\ Len(history) <= Len(placed.history)
  BY <1>2, <1>8, <1>11, PerformTraced, TracedFacts
<1> HIDE DEF placed
<1>13. back \in Traced /\ Len(back.history) \in Nat /\ Len(back.history) <= Len(history)
  BY <1>2, <1>6, <1>11, RevertTraced, TracedFacts
<1> HIDE DEF back
<1>14. proposed \in Seq(ProperAction) /\ Len(proposed) = n
  BY <1>2, <1>12
<1> HIDE DEF proposed
<1>15. next \in ProperFrame /\ next.pc = "slot" /\ next.proposed = <<>>
  BY <1>3, <1>4, NextSlot
<1>16. self \in ProperFrame /\ self.pc = "recurse" /\ self.proposed = proposed
  BY <1>3, <1>6, <1>14, Proposing
<1> HIDE DEF next, self
<1>17. Excess(Len(history), stack[1], Len(returned)) = Len(history)
  BY <1>2, <1>3, <1>4 DEF Excess
<1>18. CASE stack' = <<next>> \o Rest /\ Becomes(back)
  <2>1. Excess(Len(back.history), next, Len(returned)) = Len(back.history)
    BY <1>13, <1>15 DEF Excess
  <2>2. Covered(<<next>> \o Tail(stack), Len(back.history), Len(returned))
    BY <1>2, <1>13, <1>15, <1>17, <2>1, ReplaceCovered
  <2>3. stack' \in Stacks
    BY <1>2, <1>3, <1>15, <1>18, ReplaceTop
  <2> QED BY <1>2, <1>3, <1>10, <1>13, <1>18, <2>2, <2>3, Closing
<1>19. CASE stack' = <<self>> \o Rest /\ Becomes(placed)
  <2>1. Excess(Len(placed.history), self, Len(returned)) = Len(history)
    BY <1>2, <1>12, <1>14, <1>16 DEF Excess
  <2>2. Covered(<<self>> \o Tail(stack), Len(placed.history), Len(returned))
    BY <1>2, <1>12, <1>16, <1>17, <2>1, ReplaceCovered
  <2>3. stack' \in Stacks
    BY <1>2, <1>3, <1>16, <1>19, ReplaceTop
  <2> QED BY <1>2, <1>3, <1>10, <1>12, <1>19, <2>2, <2>3, Closing
<1> QED BY <1>9, <1>18, <1>19

LEMMA Waiting ==
    ASSUME NEW f \in ProperFrame, f.others # <<>>
    PROVE  LET g == [f EXCEPT !.pc = "returned"]
           IN  g \in ProperFrame /\ g.pc = "returned" /\ g.proposed = f.proposed
<1> DEFINE g == [f EXCEPT !.pc = "returned"]
<1>1. /\ f \in Frame /\ f.next >= 1 /\ f.best_actions \in Seq(ProperAction)
      /\ f.proposed \in Seq(ProperAction)
  BY DEF ProperFrame
<1>2. g \in Frame
  BY <1>1 DEF Frame
<1>3. /\ g.pc = "returned" /\ g.proposed = f.proposed /\ g.best_actions = f.best_actions
      /\ g.next = f.next /\ g.others = f.others
  BY <1>1 DEF Frame
<1> HIDE DEF g
<1>4. g.pc # "slot"
  BY <1>3
<1>5. g \in ProperFrame
  BY <1>1, <1>2, <1>3, <1>4 DEF ProperFrame
<1> QED BY <1>3, <1>5 DEF g

LEMMA RecurseStep == IInv /\ stack # <<>> /\ Recurse => IInv'
<1> SUFFICES ASSUME IInv, stack # <<>>, Recurse PROVE IInv'
  OBVIOUS
<1> DEFINE s == Head(Top.others)
           self == [Top EXCEPT !.pc = "returned"]
           c == Call(s, Top.depth - 1)
<1>1. /\ Manipulator \in Traced /\ Manipulator.history = history /\ Manipulator.assigned = assigned
      /\ loaded \in Loaded /\ late \in BOOLEAN /\ Len(history) \in Nat /\ Good(assigned)
      /\ returned \in Seq(ProperAction) /\ Len(returned) \in Nat
      /\ stack \in Stacks /\ Covered(stack, Len(history), Len(returned))
  BY IInvFacts
<1>2. Top = stack[1] /\ Top \in ProperFrame /\ Rest = Tail(stack)
  BY <1>1, TopFacts DEF Top, Rest
<1>3. Top.pc = "recurse" /\ Top.others # <<>> /\ UNCHANGED <<loaded, assigned, history, late>>
  BY DEF Recurse
<1>4. self \in ProperFrame /\ self.pc = "returned" /\ self.proposed = Top.proposed
  BY <1>2, <1>3, Waiting
<1>5. Top.depth \in 1..Depth /\ Top.others \in Seq(Sections) /\ Len(Top.proposed) \in Nat
  BY <1>2 DEF ProperFrame, Frame
<1>6. s \in Sections
  BY <1>3, <1>5
<1>7. Becomes(Manipulator)
  BY <1>1, <1>3 DEF Becomes
<1>8. Excess(Len(history), stack[1], Len(returned)) = Len(history) - Len(Top.proposed)
  BY <1>1, <1>2, <1>3, <1>5 DEF Excess
<1>9. CASE Top.depth = 1 \/ late
  <2>1. stack' = <<self>> \o Rest /\ returned' = <<>>
    BY <1>9 DEF Recurse
  <2> HIDE DEF self
  <2>2. returned' \in Seq(ProperAction) /\ Len(returned') = 0
    BY <2>1
  <2>3. Excess(Len(history), self, 0) = Len(history) - Len(Top.proposed)
    BY <1>1, <1>4, <1>5 DEF Excess
  <2>4. Covered(<<self>> \o Tail(stack), Len(history), 0)
    BY <1>1, <1>4, <1>5, <1>8, <2>3, ReplaceCovered
  <2>5. stack' \in Stacks
    BY <1>1, <1>2, <1>4, <2>1, ReplaceTop
  <2> QED BY <1>1, <1>2, <1>3, <1>7, <2>1, <2>2, <2>4, <2>5, Closing
<1>10. CASE ~(Top.depth = 1 \/ late)
  <2>1. stack' = <<c, self>> \o Rest /\ returned' = returned
    BY <1>10 DEF Recurse
  <2>2. Top.depth - 1 \in 1..Depth
    BY <1>5, <1>10, SchedulerAssumption
  <2>3. c \in ProperFrame /\ c.pc = "slot" /\ c.proposed = <<>>
    BY <1>1, <1>6, <2>2, CallFacts DEF Good
  <2> HIDE DEF self, c
  <2>4. Top.pc # "returned"
    BY <1>3
  <2>5. Covered(<<c, self>> \o Tail(stack), Len(history), Len(returned))
    BY <1>1, <1>2, <1>4, <2>3, <2>4, PushCovered
  <2>6. stack' \in Stacks
    BY <1>1, <1>2, <1>4, <2>1, <2>3, PushTop
  <2> QED BY <1>1, <1>2, <1>3, <1>7, <2>1, <2>5, <2>6, Closing
<1> QED BY <1>9, <1>10

LEMMA ReturnedStep == IInv /\ stack # <<>> /\ Returned => IInv'
<1> SUFFICES ASSUME IInv, stack # <<>>, Returned PROVE IInv'
  OBVIOUS
<1> DEFINE s == Head(Top.others)
           proposed == Top.proposed \o returned
           rest == Tail(Top.others)
           self == Proposed(Top, rest, proposed)
           m == IF IsScheduled(assigned, s) THEN Manipulator
                ELSE Revert(Manipulator, Len(proposed))
<1>1. /\ Manipulator \in Traced /\ Manipulator.history = history
      /\ loaded \in Loaded /\ late \in BOOLEAN /\ Len(history) \in Nat
      /\ returned \in Seq(ProperAction) /\ Len(returned) \in Nat
      /\ stack \in Stacks /\ Covered(stack, Len(history), Len(returned))
  BY IInvFacts
<1>2. Top = stack[1] /\ Top \in ProperFrame /\ Rest = Tail(stack)
  BY <1>1, TopFacts DEF Top, Rest
<1>3. /\ Top.pc = "returned" /\ Becomes(m) /\ UNCHANGED <<loaded, returned, late>>
  BY DEF Returned
<1>4. stack' = <<self>> \o Rest
  <2>1. self = [Top EXCEPT !.others = Tail(@), !.proposed = proposed, !.pc = "recurse"]
    BY DEF Proposed
  <2> QED BY <2>1 DEF Returned
<1>5. Top.others \in Seq(Sections) /\ Top.others # <<>> /\ Top.proposed \in Seq(ProperAction)
  BY <1>2, <1>3 DEF ProperFrame, Frame
<1>6. rest \in Seq(Sections) /\ Len(Top.proposed) \in Nat
  BY <1>5
<1>7. proposed \in Seq(ProperAction) /\ Len(proposed) = Len(Top.proposed) + Len(returned)
  BY <1>1, <1>5
<1> HIDE DEF rest, proposed
<1>8. self \in ProperFrame /\ self.pc = "recurse" /\ self.proposed = proposed
  BY <1>2, <1>6, <1>7, Proposing
<1> HIDE DEF self
<1>9. Len(proposed) \in Nat
  BY <1>7
<1>10. m \in Traced /\ Len(m.history) \in Nat /\ Len(m.history) <= Len(history)
  <2> DEFINE k == Revert(Manipulator, Len(proposed))
  <2>1. k \in Traced /\ Len(k.history) \in Nat /\ Len(k.history) <= Len(history)
    BY <1>1, <1>9, RevertTraced, TracedFacts
  <2> HIDE DEF k
  <2>2. m = Manipulator \/ m = k
    BY DEF k
  <2> HIDE DEF m
  <2> QED BY <1>1, <2>1, <2>2
<1> HIDE DEF m
<1>11. Excess(Len(history), stack[1], Len(returned)) = Len(history) - Len(proposed)
  <2>1. Excess(Len(history), stack[1], Len(returned))
           = Len(history) - Len(Top.proposed) - Len(returned)
    BY <1>2, <1>3 DEF Excess
  <2> QED BY <1>1, <1>6, <1>7, <2>1
<1>12. Excess(Len(m.history), self, Len(returned)) = Len(m.history) - Len(proposed)
  BY <1>8, <1>9, <1>10 DEF Excess
<1>13. Covered(<<self>> \o Tail(stack), Len(m.history), Len(returned))
  <2>1. Excess(Len(m.history), self, Len(returned)) <= Excess(Len(history), stack[1], Len(returned))
    BY <1>1, <1>9, <1>10, <1>11, <1>12
  <2> QED BY <1>1, <1>8, <1>10, <2>1, ReplaceCovered
<1>14. stack' \in Stacks
  BY <1>1, <1>2, <1>4, <1>8, ReplaceTop
<1> QED BY <1>1, <1>2, <1>3, <1>4, <1>10, <1>13, <1>14, Closing

Compared(f, best_score, best_actions) ==
    [[f EXCEPT !.best_score = best_score, !.best_actions = best_actions]
        EXCEPT !.proposed = <<>>, !.next = @ + 1, !.pc = "slot"]

LEMMA Comparing ==
    ASSUME NEW f \in ProperFrame, NEW best_score \in Int, NEW best_actions \in Seq(ProperAction)
    PROVE  /\ Compared(f, best_score, best_actions) \in ProperFrame
           /\ Compared(f, best_score, best_actions).pc = "slot"
           /\ Compared(f, best_score, best_actions).proposed = <<>>
<1> DEFINE g == Compared(f, best_score, best_actions)
<1>1. f \in Frame /\ f.next >= 1
  BY DEF ProperFrame
<1>2. best_actions \in Seq(Action)
  BY DEF ProperAction
<1>3. g \in Frame
  <2> DEFINE h == [f EXCEPT !.best_score = best_score, !.best_actions = best_actions]
  <2>1. h \in Frame
    BY <1>1, <1>2 DEF Frame
  <2>2. g = [h EXCEPT !.proposed = <<>>, !.next = @ + 1, !.pc = "slot"]
    BY DEF Compared
  <2> HIDE DEF h, g
  <2>3. h.next + 1 \in Nat /\ <<>> \in Seq(Action)
    BY <2>1 DEF Frame
  <2> QED BY <2>1, <2>2, <2>3 DEF Frame
<1>4. /\ g.pc = "slot" /\ g.proposed = <<>> /\ g.best_actions = best_actions
      /\ g.next = f.next + 1 /\ f.next \in Nat
  BY <1>1 DEF Frame, Compared
<1> HIDE DEF g
<1>5. g.pc # "returned" /\ g.next >= 1 /\ <<>> \in Seq(ProperAction)
  BY <1>1, <1>4
<1>6. g \in ProperFrame
  BY <1>3, <1>4, <1>5 DEF ProperFrame
<1> QED BY <1>4, <1>6 DEF g

LEMMA CompareStep == IInv /\ stack # <<>> /\ Compare => IInv'
<1> SUFFICES ASSUME IInv, stack # <<>>, Compare PROVE IInv'
  OBVIOUS
<1> DEFINE score == score_schedule(assigned)
           better == score > Top.best_score
           best_score == IF better THEN score ELSE Top.best_score
           best_actions == IF better THEN Top.proposed ELSE Top.best_actions
           self == Compared(Top, best_score, best_actions)
           m == Revert(Manipulator, Len(Top.proposed))
<1>1. /\ Manipulator \in Traced /\ Manipulator.history = history
      /\ loaded \in Loaded /\ late \in BOOLEAN /\ Len(history) \in Nat /\ Good(assigned)
      /\ returned \in Seq(ProperAction) /\ Len(returned) \in Nat
      /\ stack \in Stacks /\ Covered(stack, Len(history), Len(returned))
  BY IInvFacts
<1>2. Top = stack[1] /\ Top \in ProperFrame /\ Rest = Tail(stack)
  BY <1>1, TopFacts DEF Top, Rest
<1>3. Top.pc = "recurse" /\ Becomes(m) /\ UNCHANGED <<loaded, returned, late>>
  BY DEF Compare
<1>4. stack' = <<self>> \o Rest
  <2>1. self = [Top EXCEPT !.best_score = IF better THEN score ELSE @,
                           !.best_actions = IF better THEN Top.proposed ELSE @,
                           !.proposed = <<>>, !.next = @ + 1, !.pc = "slot"]
    BY DEF Compared
  <2> QED BY <2>1 DEF Compare
<1>5. /\ Top.best_actions \in Seq(ProperAction) /\ Top.proposed \in Seq(ProperAction)
      /\ Top.best_score \in Int
  BY <1>2 DEF ProperFrame, Frame
<1>6. score \in Int
  BY <1>1, ScoreTyped DEF Good
<1>7. best_score \in Int /\ best_actions \in Seq(ProperAction)
  BY <1>5, <1>6
<1> HIDE DEF best_score, best_actions
<1>8. self \in ProperFrame /\ self.pc = "slot" /\ self.proposed = <<>>
  BY <1>2, <1>7, Comparing
<1> HIDE DEF self
<1>9. Len(Top.proposed) \in Nat
  BY <1>5
<1>10. /\ m \in Traced /\ Len(m.history) \in Nat
       /\ Len(m.history) = IF Len(Top.proposed) <= Len(history)
                           THEN Len(history) - Len(Top.proposed) ELSE 0
  BY <1>1, <1>9, RevertTraced, TracedFacts
<1> HIDE DEF m
<1>11. Excess(Len(history), stack[1], Len(returned)) = Len(history) - Len(Top.proposed)
  BY <1>1, <1>2, <1>3, <1>9 DEF Excess
<1>12. Excess(Len(m.history), self, Len(returned)) = Len(m.history)
  BY <1>8, <1>10 DEF Excess
<1>13. Covered(<<self>> \o Tail(stack), Len(m.history), Len(returned))
  <2>1. \/ Excess(Len(m.history), self, Len(returned)) <= Excess(Len(history), stack[1], Len(returned))
        \/ Excess(Len(m.history), self, Len(returned)) <= 0
    BY <1>1, <1>9, <1>10, <1>11, <1>12
  <2> QED BY <1>1, <1>8, <1>10, <2>1, ReplaceCovered
<1>14. stack' \in Stacks
  BY <1>1, <1>2, <1>4, <1>8, ReplaceTop
<1> QED BY <1>1, <1>2, <1>3, <1>4, <1>10, <1>13, <1>14, Closing

LEMMA ReturnStep == IInv /\ stack # <<>> /\ Return => IInv'
<1> SUFFICES ASSUME IInv, stack # <<>>, Return PROVE IInv'
  OBVIOUS
<1> DEFINE acts == Top.best_actions
           m == PerformAll(Manipulator, acts)
<1>1. /\ Manipulator \in Traced /\ Manipulator.history = history
      /\ loaded \in Loaded /\ late \in BOOLEAN /\ Len(history) \in Nat
      /\ returned \in Seq(ProperAction) /\ Len(returned) \in Nat
      /\ stack \in Stacks /\ Covered(stack, Len(history), Len(returned))
  BY IInvFacts
<1>2. Top = stack[1] /\ Top \in ProperFrame /\ Rest = Tail(stack)
  BY <1>1, TopFacts DEF Top, Rest
<1>3. /\ Top.pc = "slot" /\ Becomes(m) /\ returned' = acts /\ stack' = Rest
      /\ UNCHANGED <<loaded, late>>
  BY DEF Return
<1>4. acts \in Seq(ProperAction)
  BY <1>2 DEF ProperFrame
<1> HIDE DEF acts
<1>5. m \in Traced /\ Len(m.history) \in Nat /\ Len(m.history) <= Len(history) + Len(acts)
  BY <1>1, <1>4, PerformAllTraced, TracedFacts
<1>6. Len(acts) \in Nat
  BY <1>4
<1> HIDE DEF m
<1>7. Covered(Tail(stack), Len(m.history), Len(acts))
  BY <1>1, <1>2, <1>3, <1>5, <1>6, PopCovered
<1>8. stack' \in Stacks
  BY <1>1, <1>2, <1>3, TopFacts
<1> QED BY <1>1, <1>2, <1>3, <1>4, <1>5, <1>7, <1>8, Closing

LEMMA NextIInv == IInv /\ [Next]_vars => IInv'
<1> SUFFICES ASSUME IInv, [Next]_vars PROVE IInv'
  OBVIOUS
<1>1. CASE Search
  <2>1. stack # <<>> /\ (TrySlot \/ Recurse \/ Returned \/ Compare \/ Return)
    BY <1>1 DEF Search
  <2> QED BY <2>1, TrySlotStep, RecurseStep, ReturnedStep, CompareStep, ReturnStep
<1>2. CASE UNCHANGED <<loaded, assigned, history, stack, returned>> /\ late' \in BOOLEAN
  <2>1. /\ Manipulator \in Traced /\ Manipulator.history = history /\ Manipulator.assigned = assigned
        /\ loaded \in Loaded /\ returned \in Seq(ProperAction)
        /\ stack \in Stacks /\ Covered(stack, Len(history), Len(returned))
    BY IInvFacts
  <2>2. Becomes(Manipulator)
    BY <1>2, <2>1 DEF Becomes
  <2> QED BY <1>2, <2>1, <2>2, Closing
<1>3. CASE Timeout
  BY <1>2, <1>3 DEF Timeout
<1>4. CASE UNCHANGED vars
  <2>1. late \in BOOLEAN
    BY IInvFacts
  <2> QED BY <1>2, <1>4, <2>1 DEF vars
<1> QED BY <1>1, <1>3, <1>4 DEF Next, Done

\* The invariant holds for any roomslots, sections, teachers and depth, and
\* whenever the timeout passes: the history leads from the schedule as it was
\* loaded to the one in memory, through schedules that are valid, and it is no
\* longer than what the calls that run will undo.
THEOREM SearchKeepsTrack == Spec => []IInv
<1>1. Init => IInv
  BY InitIInv
<1>2. IInv /\ [Next]_vars => IInv'
  BY NextIInv
<1> QED BY <1>1, <1>2, PTL DEF Spec

\* The schedule in memory can be saved at any moment of the search: what the
\* search throws out, places, moves and reverts leaves it valid.
THEOREM SearchStaysValid == Spec => []StaysValid
<1>1. IInv => StaysValid
  <2> SUFFICES ASSUME IInv PROVE StaysValid
    OBVIOUS
  <2>1. Good(assigned)
    BY IInvFacts
  <2>2. TypeOK
    BY DEF IInv
  <2> QED BY <2>1, <2>2 DEF Good, StaysValid
<1> QED BY <1>1, SearchKeepsTrack, PTL

\* The exported history gives the schedule that was computed when it is
\* replayed on the one that was loaded; and the search takes up every roomslot
\* of its section with nothing left of the one before, though a section that
\* cannot be placed again has actions reverted that will be reverted once more.
THEOREM HistoryIsReplayable == Spec => []HistoryReplays
<1>1. IInv => HistoryReplays
  <2> SUFFICES ASSUME IInv PROVE HistoryReplays
    OBVIOUS
  <2>1. /\ Manipulator \in Traced /\ Manipulator.history = history
        /\ Manipulator.assigned = assigned
        /\ Len(history) \in Nat /\ history \in Seq(ProperAction) /\ Len(returned) \in Nat
        /\ stack \in Stacks /\ Covered(stack, Len(history), Len(returned))
    BY IInvFacts
  <2>2. PerformAll([assigned |-> loaded, history |-> <<>>], history) = Manipulator
    BY <2>1, Replay DEF From
  <2>3. ASSUME Len(stack) = 1, Top.pc = "slot" PROVE assigned = loaded /\ history = <<>>
    <3>1. stack # <<>>
      BY <2>3
    <3>2. Top = stack[1] /\ Top \in ProperFrame
      BY <2>1, <3>1, TopFacts DEF Top
    <3>3. Excess(Len(history), stack[1], Len(returned)) = Len(history)
      <4>1. Top.proposed = <<>> /\ Top.pc # "returned"
        BY <2>3, <3>2 DEF ProperFrame
      <4> QED BY <2>1, <3>2, <4>1 DEF Excess
    <3>4. PICK base : IsBase(base, stack, Len(history), Len(returned))
      BY <2>1 DEF Covered
    <3>5. Len(history) <= 0
      BY <2>3, <3>1, <3>3, <3>4 DEF IsBase
    <3>6. history = <<>> /\ Len(history) = 0
      BY <2>1, <3>5
    <3>7. PICK g : Path(Manipulator, g)
      BY <2>1 DEF Traced
    <3> QED BY <2>1, <3>6, <3>7 DEF Path
  <2> QED BY <2>2, <2>3 DEF HistoryReplays
<1> QED BY <1>1, SearchKeepsTrack, PTL

\* In every state of the search the checks of the single actions are as strict
\* as the check of the whole schedule.
THEOREM SearchChecksSound == Spec => []ChecksSound
<1>1. IInv => ChecksSound
  <2> SUFFICES ASSUME IInv PROVE ChecksSound
    OBVIOUS
  <2>1. Valid(assigned)
    BY IInvFacts DEF Good
  <2>2. assigned \in Schedules
    BY DEF IInv, TypeOK, Schedules
  <2> QED BY <2>1, <2>2, ChecksSuffice
<1> QED BY <1>1, SearchKeepsTrack, PTL
=============================================================================
