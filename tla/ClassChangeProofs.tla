-------------------------- MODULE ClassChangeProofs --------------------------
(***************************************************************************)
(* Proofs about ClassChange, for any students, sections, capacities and     *)
(* requests: what the script computes is possible for every student, takes  *)
(* from nobody, leaves no wanted seat unused and brings no more newcomers   *)
(* into a section than it has seats, and the undo is exact.                 *)
(*                                                                          *)
(* The invariants need three facts.  A student who is still to be pushed    *)
(* back is free at the time of the old section, and whoever is kicked out   *)
(* of a section is there because of a request (PushOK); the seats that the  *)
(* passes have taken are those of the newcomers (SeatsOK); the rows from    *)
(* before the script are all there, valid or ended (RowsOK).                *)
(***************************************************************************)
EXTENDS ClassChange, FiniteSetTheorems, WellFoundedInduction, TLAPS

-----------------------------------------------------------------------------
(* Numbers and their order.                                                 *)

\* A set of numbers that is not empty has a least element.
LEMMA LeastNumber ==
    ASSUME NEW T \in SUBSET Nat, T # {}
    PROVE  \E n \in T : \A m \in T : n <= m
<1>1. PICK n \in T : \A m \in T : ~(<<m, n>> \in OpToRel(<, Nat))
  BY NatLessThanWellFounded, WFMin
<1>2. \A m \in T : ~(m < n)
  BY <1>1 DEF OpToRel
<1> QED BY <1>2

\* A finite set of numbers is bounded.
LEMMA FiniteIsBounded ==
    ASSUME NEW S \in SUBSET Nat, IsFiniteSet(S)
    PROVE  \E b \in Nat : \A m \in S : m <= b
<1> DEFINE N == Cardinality(S)
<1>0. \A m \in S : m \in Nat
  OBVIOUS
<1>1. N \in Nat
  BY FS_CardinalityType
<1>2. PICK f : f \in Bijection(1..N, S)
  BY FS_CardinalityType DEF ExistsBijection
<1>3. /\ \A i \in 1..N : f[i] \in S
      /\ \A m \in S : \E i \in 1..N : f[i] = m
  BY <1>2 DEF Bijection, Surjection, Injection
<1> HIDE DEF N
<1> DEFINE Bounded(j) == \E b \in Nat : \A i \in 1..j : f[i] <= b
           T == {j \in 0..N : ~Bounded(j)}
<1>4. ASSUME T # {} PROVE FALSE
  <2>1. PICK j \in T : \A i \in T : j <= i
    <3>1. T \in SUBSET Nat
      BY <1>1
    <3> HIDE DEF T
    <3> QED BY <1>4, <3>1, LeastNumber
  <2>2. j \in Nat /\ j <= N /\ ~Bounded(j)
    BY <1>1, <2>1
  <2>3. j # 0
    BY <2>2
  <2>4. j - 1 \in Nat /\ j - 1 \notin T
    BY <2>1, <2>2, <2>3
  <2>5. PICK b \in Nat : \A i \in 1..(j - 1) : f[i] <= b
    BY <1>1, <2>2, <2>4
  <2>6. \A i \in 1..j : i \in 1..N /\ (i = j \/ i \in 1..(j - 1))
    BY <1>1, <2>2
  <2>7. \A i \in 1..j : f[i] \in Nat
    BY <1>0, <1>3, <2>6
  <2>8. f[j] \in Nat
    BY <2>2, <2>3, <2>7
  <2>9. \A i \in 1..j : f[i] <= b + f[j]
    <3> SUFFICES ASSUME NEW i \in 1..j PROVE f[i] <= b + f[j]
      OBVIOUS
    <3>1. f[i] \in Nat
      BY <2>7
    <3>2. CASE i = j
      BY <2>8, <3>1, <3>2
    <3>3. CASE i # j
      <4>1. f[i] <= b
        BY <2>5, <2>6, <3>3
      <4> QED BY <2>8, <3>1, <4>1
    <3> QED BY <3>2, <3>3
  <2>10. b + f[j] \in Nat
    BY <2>8
  <2> QED BY <2>2, <2>9, <2>10
<1>5. Bounded(N)
  <2> HIDE DEF Bounded
  <2> QED BY <1>1, <1>4
<1> QED BY <1>3, <1>5

\* A set of k or more numbers has a k-th smallest one, and Nth is it.
LEMMA NthElement ==
    ASSUME NEW S \in SUBSET Nat, IsFiniteSet(S), NEW k \in 1..Cardinality(S)
    PROVE  Nth(S, k) \in S
<1> DEFINE below(n) == {m \in S : m < n}
           T == {n \in Nat : k <= Cardinality(below(n))}
<1>0. \A m \in S : m \in Nat
  OBVIOUS
<1>1. Cardinality(S) \in Nat
  BY FS_CardinalityType
<1>2. \A n \in Nat : IsFiniteSet(below(n)) /\ Cardinality(below(n)) \in Nat
  <2> TAKE n \in Nat
  <2>1. below(n) \in SUBSET S
    OBVIOUS
  <2> HIDE DEF below
  <2> QED BY <2>1, FS_Subset, FS_CardinalityType
<1>3. PICK n \in T : \A m \in T : n <= m
  <2>1. PICK b \in Nat : \A m \in S : m <= b
    BY FiniteIsBounded
  <2>2. below(b + 1) = S
    <3>1. \A m \in S : m < b + 1
      BY <1>0, <2>1
    <3> QED BY <3>1
  <2>3. b + 1 \in Nat /\ k <= Cardinality(below(b + 1))
    <3> HIDE DEF below
    <3> QED BY <1>1, <2>2
  <2>4. T \in SUBSET Nat /\ b + 1 \in T
    BY <2>3
  <2> HIDE DEF T
  <2> QED BY <2>4, LeastNumber
<1>4. n \in Nat /\ k <= Cardinality(below(n))
  BY <1>3
<1>5. k \in Nat /\ 1 <= k
  BY <1>1
<1>6. n # 0
  <2>1. below(0) = {}
    <3>1. \A m \in S : ~(m < 0)
      BY <1>0
    <3> QED BY <3>1
  <2> HIDE DEF below
  <2> QED BY <1>4, <1>5, <2>1, FS_EmptySet
<1>7. n - 1 \in Nat /\ n - 1 \notin T
  BY <1>3, <1>4, <1>6
<1>8. Cardinality(below(n - 1)) < k
  <2> HIDE DEF below
  <2> QED BY <1>2, <1>5, <1>7
<1>9. n - 1 \notin below(n - 1)
  BY <1>7
<1>10. below(n) = IF n - 1 \in S THEN below(n - 1) \union {n - 1} ELSE below(n - 1)
  <2>1. \A m \in S : m < n <=> m = n - 1 \/ m < n - 1
    <3> TAKE m \in S
    <3>1. m \in Nat
      BY <1>0
    <3> QED BY <1>4, <1>7, <3>1
  <2> QED BY <2>1
<1> HIDE DEF below, T
<1>11. n - 1 \in S
  BY <1>2, <1>4, <1>5, <1>7, <1>8, <1>10
<1>12. Cardinality(below(n)) = Cardinality(below(n - 1)) + 1
  BY <1>2, <1>7, <1>9, <1>10, <1>11, FS_AddElement
<1>13. Cardinality(below(n - 1)) = k - 1
  BY <1>2, <1>4, <1>5, <1>7, <1>8, <1>12
<1> QED BY <1>11, <1>13 DEF Nth, below

-----------------------------------------------------------------------------
(* What initialize() has read.                                              *)

\* Overlap and Clash are reflexive and symmetric.
LEMMA ClashFacts ==
    \A s, x \in Sections :
        /\ Overlap(s, x) = Overlap(x, s) /\ Clash(s, x) = Clash(x, s)
        /\ Overlap(s, s) /\ Clash(s, s)
        /\ Overlap(s, x) => Clash(s, x)
BY ClassChangeAssumption DEF Overlap, Clash

\* The types of the input, and what registration and the form have excluded.
LEMMA InputFacts ==
    ASSUME input \in Inputs
    PROVE  /\ input.enrolled \in SUBSET (Users \X Sections)
           /\ input.request \in SUBSET (Students \X Sections)
           /\ enroll_orig \in SUBSET (Students \X Sections)
           /\ \A u \in Students, s, x \in Sections :
                  /\ <<u, s>> \in input.enrolled <=> <<u, s>> \in enroll_orig
                  /\ <<u, s>> \in enroll_orig /\ <<u, x>> \in enroll_orig /\ Clash(s, x) => s = x
                  /\ <<u, s>> \in enroll_orig /\ <<u, x>> \in input.request
                         => ParentClass[s] # ParentClass[x]
<1>1. input \in Input
  BY ClassChangeAssumption
<1>2. /\ input.enrolled \in SUBSET (Users \X Sections)
      /\ input.request \in SUBSET (Students \X Sections)
      /\ enroll_orig \in SUBSET (Students \X Sections)
  BY <1>1 DEF Input, enroll_orig
<1>3. ASSUME NEW u \in Students, NEW s \in Sections, NEW x \in Sections
      PROVE  /\ <<u, s>> \in input.enrolled <=> <<u, s>> \in enroll_orig
             /\ <<u, s>> \in enroll_orig /\ <<u, x>> \in enroll_orig /\ Clash(s, x) => s = x
             /\ <<u, s>> \in enroll_orig /\ <<u, x>> \in input.request
                    => ParentClass[s] # ParentClass[x]
  <2>1. <<u, s>> \in input.enrolled <=> <<u, s>> \in enroll_orig
    BY DEF enroll_orig
  <2>2. <<u, s>> \in input.enrolled /\ <<u, x>> \in input.enrolled /\ Clash(s, x) => <<u, s>> = <<u, x>>
    BY InputAssumption
  <2>3. <<u, s>> \in input.enrolled /\ <<u, x>> \in input.request => ParentClass[s] # ParentClass[x]
    BY InputAssumption
  <2> QED BY <2>1, <2>2, <2>3 DEF enroll_orig
<1> QED BY <1>2, <1>3

\* Sets of users, of sections and of pairs of them are finite.
LEMMA Finite ==
    /\ IsFiniteSet(Users)
    /\ \A S \in SUBSET Users : IsFiniteSet(S) /\ Cardinality(S) \in Nat
    /\ \A S \in SUBSET Students : IsFiniteSet(S) /\ Cardinality(S) \in Nat
    /\ \A S \in SUBSET (Users \X Sections) : IsFiniteSet(S) /\ Cardinality(S) \in Nat
<1>1. IsFiniteSet(Users) /\ IsFiniteSet(Sections) /\ IsFiniteSet(Students)
  BY ClassChangeAssumption, FS_Union DEF Users
<1>2. IsFiniteSet(Users \X Sections)
  BY <1>1, FS_Product
<1>3. \A S \in SUBSET Users : IsFiniteSet(S) /\ Cardinality(S) \in Nat
  BY <1>1, FS_Subset, FS_CardinalityType
<1>4. \A S \in SUBSET Students : IsFiniteSet(S) /\ Cardinality(S) \in Nat
  BY <1>1, FS_Subset, FS_CardinalityType
<1>5. \A S \in SUBSET (Users \X Sections) : IsFiniteSet(S) /\ Cardinality(S) \in Nat
  BY <1>2, FS_Subset, FS_CardinalityType
<1> QED BY <1>1, <1>3, <1>4, <1>5

\* Seats and scores are numbers.
LEMMA ScoreType ==
    ASSUME input \in Inputs, NEW s \in Sections
    PROVE  SeatsLeft(input, s) \in Int /\ Score(s) \in Int
<1>1. input.enrolled_students[s] \in Nat
  BY ClassChangeAssumption DEF Input
<1>2. MayLeave(input, s) \in SUBSET Students
  BY DEF MayLeave
<1>3. Capacity[s] \in Nat
  BY ClassChangeAssumption
<1>4. SeatsLeft(input, s) \in Int
  BY <1>1, <1>2, <1>3, Finite DEF SeatsLeft
<1>5. {u \in Students : <<u, s>> \in input.request} \in SUBSET Students
  OBVIOUS
<1>6. Cardinality({u \in Students : <<u, s>> \in input.request}) \in Nat
  BY <1>5, Finite
<1> QED BY <1>4, <1>6 DEF Score

\* The queue of a section holds entries for the given students only.
LEMMA EntriesType ==
    ASSUME input \in Inputs, NEW s \in Sections, NEW students \in SUBSET Students,
           NEW f \in Shuffles(Cardinality(students)), NEW e \in Entries(s, students, f)
    PROVE  e \in Entry /\ e.student \in students
<1> DEFINE n == Cardinality(students)
           row(k) == Nth(students, f[k])
           old(u) == {p \in 1..Cardinality(MeetingTimes[s]) :
                         \E x \in Sections : /\ <<u, x>> \in enroll_orig
                                             /\ Nth(MeetingTimes[s], p) \in MeetingTimes[x]}
           ofRow(k) == IF old(row(k)) = {}
                       THEN {[row |-> k, position |-> 0, student |-> row(k), score |-> 0]}
                       ELSE {[row |-> k, position |-> p, student |-> row(k),
                              score |-> Score(Nth(Sections, p))] : p \in old(row(k))}
<1>1. IsFiniteSet(students) /\ n \in Nat /\ students \in SUBSET Nat
  BY Finite, ClassChangeAssumption
<1>2. DOMAIN f = 1..n /\ \A k \in 1..n : f[k] \in 1..n
  BY DEF Shuffles
<1>3. PICK k \in 1..n : e \in ofRow(k)
  BY <1>2 DEF Entries
<1>4. f[k] \in 1..n
  BY <1>2
<1>5. row(k) \in students
  BY <1>1, <1>4, NthElement
<1>6. k \in Nat /\ row(k) \in Students
  <2> HIDE DEF n, row
  <2>1. k \in Nat
    BY <1>1
  <2>2. row(k) \in Students
    BY <1>5
  <2> QED BY <2>1, <2>2
<1>7. ASSUME NEW p \in old(row(k))
      PROVE  p \in Nat /\ Score(Nth(Sections, p)) \in Int
  <2>1. /\ Cardinality(MeetingTimes[s]) <= Cardinality(Sections)
        /\ IsFiniteSet(MeetingTimes[s]) /\ IsFiniteSet(Sections) /\ Sections \in SUBSET Nat
    BY ClassChangeAssumption, FS_Subset
  <2>2. Cardinality(MeetingTimes[s]) \in Nat /\ Cardinality(Sections) \in Nat
    BY <2>1, FS_CardinalityType
  <2>3. p \in 1..Cardinality(MeetingTimes[s])
    OBVIOUS
  <2>4. p \in Nat /\ p \in 1..Cardinality(Sections)
    BY <2>1, <2>2, <2>3
  <2>5. Nth(Sections, p) \in Sections
    BY <2>1, <2>4, NthElement
  <2> QED BY <2>4, <2>5, ScoreType
<1> HIDE DEF n, row, old
<1> QED BY <1>3, <1>5, <1>6, <1>7 DEF Entry

-----------------------------------------------------------------------------
(* The computation.                                                         *)

\* Every request is looked at in one of the passes.
LEMMA PassType ==
    ASSUME input \in Inputs, NEW p \in input.request
    PROVE  p[1] \in Students /\ p[2] \in Sections /\ Pass(p[1], p[2]) \in 1..(Limit + 1)
<1>1. p[1] \in Students /\ p[2] \in Sections /\ <<p[1], p[2]>> \in Students \X Sections
  BY InputFacts
<1>2. input.waitlist \in [Students \X Sections -> 0..Limit]
  BY ClassChangeAssumption DEF Input
<1>3. input.waitlist[p[1], p[2]] \in 0..Limit
  BY <1>1, <1>2
<1>4. Limit \in Nat
  BY ClassChangeAssumption
<1>5. Pass(p[1], p[2]) \in 1..(Limit + 1)
  <2> DEFINE n == input.waitlist[p[1], p[2]]
  <2>1. Pass(p[1], p[2]) = IF n = 0 THEN Limit + 1 ELSE n
    BY DEF Pass
  <2>2. n \in 0..Limit
    BY <1>3
  <2> HIDE DEF n
  <2> QED BY <1>4, <2>1, <2>2
<1> QED BY <1>1, <1>5

\* At the start everybody has what they do not want to leave.
LEMMA InitInv == Init => ClassChangeInv
<1> SUFFICES ASSUME Init PROVE ClassChangeInv
  OBVIOUS
<1>1. input \in Inputs
  BY DEF Init
<1>2. Staying(input) \in SUBSET enroll_orig
  BY <1>1, InputFacts DEF Staying, enroll_orig
<1>3. \A s \in Sections : SeatsLeft(input, s) \in Int
  BY <1>1, ScoreType
<1>4. Before \in SUBSET (Users \X Sections \X BOOLEAN)
  <2>1. \A p \in input.enrolled : p[1] \in Users /\ p[2] \in Sections
    BY <1>1, InputFacts
  <2>2. \A p \in input.enrolled : <<p[1], p[2], FALSE>> \in Users \X Sections \X BOOLEAN
    BY <2>1
  <2> QED BY <2>2 DEF Before
<1>5. TypeOK
  <2>1. enroll_orig \in SUBSET (Students \X Sections)
    BY <1>1, InputFacts
  <2>2. /\ input \in Inputs /\ stage = "fill" /\ enroll_final \subseteq Students \X Sections
        /\ todo \subseteq Sections /\ more \in BOOLEAN /\ pushing \subseteq Students
        /\ current \in Sections \union {0}
    BY <1>1, <1>2, <2>1 DEF Init
  <2>3. level \in 1..(Limit + 1)
    BY ClassChangeAssumption DEF Init
  <2>4. capacities \in [Sections -> Int] /\ order \in [Sections -> Int]
    BY <1>3 DEF Init
  <2>5. queues \in [Sections -> SUBSET SUBSET Entry]
    BY DEF Init
  <2>6. regs \union ended \subseteq Users \X Sections \X BOOLEAN
    BY <1>4 DEF Init
  <2> QED BY <2>2, <2>3, <2>4, <2>5, <2>6 DEF TypeOK
<1>6. SchedulesPossible
  <2>1. \A u \in Students : \A s, x \in Final(u) : s # x => ~Clash(s, x)
    BY <1>1, <1>2, InputFacts DEF Init, Final
  <2> QED BY <1>5, <2>1 DEF SchedulesPossible, Init
<1>7. PushOK
  BY <1>2 DEF PushOK, Init
<1>8. RowsOK
  <2>1. \A r \in Before : ~r[3]
    <3> SUFFICES ASSUME NEW p \in input.enrolled
                 PROVE  ~(<<p[1], p[2], FALSE>>[3])
      BY DEF Before
    <3> QED OBVIOUS
  <2>2. {r \in regs \union ended : ~r[3]} = Before
    BY <2>1 DEF Init
  <2> QED BY <2>2 DEF RowsOK, Init
<1>9. ASSUME NEW s \in Sections PROVE Cardinality(Lucky(enroll_final, s)) = 0
  <2>1. Lucky(Staying(input), s) = {}
    <3> SUFFICES ASSUME NEW u \in Students, <<u, s>> \in enroll_orig, <<u, s>> \in input.request
                 PROVE  FALSE
      BY <1>2 DEF Lucky
    <3> QED BY <1>1, InputFacts
  <2> QED BY <2>1, FS_EmptySet DEF Init
<1>10. SeatsOK
  BY <1>3, <1>9 DEF SeatsOK, Init
<1>11. NewcomersFit
  BY <1>3, <1>9 DEF NewcomersFit
<1>12. NothingWasted
  <2> SUFFICES ASSUME NEW p \in input.request PROVE ~Offered(p[1], p[2])
    BY DEF NothingWasted
  <2>1. p[2] \in Sections /\ Pass(p[1], p[2]) \in 1..(Limit + 1)
    BY <1>1, PassType
  <2> QED BY <2>1, ClassChangeAssumption DEF Offered, Init
<1> QED BY <1>6, <1>7, <1>8, <1>10, <1>11, <1>12 DEF ClassChangeInv, NobodyLoses, UnsaveRestores, Init

\* The parts of the invariant that a step of the computation leaves alone.
LEMMA DatabaseUntouched ==
    ASSUME ClassChangeInv, UNCHANGED <<input, database>>,
           stage \in {"fill", "push"}, stage' \in {"fill", "push"}
    PROVE  NobodyLoses' /\ UnsaveRestores' /\ RowsOK'
<1>1. Before' = Before
  BY DEF Before
<1> QED BY <1>1 DEF ClassChangeInv, NobodyLoses, UnsaveRestores, RowsOK, database

\* A pass gives a section to students who are free and not in the class.
LEMMA FillSectionInv ==
    ASSUME ClassChangeInv, NEW s \in Sections, FillSection(s)
    PROVE  ClassChangeInv'
<1>1. TypeOK /\ SchedulesPossible /\ PushOK /\ stage = "fill"
  BY DEF ClassChangeInv, SchedulesPossible, FillSection
<1>2. PICK chosen \in SUBSET Students :
          /\ chosen \subseteq Candidates(s)
          /\ chosen = Candidates(s) \/ Cardinality(chosen) = Spaces(s)
          /\ Cardinality(chosen) <= Spaces(s)
          /\ enroll_final' = enroll_final \union (chosen \X {s})
          /\ capacities' = [capacities EXCEPT ![s] = @ - Cardinality(chosen)]
  <2>1. Candidates(s) \in SUBSET Students
    BY DEF Candidates, Asking
  <2>2. Spaces(s) \in Int
    BY <1>1 DEF TypeOK, Spaces
  <2>3. PICK chosen \in IF Cardinality(Candidates(s)) <= Spaces(s) THEN {Candidates(s)}
                       ELSE kSubset(Spaces(s), Candidates(s)) :
          /\ enroll_final' = enroll_final \union (chosen \X {s})
          /\ capacities' = [capacities EXCEPT ![s] = @ - Cardinality(chosen)]
    BY DEF FillSection
  <2>4. /\ chosen \in SUBSET Students
        /\ chosen \subseteq Candidates(s)
        /\ chosen = Candidates(s) \/ Cardinality(chosen) = Spaces(s)
        /\ Cardinality(chosen) <= Spaces(s)
    BY <2>1, <2>2 DEF kSubset
  <2> QED BY <2>3, <2>4
<1>3. /\ todo' = todo \ {s}
      /\ UNCHANGED <<input, stage, level, order, more, pushing, current, queues, regs, ended>>
  BY DEF FillSection, database
<1>4. pushing = {}
  BY <1>1 DEF PushOK
<1>5. Cardinality(chosen) \in Int
  BY Finite
<1>6. TypeOK'
  BY <1>1, <1>2, <1>3, <1>5 DEF TypeOK
<1>7. \A u \in Students : Final(u)' = IF u \in chosen THEN Final(u) \union {s} ELSE Final(u)
  BY <1>2 DEF Final
<1>8. \A u \in chosen : <<u, s>> \in input.request /\ \A x \in Final(u) : ~Clash(s, x)
  BY <1>2 DEF Candidates, Asking
<1>9. SchedulesPossible'
  <2>1. ASSUME NEW u \in Students, NEW y \in Final(u)', NEW x \in Final(u)', y # x
        PROVE  ~Clash(y, x)
    <3>1. y \in Sections /\ x \in Sections
      BY DEF Final
    <3>2. CASE y \in Final(u) /\ x \in Final(u)
      BY <1>1, <2>1, <3>2 DEF SchedulesPossible
    <3>3. CASE y \notin Final(u)
      <4>1. Final(u)' = IF u \in chosen THEN Final(u) \union {s} ELSE Final(u)
        BY <1>7
      <4>2. u \in chosen /\ y = s /\ x \in Final(u)
        BY <2>1, <3>3, <4>1
      <4> QED BY <1>8, <4>2
    <3>4. CASE x \notin Final(u)
      <4>1. Final(u)' = IF u \in chosen THEN Final(u) \union {s} ELSE Final(u)
        BY <1>7
      <4>2. u \in chosen /\ x = s /\ y \in Final(u)
        BY <2>1, <3>4, <4>1
      <4>3. ~Clash(x, y)
        BY <1>8, <4>2
      <4> QED BY <3>1, <4>3, ClashFacts
    <3> QED BY <3>2, <3>3, <3>4
  <2>2. Staying(input)' \subseteq enroll_final'
    BY <1>1, <1>2, <1>3 DEF SchedulesPossible, Staying, MayLeave
  <2> QED BY <1>6, <2>1, <2>2 DEF SchedulesPossible, Clash, Overlap
<1>10. PushOK'
  BY <1>1, <1>2, <1>3, <1>4, <1>8 DEF PushOK, enroll_orig
<1>11. NobodyLoses' /\ UnsaveRestores' /\ RowsOK'
  BY <1>1, <1>3, DatabaseUntouched DEF database
<1>12. /\ NothingWasted /\ SeatsOK /\ input \in Inputs /\ Cardinality(chosen) \in Nat
       /\ \A x \in Sections : SeatsLeft(input, x) \in Int /\ SeatsLeft(input, x)' = SeatsLeft(input, x)
       /\ \A x \in Sections : capacities[x] \in Int
       /\ \A x \in Sections : capacities'[x] = IF x = s THEN capacities[s] - Cardinality(chosen)
                                              ELSE capacities[x]
  BY <1>1, <1>2, <1>3, Finite, ScoreType DEF ClassChangeInv, TypeOK, SeatsLeft, MayLeave
<1>13. NothingWasted'
  <2> SUFFICES ASSUME NEW p \in input.request, Offered(p[1], p[2])', capacities'[p[2]] > 0
               PROVE  \E x \in Final(p[1])' : Clash(p[2], x)
    BY <1>3 DEF NothingWasted, Clash, Overlap
  <2> DEFINE u == p[1]
             y == p[2]
  <2>1. u \in Students /\ y \in Sections /\ p = <<u, y>>
    BY <1>12, InputFacts
  <2>2. Final(u) \subseteq Final(u)'
    BY <1>2 DEF Final
  <2>3. CASE Offered(u, y)
    <3>1. capacities[y] > 0
      BY <1>12, <2>1
    <3> QED BY <1>1, <1>12, <2>2, <2>3, <3>1 DEF NothingWasted
  <2>4. CASE ~Offered(u, y)
    <3>1. y = s /\ u \in Asking(s)
      BY <1>3, <2>1, <2>4 DEF Offered, Pass, Asking
    <3>2. CASE u \in Candidates(s)
      <4>1. chosen = Candidates(s)
        BY <1>2, <1>12, <3>1 DEF Spaces
      <4>2. s \in Final(u)'
        BY <1>7, <2>1, <3>2, <4>1
      <4> QED BY <3>1, <4>2, ClashFacts
    <3>3. CASE u \notin Candidates(s)
      BY <2>2, <3>1, <3>3 DEF Candidates
    <3> QED BY <3>2, <3>3
  <2> QED BY <2>3, <2>4
<1>14. SeatsOK'
  <2> SUFFICES ASSUME NEW x \in Sections
               PROVE  /\ Cardinality(Lucky(enroll_final, x)') = SeatsLeft(input, x) - capacities'[x]
                      /\ capacities'[x] < 0 => capacities'[x] = SeatsLeft(input, x)
    BY <1>12 DEF SeatsOK
  <2>1. /\ Cardinality(Lucky(enroll_final, x)) = SeatsLeft(input, x) - capacities[x]
        /\ capacities[x] < 0 => capacities[x] = SeatsLeft(input, x)
    BY <1>1, <1>12 DEF SeatsOK
  <2>2. Lucky(enroll_final, x)' = IF x = s THEN Lucky(enroll_final, s) \union chosen
                                  ELSE Lucky(enroll_final, x)
    BY <1>2, <1>3, <1>8 DEF Lucky
  <2>3. CASE x = s
    <3>1. Lucky(enroll_final, s) \in SUBSET Students
      BY DEF Lucky
    <3>2. Lucky(enroll_final, s) \intersect chosen = {}
      <4> SUFFICES ASSUME NEW u \in chosen, u \in Lucky(enroll_final, s) PROVE FALSE
        OBVIOUS
      <4>1. s \in Final(u)
        BY DEF Lucky, Final
      <4> QED BY <1>8, <4>1, ClashFacts
    <3>3. Cardinality(Lucky(enroll_final, x)') = Cardinality(Lucky(enroll_final, s)) + Cardinality(chosen)
      <4>1. /\ IsFiniteSet(Lucky(enroll_final, s)) /\ Cardinality(Lucky(enroll_final, s)) \in Nat
            /\ IsFiniteSet(chosen)
        BY <3>1, Finite
      <4> QED BY <1>12, <2>2, <2>3, <3>2, <4>1, FS_Union, FS_EmptySet
    <3>4. Cardinality(Lucky(enroll_final, s)) \in Nat
      BY <3>1, Finite
    <3>5. CASE capacities[s] > 0
      BY <1>2, <1>12, <2>1, <2>3, <3>3, <3>4, <3>5 DEF Spaces
    <3>6. CASE ~(capacities[s] > 0)
      <4>1. Cardinality(chosen) = 0
        BY <1>2, <1>12, <3>6 DEF Spaces
      <4> QED BY <1>12, <2>1, <2>3, <3>3, <3>4, <4>1
    <3> QED BY <3>5, <3>6
  <2>4. CASE x # s
    BY <1>12, <2>1, <2>2, <2>4
  <2> QED BY <2>3, <2>4
<1>15. NewcomersFit'
  <2> SUFFICES ASSUME NEW x \in Sections
               PROVE  Cardinality(Lucky(enroll_final, x)') <= (IF SeatsLeft(input, x) > 0 THEN SeatsLeft(input, x) ELSE 0)
    BY <1>12 DEF NewcomersFit
  <2>1. Lucky(enroll_final, x)' \in SUBSET Students
    BY DEF Lucky
  <2>2. Cardinality(Lucky(enroll_final, x)') \in Nat
    BY <2>1, Finite
  <2>3. /\ Cardinality(Lucky(enroll_final, x)') = SeatsLeft(input, x) - capacities'[x]
        /\ capacities'[x] < 0 => capacities'[x] = SeatsLeft(input, x)
    BY <1>1, <1>3, <1>12, <1>14 DEF SeatsOK
  <2>4. SeatsLeft(input, x) \in Int /\ capacities'[x] \in Int
    BY <1>12
  <2> QED BY <2>2, <2>3, <2>4
<1> QED BY <1>9, <1>10, <1>11, <1>13, <1>14, <1>15 DEF ClassChangeInv

\* After the passes, less or the same in the sections is what is asked of a step.
LEMMA PassesOver ==
    ASSUME ClassChangeInv, stage' # "fill", UNCHANGED input,
           \A s \in Sections : Lucky(enroll_final, s)' \subseteq Lucky(enroll_final, s)
    PROVE  NothingWasted' /\ SeatsOK' /\ NewcomersFit'
<1>1. NewcomersFit /\ input \in Inputs
  BY DEF ClassChangeInv, SchedulesPossible, TypeOK
<1>2. ASSUME NEW s \in Sections
      PROVE  Cardinality(Lucky(enroll_final, s)') <= (IF SeatsLeft(input, s) > 0 THEN SeatsLeft(input, s) ELSE 0)
  <2>1. Lucky(enroll_final, s) \in SUBSET Students /\ Lucky(enroll_final, s)' \in SUBSET Lucky(enroll_final, s)
    BY DEF Lucky
  <2>2. /\ Cardinality(Lucky(enroll_final, s)') <= Cardinality(Lucky(enroll_final, s))
        /\ Cardinality(Lucky(enroll_final, s)') \in Nat /\ Cardinality(Lucky(enroll_final, s)) \in Nat
    <3>1. IsFiniteSet(Lucky(enroll_final, s)) /\ Cardinality(Lucky(enroll_final, s)) \in Nat
      BY <2>1, Finite
    <3>2. Cardinality(Lucky(enroll_final, s)') \in Nat
      BY <2>1, <3>1, FS_Subset, FS_CardinalityType
    <3> QED BY <2>1, <3>1, <3>2, FS_Subset
  <2> QED BY <1>1, <2>2, ScoreType DEF NewcomersFit
<1>3. \A s \in Sections : SeatsLeft(input, s)' = SeatsLeft(input, s)
  BY DEF SeatsLeft, MayLeave
<1> QED BY <1>2, <1>3 DEF NothingWasted, SeatsOK, NewcomersFit

\* What the schedules say is the same as long as nobody's changes.
LEMMA SameSchedules ==
    ASSUME SchedulesPossible, TypeOK', UNCHANGED <<input, enroll_final>>
    PROVE  SchedulesPossible'
BY DEF SchedulesPossible, Final, Staying, MayLeave

LEMMA NextLevelInv ==
    ASSUME ClassChangeInv, NextLevel
    PROVE  ClassChangeInv'
<1>1. TypeOK /\ SchedulesPossible /\ PushOK /\ stage = "fill" /\ pushing = {}
  BY DEF ClassChangeInv, SchedulesPossible, NextLevel, PushOK
<1>2. UNCHANGED <<input, enroll_final, capacities, pushing, current, queues, regs, ended>>
  BY DEF NextLevel, database
<1>3. TypeOK'
  <2>1. /\ stage' \in {"fill", "push"} /\ todo' \subseteq Sections
        /\ order' \in [Sections -> Int] /\ more' \in BOOLEAN
    BY <1>1 DEF TypeOK, NextLevel, NewRound
  <2>2. level' \in 1..(Limit + 1)
    BY <1>1, ClassChangeAssumption DEF TypeOK, NextLevel
  <2> QED BY <1>1, <1>2, <2>1, <2>2 DEF TypeOK
<1>4. SchedulesPossible'
  BY <1>1, <1>2, <1>3, SameSchedules
<1>5. PushOK'
  BY <1>1, <1>2 DEF PushOK, enroll_orig, NextLevel, NewRound
<1>6. NobodyLoses' /\ UnsaveRestores' /\ RowsOK'
  BY <1>1, <1>2, DatabaseUntouched DEF database, NextLevel, NewRound
<1>7. NothingWasted' /\ SeatsOK' /\ NewcomersFit'
  <2>1. CASE stage' = "push"
    <3>1. \A s \in Sections : Lucky(enroll_final, s)' = Lucky(enroll_final, s)
      BY <1>2 DEF Lucky
    <3> QED BY <1>2, <2>1, <3>1, PassesOver
  <2>2. CASE level' = level + 1 /\ stage' = "fill"
    <3>1. \A p \in input.request : Offered(p[1], p[2])' => Offered(p[1], p[2])
      <4> TAKE p \in input.request
      <4>1. Pass(p[1], p[2]) \in 1..(Limit + 1) /\ Pass(p[1], p[2])' = Pass(p[1], p[2]) /\ p[2] \in Sections
        BY <1>1, <1>2, PassType DEF TypeOK, Pass
      <4>2. todo = {} /\ todo' = Sections /\ level \in Int
        BY <1>1, <2>2, ClassChangeAssumption DEF NextLevel, TypeOK
      <4> QED BY <2>2, <4>1, <4>2, ClassChangeAssumption DEF Offered
    <3>2. NothingWasted'
      BY <1>1, <1>2, <3>1 DEF NothingWasted, ClassChangeInv, Final, Clash, Overlap
    <3>3. SeatsOK' /\ NewcomersFit'
      BY <1>1, <1>2 DEF SeatsOK, NewcomersFit, ClassChangeInv, Lucky, SeatsLeft, MayLeave
    <3> QED BY <3>2, <3>3
  <2> QED BY <1>1, <2>1, <2>2 DEF NextLevel
<1> QED BY <1>4, <1>5, <1>6, <1>7 DEF ClassChangeInv

-----------------------------------------------------------------------------
(* push_back_students.                                                      *)

\* The students of a section that is gone through are those without a section
\* at its time.
LEMMA NextSectionInv ==
    ASSUME ClassChangeInv, NEW s \in Sections, NextSection(s)
    PROVE  ClassChangeInv'
<1>1. TypeOK /\ SchedulesPossible /\ PushOK /\ stage = "push"
  BY DEF ClassChangeInv, SchedulesPossible, NextSection
<1>2. /\ todo' = todo \ {s} /\ current' = s /\ pushing' = Unplaced(s)
      /\ more' = (more \/ Unplaced(s) # {})
      /\ UNCHANGED <<input, stage, enroll_final, capacities, level, order, queues, regs, ended>>
  BY DEF NextSection, database
<1>3. Unplaced(s) \subseteq Students
  BY DEF Unplaced
<1>4. TypeOK'
  BY <1>1, <1>2, <1>3 DEF TypeOK
<1>5. SchedulesPossible'
  BY <1>1, <1>2, <1>4, SameSchedules
<1>6. \A x \in Sections : Unplaced(x)' = Unplaced(x)
  BY <1>2 DEF Unplaced, Final, enroll_orig
<1>7. PushOK'
  BY <1>1, <1>2, <1>6 DEF PushOK, enroll_orig
<1>8. NobodyLoses' /\ UnsaveRestores' /\ RowsOK'
  BY <1>1, <1>2, DatabaseUntouched DEF database
<1>9. NothingWasted' /\ SeatsOK' /\ NewcomersFit'
  <2>1. \A x \in Sections : Lucky(enroll_final, x)' = Lucky(enroll_final, x)
    BY <1>2 DEF Lucky
  <2> QED BY <1>1, <1>2, <2>1, PassesOver
<1> QED BY <1>5, <1>7, <1>8, <1>9 DEF ClassChangeInv

\* Going back to the old section s: no other section clashes with it.
LEMMA PushedFits ==
    ASSUME ClassChangeInv, NEW u \in pushing
    PROVE  /\ u \in Students /\ current \in Sections /\ <<u, current>> \in enroll_orig
           /\ \A x \in Final(u) : x \in Sections /\ ~Clash(current, x)
<1>1. TypeOK /\ PushOK /\ input \in Inputs
  BY DEF ClassChangeInv, SchedulesPossible, TypeOK
<1>2. /\ u \in Students /\ current \in Sections /\ <<u, current>> \in enroll_orig
      /\ \A x \in Final(u) : ~Overlap(current, x)
  BY <1>1 DEF PushOK, Unplaced
<1>3. ASSUME NEW x \in Final(u) PROVE x \in Sections /\ ~Clash(current, x)
  <2>1. x \in Sections /\ (<<u, x>> \in enroll_orig \/ <<u, x>> \in input.request)
    BY <1>1 DEF PushOK, Final
  <2>2. ~Overlap(current, x)
    BY <1>2
  <2>3. ParentClass[current] # ParentClass[x]
    <3>1. CASE <<u, x>> \in input.request
      BY <1>1, <1>2, <2>1, <3>1, InputFacts
    <3>2. CASE <<u, x>> \in enroll_orig
      <4>1. x # current
        BY <1>2, <2>2, ClashFacts
      <4> QED BY <1>1, <1>2, <2>1, <3>2, <4>1, InputFacts DEF Clash
    <3> QED BY <2>1, <3>1, <3>2
  <2> QED BY <2>1, <2>2, <2>3 DEF Clash
<1> QED BY <1>2, <1>3

\* The queue of a section holds students who are in it because of a request.
LEMMA QueueFacts ==
    ASSUME ClassChangeInv, NEW s \in Sections, NEW final, NEW q \in Queue(final, s)
    PROVE  /\ q \subseteq Entry
           /\ \A e \in q : <<e.student, s>> \in input.request
<1>1. TypeOK /\ PushOK /\ input \in Inputs
  BY DEF ClassChangeInv, SchedulesPossible, TypeOK
<1>2. CASE queues[s] # {}
  BY <1>1, <1>2 DEF Queue, TypeOK, PushOK
<1>3. CASE queues[s] = {}
  <2>1. PICK f \in Shuffles(Cardinality(Lucky(final, s))) : q = Entries(s, Lucky(final, s), f)
    BY <1>3 DEF Queue
  <2>2. Lucky(final, s) \in SUBSET Students
    BY DEF Lucky
  <2>3. \A e \in q : e \in Entry /\ e.student \in Lucky(final, s)
    BY <1>1, <2>1, <2>2, EntriesType
  <2> QED BY <2>3 DEF Lucky
<1> QED BY <1>2, <1>3

\* The student goes back, and at most one lucky student loses a seat.
LEMMA PushBackInv ==
    ASSUME ClassChangeInv, NEW u \in Students, PushBack(u)
    PROVE  ClassChangeInv'
<1> DEFINE s == current
<1>1. TypeOK /\ SchedulesPossible /\ PushOK /\ input \in Inputs /\ u \in pushing
  BY DEF ClassChangeInv, SchedulesPossible, PushBack, TypeOK
<1>2. stage = "push" /\ more /\ s \in Sections
  BY <1>1 DEF PushOK
<1>3. <<u, s>> \in enroll_orig /\ \A x \in Final(u) : x \in Sections /\ ~Clash(s, x)
  BY <1>1, PushedFits
<1>4. /\ pushing' = pushing \ {u}
      /\ UNCHANGED <<input, stage, level, todo, order, more, current, regs, ended>>
  BY DEF PushBack, database
<1>5. PICK kicked \in SUBSET input.request :
          enroll_final' = (enroll_final \union {<<u, s>>}) \ kicked
  <2>1. CASE enroll_final' = enroll_final \union {<<u, s>>}
    <3>1. enroll_final' = (enroll_final \union {<<u, s>>}) \ {}
      BY <2>1
    <3> QED BY <3>1
  <2>2. CASE enroll_final' # enroll_final \union {<<u, s>>}
    <3> DEFINE final == enroll_final \union {<<u, s>>}
    <3>1. PICK q \in Queue(final, s) : \E e \in q : enroll_final' = final \ {<<e.student, s>>}
      BY <2>2 DEF PushBack
    <3>2. PICK e \in q : enroll_final' = final \ {<<e.student, s>>}
      BY <3>1
    <3>3. <<e.student, s>> \in input.request
      BY <1>2, <3>1, QueueFacts
    <3> QED BY <3>2, <3>3
  <2> QED BY <2>1, <2>2
<1>6. /\ capacities' \in [Sections -> Int]
      /\ \A x \in Sections : \A q \in queues'[x] :
             q \subseteq Entry /\ \A e \in q : <<e.student, x>> \in input.request
  <2> DEFINE final == enroll_final \union {<<u, s>>}
  <2>1. \A x \in Sections : \A q \in queues[x] :
             q \subseteq Entry /\ \A e \in q : <<e.student, x>> \in input.request
    BY <1>1 DEF TypeOK, PushOK
  <2>2. CASE capacities[s] > 0
    BY <1>1, <1>2, <2>1, <2>2 DEF PushBack, TypeOK
  <2>3. CASE capacities[s] <= 0
    <3>0. ~(capacities[s] > 0)
      BY <1>1, <1>2, <2>3 DEF TypeOK
    <3>1. capacities' = capacities
      BY <3>0 DEF PushBack
    <3>2. PICK q \in Queue(final, s) : \/ queues' = [queues EXCEPT ![s] = {q}]
                                      \/ \E e \in q : queues' = [queues EXCEPT ![s] = {q \ {e}}]
      BY <3>0 DEF PushBack
    <3>3. q \subseteq Entry /\ \A e \in q : <<e.student, s>> \in input.request
      BY <1>2, <3>2, QueueFacts
    <3>4. PICK w \in SUBSET q : queues' = [queues EXCEPT ![s] = {w}]
      BY <3>2
    <3>5. \A x \in Sections : \A y \in queues'[x] : y \in queues[x] \/ (x = s /\ y = w)
      BY <3>4
    <3> QED BY <1>1, <2>1, <3>1, <3>3, <3>4, <3>5 DEF TypeOK
  <2> QED BY <1>1, <1>2, <2>2, <2>3 DEF TypeOK
<1>7. enroll_orig \in SUBSET (Students \X Sections) /\ enroll_orig' = enroll_orig
  BY <1>1, <1>4, InputFacts DEF enroll_orig
<1>8. TypeOK'
  <2>1. enroll_final' \subseteq Students \X Sections
    BY <1>1, <1>3, <1>5, <1>7 DEF TypeOK
  <2>2. queues' \in [Sections -> SUBSET SUBSET Entry]
    <3>1. DOMAIN queues' = Sections /\ queues' = [x \in Sections |-> queues'[x]]
      BY <1>1 DEF PushBack, TypeOK
    <3> QED BY <1>6, <3>1
  <2> QED BY <1>1, <1>4, <1>6, <2>1, <2>2 DEF TypeOK
<1>9. \A v \in Students : Final(v)' \subseteq IF v = u THEN Final(v) \union {s} ELSE Final(v)
  BY <1>5 DEF Final
<1>10. SchedulesPossible'
  <2>1. ASSUME NEW v \in Students, NEW y \in Final(v)', NEW x \in Final(v)', y # x
        PROVE  ~Clash(y, x)
    <3>1. CASE v # u
      BY <1>1, <1>9, <2>1, <3>1 DEF SchedulesPossible
    <3>2. CASE v = u
      BY <1>1, <1>2, <1>3, <1>9, <2>1, <3>2, ClashFacts DEF SchedulesPossible
    <3> QED BY <3>1, <3>2
  <2>2. Staying(input)' \subseteq enroll_final'
    <3> SUFFICES ASSUME NEW p \in Staying(input) PROVE p \in enroll_final'
      BY <1>4 DEF Staying, MayLeave
    <3>1. p \in enroll_final
      BY <1>1 DEF SchedulesPossible
    <3>2. p \in enroll_orig
      BY <1>1, InputFacts DEF Staying, enroll_orig
    <3>3. p \notin input.request
      BY <1>1, <1>7, <3>2, InputFacts
    <3> QED BY <1>5, <3>1, <3>3
  <2> QED BY <1>8, <2>1, <2>2 DEF SchedulesPossible, Clash, Overlap
<1>11. PushOK'
  <2>1. enroll_final' \subseteq enroll_orig \union input.request
    BY <1>1, <1>3, <1>5 DEF PushOK
  <2>2. pushing' \subseteq Unplaced(s)'
    <3> SUFFICES ASSUME NEW v \in pushing' PROVE v \in Unplaced(s)'
      OBVIOUS
    <3>1. v # u /\ v \in Unplaced(s)
      BY <1>1, <1>4 DEF PushOK
    <3> QED BY <1>4, <1>7, <1>9, <3>1 DEF Unplaced
  <2> QED BY <1>2, <1>4, <1>6, <1>7, <2>1, <2>2 DEF PushOK
<1>12. NobodyLoses' /\ UnsaveRestores' /\ RowsOK'
  BY <1>2, <1>4, DatabaseUntouched DEF database
<1>13. NothingWasted' /\ SeatsOK' /\ NewcomersFit'
  <2>1. <<u, s>> \notin input.request
    BY <1>1, <1>2, <1>3, InputFacts
  <2>2. \A x \in Sections : Lucky(enroll_final, x)' \subseteq Lucky(enroll_final, x)
    BY <1>4, <1>5, <2>1 DEF Lucky
  <2> QED BY <1>2, <1>4, <2>2, PassesOver
<1> QED BY <1>10, <1>11, <1>12, <1>13 DEF ClassChangeInv

\* The students who were in a section and are no longer have got what they
\* wanted when a whole round has found nobody to push.
LEMMA EndRoundInv ==
    ASSUME ClassChangeInv, EndRound
    PROVE  ClassChangeInv'
<1>1. /\ TypeOK /\ SchedulesPossible /\ PushOK /\ RowsOK
      /\ input \in Inputs /\ stage = "push" /\ todo = {} /\ pushing = {}
  BY DEF ClassChangeInv, SchedulesPossible, EndRound, TypeOK
<1>2. UNCHANGED <<input, enroll_final, capacities, level, pushing, current, queues, regs, ended>>
  BY DEF EndRound, database
<1>3. enroll_orig \in SUBSET (Students \X Sections) /\ enroll_orig' = enroll_orig
  BY <1>1, <1>2, InputFacts DEF enroll_orig
<1>4. TypeOK'
  BY <1>1, <1>2 DEF TypeOK, EndRound, NewRound
<1>5. SchedulesPossible'
  BY <1>1, <1>2, <1>4, SameSchedules
<1>6. PushOK'
  BY <1>1, <1>2, <1>3 DEF PushOK, EndRound, NewRound
<1>7. NothingWasted' /\ SeatsOK' /\ NewcomersFit'
  <2>1. stage' # "fill" /\ \A s \in Sections : Lucky(enroll_final, s)' = Lucky(enroll_final, s)
    BY <1>1, <1>2 DEF Lucky, EndRound
  <2> QED BY <1>2, <2>1, PassesOver
<1>8. CASE more
  <2>1. NobodyLoses' /\ UnsaveRestores' /\ RowsOK'
    BY <1>1, <1>2, <1>8, DatabaseUntouched DEF EndRound, NewRound, database
  <2> QED BY <1>5, <1>6, <1>7, <2>1 DEF ClassChangeInv
<1>9. CASE ~more
  <2>1. stage' = "save"
    BY <1>9 DEF EndRound
  <2>2. NobodyLoses'
    <3> SUFFICES ASSUME NEW p \in enroll_orig, p \notin enroll_final
                 PROVE  \E x \in Final(p[1]) : Overlap(p[2], x) /\ <<p[1], x>> \in input.request
      BY <1>2, <1>3 DEF NobodyLoses, Final, Overlap
    <3>1. p[1] \in Students /\ p[2] \in Sections /\ p = <<p[1], p[2]>>
      BY <1>3
    <3>2. Unplaced(p[2]) = {}
      BY <1>1, <1>9, <3>1 DEF PushOK
    <3>3. PICK x \in Final(p[1]) : Overlap(p[2], x)
      BY <3>1, <3>2 DEF Unplaced
    <3>4. x \in Sections /\ <<p[1], x>> \in enroll_final
      BY DEF Final
    <3>5. <<p[1], x>> \notin enroll_orig
      <4> SUFFICES ASSUME <<p[1], x>> \in enroll_orig PROVE FALSE
        OBVIOUS
      <4>1. Clash(p[2], x)
        BY <3>3 DEF Clash
      <4>2. p[2] = x
        BY <1>1, <3>1, <3>4, <4>1, InputFacts
      <4> QED BY <3>1, <3>4, <4>2
    <3> QED BY <1>1, <3>3, <3>4, <3>5 DEF PushOK
  <2>3. RowsOK' /\ UnsaveRestores'
    BY <1>1, <1>2, <2>1 DEF RowsOK, UnsaveRestores, Before
  <2> QED BY <1>5, <1>6, <1>7, <2>2, <2>3 DEF ClassChangeInv
<1> QED BY <1>8, <1>9

-----------------------------------------------------------------------------
(* The database.                                                            *)

\* The parts of the invariant that a step in the database leaves alone.
LEMMA ComputedUntouched ==
    ASSUME ClassChangeInv, TypeOK', UNCHANGED computed,
           stage \in {"save", "saved", "failed"},
           stage' \in {"save", "saved", "failed", "undone"}
    PROVE  /\ SchedulesPossible' /\ NobodyLoses' /\ PushOK'
           /\ NothingWasted' /\ SeatsOK' /\ NewcomersFit'
           /\ Before' = Before
<1>1. SchedulesPossible /\ NobodyLoses /\ PushOK
  BY DEF ClassChangeInv
<1>2. /\ UNCHANGED <<input, enroll_final, todo, more, pushing, current, queues>>
      /\ enroll_orig' = enroll_orig
  BY DEF computed, enroll_orig
<1>3. SchedulesPossible'
  BY <1>1, <1>2, SameSchedules
<1>4. NobodyLoses'
  BY <1>1, <1>2 DEF NobodyLoses, Final, Overlap
<1>5. pushing = {}
  BY <1>1 DEF PushOK
<1>6. PushOK'
  BY <1>1, <1>2, <1>5 DEF PushOK
<1>7. NothingWasted' /\ SeatsOK' /\ NewcomersFit'
  <2>1. stage' # "fill" /\ \A s \in Sections : Lucky(enroll_final, s)' = Lucky(enroll_final, s)
    BY <1>2 DEF Lucky
  <2> QED BY <1>2, <2>1, PassesOver
<1> QED BY <1>2, <1>3, <1>4, <1>6, <1>7 DEF Before

\* The save writes nothing.
LEMMA SaveAssignmentsInv ==
    ASSUME ClassChangeInv, SaveAssignments
    PROVE  ClassChangeInv'
<1>1. /\ TypeOK /\ RowsOK /\ stage = "save" /\ stage' \in {"saved", "failed"}
      /\ UNCHANGED computed /\ UNCHANGED <<regs, ended>>
  BY DEF ClassChangeInv, SchedulesPossible, SaveAssignments, database
<1>2. TypeOK'
  BY <1>1 DEF TypeOK, computed
<1>3. /\ SchedulesPossible' /\ NobodyLoses' /\ PushOK'
      /\ NothingWasted' /\ SeatsOK' /\ NewcomersFit' /\ Before' = Before
  BY <1>1, <1>2, ComputedUntouched
<1>4. RowsOK' /\ UnsaveRestores'
  BY <1>1, <1>3 DEF RowsOK, UnsaveRestores
<1> QED BY <1>3, <1>4 DEF ClassChangeInv

\* Whatever was ended since the script began is valid again, and what was made
\* is gone: the rows from before are left.
LEMMA UnsaveInv ==
    ASSUME ClassChangeInv, Unsave
    PROVE  ClassChangeInv'
<1>1. /\ TypeOK /\ RowsOK /\ stage \in {"saved", "failed"} /\ stage' = "undone"
      /\ regs' = {r \in regs \union ended : ~r[3]} /\ ended' = {}
      /\ UNCHANGED computed
  BY DEF ClassChangeInv, SchedulesPossible, Unsave
<1>2. TypeOK'
  BY <1>1 DEF TypeOK, computed
<1>3. /\ SchedulesPossible' /\ NobodyLoses' /\ PushOK'
      /\ NothingWasted' /\ SeatsOK' /\ NewcomersFit' /\ Before' = Before
  BY <1>1, <1>2, ComputedUntouched
<1>4. UnsaveRestores' /\ RowsOK'
  BY <1>1, <1>3 DEF UnsaveRestores, RowsOK
<1> QED BY <1>3, <1>4 DEF ClassChangeInv

\* What the site does meanwhile adds rows made since, or ends rows, and loses
\* none of the rows from before.
LEMMA SiteInv ==
    ASSUME ClassChangeInv, NEW w \in Active, NEW s \in Sections, SiteAdds(w, s) \/ SiteDrops(w, s)
    PROVE  ClassChangeInv'
<1>1. /\ TypeOK /\ RowsOK /\ stage \in {"saved", "failed"}
      /\ UNCHANGED computed /\ UNCHANGED stage
  BY DEF ClassChangeInv, SchedulesPossible, SiteAdds, SiteDrops
<1>2. /\ regs' \union ended' \subseteq Users \X Sections \X BOOLEAN
      /\ {r \in regs' \union ended' : ~r[3]} = {r \in regs \union ended : ~r[3]}
  <2> DEFINE new == <<w, s, TRUE>>
  <2>1. new[3] = TRUE /\ new \in Users \X Sections \X BOOLEAN
    BY ClassChangeAssumption
  <2>2. CASE SiteAdds(w, s)
    <3>1. regs' = regs \union {new} /\ ended' = ended
      BY <2>2 DEF SiteAdds
    <3> HIDE DEF new
    <3> QED BY <1>1, <2>1, <3>1 DEF TypeOK
  <2>3. CASE SiteDrops(w, s)
    <3>1. regs' \union ended' = regs \union ended
      BY <2>3 DEF SiteDrops
    <3> QED BY <1>1, <3>1 DEF TypeOK
  <2> QED BY <2>2, <2>3
<1>3. TypeOK'
  BY <1>1, <1>2 DEF TypeOK, computed
<1>4. /\ SchedulesPossible' /\ NobodyLoses' /\ PushOK'
      /\ NothingWasted' /\ SeatsOK' /\ NewcomersFit' /\ Before' = Before
  BY <1>1, <1>3, ComputedUntouched
<1>5. RowsOK' /\ UnsaveRestores'
  BY <1>1, <1>2, <1>4 DEF RowsOK, UnsaveRestores
<1> QED BY <1>4, <1>5 DEF ClassChangeInv

-----------------------------------------------------------------------------
(* The specification.                                                       *)

\* The invariant reads nothing but the variables.
LEMMA StutterInv ==
    ASSUME ClassChangeInv, UNCHANGED vars
    PROVE  ClassChangeInv'
<1>1. /\ UNCHANGED <<input, stage, enroll_final, capacities, level, todo, more, pushing, current, queues>>
      /\ UNCHANGED <<regs, ended>>
  BY DEF vars
<1>2. TypeOK'
  BY DEF ClassChangeInv, SchedulesPossible, TypeOK, vars
<1>3. SchedulesPossible'
  BY <1>1, <1>2, SameSchedules DEF ClassChangeInv
<1>4. NobodyLoses'
  BY <1>1 DEF ClassChangeInv, NobodyLoses, enroll_orig, Final, Overlap
<1>5. UnsaveRestores' /\ RowsOK'
  BY <1>1 DEF ClassChangeInv, UnsaveRestores, RowsOK, Before
<1>6. PushOK'
  BY <1>1 DEF ClassChangeInv, PushOK, enroll_orig, Unplaced, Final
<1>7. NothingWasted'
  BY <1>1 DEF ClassChangeInv, NothingWasted, Offered, Pass, Final, Clash, Overlap
<1>8. SeatsOK' /\ NewcomersFit'
  BY <1>1 DEF ClassChangeInv, SeatsOK, NewcomersFit, Lucky, SeatsLeft, MayLeave
<1> QED BY <1>3, <1>4, <1>5, <1>6, <1>7, <1>8 DEF ClassChangeInv

\* Every step of the script, of its undo and of the site keeps the invariant.
LEMMA NextInv == ClassChangeInv /\ [Next]_vars => ClassChangeInv'
<1> SUFFICES ASSUME ClassChangeInv, [Next]_vars PROVE ClassChangeInv'
  OBVIOUS
<1>1. ASSUME NEW s \in Sections, FillSection(s) PROVE ClassChangeInv'
  BY <1>1, FillSectionInv
<1>2. ASSUME NEW s \in Sections, NextSection(s) PROVE ClassChangeInv'
  BY <1>2, NextSectionInv
<1>3. ASSUME NEW u \in Students, PushBack(u) PROVE ClassChangeInv'
  BY <1>3, PushBackInv
<1>4. ASSUME NextLevel PROVE ClassChangeInv'
  BY <1>4, NextLevelInv
<1>5. ASSUME EndRound PROVE ClassChangeInv'
  BY <1>5, EndRoundInv
<1>6. ASSUME SaveAssignments PROVE ClassChangeInv'
  BY <1>6, SaveAssignmentsInv
<1>7. ASSUME Unsave PROVE ClassChangeInv'
  BY <1>7, UnsaveInv
<1>8. ASSUME NEW w \in Active, NEW s \in Sections, SiteAdds(w, s) \/ SiteDrops(w, s)
      PROVE  ClassChangeInv'
  BY <1>8, SiteInv
<1>9. ASSUME UNCHANGED vars PROVE ClassChangeInv'
  BY <1>9, StutterInv
<1> QED BY <1>1, <1>2, <1>3, <1>4, <1>5, <1>6, <1>7, <1>8, <1>9 DEF Next, Script, Stop

\* The invariant of the script, of its undo and of the site meanwhile.
THEOREM ClassChangeInvariant == Spec => []ClassChangeInv
<1> QED BY InitInv, NextInv, PTL DEF Spec

\* No student is given two sections at one time or two of one class, neither by
\* fill_section nor by push_back_students, and whoever has asked for nothing at
\* the time of a section stays in it.
THEOREM ScriptKeepsSchedulesPossible == Spec => []SchedulesPossible
<1>1. ClassChangeInv => SchedulesPossible
  BY DEF ClassChangeInv
<1> QED BY <1>1, ClassChangeInvariant, PTL

\* When push_back_students is done, whoever loses a section has got a requested
\* one at its time.
THEOREM ScriptTakesFromNobody == Spec => []NobodyLoses
<1>1. ClassChangeInv => NobodyLoses
  BY DEF ClassChangeInv
<1> QED BY <1>1, ClassChangeInvariant, PTL

\* After any number of calls of fill_section, in whatever order their choices
\* fall, a section with a seat left has been given to everybody who asked for it
\* in a pass that is over and has nothing that clashes with it.
THEOREM PassesWasteNothing == Spec => []NothingWasted
<1>1. ClassChangeInv => NothingWasted
  BY DEF ClassChangeInv
<1> QED BY <1>1, ClassChangeInvariant, PTL

\* The passes and the rounds of push_back_students together bring no more
\* students into a section by request than there were seats for.
THEOREM NewcomersKeepToSeats == Spec => []NewcomersFit
<1>1. ClassChangeInv => NewcomersFit
  BY DEF ClassChangeInv
<1> QED BY <1>1, ClassChangeInvariant, PTL

\* unsave_assignments leaves the rows as the script has found them, whatever was
\* done on the site meanwhile.
THEOREM UnsaveIsExact == Spec => []UnsaveRestores
<1>1. ClassChangeInv => UnsaveRestores
  BY DEF ClassChangeInv
<1> QED BY <1>1, ClassChangeInvariant, PTL
=============================================================================
