------------------------- MODULE ScheduleBoardProofs -------------------------
(***************************************************************************)
(* Proofs about ScheduleBoard, for any sections, rooms, times and teachers, *)
(* any number of pages, of polls and requests under way, and of changes.    *)
(*                                                                          *)
(* InStep says something of pages that have applied the whole log, and is   *)
(* not inductive.  IInv says for every pair of a page and a section that is *)
(* not stale:                                                               *)
(*   - the last entry of the log for the section, if there is one, is read  *)
(*     as where it is;                                                      *)
(*   - a page that is behind has an entry for the section still before it,  *)
(*     or it shows where the section is, unless it has asked for a change   *)
(*     that the server has not confirmed: then the same holds of the place  *)
(*     to which it would go back (PairOK);                                  *)
(*   - an answer to a poll holds a part of the log without gaps             *)
(*     (IsSegment), and no page waits with an index that the log has not    *)
(*     reached, unless there is nothing in it for the page (Reached).       *)
(*                                                                          *)
(* What the server does with a request is described once for all handlers:  *)
(* each section that it touches has changed silently, or the last entry     *)
(* that was added for it tells where it is (Recorded, Served), and the      *)
(* teachers are free (GoodServers).  CommitStep uses nothing else.          *)
(***************************************************************************)
EXTENDS ScheduleBoard, FiniteSetTheorems, SequenceTheorems, WellFoundedInduction, TLAPS

-----------------------------------------------------------------------------
(* Numbers.                                                                 *)

\* A set of natural numbers that is not empty has a least one.
LEMMA LeastNatural ==
    ASSUME NEW T, T \subseteq Nat, T # {}
    PROVE  \E n \in T : \A m \in T : n <= m
<1>1. PICK n \in T : \A m \in T : ~(<<m, n>> \in OpToRel(<, Nat))
  BY NatLessThanWellFounded, WFMin
<1>2. \A m \in T : ~(m < n)
  BY <1>1 DEF OpToRel
<1> QED BY <1>2

\* Min and Max of the library are what their names say.
LEMMA Minimum ==
    ASSUME NEW T, T \subseteq Nat, T # {}
    PROVE  Min(T) \in T /\ \A m \in T : Min(T) <= m
BY LeastNatural DEF Min

\* The same for the largest of a finite set.
LEMMA Maximum ==
    ASSUME NEW n \in Nat, NEW T, T \subseteq 0..n, T # {}
    PROVE  Max(T) \in T /\ \A m \in T : m <= Max(T)
<1> DEFINE B == {i \in Nat : i \in 0..n /\ n - i \in T}
<1>1. B \subseteq Nat /\ B # {}
  <2>1. PICK m \in T : TRUE
    OBVIOUS
  <2>2. n - m \in Nat /\ n - m \in 0..n /\ n - (n - m) = m
    BY <2>1
  <2>3. n - m \in B
    BY <2>1, <2>2
  <2> QED BY <2>3
<1>2. PICK i \in B : \A j \in B : i <= j
  <2> HIDE DEF B
  <2> QED BY <1>1, LeastNatural
<1>3. ASSUME NEW m \in T PROVE m <= n - i
  <2>1. n - m \in 0..n /\ n - (n - m) = m
    BY <1>3
  <2>2. n - m \in B
    BY <1>3, <2>1
  <2>3. i <= n - m /\ i \in 0..n
    BY <1>2, <2>2
  <2> QED BY <2>1, <2>3
<1>4. n - i \in T /\ \A m \in T : n - i >= m
  BY <1>2, <1>3
<1> QED BY <1>4 DEF Max

\* Induction, about the numbers in a set.
LEMMA Induction ==
    ASSUME NEW n \in Nat, NEW T, 0 \in T, \A i \in 1..n : i - 1 \in T => i \in T
    PROVE  \A i \in 0..n : i \in T
<1> SUFFICES ASSUME NEW j \in 0..n, j \notin T PROVE FALSE
  OBVIOUS
<1> DEFINE B == {i \in Nat : i \in 0..n /\ i \notin T}
<1>1. PICK i \in B : \A m \in B : i <= m
  <2>1. B \subseteq Nat /\ B # {}
    OBVIOUS
  <2> HIDE DEF B
  <2> QED BY <2>1, LeastNatural
<1>2. i \in 1..n /\ i - 1 \notin B /\ i - 1 \in 0..n
  BY <1>1
<1> QED BY <1>1, <1>2

\* A step function of a set of values can be iterated.
Iterable(n, S, base, F) ==
    \E g \in [0..n -> S] : g[0] = base /\ \A i \in 1..n : g[i] = F[<<i, g[i - 1]>>]

\* The values that a step function is to be iterated to exist.
LEMMA Iteration ==
    ASSUME NEW n \in Nat, NEW S, NEW base \in S, NEW F \in [(1..n) \X S -> S]
    PROVE  Iterable(n, S, base, F)
<1> DEFINE Iterates(k, g) == g[0] = base /\ \A i \in 1..k : g[i] = F[<<i, g[i - 1]>>]
           T == {k \in 0..n : \E g \in [0..k -> S] : Iterates(k, g)}
<1>1. 0 \in T
  <2> DEFINE g == [i \in 0..0 |-> base]
  <2>1. g \in [0..0 -> S] /\ g[0] = base /\ 1..0 = {}
    OBVIOUS
  <2> HIDE DEF g
  <2> QED BY <2>1
<1>2. ASSUME NEW k \in 1..n, k - 1 \in T PROVE k \in T
  <2>1. PICK g \in [0..(k - 1) -> S] : Iterates(k - 1, g)
    BY <1>2
  <2> DEFINE h == [i \in 0..k |-> IF i = k THEN F[<<k, g[k - 1]>>] ELSE g[i]]
  <2>2. h \in [0..k -> S]
    BY <2>1
  <2>3. \A i \in 1..k : h[i] = F[<<i, h[i - 1]>>]
    <3> TAKE i \in 1..k
    <3>1. CASE i = k
      <4>1. h[k] = F[<<k, g[k - 1]>>] /\ h[k - 1] = g[k - 1]
        OBVIOUS
      <4> QED BY <3>1, <4>1
    <3>2. CASE i # k
      <4>1. i \in 1..(k - 1) /\ h[i] = g[i] /\ h[i - 1] = g[i - 1]
        BY <3>2
      <4> QED BY <2>1, <4>1
    <3> QED BY <3>1, <3>2
  <2>4. h[0] = base
    BY <2>1
  <2> HIDE DEF h
  <2> QED BY <2>2, <2>3, <2>4
<1> HIDE DEF T
<1>3. \A i \in 0..n : i \in T
  BY <1>1, <1>2, Induction
<1>4. n \in T
  BY <1>3
<1> QED BY <1>4 DEF T, Iterable

-----------------------------------------------------------------------------
(* The tables.                                                              *)

NoOrOneTime == {{}} \union {{t} : t \in Times}
Tables == [times : [Sections -> NoOrOneTime], booked : SUBSET (Sections \X Rooms \X Times)]

\* None is neither a room nor a request.
LEMMA RoomsAreNotNone == None \notin Rooms /\ None \notin Requests
BY BoardAssumption

\* Where a section is in two schedules.
Same(d, e, s) == d.times[s] = e.times[s] /\ Bookings(d, s) = Bookings(e, s)

\* A page is given the same place for a section that has the same rows.
LEMMA SamePlace ==
    ASSUME NEW d, NEW e, NEW s, Same(d, e, s)
    PROVE  Place(d, s) = Place(e, s)
BY DEF Same, Place

\* A schedule, in terms of single bookings.
LEMMA ScheduleFacts ==
    ASSUME NEW d, IsSchedule(d)
    PROVE  /\ d \in Tables /\ IsFiniteSet(d.booked)
           /\ \A b \in d.booked : b \in Sections \X Rooms \X Times /\ b[3] \in RoomTimes[b[2]]
           /\ \A b, c \in d.booked : b[2] = c[2] /\ b[3] = c[3] => b[1] = c[1]
           /\ \A s \in Sections : Bookings(d, s) # {} => \E b \in Bookings(d, s) : b[3] \in d.times[s]
<1>1. d \in Tables /\ IsFiniteSet(d.booked)
  BY DEF IsSchedule, Tables, NoOrOneTime
<1>2. \A b \in d.booked : b \in Sections \X Rooms \X Times /\ b[3] \in RoomTimes[b[2]]
  BY <1>1 DEF IsSchedule, Tables
<1>3. \A b, c \in d.booked : b[2] = c[2] /\ b[3] = c[3] => b[1] = c[1]
  BY <1>2 DEF IsSchedule, RoomConflicts
<1>4. \A s \in Sections : Bookings(d, s) # {} => \E b \in Bookings(d, s) : b[3] \in d.times[s]
  BY DEF IsSchedule, Place
<1> QED BY <1>1, <1>2, <1>3, <1>4

\* What has to be shown of tables that are a schedule.
LEMMA ScheduleIntro ==
    ASSUME NEW d \in Tables, IsFiniteSet(d.booked),
           \A b \in d.booked : b[3] \in RoomTimes[b[2]],
           \A b, c \in d.booked : b[2] = c[2] /\ b[3] = c[3] => b[1] = c[1],
           \A s \in Sections : Bookings(d, s) # {} => \E b \in Bookings(d, s) : b[3] \in d.times[s]
    PROVE  IsSchedule(d)
<1>1. RoomConflicts(d, Sections) = {}
  BY DEF RoomConflicts
<1>2. ASSUME NEW s \in Sections, Bookings(d, s) # {} PROVE Place(d, s).room # None
  <2> DEFINE assigned == {b \in Bookings(d, s) : b[3] \in d.times[s]}
  <2>1. assigned # {} /\ assigned \subseteq Sections \X Rooms \X Times
    BY <1>2 DEF Bookings, Tables
  <2>2. (CHOOSE b \in assigned : TRUE) \in assigned
    BY <2>1
  <2>3. (CHOOSE b \in assigned : TRUE)[2] \in Rooms
    BY <2>1, <2>2
  <2>4. Place(d, s).room = (CHOOSE b \in assigned : TRUE)[2]
    BY <2>1 DEF Place
  <2> QED BY <2>3, <2>4, RoomsAreNotNone
<1> QED BY <1>1, <1>2 DEF IsSchedule, Tables, NoOrOneTime

\* What a page shows of a section that is scheduled.
LEMMA PlaceShown ==
    ASSUME NEW d, IsSchedule(d), NEW s \in Sections
    PROVE  Place(d, s) \in Shown
<1> DEFINE assigned == {b \in Bookings(d, s) : b[3] \in d.times[s]}
           room == IF assigned = {} THEN None ELSE (CHOOSE b \in assigned : TRUE)[2]
<1>1. d.times[s] \in NoOrOneTime
  BY ScheduleFacts DEF Tables
<1>2. Place(d, s) = [room |-> room, times |-> d.times[s]]
  BY DEF Place
<1>3. CASE assigned = {}
  BY <1>1, <1>2, <1>3 DEF Shown, NoOrOneTime
<1>4. CASE assigned # {}
  <2>1. PICK b \in assigned : b = CHOOSE x \in assigned : TRUE
    BY <1>4
  <2>2. b \in d.booked /\ b[3] \in d.times[s]
    BY DEF Bookings
  <2>3. b[2] \in Rooms /\ b[3] \in RoomTimes[b[2]]
    BY <2>2, ScheduleFacts
  <2>4. d.times[s] = {b[3]} /\ d.times[s] \in {{t} : t \in Times}
    BY <1>1, <2>2 DEF NoOrOneTime
  <2>5. room = b[2]
    BY <1>4, <2>1
  <2> HIDE DEF room, assigned
  <2>6. Place(d, s) \in Places
    BY <1>2, <2>3, <2>4, <2>5 DEF Places
  <2> QED BY <2>6 DEF Shown
<1> QED BY <1>3, <1>4

\* What a section is not given by its own bookings, it does not have.
LEMMA NowhereMeansNothing ==
    ASSUME NEW d, IsSchedule(d), NEW s \in Sections, Place(d, s) = Nowhere
    PROVE  d.times[s] = {} /\ Bookings(d, s) = {}
<1>1. d.times[s] = {}
  BY DEF Place, Nowhere
<1> QED BY <1>1, ScheduleFacts

\* A section without meeting times is nowhere.
LEMMA NothingMeansNowhere ==
    ASSUME NEW d, NEW s, d.times[s] = {}
    PROVE  Place(d, s) = Nowhere
BY DEF Place, Nowhere

\* The operations on the tables.
LEMMA TableUpdates ==
    ASSUME NEW d, d = [times |-> d.times, booked |-> d.booked], NEW s, NEW T
    PROVE  /\ clearRooms(d, s) = [times |-> d.times, booked |-> {b \in d.booked : b[1] # s}]
           /\ assign_meeting_times(d, s, T) = [times |-> [d.times EXCEPT ![s] = T], booked |-> d.booked]
           /\ clear_meeting_times(d, s) = [times |-> [d.times EXCEPT ![s] = {}], booked |-> d.booked]
<1> DEFINE B == {b \in d.booked : b[1] # s}
           F(U) == [d.times EXCEPT ![s] = U]
<1>1. clearRooms(d, s) = [d EXCEPT !.booked = B]
  BY DEF clearRooms
<1>2. \A U : assign_meeting_times(d, s, U) = [d EXCEPT !.times = F(U)]
  BY DEF assign_meeting_times
<1> HIDE DEF B, F
<1>3. [d EXCEPT !.booked = B] = [times |-> d.times, booked |-> B]
  OBVIOUS
<1>4. \A U : [d EXCEPT !.times = F(U)] = [times |-> F(U), booked |-> d.booked]
  OBVIOUS
<1> QED BY <1>1, <1>2, <1>3, <1>4 DEF clear_meeting_times, B, F

\* A section is taken out of the schedule.
LEMMA ClearedFacts ==
    ASSUME NEW c, IsSchedule(c), NEW s \in Sections, NEW e,
           e = [times |-> [c.times EXCEPT ![s] = {}], booked |-> {b \in c.booked : b[1] # s}]
    PROVE  /\ IsSchedule(e)
           /\ \A x \in Sections \ {s} : Same(e, c, x)
           /\ e.times[s] = {} /\ Bookings(e, s) = {} /\ Place(e, s) = Nowhere
<1>1. /\ c.times \in [Sections -> NoOrOneTime] /\ c.booked \subseteq Sections \X Rooms \X Times
      /\ IsFiniteSet(c.booked)
  BY ScheduleFacts DEF Tables
<1>2. e.times = [c.times EXCEPT ![s] = {}] /\ e.booked = {b \in c.booked : b[1] # s} /\ {} \in NoOrOneTime
  BY DEF NoOrOneTime
<1>3. e.times[s] = {} /\ \A x \in Sections \ {s} : e.times[x] = c.times[x]
  BY <1>1, <1>2
<1>4. Bookings(e, s) = {} /\ \A x \in Sections \ {s} : Bookings(e, x) = Bookings(c, x)
  BY <1>2 DEF Bookings
<1>5. e \in Tables
  BY <1>1, <1>2 DEF Tables
<1>6. IsFiniteSet(e.booked) /\ e.booked \subseteq c.booked
  BY <1>1, <1>2, FS_Subset
<1>7. /\ \A b \in e.booked : b[3] \in RoomTimes[b[2]]
      /\ \A b, k \in e.booked : b[2] = k[2] /\ b[3] = k[3] => b[1] = k[1]
  BY <1>6, ScheduleFacts
<1>8. \A x \in Sections : Bookings(e, x) # {} => \E b \in Bookings(e, x) : b[3] \in e.times[x]
  BY <1>3, <1>4, ScheduleFacts
<1>9. IsSchedule(e)
  BY <1>5, <1>6, <1>7, <1>8, ScheduleIntro
<1> QED BY <1>3, <1>4, <1>9, NothingMeansNowhere DEF Same

\* A section gets a room for its only time: what is left of the schedule c
\* stays as it is.
LEMMA AssignedFacts ==
    ASSUME NEW c, IsSchedule(c), NEW s \in Sections, NEW t \in Times, NEW r \in Rooms, NEW d,
           d.times = [c.times EXCEPT ![s] = {t}], d.booked \subseteq c.booked,
           d = [times |-> d.times, booked |-> d.booked],
           \A x \in Sections \ {s} : Bookings(d, x) = Bookings(c, x),
           CanAssignRoom(d, s, r), NEW e, e = assign_room(d, s, r)
    PROVE  /\ IsSchedule(e)
           /\ \A x \in Sections \ {s} : Same(e, c, x)
           /\ e.times[s] = {t} /\ Bookings(e, s) = Bookings(d, s) \union {<<s, r, t>>}
<1>1. /\ c.times \in [Sections -> NoOrOneTime] /\ c.booked \subseteq Sections \X Rooms \X Times
      /\ IsFiniteSet(c.booked)
  BY ScheduleFacts DEF Tables
<1>2. d.times[s] = {t} /\ {t} \in NoOrOneTime /\ \A x \in Sections \ {s} : d.times[x] = c.times[x]
  BY <1>1 DEF NoOrOneTime
<1>3. {s} \X {r} \X d.times[s] = {<<s, r, t>>}
  BY <1>2
<1>4. e.times = d.times /\ e.booked = d.booked \union {<<s, r, t>>} /\ e = [times |-> e.times, booked |-> e.booked]
  BY <1>3 DEF assign_room
<1>5. e \in Tables
  <2>1. e.times \in [Sections -> NoOrOneTime]
    BY <1>1, <1>2, <1>4
  <2>2. <<s, r, t>> \in Sections \X Rooms \X Times
    OBVIOUS
  <2>3. e.booked \in SUBSET (Sections \X Rooms \X Times)
    BY <1>1, <1>4, <2>2
  <2> QED BY <1>4, <2>1, <2>3 DEF Tables
<1>6. IsFiniteSet(e.booked)
  <2>1. IsFiniteSet(d.booked) /\ IsFiniteSet({<<s, r, t>>})
    BY <1>1, FS_Subset, FS_Singleton
  <2>2. IsFiniteSet(d.booked \union {<<s, r, t>>})
    BY <2>1, FS_Union
  <2> QED BY <2>2, <1>4
<1>7. \A x \in Sections \ {s} : Bookings(e, x) = Bookings(c, x)
  <2> TAKE x \in Sections \ {s}
  <2>1. Bookings(e, x) = Bookings(d, x)
    BY <1>4 DEF Bookings
  <2> QED BY <2>1
<1>8. Bookings(e, s) = Bookings(d, s) \union {<<s, r, t>>}
  BY <1>4 DEF Bookings
<1>9. t \in RoomTimes[r] /\ \A b \in d.booked : ~(b[2] = r /\ b[3] = t)
  BY <1>2 DEF CanAssignRoom, IsTaken
<1>10. \A b \in e.booked : b[3] \in RoomTimes[b[2]]
  BY <1>4, <1>9, ScheduleFacts
<1>11. \A b, k \in e.booked : b[2] = k[2] /\ b[3] = k[3] => b[1] = k[1]
  <2> TAKE b, k \in e.booked
  <2>1. CASE b \in d.booked /\ k \in d.booked
    BY <2>1, ScheduleFacts
  <2>2. CASE b = <<s, r, t>> \/ k = <<s, r, t>>
    BY <2>2, <1>4, <1>9
  <2> QED BY <2>1, <2>2, <1>4
<1>12. \A x \in Sections : Bookings(e, x) # {} => \E b \in Bookings(e, x) : b[3] \in e.times[x]
  <2> TAKE x \in Sections
  <2>1. CASE x = s
    <3>1. <<s, r, t>> \in Bookings(e, x) /\ <<s, r, t>>[3] \in e.times[x]
      BY <2>1, <1>2, <1>4, <1>8
    <3> QED BY <3>1
  <2>2. CASE x # s
    BY <2>2, <1>2, <1>4, <1>7, ScheduleFacts
  <2> QED BY <2>1, <2>2
<1>13. IsSchedule(e)
  BY <1>5, <1>6, <1>10, <1>11, <1>12, ScheduleIntro
<1> QED BY <1>2, <1>4, <1>7, <1>8, <1>13 DEF Same

-----------------------------------------------------------------------------
(* The log.                                                                 *)

Consecutive(l) == \A i, j \in DOMAIN l : l[i].index + j = l[j].index + i

IsLog(l) == l \in Seq(LogEntry) /\ Consecutive(l)

\* get_latest_index is the largest index, and the order of the log that of the indices.
LEMMA LatestIndex ==
    ASSUME NEW l, IsLog(l)
    PROVE  /\ get_latest_index(l) \in Nat
           /\ \A i \in DOMAIN l : l[i].index <= get_latest_index(l) /\ l[i].index \in Nat \ {0}
           /\ l # <<>> => Len(l) \in DOMAIN l /\ get_latest_index(l) = l[Len(l)].index
           /\ \A i, j \in DOMAIN l : i < j <=> l[i].index < l[j].index
<1>1. l \in Seq(LogEntry) /\ \A i \in DOMAIN l : l[i] \in LogEntry
  BY DEF IsLog
<1>2. DOMAIN l = 1..Len(l) /\ Len(l) \in Nat
  BY <1>1
<1>3. \A i \in DOMAIN l : l[i].index \in Nat \ {0}
  BY <1>1 DEF LogEntry
<1>4. \A i, j \in DOMAIN l : i < j <=> l[i].index < l[j].index
  BY <1>2, <1>3 DEF IsLog, Consecutive
<1>5. CASE l = <<>>
  BY <1>5, <1>4 DEF get_latest_index
<1>6. CASE l # <<>>
  <2>1. Len(l) \in DOMAIN l
    BY <1>1, <1>2, <1>6
  <2>2. get_latest_index(l) = l[Len(l)].index
    BY <1>6 DEF get_latest_index, Last
  <2>3. \A i \in DOMAIN l : l[i].index <= l[Len(l)].index
    BY <2>1, <1>2, <1>3 DEF IsLog, Consecutive
  <2> QED BY <2>1, <2>2, <2>3, <1>3, <1>4
<1> QED BY <1>5, <1>6

IsAppended(l, m, s, p) == \E named \in BOOLEAN : m = appendScheduling(l, s, p, named)

\* appendScheduling adds one entry, and the log stays a log.
LEMMA AppendedLog ==
    ASSUME NEW l, IsLog(l), NEW s \in Sections, NEW p \in Places \union {Nowhere},
           NEW m, IsAppended(l, m, s, p)
    PROVE  /\ IsLog(m) /\ Len(m) = Len(l) + 1 /\ Len(l) \in Nat
           /\ \A i \in 1..Len(l) : m[i] = l[i]
           /\ m[Len(m)].section = s /\ m[Len(m)].place = p
<1>0. PICK named \in BOOLEAN : m = appendScheduling(l, s, p, named)
  BY DEF IsAppended
<1> DEFINE e == Entry(l, s, p, named)
<1>1. l \in Seq(LogEntry) /\ get_latest_index(l) \in Nat
  BY LatestIndex DEF IsLog
<1>2. e \in LogEntry /\ e.section = s /\ e.place = p /\ e.index = get_latest_index(l) + 1
  BY <1>1 DEF Entry, LogEntry
<1> HIDE DEF e
<1>3. m = Append(l, e)
  BY <1>0 DEF appendScheduling, e
<1>4. /\ m \in Seq(LogEntry) /\ Len(m) = Len(l) + 1 /\ Len(l) \in Nat
      /\ \A i \in 1..Len(l) : m[i] = l[i]
      /\ m[Len(l) + 1] = e
  BY <1>1, <1>2, <1>3, AppendProperties
<1>5. DOMAIN m = 1..(Len(l) + 1) /\ DOMAIN l = 1..Len(l)
  BY <1>1, <1>4
<1>6. \A i \in 1..Len(l) : l[i].index + (Len(l) + 1) = e.index + i
  <2> TAKE i \in 1..Len(l)
  <2>1. l # <<>> /\ i \in DOMAIN l /\ Len(l) \in DOMAIN l
    BY <1>1, <1>4, <1>5
  <2>2. get_latest_index(l) = l[Len(l)].index /\ l[i].index \in Nat
    BY <2>1, LatestIndex
  <2>3. l[i].index + Len(l) = l[Len(l)].index + i
    BY <2>1 DEF IsLog, Consecutive
  <2>4. l[i].index + Len(l) = get_latest_index(l) + i /\ e.index = get_latest_index(l) + 1
    BY <2>2, <2>3, <1>2
  <2>5. i \in Nat /\ Len(l) \in Nat /\ get_latest_index(l) \in Nat /\ l[i].index \in Nat
    BY <2>2, <1>1, <1>4
  <2> QED BY <2>4, <2>5
<1>7. Consecutive(m)
  <2> SUFFICES ASSUME NEW i \in DOMAIN m, NEW j \in DOMAIN m PROVE m[i].index + j = m[j].index + i
    BY DEF Consecutive
  <2>1. CASE i \in 1..Len(l) /\ j \in 1..Len(l)
    BY <2>1, <1>4, <1>5 DEF IsLog, Consecutive
  <2>2. CASE i = Len(l) + 1 /\ j \in 1..Len(l)
    BY <2>2, <1>4, <1>6
  <2>3. CASE j = Len(l) + 1 /\ i \in 1..Len(l)
    BY <2>3, <1>4, <1>6
  <2>4. CASE i = Len(l) + 1 /\ j = Len(l) + 1
    BY <2>4
  <2> QED BY <2>1, <2>2, <2>3, <2>4, <1>4, <1>5
<1> QED BY <1>2, <1>4, <1>7 DEF IsLog

-----------------------------------------------------------------------------
(* The server, while it handles a request.                                  *)

Servers == [db : Tables, log : Seq(LogEntry), ret : BOOLEAN, silent : SUBSET Sections]

\* The entries that were added for a section.
NewFor(l, s) == {k \in (Len(log) + 1)..Len(l) : l[k].section = s}
IsNewest(l, s, k) == k \in NewFor(l, s) /\ \A j \in NewFor(l, s) : j <= k

Extends(l) == Len(log) <= Len(l) /\ \A i \in 1..Len(log) : l[i] = log[i]

\* A section has changed silently, or it has not changed, or the last entry
\* says where it is or shall be in the end.
Recorded(v, s, wish) ==
    \/ s \in v.silent
    \/ NewFor(v.log, s) = {} /\ Same(v.db, db, s)
    \/ \E k \in NewFor(v.log, s) :
           /\ \A j \in NewFor(v.log, s) : j <= k
           /\ v.log[k].place = Place(v.db, s) \/ (s \in DOMAIN wish /\ v.log[k].place = wish[s])

\* Only the sections of M have changed, and that is recorded.
Served(v, M, wish) ==
    /\ v \in Servers
    /\ IsSchedule(v.db)
    /\ IsLog(v.log) /\ Extends(v.log)
    /\ v.silent \subseteq M
    /\ \A s \in Sections \ M : NewFor(v.log, s) = {} /\ Same(v.db, db, s)
    /\ \A s \in Sections : Recorded(v, s, wish)

\* Before it does anything, the server has changed nothing.
LEMMA ServerServed ==
    ASSUME IsSchedule(db), IsLog(log), NEW M, NEW wish
    PROVE  Served(Server, M, wish)
<1>1. /\ Server.db = db /\ Server.log = log /\ Server.silent = {} /\ Server.ret = TRUE
      /\ Server = [db |-> db, log |-> log, ret |-> TRUE, silent |-> {}]
  BY DEF Server
<1>2. db \in Tables /\ log \in Seq(LogEntry)
  BY ScheduleFacts DEF IsLog
<1>3. Len(log) \in Nat
  BY <1>2
<1>4. \A s : NewFor(log, s) = {} /\ Same(db, db, s)
  BY <1>3 DEF NewFor, Same
<1>5. Extends(log)
  BY <1>3 DEF Extends
<1>6. Server \in Servers
  BY <1>1, <1>2 DEF Servers
<1> HIDE DEF Server
<1> QED BY <1>1, <1>4, <1>5, <1>6 DEF Served, Recorded

\* The parts of a server that has recorded what it did.
LEMMA ServedFacts ==
    ASSUME NEW M, NEW wish, NEW v, Served(v, M, wish)
    PROVE  /\ v \in Servers /\ IsSchedule(v.db) /\ v.db \in Tables /\ v.ret \in BOOLEAN
           /\ v = [db |-> v.db, log |-> v.log, ret |-> v.ret, silent |-> v.silent]
           /\ v.silent \subseteq Sections /\ v.log \in Seq(LogEntry) /\ IsLog(v.log)
<1>1. v \in [db : Tables, log : Seq(LogEntry), ret : BOOLEAN, silent : SUBSET Sections]
  BY DEF Served, Servers
<1> QED BY <1>1 DEF Served

\* The next state of the server, whether it is successful or not.
Becomes(w, e, l, silent) ==
    w = [db |-> e, log |-> l, ret |-> w.ret, silent |-> silent] /\ w.ret \in BOOLEAN

\* A refusal changes neither tables nor log.
LEMMA ServedRefuse ==
    ASSUME NEW M, NEW wish, NEW v, Served(v, M, wish), NEW w, Becomes(w, v.db, v.log, v.silent)
    PROVE  Served(w, M, wish)
<1>1. w.db = v.db /\ w.log = v.log /\ w.silent = v.silent /\ w \in Servers
  BY ServedFacts DEF Servers, Becomes
<1>2. \A s \in Sections : Recorded(w, s, wish)
  BY <1>1 DEF Served, Recorded
<1> QED BY <1>1, <1>2 DEF Served

\* A section is changed, and an entry says where it is or shall be.
LEMMA ServedAppend ==
    ASSUME IsLog(log), NEW M, NEW wish, NEW v, Served(v, M, wish), NEW s \in Sections, s \in M,
           NEW e, IsSchedule(e), \A x \in Sections \ {s} : Same(e, v.db, x),
           NEW p \in Places \union {Nowhere}, p = Place(e, s) \/ (s \in DOMAIN wish /\ p = wish[s]),
           NEW l, IsAppended(v.log, l, s, p), NEW w, Becomes(w, e, l, v.silent)
    PROVE  /\ Served(w, M, wish) /\ w.db = e
           /\ NewFor(w.log, s) # {}
           /\ \A x : NewFor(v.log, x) \subseteq NewFor(w.log, x)
<1>1. v \in Servers /\ v.log \in Seq(LogEntry) /\ IsLog(v.log)
  BY ServedFacts
<1>2. /\ w.db = e /\ w.silent = v.silent /\ w.log = l /\ w.ret \in BOOLEAN
      /\ w = [db |-> e, log |-> w.log, ret |-> w.ret, silent |-> v.silent]
  BY DEF Becomes
<1> DEFINE n == Len(v.log)
<1>3. /\ IsLog(w.log) /\ Len(w.log) = n + 1 /\ n \in Nat
      /\ \A i \in 1..n : w.log[i] = v.log[i]
      /\ w.log[n + 1].section = s /\ w.log[n + 1].place = p
  <2>1. /\ IsLog(l) /\ Len(l) = n + 1 /\ n \in Nat
        /\ \A i \in 1..n : l[i] = v.log[i]
        /\ l[Len(l)].section = s /\ l[Len(l)].place = p
    BY <1>1, AppendedLog
  <2> QED BY <2>1, <1>2
<1>4. Len(log) \in Nat /\ Len(log) <= n /\ \A i \in 1..Len(log) : v.log[i] = log[i]
  BY DEF Served, Extends, IsLog
<1>5. Extends(w.log)
  BY <1>3, <1>4 DEF Extends
<1> HIDE DEF n
<1>6. (Len(log) + 1)..Len(w.log) = ((Len(log) + 1)..Len(v.log)) \union {n + 1}
  BY <1>3, <1>4 DEF n
<1>7. NewFor(w.log, s) = NewFor(v.log, s) \union {n + 1}
  BY <1>3, <1>4, <1>6 DEF NewFor, n
<1>8. \A x : x # s => NewFor(w.log, x) = NewFor(v.log, x)
  BY <1>3, <1>4, <1>6 DEF NewFor, n
<1>9. \A x : \A k \in NewFor(v.log, x) : k \in 1..n /\ w.log[k] = v.log[k]
  BY <1>3, <1>4 DEF NewFor, n
<1>10. e \in Tables /\ w \in Servers
  BY <1>1, <1>2, <1>3, ScheduleFacts DEF Servers, IsLog
<1>11. Recorded(w, s, wish)
  <2>1. n + 1 \in NewFor(w.log, s) /\ \A j \in NewFor(w.log, s) : j <= n + 1
    BY <1>3, <1>7, <1>9
  <2> QED BY <2>1, <1>2, <1>3 DEF Recorded
<1>12. ASSUME NEW x \in Sections \ {s} PROVE Recorded(w, x, wish)
  <2>1. Same(e, v.db, x) /\ Place(e, x) = Place(v.db, x)
    BY SamePlace
  <2>2. NewFor(w.log, x) = NewFor(v.log, x) /\ \A k \in NewFor(v.log, x) : w.log[k] = v.log[k]
    BY <1>8, <1>9
  <2>3. Recorded(v, x, wish)
    BY DEF Served
  <2>4. CASE x \in v.silent
    BY <2>4, <1>2 DEF Recorded
  <2>5. CASE NewFor(v.log, x) = {} /\ Same(v.db, db, x)
    BY <2>1, <2>2, <2>5, <1>2 DEF Recorded, Same
  <2>6. CASE \E k \in NewFor(v.log, x) :
                 /\ \A j \in NewFor(v.log, x) : j <= k
                 /\ v.log[k].place = Place(v.db, x) \/ (x \in DOMAIN wish /\ v.log[k].place = wish[x])
    BY <2>1, <2>2, <2>6, <1>2 DEF Recorded
  <2> QED BY <2>3, <2>4, <2>5, <2>6 DEF Recorded
<1>13. \A x \in Sections \ M : NewFor(w.log, x) = {} /\ Same(w.db, db, x)
  <2> TAKE x \in Sections \ M
  <2>1. NewFor(v.log, x) = {} /\ Same(v.db, db, x) /\ x # s
    BY DEF Served
  <2> QED BY <2>1, <1>2, <1>8 DEF Same
<1>14. Served(w, M, wish)
  <2>1. w.silent \subseteq M /\ IsSchedule(w.db)
    BY <1>2 DEF Served
  <2> QED BY <2>1, <1>3, <1>5, <1>10, <1>11, <1>12, <1>13 DEF Served
<1>15. \A x : NewFor(v.log, x) \subseteq NewFor(w.log, x)
  BY <1>7, <1>8
<1> QED BY <1>2, <1>7, <1>14, <1>15

\* A section loses its place without an entry.
LEMMA ServedSilent ==
    ASSUME NEW M, NEW wish, NEW v, Served(v, M, wish), NEW s \in Sections, s \in M,
           NEW e, IsSchedule(e), \A x \in Sections \ {s} : Same(e, v.db, x),
           e.times[s] = {}, Bookings(e, s) = {},
           NEW silent, v.silent \subseteq silent, silent \subseteq v.silent \union {s},
           s \in silent \/ Place(v.db, s) = Nowhere,
           NEW w, Becomes(w, e, v.log, silent)
    PROVE  Served(w, M, wish) /\ w.db = e /\ w.log = v.log
<1>1. v \in Servers /\ v.log \in Seq(LogEntry) /\ IsLog(v.log) /\ IsSchedule(v.db)
  BY ServedFacts
<1>2. /\ w.db = e /\ w.log = v.log /\ w.silent = silent /\ w.ret \in BOOLEAN
      /\ w = [db |-> e, log |-> v.log, ret |-> w.ret, silent |-> silent]
  BY DEF Becomes
<1>3. v.silent \subseteq w.silent /\ w.silent \subseteq M /\ w.silent \subseteq Sections
  BY <1>1, <1>2 DEF Served, Servers
<1>4. e \in Tables /\ w \in Servers
  BY <1>1, <1>2, <1>3, ScheduleFacts DEF Servers
<1>5. ASSUME NEW x \in Sections, x # s \/ Place(v.db, s) = Nowhere
      PROVE  Same(e, v.db, x)
  BY <1>1, <1>5, NowhereMeansNothing DEF Same
<1>6. ASSUME NEW x \in Sections PROVE Recorded(w, x, wish)
  <2>1. CASE x = s /\ Place(v.db, s) # Nowhere
    BY <2>1, <1>2 DEF Recorded
  <2>2. CASE x # s \/ Place(v.db, s) = Nowhere
    <3>1. Same(e, v.db, x) /\ Place(e, x) = Place(v.db, x)
      BY <2>2, <1>5, SamePlace
    <3>2. Recorded(v, x, wish)
      BY DEF Served
    <3> QED BY <3>1, <3>2, <1>2, <1>3 DEF Recorded, Same
  <2> QED BY <2>1, <2>2
<1>7. \A x \in Sections \ M : NewFor(w.log, x) = {} /\ Same(w.db, db, x)
  <2> TAKE x \in Sections \ M
  <2>1. NewFor(v.log, x) = {} /\ Same(v.db, db, x) /\ x # s
    BY DEF Served
  <2> QED BY <2>1, <1>2 DEF Same
<1>8. Served(w, M, wish)
  BY <1>2, <1>3, <1>4, <1>6, <1>7 DEF Served
<1> QED BY <1>2, <1>8

-----------------------------------------------------------------------------
(* The handlers.                                                            *)

\* Teachers are in one place, unless somebody did not want to hear of it.
TeachersOK(d, over) ==
    \A s, x \in Sections \ over :
        s # x /\ TaughtBy[s] \intersect TaughtBy[x] # {} => d.times[s] \intersect d.times[x] = {}

\* A section that is taken out of the schedule clashes with no other.
LEMMA TeachersCleared ==
    ASSUME NEW c, NEW over, TeachersOK(c, over), NEW s \in Sections, NEW e,
           \A x \in Sections \ {s} : Same(e, c, x), e.times[s] = {}
    PROVE  TeachersOK(e, over)
BY DEF TeachersOK, Same

\* A section whose time passed the checks clashes with no other.
LEMMA TeachersAssigned ==
    ASSUME NEW c \in Tables, NEW over, TeachersOK(c, over), NEW s \in Sections, NEW e,
           \A x \in Sections \ {s} : Same(e, c, x),
           NEW t \in Times, e.times[s] = {t}, s \in over \/ ~cannotSchedule(c, s, {t})
    PROVE  TeachersOK(e, over)
<1> SUFFICES ASSUME NEW x \in Sections \ over, NEW y \in Sections \ over, x # y,
                    TaughtBy[x] \intersect TaughtBy[y] # {}
             PROVE  e.times[x] \intersect e.times[y] = {}
  BY DEF TeachersOK
<1>1. \A z \in Sections \ {s} : e.times[z] = c.times[z]
  BY DEF Same
<1>2. ASSUME NEW z \in Sections \ over, z # s, s \notin over, TaughtBy[s] \intersect TaughtBy[z] # {}
      PROVE  {t} \intersect c.times[z] = {}
  <2>1. CASE {t} \subseteq c.times[s]
    <3>1. c.times[s] = {t}
      BY <2>1 DEF Tables, NoOrOneTime
    <3> QED BY <1>2, <3>1 DEF TeachersOK
  <2>2. CASE ~({t} \subseteq c.times[s])
    <3>1. PICK u \in TaughtBy[s] : u \in TaughtBy[z]
      BY <1>2
    <3>2. {t} \intersect Teaching(c, u, s) = {}
      BY <1>2, <2>2, <3>1 DEF cannotSchedule
    <3>3. c.times[z] \subseteq Teaching(c, u, s)
      BY <1>2, <3>1 DEF Teaching
    <3> QED BY <3>2, <3>3
  <2> QED BY <2>1, <2>2
<1>3. CASE x # s /\ y # s
  BY <1>1, <1>3 DEF TeachersOK
<1>4. CASE x = s
  BY <1>1, <1>2, <1>4
<1>5. CASE y = s
  <2>1. TaughtBy[s] \intersect TaughtBy[x] # {}
    BY <1>5
  <2> QED BY <1>1, <1>2, <1>5, <2>1
<1> QED BY <1>3, <1>4, <1>5

\* The states that the handlers go through.
GoodServers(M, wish, over) == {v \in Servers : Served(v, M, wish) /\ TeachersOK(v.db, over)}

\* The parts of what is said of a server that has also kept the teachers free.
LEMMA GoodFacts ==
    ASSUME NEW M, NEW wish, NEW over, NEW v \in GoodServers(M, wish, over)
    PROVE  /\ Served(v, M, wish) /\ TeachersOK(v.db, over) /\ v \in Servers
           /\ IsSchedule(v.db) /\ v.db \in Tables
           /\ v.db = [times |-> v.db.times, booked |-> v.db.booked]
           /\ v.db.times \in [Sections -> NoOrOneTime]
<1>1. Served(v, M, wish) /\ TeachersOK(v.db, over) /\ v \in Servers
  BY DEF GoodServers
<1>2. IsSchedule(v.db) /\ v.db \in Tables
  BY <1>1, ServedFacts
<1> QED BY <1>1, <1>2 DEF Tables

\* ajax_schedule_deletereg.
LEMMA DeleteregGood ==
    ASSUME IsLog(log), NEW M, NEW wish, NEW over, NEW v \in GoodServers(M, wish, over),
           NEW s \in Sections, s \in M, NEW w, w = ajax_schedule_deletereg(v, s)
    PROVE  /\ w \in GoodServers(M, wish, over) /\ w.ret = v.ret
           /\ NewFor(w.log, s) # {}
           /\ \A x : NewFor(v.log, x) \subseteq NewFor(w.log, x)
<1> DEFINE e == clear_meeting_times(clearRooms(v.db, s), s)
<1>1. /\ Served(v, M, wish) /\ TeachersOK(v.db, over) /\ v \in Servers
      /\ IsSchedule(v.db) /\ v.db = [times |-> v.db.times, booked |-> v.db.booked]
  BY GoodFacts
<1>2. e = [times |-> [v.db.times EXCEPT ![s] = {}], booked |-> {b \in v.db.booked : b[1] # s}]
  <2> DEFINE d == clearRooms(v.db, s)
  <2>1. d = [times |-> v.db.times, booked |-> {b \in v.db.booked : b[1] # s}]
    BY <1>1, TableUpdates
  <2> HIDE DEF d
  <2>2. d = [times |-> d.times, booked |-> d.booked] /\ d.times = v.db.times /\ d.booked = {b \in v.db.booked : b[1] # s}
    BY <2>1
  <2>3. clear_meeting_times(d, s) = [times |-> [d.times EXCEPT ![s] = {}], booked |-> d.booked]
    BY <2>2, TableUpdates
  <2> QED BY <2>2, <2>3 DEF d
<1> DEFINE l == appendScheduling(v.log, s, Nowhere, FALSE)
<1>3. Becomes(w, e, l, v.silent) /\ w.ret = v.ret
  BY <1>1 DEF ajax_schedule_deletereg, Becomes, Servers
<1>9. IsAppended(v.log, l, s, Nowhere)
  BY DEF IsAppended
<1> HIDE DEF l
<1> HIDE DEF e
<1>4. /\ IsSchedule(e) /\ \A x \in Sections \ {s} : Same(e, v.db, x)
      /\ e.times[s] = {} /\ Place(e, s) = Nowhere
  BY <1>1, <1>2, ClearedFacts
<1>5. Nowhere \in Places \union {Nowhere} /\ Nowhere = Place(e, s)
  BY <1>4
<1>6. /\ Served(w, M, wish) /\ w.db = e
      /\ NewFor(w.log, s) # {} /\ \A x : NewFor(v.log, x) \subseteq NewFor(w.log, x)
  BY <1>1, <1>3, <1>4, <1>5, <1>9, ServedAppend
<1>7. TeachersOK(w.db, over)
  BY <1>1, <1>4, <1>6, TeachersCleared
<1>8. w \in Servers
  BY <1>6, ServedFacts
<1> QED BY <1>3, <1>6, <1>7, <1>8 DEF GoodServers

MayOverride(override, s, over) == override \in BOOLEAN /\ (override => s \in over)

\* ajax_schedule_assignreg, whether it succeeds, is refused, or loses the place.
LEMMA AssignregGood ==
    ASSUME IsLog(log), NEW M, NEW wish, NEW over, NEW v \in GoodServers(M, wish, over),
           NEW s \in Sections, s \in M, NEW p \in Places, NEW override, MayOverride(override, s, over),
           NEW w, w = ajax_schedule_assignreg(v, s, p, override)
    PROVE  /\ w \in GoodServers(M, wish, over)
           /\ w.ret => NewFor(w.log, s) # {}
           /\ \A x : NewFor(v.log, x) \subseteq NewFor(w.log, x)
<1> DEFINE d == clearRooms(assign_meeting_times(v.db, s, p.times), s)
           e == assign_room(d, s, p.room)
           c == clear_meeting_times(d, s)
<1>1. /\ Served(v, M, wish) /\ TeachersOK(v.db, over) /\ v \in Servers /\ v.db \in Tables
      /\ IsSchedule(v.db) /\ v.db = [times |-> v.db.times, booked |-> v.db.booked]
      /\ v.db.times \in [Sections -> NoOrOneTime]
  BY GoodFacts
<1>2. PICK t \in Times : p.times = {t}
  BY DEF Places
<1>3. p.room \in Rooms /\ p = [room |-> p.room, times |-> {t}]
  BY <1>2 DEF Places
<1>4. d = [times |-> [v.db.times EXCEPT ![s] = {t}], booked |-> {b \in v.db.booked : b[1] # s}]
  <2> DEFINE f == assign_meeting_times(v.db, s, p.times)
  <2>1. f = [times |-> [v.db.times EXCEPT ![s] = p.times], booked |-> v.db.booked]
    BY <1>1, TableUpdates
  <2> HIDE DEF f
  <2>2. f = [times |-> f.times, booked |-> f.booked] /\ f.times = [v.db.times EXCEPT ![s] = {t}] /\ f.booked = v.db.booked
    BY <2>1, <1>2
  <2>3. clearRooms(f, s) = [times |-> f.times, booked |-> {b \in f.booked : b[1] # s}]
    <3>1. f = [times |-> f.times, booked |-> f.booked]
      BY <2>2
    <3> QED BY <3>1, TableUpdates
  <2>4. d = clearRooms(f, s)
    BY DEF f
  <2> HIDE DEF d
  <2> QED BY <2>2, <2>3, <2>4
<1>5. c = [times |-> [v.db.times EXCEPT ![s] = {}], booked |-> {b \in v.db.booked : b[1] # s}]
  <2>1. [[v.db.times EXCEPT ![s] = {t}] EXCEPT ![s] = {}] = [v.db.times EXCEPT ![s] = {}]
    BY <1>1
  <2> HIDE DEF d
  <2>2. d = [times |-> d.times, booked |-> d.booked] /\ d.times = [v.db.times EXCEPT ![s] = {t}]
        /\ d.booked = {b \in v.db.booked : b[1] # s}
    BY <1>4
  <2>3. c = [times |-> [d.times EXCEPT ![s] = {}], booked |-> d.booked]
    BY <2>2, TableUpdates
  <2> QED BY <2>1, <2>2, <2>3
<1> DEFINE l == appendScheduling(v.log, s, p, FALSE)
           silent == IF Place(v.db, s) = Nowhere THEN v.silent ELSE v.silent \union {s}
           refused == ~override /\ cannotSchedule(v.db, s, p.times)
<1>6. /\ refused => Becomes(w, v.db, v.log, v.silent) /\ w.ret = FALSE
      /\ ~refused /\ CanAssignRoom(d, s, p.room) => Becomes(w, e, l, v.silent)
      /\ ~refused /\ ~CanAssignRoom(d, s, p.room) => Becomes(w, c, v.log, silent) /\ w.ret = FALSE
  <2> HIDE DEF d, e, c, l, silent, refused
  <2>1. w = IF refused THEN [v EXCEPT !.ret = FALSE]
            ELSE IF CanAssignRoom(d, s, p.room) THEN [v EXCEPT !.db = e, !.log = l]
            ELSE [v EXCEPT !.ret = FALSE, !.db = c, !.silent = silent]
    BY DEF ajax_schedule_assignreg, d, e, c, l, silent, refused
  <2>2. v = [db |-> v.db, log |-> v.log, ret |-> v.ret, silent |-> v.silent] /\ v.ret \in BOOLEAN
    BY <1>1 DEF Servers
  <2>3. CASE refused
    <3>1. w = [v EXCEPT !.ret = FALSE]
      BY <2>1, <2>3
    <3>2. w = [db |-> v.db, log |-> v.log, ret |-> FALSE, silent |-> v.silent]
      BY <3>1, <2>2
    <3> QED BY <2>3, <3>2 DEF Becomes
  <2>4. CASE ~refused /\ CanAssignRoom(d, s, p.room)
    <3>1. w = [v EXCEPT !.db = e, !.log = l]
      BY <2>1, <2>4
    <3>2. w = [db |-> e, log |-> l, ret |-> v.ret, silent |-> v.silent]
      BY <3>1, <2>2
    <3> QED BY <2>2, <2>4, <3>2 DEF Becomes
  <2>5. CASE ~refused /\ ~CanAssignRoom(d, s, p.room)
    <3>1. w = [v EXCEPT !.ret = FALSE, !.db = c, !.silent = silent]
      BY <2>1, <2>5
    <3>2. w = [db |-> c, log |-> v.log, ret |-> FALSE, silent |-> silent]
      BY <3>1, <2>2
    <3> QED BY <2>5, <3>2 DEF Becomes
  <2> QED BY <2>3, <2>4, <2>5
<1>10. IsAppended(v.log, l, s, p)
  BY DEF IsAppended
<1>11. /\ v.silent \subseteq silent /\ silent \subseteq v.silent \union {s}
       /\ s \in silent \/ Place(v.db, s) = Nowhere
  OBVIOUS
<1> HIDE DEF l, silent, refused
<1> HIDE DEF d, e, c
<1> USE DEF GoodServers
<1>7. CASE refused
  <2>1. Becomes(w, v.db, v.log, v.silent) /\ w.ret = FALSE
    BY <1>6, <1>7
  <2>2. w.db = v.db /\ w.log = v.log
    BY <2>1 DEF Becomes
  <2>3. Served(w, M, wish)
    BY <2>1, <1>1, ServedRefuse
  <2>4. w \in Servers
    BY <2>3, ServedFacts
  <2> QED BY <2>1, <2>2, <2>3, <2>4, <1>1
<1>8. CASE ~refused /\ CanAssignRoom(d, s, p.room)
  <2>1. Becomes(w, e, l, v.silent)
    BY <1>6, <1>8
  <2>2. /\ d.times = [v.db.times EXCEPT ![s] = {t}] /\ d.booked = {b \in v.db.booked : b[1] # s}
        /\ d = [times |-> d.times, booked |-> d.booked] /\ d.booked \subseteq v.db.booked
    BY <1>4
  <2>3. Bookings(d, s) = {} /\ \A x \in Sections \ {s} : Bookings(d, x) = Bookings(v.db, x)
    BY <2>2 DEF Bookings
  <2>4. /\ IsSchedule(e) /\ \A x \in Sections \ {s} : Same(e, v.db, x)
        /\ e.times[s] = {t} /\ Bookings(e, s) = {<<s, p.room, t>>}
    <3>1. e = assign_room(d, s, p.room)
      BY DEF e
    <3>2. /\ IsSchedule(e) /\ \A x \in Sections \ {s} : Same(e, v.db, x)
          /\ e.times[s] = {t} /\ Bookings(e, s) = Bookings(d, s) \union {<<s, p.room, t>>}
      BY <3>1, <2>2, <2>3, <1>1, <1>3, <1>8, AssignedFacts
    <3> QED BY <3>2, <2>3
  <2>5. Place(e, s) = p
    <3>1. {b \in Bookings(e, s) : b[3] \in e.times[s]} = {<<s, p.room, t>>}
      BY <2>4
    <3>2. (CHOOSE b \in {<<s, p.room, t>>} : TRUE) = <<s, p.room, t>>
      OBVIOUS
    <3> QED BY <3>1, <3>2, <2>4, <1>3 DEF Place
  <2>6. p \in Places \union {Nowhere} /\ p = Place(e, s)
    BY <2>5
  <2>7. /\ Served(w, M, wish) /\ w.db = e
        /\ NewFor(w.log, s) # {} /\ \A x : NewFor(v.log, x) \subseteq NewFor(w.log, x)
    <3>1. Served(v, M, wish) /\ IsSchedule(e) /\ \A x \in Sections \ {s} : Same(e, v.db, x)
      BY <1>1, <2>4
    <3>2. p = Place(e, s) \/ (s \in DOMAIN wish /\ p = wish[s])
      BY <2>5
    <3>3. p \in Places \union {Nowhere} /\ IsAppended(v.log, l, s, p) /\ Becomes(w, e, l, v.silent)
      BY <2>1, <2>6, <1>10
    <3> HIDE DEF GoodServers
    <3> QED BY <3>1, <3>2, <3>3, ServedAppend, SMTT(60)
  <2>8. TeachersOK(e, over)
    <3>1. s \in over \/ ~cannotSchedule(v.db, s, {t})
      BY <1>2, <1>8 DEF refused, MayOverride
    <3> QED BY <3>1, <2>4, <1>1, TeachersAssigned
  <2>9. w \in Servers
    BY <2>7, ServedFacts
  <2> QED BY <2>7, <2>8, <2>9
<1>9. CASE ~refused /\ ~CanAssignRoom(d, s, p.room)
  <2>1. Becomes(w, c, v.log, silent) /\ w.ret = FALSE
    BY <1>6, <1>9
  <2>2. /\ IsSchedule(c) /\ \A x \in Sections \ {s} : Same(c, v.db, x)
        /\ c.times[s] = {} /\ Bookings(c, s) = {}
    BY <1>1, <1>5, ClearedFacts
  <2>3. Served(w, M, wish) /\ w.db = c /\ w.log = v.log
    <3>1. Served(v, M, wish) /\ IsSchedule(c) /\ \A x \in Sections \ {s} : Same(c, v.db, x)
      BY <1>1, <2>2
    <3> HIDE DEF GoodServers
    <3>2. c.times[s] = {} /\ Bookings(c, s) = {} /\ Becomes(w, c, v.log, silent)
      BY <2>1, <2>2
    <3>3. Served(w, M, wish)
      BY <3>1, <3>2, <1>11, ServedSilent
    <3>4. w.db = c /\ w.log = v.log
      BY <3>2 DEF Becomes
    <3> QED BY <3>3, <3>4
  <2>4. TeachersOK(c, over)
    BY <2>2, <1>1, TeachersCleared
  <2>5. w \in Servers
    BY <2>3, ServedFacts
  <2> QED BY <2>1, <2>3, <2>4, <2>5
<1> QED BY <1>7, <1>8, <1>9

-----------------------------------------------------------------------------
(* Sections that are handled one after the other.                           *)

\* All are unscheduled.
HasUnscheduleRun(S, v, sections) ==
    \E d \in [0..Len(sections) -> S] :
        /\ d[0] = v /\ d[Len(sections)] = UnscheduleAll(v, sections)
        /\ \A i \in 1..Len(sections) : d[i] = ajax_schedule_deletereg(d[i - 1], sections[i])

\* The recursive functions of the handlers exist and do one step after the other.
LEMMA UnscheduleAllRuns ==
    ASSUME NEW S, NEW v \in S, NEW sections, Len(sections) \in Nat,
           \A i \in 1..Len(sections) : \A x \in S : ajax_schedule_deletereg(x, sections[i]) \in S
    PROVE  HasUnscheduleRun(S, v, sections)
<1> DEFINE n == Len(sections)
           F == [p \in (1..n) \X S |-> ajax_schedule_deletereg(p[2], sections[p[1]])]
           Is(d) == d = [k \in 0..n |-> IF k = 0 THEN v ELSE ajax_schedule_deletereg(d[k - 1], sections[k])]
           d == CHOOSE d : Is(d)
<1>1. n \in Nat
  OBVIOUS
<1>2. \A i \in 1..n : \A x \in S : F[<<i, x>>] = ajax_schedule_deletereg(x, sections[i])
  OBVIOUS
<1>3. F \in [(1..n) \X S -> S]
  OBVIOUS
<1>8. UnscheduleAll(v, sections) = d[n]
  BY DEF UnscheduleAll
<1>12. \A i \in 1..n : \A x \in S : ajax_schedule_deletereg(x, sections[i]) \in S
  OBVIOUS
<1> HIDE DEF F, n
<1>4. PICK g \in [0..n -> S] : g[0] = v /\ \A i \in 1..n : g[i] = F[<<i, g[i - 1]>>]
  <2>1. Iterable(n, S, v, F)
    BY <1>1, <1>3, Iteration
  <2> QED BY <2>1 DEF Iterable
<1>5. \A i \in 1..n : g[i] = ajax_schedule_deletereg(g[i - 1], sections[i])
  <2> TAKE i \in 1..n
  <2>1. g[i - 1] \in S
    BY <1>1, <1>4
  <2> QED BY <1>2, <1>4, <2>1
<1>6. Is(g)
  <2>1. g = [i \in 0..n |-> g[i]]
    BY <1>4
  <2>2. \A i \in 0..n : g[i] = IF i = 0 THEN v ELSE ajax_schedule_deletereg(g[i - 1], sections[i])
    BY <1>1, <1>4, <1>5
  <2> QED BY <2>1, <2>2
<1>7. Is(d)
  BY <1>6
<1> HIDE DEF d
<1>9. d[0] = v /\ \A i \in 1..n : d[i] = ajax_schedule_deletereg(d[i - 1], sections[i])
  BY <1>1, <1>7
<1>10. \A i \in 0..n : d[i] \in S
  <2> DEFINE T == {i \in 0..n : d[i] \in S}
  <2>1. 0 \in T
    BY <1>1, <1>9
  <2>2. \A i \in 1..n : i - 1 \in T => i \in T
    BY <1>1, <1>9, <1>12
  <2> HIDE DEF T
  <2>3. \A i \in 0..n : i \in T
    BY <1>1, <2>1, <2>2, Induction
  <2> QED BY <2>3 DEF T
<1>11. d \in [0..n -> S]
  BY <1>7, <1>10
<1> QED BY <1>8, <1>9, <1>11 DEF HasUnscheduleRun, n

\* They are scheduled again, until one cannot be.
HasRescheduleRun(S, v, todo, override) ==
    \E d \in [0..Len(todo) -> S] :
        /\ d[0] = v /\ d[Len(todo)] = RescheduleAll(v, todo, override)
        /\ \A i \in 1..Len(todo) : d[i] = Reschedule(d[i - 1], todo[i], override)

\* The same for the sections that are scheduled again.
LEMMA RescheduleAllRuns ==
    ASSUME NEW S, NEW v \in S, NEW todo, NEW override, Len(todo) \in Nat,
           \A i \in 1..Len(todo) : \A x \in S : Reschedule(x, todo[i], override) \in S
    PROVE  HasRescheduleRun(S, v, todo, override)
<1> DEFINE n == Len(todo)
           F == [p \in (1..n) \X S |-> Reschedule(p[2], todo[p[1]], override)]
           Is(d) == d = [k \in 0..n |-> IF k = 0 THEN v ELSE Reschedule(d[k - 1], todo[k], override)]
           d == CHOOSE d : Is(d)
<1>1. n \in Nat
  OBVIOUS
<1>2. \A i \in 1..n : \A x \in S : F[<<i, x>>] = Reschedule(x, todo[i], override)
  OBVIOUS
<1>3. F \in [(1..n) \X S -> S]
  OBVIOUS
<1>8. RescheduleAll(v, todo, override) = d[n]
  BY DEF RescheduleAll
<1>12. \A i \in 1..n : \A x \in S : Reschedule(x, todo[i], override) \in S
  OBVIOUS
<1> HIDE DEF F, n
<1>4. PICK g \in [0..n -> S] : g[0] = v /\ \A i \in 1..n : g[i] = F[<<i, g[i - 1]>>]
  <2>1. Iterable(n, S, v, F)
    BY <1>1, <1>3, Iteration
  <2> QED BY <2>1 DEF Iterable
<1>5. \A i \in 1..n : g[i] = Reschedule(g[i - 1], todo[i], override)
  <2> TAKE i \in 1..n
  <2>1. g[i - 1] \in S
    BY <1>1, <1>4
  <2> QED BY <1>2, <1>4, <2>1
<1>6. Is(g)
  <2>1. g = [i \in 0..n |-> g[i]]
    BY <1>4
  <2>2. \A i \in 0..n : g[i] = IF i = 0 THEN v ELSE Reschedule(g[i - 1], todo[i], override)
    BY <1>1, <1>4, <1>5
  <2> QED BY <2>1, <2>2
<1>7. Is(d)
  BY <1>6
<1> HIDE DEF d
<1>9. d[0] = v /\ \A i \in 1..n : d[i] = Reschedule(d[i - 1], todo[i], override)
  BY <1>1, <1>7
<1>10. \A i \in 0..n : d[i] \in S
  <2> DEFINE T == {i \in 0..n : d[i] \in S}
  <2>1. 0 \in T
    BY <1>1, <1>9
  <2>2. \A i \in 1..n : i - 1 \in T => i \in T
    BY <1>1, <1>9, <1>12
  <2> HIDE DEF T
  <2>3. \A i \in 0..n : i \in T
    BY <1>1, <2>1, <2>2, Induction
  <2> QED BY <2>3 DEF T
<1>11. d \in [0..n -> S]
  BY <1>7, <1>10
<1> QED BY <1>8, <1>9, <1>11 DEF HasRescheduleRun, n

\* The automatic scheduler schedules them.
HasScheduleRun(S, v, wanted, order) ==
    \E d \in [0..Len(order) -> S] :
        /\ d[0] = v /\ d[Len(order)] = ScheduleAll(v, wanted, order)
        /\ \A i \in 1..Len(order) : d[i] = ScheduleSection(d[i - 1], wanted, order[i])

\* The same for the sections that save() schedules.
LEMMA ScheduleAllRuns ==
    ASSUME NEW S, NEW v \in S, NEW wanted, NEW order, Len(order) \in Nat,
           \A i \in 1..Len(order) : \A x \in S : ScheduleSection(x, wanted, order[i]) \in S
    PROVE  HasScheduleRun(S, v, wanted, order)
<1> DEFINE n == Len(order)
           F == [p \in (1..n) \X S |-> ScheduleSection(p[2], wanted, order[p[1]])]
           Is(d) == d = [k \in 0..n |-> IF k = 0 THEN v ELSE ScheduleSection(d[k - 1], wanted, order[k])]
           d == CHOOSE d : Is(d)
<1>1. n \in Nat
  OBVIOUS
<1>2. \A i \in 1..n : \A x \in S : F[<<i, x>>] = ScheduleSection(x, wanted, order[i])
  OBVIOUS
<1>3. F \in [(1..n) \X S -> S]
  OBVIOUS
<1>8. ScheduleAll(v, wanted, order) = d[n]
  BY DEF ScheduleAll
<1>12. \A i \in 1..n : \A x \in S : ScheduleSection(x, wanted, order[i]) \in S
  OBVIOUS
<1> HIDE DEF F, n
<1>4. PICK g \in [0..n -> S] : g[0] = v /\ \A i \in 1..n : g[i] = F[<<i, g[i - 1]>>]
  <2>1. Iterable(n, S, v, F)
    BY <1>1, <1>3, Iteration
  <2> QED BY <2>1 DEF Iterable
<1>5. \A i \in 1..n : g[i] = ScheduleSection(g[i - 1], wanted, order[i])
  <2> TAKE i \in 1..n
  <2>1. g[i - 1] \in S
    BY <1>1, <1>4
  <2> QED BY <1>2, <1>4, <2>1
<1>6. Is(g)
  <2>1. g = [i \in 0..n |-> g[i]]
    BY <1>4
  <2>2. \A i \in 0..n : g[i] = IF i = 0 THEN v ELSE ScheduleSection(g[i - 1], wanted, order[i])
    BY <1>1, <1>4, <1>5
  <2> QED BY <2>1, <2>2
<1>7. Is(d)
  BY <1>6
<1> HIDE DEF d
<1>9. d[0] = v /\ \A i \in 1..n : d[i] = ScheduleSection(d[i - 1], wanted, order[i])
  BY <1>1, <1>7
<1>10. \A i \in 0..n : d[i] \in S
  <2> DEFINE T == {i \in 0..n : d[i] \in S}
  <2>1. 0 \in T
    BY <1>1, <1>9
  <2>2. \A i \in 1..n : i - 1 \in T => i \in T
    BY <1>1, <1>9, <1>12
  <2> HIDE DEF T
  <2>3. \A i \in 0..n : i \in T
    BY <1>1, <2>1, <2>2, Induction
  <2> QED BY <2>3 DEF T
<1>11. d \in [0..n -> S]
  BY <1>7, <1>10
<1> QED BY <1>8, <1>9, <1>11 DEF HasScheduleRun, n

\* Several sections are unscheduled.
LEMMA UnscheduleAllGood ==
    ASSUME IsLog(log), NEW M, NEW wish, NEW over, NEW v \in GoodServers(M, wish, over),
           NEW sections, Len(sections) \in Nat, \A i \in 1..Len(sections) : sections[i] \in Sections \intersect M,
           NEW w, w = UnscheduleAll(v, sections)
    PROVE  /\ w \in GoodServers(M, wish, over) /\ w.ret = v.ret
           /\ \A i \in 1..Len(sections) : NewFor(w.log, sections[i]) # {}
<1> DEFINE S == GoodServers(M, wish, over)
           n == Len(sections)
<1>1. \A i \in 1..n : \A x \in S :
          /\ ajax_schedule_deletereg(x, sections[i]) \in S
          /\ ajax_schedule_deletereg(x, sections[i]).ret = x.ret
          /\ NewFor(ajax_schedule_deletereg(x, sections[i]).log, sections[i]) # {}
          /\ \A y : NewFor(x.log, y) \subseteq NewFor(ajax_schedule_deletereg(x, sections[i]).log, y)
  <2> TAKE i \in 1..n
  <2> TAKE x \in S
  <2> DEFINE s == sections[i]
             u == ajax_schedule_deletereg(x, s)
  <2>1. x \in GoodServers(M, wish, over) /\ s \in Sections /\ s \in M
    OBVIOUS
  <2> HIDE DEF s
  <2>2. /\ u \in GoodServers(M, wish, over) /\ u.ret = x.ret
        /\ NewFor(u.log, s) # {} /\ \A y : NewFor(x.log, y) \subseteq NewFor(u.log, y)
    BY <2>1, DeleteregGood
  <2> HIDE DEF u
  <2> QED BY <2>2 DEF u, s
<1>2. PICK d \in [0..n -> S] :
          /\ d[0] = v /\ d[n] = w
          /\ \A i \in 1..n : d[i] = ajax_schedule_deletereg(d[i - 1], sections[i])
  <2>1. HasUnscheduleRun(S, v, sections)
    BY <1>1, UnscheduleAllRuns
  <2> QED BY <2>1 DEF HasUnscheduleRun
<1> DEFINE T == {k \in 0..n : d[k].ret = v.ret /\ \A i \in 1..k : NewFor(d[k].log, sections[i]) # {}}
<1>3. n \in Nat
  OBVIOUS
<1> HIDE DEF S, n
<1>4. 0 \in T
  BY <1>2, <1>3
<1>5. ASSUME NEW k \in 1..n, k - 1 \in T PROVE k \in T
  <2>1. d[k - 1] \in S /\ d[k] = ajax_schedule_deletereg(d[k - 1], sections[k]) /\ k \in 0..n
    BY <1>2, <1>3
  <2>2. /\ d[k].ret = d[k - 1].ret /\ NewFor(d[k].log, sections[k]) # {}
        /\ \A y : NewFor(d[k - 1].log, y) \subseteq NewFor(d[k].log, y)
    BY <1>1, <2>1
  <2>3. d[k - 1].ret = v.ret /\ \A i \in 1..(k - 1) : NewFor(d[k - 1].log, sections[i]) # {}
    BY <1>5
  <2>4. \A i \in 1..k : i = k \/ i \in 1..(k - 1)
    BY <1>3
  <2>5. \A i \in 1..k : NewFor(d[k].log, sections[i]) # {}
    BY <2>2, <2>3, <2>4
  <2> QED BY <2>1, <2>2, <2>3, <2>5
<1> HIDE DEF T
<1>6. n \in T /\ n \in 0..n
  <2>1. \A k \in 0..n : k \in T
    BY <1>3, <1>4, <1>5, Induction
  <2> QED BY <2>1, <1>3
<1> QED BY <1>2, <1>6 DEF T, S, n

\* Several sections are scheduled again, until one cannot be.
LEMMA RescheduleAllGood ==
    ASSUME IsLog(log), NEW M, NEW wish, NEW over, NEW v \in GoodServers(M, wish, over),
           NEW todo, Len(todo) \in Nat, NEW override,
           \A i \in 1..Len(todo) : /\ todo[i].section \in Sections \intersect M
                                   /\ todo[i].place \in Places \union {Nowhere}
                                   /\ MayOverride(override, todo[i].section, over),
           NEW w, w = RescheduleAll(v, todo, override)
    PROVE  w \in GoodServers(M, wish, over) /\ \A y : NewFor(v.log, y) \subseteq NewFor(w.log, y)
<1> DEFINE S == {x \in GoodServers(M, wish, over) : \A y : NewFor(v.log, y) \subseteq NewFor(x.log, y)}
           n == Len(todo)
<1>1. ASSUME NEW i \in 1..n, NEW x \in S PROVE Reschedule(x, todo[i], override) \in S
  <2>1. CASE x.ret /\ todo[i].place.room # None
    <3> DEFINE u == ajax_schedule_assignreg(x, todo[i].section, todo[i].place, override)
    <3>1. todo[i].place \in Places
      BY <2>1 DEF Nowhere
    <3>2. u \in GoodServers(M, wish, over) /\ \A y : NewFor(x.log, y) \subseteq NewFor(u.log, y)
      <4> DEFINE s == todo[i].section
                 p == todo[i].place
      <4>1. s \in Sections /\ s \in M /\ p \in Places /\ MayOverride(override, s, over)
        BY <3>1
      <4>2. x \in GoodServers(M, wish, over) /\ u = ajax_schedule_assignreg(x, s, p, override)
        OBVIOUS
      <4> HIDE DEF u, s, p
      <4> QED BY <4>1, <4>2, AssignregGood
    <3>3. Reschedule(x, todo[i], override) = u
      BY <2>1 DEF Reschedule
    <3> HIDE DEF u
    <3> QED BY <3>2, <3>3
  <2>2. CASE ~(x.ret /\ todo[i].place.room # None)
    BY <2>2 DEF Reschedule
  <2> QED BY <2>1, <2>2
<1>2. v \in S /\ n \in Nat
  OBVIOUS
<1>3. PICK d \in [0..n -> S] : d[n] = w
  <2> HIDE DEF S
  <2>1. HasRescheduleRun(S, v, todo, override)
    BY <1>1, <1>2, RescheduleAllRuns
  <2> QED BY <2>1 DEF HasRescheduleRun
<1>4. n \in 0..n
  BY <1>2
<1> HIDE DEF n
<1> QED BY <1>3, <1>4

Moved(r) == {x.section : x \in Range(r.todo)}

\* A request that a page sends.
IsRequest(r) ==
    /\ r \in Requests
    /\ r.todo # <<>>
    /\ r.action # "swap" => Len(r.todo) = 1
    /\ r.action = "assignreg" => r.todo[1].place \in Places
    /\ DOMAIN r.old = Moved(r)

\* The parts of a request.
LEMMA RequestFacts ==
    ASSUME NEW r, IsRequest(r)
    PROVE  /\ Len(r.todo) \in Nat \ {0} /\ Head(r.todo) = r.todo[1] /\ r.override \in BOOLEAN
           /\ \A i \in 1..Len(r.todo) : /\ r.todo[i].section \in Sections \intersect Moved(r)
                                        /\ r.todo[i].place \in Places \union {Nowhere}
           /\ \A s \in Moved(r) : \E i \in 1..Len(r.todo) : s = r.todo[i].section
           /\ Moved(r) \subseteq Sections
           /\ r.old \in [Moved(r) -> Shown] /\ r.last \in Nat
           /\ r.action \in {"assignreg", "deletereg", "swap"}
           /\ r.state \in {"sent", "done", "failed"}
<1>1. /\ r.todo \in Seq([section : Sections, place : Places \union {Nowhere}, named : {FALSE}]) /\ r.override \in BOOLEAN
      /\ r.old \in UNION {[S -> Shown] : S \in SUBSET Sections} /\ r.last \in Nat
      /\ r.action \in {"assignreg", "deletereg", "swap"} /\ r.state \in {"sent", "done", "failed"}
  BY DEF IsRequest, Requests
<1>2. r.old \in [Moved(r) -> Shown]
  BY <1>1 DEF IsRequest
<1>3. Len(r.todo) \in Nat /\ DOMAIN r.todo = 1..Len(r.todo)
  BY <1>1
<1>4. \A i \in 1..Len(r.todo) : r.todo[i] \in [section : Sections, place : Places \union {Nowhere}, named : {FALSE}]
  BY <1>1, ElementOfSeq
<1>5. Len(r.todo) # 0 /\ Head(r.todo) = r.todo[1]
  BY <1>1 DEF IsRequest
<1>6. Range(r.todo) = {r.todo[i] : i \in 1..Len(r.todo)}
  BY <1>3 DEF Range
<1> HIDE DEF IsRequest
<1> QED BY <1>1, <1>2, <1>3, <1>4, <1>5, <1>6 DEF Moved

\* The request is handled: either all sections are recorded or it has failed.
LEMMA ClassGood ==
    ASSUME IsSchedule(db), IsLog(log), TeachersOK(db, overridden), NEW wish, NEW r, IsRequest(r),
           NEW over, over = overridden \union (IF r.override THEN Moved(r) ELSE {}),
           NEW v, v = ajax_schedule_class(r)
    PROVE  /\ v \in GoodServers(Moved(r), wish, over)
           /\ v.ret => \A s \in Moved(r) : NewFor(v.log, s) # {}
<1> DEFINE G == GoodServers(Moved(r), wish, over)
           x == r.todo[1]
<1>1. Server \in G
  <2>1. Served(Server, Moved(r), wish)
    BY ServerServed
  <2>2. TeachersOK(db, over)
    BY DEF TeachersOK
  <2>3. Server \in Servers /\ Server.db = db
    BY <2>1, ServedFacts DEF Server
  <2> QED BY <2>1, <2>2, <2>3 DEF GoodServers
<1>2. /\ Len(r.todo) \in Nat \ {0} /\ Head(r.todo) = x /\ r.override \in BOOLEAN
      /\ \A i \in 1..Len(r.todo) : /\ r.todo[i].section \in Sections \intersect Moved(r)
                                   /\ r.todo[i].place \in Places \union {Nowhere}
      /\ \A s \in Moved(r) : \E i \in 1..Len(r.todo) : s = r.todo[i].section
      /\ r.action \in {"assignreg", "deletereg", "swap"}
  BY RequestFacts
<1>3. \A s \in Moved(r) : r.override => s \in over
  OBVIOUS
<1> HIDE DEF G, x
<1>4. x.section \in Sections /\ x.section \in Moved(r)
  BY <1>2 DEF x
<1>5. CASE r.action = "deletereg"
  <2>1. v = ajax_schedule_deletereg(Server, x.section)
    BY <1>2, <1>5 DEF ajax_schedule_class
  <2>2. \A s \in Moved(r) : s = x.section
    BY <1>2, <1>5 DEF IsRequest, x
  <2>3. v \in G /\ NewFor(v.log, x.section) # {}
    BY <2>1, <1>1, <1>4, DeleteregGood DEF G
  <2> QED BY <2>2, <2>3 DEF G
<1>6. CASE r.action = "assignreg"
  <2>1. v = ajax_schedule_assignreg(Server, x.section, x.place, r.override)
    BY <1>2, <1>6 DEF ajax_schedule_class
  <2>2. \A s \in Moved(r) : s = x.section
    BY <1>2, <1>6 DEF IsRequest, x
  <2>3. x.place \in Places /\ (r.override => x.section \in over) /\ r.override \in BOOLEAN
    BY <1>2, <1>3, <1>4, <1>6 DEF IsRequest, x
  <2>4. v \in G /\ (v.ret => NewFor(v.log, x.section) # {})
    <3> DEFINE s == x.section
               p == x.place
               o == r.override
               M == Moved(r)
    <3>1. /\ s \in Sections /\ s \in M /\ p \in Places /\ o \in BOOLEAN /\ MayOverride(o, s, over)
          /\ v = ajax_schedule_assignreg(Server, s, p, o) /\ Server \in GoodServers(M, wish, over)
      BY <2>1, <2>3, <1>1, <1>4 DEF G, MayOverride
    <3> HIDE DEF s, p, o, M
    <3>2. v \in GoodServers(M, wish, over) /\ (v.ret => NewFor(v.log, s) # {})
      BY <3>1, AssignregGood
    <3> QED BY <3>2 DEF G, M, s
  <2> QED BY <2>2, <2>4 DEF G
<1>7. CASE r.action = "swap"
  <2> DEFINE sections == [k \in DOMAIN r.todo |-> r.todo[k].section]
             u == UnscheduleAll(Server, sections)
  <2>1. v = RescheduleAll(u, r.todo, r.override)
    BY <1>7 DEF ajax_schedule_class, ajax_schedule_swap
  <2>2. DOMAIN r.todo = 1..Len(r.todo)
    BY DEF IsRequest, Requests
  <2>3. Len(sections) = Len(r.todo) /\ \A i \in 1..Len(r.todo) : sections[i] = r.todo[i].section
    BY <2>2, <1>2
  <2> HIDE DEF sections
  <2>4. u \in G /\ \A i \in 1..Len(r.todo) : NewFor(u.log, sections[i]) # {}
    <3>1. Len(sections) \in Nat /\ \A i \in 1..Len(sections) : sections[i] \in Sections \intersect Moved(r)
      BY <2>3, <1>2
    <3> DEFINE M == Moved(r)
    <3>2. Server \in GoodServers(M, wish, over)
      BY <1>1 DEF G
    <3> HIDE DEF M
    <3>3. u \in GoodServers(M, wish, over) /\ \A i \in 1..Len(sections) : NewFor(u.log, sections[i]) # {}
      BY <3>1, <3>2, UnscheduleAllGood DEF M
    <3> QED BY <3>3, <2>3 DEF G, M
  <2> HIDE DEF u
  <2>5. v \in G /\ \A y : NewFor(u.log, y) \subseteq NewFor(v.log, y)
    <3> DEFINE M == Moved(r)
               todo == r.todo
               o == r.override
    <3>1. /\ Len(todo) \in Nat /\ o \in BOOLEAN /\ v = RescheduleAll(u, todo, o)
          /\ \A i \in 1..Len(todo) : /\ todo[i].section \in Sections \intersect M
                                     /\ todo[i].place \in Places \union {Nowhere}
                                     /\ MayOverride(o, todo[i].section, over)
          /\ u \in GoodServers(M, wish, over)
      BY <2>1, <2>4, <1>2, <1>3 DEF G, MayOverride
    <3> HIDE DEF M, todo, o
    <3>3. \A i \in 1..Len(todo) : /\ todo[i].section \in Sections \intersect M
                                   /\ todo[i].place \in Places \union {Nowhere}
                                   /\ MayOverride(o, todo[i].section, over)
      BY <3>1
    <3>4. Len(todo) \in Nat /\ v = RescheduleAll(u, todo, o) /\ u \in GoodServers(M, wish, over)
      BY <3>1
    <3>2. v \in GoodServers(M, wish, over) /\ \A y : NewFor(u.log, y) \subseteq NewFor(v.log, y)
      BY <3>3, <3>4, RescheduleAllGood
    <3> QED BY <3>2 DEF G, M
  <2>6. \A s \in Moved(r) : NewFor(v.log, s) # {}
    BY <2>3, <2>4, <2>5, <1>2
  <2> QED BY <2>5, <2>6 DEF G
<1> QED BY <1>2, <1>5, <1>6, <1>7

-----------------------------------------------------------------------------
(* Saving what the automatic scheduler has computed.                        *)

\* What the automatic scheduler computes is a place for some sections.
LEMMA PlanFacts ==
    ASSUME NEW wanted \in Plans
    PROVE  /\ DOMAIN wanted \subseteq Sections
           /\ \A s \in DOMAIN wanted : wanted[s] \in Places \union {Nowhere} /\ wanted[s] \in Shown
<1>1. PICK S \in (SUBSET Sections) \ {{}} : wanted \in [S -> Places \union {Nowhere}]
  BY BoardAssumption
<1>2. Places \union {Nowhere} \subseteq Shown
  BY DEF Shown, Nowhere
<1> QED BY <1>1, <1>2

\* The hash tells all places apart.
LEMMA HashTellsPlace ==
    ASSUME NEW d, IsSchedule(d), NEW s \in Sections, NEW p \in Shown, Hash(d, s) = HashOfPlace(p)
    PROVE  Place(d, s) = p
<1> DEFINE assigned == {b \in Bookings(d, s) : b[3] \in d.times[s]}
           rooms == {b[2] : b \in Bookings(d, s)}
<1>1. d.times[s] = p.times /\ rooms = {p.room} \ {None}
  BY DEF Hash, HashOfPlace
<1>2. p = [room |-> p.room, times |-> p.times]
  BY DEF Shown, Places
<1>3. Place(d, s) = [room |-> IF assigned = {} THEN None ELSE (CHOOSE b \in assigned : TRUE)[2], times |-> d.times[s]]
  BY DEF Place
<1>4. Bookings(d, s) # {} => assigned # {}
  BY ScheduleFacts
<1>5. CASE p.room = None
  <2>1. rooms = {}
    BY <1>1, <1>5
  <2>2. Bookings(d, s) = {}
    BY <2>1
  <2>3. assigned = {}
    BY <2>2
  <2> HIDE DEF assigned, rooms
  <2> QED BY <2>3, <1>1, <1>2, <1>3, <1>5
<1>6. CASE p.room # None
  <2>1. p.room \in rooms
    BY <1>1, <1>6
  <2>2. assigned # {}
    BY <2>1, <1>4
  <2>3. PICK b \in assigned : b = CHOOSE x \in assigned : TRUE
    BY <2>2
  <2>4. b[2] \in rooms
    OBVIOUS
  <2>5. b[2] = p.room
    BY <2>4, <1>1
  <2> HIDE DEF assigned, rooms
  <2> QED BY <2>2, <2>3, <2>5, <1>1, <1>2, <1>3
<1> QED BY <1>5, <1>6

\* One section gets the place that is wanted for it, beside what it may have.
LEMMA ScheduleSectionGood ==
    ASSUME IsLog(log), NEW wanted \in Plans, NEW over, Sections \subseteq over,
           NEW v \in GoodServers(DOMAIN wanted, wanted, over),
           NEW s \in DOMAIN wanted, NEW w, w = ScheduleSection(v, wanted, s)
    PROVE  w \in GoodServers(DOMAIN wanted, wanted, over)
<1> DEFINE M == DOMAIN wanted
           p == wanted[s]
           d == assign_meeting_times(v.db, s, p.times)
           e == assign_room(d, s, p.room)
           l == appendScheduling(v.log, s, p, TRUE)
<1>1. /\ Served(v, M, wanted) /\ v \in Servers /\ v.db \in Tables
      /\ IsSchedule(v.db) /\ v.db = [times |-> v.db.times, booked |-> v.db.booked]
  BY GoodFacts
<1>2. s \in Sections /\ s \in M /\ p \in Places \union {Nowhere} /\ (s \in DOMAIN wanted /\ p = wanted[s])
  BY PlanFacts
<1>3. w = IF p = Nowhere THEN v
          ELSE IF CanAssignRoom(d, s, p.room) THEN [v EXCEPT !.db = e, !.log = l]
          ELSE [v EXCEPT !.ret = FALSE]
  BY DEF ScheduleSection
<1>4. v = [db |-> v.db, log |-> v.log, ret |-> v.ret, silent |-> v.silent] /\ v.ret \in BOOLEAN
  BY <1>1 DEF Servers
<1>5. IsAppended(v.log, l, s, p)
  BY DEF IsAppended
<1>6. d = [times |-> [v.db.times EXCEPT ![s] = p.times], booked |-> v.db.booked]
  BY <1>1, TableUpdates
<1> HIDE DEF l, p, d, e, M
<1>7. ASSUME NEW x, Served(x, M, wanted) PROVE x \in GoodServers(DOMAIN wanted, wanted, over)
  <2>1. TeachersOK(x.db, over)
    BY DEF TeachersOK
  <2> QED BY <1>7, <2>1, ServedFacts DEF GoodServers, M
<1>8. CASE p = Nowhere
  BY <1>3, <1>8
<1>9. CASE p # Nowhere /\ ~CanAssignRoom(d, s, p.room)
  <2>1. w = [db |-> v.db, log |-> v.log, ret |-> FALSE, silent |-> v.silent]
    BY <1>3, <1>4, <1>9
  <2>2. Becomes(w, v.db, v.log, v.silent)
    BY <2>1 DEF Becomes
  <2>3. Served(w, M, wanted)
    BY <2>2, <1>1, ServedRefuse
  <2> QED BY <2>3, <1>7
<1>10. CASE p # Nowhere /\ CanAssignRoom(d, s, p.room)
  <2>1. w = [db |-> e, log |-> l, ret |-> v.ret, silent |-> v.silent]
    BY <1>3, <1>4, <1>10
  <2>2. Becomes(w, e, l, v.silent)
    BY <2>1, <1>4 DEF Becomes
  <2>3. PICK t \in Times : p.times = {t} /\ p.room \in Rooms
    BY <1>2, <1>10 DEF Places
  <2>4. /\ d.times = [v.db.times EXCEPT ![s] = {t}] /\ d.booked \subseteq v.db.booked
        /\ d = [times |-> d.times, booked |-> d.booked]
        /\ \A x \in Sections \ {s} : Bookings(d, x) = Bookings(v.db, x)
    BY <1>6, <2>3 DEF Bookings
  <2>5. e = assign_room(d, s, p.room) /\ CanAssignRoom(d, s, p.room)
    BY <1>10 DEF e
  <2>6. IsSchedule(e) /\ \A x \in Sections \ {s} : Same(e, v.db, x)
    BY <2>3, <2>4, <2>5, <1>1, <1>2, AssignedFacts
  <2>7. p = Place(e, s) \/ (s \in DOMAIN wanted /\ p = wanted[s])
    BY <1>2
  <2>8. Served(w, M, wanted)
    BY <2>2, <2>6, <2>7, <1>1, <1>2, <1>5, ServedAppend
  <2> QED BY <2>8, <1>7
<1> QED BY <1>8, <1>9, <1>10

\* save() records what it did, and has passed its checks when it is successful.
LEMMA SaveServed ==
    ASSUME IsSchedule(db), IsLog(log), NEW wanted \in Plans,
           NEW order \in SetToSeqs(DOMAIN wanted), NEW v, v = save(wanted, order), v.ret
    PROVE  /\ Served(v, DOMAIN wanted, wanted)
           /\ \A s \in DOMAIN wanted : Hash(v.db, s) = HashOfPlace(wanted[s])
           /\ CanSchedule(v.db, wanted)
<1> DEFINE M == DOMAIN wanted
           G == GoodServers(DOMAIN wanted, wanted, Sections)
           n == Len(order)
           cleared == IF db.times[Last(order)] # {} THEN UnscheduleAll(Server, order) ELSE Server
           saved == ScheduleAll(cleared, wanted, order)
           ok == /\ CanSchedule(cleared.db, wanted)
                 /\ saved.ret
                 /\ \A s \in DOMAIN wanted : Hash(saved.db, s) = HashOfPlace(wanted[s])
                 /\ CanSchedule(saved.db, wanted)
<1>1. n \in Nat /\ \A i \in 1..n : order[i] \in DOMAIN wanted /\ order[i] \in Sections
  <2>1. M \subseteq Sections /\ IsFiniteSet(M)
    BY PlanFacts, BoardAssumption, FS_Subset
  <2>2. Cardinality(M) \in Nat
    BY <2>1, FS_CardinalityType
  <2>3. order \in [1..Cardinality(M) -> M]
    BY DEF SetToSeqs
  <2> HIDE DEF M
  <2>4. order \in Seq(M)
    BY <2>2, <2>3
  <2> QED BY <2>1, <2>4, ElementOfSeq DEF M
<1>2. v = [saved EXCEPT !.ret = ok]
  BY DEF save
<1>3. \A x : TeachersOK(x, Sections)
  BY DEF TeachersOK
<1>4. Server \in G
  <2>1. Served(Server, DOMAIN wanted, wanted)
    BY ServerServed
  <2> QED BY <2>1, <1>3, ServedFacts DEF GoodServers
<1>5. cleared \in G
  <2>1. UnscheduleAll(Server, order) \in G
    BY <1>1, <1>4, UnscheduleAllGood
  <2> QED BY <2>1, <1>4
<1> HIDE DEF cleared
<1>6. saved \in G
  <2> HIDE DEF saved
  <2>1. \A i \in 1..n : \A x \in G : ScheduleSection(x, wanted, order[i]) \in G
    <3> TAKE i \in 1..n
    <3> TAKE x \in G
    <3> DEFINE s == order[i]
               w == ScheduleSection(x, wanted, s)
               over == Sections
    <3>1. s \in DOMAIN wanted /\ Sections \subseteq over /\ x \in GoodServers(DOMAIN wanted, wanted, over)
      BY <1>1
    <3> HIDE DEF s, over, G
    <3>2. w \in GoodServers(DOMAIN wanted, wanted, over)
      BY <3>1, ScheduleSectionGood
    <3> QED BY <3>2 DEF s, over, G
  <2> HIDE DEF G
  <2>2. HasScheduleRun(G, cleared, wanted, order)
    BY <2>1, <1>1, <1>5, ScheduleAllRuns
  <2>3. PICK d \in [0..n -> G] : d[n] = saved
    BY <2>2 DEF HasScheduleRun, saved
  <2>4. n \in 0..n
    BY <1>1
  <2> HIDE DEF n
  <2> QED BY <2>3, <2>4
<1> HIDE DEF saved, ok
<1>7. Served(saved, M, wanted)
  BY <1>6, GoodFacts
<1>8. /\ v.db = saved.db /\ v.log = saved.log /\ v.silent = saved.silent /\ v.ret = ok
      /\ v = [db |-> saved.db, log |-> saved.log, ret |-> ok, silent |-> saved.silent]
  <2>1. saved = [db |-> saved.db, log |-> saved.log, ret |-> saved.ret, silent |-> saved.silent]
    BY <1>7, ServedFacts
  <2> QED BY <2>1, <1>2
<1>9. ok \in BOOLEAN
  BY DEF ok
<1>10. Becomes(v, saved.db, saved.log, saved.silent)
  BY <1>8, <1>9 DEF Becomes
<1>11. Served(v, M, wanted)
  BY <1>7, <1>10, ServedRefuse
<1>12. ok
  BY <1>8
<1> QED BY <1>8, <1>11, <1>12 DEF ok

\* What is saved is what was wanted, and it is recorded.
NoWish == [s \in {} |-> None]

\* A successful save() has put all sections where they were wanted.
LEMMA SaveGood ==
    ASSUME IsSchedule(db), IsLog(log), TeachersOK(db, overridden), NEW wanted \in Plans,
           NEW order \in SetToSeqs(DOMAIN wanted), NEW v, v = save(wanted, order), v.ret
    PROVE  /\ v \in GoodServers(DOMAIN wanted, NoWish, overridden)
           /\ \A s \in DOMAIN wanted : Place(v.db, s) = wanted[s]
<1>1. /\ Served(v, DOMAIN wanted, wanted)
      /\ \A s \in DOMAIN wanted : Hash(v.db, s) = HashOfPlace(wanted[s])
      /\ CanSchedule(v.db, wanted)
  BY SaveServed
<1>2. v \in Servers /\ IsSchedule(v.db) /\ v.db \in Tables
  BY <1>1, ServedFacts
<1>3. ASSUME NEW s \in DOMAIN wanted PROVE Place(v.db, s) = wanted[s] /\ v.db.times[s] = wanted[s].times
  <2>1. s \in Sections /\ wanted[s] \in Shown
    BY PlanFacts
  <2>2. Hash(v.db, s) = HashOfPlace(wanted[s])
    BY <1>1
  <2>3. Place(v.db, s) = wanted[s]
    BY <2>1, <2>2, <1>2, HashTellsPlace
  <2> QED BY <2>2, <2>3 DEF Hash, HashOfPlace
<1>4. Served(v, DOMAIN wanted, NoWish)
  <2>1. \A s \in Sections : Recorded(v, s, NoWish)
    <3> TAKE s \in Sections
    <3>1. Recorded(v, s, wanted)
      BY <1>1 DEF Served
    <3> QED BY <3>1, <1>3 DEF Recorded
  <2> QED BY <2>1, <1>1 DEF Served
<1>5. TeachersOK(v.db, overridden)
  <2>1. \A x \in Sections \ DOMAIN wanted : v.db.times[x] = db.times[x]
    BY <1>1 DEF Served, Same
  <2>2. ASSUME NEW s \in DOMAIN wanted, NEW x \in Sections, s # x, TaughtBy[s] \intersect TaughtBy[x] # {}
        PROVE  v.db.times[s] \intersect v.db.times[x] = {}
    <3>1. CASE wanted[s] = Nowhere
      BY <3>1, <1>3 DEF Nowhere
    <3>2. CASE wanted[s] # Nowhere
      <4>1. PICK t \in TaughtBy[s] : t \in TaughtBy[x]
        BY <2>2
      <4>2. wanted[s].times \intersect Teaching(v.db, t, s) = {}
        BY <3>2, <4>1, <1>1 DEF CanSchedule
      <4>3. v.db.times[x] \subseteq Teaching(v.db, t, s)
        BY <2>2, <4>1 DEF Teaching
      <4> QED BY <4>2, <4>3, <1>3
    <3> QED BY <3>1, <3>2
  <2> SUFFICES ASSUME NEW s \in Sections \ overridden, NEW x \in Sections \ overridden, s # x,
                      TaughtBy[s] \intersect TaughtBy[x] # {}
               PROVE  v.db.times[s] \intersect v.db.times[x] = {}
    BY DEF TeachersOK
  <2>3. CASE s \in DOMAIN wanted
    BY <2>2, <2>3
  <2>4. CASE x \in DOMAIN wanted
    BY <2>2, <2>4
  <2>5. CASE s \notin DOMAIN wanted /\ x \notin DOMAIN wanted
    BY <2>1, <2>5 DEF TeachersOK
  <2> QED BY <2>3, <2>4, <2>5
<1> QED BY <1>2, <1>3, <1>4, <1>5 DEF GoodServers

-----------------------------------------------------------------------------
(* The invariant.                                                           *)

\* The log says nothing of a section after index n.
Quiet(s, n) == \A k \in DOMAIN log : log[k].section = s => log[k].index <= n

\* If the log tells a page anything of a section, then where it is.
IsLast(l, s, k) == k \in DOMAIN l /\ l[k].section = s /\ \A j \in DOMAIN l : l[j].section = s => j <= k
LogTells(s) == \A k \in DOMAIN log : IsLast(log, s, k) => Read(log[k]) = Place(db, s)

\* An answer holds a part of the log without gaps.
IsSegment(l) ==
    /\ l \in Seq(LogEntry)
    /\ l # <<>> => \E lo \in DOMAIN log : /\ lo + Len(l) <= Len(log) + 1
                                          /\ \A i \in 1..Len(l) : l[i] = log[lo + (i - 1)]

\* An index that a page has reached: it is in the log, unless that has been
\* emptied; then the page learns nothing until the index is reached again.
Reached(b, n) ==
    n <= get_latest_index(log) \/ (n <= last[b] /\ \A a \in answers[b] : a.changelog = <<>>)

Answers == [reload : BOOLEAN, changelog : Seq(LogEntry)]

BrowserOK(b) ==
    /\ request[b] # None => IsRequest(request[b]) /\ Reached(b, request[b].last)
    /\ page[b] = "opening" => request[b] = None
    /\ \A a \in answers[b] : IsSegment(a.changelog) /\ (a.reload => a.changelog = <<>>)
    /\ Reached(b, last[b])

\* The place of a section is not the one that the page has asked for and the
\* server has not confirmed.
Stated(b, s) ==
    request[b] # None => s \notin Moved(request[b]) \/ request[b].state = "done"

\* A page that is out of step with the schedule in a section has entries for
\* it before itself; and so it is if it should have to take back a change.
PairOK(b, s) ==
    /\ page[b] \in {"opening", "open"} => LogTells(s)
    /\ page[b] = "opening" =>
           /\ view[b][s] = Place(db, s)
           /\ \A a \in answers[b] : a.changelog # <<>> => Quiet(s, Last(a.changelog).index)
    /\ page[b] = "open" =>
           /\ Quiet(s, last[b]) /\ Stated(b, s) => view[b][s] = Place(db, s)
           /\ ~Stated(b, s) /\ Quiet(s, request[b].last) => request[b].old[s] = Place(db, s)

ComputedOK ==
    computed # None => /\ computed.wanted \in Plans
                       /\ computed.initial \in [DOMAIN computed.wanted -> Shown]

StatesOK ==
    /\ page \in [Browsers -> {"closed", "opening", "open", "stopped"}]
    /\ view \in [Browsers -> [Sections -> Shown]]
    /\ last \in [Browsers -> Nat]
    /\ request \in [Browsers -> Requests \union {None}]
    /\ answers \in [Browsers -> SUBSET Answers]
    /\ changes \in 0..MaxChanges
    /\ stale \subseteq Browsers \X Sections

IInv ==
    /\ IsSchedule(db) /\ TeachersOK(db, overridden)
    /\ IsLog(log)
    /\ ComputedOK
    /\ StatesOK
    /\ \A b \in Browsers : BrowserOK(b)
    /\ \A b \in Browsers, s \in Sections : <<b, s>> \notin stale => PairOK(b, s)

\* Entries are added to the log.
LEMMA ExtendedLog ==
    ASSUME IsLog(log), NEW l, IsLog(l), Extends(l)
    PROVE  /\ Len(log) \in Nat /\ Len(l) \in Nat /\ Len(log) <= Len(l)
           /\ DOMAIN log = 1..Len(log) /\ DOMAIN l = 1..Len(l)
           /\ \A k \in DOMAIN log : k \in DOMAIN l /\ l[k] = log[k]
           /\ get_latest_index(log) <= get_latest_index(l)
           /\ \A k \in (Len(log) + 1)..Len(l) : l[k].index > get_latest_index(log)
           /\ NewEntries(log, l) = {l[k] : k \in (Len(log) + 1)..Len(l)}
<1>1. /\ Len(log) \in Nat /\ Len(l) \in Nat /\ Len(log) <= Len(l)
      /\ DOMAIN log = 1..Len(log) /\ DOMAIN l = 1..Len(l)
  BY DEF IsLog, Extends
<1>2. \A k \in DOMAIN log : k \in DOMAIN l /\ l[k] = log[k]
  BY <1>1 DEF Extends
<1>3. /\ get_latest_index(log) \in Nat /\ get_latest_index(l) \in Nat
      /\ log # <<>> => Len(log) \in DOMAIN log /\ get_latest_index(log) = log[Len(log)].index
      /\ \A i \in DOMAIN l : l[i].index <= get_latest_index(l) /\ l[i].index \in Nat \ {0}
      /\ \A i, j \in DOMAIN l : i < j <=> l[i].index < l[j].index
  BY LatestIndex
<1>4. CASE log = <<>>
  BY <1>1, <1>2, <1>3, <1>4 DEF get_latest_index, NewEntries
<1>5. CASE log # <<>>
  <2>1. Len(log) \in DOMAIN l /\ get_latest_index(log) = l[Len(log)].index
    BY <1>2, <1>3, <1>5
  <2>2. get_latest_index(log) <= get_latest_index(l)
    BY <1>3, <2>1
  <2>3. ASSUME NEW k \in (Len(log) + 1)..Len(l) PROVE l[k].index > get_latest_index(log)
    <3>1. k \in DOMAIN l /\ Len(log) < k
      BY <1>1
    <3> QED BY <3>1, <2>1, <1>3
  <2> QED BY <2>2, <2>3, <1>1, <1>2 DEF NewEntries
<1> QED BY <1>4, <1>5

\* What becomes of the log and of a section in it when the server is done.
LEMMA CommittedSection ==
    ASSUME IsLog(log), NEW M, NEW over, NEW v \in GoodServers(M, NoWish, over), NEW s \in Sections, s \notin v.silent
    PROVE  \/ NewFor(v.log, s) = {} /\ Place(v.db, s) = Place(db, s)
           \/ \E k \in NewFor(v.log, s) : IsLast(v.log, s, k) /\ v.log[k].place = Place(v.db, s)
<1>1. Served(v, M, NoWish) /\ Recorded(v, s, NoWish) /\ IsLog(v.log) /\ Extends(v.log)
  BY GoodFacts DEF Served
<1>2. DOMAIN NoWish = {}
  BY DEF NoWish
<1>3. CASE NewFor(v.log, s) = {} /\ Same(v.db, db, s)
  BY <1>3, SamePlace
<1>4. CASE \E k \in NewFor(v.log, s) : (\A j \in NewFor(v.log, s) : j <= k) /\ v.log[k].place = Place(v.db, s)
  <2>1. PICK k \in NewFor(v.log, s) : (\A j \in NewFor(v.log, s) : j <= k) /\ v.log[k].place = Place(v.db, s)
    BY <1>4
  <2>2. Len(log) \in Nat /\ Len(v.log) \in Nat /\ DOMAIN v.log = 1..Len(v.log)
    BY <1>1, ExtendedLog
  <2>3. k \in DOMAIN v.log /\ v.log[k].section = s /\ k > Len(log) /\ k \in Nat
    BY <2>2 DEF NewFor
  <2>4. ASSUME NEW j \in DOMAIN v.log, v.log[j].section = s PROVE j <= k
    <3>1. CASE j <= Len(log)
      BY <3>1, <2>2, <2>3
    <3>2. CASE j > Len(log)
      BY <3>2, <2>1, <2>2, <2>4 DEF NewFor
    <3> QED BY <3>1, <3>2, <2>2
  <2> QED BY <2>1, <2>3, <2>4 DEF IsLast
<1> QED BY <1>1, <1>2, <1>3, <1>4 DEF Recorded

\* A request that is under way stays the same, apart from its state.
RequestMoves(b, v) ==
    \/ request'[b] = request[b]
    \/ /\ request[b] # None /\ request'[b] # None
       /\ request[b].state = "sent"
       /\ IsRequest(request'[b])
       /\ request'[b].todo = request[b].todo /\ request'[b].last = request[b].last
       /\ request'[b].old = request[b].old
       /\ request'[b].state = "done" => \A s \in Moved(request[b]) : NewFor(v.log, s) # {}

\* Whatever the server did with a request, the invariant survives its commit.
LEMMA CommitStep ==
    ASSUME IInv, NEW M, NEW v \in GoodServers(M, NoWish, overridden'), Commit(v),
           UNCHANGED <<page, view, last, answers>>,
           request' \in [Browsers -> Requests \union {None}],
           \A b \in Browsers : RequestMoves(b, v),
           ComputedOK', changes' \in 0..MaxChanges
    PROVE  IInv'
<1> DEFINE new == NewEntries(log, v.log)
<1>1. /\ db' = v.db /\ log' = v.log
      /\ stale' = {p \in stale : \A e \in new : e.section # p[2]}
                  \union {p \in Browsers \X Sections : \E e \in new : e.section = p[2] /\ Misses(p[1], e)}
                  \union (Browsers \X (v.silent \union {e.section : e \in {x \in new : Read(x) # x.place}}))
  BY DEF Commit
<1>2. /\ Served(v, M, NoWish) /\ TeachersOK(v.db, overridden') /\ IsSchedule(v.db) /\ v.silent \subseteq Sections
      /\ IsLog(log) /\ IsLog(v.log) /\ Extends(v.log)
  <2>1. Served(v, M, NoWish) /\ TeachersOK(v.db, overridden') /\ IsLog(log)
    BY GoodFacts DEF IInv
  <2>2. v.silent \subseteq Sections
    BY <2>1, ServedFacts
  <2> QED BY <2>1, <2>2 DEF Served
<1>3. /\ Len(log) \in Nat /\ Len(v.log) \in Nat /\ Len(log) <= Len(v.log)
      /\ DOMAIN log = 1..Len(log) /\ DOMAIN v.log = 1..Len(v.log)
      /\ \A k \in DOMAIN log : k \in DOMAIN v.log /\ v.log[k] = log[k]
      /\ get_latest_index(log) <= get_latest_index(v.log)
      /\ \A k \in (Len(log) + 1)..Len(v.log) : v.log[k].index > get_latest_index(log)
      /\ new = {v.log[k] : k \in (Len(log) + 1)..Len(v.log)}
  BY <1>2, ExtendedLog
<1>4. /\ get_latest_index(log) \in Nat /\ get_latest_index(v.log) \in Nat
      /\ \A k \in DOMAIN v.log : v.log[k].index \in Nat
  BY <1>2, LatestIndex
<1>5. IsSchedule(db') /\ TeachersOK(db', overridden') /\ IsLog(log')
  BY <1>1, <1>2
<1>6. StatesOK'
  <2>1. \A k \in DOMAIN v.log : v.log[k] \in LogEntry
    BY <1>2 DEF IsLog
  <2>2. \A e \in new : e.section \in Sections
    BY <1>3, <2>1 DEF LogEntry
  <2> HIDE DEF new
  <2>3. stale' \subseteq Browsers \X Sections
    BY <1>1, <1>2, <2>2 DEF IInv, StatesOK
  <2> QED BY <2>3 DEF IInv, StatesOK
<1> HIDE DEF new
<1>7. ASSUME NEW b \in Browsers, NEW n \in Nat, Reached(b, n) PROVE Reached(b, n)'
  BY <1>1, <1>3, <1>4, <1>7 DEF Reached
<1>8. ASSUME NEW l, IsSegment(l) PROVE IsSegment(l)'
  <2>1. CASE l = <<>>
    BY <1>8, <2>1 DEF IsSegment
  <2>2. CASE l # <<>>
    <3>1. PICK lo \in DOMAIN log : lo + Len(l) <= Len(log) + 1 /\ \A i \in 1..Len(l) : l[i] = log[lo + (i - 1)]
      BY <1>8, <2>2 DEF IsSegment
    <3>2. Len(l) \in Nat
      BY <1>8 DEF IsSegment
    <3>3. \A i \in 1..Len(l) : lo + (i - 1) \in DOMAIN log
      BY <3>1, <3>2, <1>3
    <3>4. lo \in DOMAIN v.log /\ lo + Len(l) <= Len(v.log) + 1 /\ \A i \in 1..Len(l) : l[i] = v.log[lo + (i - 1)]
      BY <3>1, <3>2, <3>3, <1>3
    <3> QED BY <3>4, <1>1, <1>8 DEF IsSegment
  <2> QED BY <2>1, <2>2
<1>9. ASSUME NEW b \in Browsers PROVE BrowserOK(b)'
  <2>1. BrowserOK(b) /\ RequestMoves(b, v) /\ last[b] \in Nat
    BY DEF IInv, StatesOK
  <2>2. request'[b] # None => IsRequest(request'[b]) /\ Reached(b, request[b].last)'
    <3>1. ASSUME request'[b] # None PROVE request[b] # None /\ IsRequest(request'[b]) /\ request'[b].last = request[b].last
      BY <2>1, <3>1 DEF RequestMoves, BrowserOK
    <3>2. ASSUME request[b] # None PROVE request[b].last \in Nat /\ Reached(b, request[b].last)
      BY <2>1, <3>2, RequestFacts DEF BrowserOK
    <3> QED BY <3>1, <3>2, <1>7
  <2>3. page'[b] = "opening" => request'[b] = None
    BY <2>1 DEF BrowserOK, RequestMoves
  <2>4. \A a \in answers'[b] : IsSegment(a.changelog)' /\ (a.reload => a.changelog = <<>>)
    BY <2>1, <1>8 DEF BrowserOK
  <2>5. Reached(b, last[b])'
    BY <2>1, <1>7 DEF BrowserOK
  <2> QED BY <2>2, <2>3, <2>4, <2>5 DEF BrowserOK
<1>10. ASSUME NEW b \in Browsers, NEW s \in Sections, <<b, s>> \notin stale'
       PROVE  PairOK(b, s)'
  <2>1. BrowserOK(b) /\ RequestMoves(b, v) /\ last[b] \in Nat
    BY DEF IInv, StatesOK
  <2>2. s \notin v.silent
    BY <1>1, <1>10
  <2>3. \A k \in NewFor(v.log, s) : k \in DOMAIN v.log /\ k \in (Len(log) + 1)..Len(v.log) /\ v.log[k] \in new /\ v.log[k].section = s
    BY <1>3 DEF NewFor
  <2>4. CASE \E k \in NewFor(v.log, s) : IsLast(v.log, s, k) /\ v.log[k].place = Place(v.db, s)
    <3>1. PICK k \in NewFor(v.log, s) : IsLast(v.log, s, k) /\ v.log[k].place = Place(v.db, s)
      BY <2>4
    <3>2. ~Misses(b, v.log[k])
      BY <1>1, <1>10, <2>3
    <3>3. page[b] # "opening" /\ last[b] < v.log[k].index /\ get_latest_index(log) < v.log[k].index
      BY <3>2, <2>1, <2>3, <1>3, <1>4 DEF Misses
    <3>4. LogTells(s)'
      <4> SUFFICES ASSUME NEW j \in DOMAIN v.log, IsLast(v.log, s, j) PROVE Read(v.log[j]) = Place(v.db, s)
        BY <1>1 DEF LogTells
      <4>1. j <= k /\ k <= j /\ j \in Nat /\ k \in Nat
        BY <3>1, <1>3 DEF IsLast
      <4>2. Read(v.log[k]) = v.log[k].place
        BY <1>1, <1>10, <2>3
      <4> QED BY <4>1, <4>2, <3>1
    <3>5. \A n \in Nat : Quiet(s, n)' => v.log[k].index <= n
      BY <2>3, <1>1 DEF Quiet
    <3>6. ~Quiet(s, last[b])'
      BY <3>3, <3>5, <2>1, <1>4, <2>3
    <3>7. ASSUME ~Stated(b, s)' PROVE ~Quiet(s, request[b].last)'
      <4>1. request'[b] # None
        BY <3>7 DEF Stated
      <4>2. request[b] # None /\ request'[b].last = request[b].last
        BY <4>1, <2>1 DEF RequestMoves
      <4>3. request[b].last \in Nat /\ Reached(b, request[b].last)
        BY <4>2, <2>1, RequestFacts DEF BrowserOK
      <4>4. request[b].last < v.log[k].index
        BY <4>3, <3>3, <2>1, <1>4, <2>3 DEF Reached
      <4> QED BY <4>2, <4>3, <4>4, <3>5, <1>4, <2>3
    <3> QED BY <3>3, <3>4, <3>6, <3>7 DEF PairOK
  <2>5. CASE NewFor(v.log, s) = {} /\ Place(v.db, s) = Place(db, s)
    <3>1. \A k \in DOMAIN v.log : v.log[k].section = s => k \in DOMAIN log
      BY <2>5, <1>3 DEF NewFor
    <3>2. \A e \in new : e.section # s
      BY <2>5, <1>3 DEF NewFor
    <3>3. PairOK(b, s)
      BY <1>1, <1>10, <3>2 DEF IInv
    <3>4. \A n : Quiet(s, n) <=> Quiet(s, n)'
      BY <3>1, <1>1, <1>3 DEF Quiet
    <3>5. LogTells(s) => LogTells(s)'
      BY <3>1, <2>5, <1>1, <1>3 DEF LogTells, IsLast
    <3>6. CASE request'[b] = request[b]
      <4>1. Stated(b, s)' = Stated(b, s)
        BY <3>6 DEF Stated
      <4> QED BY <3>3, <3>4, <3>5, <3>6, <4>1, <2>5, <1>1 DEF PairOK
    <3>7. CASE request'[b] # request[b]
      <4>1. /\ request[b] # None /\ request'[b] # None
            /\ Moved(request'[b]) = Moved(request[b]) /\ request'[b].last = request[b].last
            /\ request'[b].old = request[b].old /\ request[b].state = "sent"
            /\ request'[b].state = "done" => s \notin Moved(request[b])
        BY <3>7, <2>1, <2>5 DEF RequestMoves, Moved
      <4>2. Stated(b, s)' => Stated(b, s)
        BY <4>1 DEF Stated
      <4>3. ~Stated(b, s)' => ~Stated(b, s)
        BY <4>1 DEF Stated
      <4> QED BY <3>3, <3>4, <3>5, <4>1, <4>2, <4>3, <2>5, <1>1 DEF PairOK
    <3> QED BY <3>6, <3>7
  <2> QED BY <2>2, <2>4, <2>5, <1>2, CommittedSection
<1> QED BY <1>5, <1>6, <1>9, <1>10 DEF IInv

-----------------------------------------------------------------------------
(* The steps of the server.                                                 *)

\* A request that is not served is a commit of nothing.
LEMMA NothingCommitted ==
    ASSUME IInv, UNCHANGED <<db, log, stale>>
    PROVE  Commit(Server) /\ Server \in GoodServers({}, NoWish, overridden)
<1>1. NewEntries(log, log) = {}
  <2>1. Len(log) \in Nat
    BY DEF IInv, IsLog
  <2> QED BY <2>1 DEF NewEntries
<1>2. Server.db = db /\ Server.log = log /\ Server.silent = {}
  BY DEF Server
<1>3. Commit(Server)
  BY <1>1, <1>2 DEF Commit
<1>4. Served(Server, {}, NoWish)
  BY ServerServed DEF IInv
<1>5. Server \in Servers
  BY <1>4, ServedFacts
<1> QED BY <1>2, <1>3, <1>4, <1>5 DEF GoodServers, IInv

\* A request of a page is handled.
LEMMA HandleStep ==
    ASSUME IInv, NEW b \in Browsers, Handle(b)
    PROVE  IInv'
<1> DEFINE r == request[b]
           v == ajax_schedule_class(r)
           over == overridden \union (IF r.override THEN Moved(r) ELSE {})
           Answer(x) == request' = [request EXCEPT ![b].state = x]
<1>1. r # None /\ r.state = "sent" /\ IsRequest(r) /\ r \in Requests
  BY DEF Handle, IInv, BrowserOK, IsRequest
<1>2. UNCHANGED <<page, view, last, answers, computed, changes>>
  BY DEF Handle
<1>3. ComputedOK' /\ changes' \in 0..MaxChanges
  BY <1>2 DEF IInv, StatesOK, ComputedOK
<1>4. request \in [Browsers -> Requests \union {None}]
  BY DEF IInv, StatesOK
<1>5. ASSUME NEW x \in {"done", "failed"}, Answer(x), NEW w, x = "done" => \A s \in Moved(r) : NewFor(w.log, s) # {}
      PROVE  /\ request' \in [Browsers -> Requests \union {None}]
             /\ \A c \in Browsers : RequestMoves(c, w)
  <2> DEFINE q == [r EXCEPT !.state = x]
  <2>1. /\ q \in Requests /\ q.action = r.action /\ q.todo = r.todo /\ q.last = r.last /\ q.old = r.old /\ q.state = x
    BY <1>1 DEF Requests
  <2>2. request' = [request EXCEPT ![b] = q]
    BY <1>5, <1>4
  <2> HIDE DEF q
  <2>3. IsRequest(q) /\ q # None
    BY <2>1, <1>1, RoomsAreNotNone DEF IsRequest, Moved
  <2>4. request'[b] = q /\ \A c \in Browsers \ {b} : request'[c] = request[c]
    BY <2>2, <1>4
  <2>5. request' \in [Browsers -> Requests \union {None}]
    BY <2>1, <2>2, <1>4
  <2> HIDE DEF r
  <2>6. RequestMoves(b, w)
    BY <2>1, <2>3, <2>4, <1>1, <1>5 DEF RequestMoves, r
  <2>7. \A c \in Browsers \ {b} : RequestMoves(c, w)
    BY <2>4 DEF RequestMoves
  <2> QED BY <2>5, <2>6, <2>7
<1>6. v \in GoodServers(Moved(r), NoWish, over) /\ (v.ret => \A s \in Moved(r) : NewFor(v.log, s) # {})
  <2> DEFINE wish == NoWish
  <2>1. IsSchedule(db) /\ IsLog(log) /\ TeachersOK(db, overridden)
    BY DEF IInv
  <2> HIDE DEF r, wish
  <2>2. v \in GoodServers(Moved(r), wish, over) /\ (v.ret => \A s \in Moved(r) : NewFor(v.log, s) # {})
    BY <2>1, <1>1, ClassGood
  <2> QED BY <2>2 DEF wish
<1>7. \/ Commit(v) /\ (Answer(IF v.ret THEN "done" ELSE "failed") \/ Answer("failed")) /\ overridden' = over
      \/ Answer("failed") /\ UNCHANGED <<db, log, overridden, stale>>
  BY DEF Handle, Moved
<1> HIDE DEF r, v, over, Answer
<1>8. CASE Commit(v) /\ (Answer(IF v.ret THEN "done" ELSE "failed") \/ Answer("failed")) /\ overridden' = over
  <2>1. PICK x \in {"done", "failed"} : Answer(x) /\ (x = "done" => v.ret)
    BY <1>8
  <2>2. /\ request' \in [Browsers -> Requests \union {None}]
        /\ \A c \in Browsers : RequestMoves(c, v)
    BY <2>1, <1>5, <1>6
  <2>3. v \in GoodServers(Moved(r), NoWish, overridden')
    BY <1>6, <1>8
  <2> QED BY <2>2, <2>3, <1>2, <1>3, <1>8, CommitStep
<1>9. CASE Answer("failed") /\ UNCHANGED <<db, log, overridden, stale>>
  <2>1. Commit(Server) /\ Server \in GoodServers({}, NoWish, overridden')
    BY <1>9, NothingCommitted
  <2>2. /\ request' \in [Browsers -> Requests \union {None}]
        /\ \A c \in Browsers : RequestMoves(c, Server)
    BY <1>9, <1>5
  <2> QED BY <2>1, <2>2, <1>2, <1>3, CommitStep
<1> QED BY <1>7, <1>8, <1>9

\* ajax_clear_schedule.
LEMMA ClearScheduleStep ==
    ASSUME IInv, ClearSchedule
    PROVE  IInv'
<1> DEFINE silent == {b[1] : b \in db.booked}
           e == [times |-> db.times, booked |-> {}]
           v == [Server EXCEPT !.db.booked = {}, !.silent = silent]
<1>1. /\ IsSchedule(db) /\ IsLog(log) /\ TeachersOK(db, overridden) /\ changes \in 0..MaxChanges
      /\ db = [times |-> db.times, booked |-> db.booked]
  BY ScheduleFacts DEF IInv, StatesOK, Tables
<1>2. Commit(v)
  BY DEF ClearSchedule
<1>3. v = [db |-> e, log |-> log, ret |-> Server.ret, silent |-> silent] /\ Server.ret \in BOOLEAN
  <2>1. v = [[Server EXCEPT !.db = [Server.db EXCEPT !.booked = {}]] EXCEPT !.silent = silent]
    OBVIOUS
  <2> HIDE DEF silent, v, e
  <2>2. Served(Server, {}, NoWish)
    BY <1>1, ServerServed
  <2>3. Server = [db |-> Server.db, log |-> Server.log, ret |-> Server.ret, silent |-> Server.silent] /\ Server.ret \in BOOLEAN
    BY <2>2, ServedFacts
  <2>4. Server.db = [times |-> db.times, booked |-> db.booked] /\ Server.log = log
    BY <1>1 DEF Server
  <2>5. \A x, y : [[times |-> x, booked |-> y] EXCEPT !.booked = {}] = [times |-> x, booked |-> {}]
    OBVIOUS
  <2>6. [Server.db EXCEPT !.booked = {}] = e
    BY <2>4, <2>5 DEF e
  <2> DEFINE u == [Server EXCEPT !.db = e]
             w == [u EXCEPT !.silent = silent]
  <2>8. u = [db |-> e, log |-> Server.log, ret |-> Server.ret, silent |-> Server.silent]
    BY <2>3
  <2> HIDE DEF u
  <2>9. w = [db |-> e, log |-> Server.log, ret |-> Server.ret, silent |-> silent]
    BY <2>8
  <2>7. v = w
    BY <2>1, <2>6 DEF u
  <2> HIDE DEF w
  <2> QED BY <2>3, <2>4, <2>7, <2>9
<1>4. silent \subseteq Sections
  BY <1>1, ScheduleFacts
<1>5. db \in Tables /\ e \in Tables
  BY <1>1, ScheduleFacts DEF Tables
<1>6. IsSchedule(e)
  BY <1>5, FS_EmptySet, ScheduleIntro DEF Bookings
<1>7. ASSUME NEW s \in Sections, s \notin silent PROVE Same(e, db, s)
  <2>1. \A b \in db.booked : b[1] # s
    BY <1>7
  <2> QED BY <2>1 DEF Same, Bookings
<1>8. Len(log) \in Nat /\ log \in Seq(LogEntry)
  BY <1>1 DEF IsLog
<1>9. \A s : NewFor(log, s) = {}
  BY <1>8 DEF NewFor
<1> HIDE DEF e, v, silent
<1>10. v.db = e /\ v.log = log /\ v.silent = silent /\ v \in Servers
  BY <1>3, <1>4, <1>5, <1>8 DEF Servers
<1>11. Served(v, Sections, NoWish)
  <2>1. \A s \in Sections : Recorded(v, s, NoWish)
    BY <1>7, <1>9, <1>10 DEF Recorded
  <2>2. Extends(log)
    BY <1>8 DEF Extends
  <2> QED BY <2>1, <2>2, <1>1, <1>4, <1>6, <1>10 DEF Served
<1>12. TeachersOK(v.db, overridden)
  BY <1>1, <1>10 DEF TeachersOK, e
<1>13. v \in GoodServers(Sections, NoWish, overridden')
  BY <1>10, <1>11, <1>12 DEF GoodServers, ClearSchedule
<1>14. UNCHANGED <<page, view, last, request, answers, computed>> /\ changes' = changes + 1 /\ changes < MaxChanges
  BY DEF ClearSchedule
<1>15. /\ request' \in [Browsers -> Requests \union {None}] /\ \A b \in Browsers : RequestMoves(b, v)
  BY <1>14 DEF IInv, StatesOK, RequestMoves
<1>16. ComputedOK' /\ changes' \in 0..MaxChanges
  BY <1>1, <1>14, BoardAssumption DEF IInv, ComputedOK
<1> QED BY <1>2, <1>13, <1>14, <1>15, <1>16, CommitStep

\* autoscheduler_save.
LEMMA SaveStep ==
    ASSUME IInv, autoscheduler_save
    PROVE  IInv'
<1>1. /\ computed # None /\ computed' = None
      /\ UNCHANGED <<page, view, last, request, answers, changes, overridden>>
  BY DEF autoscheduler_save
<1>2. ComputedOK' /\ changes' \in 0..MaxChanges
  BY <1>1 DEF IInv, StatesOK, ComputedOK
<1>3. request' \in [Browsers -> Requests \union {None}] /\ \A v : \A b \in Browsers : RequestMoves(b, v)
  BY <1>1 DEF IInv, StatesOK, RequestMoves
<1>4. computed.wanted \in Plans /\ IsSchedule(db) /\ IsLog(log) /\ TeachersOK(db, overridden)
  BY <1>1 DEF IInv, ComputedOK
<1>5. PICK order \in SetToSeqs(DOMAIN computed.wanted) :
          LET v == save(computed.wanted, order)
          IN  IF ~SectionMoved(computed) /\ v.ret THEN Commit(v) ELSE UNCHANGED <<db, log, stale>>
  BY DEF autoscheduler_save
<1> DEFINE wanted == computed.wanted
           v == save(wanted, order)
<1>6. CASE v.ret /\ Commit(v)
  <2>1. wanted \in Plans /\ order \in SetToSeqs(DOMAIN wanted)
    BY <1>4
  <2> HIDE DEF wanted
  <2>2. v \in GoodServers(DOMAIN wanted, NoWish, overridden)
    BY <2>1, <1>4, <1>6, SaveGood
  <2> DEFINE M == DOMAIN wanted
  <2>3. v \in GoodServers(M, NoWish, overridden')
    BY <2>2, <1>1
  <2> HIDE DEF v, M
  <2> QED BY <2>3, <1>1, <1>2, <1>3, <1>6, CommitStep
<1>7. CASE UNCHANGED <<db, log, stale>>
  <2>1. Commit(Server) /\ Server \in GoodServers({}, NoWish, overridden')
    BY <1>1, <1>7, NothingCommitted
  <2> QED BY <2>1, <1>1, <1>2, <1>3, CommitStep
<1> QED BY <1>5, <1>6, <1>7

\* Steps that change neither the schedule nor a page.
LEMMA NoStep ==
    ASSUME IInv, UNCHANGED <<db, log, page, view, last, request, answers, overridden, stale>>,
           ComputedOK', changes' \in 0..MaxChanges
    PROVE  IInv'
<1>1. IsSchedule(db') /\ TeachersOK(db', overridden') /\ IsLog(log') /\ StatesOK'
  BY DEF IInv, StatesOK
<1>2. \A b \in Browsers : BrowserOK(b)'
  BY DEF IInv, BrowserOK, IsSegment, Reached
<1>3. \A b \in Browsers, s \in Sections : <<b, s>> \notin stale' => PairOK(b, s)'
  BY DEF IInv, PairOK, LogTells, Quiet, Stated
<1> QED BY <1>1, <1>2, <1>3 DEF IInv

\* autoscheduler_execute.
LEMMA ExecuteStep ==
    ASSUME IInv, autoscheduler_execute
    PROVE  IInv'
<1>1. PICK wanted \in Plans :
          computed' = [wanted |-> wanted, initial |-> [s \in DOMAIN wanted |-> Place(db, s)]]
  BY DEF autoscheduler_execute
<1>2. \A s \in DOMAIN wanted : Place(db, s) \in Shown
  BY PlanFacts, PlaceShown DEF IInv
<1>3. ComputedOK'
  BY <1>1, <1>2 DEF ComputedOK
<1>4. /\ UNCHANGED <<db, log, page, view, last, request, answers, overridden, stale>>
      /\ changes < MaxChanges /\ changes' = changes + 1
  BY DEF autoscheduler_execute
<1>5. changes' \in 0..MaxChanges
  BY <1>4, BoardAssumption DEF IInv, StatesOK
<1> QED BY <1>3, <1>4, <1>5, NoStep

-----------------------------------------------------------------------------
(* The steps of the pages.                                                  *)

\* A page shows the last of the entries for a section.
LEMMA AppliedFacts ==
    ASSUME NEW w, NEW l, NEW s \in Sections, Len(l) \in Nat, DOMAIN l = 1..Len(l)
    PROVE  /\ (\A k \in DOMAIN l : l[k].section # s) => Applied(w, l)[s] = w[s]
           /\ \A k : IsLast(l, s, k) => Applied(w, l)[s] = Read(l[k])
           /\ (\E k \in DOMAIN l : l[k].section = s) => \E k : IsLast(l, s, k)
<1> DEFINE entries == {k \in DOMAIN l : l[k].section = s}
<1>1. Applied(w, l)[s] = IF entries = {} THEN w[s] ELSE Read(l[Max(entries)])
  BY DEF Applied
<1>2. entries # {} => Max(entries) \in entries /\ \A k \in entries : k <= Max(entries)
  <2>1. entries \subseteq 0..Len(l)
    OBVIOUS
  <2> HIDE DEF entries
  <2> QED BY <2>1, Maximum
<1>3. ASSUME NEW k, IsLast(l, s, k) PROVE entries # {} /\ k = Max(entries)
  <2>1. k \in entries /\ \A j \in entries : j <= k
    BY <1>3 DEF IsLast
  <2>2. k <= Max(entries) /\ Max(entries) <= k /\ Max(entries) \in Nat /\ k \in Nat
    BY <2>1, <1>2
  <2> QED BY <2>1, <2>2
<1>4. entries # {} => IsLast(l, s, Max(entries))
  BY <1>2 DEF IsLast
<1> QED BY <1>1, <1>3, <1>4

\* What is not changed of a page stays as it is.
LEMMA OtherPage ==
    ASSUME NEW b \in Browsers, UNCHANGED <<db, log>>, page'[b] = page[b], view'[b] = view[b],
           last'[b] = last[b], request'[b] = request[b], answers'[b] = answers[b]
    PROVE  /\ BrowserOK(b) => BrowserOK(b)'
           /\ \A s \in Sections : PairOK(b, s) => PairOK(b, s)'
BY DEF BrowserOK, IsSegment, Reached, PairOK, LogTells, Quiet, Stated

\* One page does something, the schedule and the log stay.
LEMMA PageStep ==
    ASSUME IInv, NEW c \in Browsers, UNCHANGED <<db, log, computed, overridden>>, StatesOK',
           \A b \in Browsers \ {c} :
               /\ page'[b] = page[b] /\ view'[b] = view[b] /\ last'[b] = last[b]
               /\ request'[b] = request[b] /\ answers'[b] = answers[b],
           BrowserOK(c)', \A s \in Sections : <<c, s>> \notin stale' => PairOK(c, s)',
           stale \subseteq stale'
    PROVE  IInv'
<1>1. IsSchedule(db') /\ TeachersOK(db', overridden') /\ IsLog(log') /\ ComputedOK'
  BY DEF IInv, ComputedOK
<1>2. ASSUME NEW b \in Browsers \ {c}
      PROVE  BrowserOK(b)' /\ \A s \in Sections : <<b, s>> \notin stale' => PairOK(b, s)'
  BY OtherPage DEF IInv
<1>3. \A b \in Browsers : BrowserOK(b)'
  BY <1>2
<1>4. \A b \in Browsers, s \in Sections : <<b, s>> \notin stale' => PairOK(b, s)'
  BY <1>2
<1> QED BY <1>1, <1>3, <1>4 DEF IInv

\* What the invariant says of one page.
LEMMA StatesFacts ==
    ASSUME IInv, NEW b \in Browsers
    PROVE  /\ StatesOK /\ view[b] \in [Sections -> Shown] /\ last[b] \in Nat
           /\ answers[b] \subseteq Answers /\ BrowserOK(b)
           /\ \A s \in Sections : <<b, s>> \notin stale => PairOK(b, s)
           /\ IsLog(log) /\ IsSchedule(db)
           /\ get_latest_index(log) \in Nat
BY LatestIndex DEF IInv, StatesOK

\* ajax_schedule_last_changed is answered: the page has the schedule and all that is in the log.
LEMMA LastChangedStep ==
    ASSUME IInv, NEW c \in Browsers, LastChanged(c)
    PROVE  IInv'
<1>1. /\ page[c] = "opening"
      /\ page' = [page EXCEPT ![c] = "open"] /\ last' = [last EXCEPT ![c] = get_latest_index(log)]
      /\ UNCHANGED <<db, log, view, request, answers, computed, changes, overridden, stale>>
  BY DEF LastChanged
<1>2. StatesOK /\ BrowserOK(c) /\ get_latest_index(log) \in Nat
  BY StatesFacts
<1>3. StatesOK'
  BY <1>1, <1>2 DEF StatesOK
<1>4. page'[c] = "open" /\ last'[c] = get_latest_index(log) /\ request[c] = None
  BY <1>1, <1>2 DEF StatesOK, BrowserOK
<1>5. BrowserOK(c)'
  BY <1>1, <1>2, <1>4 DEF BrowserOK, IsSegment, Reached
<1>6. ASSUME NEW s \in Sections, <<c, s>> \notin stale' PROVE PairOK(c, s)'
  <2>1. PairOK(c, s)
    BY <1>1, <1>6 DEF IInv
  <2> QED BY <2>1, <1>1, <1>4 DEF PairOK, LogTells, Stated
<1>7. \A b \in Browsers \ {c} : page'[b] = page[b] /\ last'[b] = last[b]
  BY <1>1, <1>2 DEF StatesOK
<1> QED BY <1>1, <1>3, <1>5, <1>6, <1>7, PageStep

\* The answer to a poll.
LEMMA ChangeLogFacts ==
    ASSUME IsLog(log), NEW i \in Nat, NEW a, a = ajax_change_log(i)
    PROVE  /\ a \in Answers /\ IsSegment(a.changelog) /\ (a.reload => a.changelog = <<>>)
           /\ a.changelog # <<>> => i < get_latest_index(log) /\ Last(a.changelog).index = get_latest_index(log)
<1> DEFINE later == {k \in DOMAIN log : log[k].index > i}
           lo == Min(later)
<1>1. log \in Seq(LogEntry) /\ DOMAIN log = 1..Len(log) /\ Len(log) \in Nat
  BY DEF IsLog
<1>2. get_log(i) = IF later = {} THEN <<>> ELSE SubSeq(log, lo, Len(log))
  BY DEF get_log
<1>3. a.changelog \in {<<>>, get_log(i)} /\ a.reload \in BOOLEAN /\ a = [reload |-> a.reload, changelog |-> a.changelog]
      /\ (a.reload => a.changelog = <<>>)
  BY DEF ajax_change_log
<1>4. <<>> \in Seq(LogEntry)
  OBVIOUS
<1>5. CASE a.changelog = <<>>
  BY <1>3, <1>4, <1>5 DEF Answers, IsSegment
<1>6. CASE a.changelog # <<>>
  <2>1. later # {} /\ later \subseteq Nat /\ a.changelog = SubSeq(log, lo, Len(log))
    BY <1>1, <1>2, <1>3, <1>6
  <2>2. lo \in later
    <3> HIDE DEF later
    <3> QED BY <2>1, Minimum
  <2>3. lo \in 1..Len(log) /\ log[lo].index > i
    BY <2>2, <1>1
  <2> HIDE DEF lo, later
  <2> DEFINE l == a.changelog
  <2>4. \A j \in lo..Len(log) : log[j] \in LogEntry
    BY <1>1, <2>3, ElementOfSeq
  <2>5. l \in Seq(LogEntry) /\ Len(l) = (Len(log) - lo) + 1
    BY <2>1, <2>3, <2>4, <1>1, SubSeqProperties
  <2>6. \A j \in 1..Len(l) : l[j] = log[lo + (j - 1)]
    BY <2>1, <2>3, <2>5, <1>1
  <2>7. lo + Len(l) <= Len(log) + 1
    BY <2>3, <2>5, <1>1
  <2>8. Last(l) = log[Len(log)]
    <3>1. Len(l) \in 1..Len(l) /\ lo + (Len(l) - 1) = Len(log)
      BY <2>3, <2>5, <1>1
    <3> QED BY <3>1, <2>6 DEF Last
  <2>9. log # <<>> /\ lo \in DOMAIN log
    BY <2>3, <1>1
  <2>10. get_latest_index(log) = log[Len(log)].index /\ log[lo].index <= get_latest_index(log)
         /\ log[lo].index \in Nat /\ get_latest_index(log) \in Nat
    BY <2>9, LatestIndex
  <2> HIDE DEF l
  <2>11. IsSegment(l)
    BY <2>5, <2>6, <2>7, <2>9 DEF IsSegment
  <2>12. i < get_latest_index(log)
    BY <2>3, <2>10
  <2>13. Last(l).index = get_latest_index(log)
    BY <2>8, <2>10
  <2> QED BY <2>5, <2>11, <2>12, <2>13, <1>3 DEF Answers, l
<1> QED BY <1>5, <1>6

\* ajax_change_log is answered.
LEMMA GetChangesStep ==
    ASSUME IInv, NEW c \in Browsers, getChanges(c)
    PROVE  IInv'
<1> DEFINE a == ajax_change_log(last[c])
<1>1. /\ answers' = [answers EXCEPT ![c] = @ \union {a}]
      /\ UNCHANGED <<db, log, page, view, last, request, computed, changes, overridden, stale>>
  BY DEF getChanges, Ask
<1>2. /\ StatesOK /\ BrowserOK(c) /\ get_latest_index(log) \in Nat /\ last[c] \in Nat /\ IsLog(log)
  BY StatesFacts
<1>3. /\ a \in Answers /\ IsSegment(a.changelog) /\ (a.reload => a.changelog = <<>>)
      /\ a.changelog # <<>> => last[c] < get_latest_index(log) /\ Last(a.changelog).index = get_latest_index(log)
  BY <1>2, ChangeLogFacts
<1> HIDE DEF a
<1>4. answers'[c] = answers[c] \union {a} /\ \A b \in Browsers \ {c} : answers'[b] = answers[b]
  BY <1>1, <1>2 DEF StatesOK
<1>5. StatesOK'
  BY <1>1, <1>2, <1>3 DEF StatesOK
<1>6. ASSUME NEW n \in Nat, Reached(c, n) PROVE Reached(c, n)'
  BY <1>1, <1>2, <1>3, <1>4, <1>6 DEF Reached
<1>7. BrowserOK(c)'
  <2>1. \A x \in answers'[c] : IsSegment(x.changelog)' /\ (x.reload => x.changelog = <<>>)
    BY <1>1, <1>2, <1>3, <1>4 DEF BrowserOK, IsSegment
  <2>2. request[c] # None => request[c].last \in Nat
    BY <1>2, RequestFacts DEF BrowserOK
  <2>3. request[c] # None => Reached(c, request[c].last)'
    BY <2>2, <1>1, <1>2, <1>6 DEF BrowserOK
  <2>4. Reached(c, last[c])'
    BY <1>1, <1>2, <1>6 DEF BrowserOK
  <2> QED BY <2>1, <2>3, <2>4, <1>1, <1>2 DEF BrowserOK
<1>8. ASSUME NEW s \in Sections, <<c, s>> \notin stale' PROVE PairOK(c, s)'
  <2>1. PairOK(c, s)
    BY <1>1, <1>8 DEF IInv
  <2>2. a.changelog # <<>> => Quiet(s, Last(a.changelog).index)
    BY <1>2, <1>3, LatestIndex DEF Quiet
  <2> QED BY <2>1, <2>2, <1>1, <1>4 DEF PairOK, LogTells, Stated, Quiet
<1> QED BY <1>1, <1>4, <1>5, <1>7, <1>8, PageStep

\* An entry that a page can apply is read as a place.
LEMMA ReadPlace ==
    ASSUME NEW e, e.place \in Places \union {Nowhere}, Named(e) => Read(e) \in Places
    PROVE  Read(e) \in Places \union {Nowhere}
BY DEF Read

\* What a page shows can be shown.
LEMMA AppliedShown ==
    ASSUME NEW w \in [Sections -> Shown], NEW l, Len(l) \in Nat, DOMAIN l = 1..Len(l),
           \A k \in DOMAIN l : Read(l[k]) \in Places \union {Nowhere}
    PROVE  Applied(w, l) \in [Sections -> Shown]
<1>1. Nowhere \in Shown /\ Places \subseteq Shown
  BY DEF Nowhere, Shown
<1>2. ASSUME NEW s \in Sections PROVE Applied(w, l)[s] \in Shown
  <2>1. CASE \A k \in DOMAIN l : l[k].section # s
    <3>1. Applied(w, l)[s] = w[s]
      BY <2>1, AppliedFacts
    <3> QED BY <3>1
  <2>2. CASE \E k \in DOMAIN l : l[k].section = s
    <3>1. PICK k : IsLast(l, s, k)
      BY <2>2, AppliedFacts
    <3>2. Applied(w, l)[s] = Read(l[k]) /\ k \in DOMAIN l
      BY <3>1, AppliedFacts DEF IsLast
    <3> QED BY <3>2, <1>1
  <2> QED BY <2>1, <2>2
<1>3. Applied(w, l) = [s \in Sections |-> Applied(w, l)[s]]
  BY DEF Applied
<1> HIDE DEF Applied
<1> QED BY <1>2, <1>3

\* The part of an answer that a page can apply is its beginning.
LEMMA ApplicableFacts ==
    ASSUME NEW c \in Browsers, NEW h \in Seq(LogEntry), NEW l, l = Applicable(c, h)
    PROVE  /\ l \in Seq(LogEntry) /\ Len(l) \in Nat /\ Len(h) \in Nat /\ Len(l) <= Len(h)
           /\ DOMAIN l = 1..Len(l) /\ \A i \in 1..Len(l) : l[i] = h[i] /\ l[i] \in LogEntry
           /\ \A i \in 1..Len(l) : CanApply(c, l[i])
<1> DEFINE bad == {i \in DOMAIN h : ~CanApply(c, h[i])}
           m == CHOOSE i \in bad : \A j \in bad : i <= j
<1>1. Len(h) \in Nat /\ DOMAIN h = 1..Len(h) /\ \A i \in 1..Len(h) : h[i] \in LogEntry
  BY ElementOfSeq
<1>2. l = IF bad = {} THEN h ELSE SubSeq(h, 1, m - 1)
  BY DEF Applicable
<1>3. CASE bad = {}
  BY <1>1, <1>2, <1>3
<1>4. CASE bad # {}
  <2>1. bad \subseteq Nat /\ bad \subseteq 1..Len(h)
    BY <1>1
  <2> HIDE DEF bad
  <2>2. m \in bad /\ \A j \in bad : m <= j
    BY <2>1, <1>4, LeastNatural
  <2>3. m \in 1..Len(h)
    BY <2>1, <2>2
  <2> HIDE DEF m
  <2>8. \A i \in 1..Len(h) : i < m => CanApply(c, h[i])
    BY <2>2, <2>3, <1>1 DEF bad
  <2> DEFINE n == m - 1
  <2>4. n \in Nat /\ n <= Len(h) /\ l = SubSeq(h, 1, n)
    BY <2>3, <1>1, <1>2, <1>4
  <2> HIDE DEF n
  <2>5. \A i \in 1..n : h[i] \in LogEntry
    BY <1>1, <2>4
  <2>6. l \in Seq(LogEntry) /\ Len(l) = n /\ \A i \in 1..n : l[i] = h[i]
    BY <2>4, <2>5, <1>1, SubSeqProperties
  <2>7. DOMAIN l = 1..Len(l)
    BY <2>6
  <2>9. \A i \in 1..n : i \in 1..Len(h) /\ i < m
    BY <2>3, <2>4, <1>1 DEF n
  <2> QED BY <2>4, <2>5, <2>6, <2>7, <2>8, <2>9, <1>1
<1> QED BY <1>3, <1>4

\* A part of the log, and where it is.
LEMMA SegmentFacts ==
    ASSUME IsLog(log), NEW l, IsSegment(l), l # <<>>
    PROVE  /\ Len(l) \in Nat \ {0} /\ DOMAIN l = 1..Len(l) /\ Last(l) = l[Len(l)]
           /\ \E lo \in DOMAIN log : /\ \A i \in 1..Len(l) : lo + (i - 1) \in DOMAIN log /\ l[i] = log[lo + (i - 1)]
                                     /\ \A k \in DOMAIN log : k < lo \/ k > lo + (Len(l) - 1)
                                                             \/ \E i \in 1..Len(l) : k = lo + (i - 1)
<1>1. l \in Seq(LogEntry) /\ Len(log) \in Nat /\ DOMAIN log = 1..Len(log)
  BY DEF IsSegment, IsLog
<1>2. Len(l) \in Nat \ {0} /\ DOMAIN l = 1..Len(l) /\ Last(l) = l[Len(l)]
  BY <1>1 DEF Last
<1>3. PICK lo \in DOMAIN log : lo + Len(l) <= Len(log) + 1 /\ \A i \in 1..Len(l) : l[i] = log[lo + (i - 1)]
  BY DEF IsSegment
<1>4. \A i \in 1..Len(l) : lo + (i - 1) \in DOMAIN log /\ l[i] = log[lo + (i - 1)]
  BY <1>1, <1>2, <1>3
<1>5. ASSUME NEW k \in DOMAIN log, ~(k < lo), ~(k > lo + (Len(l) - 1))
      PROVE  \E i \in 1..Len(l) : k = lo + (i - 1)
  <2>1. (k - lo) + 1 \in 1..Len(l) /\ k = lo + (((k - lo) + 1) - 1)
    BY <1>1, <1>2, <1>5
  <2> QED BY <2>1
<1> QED BY <1>2, <1>4, <1>5

\* A page that applies a part of the log up to an index after which the log
\* says nothing of a section: it shows where the section is.
LEMMA SegmentTells ==
    ASSUME IsLog(log), NEW l, IsSegment(l), l # <<>>, NEW w, NEW s \in Sections,
           Quiet(s, Last(l).index), LogTells(s), \E k \in DOMAIN l : l[k].section = s
    PROVE  Applied(w, l)[s] = Place(db, s)
<1>1. Len(l) \in Nat \ {0} /\ DOMAIN l = 1..Len(l) /\ Last(l) = l[Len(l)]
  BY SegmentFacts
<1>2. PICK lo \in DOMAIN log : /\ \A i \in 1..Len(l) : lo + (i - 1) \in DOMAIN log /\ l[i] = log[lo + (i - 1)]
                               /\ \A k \in DOMAIN log : k < lo \/ k > lo + (Len(l) - 1)
                                                       \/ \E i \in 1..Len(l) : k = lo + (i - 1)
  BY SegmentFacts
<1>3. PICK k : IsLast(l, s, k)
  BY <1>1, AppliedFacts
<1>4. Applied(w, l)[s] = Read(l[k])
  BY <1>1, <1>3, AppliedFacts
<1> DEFINE n == lo + (k - 1)
           hi == lo + (Len(l) - 1)
<1>5. k \in 1..Len(l) /\ l[k].section = s /\ \A j \in 1..Len(l) : l[j].section = s => j <= k
  BY <1>1, <1>3 DEF IsLast
<1>6. n \in DOMAIN log /\ hi \in DOMAIN log /\ log[n] = l[k] /\ log[hi] = l[Len(l)]
  BY <1>1, <1>2, <1>5
<1>7. DOMAIN log \subseteq Nat /\ \A i, j \in DOMAIN log : i < j <=> log[i].index < log[j].index
  BY LatestIndex DEF IsLog
<1>8. \A i \in DOMAIN log : log[i].index \in Nat
  BY LatestIndex
<1>9. ASSUME NEW j \in DOMAIN log, log[j].section = s PROVE j <= n
  <2>1. log[j].index <= log[hi].index
    BY <1>1, <1>6, <1>9 DEF Quiet
  <2>2. ~(log[hi].index < log[j].index)
    BY <2>1, <1>8, <1>6
  <2>3. ~(hi < j)
    BY <2>2, <1>6, <1>7
  <2>4. CASE j < lo
    BY <2>4, <1>5, <1>7
  <2>5. CASE \E i \in 1..Len(l) : j = lo + (i - 1)
    <3>1. PICK i \in 1..Len(l) : j = lo + (i - 1)
      BY <2>5
    <3>2. l[i].section = s
      BY <3>1, <1>2, <1>9
    <3>3. i <= k
      BY <3>2, <1>5
    <3> QED BY <3>1, <3>3, <1>5, <1>7
  <2> QED BY <2>3, <2>4, <2>5, <1>2
<1> HIDE DEF n, hi
<1>10. IsLast(log, s, n)
  BY <1>5, <1>6, <1>9 DEF IsLast
<1>11. Read(log[n]) = Place(db, s)
  BY <1>6, <1>10 DEF LogTells
<1> QED BY <1>4, <1>6, <1>11

\* The entries that come before a part of the log that says nothing of a
\* section have been applied, unless they have been skipped.
LEMMA SegmentSilent ==
    ASSUME IsLog(log), NEW l, IsSegment(l), l # <<>>, NEW c, last[c] \in Nat, NEW s \in Sections,
           s \notin Skipped(c, l), Quiet(s, Last(l).index), \A k \in DOMAIN l : l[k].section # s
    PROVE  Quiet(s, last[c])
<1>1. Len(l) \in Nat \ {0} /\ DOMAIN l = 1..Len(l) /\ Last(l) = l[Len(l)]
  BY SegmentFacts
<1>2. PICK lo \in DOMAIN log : /\ \A i \in 1..Len(l) : lo + (i - 1) \in DOMAIN log /\ l[i] = log[lo + (i - 1)]
                               /\ \A k \in DOMAIN log : k < lo \/ k > lo + (Len(l) - 1)
                                                       \/ \E i \in 1..Len(l) : k = lo + (i - 1)
  BY SegmentFacts
<1>3. DOMAIN log \subseteq Nat /\ \A i, j \in DOMAIN log : i < j <=> log[i].index < log[j].index
  BY LatestIndex DEF IsLog
<1>4. \A i \in DOMAIN log : log[i].index \in Nat
  BY LatestIndex
<1> DEFINE hi == lo + (Len(l) - 1)
<1>5. hi \in DOMAIN log /\ log[hi] = l[Len(l)] /\ log[lo] = l[1]
  <2>1. Len(l) \in 1..Len(l) /\ 1 \in 1..Len(l)
    BY <1>1
  <2>2. hi \in DOMAIN log /\ l[Len(l)] = log[hi]
    BY <2>1, <1>2
  <2>3. l[1] = log[lo + (1 - 1)] /\ lo + (1 - 1) = lo
    BY <2>1, <1>2, <1>3
  <2> HIDE DEF hi
  <2> QED BY <2>2, <2>3
<1> SUFFICES ASSUME NEW k \in DOMAIN log, log[k].section = s, ~(log[k].index <= last[c]) PROVE FALSE
  BY DEF Quiet
<1>6. log[k].index <= log[hi].index
  BY <1>1, <1>5 DEF Quiet
<1>7. ~(hi < k)
  BY <1>3, <1>4, <1>5, <1>6
<1>8. \A i \in 1..Len(l) : k # lo + (i - 1)
  BY <1>1, <1>2
<1>9. k < lo
  BY <1>2, <1>7, <1>8
<1>10. log[k].index < l[1].index /\ last[c] < log[k].index
  BY <1>3, <1>4, <1>5, <1>9
<1>11. log[k] \in Range(log)
  BY DEF Range
<1> QED BY <1>10, <1>11 DEF Skipped

\* A page applies an answer, the newest or not.
LEMMA ApplyChangeLogStep ==
    ASSUME IInv, NEW c \in Browsers, applyChangeLog(c)
    PROVE  IInv'
<1>1. PICK a \in answers[c] :
          LET l == Applicable(c, a.changelog)
          IN  /\ answers' = [answers EXCEPT ![c] = @ \ {a}]
              /\ page' = [page EXCEPT ![c] = IF a.reload THEN "stopped" ELSE @]
              /\ view' = [view EXCEPT ![c] = Applied(@, l)]
              /\ last' = [last EXCEPT ![c] = IF l = <<>> THEN @ ELSE Last(l).index]
              /\ stale' = stale \union ({c} \X Skipped(c, l))
                          \union (IF page[c] = "open" \/ l = a.changelog THEN {}
                                  ELSE {c} \X {e.section : e \in Range(l)})
              /\ UNCHANGED <<db, log, request, computed, changes, overridden>>
  BY DEF applyChangeLog, Take
<1> DEFINE l == Applicable(c, a.changelog)
<1>2. /\ StatesOK /\ view[c] \in [Sections -> Shown] /\ last[c] \in Nat /\ answers[c] \subseteq Answers
      /\ BrowserOK(c) /\ IsLog(log) /\ get_latest_index(log) \in Nat
  BY StatesFacts
<1>3. a.changelog \in Seq(LogEntry) /\ IsSegment(a.changelog) /\ (a.reload => a.changelog = <<>>)
  BY <1>2 DEF Answers, BrowserOK
<1>4. /\ l \in Seq(LogEntry) /\ Len(l) \in Nat /\ Len(a.changelog) \in Nat /\ Len(l) <= Len(a.changelog)
      /\ DOMAIN l = 1..Len(l) /\ \A i \in 1..Len(l) : l[i] = a.changelog[i] /\ l[i] \in LogEntry
  BY <1>3, ApplicableFacts
<1>14. \A i \in 1..Len(l) : CanApply(c, l[i])
  BY <1>3, ApplicableFacts
<1>5. /\ answers' = [answers EXCEPT ![c] = @ \ {a}]
      /\ page' = [page EXCEPT ![c] = IF a.reload THEN "stopped" ELSE @]
      /\ view' = [view EXCEPT ![c] = Applied(@, l)]
      /\ last' = [last EXCEPT ![c] = IF l = <<>> THEN @ ELSE Last(l).index]
      /\ stale \subseteq stale' /\ \A s \in Skipped(c, l) : <<c, s>> \in stale'
      /\ page[c] = "open" \/ l = a.changelog \/ \A e \in Range(l) : <<c, e.section>> \in stale'
      /\ stale' \subseteq stale \union ({c} \X Skipped(c, l)) \union ({c} \X {e.section : e \in Range(l)})
      /\ UNCHANGED <<db, log, request, computed, changes, overridden>>
  BY <1>1
<1> HIDE DEF l
<1>6. IsSegment(l)
  <2>1. CASE l = <<>>
    BY <2>1, <1>4 DEF IsSegment
  <2>2. CASE l # <<>>
    <3>1. a.changelog # <<>>
      BY <2>2, <1>4
    <3>2. PICK lo \in DOMAIN log : /\ lo + Len(a.changelog) <= Len(log) + 1
                                   /\ \A i \in 1..Len(a.changelog) : a.changelog[i] = log[lo + (i - 1)]
      BY <3>1, <1>3 DEF IsSegment
    <3>3. lo \in Nat /\ Len(log) \in Nat
      BY <1>2 DEF IsLog
    <3>4. lo + Len(l) <= Len(log) + 1 /\ \A i \in 1..Len(l) : l[i] = log[lo + (i - 1)]
      BY <3>2, <3>3, <1>4
    <3> QED BY <3>2, <3>4, <1>4 DEF IsSegment
  <2> QED BY <2>1, <2>2
<1>7. /\ answers'[c] = answers[c] \ {a} /\ page'[c] = IF a.reload THEN "stopped" ELSE page[c]
      /\ view'[c] = Applied(view[c], l) /\ last'[c] = IF l = <<>> THEN last[c] ELSE Last(l).index
  BY <1>5, <1>2 DEF StatesOK
<1>8. l # <<>> => Last(l).index \in Nat /\ Last(l).index <= get_latest_index(log) /\ a.changelog # <<>>
  <2> SUFFICES ASSUME l # <<>> PROVE Last(l).index \in Nat /\ Last(l).index <= get_latest_index(log) /\ a.changelog # <<>>
    OBVIOUS
  <2>1. Len(l) \in 1..Len(l) /\ Last(l) = l[Len(l)] /\ \E lo \in DOMAIN log : \A i \in 1..Len(l) :
            lo + (i - 1) \in DOMAIN log /\ l[i] = log[lo + (i - 1)]
    BY <1>2, <1>6, SegmentFacts
  <2>2. \E k \in DOMAIN log : Last(l) = log[k]
    BY <2>1
  <2>3. a.changelog # <<>>
    BY <2>1, <1>4
  <2> QED BY <2>2, <2>3, <1>2, LatestIndex
<1>9. StatesOK'
  <2>1. view'[c] \in [Sections -> Shown]
    <3>1. ASSUME NEW k \in DOMAIN l PROVE Read(l[k]) \in Places \union {Nowhere}
      <4>1. l[k].place \in Places \union {Nowhere} /\ (Named(l[k]) => Read(l[k]) \in Places)
        BY <1>4, <1>14 DEF LogEntry, CanApply
      <4> QED BY <4>1, ReadPlace
    <3> QED BY <3>1, <1>2, <1>4, <1>7, AppliedShown
  <2>2. view' = [view EXCEPT ![c] = view'[c]]
    BY <1>5, <1>7
  <2>3. view' \in [Browsers -> [Sections -> Shown]]
    BY <2>1, <2>2, <1>2 DEF StatesOK
  <2>4. last' \in [Browsers -> Nat]
    BY <1>2, <1>5, <1>8 DEF StatesOK
  <2>5. page' \in [Browsers -> {"closed", "opening", "open", "stopped"}] /\ answers' \in [Browsers -> SUBSET Answers]
    BY <1>2, <1>5 DEF StatesOK
  <2>6. Skipped(c, l) \subseteq Sections
    <3>1. \A k \in DOMAIN log : log[k] \in LogEntry
      BY <1>2 DEF IsLog
    <3>2. \A x \in Range(log) : x.section \in Sections
      BY <3>1 DEF Range, LogEntry
    <3> QED BY <3>2 DEF Skipped
  <2>7. {e.section : e \in Range(l)} \subseteq Sections
    BY <1>4 DEF Range, LogEntry
  <2>8. stale' \subseteq Browsers \X Sections
    BY <2>6, <2>7, <1>2, <1>5 DEF StatesOK
  <2> QED BY <2>3, <2>4, <2>5, <2>8, <1>2, <1>5 DEF StatesOK
<1>10. ASSUME NEW n \in Nat, Reached(c, n) PROVE Reached(c, n)'
  <2>1. CASE n <= get_latest_index(log)
    BY <2>1, <1>5 DEF Reached
  <2>2. CASE n <= last[c] /\ \A x \in answers[c] : x.changelog = <<>>
    BY <2>2, <1>7, <1>8 DEF Reached
  <2> QED BY <2>1, <2>2, <1>10 DEF Reached
<1>11. BrowserOK(c)'
  <2>1. request[c] # None => IsRequest(request[c]) /\ Reached(c, request[c].last)'
    <3>1. request[c] # None => IsRequest(request[c]) /\ request[c].last \in Nat /\ Reached(c, request[c].last)
      BY <1>2, RequestFacts DEF BrowserOK
    <3> QED BY <3>1, <1>5, <1>10
  <2>2. page'[c] = "opening" => request'[c] = None
    BY <1>2, <1>5, <1>7 DEF BrowserOK
  <2>3. \A x \in answers'[c] : IsSegment(x.changelog)' /\ (x.reload => x.changelog = <<>>)
    BY <1>2, <1>5, <1>7 DEF BrowserOK, IsSegment
  <2>4. Reached(c, last[c])'
    BY <1>2, <1>5, <1>7, <1>8, <1>10 DEF BrowserOK, Reached
  <2> QED BY <2>1, <2>2, <2>3, <2>4, <1>5 DEF BrowserOK
<1>12. ASSUME NEW s \in Sections, <<c, s>> \notin stale' PROVE PairOK(c, s)'
  <2>1. PairOK(c, s) /\ s \notin Skipped(c, l)
    BY <1>5, <1>12 DEF IInv
  <2>2. CASE page'[c] \notin {"opening", "open"}
    BY <2>2 DEF PairOK
  <2>3. CASE page'[c] \in {"opening", "open"}
    <3>1. page'[c] = page[c] /\ LogTells(s)
      BY <2>1, <2>3, <1>7 DEF PairOK
    <3>2. (\A k \in DOMAIN l : l[k].section # s) => view'[c][s] = view[c][s]
      BY <1>4, <1>7, AppliedFacts
    <3>3. ASSUME NEW k \in DOMAIN l, l[k].section = s, Quiet(s, Last(l).index)
          PROVE  view'[c][s] = Place(db, s)
      <4>1. l # <<>>
        BY <3>3
      <4> QED BY <3>1, <3>3, <4>1, <1>2, <1>6, <1>7, SegmentTells
    <3>4. CASE page[c] = "opening"
      <4>1. view'[c][s] = Place(db, s)
        <5>1. CASE \A k \in DOMAIN l : l[k].section # s
          BY <5>1, <3>2, <3>4, <2>1 DEF PairOK
        <5>2. CASE \E k \in DOMAIN l : l[k].section = s
          <6>1. PICK k \in DOMAIN l : l[k].section = s
            BY <5>2
          <6>2. l = a.changelog
            BY <6>1, <3>4, <1>5, <1>12 DEF Range
          <6>3. Quiet(s, Last(l).index)
            BY <6>1, <6>2, <3>4, <2>1 DEF PairOK
          <6> QED BY <6>1, <6>3, <3>3
        <5> QED BY <5>1, <5>2
      <4> QED BY <4>1, <3>1, <3>4, <2>1, <1>5, <1>7 DEF PairOK, LogTells, Quiet
    <3>5. CASE page[c] = "open"
      <4>1. ASSUME Quiet(s, last'[c]), Stated(c, s) PROVE view'[c][s] = Place(db, s)
        <5>1. CASE l = <<>>
          BY <5>1, <4>1, <3>2, <3>5, <2>1, <1>4, <1>7 DEF PairOK
        <5>2. CASE l # <<>> /\ \A k \in DOMAIN l : l[k].section # s
          <6>1. Quiet(s, last[c])
            BY <5>2, <4>1, <2>1, <1>2, <1>6, <1>7, SegmentSilent
          <6> QED BY <6>1, <5>2, <4>1, <3>2, <3>5, <2>1 DEF PairOK
        <5>3. CASE \E k \in DOMAIN l : l[k].section = s
          <6>1. l # <<>>
            BY <5>3
          <6> QED BY <6>1, <5>3, <4>1, <3>3, <1>7
        <5> QED BY <5>1, <5>2, <5>3
      <4>2. Stated(c, s)' = Stated(c, s) /\ LogTells(s)' = LogTells(s) /\ \A n : Quiet(s, n)' = Quiet(s, n)
        BY <1>5 DEF Stated, LogTells, Quiet
      <4>3. Quiet(s, last[c])' = Quiet(s, last'[c])
        BY <1>5 DEF Quiet
      <4> QED BY <4>1, <4>2, <4>3, <3>1, <3>5, <2>1, <1>5 DEF PairOK
    <3> QED BY <3>1, <3>4, <3>5, <2>3
  <2> QED BY <2>2, <2>3
<1>13. \A b \in Browsers \ {c} :
           /\ page'[b] = page[b] /\ view'[b] = view[b] /\ last'[b] = last[b]
           /\ request'[b] = request[b] /\ answers'[b] = answers[b]
  BY <1>2, <1>5 DEF StatesOK
<1> QED BY <1>5, <1>9, <1>11, <1>12, <1>13, PageStep

\* What a page may ask the server for.
Sendable(action, todo, override) ==
    /\ action \in {"assignreg", "deletereg", "swap"}
    /\ todo \in Seq([section : Sections, place : Places \union {Nowhere}, named : {FALSE}])
    /\ todo # <<>>
    /\ action # "swap" => Len(todo) = 1
    /\ action = "assignreg" => todo[1].place \in Places
    /\ override \in BOOLEAN

\* A page shows what it asks for, and remembers what it showed before.
LEMMA SendStep ==
    ASSUME IInv, NEW c \in Browsers, NEW action, NEW todo, NEW override,
           Sendable(action, todo, override), CanSend(c), Send(c, action, todo, override)
    PROVE  IInv'
<1> DEFINE moved == {x.section : x \in Range(todo)}
           old == [s \in moved |-> view[c][s]]
           r == [action |-> action, todo |-> todo, override |-> override, old |-> old,
                 last |-> last[c], state |-> "sent"]
<1>1. /\ page[c] = "open" /\ request[c] = None
      /\ changes < MaxChanges /\ changes' = changes + 1
      /\ view' = [view EXCEPT ![c] = Applied(view[c], todo)]
      /\ request' = [request EXCEPT ![c] = r]
      /\ UNCHANGED <<db, log, page, last, answers, computed, overridden, stale>>
  BY DEF Send, CanSend
<1>2. /\ StatesOK /\ view[c] \in [Sections -> Shown] /\ last[c] \in Nat /\ BrowserOK(c)
  BY StatesFacts
<1>3. /\ Len(todo) \in Nat /\ DOMAIN todo = 1..Len(todo)
      /\ \A i \in 1..Len(todo) : todo[i].section \in Sections /\ Read(todo[i]) \in Places \union {Nowhere}
  <2> DEFINE X == [section : Sections, place : Places \union {Nowhere}, named : {FALSE}]
  <2>1. todo \in Seq(X)
    BY DEF Sendable
  <2>2. \A x \in X : x.section \in Sections /\ Read(x) \in Places \union {Nowhere}
    BY DEF Read, Named
  <2> HIDE DEF X
  <2>3. Len(todo) \in Nat /\ DOMAIN todo = 1..Len(todo) /\ \A i \in 1..Len(todo) : todo[i] \in X
    BY <2>1, ElementOfSeq
  <2> QED BY <2>2, <2>3
<1>4. moved \subseteq Sections
  BY <1>3 DEF Range
<1>5. /\ r.action = action /\ r.todo = todo /\ r.override = override /\ r.old = old
      /\ r.last = last[c] /\ r.state = "sent" /\ Moved(r) = moved
  BY DEF Moved
<1>6. old \in [moved -> Shown] /\ DOMAIN old = moved
  BY <1>2, <1>4
<1>7. r \in Requests
  <2>1. old \in UNION {[S -> Shown] : S \in SUBSET Sections}
    BY <1>4, <1>6
  <2> HIDE DEF old
  <2> QED BY <2>1, <1>2 DEF Requests, Sendable
<1>8. \A s \in moved : r.old[s] = view[c][s]
  BY <1>5
<1> HIDE DEF r, old, moved
<1>9. IsRequest(r) /\ r # None
  BY <1>5, <1>6, <1>7, RoomsAreNotNone DEF IsRequest, Sendable
<1>10. view'[c] = Applied(view[c], todo) /\ request'[c] = r
  BY <1>1, <1>2 DEF StatesOK
<1>11. StatesOK'
  <2>1. view'[c] \in [Sections -> Shown]
    BY <1>2, <1>3, <1>10, AppliedShown
  <2>2. view' = [view EXCEPT ![c] = view'[c]]
    BY <1>1, <1>10
  <2>3. view' \in [Browsers -> [Sections -> Shown]]
    BY <2>1, <2>2, <1>2 DEF StatesOK
  <2>4. request' \in [Browsers -> Requests \union {None}]
    BY <1>1, <1>2, <1>7 DEF StatesOK
  <2>5. changes' \in 0..MaxChanges
    BY <1>1, <1>2, BoardAssumption DEF StatesOK
  <2> QED BY <2>3, <2>4, <2>5, <1>1, <1>2 DEF StatesOK
<1>12. BrowserOK(c)'
  <2>1. \A n : Reached(c, n)' = Reached(c, n)
    BY <1>1 DEF Reached
  <2>2. Reached(c, last[c]) /\ request'[c].last = last'[c]
    BY <1>1, <1>2, <1>5, <1>10 DEF BrowserOK
  <2>3. \A x \in answers'[c] : IsSegment(x.changelog)' /\ (x.reload => x.changelog = <<>>)
    BY <1>1, <1>2 DEF BrowserOK, IsSegment
  <2>4. Reached(c, last[c])'
    BY <2>2, <1>1 DEF Reached
  <2>5. Reached(c, request[c].last)'
    BY <2>2, <2>4 DEF Reached
  <2> QED BY <2>3, <2>4, <2>5, <1>1, <1>9, <1>10 DEF BrowserOK
<1>13. ASSUME NEW s \in Sections, <<c, s>> \notin stale' PROVE PairOK(c, s)'
  <2>1. PairOK(c, s)
    BY <1>1, <1>13 DEF IInv
  <2>2. Stated(c, s)
    BY <1>1 DEF Stated
  <2>3. LogTells(s)' = LogTells(s) /\ \A n : Quiet(s, n)' = Quiet(s, n)
    BY <1>1 DEF LogTells, Quiet
  <2>4. CASE s \in moved
    <3>1. ~Stated(c, s)'
      BY <2>4, <1>5, <1>9, <1>10 DEF Stated
    <3>2. request'[c].old[s] = view[c][s] /\ request'[c].last = last[c]
      BY <2>4, <1>5, <1>8, <1>10
    <3>3. Quiet(s, request[c].last)' => Quiet(s, last[c])
      BY <3>2, <1>1 DEF Quiet
    <3> QED BY <3>1, <3>2, <3>3, <2>1, <2>2, <2>3, <1>1 DEF PairOK
  <2>5. CASE s \notin moved
    <3>1. Stated(c, s)'
      BY <2>5, <1>5, <1>10 DEF Stated
    <3>2. \A k \in DOMAIN todo : todo[k].section # s
      BY <2>5 DEF moved, Range
    <3>3. view'[c][s] = view[c][s]
      BY <3>2, <1>3, <1>10, AppliedFacts
    <3>4. Quiet(s, last[c])' => Quiet(s, last[c])
      BY <1>1 DEF Quiet
    <3> QED BY <3>1, <3>3, <3>4, <2>1, <2>2, <2>3, <1>1 DEF PairOK
  <2> QED BY <2>4, <2>5
<1>14. \A b \in Browsers \ {c} :
           /\ page'[b] = page[b] /\ view'[b] = view[b] /\ last'[b] = last[b]
           /\ request'[b] = request[b] /\ answers'[b] = answers[b]
  BY <1>1, <1>2 DEF StatesOK
<1> QED BY <1>1, <1>11, <1>12, <1>13, <1>14, PageStep

\* The three ways in which a user changes the schedule.
LEMMA PageRequestsStep ==
    ASSUME IInv, NEW c \in Browsers, scheduleSection(c) \/ unscheduleSection(c) \/ swapSections(c)
    PROVE  IInv'
<1>1. /\ view[c] \in [Sections -> Shown]
      /\ \A s \in Sections : view[c][s].room # None => view[c][s] \in Places
  BY StatesFacts DEF Shown
<1>2. ASSUME NEW s \in Sections, NEW p \in Places \union {Nowhere}
      PROVE  To(s, p) \in [section : Sections, place : Places \union {Nowhere}, named : {FALSE}] /\ To(s, p).place = p
  BY DEF To
<1>3. ASSUME NEW u \in [section : Sections, place : Places \union {Nowhere}, named : {FALSE}],
             NEW w \in [section : Sections, place : Places \union {Nowhere}, named : {FALSE}]
      PROVE  /\ <<u>> \in Seq([section : Sections, place : Places \union {Nowhere}, named : {FALSE}])
             /\ <<u, w>> \in Seq([section : Sections, place : Places \union {Nowhere}, named : {FALSE}])
             /\ <<u>> # <<>> /\ <<u, w>> # <<>> /\ Len(<<u>>) = 1 /\ <<u>>[1] = u
  <2> DEFINE X == [section : Sections, place : Places \union {Nowhere}, named : {FALSE}]
  <2>1. u \in X /\ w \in X
    OBVIOUS
  <2> HIDE DEF X
  <2>2. /\ <<u>> \in Seq(X) /\ <<u, w>> \in Seq(X)
        /\ <<u>> # <<>> /\ <<u, w>> # <<>> /\ Len(<<u>>) = 1 /\ <<u>>[1] = u
    BY <2>1
  <2> QED BY <2>2 DEF X
<1>7. CanSend(c)
  BY DEF scheduleSection, unscheduleSection, swapSections
<1>4. CASE scheduleSection(c)
  <2>1. PICK s \in Sections, p \in Places, override \in {c \in Overriders} :
            Send(c, "assignreg", <<To(s, p)>>, override)
    BY <1>4 DEF scheduleSection
  <2> DEFINE u == To(s, p)
             todo == <<u>>
  <2>2. u \in [section : Sections, place : Places \union {Nowhere}, named : {FALSE}] /\ u.place \in Places
    BY <1>2
  <2> HIDE DEF u
  <2>3. Sendable("assignreg", todo, override)
    BY <2>2, <1>3 DEF Sendable
  <2>4. Send(c, "assignreg", todo, override)
    BY <2>1 DEF u
  <2> HIDE DEF todo
  <2> QED BY <2>3, <2>4, <1>7, SendStep
<1>5. CASE unscheduleSection(c)
  <2>1. PICK s \in Sections : Send(c, "deletereg", <<To(s, Nowhere)>>, FALSE)
    BY <1>5 DEF unscheduleSection
  <2> DEFINE u == To(s, Nowhere)
             todo == <<u>>
             override == FALSE
  <2>2. u \in [section : Sections, place : Places \union {Nowhere}, named : {FALSE}]
    BY <1>2
  <2> HIDE DEF u
  <2>3. Sendable("deletereg", todo, override)
    BY <2>2, <1>3 DEF Sendable
  <2>4. Send(c, "deletereg", todo, override)
    BY <2>1 DEF u
  <2> HIDE DEF todo, override
  <2> QED BY <2>3, <2>4, <1>7, SendStep
<1>6. CASE swapSections(c)
  <2>1. PICK s \in Sections, x \in Sections, override \in {c \in Overriders} :
            LET p == view[c][s]
                q == view[c][x]
            IN  /\ p.room # None
                /\ Send(c, "swap", <<To(s, IF q.room = None THEN Nowhere ELSE q), To(x, p)>>, override)
    BY <1>6 DEF swapSections
  <2> DEFINE p == view[c][s]
             q == IF view[c][x].room = None THEN Nowhere ELSE view[c][x]
             u == To(s, q)
             w == To(x, p)
             todo == <<u, w>>
  <2>2. p \in Places \union {Nowhere} /\ q \in Places \union {Nowhere}
    BY <2>1, <1>1
  <2>3. Send(c, "swap", todo, override)
    BY <2>1
  <2> HIDE DEF p, q
  <2>4. /\ u \in [section : Sections, place : Places \union {Nowhere}, named : {FALSE}]
        /\ w \in [section : Sections, place : Places \union {Nowhere}, named : {FALSE}]
    BY <2>2, <1>2
  <2> HIDE DEF u, w
  <2>5. Sendable("swap", todo, override)
    BY <2>4, <1>3 DEF Sendable
  <2> HIDE DEF todo
  <2> QED BY <2>3, <2>5, <1>7, SendStep
<1> QED BY <1>4, <1>5, <1>6

\* An answer arrives, and a page takes back what has failed.
LEMMA AnsweredStep ==
    ASSUME IInv, NEW c \in Browsers, Answered(c)
    PROVE  IInv'
<1> DEFINE r == request[c]
           before == [s \in Sections |-> IF s \in Moved(r) THEN r.old[s] ELSE view[c][s]]
<1>1. /\ r # None /\ r.state # "sent"
      /\ request' = [request EXCEPT ![c] = None]
      /\ UNCHANGED <<db, log, page, last, answers, computed, changes, overridden>>
      /\ \/ r.state = "done" /\ UNCHANGED <<view, stale>>
         \/ /\ r.state # "done"
            /\ view' = [view EXCEPT ![c] = before]
            /\ stale' = IF last[c] = r.last THEN stale ELSE stale \union ({c} \X Moved(r))
  BY DEF Answered, Moved
<1>2. /\ StatesOK /\ view[c] \in [Sections -> Shown] /\ last[c] \in Nat /\ BrowserOK(c)
  BY StatesFacts
<1>3. IsRequest(r) /\ Moved(r) \subseteq Sections /\ r.old \in [Moved(r) -> Shown]
  BY <1>1, <1>2, RequestFacts DEF BrowserOK
<1>4. before \in [Sections -> Shown]
  BY <1>2, <1>3
<1>5. \A s \in Sections : before[s] = IF s \in Moved(r) THEN r.old[s] ELSE view[c][s]
  OBVIOUS
<1> HIDE DEF before
<1>6. request'[c] = None
  BY <1>1, <1>2 DEF StatesOK
<1>7. r.state # "done" => view'[c] = before
  BY <1>1, <1>2 DEF StatesOK
<1>8. stale \subseteq stale' /\ stale' \subseteq stale \union ({c} \X Moved(r))
  BY <1>1
<1>9. StatesOK'
  <2>1. view' \in [Browsers -> [Sections -> Shown]]
    BY <1>1, <1>2, <1>4 DEF StatesOK
  <2>2. request' \in [Browsers -> Requests \union {None}]
    BY <1>1, <1>2 DEF StatesOK
  <2>3. stale' \subseteq Browsers \X Sections
    BY <1>2, <1>3, <1>8 DEF StatesOK
  <2> QED BY <2>1, <2>2, <2>3, <1>1, <1>2 DEF StatesOK
<1>10. BrowserOK(c)'
  BY <1>1, <1>2, <1>6 DEF BrowserOK, IsSegment, Reached
<1>11. ASSUME NEW s \in Sections, <<c, s>> \notin stale' PROVE PairOK(c, s)'
  <2>1. PairOK(c, s)
    BY <1>8, <1>11 DEF IInv
  <2>2. Stated(c, s)' /\ page[c] # "opening" /\ page' = page
    BY <1>1, <1>2, <1>6 DEF Stated, BrowserOK
  <2>3. LogTells(s)' = LogTells(s) /\ Quiet(s, last[c])' = Quiet(s, last[c]) /\ Place(db, s)' = Place(db, s)
    BY <1>1 DEF LogTells, Quiet
  <2>4. ASSUME page[c] = "open", Quiet(s, last[c]) PROVE view'[c][s] = Place(db, s)
    <3>1. CASE r.state = "done"
      <4>1. Stated(c, s) /\ view' = view
        BY <3>1, <1>1 DEF Stated
      <4> QED BY <4>1, <2>1, <2>4 DEF PairOK
    <3>2. CASE r.state # "done" /\ s \in Moved(r)
      <4>1. last[c] = r.last
        BY <3>2, <1>1, <1>11
      <4>2. ~Stated(c, s)
        BY <3>2, <1>1 DEF Stated
      <4>3. r.old[s] = Place(db, s)
        BY <4>1, <4>2, <2>1, <2>4 DEF PairOK
      <4> QED BY <3>2, <4>3, <1>5, <1>7
    <3>3. CASE r.state # "done" /\ s \notin Moved(r)
      <4>1. Stated(c, s)
        BY <3>3 DEF Stated
      <4>2. view[c][s] = Place(db, s)
        BY <4>1, <2>1, <2>4 DEF PairOK
      <4> QED BY <3>3, <4>2, <1>5, <1>7
    <3> QED BY <3>1, <3>2, <3>3
  <2> QED BY <2>1, <2>2, <2>3, <2>4 DEF PairOK
<1>12. \A b \in Browsers \ {c} :
           /\ page'[b] = page[b] /\ view'[b] = view[b] /\ last'[b] = last[b]
           /\ request'[b] = request[b] /\ answers'[b] = answers[b]
  BY <1>1, <1>2 DEF StatesOK
<1> QED BY <1>1, <1>8, <1>9, <1>10, <1>11, <1>12, PageStep

\* What is left of the log when the first entries are deleted.
IsPruned(l, n) == l = SubSeq(log, n + 1, Len(log))

\* The first entries of the log are deleted.
LEMMA PrunedLog ==
    ASSUME IsLog(log), NEW n \in 0..Len(log), NEW l, IsPruned(l, n)
    PROVE  /\ IsLog(l) /\ DOMAIN l = 1..Len(l) /\ Len(l) \in Nat /\ Len(log) \in Nat /\ DOMAIN log = 1..Len(log)
           /\ \A i \in DOMAIN l : i + n \in DOMAIN log /\ l[i] = log[i + n]
           /\ \A k \in DOMAIN log : k \in 1..n \/ (k - n \in DOMAIN l /\ log[k] = l[k - n])
           /\ n = 0 => l = log
<1>1. log \in Seq(LogEntry) /\ Len(log) \in Nat /\ DOMAIN log = 1..Len(log)
  BY DEF IsLog
<1>2. \A i \in 1..Len(log) : log[i] \in LogEntry
  BY <1>1, ElementOfSeq
<1>3. n + 1 \in 1..(Len(log) + 1) /\ n \in Nat
  BY <1>1
<1> DEFINE m == n + 1
<1>4. m \in 1..(Len(log) + 1) /\ l = SubSeq(log, m, Len(log)) /\ \A i \in m..Len(log) : log[i] \in LogEntry
  BY <1>1, <1>2, <1>3 DEF IsPruned
<1> HIDE DEF m
<1>5. l \in Seq(LogEntry) /\ Len(l) = (Len(log) - m) + 1 /\ \A i \in 1..Len(l) : l[i] = log[m + i - 1]
  <2> DEFINE h == Len(log)
  <2>1. h \in Int /\ m \in Int /\ m <= h + 1 /\ l = SubSeq(log, m, h) /\ \A i \in m..h : log[i] \in LogEntry
    BY <1>1, <1>4
  <2> HIDE DEF h
  <2>2. /\ l \in Seq(LogEntry)
        /\ Len(l) = IF m <= h THEN h - m + 1 ELSE 0
        /\ \A i \in 1..(h - m + 1) : l[i] = log[m + i - 1]
    BY <2>1, SubSeqProperties
  <2>3. Len(l) = h - m + 1
    BY <2>1, <2>2
  <2> QED BY <2>2, <2>3 DEF h
<1>6. Len(l) = Len(log) - n /\ Len(l) \in Nat /\ DOMAIN l = 1..Len(l)
  <2>1. Len(l) \in Nat /\ DOMAIN l = 1..Len(l)
    BY <1>5
  <2>2. (Len(log) - m) + 1 = Len(log) - n
    BY <1>1, <1>3 DEF m
  <2> QED BY <2>1, <2>2, <1>5
<1>7. ASSUME NEW i \in DOMAIN l PROVE i + n \in DOMAIN log /\ l[i] = log[i + n]
  <2>1. m + i - 1 = i + n /\ i + n \in 1..Len(log)
    BY <1>1, <1>3, <1>6 DEF m
  <2> QED BY <2>1, <1>1, <1>5, <1>6
<1>8. ASSUME NEW k \in DOMAIN log, k \notin 1..n PROVE k - n \in DOMAIN l /\ log[k] = l[k - n]
  <2>1. k \in 1..Len(log) /\ k > n
    BY <1>1, <1>3, <1>8
  <2>2. k - n \in 1..Len(l) /\ (k - n) + n = k
    BY <2>1, <1>1, <1>3, <1>6
  <2> QED BY <2>2, <1>6, <1>7
<1>9. Consecutive(l)
  <2> SUFFICES ASSUME NEW i \in DOMAIN l, NEW j \in DOMAIN l PROVE l[i].index + j = l[j].index + i
    BY DEF Consecutive
  <2>1. log[i + n].index + (j + n) = log[j + n].index + (i + n)
    BY <1>7 DEF IsLog, Consecutive
  <2>2. log[i + n].index \in Nat /\ log[j + n].index \in Nat /\ i \in Nat /\ j \in Nat
    BY <1>2, <1>1, <1>6, <1>7 DEF LogEntry
  <2> DEFINE p == log[i + n].index
             q == log[j + n].index
  <2>4. p + (j + n) = q + (i + n) /\ p \in Nat /\ q \in Nat
    BY <2>1, <2>2
  <2> HIDE DEF p, q
  <2>5. i \in Nat /\ j \in Nat
    BY <2>2
  <2>6. \A x, y, u, w \in Nat : x + (y + n) = u + (w + n) => x + y = u + w
    BY <1>3
  <2>7. p + j = q + i
    BY <2>4, <2>5, <2>6
  <2>3. log[i + n].index + j = log[j + n].index + i
    BY <2>7 DEF p, q
  <2> QED BY <2>3, <1>7
<1>10. n = 0 => l = log
  <2> SUFFICES ASSUME n = 0 PROVE l = log
    OBVIOUS
  <2>1. Len(l) = Len(log)
    BY <1>1, <1>6
  <2>2. \A i \in 1..Len(l) : l[i] = log[i]
    BY <2>1, <1>1, <1>6, <1>7
  <2> QED BY <2>1, <2>2, <1>1, <1>5, SeqEqual
<1> QED BY <1>1, <1>5, <1>6, <1>7, <1>8, <1>9, <1>10 DEF IsLog

\* A page is opened or loaded again.
LEMMA OpenStep ==
    ASSUME IInv, NEW c \in Browsers, Open(c)
    PROVE  IInv'
<1> DEFINE fresh == [s \in Sections |-> Place(db, s)]
<1>1. PICK n \in 0..Len(log) :
          /\ n > 0 => \A b \in Browsers : page[b] # "opening" /\ request[b] = None /\ answers[b] = {}
          /\ log' = SubSeq(log, n + 1, Len(log))
          /\ stale' = {p \in stale \union Unseen(n) : p[1] # c}
                      \union ({c} \X {s \in Sections : Applied(fresh, log')[s] # fresh[s]})
  BY DEF Open
<1>2. /\ request[c] = None
      /\ page' = [page EXCEPT ![c] = "opening"]
      /\ view' = [view EXCEPT ![c] = fresh]
      /\ last' = [last EXCEPT ![c] = 0]
      /\ answers' = [answers EXCEPT ![c] = {}]
      /\ UNCHANGED <<db, request, computed, changes, overridden>>
  BY DEF Open
<1>3. StatesOK /\ IsLog(log) /\ IsSchedule(db) /\ TeachersOK(db, overridden) /\ ComputedOK
  BY DEF IInv
<1>4. /\ IsLog(log') /\ DOMAIN log' = 1..Len(log') /\ Len(log') \in Nat /\ Len(log) \in Nat /\ DOMAIN log = 1..Len(log)
      /\ \A i \in DOMAIN log' : i + n \in DOMAIN log /\ log'[i] = log[i + n]
      /\ \A k \in DOMAIN log : k \in 1..n \/ (k - n \in DOMAIN log' /\ log[k] = log'[k - n])
      /\ n = 0 => log' = log
  <2>1. IsPruned(log', n)
    BY <1>1 DEF IsPruned
  <2> QED BY <2>1, <1>3, PrunedLog
<1>5. fresh \in [Sections -> Shown] /\ \A s \in Sections : fresh[s] = Place(db, s)
  BY <1>3, PlaceShown
<1>6. \A b \in Browsers, s \in Sections : <<b, s>> \notin stale' /\ b # c => <<b, s>> \notin stale /\ <<b, s>> \notin Unseen(n)
  BY <1>1
<1>7. \A s \in Sections : <<c, s>> \notin stale' => Applied(fresh, log')[s] = fresh[s]
  BY <1>1
<1>8. stale' \subseteq Browsers \X Sections
  BY <1>1, <1>3 DEF StatesOK, Unseen
<1> HIDE DEF fresh
<1>9. page'[c] = "opening" /\ view'[c] = fresh /\ last'[c] = 0 /\ answers'[c] = {} /\ request'[c] = None
  BY <1>2, <1>3 DEF StatesOK
<1>10. \A b \in Browsers \ {c} :
           /\ page'[b] = page[b] /\ view'[b] = view[b] /\ last'[b] = last[b]
           /\ request'[b] = request[b] /\ answers'[b] = answers[b]
  BY <1>2, <1>3 DEF StatesOK
<1>11. IsSchedule(db') /\ TeachersOK(db', overridden') /\ ComputedOK'
  BY <1>2, <1>3 DEF ComputedOK
<1>12. StatesOK'
  <2>1. view' \in [Browsers -> [Sections -> Shown]]
    BY <1>2, <1>3, <1>5 DEF StatesOK
  <2>2. last' \in [Browsers -> Nat] /\ page' \in [Browsers -> {"closed", "opening", "open", "stopped"}]
    BY <1>2, <1>3 DEF StatesOK
  <2>3. answers' \in [Browsers -> SUBSET Answers]
    BY <1>2, <1>3 DEF StatesOK
  <2> QED BY <2>1, <2>2, <2>3, <1>2, <1>3, <1>8 DEF StatesOK
<1>13. BrowserOK(c)'
  <2>1. get_latest_index(log') \in Nat
    BY <1>4, LatestIndex
  <2>2. Reached(c, last[c])'
    BY <2>1, <1>9 DEF Reached
  <2> QED BY <2>2, <1>9 DEF BrowserOK
<1>14. ASSUME NEW s \in Sections, <<c, s>> \notin stale' PROVE PairOK(c, s)'
  <2>1. ASSUME NEW k \in DOMAIN log', IsLast(log', s, k) PROVE Read(log'[k]) = Place(db', s)
    <3>1. Applied(fresh, log')[s] = Read(log'[k])
      BY <2>1, <1>4, AppliedFacts
    <3> QED BY <3>1, <1>2, <1>5, <1>7, <1>14
  <2>2. LogTells(s)'
    BY <2>1 DEF LogTells
  <2> QED BY <2>2, <1>2, <1>5, <1>9 DEF PairOK
<1>15. ASSUME NEW b \in Browsers \ {c}
       PROVE  BrowserOK(b)' /\ \A s \in Sections : <<b, s>> \notin stale' => PairOK(b, s)'
  <2>1. BrowserOK(b) /\ \A s \in Sections : <<b, s>> \notin stale => PairOK(b, s)
    BY DEF IInv
  <2>2. CASE n = 0
    <3>1. BrowserOK(b)' /\ \A s \in Sections : PairOK(b, s) => PairOK(b, s)'
      BY <2>1, <2>2, <1>2, <1>4, <1>10, OtherPage
    <3> QED BY <3>1, <2>1, <1>6
  <2>3. CASE n > 0
    <3>1. page'[b] = page[b] /\ page[b] # "opening" /\ request'[b] = None /\ request[b] = None
          /\ answers'[b] = {} /\ last'[b] = last[b] /\ last[b] \in Nat
      BY <2>3, <1>1, <1>3, <1>10 DEF StatesOK
    <3>2. BrowserOK(b)'
      BY <3>1 DEF BrowserOK, Reached
    <3>3. ASSUME NEW s \in Sections, <<b, s>> \notin stale' PROVE PairOK(b, s)'
      <4>1. PairOK(b, s) /\ <<b, s>> \notin Unseen(n)
        BY <3>3, <2>1, <1>6
      <4>2. CASE page[b] # "open"
        BY <4>2, <3>1 DEF PairOK
      <4>3. CASE page[b] = "open"
        <5>1. LogTells(s)'
          <6> SUFFICES ASSUME NEW k \in DOMAIN log', IsLast(log', s, k) PROVE Read(log'[k]) = Place(db, s)
            BY <1>2 DEF LogTells
          <6>1. k + n \in DOMAIN log /\ log'[k] = log[k + n] /\ k \in Nat /\ k >= 1 /\ n \in Nat
            BY <1>4
          <6>2. ASSUME NEW j \in DOMAIN log, log[j].section = s PROVE j <= k + n
            <7>1. CASE j \in 1..n
              BY <7>1, <6>1
            <7>2. CASE j - n \in DOMAIN log' /\ log[j] = log'[j - n]
              <8>1. j - n <= k
                BY <7>2, <6>2 DEF IsLast
              <8> QED BY <8>1, <6>1, <1>4
            <7> QED BY <7>1, <7>2, <1>4
          <6> DEFINE m == k + n
          <6>3. m \in DOMAIN log /\ log[m].section = s /\ \A j \in DOMAIN log : log[j].section = s => j <= m
            BY <6>1, <6>2 DEF IsLast
          <6> HIDE DEF m
          <6>4. Read(log[m]) = Place(db, s)
            BY <6>3, <4>1, <4>3 DEF PairOK, LogTells, IsLast
          <6> QED BY <6>1, <6>4 DEF m
        <5>2. Quiet(s, last[b])' => Quiet(s, last[b])
          <6> SUFFICES ASSUME Quiet(s, last[b])', NEW k \in DOMAIN log, log[k].section = s
                       PROVE  log[k].index <= last[b]
            BY DEF Quiet
          <6>1. CASE k \in 1..n
            <7>1. ~(log[k].index > last[b])
              BY <6>1, <4>1, <4>3 DEF Unseen
            <7>2. log[k].index \in Nat
              BY <1>3, LatestIndex
            <7> QED BY <7>1, <7>2, <3>1
          <6>2. CASE k - n \in DOMAIN log' /\ log[k] = log'[k - n]
            BY <6>2, <3>1 DEF Quiet
          <6> QED BY <6>1, <6>2, <1>4
        <5>3. Stated(b, s) /\ Stated(b, s)'
          BY <3>1 DEF Stated
        <5> QED BY <5>1, <5>2, <5>3, <4>1, <4>3, <3>1, <1>2, <1>10 DEF PairOK
      <4> QED BY <4>2, <4>3
    <3> QED BY <3>2, <3>3
  <2> QED BY <2>2, <2>3, <1>4
<1>16. \A b \in Browsers : BrowserOK(b)'
  BY <1>13, <1>15
<1>17. \A b \in Browsers, s \in Sections : <<b, s>> \notin stale' => PairOK(b, s)'
  BY <1>14, <1>15
<1> QED BY <1>4, <1>11, <1>12, <1>16, <1>17 DEF IInv

-----------------------------------------------------------------------------
(* The invariant holds.                                                     *)

\* A board to begin with, and no pages.
LEMMA InitInvariant == Init => IInv
<1> SUFFICES ASSUME Init PROVE IInv
  OBVIOUS
<1>1. /\ db \in Boards /\ log = <<>>
      /\ page = [b \in Browsers |-> "closed"]
      /\ view = [b \in Browsers |-> [s \in Sections |-> Nowhere]]
      /\ last = [b \in Browsers |-> 0]
      /\ request = [b \in Browsers |-> None]
      /\ answers = [b \in Browsers |-> {}]
      /\ computed = None /\ changes = 0 /\ stale = {}
  BY DEF Init
<1>2. IsSchedule(db) /\ TeacherConflicts(db, Sections) = {} /\ MaxChanges \in Nat
  BY <1>1, BoardAssumption
<1>3. TeachersOK(db, overridden)
  <2> SUFFICES ASSUME NEW s \in Sections, NEW x \in Sections, s # x, NEW t \in TaughtBy[s], t \in TaughtBy[x]
               PROVE  db.times[s] \intersect db.times[x] = {}
    BY DEF TeachersOK
  <2>1. db.times[s] \intersect Teaching(db, t, s) = {}
    BY <1>2 DEF TeacherConflicts
  <2>2. db.times[x] \subseteq Teaching(db, t, s)
    BY DEF Teaching
  <2> QED BY <2>1, <2>2
<1>4. IsLog(log) /\ get_latest_index(log) = 0
  <2>1. log \in Seq(LogEntry) /\ DOMAIN log = {}
    BY <1>1
  <2> QED BY <2>1, <1>1 DEF IsLog, Consecutive, get_latest_index
<1>5. StatesOK
  <2>1. Nowhere \in Shown
    BY DEF Nowhere, Shown
  <2> QED BY <2>1, <1>1, <1>2 DEF StatesOK
<1>6. \A b \in Browsers : BrowserOK(b)
  BY <1>1, <1>4 DEF BrowserOK, Reached
<1>7. \A b \in Browsers, s \in Sections : PairOK(b, s)
  BY <1>1 DEF PairOK
<1>8. ComputedOK
  BY <1>1 DEF ComputedOK
<1> QED BY <1>2, <1>3, <1>4, <1>5, <1>6, <1>7, <1>8 DEF IInv

\* One step of whoever it may be.
LEMMA NextInvariant == IInv /\ [Next]_vars => IInv'
<1> SUFFICES ASSUME IInv, [Next]_vars PROVE IInv'
  OBVIOUS
<1>1. ASSUME NEW b \in Browsers, Open(b) PROVE IInv'
  BY <1>1, OpenStep
<1>2. ASSUME NEW b \in Browsers, LastChanged(b) PROVE IInv'
  BY <1>2, LastChangedStep
<1>3. ASSUME NEW b \in Browsers, getChanges(b) PROVE IInv'
  BY <1>3, GetChangesStep
<1>4. ASSUME NEW b \in Browsers, applyChangeLog(b) PROVE IInv'
  BY <1>4, ApplyChangeLogStep
<1>5. ASSUME NEW b \in Browsers, scheduleSection(b) \/ unscheduleSection(b) \/ swapSections(b) PROVE IInv'
  BY <1>5, PageRequestsStep
<1>6. ASSUME NEW b \in Browsers, Handle(b) PROVE IInv'
  BY <1>6, HandleStep
<1>7. ASSUME NEW b \in Browsers, Answered(b) PROVE IInv'
  BY <1>7, AnsweredStep
<1>8. CASE ClearSchedule
  BY <1>8, ClearScheduleStep
<1>9. CASE autoscheduler_execute
  BY <1>9, ExecuteStep
<1>10. CASE autoscheduler_save
  BY <1>10, SaveStep
<1>11. CASE UNCHANGED vars
  <2>1. UNCHANGED <<db, log, page, view, last, request, answers, overridden, stale>> /\ UNCHANGED <<computed, changes>>
    BY <1>11 DEF vars
  <2>2. ComputedOK' /\ changes' \in 0..MaxChanges
    BY <2>1 DEF IInv, ComputedOK, StatesOK
  <2> QED BY <2>1, <2>2, NoStep
<1> QED BY <1>1, <1>2, <1>3, <1>4, <1>5, <1>6, <1>7, <1>8, <1>9, <1>10, <1>11 DEF Next

\* The invariant, for all the boards, browsers and numbers of polls.
THEOREM InvariantHolds == Spec => []IInv
<1>1. Init => IInv
  BY InitInvariant
<1>2. IInv /\ [Next]_vars => IInv'
  BY NextInvariant
<1> QED BY <1>1, <1>2, PTL DEF Spec

\* The invariant contains the types.
LEMMA InvariantImpliesType == IInv => TypeOK
<1> SUFFICES ASSUME IInv PROVE TypeOK
  OBVIOUS
<1>1. log \in Seq(LogEntry) /\ Consecutive(log) /\ Len(log) \in Nat /\ DOMAIN log = 1..Len(log)
  BY DEF IInv, IsLog
<1>2. ASSUME NEW i \in 1..(Len(log) - 1) PROVE log[i + 1].index = log[i].index + 1
  <2>1. i \in Nat /\ i \in DOMAIN log /\ i + 1 \in DOMAIN log
    BY <1>1
  <2> DEFINE p == log[i].index
             q == log[i + 1].index
             j == i + 1
  <2>2. p + j = q + i
    BY <2>1, <1>1 DEF Consecutive
  <2>3. p \in Nat /\ q \in Nat
    BY <2>1, LatestIndex DEF IInv
  <2> HIDE DEF p, q
  <2>4. q = p + 1
    BY <2>1, <2>2, <2>3
  <2> QED BY <2>4 DEF p, q
<1>3. \A b \in Browsers : \A a \in answers[b] : a.reload => a.changelog = <<>>
  BY DEF IInv, BrowserOK
<1> QED BY <1>1, <1>2, <1>3 DEF IInv, StatesOK, TypeOK

\* The indices of the change log increase by one, however often it is emptied
\* from the front and whoever appends to it.
THEOREM TypeCorrect == Spec => []TypeOK
BY InvariantHolds, InvariantImpliesType, PTL

\* The checks of ajax_schedule_class and of save() let no room be used twice
\* and no teacher teach twice, unless somebody has switched the override on.
THEOREM NeverDoubleBooked == Spec => []NoDoubleBooking
<1>1. IInv => NoDoubleBooking
  BY InvariantImpliesType DEF IInv, IsSchedule, TeachersOK, NoDoubleBooking
<1> QED BY <1>1, InvariantHolds, PTL

\* A page that has applied the whole change log shows where a section is, if
\* nothing that is known to go wrong has happened to the two.
THEOREM PagesStayInStep == Spec => []InStep
<1>1. IInv => InStep
  <2> SUFFICES ASSUME IInv, NEW b \in Browsers, UpToDate(b), NEW s \in Sections, <<b, s>> \notin stale
               PROVE  view[b][s] = Place(db, s)
    BY DEF InStep
  <2>1. page[b] = "open" /\ request[b] = None /\ last[b] = get_latest_index(log) /\ PairOK(b, s) /\ IsLog(log)
    BY DEF UpToDate, IInv
  <2>2. Quiet(s, last[b])
    BY <2>1, LatestIndex DEF Quiet
  <2>3. Stated(b, s)
    BY <2>1 DEF Stated
  <2> QED BY <2>1, <2>2, <2>3 DEF PairOK
<1> QED BY <1>1, InvariantHolds, PTL

\* The only step that ends a computation is the save, which finds the sections
\* where they were, and leaves all others where they are.
LEMMA SaveIsSound ==
    ASSUME IInv, Next, computed # None, computed' = None, db' # db, NEW s \in Sections
    PROVE  IF s \in DOMAIN computed.wanted
           THEN Place(db, s) = computed.initial[s] /\ Place(db', s) = computed.wanted[s]
           ELSE Place(db', s) = Place(db, s)
<1>1. autoscheduler_save
  <2>1. ASSUME NEW b \in Browsers, Open(b) \/ LastChanged(b) \/ getChanges(b) \/ applyChangeLog(b) PROVE computed' = computed
    BY <2>1 DEF Open, LastChanged, getChanges, applyChangeLog
  <2>2. ASSUME NEW b \in Browsers, scheduleSection(b) \/ unscheduleSection(b) \/ swapSections(b) PROVE computed' = computed
    BY <2>2 DEF scheduleSection, unscheduleSection, swapSections, Send
  <2>3. ASSUME NEW b \in Browsers, Handle(b) \/ Answered(b) PROVE computed' = computed
    BY <2>3 DEF Handle, Answered
  <2>4. ClearSchedule => computed' = computed
    BY DEF ClearSchedule
  <2>5. ~autoscheduler_execute
    BY DEF autoscheduler_execute
  <2> QED BY <2>1, <2>2, <2>3, <2>4, <2>5 DEF Next
<1>2. /\ computed.wanted \in Plans /\ computed.initial \in [DOMAIN computed.wanted -> Shown]
      /\ IsSchedule(db) /\ IsLog(log) /\ TeachersOK(db, overridden)
  BY DEF IInv, ComputedOK
<1> DEFINE wanted == computed.wanted
<1>3. PICK order \in SetToSeqs(DOMAIN wanted) :
          LET v == save(wanted, order)
          IN  ~SectionMoved(computed) /\ v.ret /\ Commit(v)
  BY <1>1 DEF autoscheduler_save
<1> DEFINE v == save(wanted, order)
           M == DOMAIN wanted
<1>4. ~SectionMoved(computed) /\ v.ret /\ db' = v.db
  BY <1>3 DEF Commit
<1>5. wanted \in Plans /\ order \in SetToSeqs(DOMAIN wanted)
  BY <1>2
<1>6. s \in M => Hash(db, s) = HashOfPlace(computed.initial[s]) /\ computed.initial[s] \in Shown
  BY <1>2, <1>4 DEF SectionMoved
<1>7. s \in M => Place(db, s) = computed.initial[s]
  BY <1>2, <1>6, HashTellsPlace
<1> HIDE DEF wanted
<1>8. v \in GoodServers(DOMAIN wanted, NoWish, overridden) /\ \A x \in DOMAIN wanted : Place(v.db, x) = wanted[x]
  BY <1>2, <1>4, <1>5, SaveGood
<1>9. Served(v, M, NoWish)
  BY <1>8, GoodFacts
<1> HIDE DEF v
<1>10. s \notin M => Place(v.db, s) = Place(db, s)
  BY <1>9, SamePlace DEF Served
<1> QED BY <1>4, <1>7, <1>8, <1>10 DEF wanted

\* save() does all or nothing, it undoes no change made since the computation
\* and moves no other section.
THEOREM SavesAreSound == Spec => SaveSound
<1> DEFINE P == computed # None /\ computed' = None /\ db' # db =>
                    \A s \in Sections :
                        IF s \in DOMAIN computed.wanted
                        THEN Place(db, s) = computed.initial[s] /\ Place(db', s) = computed.wanted[s]
                        ELSE Place(db', s) = Place(db, s)
<1>1. IInv /\ [Next]_vars => [P]_vars
  BY SaveIsSound
<1> HIDE DEF P
<1>2. Spec => [][P]_vars
  BY <1>1, InvariantHolds, PTL DEF Spec
<1> QED BY <1>2 DEF P, SaveSound
=============================================================================
