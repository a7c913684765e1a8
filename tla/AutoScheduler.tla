---------------------------- MODULE AutoScheduler ----------------------------
(***************************************************************************)
(* The scheduling assistant (program/controllers/autoscheduler): the        *)
(* schedule in memory and its constraints (data_model.py, constraints.py),  *)
(* the operations that change it and can be undone (manipulator.py), and    *)
(* the depth-limited search for a better place for one section (search.py). *)
(*                                                                          *)
(* One process computes.  A roomslot is a room and a timeslot; timeslots    *)
(* are numbered in order of time and do not overlap (consistency_checks.py).*)
(* The score is a sum over the sections of any value for where they start;  *)
(* it only chooses between attempts.  The clock may pass the timeout at any *)
(* moment.  swap_sections, which the search does not use, is covered by its *)
(* check.                                                                   *)
(***************************************************************************)
EXTENDS Integers, Sequences, FiniteSets, FiniteSetsExt, SequencesExt

CONSTANTS
    Rooms, Sections, Teachers,
    Slots,          \* sequence of the roomslots <<room, time>>, as the search visits them
    Start, End,     \* of the timeslots 1..n, in minutes
    Lunches,        \* for every day the set of its lunch timeslots
    Duration,       \* of the sections, in minutes
    TaughtBy,
    Declared,       \* when the teachers are available
    Allowed,        \* pairs <<section, room>> that satisfy the resource criteria
    Value(_, _),    \* what a section that starts in a roomslot adds to the score
    Loaded,         \* the schedules that may be loaded
    Targets,        \* the sections that may be optimized
    Depth

ASSUME SchedulerAssumption ==
    /\ IsFiniteSet(Sections) /\ Targets \subseteq Sections /\ Depth \in Nat \ {0}
    /\ Start \in Seq(Int) /\ End \in Seq(Int) /\ DOMAIN End = DOMAIN Start
    /\ Slots \in Seq(Rooms \X DOMAIN Start)
    /\ \A s \in Sections : Duration[s] \in Int /\ \A r \in Range(Slots) : Value(s, r) \in Int
    /\ \A a \in Loaded : a \in [Sections -> SUBSET Range(Slots)]
    /\ \A t, u \in DOMAIN Start : Start[t] < End[t] /\ (t < u => End[t] <= Start[u])

\* DELTA_TIME, 0.34 hours, and the tolerance of contiguous(), in minutes.
Delta == 20
Tolerance == 20

None == <<>>

VARIABLES
    loaded,      \* the schedule as loaded
    assigned,    \* assigned_roomslots of every section
    history,     \* the actions that have been done
    stack,       \* the calls of optimize_section
    returned,    \* what the last call has returned
    late         \* the timeout has passed

vars == <<loaded, assigned, history, stack, returned, late>>

-----------------------------------------------------------------------------
(* The data model.                                                          *)

TimesOf(slots) == {r[2] : r \in slots}
First(slots) == CHOOSE r \in slots : \A q \in slots : r[2] <= q[2]
RoomTimes(room) == {r[2] : r \in {q \in Range(Slots) : q[1] = room}}

\* get_roomslots_by_duration: the roomslots of the room from r on, up to the
\* first at which the duration is covered.
RoomslotsFor(s, r) ==
    LET following == {t \in RoomTimes(r[1]) : t >= r[2]}
        Covers(t) == Duration[s] - (End[t] - Start[r[2]]) <= Delta
    IN  {r[1]} \X {t \in following : \A u \in following : u < t => ~Covers(u)}

IsScheduled(a, s) == a[s] # {}

\* The section is in the roomslots that its first one stands for.
InOneBlock(a, s) ==
    IsScheduled(a, s) => /\ First(a[s]) \in Range(Slots)
                         /\ a[s] = RoomslotsFor(s, First(a[s]))

\* The scheduling pages, from which sections are loaded, put them into the
\* timeslots from a first one on, until the duration is covered
\* (get_timeslots_to_schedule_section): undo() relies on it.
ASSUME LoadedAssumption == \A a \in Loaded : \A s \in Sections : InOneBlock(a, s)

\* The section in roomslot r, if any.
Occupants(a, r) == {s \in Sections : r \in a[s]}

\* A teacher is available at the times of the sections that were loaded, too.
Available(t) == Declared[t] \union UNION {TimesOf(loaded[s]) : s \in {x \in Sections : t \in TaughtBy[x]}}

Teaching(a, t) == UNION {TimesOf(a[s]) : s \in {x \in Sections : t \in TaughtBy[x]}}

-----------------------------------------------------------------------------
(* The constraints: what check_schedule asks of a whole schedule.           *)

ContiguousTimes(T) ==
    \A t, u \in T : t < u /\ (\A v \in T : ~(t < v /\ v < u)) => Start[u] - End[t] < Tolerance

SpanOf(T) == End[Max(T)] - Start[Min(T)]

RightLength(s, T) == SpanOf(T) - Duration[s] \in -Delta..Delta

OverLunch(T) == \E L \in Lunches : Start[Min(T)] <= Start[Min(L)] /\ End[Max(T)] >= End[Max(L)]

\* ContiguousConstraint, SectionDurationConstraint, TeacherAvailabilityConstraint
\* and TeacherConcurrencyConstraint; the other required constraints accept
\* every schedule, and the optional ones are not asked about it.
CheckSchedule(a) ==
    /\ \A s \in Sections : IsScheduled(a, s) =>
           /\ Cardinality({r[1] : r \in a[s]}) = 1
           /\ ContiguousTimes(TimesOf(a[s]))
           /\ RightLength(s, TimesOf(a[s]))
           /\ \A t \in TaughtBy[s] : TimesOf(a[s]) \subseteq Available(t)
    /\ \A s, x \in Sections : s # x /\ TaughtBy[s] \intersect TaughtBy[x] # {} =>
           TimesOf(a[s]) \intersect TimesOf(a[x]) = {}

\* The consistency checks know one section for every roomslot.
NoDoubleBooking(a) == \A s, x \in Sections : s # x => a[s] \intersect a[x] = {}

\* What is asked of a schedule that is loaded or saved.
Valid(a) == CheckSchedule(a) /\ NoDoubleBooking(a)

\* What the constraints ask of a section that would get the given roomslots.
\* RoomConcurrencyConstraint: nobody else is in them.
RoomsFree(a, s, slots) == \A q \in slots : Occupants(a, q) \subseteq {s}

\* TeacherAvailabilityConstraint: the teachers are not asked about the times
\* that the section has already.
TeachersAvailable(a, s, T) == \A t \in TaughtBy[s] : T \subseteq Available(t) \union TimesOf(a[s])

\* TeacherConcurrencyConstraint: nor do these times count as busy.
TeachersFree(a, s, T) == \A t \in TaughtBy[s] : T \intersect (Teaching(a, t) \ TimesOf(a[s])) = {}

\* ResourceCriteriaConstraint.
RoomSuits(s, slots) == <<s, First(slots)[1]>> \in Allowed

\* All of them but the one about the room.
Fits(a, s, slots) ==
    LET T == TimesOf(slots)
    IN  /\ ContiguousTimes(T) /\ RightLength(s, T) /\ ~OverLunch(T)
        /\ RoomSuits(s, slots)
        /\ TeachersAvailable(a, s, T) /\ TeachersFree(a, s, T)

CheckScheduleSection(a, s, r) ==
    /\ ~IsScheduled(a, s)
    /\ Fits(a, s, RoomslotsFor(s, r))
    /\ RoomsFree(a, s, RoomslotsFor(s, r))

\* check_move_section that would not look who is in the roomslots.
CheckMoveSectionBlindly(a, s, r) == IsScheduled(a, s) /\ Fits(a, s, RoomslotsFor(s, r))

CheckMoveSection(a, s, r) ==
    /\ IsScheduled(a, s)
    /\ Fits(a, s, RoomslotsFor(s, r))
    /\ RoomsFree(a, s, RoomslotsFor(s, r))

CheckUnscheduleSection(a, s) == IsScheduled(a, s)

\* check_swap_sections that would ask only the teachers of the first section.
CheckSwapSectionsOneWay(a, s, x) ==
    /\ IsScheduled(a, s) /\ IsScheduled(a, x)
    /\ Duration[s] = Duration[x]
    /\ Cardinality(a[s]) = Cardinality(a[x])
    /\ TeachersAvailable(a, s, TimesOf(a[x])) /\ TeachersFree(a, s, TimesOf(a[x]))

\* Lunch is not looked at; the criteria for resources are left out, for their
\* check fails on a missing argument.
CheckSwapSections(a, s, x) ==
    /\ IsScheduled(a, s) /\ IsScheduled(a, x)
    /\ Duration[s] = Duration[x]
    /\ Cardinality(a[s]) = Cardinality(a[x])
    /\ TeachersAvailable(a, s, TimesOf(a[x])) /\ TeachersFree(a, s, TimesOf(a[x]))
    /\ TeachersAvailable(a, x, TimesOf(a[s])) /\ TeachersFree(a, x, TimesOf(a[s]))

-----------------------------------------------------------------------------
(* The manipulator.  A state of it is a schedule and its history.           *)

Place(a, s, r) == [a EXCEPT ![s] = RoomslotsFor(s, r)]
Clear(a, s) == [a EXCEPT ![s] = {}]
Swapped(a, s, x) == [a EXCEPT ![s] = a[x], ![x] = a[s]]

\* An action: the roomslot is None where the action has none.
Act(kind, s, to, from) == [action |-> kind, section |-> s, start |-> to, prev |-> from]

Legal(m, act) ==
    CASE act.action = "schedule" -> CheckScheduleSection(m.assigned, act.section, act.start)
      [] act.action = "move" -> CheckMoveSection(m.assigned, act.section, act.start)
      [] act.action = "unschedule" -> CheckUnscheduleSection(m.assigned, act.section)

\* perform_action: nothing happens to a schedule that does not allow it.  What
\* is recorded has the place the section has now, not the one of act.
PerformAction(m, act) ==
    LET s == act.section
        from == IF act.action = "schedule" THEN None ELSE First(m.assigned[s])
    IN  IF ~Legal(m, act) THEN m
        ELSE [assigned |-> IF act.action = "unschedule" THEN Clear(m.assigned, s)
                           ELSE Place(m.assigned, s, act.start),
              history |-> Append(m.history, Act(act.action, s, act.start, from))]

\* undo() of a move that would go by the roomslot it moved to.
UndoMisplaced(m) ==
    IF m.history = <<>> THEN m
    ELSE LET act == Last(m.history)
         IN  [assigned |-> IF act.action = "schedule" THEN Clear(m.assigned, act.section)
                           ELSE IF act.action = "move" THEN m.assigned
                           ELSE Place(m.assigned, act.section, act.prev),
              history |-> Front(m.history)]

\* undo(): the opposite action is forced on the schedule and not recorded.
Undo(m) ==
    IF m.history = <<>> THEN m
    ELSE LET act == Last(m.history)
         IN  [assigned |-> IF act.action = "schedule" THEN Clear(m.assigned, act.section)
                           ELSE Place(m.assigned, act.section, act.prev),
              history |-> Front(m.history)]

\* revert(n).
Revert(m, n) ==
    LET undone[i \in 0..n] == IF i = 0 THEN m ELSE Undo(undone[i - 1])
    IN  undone[n]

PerformAll(m, acts) ==
    LET done[i \in 0..Len(acts)] == IF i = 0 THEN m ELSE PerformAction(done[i - 1], acts[i])
    IN  done[Len(acts)]

score_schedule(a) ==
    MapThenSumSet(LAMBDA s : Value(s, First(a[s])), {s \in Sections : IsScheduled(a, s)})

-----------------------------------------------------------------------------
(* optimize_section, with its calls on an explicit stack.                   *)

Manipulator == [assigned |-> assigned, history |-> history]
Becomes(m) == assigned' = m.assigned /\ history' = m.history

Call(s, d) ==
    [section |-> s, depth |-> d, best_score |-> score_schedule(assigned), best_actions |-> <<>>,
     next |-> 1, others |-> <<>>, proposed |-> <<>>, pc |-> "slot"]

Top == Head(stack)
Rest == Tail(stack)

\* A schedule that violates the constraints is not loaded.
Init ==
    /\ loaded \in Loaded
    /\ Valid(loaded)
    /\ assigned = loaded
    /\ history = <<>>
    /\ \E s \in Targets : stack = <<Call(s, Depth)>>
    /\ returned = None
    /\ late = FALSE

\* The sections to be thrown out, in the order of their roomslots: of the
\* schedules that are checked there is one such sequence.
Evicted(s, r) ==
    LET needed == RoomslotsFor(s, r)
        FirstNeeded(x) == First(assigned[x] \intersect needed)[2]
    IN  {e \in SetToSeqs(UNION {Occupants(assigned, q) : q \in needed}) :
            \A i, j \in DOMAIN e : i < j => FirstNeeded(e[i]) < FirstNeeded(e[j])}

\* One roomslot of the loop: the others are thrown out and the section takes
\* the slots, or everything is reverted.
TryEvicting(others) ==
    LET s == Top.section
        r == Slots[Top.next]
        evictions == [i \in DOMAIN others |-> Act("unschedule", others[i], None, None)]
        cleared == PerformAll(Manipulator, evictions)
        kind == IF IsScheduled(cleared.assigned, s) THEN "move" ELSE "schedule"
        act == Act(kind, s, r, None)
        placed == PerformAction(cleared, act)
        n == Len(placed.history) - Len(history)
    IN  /\ IF (Top.depth = 1 /\ others # <<>>) \/ ~Legal(cleared, act)
           THEN /\ stack' = <<[Top EXCEPT !.next = @ + 1]>> \o Rest
                /\ Becomes(IF Top.depth = 1 THEN Manipulator ELSE Revert(cleared, Len(others)))
           ELSE /\ Becomes(placed)
                /\ stack' = <<[Top EXCEPT !.others = others, !.pc = "recurse",
                                !.proposed = SubSeq(placed.history, Len(history) + 1, Len(history) + n)]>> \o Rest
        /\ UNCHANGED <<loaded, returned, late>>

TrySlot ==
    /\ Top.pc = "slot"
    /\ Top.next <= Len(Slots)
    /\ \E others \in Evicted(Top.section, Slots[Top.next]) : TryEvicting(others)

\* A call with no depth or no time left returns at once.
Recurse ==
    LET s == Head(Top.others)
        self == [Top EXCEPT !.pc = "returned"]
    IN  /\ Top.pc = "recurse"
        /\ Top.others # <<>>
        /\ IF Top.depth = 1 \/ late
           THEN stack' = <<self>> \o Rest /\ returned' = <<>>
           ELSE stack' = <<Call(s, Top.depth - 1), self>> \o Rest /\ UNCHANGED returned
        /\ UNCHANGED <<loaded, assigned, history, late>>

\* A section that could not be placed again has everything reverted; the
\* statement continue then goes on with the next of the others.
Returned ==
    LET s == Head(Top.others)
        proposed == Top.proposed \o returned
    IN  /\ Top.pc = "returned"
        /\ stack' = <<[Top EXCEPT !.others = Tail(@), !.proposed = proposed, !.pc = "recurse"]>> \o Rest
        /\ Becomes(IF IsScheduled(assigned, s) THEN Manipulator
                   ELSE Revert(Manipulator, Len(proposed)))
        /\ UNCHANGED <<loaded, returned, late>>

\* Compare that would try the slot again.
CompareAgain ==
    LET score == score_schedule(assigned)
        better == score > Top.best_score
    IN  /\ Top.pc = "recurse"
        /\ Top.others = <<>>
        /\ Becomes(Revert(Manipulator, Len(Top.proposed)))
        /\ stack' = <<[Top EXCEPT !.best_score = IF better THEN score ELSE @,
                                  !.best_actions = IF better THEN Top.proposed ELSE @,
                                  !.proposed = <<>>, !.next = IF better THEN @ + 1 ELSE @, !.pc = "slot"]>> \o Rest
        /\ UNCHANGED <<loaded, returned, late>>

\* The score decides; then the slot is reverted, whatever it was.
Compare ==
    LET score == score_schedule(assigned)
        better == score > Top.best_score
    IN  /\ Top.pc = "recurse"
        /\ Top.others = <<>>
        /\ Becomes(Revert(Manipulator, Len(Top.proposed)))
        /\ stack' = <<[Top EXCEPT !.best_score = IF better THEN score ELSE @,
                                  !.best_actions = IF better THEN Top.proposed ELSE @,
                                  !.proposed = <<>>, !.next = @ + 1, !.pc = "slot"]>> \o Rest
        /\ UNCHANGED <<loaded, returned, late>>

\* The best actions are done again, successful or not, and returned.
Return ==
    /\ Top.pc = "slot"
    /\ Top.next > Len(Slots)
    /\ Becomes(PerformAll(Manipulator, Top.best_actions))
    /\ returned' = Top.best_actions
    /\ stack' = Rest
    /\ UNCHANGED <<loaded, late>>

Timeout ==
    /\ stack # <<>>
    /\ ~late
    /\ late' = TRUE
    /\ UNCHANGED <<loaded, assigned, history, stack, returned>>

Search == stack # <<>> /\ (TrySlot \/ Recurse \/ Returned \/ Compare \/ Return)

Done == stack = <<>> /\ UNCHANGED vars

Next == Search \/ Timeout \/ Done

\* Weak fairness of Search, the process keeps computing, with its ENABLED
\* written out: there is a next step as long as there is a call.
Fairness == []<>(stack = <<>>) \/ []<><<Search>>_vars

Spec == Init /\ [][Next]_vars /\ Fairness

-----------------------------------------------------------------------------
(* Properties.                                                              *)

Action == [action : {"schedule", "move", "unschedule"}, section : Sections,
           start : Range(Slots) \union {None}, prev : Range(Slots) \union {None}]

Frame == [section : Sections, depth : 1..Depth, best_score : Int, best_actions : Seq(Action),
          next : Nat, others : Seq(Sections), proposed : Seq(Action),
          pc : {"slot", "recurse", "returned"}]

\* The types of the state.
TypeOK ==
    /\ loaded \in Loaded
    /\ assigned \in [Sections -> SUBSET Range(Slots)]
    /\ history \in Seq(Action)
    /\ stack \in Seq(Frame)
    /\ returned \in Seq(Action)
    /\ late \in BOOLEAN

\* "Assuming that we start with a valid schedule": the checks of the single
\* actions, made before the action, let pass nothing that the check of the
\* whole schedule would find afterwards, nor a room that is booked twice.
ChecksSound ==
    \A s \in Sections :
        /\ \A r \in Range(Slots) :
               CheckScheduleSection(assigned, s, r) \/ CheckMoveSection(assigned, s, r)
                   => Valid(Place(assigned, s, r))
        /\ CheckUnscheduleSection(assigned, s) => Valid(Clear(assigned, s))
        /\ \A x \in Sections \ {s} :
               CheckSwapSections(assigned, s, x) => Valid(Swapped(assigned, s, x))

\* Whatever the search tries and reverts, the schedule in memory stays valid:
\* save() will not refuse it.  No section is put over all of lunch or into a
\* room its criteria exclude; what was loaded that way may stay.
StaysValid ==
    /\ TypeOK
    /\ Valid(assigned)
    /\ \A s \in Sections : IsScheduled(assigned, s) /\ assigned[s] # loaded[s] =>
           ~OverLunch(TimesOf(assigned[s])) /\ <<s, First(assigned[s])[1]>> \in Allowed

\* The history that is exported can be replayed, action by action, on the
\* schedule as it was loaded, and gives the schedule that was computed; every
\* roomslot is tried from the schedule as it was loaded, with nothing left of
\* an earlier attempt.
HistoryReplays ==
    /\ PerformAll([assigned |-> loaded, history |-> <<>>], history) = Manipulator
    /\ Len(stack) = 1 /\ Top.pc = "slot" => assigned = loaded /\ history = <<>>

\* The search ends, and goes no deeper than it may.
SearchEnds == <>(stack = <<>>)
=============================================================================
