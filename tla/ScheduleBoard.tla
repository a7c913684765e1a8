---------------------------- MODULE ScheduleBoard ----------------------------
(***************************************************************************)
(* Editing the schedule of a program: the pages of the AJAX scheduler (the  *)
(* scripts under ajaxschedulingmodule/ESP), the requests they send          *)
(* (ajaxschedulingmodule.py), the change log from which the pages learn     *)
(* about each other's changes (program_settings.py), and the automatic      *)
(* scheduler, which saves what it has computed into the same tables         *)
(* (autoschedulerfrontendmodule.py, db_interface.py).                       *)
(*                                                                          *)
(* The server handles one request at a time; requests and answers are under *)
(* way for any length of time, and answers may be lost.  Every section      *)
(* takes one timeslot.  Moderators, comments and locks are left out.        *)
(***************************************************************************)
EXTENDS Naturals, Sequences, FiniteSets, SequencesExt

CONSTANTS
    Browsers, Sections, Rooms, Times,
    RoomTimes,    \* when a room can be used: the events of its Resources
    RoomOfName,   \* the room whose id the name of a room begins with, or None
    TaughtBy,     \* the teachers of a section
    Available,    \* when a teacher has declared to be available
    Boards,       \* the schedules to begin with
    Overriders,   \* the browsers whose users have switched the override on
    Plans,        \* what the automatic scheduler may compute: places for some sections
    None,
    MaxChanges,   \* bound: changes by requests and by the automatic scheduler
    MaxAnswers    \* bound: answers to polls of a browser that are under way

VARIABLES
    db,        \* times: meeting_times of the sections; booked: ResourceAssignments
    log,       \* the AJAXChangeLog
    page,      \* of a browser: closed, opening, open, or stopped by the reload notice
    view,      \* scheduleAssignments of the page
    last,      \* last_applied_index of the page
    request,   \* the request of the page that is under way, None if there is none
    answers,   \* answers to polls that are under way to the page
    computed,  \* what the automatic scheduler has computed and not yet saved
    changes,
    \* Ghosts: the sections scheduled with the override, and the pairs of a
    \* browser and a section that the change log does not keep in step.
    overridden, stale

vars == <<db, log, page, view, last, request, answers, computed, changes, overridden, stale>>

Nowhere == [room |-> None, times |-> {}]
Places == {p \in [room : Rooms, times : {{t} : t \in Times}] : p.times \subseteq RoomTimes[p.room]}

\* What a page can show of a section: where and when it is, or its time only.
Shown == Places \union [room : {None}, times : {{}} \union {{t} : t \in Times}]

-----------------------------------------------------------------------------
(* The tables.                                                              *)

clearRooms(d, s) == [d EXCEPT !.booked = {b \in @ : b[1] # s}]
assign_meeting_times(d, s, T) == [d EXCEPT !.times[s] = T]
clear_meeting_times(d, s) == assign_meeting_times(d, s, {})

IsTaken(d, r, t) == \E b \in d.booked : b[2] = r /\ b[3] = t

\* assign_room: all the times of the section or, with what was assigned taken
\* back, none.
CanAssignRoom(d, s, r) == \A t \in d.times[s] : t \in RoomTimes[r] /\ ~IsTaken(d, r, t)
assign_room(d, s, r) == [d EXCEPT !.booked = @ \union ({s} \X {r} \X d.times[s])]

Bookings(d, s) == {b \in d.booked : b[1] = s}

Teaching(d, t, s) == UNION {d.times[x] : x \in {y \in Sections \ {s} : t \in TaughtBy[y]}}

\* cannotSchedule that would ignore the other classes of the teachers.
cannotScheduleIgnoringClasses(d, s, T) ==
    ~(T \subseteq d.times[s]) /\ \E t \in TaughtBy[s] : ~(T \subseteq Available[t])

cannotSchedule(d, s, T) ==
    /\ ~(T \subseteq d.times[s])
    /\ \E t \in TaughtBy[s] : ~(T \subseteq Available[t] \ Teaching(d, t, s))

\* schedule_assignments: what a page is given when it is opened.
Place(d, s) ==
    LET assigned == {b \in Bookings(d, s) : b[3] \in d.times[s]}
    IN  [room |-> IF assigned = {} THEN None ELSE (CHOOSE b \in assigned : TRUE)[2],
         times |-> d.times[s]]

RoomConflicts(d, S) == {b \in d.booked : b[1] \in S /\ \E c \in d.booked : b[1] # c[1] /\ b[2] = c[2] /\ b[3] = c[3]}
TeacherConflicts(d, S) == {s \in S : \E t \in TaughtBy[s] : d.times[s] \intersect Teaching(d, t, s) # {}}

\* A schedule: rooms are used when they can be, by one section at a time, and
\* a section that has rooms has one for its time.
IsSchedule(d) ==
    /\ d \in [times : [Sections -> {{}} \union {{t} : t \in Times}], booked : SUBSET (Sections \X Rooms \X Times)]
    /\ IsFiniteSet(d.booked)
    /\ \A b \in d.booked : b[3] \in RoomTimes[b[2]]
    /\ RoomConflicts(d, Sections) = {}
    /\ \A s \in Sections : Bookings(d, s) # {} => Place(d, s).room # None

-----------------------------------------------------------------------------
(* The change log.                                                          *)

get_latest_index(l) == IF l = <<>> THEN 0 ELSE Last(l).index

\* The room is the id that the page sent, or, from the automatic scheduler,
\* the name of the room.
Entry(l, s, p, named) ==
    [index |-> get_latest_index(l) + 1, section |-> s, place |-> p, named |-> named]

appendScheduling(l, s, p, named) == Append(l, Entry(l, s, p, named))

\* A page reads a name as the id of a room.
Named(e) == e.named /\ e.place # Nowhere
Read(e) == IF Named(e) THEN [e.place EXCEPT !.room = RoomOfName[@]] ELSE e.place

\* Entries that a log has and an older one has not.
NewEntries(old, new) == {new[i] : i \in (Len(old) + 1)..Len(new)}

-----------------------------------------------------------------------------
(* The handlers.  A state of the server while it handles a request: the     *)
(* tables, the log, whether it was successful so far, and the sections that *)
(* were changed without an entry in the log.                                *)

Server == [db |-> db, log |-> log, ret |-> TRUE, silent |-> {}]

\* ajax_schedule_deletereg that would not be logged.
DeleteregUnlogged(v, s) == [v EXCEPT !.db = clear_meeting_times(clearRooms(@, s), s)]

ajax_schedule_deletereg(v, s) ==
    [v EXCEPT !.db = clear_meeting_times(clearRooms(@, s), s),
              !.log = appendScheduling(@, s, Nowhere, FALSE)]

\* A section whose new room is taken loses its old place too, and that is not
\* logged.
ajax_schedule_assignreg(v, s, p, override) ==
    LET d == clearRooms(assign_meeting_times(v.db, s, p.times), s)
    IN  IF ~override /\ cannotSchedule(v.db, s, p.times) THEN [v EXCEPT !.ret = FALSE]
        ELSE IF CanAssignRoom(d, s, p.room)
        THEN [v EXCEPT !.db = assign_room(d, s, p.room), !.log = appendScheduling(@, s, p, FALSE)]
        ELSE [v EXCEPT !.ret = FALSE, !.db = clear_meeting_times(d, s),
                       !.silent = IF Place(v.db, s) = Nowhere THEN @ ELSE @ \union {s}]

UnscheduleAll(v, sections) ==
    LET done[k \in 0..Len(sections)] ==
            IF k = 0 THEN v ELSE ajax_schedule_deletereg(done[k - 1], sections[k])
    IN  done[Len(sections)]

Reschedule(w, x, override) ==
    IF w.ret /\ x.place.room # None
    THEN ajax_schedule_assignreg(w, x.section, x.place, override) ELSE w

RescheduleAll(v, todo, override) ==
    LET done[k \in 0..Len(todo)] ==
            IF k = 0 THEN v ELSE Reschedule(done[k - 1], todo[k], override)
    IN  done[Len(todo)]

\* First all are unscheduled, then one after the other is scheduled again,
\* until one cannot be.
ajax_schedule_swap(v, todo, override) ==
    RescheduleAll(UnscheduleAll(v, [k \in DOMAIN todo |-> todo[k].section]), todo, override)

ajax_schedule_class(r) ==
    LET x == Head(r.todo)
    IN  CASE r.action = "deletereg" -> ajax_schedule_deletereg(Server, x.section)
          [] r.action = "assignreg" -> ajax_schedule_assignreg(Server, x.section, x.place, r.override)
          [] r.action = "swap" -> ajax_schedule_swap(Server, r.todo, r.override)

\* The pages that an entry will not reach: those that have their data and will
\* set last to the latest index, and those that are past its index already.
Misses(b, e) ==
    \/ page[b] = "opening"
    \/ last[b] >= e.index

\* The server is done; an entry for a section brings every page in step that
\* it reaches.
Commit(v) ==
    LET new == NewEntries(log, v.log)
    IN  /\ db' = v.db
        /\ log' = v.log
        /\ stale' = {p \in stale : \A e \in new : e.section # p[2]}
                    \union {p \in Browsers \X Sections : \E e \in new : e.section = p[2] /\ Misses(p[1], e)}
                    \union (Browsers \X (v.silent \union {e.section : e \in {x \in new : Read(x) # x.place}}))

-----------------------------------------------------------------------------
(* The pages.                                                               *)

To(s, p) == [section |-> s, place |-> p, named |-> FALSE]

\* A request: what the page wants to change, what it showed and the last index
\* it had applied before.
Requests ==
    [action : {"assignreg", "deletereg", "swap"},
     todo : Seq([section : Sections, place : Places \union {Nowhere}, named : {FALSE}]),
     override : BOOLEAN, old : UNION {[S -> Shown] : S \in SUBSET Sections},
     last : Nat, state : {"sent", "done", "failed"}]

ASSUME BoardAssumption ==
    /\ None \notin Rooms \union Requests
    /\ IsFiniteSet(Sections)
    /\ RoomOfName \in [Rooms -> Rooms \union {None}]
    /\ Overriders \subseteq Browsers
    /\ \A d \in Boards : IsSchedule(d) /\ TeacherConflicts(d, Sections) = {}
    /\ Plans \subseteq UNION {[S -> Places \union {Nowhere}] : S \in (SUBSET Sections) \ {{}}}
    /\ MaxChanges \in Nat /\ MaxAnswers \in Nat \ {0}

Init ==
    /\ db \in Boards
    /\ log = <<>>
    /\ page = [b \in Browsers |-> "closed"]
    /\ view = [b \in Browsers |-> [s \in Sections |-> Nowhere]]
    /\ last = [b \in Browsers |-> 0]
    /\ request = [b \in Browsers |-> None]
    /\ answers = [b \in Browsers |-> {}]
    /\ computed = None
    /\ changes = 0
    /\ overridden = {}
    /\ stale = {}

\* What a page shows when it applies the entries of l, one after the other.
Applied(w, l) ==
    [s \in Sections |->
        LET entries == {k \in DOMAIN l : l[k].section = s}
        IN  IF entries = {} THEN w[s] ELSE Read(l[Max(entries)])]

\* The pairs of a page and a section that an entry among the first n of the
\* log has not reached.
Unseen(n) ==
    {p \in Browsers \X Sections :
        page[p[1]] = "open" /\ \E k \in 1..n : log[k].section = p[2] /\ log[k].index > last[p[1]]}

\* The page is served, which deletes the entries older than max_log_age: any
\* that come before the others; nothing stays under way for that long.  Then it
\* fetches the schedule.  Pages that have not seen an entry which is deleted
\* are not all told to reload: with no entry left the index starts again from
\* 1, and a page that has seen no entry is never told.  A page is loaded again
\* only when its request has been answered.  It is out of step where it would
\* not stay as it is if it applied the log.
Open(b) ==
    LET fresh == [s \in Sections |-> Place(db, s)]
    IN  /\ page[b] \in {"closed", "stopped"}
        /\ request[b] = None
        /\ \E n \in 0..Len(log) :
               /\ n > 0 => \A c \in Browsers : page[c] # "opening" /\ request[c] = None /\ answers[c] = {}
               /\ log' = SubSeq(log, n + 1, Len(log))
               /\ stale' = {p \in stale \union Unseen(n) : p[1] # b}
                           \union ({b} \X {s \in Sections : Applied(fresh, log')[s] # fresh[s]})
        /\ page' = [page EXCEPT ![b] = "opening"]
        /\ view' = [view EXCEPT ![b] = fresh]
        /\ last' = [last EXCEPT ![b] = 0]
        /\ answers' = [answers EXCEPT ![b] = {}]
        /\ UNCHANGED <<db, request, computed, changes, overridden>>

\* ajax_schedule_last_changed is answered.
LastChanged(b) ==
    /\ page[b] = "opening"
    /\ page' = [page EXCEPT ![b] = "open"]
    /\ last' = [last EXCEPT ![b] = get_latest_index(log)]
    /\ UNCHANGED <<db, log, view, request, answers, computed, changes, overridden, stale>>

\* The entries with a larger index, in the order of the index.
get_log(i) ==
    LET later == {k \in DOMAIN log : log[k].index > i}
    IN  IF later = {} THEN <<>> ELSE SubSeq(log, Min(later), Len(log))

\* ajax_change_log that would leave out the first of the new entries.
ChangeLogSkipping(i) ==
    IF log # <<>> /\ i # 0 /\ log[1].index > i THEN [reload |-> TRUE, changelog |-> <<>>]
    ELSE [reload |-> FALSE, changelog |-> get_log(i + 1)]

\* ajax_change_log: the entries after the last one applied, or the command to
\* reload if entries after that may have been deleted.
ajax_change_log(i) ==
    IF log # <<>> /\ i # 0 /\ log[1].index > i THEN [reload |-> TRUE, changelog |-> <<>>]
    ELSE [reload |-> FALSE, changelog |-> get_log(i)]

Ask(b) ==
    /\ page[b] \in {"opening", "open"}
    /\ Cardinality(answers[b]) < MaxAnswers
    /\ answers' = [answers EXCEPT ![b] = @ \union {ajax_change_log(last[b])}]

getChanges(b) ==
    /\ Ask(b)
    /\ UNCHANGED <<db, log, page, view, last, request, computed, changes, overridden, stale>>

\* A page that was opened after ajax_clear_schedule shows a section at a time
\* without a room.
HalfPlaced(b, s) == view[b][s].room = None /\ view[b][s].times # {}

\* scheduleSectionLocal takes the section out of its old cell and puts it into
\* the new one, and fails where there is no such cell.
CanApply(b, e) == ~HalfPlaced(b, e.section) /\ (Named(e) => Read(e) \in Places)

\* The entries up to the first that fails: the error ends the loop.
Applicable(b, l) ==
    LET bad == {i \in DOMAIN l : ~CanApply(b, l[i])}
    IN  IF bad = {} THEN l ELSE SubSeq(l, 1, (CHOOSE i \in bad : \A j \in bad : i <= j) - 1)

\* The sections with entries between the last one applied and those of l.
Skipped(b, l) ==
    IF l = <<>> THEN {}
    ELSE {e.section : e \in {x \in Range(log) : last[b] < x.index /\ x.index < l[1].index}}

Take(b, a) == answers' = [answers EXCEPT ![b] = @ \ {a}]

\* Polls are sent at an interval, whether or not the one before has been
\* answered, and answers may overtake each other.  An old one takes the page
\* back, and one that was asked for before that then leaves out entries.
applyChangeLog(b) ==
    \E a \in answers[b] :
        LET l == Applicable(b, a.changelog)
        IN  /\ Take(b, a)
            /\ page' = [page EXCEPT ![b] = IF a.reload THEN "stopped" ELSE @]
            /\ view' = [view EXCEPT ![b] = Applied(@, l)]
            /\ last' = [last EXCEPT ![b] = IF l = <<>> THEN @ ELSE Last(l).index]
            /\ stale' = stale \union ({b} \X Skipped(b, l))
                        \union (IF page[b] = "open" \/ l = a.changelog THEN {}
                                ELSE {b} \X {e.section : e \in Range(l)})
            /\ UNCHANGED <<db, log, request, computed, changes, overridden>>

CanSend(b) == page[b] = "open" /\ request[b] = None /\ changes < MaxChanges

\* A page changes what it shows at once, which fails for a section at a time
\* without a room, and then sends the request.
Send(b, action, todo, override) ==
    LET w == Applied(view[b], todo)
    IN  /\ \A x \in Range(todo) : ~HalfPlaced(b, x.section)
        /\ changes' = changes + 1
        /\ view' = [view EXCEPT ![b] = w]
        /\ request' = [request EXCEPT ![b] =
               [action |-> action, todo |-> todo, override |-> override,
                old |-> [s \in {x.section : x \in Range(todo)} |-> view[b][s]],
                last |-> last[b], state |-> "sent"]]
        /\ UNCHANGED <<db, log, page, last, answers, computed, overridden, stale>>

\* validateAssignment, by what the page shows and ignoring some sections.
validateAssignment(b, s, p, ignored, override) ==
    /\ \A x \in Sections \ (ignored \union {s}) :
           ~(view[b][x].room = p.room /\ view[b][x].times \intersect p.times # {})
    /\ override \/ \A t \in TaughtBy[s] :
           p.times \subseteq Available[t] \ UNION {view[b][x].times :
               x \in {y \in Sections \ (ignored \union {s}) : t \in TaughtBy[y]}}

scheduleSection(b) ==
    /\ CanSend(b)
    /\ \E s \in Sections, p \in Places, override \in {b \in Overriders} :
        /\ p # view[b][s]
        /\ validateAssignment(b, s, p, {}, override)
        /\ Send(b, "assignreg", <<To(s, p)>>, override)

unscheduleSection(b) ==
    /\ CanSend(b)
    /\ \E s \in Sections : view[b][s].room # None /\ Send(b, "deletereg", <<To(s, Nowhere)>>, FALSE)

\* Sections of one timeslot change places; one of them may have none.
swapSections(b) ==
    /\ CanSend(b)
    /\ \E s, x \in Sections, override \in {b \in Overriders} :
        LET p == view[b][s]
            q == view[b][x]
        IN  /\ s # x /\ p.room # None
            /\ q.room # None => validateAssignment(b, s, q, {s, x}, override)
            /\ validateAssignment(b, x, p, {s, x}, override)
            /\ Send(b, "swap", <<To(s, IF q.room = None THEN Nowhere ELSE q), To(x, p)>>, override)

\* The server handles the request; or it fails, or is never reached, or its
\* answer is lost.
Handle(b) ==
    /\ request[b] # None
    /\ request[b].state = "sent"
    /\ LET v == ajax_schedule_class(request[b])
           Answer(ok) == request' = [request EXCEPT ![b].state = IF ok THEN "done" ELSE "failed"]
       IN  \/ /\ Commit(v)
              /\ Answer(v.ret) \/ Answer(FALSE)
              /\ overridden' = overridden \union
                     (IF request[b].override THEN {x.section : x \in Range(request[b].todo)} ELSE {})
           \/ Answer(FALSE) /\ UNCHANGED <<db, log, overridden, stale>>
    /\ UNCHANGED <<page, view, last, answers, computed, changes>>

\* The answer: after a failure the page shows the old places again, whatever
\* it has learned from the log since it sent the request.
Answered(b) ==
    LET r == request[b]
        moved == {x.section : x \in Range(r.todo)}
    IN  /\ request[b] # None
        /\ r.state # "sent"
        /\ request' = [request EXCEPT ![b] = None]
        /\ IF r.state = "done" THEN UNCHANGED <<view, stale>>
           ELSE /\ view' = [view EXCEPT ![b] = [s \in Sections |-> IF s \in moved THEN r.old[s] ELSE @[s]]]
                /\ stale' = IF last[b] = r.last THEN stale ELSE stale \union ({b} \X moved)
        /\ UNCHANGED <<db, log, page, last, answers, computed, changes, overridden>>

\* ajax_clear_schedule: the assignments are deleted; the query for the
\* sections, made again, then finds none whose meeting times to clear.
ClearSchedule ==
    /\ db.booked # {}
    /\ changes < MaxChanges
    /\ changes' = changes + 1
    /\ Commit([Server EXCEPT !.db.booked = {}, !.silent = {b[1] : b \in db.booked}])
    /\ UNCHANGED <<page, view, last, request, answers, computed, overridden>>

-----------------------------------------------------------------------------
(* The automatic scheduler.                                                 *)

\* section_satisfies_constraints: the sections it can handle.
Handled(s) == Cardinality(Bookings(db, s)) = Cardinality(db.times[s])

Rearranged(d, wanted) ==
    [times |-> [s \in Sections |-> IF s \in DOMAIN wanted THEN wanted[s].times ELSE d.times[s]],
     booked |-> {b \in d.booked : b[1] \notin DOMAIN wanted}
                \union UNION {{s} \X {wanted[s].room} \X wanted[s].times : s \in DOMAIN wanted}]

\* autoscheduler_execute: some sections get a new place, or none any more.
autoscheduler_execute ==
    /\ computed = None
    /\ changes < MaxChanges
    /\ changes' = changes + 1
    /\ \E wanted \in Plans :
           /\ \A s \in DOMAIN wanted : Handled(s) /\ wanted[s] # Place(db, s)
           /\ RoomConflicts(Rearranged(db, wanted), DOMAIN wanted) = {}
           /\ TeacherConflicts(Rearranged(db, wanted), DOMAIN wanted) = {}
           /\ \A s \in DOMAIN wanted : \A t \in TaughtBy[s] : wanted[s].times \subseteq Available[t]
           /\ computed' = [wanted |-> wanted, initial |-> [s \in DOMAIN wanted |-> Place(db, s)]]
    /\ UNCHANGED <<db, log, page, view, last, request, answers, overridden, stale>>

\* check_can_schedule_sections, with the room that is taken or will be.
CanSchedule(d, wanted) ==
    \A s \in DOMAIN wanted : wanted[s] # Nowhere =>
        /\ \A t \in TaughtBy[s] : wanted[s].times \intersect Teaching(d, t, s) = {}
        /\ \A b \in d.booked : b[2] = wanted[s].room /\ b[3] \in wanted[s].times => b[1] = s

\* ensure_section_not_moved, by scheduling_hash_of.
Hash(d, s) == <<d.times[s], {b[2] : b \in Bookings(d, s)}>>
HashOfPlace(p) == <<p.times, {p.room} \ {None}>>

ScheduleSection(w, wanted, s) ==
    LET d == assign_meeting_times(w.db, s, wanted[s].times)
    IN  IF wanted[s] = Nowhere THEN w
        ELSE IF CanAssignRoom(d, s, wanted[s].room)
        THEN [w EXCEPT !.db = assign_room(d, s, wanted[s].room),
                       !.log = appendScheduling(@, s, wanted[s], TRUE)]
        ELSE [w EXCEPT !.ret = FALSE]

ScheduleAll(v, wanted, order) ==
    LET done[k \in 0..Len(order)] ==
            IF k = 0 THEN v ELSE ScheduleSection(done[k - 1], wanted, order[k])
    IN  done[Len(order)]

\* save(), for the sections in the order of the query.  Whether the sections
\* are unscheduled first is decided for all by the last one.
save(wanted, order) ==
    LET cleared == IF db.times[Last(order)] # {} THEN UnscheduleAll(Server, order) ELSE Server
        saved == ScheduleAll(cleared, wanted, order)
        ok == /\ CanSchedule(cleared.db, wanted)
              /\ saved.ret
              /\ \A s \in DOMAIN wanted : Hash(saved.db, s) = HashOfPlace(wanted[s])
              /\ CanSchedule(saved.db, wanted)
    IN  [saved EXCEPT !.ret = ok]

\* The check that would find nothing moved.
NothingMoved(c) == FALSE

\* import_assignments: a section was moved since, or cannot be handled.
SectionMoved(c) ==
    \E s \in DOMAIN c.wanted : ~Handled(s) \/ Hash(db, s) # HashOfPlace(c.initial[s])

\* autoscheduler_save: refused, and rolled back, if a section was moved since
\* or the schedule is not possible any more.
autoscheduler_save ==
    /\ computed # None
    /\ computed' = None
    /\ \E order \in SetToSeqs(DOMAIN computed.wanted) :
           LET v == save(computed.wanted, order)
           IN  IF ~SectionMoved(computed) /\ v.ret THEN Commit(v) ELSE UNCHANGED <<db, log, stale>>
    /\ UNCHANGED <<page, view, last, request, answers, changes, overridden>>

-----------------------------------------------------------------------------
Next ==
    \/ \E b \in Browsers :
           \/ Open(b) \/ LastChanged(b) \/ getChanges(b) \/ applyChangeLog(b)
           \/ scheduleSection(b) \/ unscheduleSection(b) \/ swapSections(b)
           \/ Handle(b) \/ Answered(b)
    \/ ClearSchedule
    \/ autoscheduler_execute
    \/ autoscheduler_save

\* A page polls again and again, and takes the answers.
Fairness ==
    \A b \in Browsers :
        /\ WF_answers(Ask(b))
        /\ WF_answers(\E a \in answers[b] : Take(b, a))

Spec == Init /\ [][Next]_vars /\ Fairness

-----------------------------------------------------------------------------
(* Properties.                                                              *)

LogEntry == [index : Nat \ {0}, section : Sections, place : Places \union {Nowhere}, named : BOOLEAN]

\* The indices of the log increase, and a page is past the log only after the
\* log has been emptied.
TypeOK ==
    /\ IsSchedule(db)
    /\ log \in Seq(LogEntry)
    /\ \A i \in 1..(Len(log) - 1) : log[i + 1].index = log[i].index + 1
    /\ page \in [Browsers -> {"closed", "opening", "open", "stopped"}]
    /\ view \in [Browsers -> [Sections -> Shown]]
    /\ last \in [Browsers -> Nat]
    /\ \A b \in Browsers : \A a \in answers[b] : a.reload => a.changelog = <<>>
    /\ changes \in 0..MaxChanges
    /\ stale \subseteq Browsers \X Sections

\* No room is given to two sections at the same time, and a teacher has two
\* sections at the same time only if somebody asked for it with the override:
\* neither pages that do not know of each other's changes nor the automatic
\* scheduler get past the checks.
NoDoubleBooking ==
    /\ TypeOK
    /\ RoomConflicts(db, Sections) = {}
    /\ \A s, x \in Sections \ overridden :
           s # x /\ TaughtBy[s] \intersect TaughtBy[x] # {} => db.times[s] \intersect db.times[x] = {}

\* save() does all that was computed or nothing: it never undoes a change that
\* was made since the computation, and it touches no other section.
SaveSound ==
    [][computed # None /\ computed' = None /\ db' # db =>
           \A s \in Sections :
               IF s \in DOMAIN computed.wanted
               THEN Place(db, s) = computed.initial[s] /\ Place(db', s) = computed.wanted[s]
               ELSE Place(db', s) = Place(db, s)]_vars

UpToDate(b) ==
    page[b] = "open" /\ request[b] = None /\ answers[b] = {} /\ last[b] = get_latest_index(log)

\* A page that has applied the whole log shows the schedule as it is, apart
\* from the sections that are known to have got out of step.
InStep ==
    \A b \in Browsers : UpToDate(b) =>
        \A s \in Sections : <<b, s>> \notin stale => view[b][s] = Place(db, s)

\* An entry that the page cannot apply.
Stuck(b) == \E i \in DOMAIN log : log[i].index > last[b] /\ ~CanApply(b, log[i])

\* A page that is open catches up with the log again and again, unless it is
\* told to reload or meets an entry it cannot apply.
CatchesUp ==
    \A b \in Browsers :
        []<>(page[b] # "open" \/ last[b] >= get_latest_index(log) \/ Stuck(b))
=============================================================================
