-------------------------- MODULE ClassRegistration --------------------------
(***************************************************************************)
(* Student class registration: addclass and ajax_addclass (with and without *)
(* force_replace), clearslot, and the cancellation of a section by an       *)
(* administrator (program/modules/handlers/studentclassregmodule.py,        *)
(* program/models/class_.py).                                               *)
(*                                                                          *)
(* Requests run in parallel in worker processes on one PostgreSQL database  *)
(* at READ COMMITTED: a statement sees what was committed before it, and    *)
(* its own transaction's writes.  A step below is a group of statements     *)
(* between two points where the interleaving matters (a lock is waited for, *)
(* or a value read now is used by a later statement).  Row locks last until *)
(* the end of the transaction; clearslot runs in autocommit and keeps none. *)
(* Only "Enrolled" registrations, in a program that does not use priorities *)
(* and has no schedule constraints, are kept.                               *)
(***************************************************************************)
EXTENDS Integers, FiniteSets

CONSTANTS
    Students,      \* users who register
    Sections,      \* rows of ClassSection
    Classes,       \* rows of ClassSubject
    Times,         \* timeslots
    Requests,      \* worker processes
    None,          \* no student, section, request
    ParentClass,   \* section -> its class
    MeetingTimes,  \* section -> its timeslots
    Capacity,      \* section -> what _get_capacity returns
    Closed,        \* sections whose registration_status is not OPEN
    EnforceMax,    \* scrmi.enforce_max
    Kinds,         \* which requests are made
    OnsiteModes    \* values of request.user.onsite_local

ASSUME RegistrationAssumption ==
    /\ IsFiniteSet(Students)
    /\ IsFiniteSet(Sections)
    /\ Sections \intersect Classes = {}
    /\ None \notin Students \union Sections \union Classes \union Requests
    /\ ParentClass \in [Sections -> Classes]
    /\ MeetingTimes \in [Sections -> SUBSET Times]
    /\ Capacity \in [Sections -> Nat]
    /\ Closed \subseteq Sections
    /\ EnforceMax \in BOOLEAN
    /\ Kinds \subseteq {"add", "replace", "clearslot", "cancel"}
    /\ OnsiteModes \subseteq BOOLEAN

VARIABLES
    regs,        \* committed: valid registrations, as <<student, section>>
    enrolled,    \* committed: the column enrolled_students of every section
    cancelled,   \* committed: the sections and classes with status CANCELLED
    lock,        \* row locks on sections and classes: the request that holds it
    req          \* what every worker is doing

vars == <<regs, enrolled, cancelled, lock, req>>

Rows == Sections \union Classes

\* A worker between two requests.
Idle == [pc |-> "idle", kind |-> "none", user |-> None, section |-> None,
         onsite |-> FALSE, todo |-> {}, current |-> None, dropped |-> {},
         counted |-> 0, columns |-> {}]

Init ==
    /\ regs = {}
    /\ enrolled = [s \in Sections |-> 0]
    /\ cancelled = {}
    /\ lock = [x \in Rows |-> None]
    /\ req = [r \in Requests |-> Idle]

-----------------------------------------------------------------------------
(* What a statement of request r sees.                                      *)

\* The registrations: committed ones less those this transaction expired.
Seen(r) == regs \ req[r].dropped

SeenCount(r, s) == Cardinality({p \in Seen(r) : p[2] = s})

\* The column enrolled_students, this transaction's own writes included:
\* columns holds pairs <<section, value>>, at most one for a section.
SeenEnrolled(r, s) ==
    IF \E c \in req[r].columns : c[1] = s
    THEN (CHOOSE c \in req[r].columns : c[1] = s)[2]
    ELSE enrolled[s]

\* getEnrolledSectionsFromProgram
EnrolledSections(r, u) == {s \in Sections : <<u, s>> \in Seen(r)}

\* isFull with the comparison off by one.
IsFullLate(r, s) ==
    \/ MeetingTimes[s] = {}
    \/ SeenEnrolled(r, s) > Capacity[s]

\* isFull (mode 3): a section that is not scheduled is full, an empty
\* section of capacity zero is not.
IsFull(r, s) ==
    \/ MeetingTimes[s] = {}
    \/ /\ SeenEnrolled(r, s) >= Capacity[s]
       /\ ~(SeenEnrolled(r, s) = 0 /\ Capacity[s] = 0)

\* get_conflicts
Conflicts(r, u, s) ==
    {x \in EnrolledSections(r, u) :
        \/ ParentClass[x] = ParentClass[s]
        \/ MeetingTimes[x] \intersect MeetingTimes[s] # {}}

\* ClassSection.cannotAdd: there is an error.
SectionError(r, u, s) ==
    \/ EnforceMax /\ IsFull(r, s)
    \/ Conflicts(r, u, s) # {}
    \/ s \in Closed
    \/ s \in cancelled

SectionsOf(c) == {s \in Sections : ParentClass[s] = c}

\* ClassSubject.cannotAdd: there is an error.  The class must be accepted,
\* not full, not yet taken, and one of its sections must be addable.
SubjectError(r, u, c) ==
    \/ c \in cancelled
    \/ EnforceMax /\ \A s \in SectionsOf(c) : IsFull(r, s)
    \/ EnrolledSections(r, u) \intersect SectionsOf(c) # {}
    \/ \A s \in SectionsOf(c) : SectionError(r, u, s)

\* Row x is free for r.
Free(r, x) == lock[x] \in {None, r}

\* Registration rows that other transactions have updated and not committed.
RowsBusy(r, rows) == \E q \in Requests \ {r} : req[q].dropped \intersect rows # {}

\* The end of a transaction releases what it holds.
Released(r) == [x \in Rows |-> IF lock[x] = r THEN None ELSE lock[x]]

\* An error after which the locks are kept (the transaction stays open).
AbortKeepingLocks(r) ==
    /\ req' = [req EXCEPT ![r] = Idle]
    /\ UNCHANGED <<regs, enrolled, cancelled, lock>>

\* An ESPError or a database error: everything is rolled back.
Abort(r) ==
    /\ lock' = Released(r)
    /\ req' = [req EXCEPT ![r] = Idle]
    /\ UNCHANGED <<regs, enrolled, cancelled>>

-----------------------------------------------------------------------------
(* Requests arrive.                                                         *)

Start(r, fields) == req' = [req EXCEPT ![r] = fields]

\* addclass without force_replace.
BeginAdd(r, u, s, onsite) ==
    /\ req[r] = Idle
    /\ Start(r, [Idle EXCEPT !.pc = "lockSection", !.kind = "add",
                             !.user = u, !.section = s, !.onsite = onsite])
    /\ UNCHANGED <<regs, enrolled, cancelled, lock>>

\* addclass with force_replace: a transaction begins and reads the conflicts.
BeginReplace(r, u, s, onsite) ==
    /\ req[r] = Idle
    /\ LET conflicts == Conflicts(r, u, s)
       IN  Start(r, [Idle EXCEPT
               !.pc = IF conflicts = {} THEN "lockSection" ELSE "expire",
               !.kind = "replace", !.user = u, !.section = s,
               !.onsite = onsite, !.todo = conflicts])
    /\ UNCHANGED <<regs, enrolled, cancelled, lock>>

\* clearslot: the sections of the student that meet at time t.
BeginClearslot(r, u, t) ==
    /\ req[r] = Idle
    /\ LET old == {s \in EnrolledSections(r, u) : t \in MeetingTimes[s]}
       IN  /\ old # {}
           /\ Start(r, [Idle EXCEPT !.pc = "expire", !.kind = "clearslot",
                                    !.user = u, !.todo = old])
    /\ UNCHANGED <<regs, enrolled, cancelled, lock>>

\* ClassSection.cancel: the students are emailed, then a transaction begins.
BeginCancel(r, s) ==
    /\ req[r] = Idle
    /\ s \notin cancelled
    /\ Start(r, [Idle EXCEPT !.pc = "clear", !.kind = "cancel", !.section = s])
    /\ UNCHANGED <<regs, enrolled, cancelled, lock>>

-----------------------------------------------------------------------------
(* unpreregister_student, called for every section of todo.                 *)

\* The registration of the current section is done with: on to the next one,
\* or to the lock of the section to add (replace), or to the end.
AfterDrop(fields) ==
    IF fields.todo # {} THEN [fields EXCEPT !.pc = "expire", !.current = None]
    ELSE IF fields.kind = "replace" THEN [fields EXCEPT !.pc = "lockSection", !.current = None]
    ELSE Idle

\* An UPDATE that is committed on its own even inside force_replace.
ExpireAtOnce(r) ==
    /\ req[r].pc = "expire"
    /\ \E c \in req[r].todo :
        LET rows == {<<req[r].user, c>>} \intersect Seen(r)
        IN  /\ ~RowsBusy(r, rows)
            /\ regs' = regs \ rows
            /\ req' = [req EXCEPT ![r].todo = @ \ {c}, ![r].current = c,
                                  ![r].pc = "recount"]
    /\ UNCHANGED <<enrolled, cancelled, lock>>

\* The UPDATE that ends the registration.  It waits for the row; inside a
\* transaction (replace) it is not yet visible to others.  When the row is
\* already gone no signal is sent.
Expire(r) ==
    /\ req[r].pc = "expire"
    /\ \E c \in req[r].todo :
        LET rows == {<<req[r].user, c>>} \intersect Seen(r)
            next == [req[r] EXCEPT !.todo = @ \ {c}, !.current = c, !.pc = "recount"]
        IN  /\ ~RowsBusy(r, rows)
            /\ \/ /\ rows = {}
                  /\ req' = [req EXCEPT ![r] = AfterDrop(next)]
                  /\ UNCHANGED regs
               \/ /\ rows # {} /\ req[r].kind = "replace"
                  /\ req' = [req EXCEPT ![r] = [next EXCEPT !.dropped = @ \union rows]]
                  /\ UNCHANGED regs
               \/ /\ rows # {} /\ req[r].kind # "replace"
                  /\ req' = [req EXCEPT ![r] = next]
                  /\ regs' = regs \ rows
    /\ UNCHANGED <<enrolled, cancelled, lock>>

\* The post_save signal: DerivedField calls count_enrolled_students...
Recount(r) ==
    /\ req[r].pc = "recount"
    /\ req' = [req EXCEPT ![r].counted = SeenCount(r, req[r].current),
                          ![r].pc = "writeCount"]
    /\ UNCHANGED <<regs, enrolled, cancelled, lock>>

\* ...and stores the result in the row of the section, which it waits for.
WriteCount(r) ==
    LET c == req[r].current
        next == [req[r] EXCEPT !.counted = 0]
    IN  /\ req[r].pc = "writeCount"
        /\ Free(r, c)
        /\ IF req[r].kind = "replace"
           THEN /\ lock' = [lock EXCEPT ![c] = r]
                /\ req' = [req EXCEPT ![r] = AfterDrop(
                              [next EXCEPT !.columns = @ \union {<<c, req[r].counted>>}])]
                /\ UNCHANGED enrolled
           ELSE /\ enrolled' = [enrolled EXCEPT ![c] = req[r].counted]
                /\ req' = [req EXCEPT ![r] = AfterDrop(next)]
                /\ UNCHANGED lock
        /\ UNCHANGED <<regs, cancelled>>

-----------------------------------------------------------------------------
(* addclass_logic.                                                          *)

\* A plain SELECT of the section, then cannotAdd.
ReadSection(r) ==
    LET error == SectionError(r, req[r].user, req[r].section)
    IN  /\ req[r].pc = "lockSection"
        /\ \/ error /\ ~req[r].onsite /\ Abort(r)
           \/ /\ ~error \/ req[r].onsite
              /\ req' = [req EXCEPT ![r].pc = IF error THEN "register" ELSE "lockSubject"]
              /\ UNCHANGED <<regs, enrolled, cancelled, lock>>

\* select_for_update of the section, then cannotAdd.  Onsite users may
\* ignore the error; the class is then not locked.
LockSection(r) ==
    LET s == req[r].section
        error == SectionError(r, req[r].user, s)
    IN  /\ req[r].pc = "lockSection"
        /\ Free(r, s)
        /\ \/ error /\ ~req[r].onsite /\ Abort(r)
           \/ /\ ~error \/ req[r].onsite
              /\ lock' = [lock EXCEPT ![s] = r]
              /\ req' = [req EXCEPT ![r].pc = IF error THEN "register" ELSE "lockSubject"]
              /\ UNCHANGED <<regs, enrolled, cancelled>>

\* cannotAdd of the class without the row lock before it.
ReadSubject(r) ==
    /\ req[r].pc = "lockSubject"
    /\ \/ /\ SubjectError(r, req[r].user, ParentClass[req[r].section])
          /\ ~req[r].onsite
          /\ Abort(r)
       \/ /\ \/ ~SubjectError(r, req[r].user, ParentClass[req[r].section])
             \/ req[r].onsite
          /\ req' = [req EXCEPT ![r].pc = "register"]
          /\ UNCHANGED <<regs, enrolled, cancelled, lock>>

\* select_for_update of the class, then cannotAdd.
LockSubject(r) ==
    LET c == ParentClass[req[r].section]
        error == SubjectError(r, req[r].user, c)
    IN  /\ req[r].pc = "lockSubject"
        /\ Free(r, c)
        /\ \/ error /\ ~req[r].onsite /\ Abort(r)
           \/ /\ ~error \/ req[r].onsite
              /\ lock' = [lock EXCEPT ![c] = r]
              /\ req' = [req EXCEPT ![r].pc = "register"]
              /\ UNCHANGED <<regs, enrolled, cancelled>>

\* preregister_student: the section is locked already; when it is not full
\* (or the user is onsite) the registration is created, the column follows,
\* and the transaction commits with everything it dropped before.
Register(r) ==
    LET s == req[r].section
        after == Seen(r) \union {<<req[r].user, s>>}
    IN  /\ req[r].pc = "register"
        /\ Free(r, s)
        /\ \/ IsFull(r, s) /\ ~req[r].onsite /\ Abort(r)
           \/ /\ ~IsFull(r, s) \/ req[r].onsite
              /\ regs' = after
              /\ enrolled' = [x \in Sections |->
                     IF x = s /\ after # Seen(r)
                     THEN Cardinality({p \in after : p[2] = s})
                     ELSE SeenEnrolled(r, x)]
              /\ lock' = Released(r)
              /\ req' = [req EXCEPT ![r] = Idle]
              /\ UNCHANGED cancelled

-----------------------------------------------------------------------------
(* The transaction of ClassSection.cancel.                                  *)

\* clearStudents: one UPDATE of the valid registrations of the section.
ClearStudents(r) ==
    LET rows == {p \in Seen(r) : p[2] = req[r].section}
    IN  /\ req[r].pc = "clear"
        /\ ~RowsBusy(r, rows)
        /\ req' = [req EXCEPT ![r].dropped = rows, ![r].pc = "save"]
        /\ UNCHANGED <<regs, enrolled, cancelled, lock>>

\* The row of the section is written (the column by the signals of
\* clearStudents, the status by save()), for which it must be free.
SaveSection(r) ==
    /\ req[r].pc = "save"
    /\ Free(r, req[r].section)
    /\ lock' = [lock EXCEPT ![req[r].section] = r]
    /\ req' = [req EXCEPT ![r].pc = "saveClass"]
    /\ UNCHANGED <<regs, enrolled, cancelled>>

\* ClassSection.save: when all sections of the class are cancelled, so is
\* the class, whose row must be free; then the transaction commits.
CommitCancel(r) ==
    LET s == req[r].section
        c == ParentClass[s]
        all == SectionsOf(c) \subseteq cancelled \union {s}
    IN  /\ req[r].pc = "saveClass"
        /\ all => Free(r, c)
        /\ cancelled' = cancelled \union {s} \union (IF all THEN {c} ELSE {})
        /\ regs' = Seen(r)
        /\ enrolled' = [enrolled EXCEPT ![s] = SeenCount(r, s)]
        /\ lock' = Released(r)
        /\ req' = [req EXCEPT ![r] = Idle]

-----------------------------------------------------------------------------
(* Waiting.                                                                 *)

\* The registration rows and the rows of Rows that r needs next.
WantedRegs(r) ==
    CASE req[r].pc = "expire" -> {<<req[r].user, c>> : c \in req[r].todo}
      [] req[r].pc = "clear" -> {p \in Seen(r) : p[2] = req[r].section}
      [] OTHER -> {}

WantedRow(r) ==
    CASE req[r].pc = "writeCount" -> {req[r].current}
      [] req[r].pc \in {"lockSection", "save"} -> {req[r].section}
      [] req[r].pc \in {"lockSubject", "saveClass"} -> {ParentClass[req[r].section]}
      [] OTHER -> {}

WaitsFor(r) ==
    {q \in Requests \ {r} : \/ \E x \in WantedRow(r) : lock[x] = q
                            \/ WantedRegs(r) \intersect req[q].dropped # {}}

\* r is on a cycle of waiting transactions.
Deadlocked(r) ==
    \E S \in SUBSET Requests :
        /\ r \in S
        /\ \A q \in S : /\ WaitsFor(q) \intersect S # {}
                         /\ \E p \in S : q \in WaitsFor(p)

\* PostgreSQL finds the deadlock and fails the statement of one transaction.
DeadlockError(r) == Deadlocked(r) /\ Abort(r)

Begin(r) ==
    \/ "add" \in Kinds /\ \E u \in Students, s \in Sections, o \in OnsiteModes :
           BeginAdd(r, u, s, o)
    \/ "replace" \in Kinds /\ \E u \in Students, s \in Sections, o \in OnsiteModes :
           BeginReplace(r, u, s, o)
    \/ "clearslot" \in Kinds /\ \E u \in Students, t \in Times : BeginClearslot(r, u, t)
    \/ "cancel" \in Kinds /\ \E s \in Sections : BeginCancel(r, s)

Step(r) ==
    \/ Expire(r)
    \/ Recount(r)
    \/ WriteCount(r)
    \/ LockSection(r)
    \/ LockSubject(r)
    \/ Register(r)
    \/ ClearStudents(r)
    \/ SaveSection(r)
    \/ CommitCancel(r)
    \/ DeadlockError(r)

Next == \E r \in Requests : Begin(r) \/ Step(r)

Spec == Init /\ [][Next]_vars

-----------------------------------------------------------------------------
(* Properties.                                                              *)

\* Types of the database and of the requests.
Request ==
    [pc : {"idle", "expire", "recount", "writeCount", "lockSection",
           "lockSubject", "register", "clear", "save", "saveClass"},
     kind : {"none", "add", "replace", "clearslot", "cancel"},
     user : Students \union {None},
     section : Sections \union {None},
     onsite : BOOLEAN,
     todo : SUBSET Sections,
     current : Sections \union {None},
     dropped : SUBSET (Students \X Sections),
     counted : Nat,
     columns : SUBSET (Sections \X Nat)]

TypeOK ==
    /\ regs \subseteq Students \X Sections
    /\ enrolled \in [Sections -> Nat]
    /\ cancelled \subseteq Rows
    /\ lock \in [Rows -> Requests \union {None}]
    /\ req \in [Requests -> Request]

\* What the fields of a request hold at each point of its code.
WellFormed(f) ==
    /\ f.pc \in {"expire", "recount", "writeCount"} =>
           f.kind \in {"replace", "clearslot"} /\ f.user \in Students
    /\ f.pc \in {"recount", "writeCount"} => f.current \in Sections
    /\ f.kind = "replace" => f.user \in Students /\ f.section \in Sections
    /\ f.pc \in {"lockSection", "lockSubject", "register"} =>
           /\ f.kind \in {"add", "replace"}
           /\ f.user \in Students
           /\ f.section \in Sections
    /\ f.pc \in {"clear", "save", "saveClass"} =>
           f.kind = "cancel" /\ f.section \in Sections

ControlOK == \A r \in Requests : WellFormed(req[r])

\* What r holds, and what it has checked and relies on until it commits.
Protected(r) ==
    /\ req[r].pc \in {"lockSubject", "register", "saveClass"} =>
           lock[req[r].section] = r
    /\ req[r].pc = "register" /\ ~req[r].onsite =>
           lock[ParentClass[req[r].section]] = r
    /\ \/ req[r].pc = "lockSubject"
       \/ req[r].pc = "register" /\ ~req[r].onsite
       => req[r].section \notin cancelled

\* From the checks of addclass_logic to the commit the request holds the rows
\* it has checked, and the section stays as it was found, not cancelled
\* (onsite users may ignore that).  cancel() holds the section whose status it
\* is about to write.
LocksHeld == \A r \in Requests : Protected(r)

\* The number of students in s, from the registrations themselves.
Count(s) == Cardinality({p \in regs : p[2] = s})

\* How many students isFull admits: a section of capacity zero takes one.
Seats(s) == IF Capacity[s] = 0 THEN 1 ELSE Capacity[s]

\* This step is the commit of r, which is not onsite, and adds a student to s.
Admits(r, s) ==
    /\ req'[r] # req[r]
    /\ ~req[r].onsite
    /\ \E u \in Students : <<u, s>> \in regs' \ regs

\* "Concurrent registrations serialize on the capacity checks": however the
\* requests interleave, a student who is not onsite never gets a seat that
\* is not there.
NoOverfull ==
    [][\A s \in Sections, r \in Requests :
          Admits(r, s) => Count(s)' <= Seats(s)]_vars

\* A student never holds two sections of one class, even when two browser
\* windows add them at the same time (the row lock of the class).
OneSectionPerClass ==
    \A u \in Students, s, x \in Sections :
        /\ <<u, s>> \in regs
        /\ <<u, x>> \in regs
        /\ ParentClass[s] = ParentClass[x]
        => s = x

\* "Conflicting classes are only dropped if the replacement registration
\* succeeds": a force_replace that loses a seat for its student has won the
\* one it asked for, in the same commit.
ReplaceIsAtomic ==
    [][\A r \in Requests :
          /\ req[r].kind = "replace"
          /\ req'[r] # req[r]
          /\ regs \ regs' # {}
          => <<req[r].user, req[r].section>> \in regs']_vars

\* A section that is cancelled while a request is on its way takes no new
\* student: the row lock of addclass_logic keeps what cannotAdd has checked
\* true until the commit.  (Onsite users may ignore the error.)
NoNewStudentsInCancelled ==
    [][\A r \in Requests, s \in Sections : Admits(r, s) => s \notin cancelled]_vars

\* Every request comes to an end: locks are always released, and deadlocks
\* between force_replace requests are resolved.
RequestsFinish == \A r \in Requests : req[r] # Idle ~> req[r] = Idle
=============================================================================
