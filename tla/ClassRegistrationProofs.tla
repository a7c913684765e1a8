---------------------- MODULE ClassRegistrationProofs ----------------------
(***************************************************************************)
(* Proofs about ClassRegistration, for any number of students, sections,    *)
(* classes and workers.                                                     *)
(*                                                                          *)
(* RegistrationInv is the inductive invariant of the locking: the types,    *)
(* what a request holds at each point of its code (ControlOK) and the rows  *)
(* it has locked (LocksHeld).  It holds for every kind of request, onsite   *)
(* or not, and gives NoNewStudentsInCancelled and ReplaceIsAtomic.  Two     *)
(* strengthenings of it follow: OneClassInv, without onsite users, for      *)
(* OneSectionPerClass, and CountInv, for programs where students only add,  *)
(* for NoOverfull.                                                          *)
(***************************************************************************)
EXTENDS ClassRegistration, FiniteSetTheorems, TLAPS

\* A request record of the right type whose fields fit its place.
Good(f) == f \in Request /\ WellFormed(f)

\* The number of registrations of a section is a natural number.
LEMMA CountIsNat ==
    ASSUME NEW R \in SUBSET (Students \X Sections), NEW s \in Sections
    PROVE  Cardinality({p \in R : p[2] = s}) \in Nat
<1>1. IsFiniteSet(Students \X Sections)
  BY FS_Product, RegistrationAssumption
<1>2. {p \in R : p[2] = s} \subseteq Students \X Sections
  OBVIOUS
<1> QED
  BY <1>1, <1>2, FS_Subset, FS_CardinalityType

\* What a request sees has the types of what is stored.
LEMMA SeenType ==
    ASSUME TypeOK, NEW r \in Requests
    PROVE  /\ Seen(r) \subseteq Students \X Sections
           /\ \A s \in Sections : SeenCount(r, s) \in Nat
           /\ \A s \in Sections : SeenEnrolled(r, s) \in Nat
<1>1. Seen(r) \subseteq Students \X Sections
  BY DEF TypeOK, Seen
<1>2. ASSUME NEW s \in Sections PROVE SeenCount(r, s) \in Nat
  BY <1>1, CountIsNat DEF SeenCount
<1>3. ASSUME NEW s \in Sections PROVE SeenEnrolled(r, s) \in Nat
  <2>1. CASE \E c \in req[r].columns : c[1] = s
    <3>1. req[r].columns \subseteq Sections \X Nat
      BY DEF TypeOK, Request
    <3>2. (CHOOSE c \in req[r].columns : c[1] = s) \in Sections \X Nat
      BY <2>1, <3>1
    <3> QED BY <2>1, <3>2 DEF SeenEnrolled
  <2>2. CASE ~\E c \in req[r].columns : c[1] = s
    BY <2>2 DEF SeenEnrolled, TypeOK
  <2> QED BY <2>1, <2>2
<1> QED BY <1>1, <1>2, <1>3

\* A worker between two requests is well formed.
LEMMA IdleGood == Good(Idle)
BY DEF Good, Idle, Request, WellFormed

\* Going on to the next section, to the lock, or to the end.
LEMMA AfterDropGood ==
    ASSUME NEW f \in Request, f.kind \in {"replace", "clearslot"},
           f.user \in Students, f.kind = "replace" => f.section \in Sections
    PROVE  Good(AfterDrop(f))
<1>1. Good([f EXCEPT !.pc = "expire", !.current = None])
  BY DEF Good, Request, WellFormed
<1>2. f.kind = "replace" => Good([f EXCEPT !.pc = "lockSection", !.current = None])
  BY DEF Good, Request, WellFormed
<1> QED BY <1>1, <1>2, IdleGood DEF AfterDrop

\* When one worker becomes f, the workers keep their types.
LEMMA WorkerStep ==
    ASSUME TypeOK, ControlOK, NEW r \in Requests, NEW f, Good(f),
           req' = [req EXCEPT ![r] = f]
    PROVE  req' \in [Requests -> Request] /\ ControlOK'
BY DEF TypeOK, ControlOK, Good

\* Taking a row, and releasing the rows of a transaction.
LEMMA LockType ==
    ASSUME TypeOK, NEW r \in Requests
    PROVE  /\ Released(r) \in [Rows -> Requests \union {None}]
           /\ \A x \in Rows : [lock EXCEPT ![x] = r] \in [Rows -> Requests \union {None}]
BY DEF TypeOK, Released

\* The database starts empty and every worker idle.
LEMMA InitType == Init => TypeOK /\ ControlOK
BY IdleGood, RegistrationAssumption DEF Init, TypeOK, ControlOK, Good, Rows

\* A rollback leaves the types.
LEMMA AbortType ==
    ASSUME TypeOK, ControlOK, NEW r \in Requests, Abort(r)
    PROVE  TypeOK' /\ ControlOK'
BY IdleGood, WorkerStep, LockType DEF Abort, TypeOK

\* The arrival of a request, of each kind.
LEMMA BeginType ==
    ASSUME TypeOK, ControlOK, NEW r \in Requests, Begin(r)
    PROVE  TypeOK' /\ ControlOK'
<1> USE RegistrationAssumption
<1>1. ASSUME NEW u \in Students, NEW s \in Sections, NEW o \in OnsiteModes,
             BeginAdd(r, u, s, o)
      PROVE  TypeOK' /\ ControlOK'
  <2> DEFINE f == [Idle EXCEPT !.pc = "lockSection", !.kind = "add",
                               !.user = u, !.section = s, !.onsite = o]
  <2>1. Good(f)
    BY DEF Good, Idle, Request, WellFormed
  <2>2. req' = [req EXCEPT ![r] = f]
    BY <1>1 DEF BeginAdd, Start
  <2> QED BY <1>1, <2>1, <2>2, WorkerStep DEF BeginAdd, TypeOK
<1>2. ASSUME NEW u \in Students, NEW s \in Sections, NEW o \in OnsiteModes,
             BeginReplace(r, u, s, o)
      PROVE  TypeOK' /\ ControlOK'
  <2> DEFINE f == [Idle EXCEPT
                     !.pc = IF Conflicts(r, u, s) = {} THEN "lockSection" ELSE "expire",
                     !.kind = "replace", !.user = u, !.section = s,
                     !.onsite = o, !.todo = Conflicts(r, u, s)]
  <2>1. Conflicts(r, u, s) \subseteq Sections
    BY DEF Conflicts, EnrolledSections
  <2>2. Good(f)
    BY <2>1 DEF Good, Idle, Request, WellFormed
  <2>3. req' = [req EXCEPT ![r] = f]
    BY <1>2 DEF BeginReplace, Start
  <2> QED BY <1>2, <2>2, <2>3, WorkerStep DEF BeginReplace, TypeOK
<1>3. ASSUME NEW u \in Students, NEW t \in Times, BeginClearslot(r, u, t)
      PROVE  TypeOK' /\ ControlOK'
  <2> DEFINE old == {s \in EnrolledSections(r, u) : t \in MeetingTimes[s]}
             f == [Idle EXCEPT !.pc = "expire", !.kind = "clearslot",
                               !.user = u, !.todo = old]
  <2>1. old \subseteq Sections
    BY DEF EnrolledSections
  <2>2. Good(f)
    BY <2>1 DEF Good, Idle, Request, WellFormed
  <2>3. req' = [req EXCEPT ![r] = f]
    BY <1>3 DEF BeginClearslot, Start
  <2> QED BY <1>3, <2>2, <2>3, WorkerStep DEF BeginClearslot, TypeOK
<1>4. ASSUME NEW s \in Sections, BeginCancel(r, s)
      PROVE  TypeOK' /\ ControlOK'
  <2> DEFINE f == [Idle EXCEPT !.pc = "clear", !.kind = "cancel", !.section = s]
  <2>1. Good(f)
    BY DEF Good, Idle, Request, WellFormed
  <2>2. req' = [req EXCEPT ![r] = f]
    BY <1>4 DEF BeginCancel, Start
  <2> QED BY <1>4, <2>1, <2>2, WorkerStep DEF BeginCancel, TypeOK
<1> QED BY <1>1, <1>2, <1>3, <1>4 DEF Begin

\* Dropping a registration.
LEMMA ExpireType ==
    ASSUME TypeOK, ControlOK, NEW r \in Requests, Expire(r)
    PROVE  TypeOK' /\ ControlOK'
<1>1. PICK c \in req[r].todo :
        LET rows == {<<req[r].user, c>>} \intersect Seen(r)
            next == [req[r] EXCEPT !.todo = @ \ {c}, !.current = c, !.pc = "recount"]
        IN  \/ req' = [req EXCEPT ![r] = AfterDrop(next)] /\ UNCHANGED regs
            \/ /\ req' = [req EXCEPT ![r] = [next EXCEPT !.dropped = @ \union rows]]
               /\ UNCHANGED regs
            \/ req' = [req EXCEPT ![r] = next] /\ regs' = regs \ rows
  BY DEF Expire
<1> DEFINE rows == {<<req[r].user, c>>} \intersect Seen(r)
           next == [req[r] EXCEPT !.todo = @ \ {c}, !.current = c, !.pc = "recount"]
<1>2. req[r] \in Request /\ c \in Sections
  BY DEF TypeOK, Request
<1>3. /\ req[r].kind \in {"replace", "clearslot"}
      /\ req[r].user \in Students
      /\ req[r].kind = "replace" => req[r].section \in Sections
  BY DEF ControlOK, WellFormed, Expire
<1>4. rows \subseteq Students \X Sections
  BY SeenType
<1>5. Good(next) /\ Good([next EXCEPT !.dropped = @ \union rows])
  BY <1>2, <1>3, <1>4 DEF Good, WellFormed, Request
<1>6. Good(AfterDrop(next))
  BY <1>2, <1>3, <1>5, AfterDropGood DEF Good, Request
<1>7. req' \in [Requests -> Request] /\ ControlOK' /\ regs' \subseteq regs
  BY <1>1, <1>5, <1>6, WorkerStep
<1> QED BY <1>7 DEF Expire, TypeOK

\* Counting the students of the section.
LEMMA RecountType ==
    ASSUME TypeOK, ControlOK, NEW r \in Requests, Recount(r)
    PROVE  TypeOK' /\ ControlOK'
<1> DEFINE n == SeenCount(r, req[r].current)
           f == [req[r] EXCEPT !.counted = n, !.pc = "writeCount"]
<1>1. req[r] \in Request /\ WellFormed(req[r]) /\ req[r].pc = "recount"
  BY DEF TypeOK, ControlOK, Recount
<1>2. n \in Nat
  BY <1>1, SeenType DEF WellFormed
<1>3. Good(f)
  BY <1>1, <1>2 DEF Good, WellFormed, Request
<1>4. req' = [req EXCEPT ![r] = f]
  BY <1>1 DEF Recount, TypeOK
<1> QED BY <1>3, <1>4, WorkerStep DEF Recount, TypeOK

\* Storing the count.
LEMMA WriteCountType ==
    ASSUME TypeOK, ControlOK, NEW r \in Requests, WriteCount(r)
    PROVE  TypeOK' /\ ControlOK'
<1> DEFINE c == req[r].current
           next == [req[r] EXCEPT !.counted = 0]
           f == [next EXCEPT !.columns = @ \union {<<c, req[r].counted>>}]
<1>1. req[r] \in Request /\ WellFormed(req[r]) /\ req[r].pc = "writeCount"
  BY DEF TypeOK, ControlOK, WriteCount
<1>2. c \in Sections /\ req[r].counted \in Nat
  BY <1>1 DEF WellFormed, Request
<1>3. next \in Request /\ f \in Request
  <2>1. next \in Request
    BY <1>1 DEF Request
  <2>2. req[r].columns \union {<<c, req[r].counted>>} \subseteq Sections \X Nat
    BY <1>1, <1>2 DEF Request
  <2>3. next.columns = req[r].columns
    BY <1>1 DEF Request
  <2>4. f = [next EXCEPT !.columns = req[r].columns \union {<<c, req[r].counted>>}]
    BY <2>3
  <2>5. ASSUME NEW cols \in SUBSET (Sections \X Nat)
        PROVE  [next EXCEPT !.columns = cols] \in Request
    BY <2>1 DEF Request
  <2> QED BY <2>1, <2>2, <2>4, <2>5
<1>4. /\ next.kind = req[r].kind /\ next.user = req[r].user
      /\ next.section = req[r].section
      /\ f.kind = req[r].kind /\ f.user = req[r].user
      /\ f.section = req[r].section
  BY <1>1 DEF Request
<1>5. Good(AfterDrop(next)) /\ Good(AfterDrop(f))
  BY <1>1, <1>3, <1>4, AfterDropGood DEF WellFormed
<1>6. c \in Rows
  BY <1>2 DEF Rows
<1>7. CASE req[r].kind = "replace"
  <2>1. /\ req' = [req EXCEPT ![r] = AfterDrop(f)]
        /\ lock' = [lock EXCEPT ![c] = r]
        /\ UNCHANGED <<regs, enrolled, cancelled>>
    BY <1>7 DEF WriteCount
  <2> QED BY <1>5, <1>6, <2>1, WorkerStep, LockType DEF TypeOK
<1>8. CASE req[r].kind # "replace"
  <2>1. /\ req' = [req EXCEPT ![r] = AfterDrop(next)]
        /\ enrolled' = [enrolled EXCEPT ![c] = req[r].counted]
        /\ UNCHANGED <<regs, lock, cancelled>>
    BY <1>8 DEF WriteCount
  <2> QED BY <1>2, <1>5, <2>1, WorkerStep DEF TypeOK
<1> QED BY <1>7, <1>8

\* The checks of addclass_logic.
LEMMA LockSectionType ==
    ASSUME TypeOK, ControlOK, NEW r \in Requests, LockSection(r)
    PROVE  TypeOK' /\ ControlOK'
<1> DEFINE f(pc) == [req[r] EXCEPT !.pc = pc]
<1>1. req[r] \in Request /\ WellFormed(req[r]) /\ req[r].pc = "lockSection"
  BY DEF TypeOK, ControlOK, LockSection
<1>2. Good(f("register")) /\ Good(f("lockSubject"))
  BY <1>1 DEF Good, WellFormed, Request
<1>3. req[r].section \in Rows
  BY <1>1 DEF WellFormed, Rows
<1>4. CASE Abort(r)
  BY <1>4, AbortType
<1>5. CASE /\ lock' = [lock EXCEPT ![req[r].section] = r]
           /\ \E pc \in {"register", "lockSubject"} : req' = [req EXCEPT ![r] = f(pc)]
           /\ UNCHANGED <<regs, enrolled, cancelled>>
  BY <1>2, <1>3, <1>5, WorkerStep, LockType DEF TypeOK
<1> QED BY <1>1, <1>4, <1>5 DEF LockSection, TypeOK

\* The lock of the class.
LEMMA LockSubjectType ==
    ASSUME TypeOK, ControlOK, NEW r \in Requests, LockSubject(r)
    PROVE  TypeOK' /\ ControlOK'
<1> DEFINE f == [req[r] EXCEPT !.pc = "register"]
           c == ParentClass[req[r].section]
<1>1. req[r] \in Request /\ WellFormed(req[r]) /\ req[r].pc = "lockSubject"
  BY DEF TypeOK, ControlOK, LockSubject
<1>2. Good(f)
  BY <1>1 DEF Good, WellFormed, Request
<1>3. c \in Rows
  BY <1>1, RegistrationAssumption DEF WellFormed, Rows
<1>4. CASE Abort(r)
  BY <1>4, AbortType
<1>5. CASE /\ lock' = [lock EXCEPT ![c] = r]
           /\ req' = [req EXCEPT ![r] = f]
           /\ UNCHANGED <<regs, enrolled, cancelled>>
  BY <1>2, <1>3, <1>5, WorkerStep, LockType DEF TypeOK
<1> QED BY <1>1, <1>4, <1>5 DEF LockSubject, TypeOK

\* The commit of a registration.
LEMMA RegisterType ==
    ASSUME TypeOK, ControlOK, NEW r \in Requests, Register(r)
    PROVE  TypeOK' /\ ControlOK'
<1> DEFINE s == req[r].section
           after == Seen(r) \union {<<req[r].user, s>>}
<1>1. WellFormed(req[r]) /\ req[r].pc = "register"
  BY DEF ControlOK, Register
<1>2. s \in Sections /\ req[r].user \in Students
  BY <1>1 DEF WellFormed
<1>3. after \subseteq Students \X Sections
  BY <1>2, SeenType
<1>4. CASE Abort(r)
  BY <1>4, AbortType
<1>5. CASE /\ regs' = after
           /\ enrolled' = [x \in Sections |->
                  IF x = s /\ after # Seen(r)
                  THEN Cardinality({p \in after : p[2] = s})
                  ELSE SeenEnrolled(r, x)]
           /\ lock' = Released(r)
           /\ req' = [req EXCEPT ![r] = Idle]
           /\ UNCHANGED cancelled
  <2>1. Cardinality({p \in after : p[2] = s}) \in Nat
    BY <1>2, <1>3, CountIsNat
  <2>2. enrolled' \in [Sections -> Nat]
    BY <1>5, <2>1, SeenType
  <2> QED BY <1>3, <1>5, <2>2, IdleGood, WorkerStep, LockType DEF TypeOK
<1> QED BY <1>4, <1>5 DEF Register

\* The transaction of cancel().
LEMMA ClearStudentsType ==
    ASSUME TypeOK, ControlOK, NEW r \in Requests, ClearStudents(r)
    PROVE  TypeOK' /\ ControlOK'
<1> DEFINE rows == {p \in Seen(r) : p[2] = req[r].section}
           f == [req[r] EXCEPT !.dropped = rows, !.pc = "save"]
<1>1. req[r] \in Request /\ WellFormed(req[r]) /\ req[r].pc = "clear"
  BY DEF TypeOK, ControlOK, ClearStudents
<1>2. rows \subseteq Students \X Sections
  BY SeenType
<1>3. Good(f)
  BY <1>1, <1>2 DEF Good, WellFormed, Request
<1>4. req' = [req EXCEPT ![r] = f]
  BY <1>1 DEF ClearStudents, TypeOK
<1> QED BY <1>3, <1>4, WorkerStep DEF ClearStudents, TypeOK

\* The write of the row of the section.
LEMMA SaveSectionType ==
    ASSUME TypeOK, ControlOK, NEW r \in Requests, SaveSection(r)
    PROVE  TypeOK' /\ ControlOK'
<1> DEFINE f == [req[r] EXCEPT !.pc = "saveClass"]
<1>1. req[r] \in Request /\ WellFormed(req[r]) /\ req[r].pc = "save"
  BY DEF TypeOK, ControlOK, SaveSection
<1>2. Good(f)
  BY <1>1 DEF Good, WellFormed, Request
<1>3. req[r].section \in Rows
  BY <1>1 DEF WellFormed, Rows
<1>4. req' = [req EXCEPT ![r] = f]
  BY <1>1 DEF SaveSection, TypeOK
<1> QED BY <1>2, <1>3, <1>4, WorkerStep, LockType DEF SaveSection, TypeOK

\* The commit of cancel().
LEMMA CommitCancelType ==
    ASSUME TypeOK, ControlOK, NEW r \in Requests, CommitCancel(r)
    PROVE  TypeOK' /\ ControlOK'
<1> DEFINE s == req[r].section
           c == ParentClass[s]
<1>1. WellFormed(req[r]) /\ req[r].pc = "saveClass"
  BY DEF ControlOK, CommitCancel
<1>2. s \in Sections /\ s \in Rows /\ c \in Rows
  BY <1>1, RegistrationAssumption DEF WellFormed, Rows
<1>3. cancelled' \subseteq cancelled \union {s, c}
  BY DEF CommitCancel
<1>4. enrolled' \in [Sections -> Nat] /\ regs' \subseteq Students \X Sections
  BY <1>2, SeenType DEF CommitCancel, TypeOK
<1> QED BY <1>2, <1>3, <1>4, IdleGood, WorkerStep, LockType DEF CommitCancel, TypeOK

\* No step leaves the types.
LEMMA NextType ==
    ASSUME TypeOK, ControlOK, [Next]_vars
    PROVE  TypeOK' /\ ControlOK'
<1>1. ASSUME NEW r \in Requests, Begin(r) \/ Step(r)
      PROVE  TypeOK' /\ ControlOK'
  BY <1>1, BeginType, ExpireType, RecountType, WriteCountType, LockSectionType,
     LockSubjectType, RegisterType, ClearStudentsType, SaveSectionType,
     CommitCancelType, AbortType DEF Step, DeadlockError
<1>2. CASE UNCHANGED vars
  BY <1>2 DEF vars, TypeOK, ControlOK
<1> QED BY <1>1, <1>2 DEF Next

\* The types of the database and of the requests, for any number of students,
\* sections, classes and workers, and whatever kinds of request are made.
THEOREM RegistrationTypes == Spec => []TypeOK
<1>1. Spec => [](TypeOK /\ ControlOK)
  BY InitType, NextType, PTL DEF Spec
<1> QED BY <1>1, PTL

-----------------------------------------------------------------------------
(* The row locks.                                                           *)

\* A request other than the one that moves keeps its rows, and nobody else
\* cancels a section whose row it holds.
LEMMA OthersProtected ==
    ASSUME TypeOK, ControlOK, LocksHeld,
           NEW r \in Requests, NEW q \in Requests, q # r,
           req'[q] = req[q],
           \A x \in Rows : lock[x] = q => lock'[x] = q,
           \A s \in Sections : s \in cancelled' => s \in cancelled \/ lock[s] = r
    PROVE  Protected(q)'
<1>1. Protected(q) /\ WellFormed(req[q])
  BY DEF LocksHeld, ControlOK
<1>2. req[q].pc \in {"lockSubject", "register", "saveClass"} =>
          /\ req[q].section \in Sections
          /\ req[q].section \in Rows
          /\ ParentClass[req[q].section] \in Rows
  BY <1>1, RegistrationAssumption DEF WellFormed, Rows
<1> QED BY <1>1, <1>2 DEF Protected

\* The end of a transaction, by commit or by rollback.
LEMMA EndProtected ==
    ASSUME TypeOK, ControlOK, LocksHeld, NEW r \in Requests,
           req' = [req EXCEPT ![r] = Idle], lock' = Released(r),
           \A s \in Sections : s \in cancelled' => s \in cancelled \/ lock[s] = r
    PROVE  LocksHeld'
<1>1. ASSUME NEW q \in Requests, q # r PROVE Protected(q)'
  BY <1>1, OthersProtected DEF TypeOK, Released
<1>2. Protected(r)'
  BY DEF TypeOK, Protected, Idle
<1> QED BY <1>1, <1>2 DEF LocksHeld

\* A step that takes no row and reaches no place where one is needed.
LEMMA QuietProtected ==
    ASSUME TypeOK, ControlOK, LocksHeld, NEW r \in Requests, NEW f,
           req' = [req EXCEPT ![r] = f], UNCHANGED <<lock, cancelled>>,
           f.pc \notin {"lockSubject", "register", "saveClass"}
    PROVE  LocksHeld'
<1>1. ASSUME NEW q \in Requests, q # r PROVE Protected(q)'
  BY <1>1, OthersProtected DEF TypeOK
<1>2. Protected(r)'
  BY DEF TypeOK, Protected
<1> QED BY <1>1, <1>2 DEF LocksHeld

\* A step that takes the free row x.
LEMMA TakeProtected ==
    ASSUME TypeOK, ControlOK, LocksHeld, NEW r \in Requests, NEW f, NEW x \in Rows,
           Free(r, x), lock' = [lock EXCEPT ![x] = r],
           req' = [req EXCEPT ![r] = f], UNCHANGED cancelled,
           Protected(r)'
    PROVE  LocksHeld'
<1>1. ASSUME NEW q \in Requests, q # r PROVE Protected(q)'
  <2>1. req'[q] = req[q]
    BY <1>1 DEF TypeOK
  <2>2. \A y \in Rows : lock[y] = q => lock'[y] = q
    BY <1>1, RegistrationAssumption DEF TypeOK, Free
  <2> QED BY <1>1, <2>1, <2>2, OthersProtected
<1> QED BY <1>1 DEF LocksHeld

\* Where a request goes after a drop.
LEMMA AfterDropPlace ==
    ASSUME NEW f \in Request
    PROVE  AfterDrop(f).pc \notin {"lockSubject", "register", "saveClass"}
BY DEF AfterDrop, Idle, Request

\* Dropping a registration takes no row of a section.
LEMMA ExpireProtected ==
    ASSUME TypeOK, ControlOK, LocksHeld, NEW r \in Requests, Expire(r)
    PROVE  LocksHeld'
<1>1. PICK c \in req[r].todo :
        LET rows == {<<req[r].user, c>>} \intersect Seen(r)
            next == [req[r] EXCEPT !.todo = @ \ {c}, !.current = c, !.pc = "recount"]
        IN  \/ req' = [req EXCEPT ![r] = AfterDrop(next)]
            \/ req' = [req EXCEPT ![r] = [next EXCEPT !.dropped = @ \union rows]]
            \/ req' = [req EXCEPT ![r] = next]
  BY DEF Expire
<1> DEFINE rows == {<<req[r].user, c>>} \intersect Seen(r)
           next == [req[r] EXCEPT !.todo = @ \ {c}, !.current = c, !.pc = "recount"]
           gone == [next EXCEPT !.dropped = @ \union rows]
<1>2. req[r] \in Request /\ c \in Sections
  BY DEF TypeOK, Request
<1>3. next \in Request /\ next.pc = "recount" /\ gone.pc = "recount"
  BY <1>2 DEF Request
<1>4. PICK f : /\ req' = [req EXCEPT ![r] = f]
               /\ f.pc \notin {"lockSubject", "register", "saveClass"}
  BY <1>1, <1>3, AfterDropPlace
<1> QED BY <1>4, QuietProtected DEF Expire

\* Counting takes no row.
LEMMA RecountProtected ==
    ASSUME TypeOK, ControlOK, LocksHeld, NEW r \in Requests, Recount(r)
    PROVE  LocksHeld'
<1> DEFINE f == [req[r] EXCEPT !.counted = SeenCount(r, req[r].current),
                               !.pc = "writeCount"]
<1>1. req' = [req EXCEPT ![r] = f] /\ f.pc = "writeCount"
  BY DEF Recount, TypeOK, Request
<1> QED BY <1>1, QuietProtected DEF Recount

\* Inside force_replace the section of the dropped registration is taken.
LEMMA WriteCountProtected ==
    ASSUME TypeOK, ControlOK, LocksHeld, NEW r \in Requests, WriteCount(r)
    PROVE  LocksHeld'
<1> DEFINE c == req[r].current
           next == [req[r] EXCEPT !.counted = 0]
           f == [next EXCEPT !.columns = @ \union {<<c, req[r].counted>>}]
<1>1. req[r] \in Request /\ WellFormed(req[r]) /\ req[r].pc = "writeCount"
  BY DEF TypeOK, ControlOK, WriteCount
<1>2. c \in Sections /\ c \in Rows
  BY <1>1 DEF WellFormed, Rows
<1>3. next \in Request /\ f.todo = req[r].todo /\ f.kind = req[r].kind
  BY <1>1 DEF Request
<1>4. CASE req[r].kind = "replace"
  <2>1. /\ req' = [req EXCEPT ![r] = AfterDrop(f)]
        /\ lock' = [lock EXCEPT ![c] = r]
        /\ Free(r, c)
        /\ UNCHANGED cancelled
    BY <1>4 DEF WriteCount
  <2>2. AfterDrop(f).pc \notin {"lockSubject", "register", "saveClass"}
    BY <1>1 DEF AfterDrop, Idle, Request
  <2>3. Protected(r)'
    BY <2>1, <2>2 DEF Protected, TypeOK
  <2> QED BY <1>2, <2>1, <2>3, TakeProtected
<1>5. CASE req[r].kind # "replace"
  <2>1. /\ req' = [req EXCEPT ![r] = AfterDrop(next)]
        /\ UNCHANGED <<lock, cancelled>>
    BY <1>5 DEF WriteCount
  <2> QED BY <1>3, <2>1, AfterDropPlace, QuietProtected
<1> QED BY <1>4, <1>5

\* A rollback releases only its own rows.
LEMMA AbortProtected ==
    ASSUME TypeOK, ControlOK, LocksHeld, NEW r \in Requests, Abort(r)
    PROVE  LocksHeld'
BY EndProtected DEF Abort

\* What a new request may be.
Fresh(f) ==
    /\ f.pc \in {"lockSection", "expire", "clear"}
    /\ f.onsite \in OnsiteModes \union {FALSE}
    /\ f.dropped = {}
    /\ f.columns = {}
    /\ f.kind \in Kinds
    /\ f.pc = "expire" => f.kind \in {"replace", "clearslot"}

\* Every new request is Fresh, and nothing is stored yet.
LEMMA BeginFields ==
    ASSUME NEW r \in Requests, Begin(r)
    PROVE  /\ \E f : Fresh(f) /\ req' = [req EXCEPT ![r] = f]
           /\ UNCHANGED <<regs, enrolled, cancelled, lock>>
<1> DEFINE Goal == /\ \E f : Fresh(f) /\ req' = [req EXCEPT ![r] = f]
                   /\ UNCHANGED <<regs, enrolled, cancelled, lock>>
<1>1. ASSUME "add" \in Kinds, NEW u \in Students, NEW s \in Sections,
             NEW o \in OnsiteModes, BeginAdd(r, u, s, o)
      PROVE  Goal
  <2> DEFINE f == [Idle EXCEPT !.pc = "lockSection", !.kind = "add",
                               !.user = u, !.section = s, !.onsite = o]
  <2>1. Fresh(f)
    BY <1>1 DEF Fresh, Idle
  <2>2. req' = [req EXCEPT ![r] = f] /\ UNCHANGED <<regs, enrolled, cancelled, lock>>
    BY <1>1 DEF BeginAdd, Start
  <2> HIDE DEF f
  <2> QED BY <2>1, <2>2
<1>2. ASSUME "replace" \in Kinds, NEW u \in Students, NEW s \in Sections,
             NEW o \in OnsiteModes, BeginReplace(r, u, s, o)
      PROVE  Goal
  <2> DEFINE f == [Idle EXCEPT
                     !.pc = IF Conflicts(r, u, s) = {} THEN "lockSection" ELSE "expire",
                     !.kind = "replace", !.user = u, !.section = s,
                     !.onsite = o, !.todo = Conflicts(r, u, s)]
  <2>1. Fresh(f)
    BY <1>2 DEF Fresh, Idle
  <2>2. req' = [req EXCEPT ![r] = f] /\ UNCHANGED <<regs, enrolled, cancelled, lock>>
    BY <1>2 DEF BeginReplace, Start
  <2> HIDE DEF f
  <2> QED BY <2>1, <2>2
<1>3. ASSUME "clearslot" \in Kinds, NEW u \in Students, NEW t \in Times,
             BeginClearslot(r, u, t)
      PROVE  Goal
  <2> DEFINE f == [Idle EXCEPT !.pc = "expire", !.kind = "clearslot", !.user = u,
                     !.todo = {s \in EnrolledSections(r, u) : t \in MeetingTimes[s]}]
  <2>1. Fresh(f)
    BY <1>3 DEF Fresh, Idle
  <2>2. req' = [req EXCEPT ![r] = f] /\ UNCHANGED <<regs, enrolled, cancelled, lock>>
    BY <1>3 DEF BeginClearslot, Start
  <2> HIDE DEF f
  <2> QED BY <2>1, <2>2
<1>4. ASSUME "cancel" \in Kinds, NEW s \in Sections, BeginCancel(r, s)
      PROVE  Goal
  <2> DEFINE f == [Idle EXCEPT !.pc = "clear", !.kind = "cancel", !.section = s]
  <2>1. Fresh(f)
    BY <1>4 DEF Fresh, Idle
  <2>2. req' = [req EXCEPT ![r] = f] /\ UNCHANGED <<regs, enrolled, cancelled, lock>>
    BY <1>4 DEF BeginCancel, Start
  <2> HIDE DEF f
  <2> QED BY <2>1, <2>2
<1> HIDE DEF Goal
<1>5. Goal
  BY <1>1, <1>2, <1>3, <1>4 DEF Begin
<1> QED BY <1>5 DEF Goal

\* A new request holds nothing.
LEMMA BeginProtected ==
    ASSUME TypeOK, ControlOK, LocksHeld, NEW r \in Requests, Begin(r)
    PROVE  LocksHeld'
BY BeginFields, QuietProtected DEF Fresh

\* The section is locked before cannotAdd looks at it, and an error that is
\* ignored means an onsite user.
LEMMA LockSectionProtected ==
    ASSUME TypeOK, ControlOK, LocksHeld, NEW r \in Requests, LockSection(r)
    PROVE  LocksHeld'
<1> DEFINE s == req[r].section
           error == SectionError(r, req[r].user, s)
           f == [req[r] EXCEPT !.pc = IF error THEN "register" ELSE "lockSubject"]
<1>1. req[r] \in Request /\ WellFormed(req[r]) /\ req[r].pc = "lockSection"
  BY DEF TypeOK, ControlOK, LockSection
<1>2. s \in Sections /\ s \in Rows
  BY <1>1 DEF WellFormed, Rows
<1>3. CASE Abort(r)
  BY <1>3, AbortProtected
<1>4. CASE /\ ~error \/ req[r].onsite
           /\ lock' = [lock EXCEPT ![s] = r]
           /\ req' = [req EXCEPT ![r].pc = IF error THEN "register" ELSE "lockSubject"]
           /\ UNCHANGED <<regs, enrolled, cancelled>>
  <2>1. req' = [req EXCEPT ![r] = f] /\ req'[r] = f
    BY <1>4 DEF TypeOK
  <2>2. /\ f.section = s /\ f.onsite = req[r].onsite
        /\ f.pc = IF error THEN "register" ELSE "lockSubject"
    BY <1>1 DEF Request
  <2>3. lock'[s] = r
    BY <1>2, <1>4 DEF TypeOK
  <2>4. ~error => s \notin cancelled'
    BY <1>4 DEF SectionError
  <2>5. Protected(r)'
    <3> HIDE DEF f, s, error
    <3>1. CASE error
      BY <1>4, <2>1, <2>2, <2>3, <3>1 DEF Protected
    <3>2. CASE ~error
      BY <2>1, <2>2, <2>3, <2>4, <3>2 DEF Protected
    <3> QED BY <3>1, <3>2
  <2> QED BY <1>2, <1>4, <2>1, <2>5, TakeProtected DEF LockSection
<1> QED BY <1>3, <1>4 DEF LockSection

\* The class is locked next; the section is still held.
LEMMA LockSubjectProtected ==
    ASSUME TypeOK, ControlOK, LocksHeld, NEW r \in Requests, LockSubject(r)
    PROVE  LocksHeld'
<1> DEFINE s == req[r].section
           c == ParentClass[s]
           f == [req[r] EXCEPT !.pc = "register"]
<1>1. /\ req[r] \in Request /\ WellFormed(req[r]) /\ Protected(r)
      /\ req[r].pc = "lockSubject"
  BY DEF TypeOK, ControlOK, LocksHeld, LockSubject
<1>2. s \in Rows /\ c \in Rows
  BY <1>1, RegistrationAssumption DEF WellFormed, Rows
<1>3. CASE Abort(r)
  BY <1>3, AbortProtected
<1>4. CASE /\ lock' = [lock EXCEPT ![c] = r]
           /\ req' = [req EXCEPT ![r].pc = "register"]
           /\ UNCHANGED <<regs, enrolled, cancelled>>
  <2>1. req' = [req EXCEPT ![r] = f] /\ req'[r] = f
    BY <1>4 DEF TypeOK
  <2>2. f.section = s /\ f.pc = "register"
    BY <1>1 DEF Request
  <2>3. lock'[s] = r /\ lock'[c] = r
    BY <1>1, <1>2, <1>4 DEF TypeOK, Protected
  <2>4. s \notin cancelled'
    BY <1>1, <1>4 DEF Protected
  <2>5. Protected(r)'
    BY <2>1, <2>2, <2>3, <2>4 DEF Protected
  <2> QED BY <1>2, <1>4, <2>1, <2>5, TakeProtected DEF LockSubject
<1> QED BY <1>3, <1>4 DEF LockSubject

\* cancel() writes the status of a section it holds.
LEMMA CancelProtected ==
    ASSUME TypeOK, ControlOK, LocksHeld, NEW r \in Requests,
           ClearStudents(r) \/ SaveSection(r) \/ CommitCancel(r)
    PROVE  LocksHeld'
<1> DEFINE s == req[r].section
<1>1. req[r] \in Request /\ WellFormed(req[r]) /\ Protected(r) /\ s \in Sections
  BY DEF TypeOK, ControlOK, LocksHeld, WellFormed, ClearStudents, SaveSection,
         CommitCancel
<1>2. CASE ClearStudents(r)
  <2> DEFINE f == [req[r] EXCEPT !.dropped = {p \in Seen(r) : p[2] = s}, !.pc = "save"]
  <2>1. req' = [req EXCEPT ![r] = f] /\ f.pc = "save"
    BY <1>1, <1>2 DEF ClearStudents, TypeOK, Request
  <2> QED BY <1>2, <2>1, QuietProtected DEF ClearStudents
<1>3. CASE SaveSection(r)
  <2> DEFINE f == [req[r] EXCEPT !.pc = "saveClass"]
  <2>1. req' = [req EXCEPT ![r] = f] /\ req'[r] = f
    BY <1>3 DEF SaveSection, TypeOK
  <2>2. f.pc = "saveClass" /\ f.section = s
    BY <1>1 DEF Request
  <2>3. s \in Rows /\ lock' = [lock EXCEPT ![s] = r] /\ lock'[s] = r
    BY <1>1, <1>3 DEF Rows, SaveSection, TypeOK
  <2>4. Protected(r)'
    BY <2>1, <2>2, <2>3 DEF Protected
  <2> QED BY <1>3, <2>1, <2>3, <2>4, TakeProtected DEF SaveSection
<1>4. CASE CommitCancel(r)
  <2>1. lock[s] = r
    BY <1>1, <1>4 DEF CommitCancel, Protected
  <2>2. ParentClass[s] \notin Sections
    BY <1>1, RegistrationAssumption
  <2>3. \A x \in Sections : x \in cancelled' => x \in cancelled \/ lock[x] = r
    BY <1>4, <2>1, <2>2 DEF CommitCancel
  <2> QED BY <1>4, <2>3, EndProtected DEF CommitCancel
<1> QED BY <1>2, <1>3, <1>4

\* preregister_student ends its transaction.
LEMMA RegisterProtected ==
    ASSUME TypeOK, ControlOK, LocksHeld, NEW r \in Requests, Register(r)
    PROVE  LocksHeld'
BY AbortProtected, EndProtected DEF Register

\* What the types and the locks need to be proved together.
RegistrationInv == TypeOK /\ ControlOK /\ LocksHeld

\* The invariant is inductive.
LEMMA NextInv == RegistrationInv /\ [Next]_vars => RegistrationInv'
<1> SUFFICES ASSUME RegistrationInv, [Next]_vars PROVE RegistrationInv'
  OBVIOUS
<1>1. TypeOK' /\ ControlOK'
  BY NextType DEF RegistrationInv
<1>2. ASSUME NEW r \in Requests, Begin(r) \/ Step(r)
      PROVE  LocksHeld'
  BY <1>2, BeginProtected, ExpireProtected, RecountProtected, WriteCountProtected,
     LockSectionProtected, LockSubjectProtected, RegisterProtected,
     CancelProtected, AbortProtected DEF RegistrationInv, Step, DeadlockError
<1>3. CASE UNCHANGED vars
  BY <1>1, <1>3 DEF vars, RegistrationInv, LocksHeld, Protected
<1> QED BY <1>1, <1>2, <1>3 DEF Next, RegistrationInv

\* The invariant holds in every behaviour.
LEMMA InvHolds == Spec => []RegistrationInv
<1>1. Init => RegistrationInv
  <2>1. Init => LocksHeld
    BY DEF Init, LocksHeld, Protected, Idle
  <2> QED BY <2>1, InitType DEF RegistrationInv
<1> QED BY <1>1, NextInv, PTL DEF Spec

\* The rows that addclass_logic and cancel() have locked stay theirs, and what
\* was checked about the section stays true, until they commit.
THEOREM RowsStayLocked == Spec => []LocksHeld
<1>1. RegistrationInv => LocksHeld
  BY DEF RegistrationInv
<1> QED BY <1>1, InvHolds, PTL

-----------------------------------------------------------------------------
(* What a step does to the registrations.                                   *)

\* Only the worker that moves changes, and only the commit of preregister_student
\* adds a registration: one, for its user and section, when the section was not
\* full or the user is onsite.
LEMMA RegsChange ==
    ASSUME RegistrationInv, NEW r \in Requests, Begin(r) \/ Step(r)
    PROVE  /\ \A q \in Requests : q # r => req'[q] = req[q]
           /\ \/ regs' \subseteq regs
              \/ /\ req[r].pc = "register"
                 /\ ~IsFull(r, req[r].section) \/ req[r].onsite
                 /\ regs' = Seen(r) \union {<<req[r].user, req[r].section>>}
<1> USE DEF RegistrationInv, TypeOK
<1>1. CASE Begin(r)
  BY <1>1 DEF Begin, BeginAdd, BeginReplace, BeginClearslot, BeginCancel, Start
<1>2. CASE Expire(r)
  BY <1>2 DEF Expire
<1>3. CASE Recount(r)
  BY <1>3 DEF Recount
<1>4. CASE WriteCount(r)
  BY <1>4 DEF WriteCount
<1>5. CASE LockSection(r)
  BY <1>5 DEF LockSection, Abort
<1>6. CASE LockSubject(r)
  BY <1>6 DEF LockSubject, Abort
<1>7. CASE Register(r)
  BY <1>7 DEF Register, Abort
<1>8. CASE ClearStudents(r)
  BY <1>8 DEF ClearStudents
<1>9. CASE SaveSection(r)
  BY <1>9 DEF SaveSection
<1>10. CASE CommitCancel(r)
  BY <1>10 DEF CommitCancel, Seen
<1>11. CASE DeadlockError(r)
  BY <1>11 DEF DeadlockError, Abort
<1> QED BY <1>1, <1>2, <1>3, <1>4, <1>5, <1>6, <1>7, <1>8, <1>9, <1>10, <1>11 DEF Step

\* A student who is not onsite is never added to a cancelled section.
THEOREM CancelledTakesNobody == Spec => NoNewStudentsInCancelled
<1> DEFINE P == \A r \in Requests, s \in Sections : Admits(r, s) => s \notin cancelled
<1>1. RegistrationInv /\ [Next]_vars => [P]_vars
  <2> SUFFICES ASSUME RegistrationInv, NEW q \in Requests, Begin(q) \/ Step(q),
                      NEW r \in Requests, NEW s \in Sections, Admits(r, s)
               PROVE  s \notin cancelled
    BY DEF Next
  <2>1. PICK u \in Students : <<u, s>> \in regs' \ regs
    BY DEF Admits
  <2>2. r = q
    BY RegsChange DEF Admits
  <2>3. /\ req[r].pc = "register"
        /\ regs' = Seen(r) \union {<<req[r].user, req[r].section>>}
    BY <2>1, <2>2, RegsChange
  <2>4. s = req[r].section
    BY <2>1, <2>3 DEF Seen
  <2> QED BY <2>3, <2>4 DEF Admits, RegistrationInv, LocksHeld, Protected
<1> QED BY <1>1, InvHolds, PTL DEF Spec, NoNewStudentsInCancelled

\* A force_replace request touches the committed registrations only in its
\* commit, which includes the new one.
LEMMA ReplaceRegs ==
    ASSUME RegistrationInv, NEW r \in Requests, Begin(r) \/ Step(r),
           req[r].kind = "replace"
    PROVE  \/ regs' = regs
           \/ <<req[r].user, req[r].section>> \in regs'
<1>1. WellFormed(req[r])
  BY DEF RegistrationInv, ControlOK
<1>2. CASE Begin(r)
  BY <1>2 DEF Begin, BeginAdd, BeginReplace, BeginClearslot, BeginCancel
<1>3. CASE Expire(r)
  BY <1>3 DEF Expire
<1>4. CASE CommitCancel(r)
  BY <1>1, <1>4 DEF CommitCancel, WellFormed
<1>5. CASE Register(r)
  BY <1>5 DEF Register, Abort
<1>6. CASE \/ Recount(r) \/ WriteCount(r) \/ LockSection(r) \/ LockSubject(r)
           \/ ClearStudents(r) \/ SaveSection(r) \/ DeadlockError(r)
  BY <1>6 DEF Recount, WriteCount, LockSection, LockSubject, ClearStudents,
              SaveSection, DeadlockError, Abort
<1> QED BY <1>2, <1>3, <1>4, <1>5, <1>6 DEF Step

\* The conflicting classes are only dropped together with the new registration.
THEOREM SwapIsAtomic == Spec => ReplaceIsAtomic
<1> DEFINE P == \A r \in Requests :
                  /\ req[r].kind = "replace"
                  /\ req'[r] # req[r]
                  /\ regs \ regs' # {}
                  => <<req[r].user, req[r].section>> \in regs'
<1>1. RegistrationInv /\ [Next]_vars => [P]_vars
  <2> SUFFICES ASSUME RegistrationInv, NEW q \in Requests, Begin(q) \/ Step(q),
                      NEW r \in Requests, req[r].kind = "replace",
                      req'[r] # req[r], regs \ regs' # {}
               PROVE  <<req[r].user, req[r].section>> \in regs'
    BY DEF Next
  <2>1. r = q
    BY RegsChange
  <2> QED BY <2>1, ReplaceRegs
<1> QED BY <1>1, InvHolds, PTL DEF Spec, ReplaceIsAtomic

-----------------------------------------------------------------------------
(* One section per class.                                                   *)

\* The request is not made by an onsite user.
NotOnsite(f) == ~f.onsite

\* The user of r has no section of the class it is about to register for.
Unclaimed(r) ==
    req[r].pc = "register" =>
        \A x \in Sections : ParentClass[x] = ParentClass[req[r].section] =>
            <<req[r].user, x>> \notin Seen(r)

OneClassInv ==
    /\ RegistrationInv
    /\ \A r \in Requests : NotOnsite(req[r])
    /\ OneSectionPerClass
    /\ \A r \in Requests : Unclaimed(r)

\* No request becomes onsite when none starts so.
LEMMA NotOnsiteStep ==
    ASSUME RegistrationInv, NEW r \in Requests, Begin(r) \/ Step(r),
           OnsiteModes = {FALSE}, NotOnsite(req[r])
    PROVE  NotOnsite(req'[r])
<1> USE DEF RegistrationInv, TypeOK, NotOnsite
<1>0. req[r] \in Request
  OBVIOUS
<1>1. CASE Begin(r)
  <2>1. PICK f : req' = [req EXCEPT ![r] = f] /\ f.onsite = FALSE
    BY <1>1, BeginFields DEF Fresh
  <2> QED BY <2>1
<1>2. ASSUME NEW f \in Request, NotOnsite(f) PROVE NotOnsite(AfterDrop(f))
  BY <1>2 DEF AfterDrop, Idle, Request
<1>3. CASE Expire(r)
  <2>1. PICK c \in req[r].todo :
        LET rows == {<<req[r].user, c>>} \intersect Seen(r)
            next == [req[r] EXCEPT !.todo = @ \ {c}, !.current = c, !.pc = "recount"]
        IN  \/ req' = [req EXCEPT ![r] = AfterDrop(next)]
            \/ req' = [req EXCEPT ![r] = [next EXCEPT !.dropped = @ \union rows]]
            \/ req' = [req EXCEPT ![r] = next]
    BY <1>3 DEF Expire
  <2> DEFINE rows == {<<req[r].user, c>>} \intersect Seen(r)
             next == [req[r] EXCEPT !.todo = @ \ {c}, !.current = c, !.pc = "recount"]
             gone == [next EXCEPT !.dropped = @ \union rows]
  <2>2. next \in Request /\ NotOnsite(next) /\ NotOnsite(gone)
    BY <1>0 DEF Request
  <2> QED BY <1>2, <2>1, <2>2
<1>4. CASE WriteCount(r)
  <2> DEFINE next == [req[r] EXCEPT !.counted = 0]
             f == [next EXCEPT !.columns = @ \union {<<req[r].current, req[r].counted>>}]
  <2>1. req' = [req EXCEPT ![r] = AfterDrop(f)] \/ req' = [req EXCEPT ![r] = AfterDrop(next)]
    BY <1>4 DEF WriteCount
  <2>2. NotOnsite(AfterDrop(f)) /\ NotOnsite(AfterDrop(next))
    BY <1>0 DEF AfterDrop, Idle, Request
  <2> QED BY <2>1, <2>2
<1>5. CASE Recount(r) \/ ClearStudents(r) \/ SaveSection(r)
  BY <1>0, <1>5 DEF Recount, ClearStudents, SaveSection, Request
<1>6. CASE LockSection(r) \/ LockSubject(r)
  BY <1>0, <1>6 DEF LockSection, LockSubject, Abort, Idle, Request
<1>7. CASE Register(r) \/ CommitCancel(r) \/ DeadlockError(r)
  BY <1>7 DEF Register, CommitCancel, DeadlockError, Abort, Idle
<1> QED BY <1>1, <1>3, <1>4, <1>5, <1>6, <1>7 DEF Step

\* The actor of a step comes to "register" with nothing of the class in its
\* schedule: cannotAdd of the class has just looked, holding the class.
LEMMA UnclaimedActor ==
    ASSUME RegistrationInv, NEW r \in Requests, Begin(r) \/ Step(r), NotOnsite(req[r])
    PROVE  Unclaimed(r)'
<1> USE DEF RegistrationInv, TypeOK
<1>0. req[r] \in Request
  OBVIOUS
<1>1. CASE LockSubject(r)
  <2> DEFINE f == [req[r] EXCEPT !.pc = "register"]
             c == ParentClass[req[r].section]
  <2>1. CASE Abort(r)
    BY <2>1 DEF Abort, Unclaimed, Idle
  <2>2. CASE /\ ~SubjectError(r, req[r].user, c)
             /\ req' = [req EXCEPT ![r].pc = "register"]
             /\ UNCHANGED regs
    <3>1. req'[r] = f /\ f.section = req[r].section /\ f.user = req[r].user
          /\ f.dropped = req[r].dropped
      BY <1>0, <2>2 DEF Request
    <3>2. Seen(r)' = Seen(r)
      BY <2>2, <3>1 DEF Seen
    <3>3. \A x \in Sections : ParentClass[x] = c => <<req[r].user, x>> \notin Seen(r)
      BY <2>2 DEF SubjectError, EnrolledSections, SectionsOf
    <3> QED BY <3>1, <3>2, <3>3 DEF Unclaimed
  <2> QED BY <1>1, <2>1, <2>2 DEF LockSubject, NotOnsite
<1>2. CASE LockSection(r)
  <2>1. CASE Abort(r)
    BY <2>1 DEF Abort, Unclaimed, Idle
  <2>2. CASE req' = [req EXCEPT ![r].pc = "lockSubject"]
    BY <1>0, <2>2 DEF Unclaimed, Request
  <2> QED BY <1>2, <2>1, <2>2 DEF LockSection, NotOnsite
<1>3. ASSUME NEW f, req' = [req EXCEPT ![r] = f], f.pc # "register"
      PROVE  Unclaimed(r)'
  BY <1>3 DEF Unclaimed
<1>4. CASE Begin(r)
  <2>1. PICK f : req' = [req EXCEPT ![r] = f] /\ f.pc # "register"
    BY <1>4, BeginFields DEF Fresh
  <2> QED BY <1>3, <2>1
<1>5. CASE Expire(r)
  <2>1. PICK c \in req[r].todo :
        LET rows == {<<req[r].user, c>>} \intersect Seen(r)
            next == [req[r] EXCEPT !.todo = @ \ {c}, !.current = c, !.pc = "recount"]
        IN  \/ req' = [req EXCEPT ![r] = AfterDrop(next)]
            \/ req' = [req EXCEPT ![r] = [next EXCEPT !.dropped = @ \union rows]]
            \/ req' = [req EXCEPT ![r] = next]
    BY <1>5 DEF Expire
  <2> DEFINE rows == {<<req[r].user, c>>} \intersect Seen(r)
             next == [req[r] EXCEPT !.todo = @ \ {c}, !.current = c, !.pc = "recount"]
             gone == [next EXCEPT !.dropped = @ \union rows]
  <2>2. next \in Request /\ next.pc = "recount" /\ gone.pc = "recount"
    BY <1>0 DEF Request
  <2> QED BY <1>3, <2>1, <2>2, AfterDropPlace
<1>6. CASE WriteCount(r)
  <2> DEFINE next == [req[r] EXCEPT !.counted = 0]
             f == [next EXCEPT !.columns = @ \union {<<req[r].current, req[r].counted>>}]
  <2>1. req' = [req EXCEPT ![r] = AfterDrop(f)] \/ req' = [req EXCEPT ![r] = AfterDrop(next)]
    BY <1>6 DEF WriteCount
  <2>2. AfterDrop(f).pc # "register" /\ AfterDrop(next).pc # "register"
    BY <1>0 DEF AfterDrop, Idle, Request
  <2> QED BY <1>3, <2>1, <2>2
<1>7. CASE Recount(r) \/ ClearStudents(r) \/ SaveSection(r)
  BY <1>0, <1>7 DEF Recount, ClearStudents, SaveSection, Request, Unclaimed
<1>8. CASE Register(r) \/ CommitCancel(r) \/ DeadlockError(r)
  BY <1>8 DEF Register, CommitCancel, DeadlockError, Abort, Idle, Unclaimed
<1> QED BY <1>1, <1>2, <1>4, <1>5, <1>6, <1>7, <1>8 DEF Step

\* OneClassInv is inductive: whoever adds a section of the class holds the
\* row of the class, so nobody else can.
LEMMA OneClassStep ==
    ASSUME OneClassInv, OnsiteModes = {FALSE}, [Next]_vars
    PROVE  OneClassInv'
<1>1. RegistrationInv'
  BY NextInv DEF OneClassInv
<1>2. CASE UNCHANGED vars
  BY <1>1, <1>2 DEF vars, OneClassInv, OneSectionPerClass, Unclaimed, Seen
<1>3. ASSUME NEW r \in Requests, Begin(r) \/ Step(r)
      PROVE  OneClassInv'
  <2> DEFINE u == req[r].user
             s == req[r].section
  <2>1. \A q \in Requests : q # r => req'[q] = req[q]
    BY <1>3, RegsChange DEF OneClassInv
  <2>2. \A q \in Requests : NotOnsite(req'[q])
    BY <1>3, <2>1, NotOnsiteStep DEF OneClassInv
  <2>3. CASE regs' \subseteq regs
    <3>1. OneSectionPerClass'
      BY <2>3 DEF OneClassInv, OneSectionPerClass
    <3>2. ASSUME NEW q \in Requests, q # r PROVE Unclaimed(q)'
      BY <2>1, <2>3, <3>2 DEF OneClassInv, Unclaimed, Seen
    <3> QED BY <1>1, <1>3, <2>2, <3>1, <3>2, UnclaimedActor DEF OneClassInv
  <2>4. CASE /\ req[r].pc = "register"
             /\ regs' = Seen(r) \union {<<u, s>>}
    <3>1. /\ s \in Sections /\ u \in Students /\ ParentClass[s] \in Rows
          /\ lock[ParentClass[s]] = r
      BY <2>4, RegistrationAssumption
         DEF OneClassInv, RegistrationInv, ControlOK, WellFormed, LocksHeld,
             Protected, NotOnsite, Rows
    <3>2. \A x \in Sections : ParentClass[x] = ParentClass[s] => <<u, x>> \notin Seen(r)
      BY <2>4 DEF OneClassInv, Unclaimed
    <3>3. OneSectionPerClass'
      BY <2>4, <3>1, <3>2 DEF OneClassInv, OneSectionPerClass, Seen
    <3>4. ASSUME NEW q \in Requests, q # r PROVE Unclaimed(q)'
      <4>1. CASE req[q].pc = "register"
        <5>1. lock[ParentClass[req[q].section]] = q
          BY <4>1 DEF OneClassInv, RegistrationInv, LocksHeld, Protected, NotOnsite
        <5>2. ParentClass[req[q].section] # ParentClass[s]
          BY <3>1, <3>4, <5>1
        <5>3. regs' \subseteq regs \union {<<u, s>>}
          BY <2>4 DEF Seen
        <5>4. \A x \in Sections : ParentClass[x] = ParentClass[req[q].section] =>
                 <<req[q].user, x>> \notin Seen(q)
          BY <4>1 DEF OneClassInv, Unclaimed
        <5> QED BY <2>1, <3>4, <5>2, <5>3, <5>4 DEF Unclaimed, Seen
      <4>2. CASE req[q].pc # "register"
        BY <2>1, <3>4, <4>2 DEF Unclaimed
      <4> QED BY <4>1, <4>2
    <3> QED BY <1>1, <1>3, <2>2, <3>3, <3>4, UnclaimedActor DEF OneClassInv
  <2> QED BY <1>3, <2>3, <2>4, RegsChange DEF OneClassInv
<1> QED BY <1>2, <1>3 DEF Next

\* Without onsite users no student ever holds two sections of one class,
\* whatever requests run at the same time.
THEOREM NoSecondSection == OnsiteModes = {FALSE} => (Spec => []OneSectionPerClass)
<1> SUFFICES ASSUME OnsiteModes = {FALSE} PROVE Spec => []OneSectionPerClass
  OBVIOUS
<1>1. Init => OneClassInv
  <2>1. Init => RegistrationInv
    BY InitType DEF Init, RegistrationInv, LocksHeld, Protected, Idle
  <2> QED BY <2>1 DEF Init, OneClassInv, OneSectionPerClass, NotOnsite, Unclaimed, Idle
<1>2. OneClassInv /\ [Next]_vars => OneClassInv'
  BY OneClassStep
<1>3. OneClassInv => OneSectionPerClass
  BY DEF OneClassInv
<1> QED BY <1>1, <1>2, <1>3, PTL DEF Spec

-----------------------------------------------------------------------------
(* Capacity.  A drop may write a stale count (EnrolledStudentsExact), so     *)
(* this part is about programs where students only add.                     *)

\* Requests of the kinds "add" and "cancel" write no column before they
\* commit, and only cancel() drops rows, all of its own section.
Plain(f) ==
    /\ f.pc \notin {"expire", "recount", "writeCount"}
    /\ f.columns = {}
    /\ f.dropped # {} => f.kind = "cancel"
    /\ \A p \in f.dropped : p[2] = f.section

CountInv ==
    /\ RegistrationInv
    /\ \A r \in Requests : Plain(req[r])
    /\ \A s \in Sections : enrolled[s] = Count(s)

\* Such a request sees the committed count.
LEMMA PlainSees ==
    ASSUME NEW r \in Requests, Plain(req[r]), NEW s \in Sections
    PROVE  SeenEnrolled(r, s) = enrolled[s]
BY DEF Plain, SeenEnrolled

\* Adding one pair adds at most one to the count of its section, and nothing
\* to the others.
LEMMA AddOne ==
    ASSUME NEW R \in SUBSET (Students \X Sections), NEW u \in Students,
           NEW s \in Sections, NEW x \in Sections
    PROVE  LET after == R \union {<<u, s>>}
           IN  /\ x # s => {p \in after : p[2] = x} = {p \in R : p[2] = x}
               /\ Cardinality({p \in after : p[2] = s}) <=
                      Cardinality({p \in R : p[2] = s}) + 1
<1> DEFINE after == R \union {<<u, s>>}
           A == {p \in R : p[2] = s}
<1>1. x # s => {p \in after : p[2] = x} = {p \in R : p[2] = x}
  OBVIOUS
<1>2. {p \in after : p[2] = s} = A \union {<<u, s>>}
  OBVIOUS
<1>3. IsFiniteSet(A)
  <2>1. IsFiniteSet(Students \X Sections) /\ A \subseteq Students \X Sections
    BY FS_Product, RegistrationAssumption
  <2> QED BY <2>1, FS_Subset
<1>4. /\ Cardinality(A) \in Nat
      /\ \/ Cardinality(A \union {<<u, s>>}) = Cardinality(A)
         \/ Cardinality(A \union {<<u, s>>}) = Cardinality(A) + 1
  BY <1>3, FS_AddElement, FS_CardinalityType
<1> QED BY <1>1, <1>2, <1>4

\* Without drops every request stays plain.
LEMMA PlainStep ==
    ASSUME CountInv, Kinds \subseteq {"add", "cancel"}, NEW r \in Requests,
           Begin(r) \/ Step(r)
    PROVE  Plain(req'[r])
<1> USE DEF CountInv, RegistrationInv, TypeOK
<1>1. req[r] \in Request /\ Plain(req[r]) /\ WellFormed(req[r])
  BY DEF ControlOK
<1>2. CASE Begin(r)
  <2>1. PICK f : Fresh(f) /\ req' = [req EXCEPT ![r] = f]
    BY <1>2, BeginFields
  <2>2. f.pc # "expire"
    BY <2>1 DEF Fresh
  <2> QED BY <2>1, <2>2 DEF Fresh, Plain
<1>3. CASE Expire(r) \/ Recount(r) \/ WriteCount(r)
  BY <1>1, <1>3 DEF Expire, Recount, WriteCount, Plain
<1>4. CASE LockSection(r) \/ LockSubject(r) \/ SaveSection(r)
  BY <1>1, <1>4 DEF LockSection, LockSubject, SaveSection, Abort, Plain, Idle, Request
<1>5. CASE ClearStudents(r)
  <2> DEFINE rows == {p \in Seen(r) : p[2] = req[r].section}
             f == [req[r] EXCEPT !.dropped = rows, !.pc = "save"]
  <2>1. req'[r] = f
    BY <1>5 DEF ClearStudents
  <2>2. /\ f.pc = "save" /\ f.columns = {} /\ f.kind = "cancel"
        /\ f.dropped = rows /\ f.section = req[r].section
    BY <1>1, <1>5 DEF ClearStudents, Request, Plain, WellFormed
  <2> QED BY <2>1, <2>2 DEF Plain
<1>6. CASE Register(r) \/ CommitCancel(r) \/ DeadlockError(r)
  BY <1>6 DEF Register, CommitCancel, DeadlockError, Abort, Idle, Plain
<1> QED BY <1>2, <1>3, <1>4, <1>5, <1>6 DEF Step

\* The column follows the registrations exactly.
LEMMA CountStep ==
    ASSUME CountInv, Kinds \subseteq {"add", "cancel"}, [Next]_vars
    PROVE  CountInv'
<1>1. RegistrationInv'
  BY NextInv DEF CountInv
<1>2. CASE UNCHANGED vars
  BY <1>1, <1>2 DEF vars, CountInv, Count
<1>3. ASSUME NEW r \in Requests, Begin(r) \/ Step(r)
      PROVE  CountInv'
  <2>1. \A q \in Requests : Plain(req'[q])
    BY <1>3, PlainStep, RegsChange DEF CountInv
  <2>2. CASE UNCHANGED <<regs, enrolled>>
    BY <1>1, <2>1, <2>2 DEF CountInv, Count
  <2>3. CASE Register(r) /\ ~UNCHANGED <<regs, enrolled>>
    <3> DEFINE u == req[r].user
               s == req[r].section
               after == Seen(r) \union {<<u, s>>}
    <3>1. /\ s \in Sections /\ u \in Students
          /\ req[r].kind # "cancel" /\ Plain(req[r])
      BY <2>3 DEF CountInv, RegistrationInv, ControlOK, WellFormed, Register
    <3>2. Seen(r) = regs
      BY <3>1 DEF Seen, Plain
    <3>3. regs \in SUBSET (Students \X Sections)
      BY DEF CountInv, RegistrationInv, TypeOK
    <3>4. /\ regs' = regs \union {<<u, s>>}
          /\ \A x \in Sections : enrolled'[x] =
                 IF x = s /\ after # Seen(r)
                 THEN Cardinality({p \in after : p[2] = s})
                 ELSE SeenEnrolled(r, x)
      BY <2>3, <3>2 DEF Register, Abort
    <3>5. ASSUME NEW x \in Sections PROVE enrolled'[x] = Count(x)'
      <4>1. enrolled[x] = Count(x) /\ SeenEnrolled(r, x) = enrolled[x]
        BY <3>1, PlainSees DEF CountInv
      <4>2. CASE x # s
        <5>1. {p \in regs \union {<<u, s>>} : p[2] = x} = {p \in regs : p[2] = x}
          BY <4>2
        <5> QED BY <3>4, <4>1, <4>2, <5>1 DEF Count
      <4>3. CASE x = s /\ after # Seen(r)
        BY <3>2, <3>4, <4>3 DEF Count
      <4>4. CASE x = s /\ after = Seen(r)
        BY <3>2, <3>4, <4>1, <4>4 DEF Count
      <4> QED BY <4>2, <4>3, <4>4
    <3> QED BY <1>1, <2>1, <3>5 DEF CountInv
  <2>4. CASE CommitCancel(r)
    <3> DEFINE s == req[r].section
    <3>1. s \in Sections /\ Plain(req[r])
      BY <2>4 DEF CountInv, RegistrationInv, ControlOK, WellFormed, CommitCancel
    <3>2. regs' = Seen(r) /\ enrolled' = [enrolled EXCEPT ![s] = SeenCount(r, s)]
      BY <2>4 DEF CommitCancel
    <3>3. ASSUME NEW x \in Sections PROVE enrolled'[x] = Count(x)'
      <4>1. enrolled \in [Sections -> Nat] /\ enrolled[x] = Count(x)
        BY DEF CountInv, RegistrationInv, TypeOK
      <4>2. CASE x = s
        BY <3>1, <3>2, <4>1, <4>2 DEF Count, SeenCount
      <4>3. CASE x # s
        <5>1. {p \in Seen(r) : p[2] = x} = {p \in regs : p[2] = x}
          BY <3>1, <4>3 DEF Seen, Plain
        <5> QED BY <3>1, <3>2, <4>1, <4>3, <5>1 DEF Count
      <4> QED BY <4>2, <4>3
    <3> QED BY <1>1, <2>1, <3>3 DEF CountInv
  <2>5. CASE Begin(r)
    BY <2>2, <2>5, BeginFields
  <2>6. ~(Expire(r) \/ Recount(r) \/ WriteCount(r))
    BY DEF CountInv, Plain, Expire, Recount, WriteCount
  <2>7. CASE \/ LockSection(r) \/ LockSubject(r) \/ ClearStudents(r)
             \/ SaveSection(r) \/ DeadlockError(r)
    BY <2>2, <2>7 DEF LockSection, LockSubject, ClearStudents, SaveSection,
                      DeadlockError, Abort
  <2> QED BY <1>3, <2>2, <2>3, <2>4, <2>5, <2>6, <2>7 DEF Step
<1> QED BY <1>2, <1>3 DEF Next

\* A student who is not onsite never gets a seat that is not there, in a
\* program whose students add classes and whose administrators cancel them.
THEOREM CapacityIsKept == Kinds \subseteq {"add", "cancel"} => (Spec => NoOverfull)
<1> SUFFICES ASSUME Kinds \subseteq {"add", "cancel"} PROVE Spec => NoOverfull
  OBVIOUS
<1> DEFINE P == \A s \in Sections, r \in Requests :
                  Admits(r, s) => Count(s)' <= Seats(s)
<1>1. Init => CountInv
  <2>1. Init => RegistrationInv
    BY InitType DEF Init, RegistrationInv, LocksHeld, Protected, Idle
  <2>2. ASSUME Init, NEW s \in Sections PROVE enrolled[s] = Count(s)
    BY <2>2, FS_EmptySet DEF Init, Count
  <2> QED BY <2>1, <2>2 DEF Init, CountInv, Plain, Idle
<1>2. CountInv /\ [Next]_vars => CountInv'
  BY CountStep
<1>3. CountInv /\ [Next]_vars => [P]_vars
  <2> SUFFICES ASSUME CountInv, NEW q \in Requests, Begin(q) \/ Step(q),
                      NEW s \in Sections, NEW r \in Requests, Admits(r, s)
               PROVE  Count(s)' <= Seats(s)
    BY DEF Next
  <2>0. RegistrationInv
    BY DEF CountInv
  <2>1. PICK u \in Students : <<u, s>> \in regs' \ regs
    BY DEF Admits
  <2>2. r = q
    BY <2>0, RegsChange DEF Admits
  <2>3. /\ req[r].pc = "register" /\ ~IsFull(r, req[r].section)
        /\ regs' = Seen(r) \union {<<req[r].user, req[r].section>>}
    BY <2>0, <2>1, <2>2, RegsChange DEF Admits
  <2>4. s = req[r].section /\ u = req[r].user
    BY <2>1, <2>3 DEF Seen
  <2>5. Seen(r) = regs /\ SeenEnrolled(r, s) = enrolled[s]
    <3>1. Plain(req[r]) /\ req[r].kind # "cancel"
      BY <2>0, <2>3 DEF CountInv, RegistrationInv, ControlOK, WellFormed
    <3> QED BY <3>1, PlainSees DEF Plain, Seen
  <2>6. regs \in SUBSET (Students \X Sections)
    BY <2>0 DEF RegistrationInv, TypeOK
  <2>7. Count(s)' <= Count(s) + 1 /\ Count(s)' \in Nat
    <3>1. regs' = regs \union {<<u, s>>}
      BY <2>3, <2>4, <2>5
    <3>2. regs' \in SUBSET (Students \X Sections)
      BY <2>6, <3>1
    <3>3. Count(s)' \in Nat
      BY <3>2, CountIsNat DEF Count
    <3>4. Cardinality({p \in regs \union {<<u, s>>} : p[2] = s}) <=
              Cardinality({p \in regs : p[2] = s}) + 1
      BY <2>6, AddOne
    <3> QED BY <3>1, <3>3, <3>4 DEF Count
  <2>8. enrolled[s] = Count(s) /\ Count(s) \in Nat /\ Capacity[s] \in Nat
    BY <2>6, CountIsNat, RegistrationAssumption DEF CountInv, Count
  <2>9. \/ Count(s) < Capacity[s]
        \/ Count(s) = 0 /\ Capacity[s] = 0
    BY <2>3, <2>4, <2>5, <2>8 DEF IsFull
  <2> QED BY <2>7, <2>8, <2>9 DEF Seats
<1> QED BY <1>1, <1>2, <1>3, PTL DEF Spec, NoOverfull
=============================================================================
