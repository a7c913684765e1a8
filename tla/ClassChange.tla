----------------------------- MODULE ClassChange -----------------------------
(***************************************************************************)
(* Class change requests: ClassChangeController                             *)
(* (program/controllers/classchange.py), a script that computes in memory   *)
(* who moves to a section he or she has requested, is to save the changes,  *)
(* and can be undone while the site is running.                             *)
(*                                                                          *)
(* Students, sections and timeslots are numbered, for the code sorts by     *)
(* index.  The arrays over timeslots are kept as sets of sections, all of   *)
(* whose timeslots are always written together.  check_grade is off, as it  *)
(* is by default, and no section meets in a lunch period: where one does,   *)
(* fill_section fails on the attribute student_schedules, which is nowhere  *)
(* defined.                                                                 *)
(***************************************************************************)
EXTENDS Integers, FiniteSets, FiniteSetsExt

CONSTANTS
    Students,       \* students with a request: an initial part of Nat
    Web,            \* students without a request
    Active,         \* students who use the site meanwhile
    MaxSite,        \* bound: rows that the site has made or ended
    Sections,       \* 1..n
    Classes,
    Times,          \* 1..n
    ParentClass,
    MeetingTimes,   \* not empty
    Capacity,
    Limit,          \* priorityLimit()
    Inputs          \* what initialize() may find

Users == Students \union Web

\* The enrolments, the column enrolled_students (which need not agree with
\* them), the requests, and the level i of a Priority/i, or zero.
Input == [enrolled : SUBSET (Users \X Sections),
          enrolled_students : [Sections -> Nat],
          request : SUBSET (Students \X Sections),
          waitlist : [Students \X Sections -> 0..Limit]]

ASSUME ClassChangeAssumption ==
    /\ Students \subseteq Nat /\ Web \subseteq Nat /\ Students \intersect Web = {}
    /\ Sections \subseteq Nat /\ Times \subseteq Nat /\ Limit \in Nat
    /\ IsFiniteSet(Students) /\ IsFiniteSet(Web) /\ IsFiniteSet(Sections) /\ IsFiniteSet(Times)
    /\ Active \subseteq Users /\ MaxSite \in Nat
    /\ ParentClass \in [Sections -> Classes]
    /\ MeetingTimes \in [Sections -> (SUBSET Times) \ {{}}]
    /\ Capacity \in [Sections -> Nat]
    /\ Inputs \subseteq Input
    \* The wrong index that push_back_students takes for a section (see
    \* Entries) is in range: otherwise the script stops with an IndexError.
    /\ \A s \in Sections : Cardinality(MeetingTimes[s]) <= Cardinality(Sections)

Overlap(s, x) == MeetingTimes[s] \intersect MeetingTimes[x] # {}
Clash(s, x) == Overlap(s, x) \/ ParentClass[s] = ParentClass[x]

\* Registration clashes for nobody, and classchangerequest offers no section of
\* a class the student is in.
ASSUME InputAssumption ==
    \A i \in Inputs :
        /\ \A p, q \in i.enrolled : p[1] = q[1] /\ Clash(p[2], q[2]) => p = q
        /\ \A p \in i.enrolled, q \in i.request :
               p[1] = q[1] => ParentClass[p[2]] # ParentClass[q[2]]

VARIABLES
    input,          \* what initialize() has read
    stage,          \* fill, push, save, saved, failed, undone
    enroll_final,   \* <<student, section>>
    capacities,     \* section_capacities: the seats that remain
    level,          \* fill: Priority/level, the last one being the others
    todo,           \* sections still to be gone through in this pass
    order,          \* push: the capacities by which this pass is sorted
    more,           \* push: more_pushing
    pushing,        \* push: students_to_push, of section current
    current,
    queues,         \* push: students_to_kick: no queue of the section yet, or one
    regs,           \* database: valid rows <<user, section, made since now>>
    ended           \* database: rows ended since now

vars == <<input, stage, enroll_final, capacities, level, todo, order, more, pushing,
          current, queues, regs, ended>>

database == <<regs, ended>>

-----------------------------------------------------------------------------
(* initialize()                                                             *)

enroll_orig == input.enrolled \intersect (Students \X Sections)

\* Students who are in s and want something else at its time.
MayLeave(i, s) ==
    {u \in Students : /\ <<u, s>> \in i.enrolled
                      /\ \E x \in Sections : <<u, x>> \in i.request /\ Overlap(s, x)}

\* The seats of s by num_students(), which reads the column, with those of the
\* students who may leave.
SeatsLeft(i, s) ==
    Capacity[s] - i.enrolled_students[s] + Cardinality(MayLeave(i, s))

\* The number of students requesting s less its seats.
Score(s) == Cardinality({u \in Students : <<u, s>> \in input.request}) - SeatsLeft(input, s)

\* Who has requested nothing at the time of a section stays in it.
Staying(i) == {p \in i.enrolled : p[1] \in Students /\ p[1] \notin MayLeave(i, p[2])}

\* The rows of the database when the script begins.
Before == {<<p[1], p[2], FALSE>> : p \in input.enrolled}

Init ==
    /\ input \in Inputs
    /\ stage = "fill"
    /\ enroll_final = Staying(input)
    /\ capacities = [s \in Sections |-> SeatsLeft(input, s)]
    /\ level = 1
    /\ todo = Sections
    /\ order = capacities
    /\ more = FALSE
    /\ pushing = {}
    /\ current = 0
    /\ queues = [s \in Sections |-> {}]
    /\ regs = Before
    /\ ended = {}

-----------------------------------------------------------------------------
(* compute_assignments: the passes of fill_section                          *)

Final(u) == {s \in Sections : <<u, s>> \in enroll_final}

\* Passes 1 to Limit look at the requests with this priority, the last one at
\* those without.
Pass(u, s) == IF input.waitlist[u, s] = 0 THEN Limit + 1 ELSE input.waitlist[u, s]
Asking(s) == {u \in Students : <<u, s>> \in input.request /\ Pass(u, s) = level}

\* Students who are free, though they may have another section of the class.
CandidatesAnyClass(s) == {u \in Asking(s) : \A x \in Final(u) : ~Overlap(s, x)}

\* Students whose old schedule is free, whether or not they may leave it.
CandidatesFreeBefore(s) == {u \in Asking(s) : \A x \in Final(u) : ~Clash(s, x) /\ (\A y \in Sections : <<u, y>> \in enroll_orig => ~Overlap(s, y))}

Candidates(s) == {u \in Asking(s) : \A x \in Final(u) : ~Clash(s, x)}

\* The seats that were there before the first pass.
SpacesAtFirst(s) == IF SeatsLeft(input, s) > 0 THEN SeatsLeft(input, s) ELSE 0

Spaces(s) == IF capacities[s] > 0 THEN capacities[s] ELSE 0

FillSection(s) ==
    LET candidates == Candidates(s)
    IN  /\ stage = "fill"
        /\ s \in todo
        /\ \A x \in todo : Score(s) <= Score(x)
        /\ \E chosen \in IF Cardinality(candidates) <= Spaces(s) THEN {candidates}
                         ELSE kSubset(Spaces(s), candidates) :
            /\ enroll_final' = enroll_final \union (chosen \X {s})
            /\ capacities' = [capacities EXCEPT ![s] = @ - Cardinality(chosen)]
        /\ todo' = todo \ {s}
        /\ UNCHANGED <<input, stage, level, order, more, pushing, current, queues, database>>

\* push_back_students sorts the sections anew in every round.
NewRound == todo' = Sections /\ order' = capacities /\ more' = FALSE

NextLevel ==
    /\ stage = "fill"
    /\ todo = {}
    /\ \/ /\ level <= Limit
          /\ level' = level + 1
          /\ todo' = Sections
          /\ UNCHANGED <<stage, order, more>>
       \/ /\ level = Limit + 1
          /\ stage' = "push"
          /\ NewRound
          /\ UNCHANGED level
    /\ UNCHANGED <<input, enroll_final, capacities, pushing, current, queues, database>>

-----------------------------------------------------------------------------
(* push_back_students                                                       *)

\* Students who were in s and have got nothing at all.
UnplacedAtAll(s) == {u \in Students : <<u, s>> \in enroll_orig /\ Final(u) = {}}

\* Students who were in s and have got no request, those put back included.
UnplacedForever(s) ==
    {u \in Students : /\ <<u, s>> \in enroll_orig
                      /\ \A x \in Final(u) : ~(Overlap(s, x) /\ <<u, x>> \in input.request)}

\* Students who were in s and have got nothing that overlaps it.
Unplaced(s) ==
    {u \in Students : /\ <<u, s>> \in enroll_orig
                      /\ \A x \in Final(u) : ~Overlap(s, x)}

\* The sections with the most seats come first.
NextSection(s) ==
    /\ stage = "push"
    /\ pushing = {}
    /\ s \in todo
    /\ \A x \in todo : order[s] >= order[x]
    /\ todo' = todo \ {s}
    /\ current' = s
    /\ pushing' = Unplaced(s)
    /\ more' = (more \/ Unplaced(s) # {})
    /\ UNCHANGED <<input, stage, enroll_final, capacities, level, order, queues, database>>

\* k-th smallest element of a set of numbers.
Nth(S, k) == CHOOSE n \in S : Cardinality({m \in S : m < n}) = k - 1

\* random.shuffle on the rows of a two-dimensional array copies row j to row i
\* and does not copy row i to row j, for a row is a view: row i ends up as one
\* of the rows up to i.
Shuffles(n) == {f \in [1..n -> 1..n] : \A k \in 1..n : f[k] <= k}

\* The entries of the queue of section s: for every row, and every timeslot of
\* s at which its student had a section, an entry that can be told apart by
\* both.  The array old_sections holds positions of timeslots (the indices
\* are separated by a slice), so that the score is that of the section whose
\* index is the position.
Entries(s, students, shuffle) ==
    LET Row(k) == Nth(students, shuffle[k])
        Old(u) == {p \in 1..Cardinality(MeetingTimes[s]) :
                      \E x \in Sections : /\ <<u, x>> \in enroll_orig
                                          /\ Nth(MeetingTimes[s], p) \in MeetingTimes[x]}
        OfRow(k) == IF Old(Row(k)) = {}
                    THEN {[row |-> k, position |-> 0, student |-> Row(k), score |-> 0]}
                    ELSE {[row |-> k, position |-> p, student |-> Row(k),
                           score |-> Score(Nth(Sections, p))] : p \in Old(Row(k))}
    IN  UNION {OfRow(k) : k \in DOMAIN shuffle}

\* Students who are in s because they have requested it.
Lucky(final, s) == {u \in Students : <<u, s>> \in final \intersect input.request}

\* What the queue of s may be: built when it is first needed.
Queue(final, s) ==
    IF queues[s] # {} THEN queues[s]
    ELSE {Entries(s, Lucky(final, s), f) : f \in Shuffles(Cardinality(Lucky(final, s)))}

\* The student goes back to the old section.  With no seat left an entry with
\* the lowest score is taken from the queue and its student loses the section.
PushBack(u) ==
    LET s == current
        final == enroll_final \union {<<u, s>>}
    IN  /\ u \in pushing
        /\ \A v \in pushing : u <= v
        /\ pushing' = pushing \ {u}
        /\ \/ /\ capacities[s] > 0
              /\ enroll_final' = final
              /\ capacities' = [capacities EXCEPT ![s] = @ - 1]
              /\ UNCHANGED queues
           \/ /\ capacities[s] <= 0
              /\ \E q \in Queue(final, s) :
                  \/ /\ q = {}
                     /\ enroll_final' = final
                     /\ queues' = [queues EXCEPT ![s] = {q}]
                  \/ \E e \in q :
                     /\ \A x \in q : e.score <= x.score
                     /\ enroll_final' = final \ {<<e.student, s>>}
                     /\ queues' = [queues EXCEPT ![s] = {q \ {e}}]
              /\ UNCHANGED capacities
        /\ UNCHANGED <<input, stage, level, todo, order, more, current, database>>

\* Another round as long as somebody was pushed.
EndRound ==
    /\ stage = "push"
    /\ todo = {}
    /\ pushing = {}
    /\ \/ /\ more
          /\ NewRound
          /\ UNCHANGED stage
       \/ /\ ~more
          /\ stage' = "save"
          /\ UNCHANGED <<todo, order, more>>
    /\ UNCHANGED <<input, enroll_final, capacities, level, pushing, current, queues, database>>

-----------------------------------------------------------------------------
(* The database: save_assignments, unsave_assignments and the site.         *)

Enrolled(s) == {u \in Users : \E n \in BOOLEAN : <<u, s, n>> \in regs}

computed == <<input, enroll_final, capacities, level, todo, order, more, pushing, current, queues>>

\* save_assignments takes the first removal or, if there is none, the first
\* assignment, and looks up its section by the index, a numpy.int64, in a
\* QuerySet.  Django refuses any index but an int or a slice with a TypeError,
\* so that a result with a change in it is not saved, and nothing is written.
SaveAssignments ==
    /\ stage = "save"
    /\ stage' = IF enroll_final = enroll_orig THEN "saved" ELSE "failed"
    /\ UNCHANGED <<computed, database>>

\* The rows made since are deleted before the others are valid again.
UnsaveSwapped ==
    /\ stage \in {"saved", "failed"}
    /\ regs' = {r \in regs : ~r[3]} \union ended
    /\ ended' = {}
    /\ stage' = "undone"
    /\ UNCHANGED computed

\* unsave_assignments: what was ended since the script began is valid again,
\* then what was made since is deleted, whoever did it.
Unsave ==
    /\ stage \in {"saved", "failed"}
    /\ regs' = {r \in regs \union ended : ~r[3]}
    /\ ended' = {}
    /\ stage' = "undone"
    /\ UNCHANGED computed

\* The site meanwhile, as far as the script can meet it: a student gets a row
\* or has it ended.  The checks before that are left out, the one of the
\* capacity in particular, which rests on a column that may be stale: the site
\* may let anybody in.  What it does while the script computes is as if it came
\* afterwards, for the script reads nothing more.
SiteChanges == Cardinality((regs \union ended) \ Before) + Cardinality(ended)

SiteAdds(w, s) ==
    /\ SiteChanges < MaxSite
    /\ stage \in {"saved", "failed"}
    /\ w \notin Enrolled(s)
    /\ regs' = regs \union {<<w, s, TRUE>>}
    /\ UNCHANGED <<computed, stage, ended>>

SiteDrops(w, s) ==
    LET rows == regs \intersect ({w} \X {s} \X BOOLEAN)
    IN  /\ SiteChanges < MaxSite
        /\ stage \in {"saved", "failed"}
        /\ rows # {}
        /\ regs' = regs \ rows
        /\ ended' = ended \union rows
        /\ UNCHANGED <<computed, stage>>

Script ==
    \/ \E s \in Sections : FillSection(s) \/ NextSection(s)
    \/ \E u \in Students : PushBack(u)
    \/ NextLevel \/ EndRound \/ SaveAssignments

\* The operator has undone the changes.
Stop == stage = "undone" /\ UNCHANGED vars

Next ==
    \/ Script
    \/ Unsave
    \/ \E w \in Active, s \in Sections : SiteAdds(w, s) \/ SiteDrops(w, s)
    \/ Stop

\* A script that was started is not put aside.
Spec == Init /\ [][Next]_vars /\ WF_vars(Script)

-----------------------------------------------------------------------------
(* Properties.                                                              *)

Entry == [row : Nat, position : Nat, student : Students, score : Int]

\* The types of the state.
TypeOK ==
    /\ input \in Inputs
    /\ stage \in {"fill", "push", "save", "saved", "failed", "undone"}
    /\ enroll_final \subseteq Students \X Sections
    /\ capacities \in [Sections -> Int]
    /\ level \in 1..(Limit + 1)
    /\ todo \subseteq Sections
    /\ order \in [Sections -> Int]
    /\ more \in BOOLEAN
    /\ pushing \subseteq Students
    /\ current \in Sections \union {0}
    /\ queues \in [Sections -> SUBSET SUBSET Entry]
    /\ regs \union ended \subseteq Users \X Sections \X BOOLEAN

\* The computed schedules: no student is given two sections at one time or two
\* of one class, neither by the passes nor by going back to an old section, and
\* nobody is thrown out of a section who has asked for nothing else at its time
\* ("Commit to enrolling students into this section if they were originally in
\* it and they didn't request any overlapping classes").
SchedulesPossible ==
    /\ TypeOK
    /\ \A u \in Students : \A s, x \in Final(u) : s # x => ~Clash(s, x)
    /\ Staying(input) \subseteq enroll_final

\* "They either stayed in it or got into a class they preferred" (sanity_check):
\* what is computed takes no section from a student who does not get a
\* requested one at that time instead.
NobodyLoses ==
    stage \in {"save", "saved", "failed"} =>
        \A p \in enroll_orig \ enroll_final :
            \E x \in Final(p[1]) : Overlap(p[2], x) /\ <<p[1], x>> \in input.request

\* No seat is wasted by the passes: where a section has one left, whoever has
\* asked for it in a pass that is over has got it, or has something that clashes
\* with it.
Offered(u, s) == Pass(u, s) < level \/ (Pass(u, s) = level /\ s \notin todo)

NothingWasted ==
    stage = "fill" =>
        \A p \in input.request :
            Offered(p[1], p[2]) /\ capacities[p[2]] > 0 => \E x \in Final(p[1]) : Clash(p[2], x)

\* Those who get into a section by request are no more than the seats it had
\* left, with those that its students might give up: several passes share these
\* seats, and whoever goes back to an old section takes one without giving
\* another newcomer a seat.
NewcomersFit ==
    \A s \in Sections :
        Cardinality(Lucky(enroll_final, s)) <= (IF SeatsLeft(input, s) > 0 THEN SeatsLeft(input, s) ELSE 0)

\* Students who push each other out of sections go back and forth no more than
\* finitely often: the script ends.
ScriptEnds == <>(stage \in {"saved", "failed", "undone"})

\* unsave_assignments, after the save or after its error, leaves the enrolments
\* of everybody as they were when the script began, whatever the site has done
\* since.
UnsaveRestores == stage = "undone" => regs = Before /\ ended = {}

-----------------------------------------------------------------------------
(* The inductive invariant.                                                 *)

\* Students get what they had or have requested, and are thrown out only of
\* what they have requested.  Those to be pushed are still free at that time,
\* and a round in which nobody was pushed has found everybody placed.
PushOK ==
    /\ enroll_final \subseteq enroll_orig \union input.request
    /\ \A s \in Sections : \A q \in queues[s] : \A e \in q : <<e.student, s>> \in input.request
    /\ pushing # {} => stage = "push" /\ more /\ current \in Sections
    /\ pushing \subseteq Unplaced(current)
    /\ stage = "push" /\ ~more => \A s \in Sections \ todo : Unplaced(s) = {}

\* The seats that the passes have given away are those that newcomers have.
SeatsOK ==
    stage = "fill" => \A s \in Sections :
        /\ Cardinality(Lucky(enroll_final, s)) = SeatsLeft(input, s) - capacities[s]
        /\ capacities[s] < 0 => capacities[s] = SeatsLeft(input, s)

\* The rows from before the script are all there, as valid or as ended ones.
RowsOK == stage # "undone" => {r \in regs \union ended : ~r[3]} = Before

ClassChangeInv ==
    /\ SchedulesPossible /\ NobodyLoses
    /\ NothingWasted /\ NewcomersFit /\ UnsaveRestores
    /\ PushOK /\ SeatsOK /\ RowsOK
=============================================================================
