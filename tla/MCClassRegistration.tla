------------------------ MODULE MCClassRegistration ------------------------
(***************************************************************************)
(* Instances of ClassRegistration for TLC.                                 *)
(***************************************************************************)
EXTENDS ClassRegistration, TLC

CONSTANTS u1, u2, u3, s1, s2, s3, c1, c2, t1, t2, r1, r2, r3

\* Two sections of one class, and a section of another class that meets at
\* the same time as the first.
MCParentClass == [s \in Sections |-> IF s = s3 THEN c2 ELSE c1]
MCMeetingTimes == [s \in Sections |-> IF s = s2 THEN {t2} ELSE {t1}]

\* One seat, two seats, and the boundary value zero.
MCCapacity == [s \in Sections |-> IF s = s1 THEN 1 ELSE IF s = s2 THEN 2 ELSE 0]

Symmetry == Permutations(Students) \union Permutations(Requests)

\* Fairness: a worker process is scheduled; a lock that is released again and
\* again is granted in the end (PostgreSQL queues the waiters), hence strong
\* fairness; and a deadlock is noticed (deadlock_timeout).
FairSpec == Spec /\ \A r \in Requests : SF_vars(Step(r))
=============================================================================
