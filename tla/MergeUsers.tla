----------------------------- MODULE MergeUsers -----------------------------
(***************************************************************************)
(* Merging two accounts (users/controllers/merge.py).  merge_users is one  *)
(* database transaction: merge() re-points every row that refers to the    *)
(* absorbee, the rows of UserForwarder included; then, on request, the     *)
(* absorbee's login is forwarded to the absorber and its account is        *)
(* deactivated.  Only the forwarder rows and is_active are kept.           *)
(***************************************************************************)
EXTENDS UserForwarder, FiniteSets

CONSTANT Forwarding    \* values the form's "Forward Login" box takes

ASSUME ForwardingAssumption == Forwarding \subseteq BOOLEAN

VARIABLES
    active,      \* is_active of every account
    merging      \* the transaction in progress, as a set of at most one record

mergeVars == <<forwarderVars, active, merging>>

MergeInit ==
    /\ ForwarderInit
    /\ active = [u \in Users |-> TRUE]
    /\ merging = {}

\* The absorbee's own row changes its source to the absorber, unless that
\* source already has a row (IntegrityError: skipped), or the row points at
\* its own source (it is loaded twice, and the second save restores it).
OutMoves(absorber, absorbee) ==
    /\ fwd[absorbee] \notin {NoUser, absorbee}
    /\ fwd[absorber] = NoUser

\* The forwarder rows after merge(): rows that point at the absorbee now
\* point at the absorber.
Merged(absorber, absorbee) ==
    [u \in Users |->
        IF OutMoves(absorber, absorbee) /\ u = absorbee THEN NoUser
        ELSE IF OutMoves(absorber, absorbee) /\ u = absorber THEN fwd[absorbee]
        ELSE IF fwd[u] = absorbee THEN absorber
        ELSE fwd[u]]

\* merge_users up to the end of merge().
MergeRelated(absorber, absorbee, f, d) ==
    /\ pc = "idle"
    /\ merging = {}
    /\ fwd' = Merged(absorber, absorbee)
    /\ merging' = {[absorber |-> absorber, absorbee |-> absorbee,
                    forward |-> f, deactivate |-> d, forwarded |-> FALSE]}
    /\ UNCHANGED <<pc, callVars, active>>

\* A transaction that keeps a row the absorbee already has.
StartForwardOnce ==
    \E m \in merging :
        /\ m.forward /\ ~m.forwarded
        /\ IF fwd[m.absorbee] = NoUser THEN BeginForward(m.absorbee, m.absorber)
           ELSE UNCHANGED forwarderVars
        /\ merging' = {[m EXCEPT !.forwarded = TRUE]}
        /\ UNCHANGED active

\* UserForwarder.forward(absorbee, absorber) begins.
StartForward ==
    \E m \in merging :
        /\ m.forward /\ ~m.forwarded
        /\ BeginForward(m.absorbee, m.absorber)
        /\ merging' = {[m EXCEPT !.forwarded = TRUE]}
        /\ UNCHANGED active

\* The steps of that call.
ForwardStep ==
    /\ merging # {}
    /\ FollowRow \/ WriteRows
    /\ UNCHANGED <<active, merging>>

\* The end of merge_users: deactivate on request, and commit.
Commit ==
    \E m \in merging :
        /\ pc = "idle"
        /\ m.forwarded = m.forward
        /\ active' = IF m.deactivate THEN [active EXCEPT ![m.absorbee] = FALSE]
                     ELSE active
        /\ merging' = {}
        /\ UNCHANGED forwarderVars

MergeNext ==
    \/ \E absorber, absorbee \in Users, f \in Forwarding, d \in BOOLEAN :
           /\ absorber # absorbee \/ SelfCalls
           /\ MergeRelated(absorber, absorbee, f, d)
    \/ StartForward
    \/ ForwardStep
    \/ Commit

MergeSpec == MergeInit /\ [][MergeNext]_mergeVars

-----------------------------------------------------------------------------

\* Whatever else was merged before, a committed merge with forwarding leaves
\* both accounts logging in as the same account ("A must still end up
\* forwarded").
MergedAccountsShareLogin ==
    [][\A m \in merging :
          merging' = {} /\ m.forward => Follow(m.absorbee)' = Follow(m.absorber)']_mergeVars

\* With forwarding always requested, no sequence of merges of distinct
\* accounts leaves committed forwarders that go round in a circle, as long as
\* no walk of updateTarget is cut short: merge() itself may close a circle,
\* and it is the walk after it that opens it again.
NoCircularityCommitted == merging = {} => NoCircularity

-----------------------------------------------------------------------------

\* updateTarget has followed MAX_DEPTH rows and would have to follow another,
\* to an account it has not been to.
CutShort == pc = "walk" /\ depth = MAX_DEPTH /\ fwd[target] # NoUser /\ target \notin rewrites

Merges == [absorber : Users, absorbee : Users, forward : BOOLEAN,
           deactivate : BOOLEAN, forwarded : BOOLEAN]

MergeTypeOK ==
    /\ ForwarderTypeOK
    /\ active \in [Users -> BOOLEAN]
    /\ merging \subseteq Merges
    /\ \A m, n \in merging : m = n
    /\ \A m \in merging : m.absorber # m.absorbee /\ (m.forwarded => m.forward)

\* After merge() nobody forwards to the absorbee, so the walk from the absorber
\* never falls back to its start.  When it is over the absorber is an account
\* that the walk has left, or its end.
MergeCallOK ==
    /\ \A m \in merging : ~m.forwarded => pc = "idle" /\ ForwardersIn(m.absorbee) = {}
    /\ pc # "idle" =>
           /\ \E m \in merging : m.forwarded /\ source = m.absorbee /\ original = m.absorber
           /\ ForwardersIn(source) = {}
           /\ target \in Users \ {source}
           /\ \A u \in rewrites : fwd[u] \in rewrites \union {target}
           /\ depth = 0 => target = original /\ rewrites = {}
           /\ depth # 0 => original \in rewrites
           /\ pc = "write" /\ depth = 0 => fwd[target] = NoUser
    /\ pc = "idle" => \A m \in merging : m.forwarded => Follow(m.absorbee) = Follow(m.absorber)

MergeInv == MergeTypeOK /\ MergeCallOK

\* Sets of accounts that forward only within themselves.
Circles == {S \in SUBSET Users : S # {} /\ \A u \in S : fwd[u] \in S}

\* merge() closes circles through the absorber only, and the walk ends where
\* nobody is forwarded, or when it has seen a whole circle.
CirclesOpen ==
    /\ \A m \in merging : m.forward
    /\ \A m \in merging : ~m.forwarded \/ pc # "idle" => \A S \in Circles : m.absorber \in S
    /\ pc = "write" => fwd[target] = NoUser \/ target \in rewrites
    /\ merging = {} \/ (pc = "idle" /\ \A m \in merging : m.forwarded) => Circles = {}

\* A walk that has not come back to where it was has left as many accounts as
\* it has followed rows.
WalkCounts == pc # "idle" /\ target \notin rewrites => Cardinality(rewrites) = depth
=============================================================================
