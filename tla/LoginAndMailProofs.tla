-------------------------- MODULE LoginAndMailProofs --------------------------
(***************************************************************************)
(* Proofs about two components that have nothing to do with each other:     *)
(* UserForwarder with MergeUsers, and then MailCron.                        *)
(*                                                                          *)
(* UserForwarder, for any set of accounts and any MAX_DEPTH of at least     *)
(* two, as long as no account is forwarded to itself.  Flat is not          *)
(* inductive: WriteRows keeps it only because of what the call has read     *)
(* before.  ForwarderInv adds that (CallOK).  Since the table is flat, the  *)
(* walk either stops at the given target or takes one row.                  *)
(*                                                                          *)
(* MailCron, for any number of messages, addresses and processes, any retry *)
(* limit and batch size, and any number of crashes.  MailInv says that only *)
(* the holder of the lock runs, and that the rows it has loaded are still   *)
(* as they are in the database: what makes save(), a write of every column, *)
(* safe.  With the types it is inductive.                                   *)
(***************************************************************************)
EXTENDS MergeUsers, MailCron, FiniteSetTheorems, TLAPS

-----------------------------------------------------------------------------
(* Login forwarding and the merging of accounts.                            *)

\* The initial table is empty and no call runs.
LEMMA InitInv == ForwarderInit => ForwarderInv
BY UsersAssumption, DepthAssumption
   DEF ForwarderInit, ForwarderInv, ForwarderTypeOK, Flat, CallOK

\* The invariant survives the first query of a call for two accounts.
LEMMA BeginForwardInv ==
    ASSUME ForwarderInv, NEW s \in Users, NEW t \in Users, s # t,
           BeginForward(s, t)
    PROVE  ForwarderInv'
BY UsersAssumption, DepthAssumption
   DEF ForwarderInv, ForwarderTypeOK, Flat, CallOK, BeginForward, ForwardersIn

\* The invariant survives a round of the walk.
LEMMA FollowRowInv ==
    ASSUME ForwarderInv, FollowRow
    PROVE  ForwarderInv'
<1> USE UsersAssumption, DepthAssumption
       DEF ForwarderInv, ForwarderTypeOK, Flat, CallOK, ForwardersIn, FollowRow, callVars
<1>1. CASE fwd[target] = NoUser
  BY <1>1
<1>2. CASE fwd[target] = source
  BY <1>2
<1>3. CASE fwd[target] \notin {NoUser, source}
  <2>1. target = original /\ depth = 0 /\ rewrites = ForwardersIn(source)
    BY <1>3
  <2>2. target' = fwd[original] /\ depth' = 1 /\ pc' = pc
        /\ rewrites' = ForwardersIn(source) \union {original}
        /\ UNCHANGED <<fwd, source, original>>
    BY <1>3, <2>1
  <2> QED BY <1>3, <2>1, <2>2
<1> QED BY <1>1, <1>2, <1>3

\* The table written at the end is flat again: every row that pointed at the
\* source, and the row that was followed, now points at the final target.
LEMMA WriteRowsInv ==
    ASSUME ForwarderInv, WriteRows
    PROVE  ForwarderInv'
<1> USE UsersAssumption, DepthAssumption
       DEF ForwarderInv, ForwarderTypeOK, CallOK, ForwardersIn, WriteRows, Return, Rewritten
<1>1. ForwarderTypeOK'
  OBVIOUS
<1>2. Flat'
  BY DEF Flat
<1>3. CallOK'
  OBVIOUS
<1> QED BY <1>1, <1>2, <1>3

\* Every step of a system whose callers pass two different accounts keeps
\* the invariant.
LEMMA NextInv ==
    ASSUME SelfCalls = FALSE, ForwarderInv, [ForwarderNext]_forwarderVars
    PROVE  ForwarderInv'
<1>1. CASE \E s, t \in Users : (s # t \/ SelfCalls) /\ BeginForward(s, t)
  BY <1>1, BeginForwardInv
<1>2. CASE FollowRow
  BY <1>2, FollowRowInv
<1>3. CASE WriteRows
  BY <1>3, WriteRowsInv
<1>4. CASE UNCHANGED forwarderVars
  BY <1>4 DEF forwarderVars, ForwarderInv, ForwarderTypeOK, Flat, CallOK, ForwardersIn
<1> QED BY <1>1, <1>2, <1>3, <1>4 DEF ForwarderNext

\* ForwarderInv holds in every reachable state.
THEOREM ForwarderInvariant ==
    ASSUME SelfCalls = FALSE
    PROVE  ForwarderSpec => []ForwarderInv
<1>1. ForwarderInit => ForwarderInv
  BY InitInv
<1>2. ForwarderInv /\ [ForwarderNext]_forwarderVars => ForwarderInv'
  BY NextInv
<1> QED BY <1>1, <1>2, PTL DEF ForwarderSpec

\* forward() leaves no chain of forwarders behind, for any set of accounts:
\* the single row that follow() reads leads to the final account.
THEOREM ForwardersStayFlat ==
    ASSUME SelfCalls = FALSE
    PROVE  ForwarderSpec => []Flat
<1>1. ForwarderInv => Flat
  BY DEF ForwarderInv
<1> QED BY <1>1, ForwarderInvariant, PTL

\* In a flat table no set of accounts forwards only within itself.
LEMMA FlatIsAcyclic ==
    ASSUME ForwarderTypeOK, Flat
    PROVE  NoCircularity
<1> SUFFICES ASSUME NEW S \in SUBSET Users, S # {}, \A u \in S : fwd[u] \in S
             PROVE  FALSE
  BY DEF NoCircularity
<1>1. PICK u \in S : TRUE
  OBVIOUS
<1>2. fwd[u] \in S /\ fwd[fwd[u]] \in S
  BY <1>1
<1>3. fwd[u] # NoUser /\ fwd[fwd[u]] # NoUser
  BY <1>2, UsersAssumption
<1> QED BY <1>1, <1>3 DEF Flat

\* updateTarget "preserves absence of circularity" when no account is
\* forwarded to itself.
THEOREM ForwardingIsAcyclic ==
    ASSUME SelfCalls = FALSE
    PROVE  ForwarderSpec => []NoCircularity
<1>1. ForwarderInv => NoCircularity
  BY FlatIsAcyclic DEF ForwarderInv
<1> QED BY <1>1, ForwarderInvariant, PTL

-----------------------------------------------------------------------------
(* UserForwarder implements LoginIdentity.                                  *)

\* The transaction of a call moves the source and the accounts under it to
\* the identity of the target, and no other account.
LEMMA WriteRowsForwards ==
    ASSUME ForwarderInv, WriteRows
    PROVE  LI!Forward(source, original)
<1> DEFINE identity == [u \in Users |-> Follow(u)]
           root == IF identity[original] = source THEN original ELSE identity[original]
<1> USE UsersAssumption
<1>1. source \in Users /\ original \in Users /\ source # original /\ target \in Users
  BY DEF ForwarderInv, CallOK, WriteRows
<1>2. root = target
  BY <1>1 DEF ForwarderInv, CallOK, WriteRows, Follow, ForwarderTypeOK, Flat
<1>3. ASSUME NEW u \in Users
      PROVE  Follow(u)' = IF u = source \/ identity[u] = source
                          THEN root ELSE identity[u]
  <2>1. Follow(u)' = IF Rewritten[u] = NoUser THEN u ELSE Rewritten[u]
    BY DEF Follow, WriteRows
  <2>2. CASE u = source
    BY <1>1, <1>2, <2>1, <2>2
       DEF ForwarderInv, CallOK, WriteRows, Follow, ForwarderTypeOK, Flat, Rewritten, ForwardersIn
  <2>3. CASE u # source /\ fwd[u] = source
    BY <1>1, <1>2, <2>1, <2>3
       DEF ForwarderInv, CallOK, WriteRows, Follow, ForwarderTypeOK, Flat, Rewritten, ForwardersIn
  <2>4. CASE u # source /\ fwd[u] # source
    BY <1>1, <1>2, <2>1, <2>4
       DEF ForwarderInv, CallOK, WriteRows, Follow, ForwarderTypeOK, Flat, Rewritten, ForwardersIn
  <2> QED BY <2>2, <2>3, <2>4
<1>4. identity' = [u \in Users |-> IF u = source \/ identity[u] = source
                                   THEN root ELSE identity[u]]
  BY <1>3
<1> QED BY <1>4 DEF LI!Forward

\* Every login identity change is one call of forward(), whatever rows it
\* rewrote: UserForwarder implements LoginIdentity.
THEOREM ForwardingRefinesIdentity ==
    ASSUME SelfCalls = FALSE
    PROVE  ForwarderSpec => ForwardingIsOneStep
<1>1. ForwarderInit => LI!Init
  BY DEF ForwarderInit, LI!Init, Follow
<1>2. ForwarderInv /\ [ForwarderNext]_forwarderVars => [LI!Next]_([u \in Users |-> Follow(u)])
  <2> SUFFICES ASSUME ForwarderInv, [ForwarderNext]_forwarderVars
               PROVE  [LI!Next]_([u \in Users |-> Follow(u)])
    OBVIOUS
  <2>1. CASE WriteRows
    <3>1. source \in Users /\ original \in Users /\ source # original
      BY <2>1 DEF ForwarderInv, CallOK, WriteRows
    <3> QED BY <2>1, <3>1, WriteRowsForwards DEF LI!Next
  <2>2. CASE fwd' = fwd
    BY <2>2 DEF Follow
  <2> QED BY <2>1, <2>2 DEF ForwarderNext, BeginForward, FollowRow, callVars, forwarderVars
<1> QED BY <1>1, <1>2, ForwarderInvariant, PTL DEF ForwarderSpec, ForwardingIsOneStep, LI!Spec

-----------------------------------------------------------------------------
(* Merges of distinct accounts.  Flat is not kept by merge(), so nothing of *)
(* the above helps: MergeInv follows the walk row by row, and CirclesOpen   *)
(* adds where the circles are.                                              *)

\* At the start there is no row, and nothing is merged.
LEMMA MergeInitInv == MergeInit => MergeInv
BY UsersAssumption, DepthAssumption
   DEF MergeInit, ForwarderInit, MergeInv, MergeTypeOK, MergeCallOK, ForwarderTypeOK

\* No row points at the absorbee when merge() is done.
LEMMA MergedFacts ==
    ASSUME ForwarderTypeOK, NEW a \in Users, NEW b \in Users, a # b
    PROVE  /\ Merged(a, b) \in [Users -> Users \union {NoUser}]
           /\ \A u \in Users : Merged(a, b)[u] # b
           /\ \A u \in Users : /\ Merged(a, b)[u] \notin {NoUser, a} /\ u # a
                               => Merged(a, b)[u] = fwd[u]
BY UsersAssumption DEF ForwarderTypeOK, Merged, OutMoves

LEMMA MergeRelatedInv ==
    ASSUME MergeInv, NEW a \in Users, NEW b \in Users, NEW f \in Forwarding,
           NEW d \in BOOLEAN, a # b, MergeRelated(a, b, f, d)
    PROVE  MergeInv'
<1> DEFINE m == [absorber |-> a, absorbee |-> b, forward |-> f, deactivate |-> d,
                 forwarded |-> FALSE]
<1>1. /\ ForwarderTypeOK /\ active \in [Users -> BOOLEAN] /\ pc = "idle"
      /\ fwd' = Merged(a, b) /\ merging' = {m} /\ UNCHANGED <<pc, callVars, active>>
  BY DEF MergeInv, MergeTypeOK, MergeRelated
<1>2. m \in Merges /\ m.absorber # m.absorbee /\ ~m.forwarded /\ m.absorbee = b
  BY ForwardingAssumption DEF Merges
<1> HIDE DEF m
<1>3. MergeTypeOK'
  BY <1>1, <1>2, MergedFacts DEF MergeTypeOK, ForwarderTypeOK, callVars
<1>4. ForwardersIn(b)' = {}
  BY <1>1, MergedFacts DEF ForwardersIn
<1>5. MergeCallOK'
  BY <1>1, <1>2, <1>4 DEF MergeCallOK, ForwardersIn
<1> QED BY <1>3, <1>5 DEF MergeInv

LEMMA StartForwardInv ==
    ASSUME MergeInv, StartForward
    PROVE  MergeInv'
<1>1. PICK m \in merging : /\ m.forward /\ ~m.forwarded
                           /\ BeginForward(m.absorbee, m.absorber)
                           /\ merging' = {[m EXCEPT !.forwarded = TRUE]}
                           /\ UNCHANGED active
  BY DEF StartForward
<1> DEFINE n == [m EXCEPT !.forwarded = TRUE]
<1>2. MergeTypeOK /\ MergeCallOK /\ ForwarderTypeOK /\ m \in Merges /\ m.absorber # m.absorbee
  BY DEF MergeInv, MergeTypeOK
<1>3. /\ n \in Merges /\ n.absorber = m.absorber /\ n.absorbee = m.absorbee
      /\ n.forwarded /\ n.forward
  BY <1>1, <1>2 DEF Merges
<1>4. m.absorber \in Users /\ m.absorbee \in Users
  BY <1>2 DEF Merges
<1>5. ForwardersIn(m.absorbee) = {}
  BY <1>1, <1>2 DEF MergeCallOK
<1>6. /\ pc' = "walk" /\ source' = m.absorbee /\ original' = m.absorber /\ target' = m.absorber
      /\ rewrites' = {} /\ depth' = 0 /\ fwd' = fwd /\ merging' = {n} /\ active' = active
  BY <1>1, <1>5 DEF BeginForward
<1> HIDE DEF n
<1>7. MergeTypeOK'
  BY <1>2, <1>3, <1>4, <1>6, DepthAssumption DEF MergeTypeOK, ForwarderTypeOK
<1>8. ForwardersIn(source)' = {}
  BY <1>5, <1>6 DEF ForwardersIn
<1>9. MergeCallOK'
  BY <1>2, <1>3, <1>4, <1>6, <1>8 DEF MergeCallOK
<1> QED BY <1>7, <1>9 DEF MergeInv

LEMMA FollowInv ==
    ASSUME MergeInv, FollowRow, UNCHANGED <<active, merging>>
    PROVE  MergeInv'
<1>1. MergeTypeOK /\ MergeCallOK /\ ForwarderTypeOK /\ pc = "walk" /\ target \in Users /\ source \in Users
  BY DEF MergeInv, MergeTypeOK, MergeCallOK, FollowRow, Merges
<1>2. fwd[target] # source
  BY <1>1 DEF MergeCallOK, ForwardersIn
<1>3. CASE depth = MAX_DEPTH \/ fwd[target] = NoUser
  <2>1. pc' = "write" /\ UNCHANGED <<fwd, callVars>>
    BY <1>2, <1>3, <1>1, UsersAssumption, DepthAssumption DEF FollowRow, ForwarderTypeOK
  <2>2. MergeTypeOK'
    BY <1>1, <2>1 DEF MergeTypeOK, ForwarderTypeOK, callVars
  <2>3. MergeCallOK'
    BY <1>1, <1>3, <2>1, DepthAssumption DEF MergeCallOK, callVars, ForwardersIn
  <2> QED BY <2>2, <2>3 DEF MergeInv
<1>4. CASE depth < MAX_DEPTH /\ fwd[target] \notin {NoUser, source}
  <2>1. /\ rewrites' = rewrites \union {target} /\ target' = fwd[target] /\ depth' = depth + 1
        /\ UNCHANGED <<fwd, pc, source, original>>
    BY <1>4, <1>1, DepthAssumption DEF FollowRow, ForwarderTypeOK
  <2>2. fwd[target] \in Users /\ depth + 1 \in 0..MAX_DEPTH /\ depth + 1 # 0
    BY <1>1, <1>4, DepthAssumption DEF ForwarderTypeOK
  <2>3. MergeTypeOK'
    BY <1>1, <2>1, <2>2 DEF MergeTypeOK, ForwarderTypeOK
  <2>4. original \in rewrites'
    BY <1>1, <2>1 DEF MergeCallOK
  <2>5. MergeCallOK'
    BY <1>1, <2>1, <2>2, <2>4 DEF MergeCallOK, ForwardersIn
  <2> QED BY <2>3, <2>5 DEF MergeInv
<1> QED BY <1>1, <1>2, <1>3, <1>4 DEF FollowRow

\* The absorber is written to point where the walk has ended, or is its end.
LEMMA WriteInv ==
    ASSUME MergeInv, WriteRows, UNCHANGED <<active, merging>>
    PROVE  MergeInv'
<1>1. MergeTypeOK /\ MergeCallOK /\ ForwarderTypeOK /\ pc = "write" /\ target \in Users /\ source \in Users
  BY DEF MergeInv, MergeTypeOK, MergeCallOK, WriteRows, Merges
<1>2. fwd' = Rewritten /\ Return
  BY DEF WriteRows
<1>3. MergeTypeOK'
  BY <1>1, <1>2, DepthAssumption DEF MergeTypeOK, ForwarderTypeOK, Return, Rewritten
<1>4. ASSUME NEW m \in merging
      PROVE  m.forwarded /\ Follow(m.absorbee)' = target /\ Follow(m.absorber)' = target
  <2>1. m.forwarded /\ source = m.absorbee /\ original = m.absorber /\ source # original
        /\ original \in Users
    BY <1>1 DEF MergeCallOK, MergeTypeOK, Merges
  <2>2. Follow(m.absorbee)' = target
    BY <1>1, <1>2, <2>1, UsersAssumption DEF Follow, Rewritten
  <2>3. Follow(m.absorber)' = target
    <3>1. CASE original \in rewrites
      BY <1>1, <1>2, <2>1, <3>1, UsersAssumption DEF Follow, Rewritten
    <3>2. CASE original \notin rewrites
      <4>1. target = original /\ fwd[original] = NoUser
        BY <1>1, <3>2 DEF MergeCallOK
      <4> QED BY <1>1, <1>2, <2>1, <3>2, <4>1 DEF Follow, Rewritten
    <3> QED BY <3>1, <3>2
  <2> QED BY <2>1, <2>2, <2>3
<1>5. MergeCallOK'
  <2>1. pc' = "idle"
    BY <1>2 DEF Return
  <2>2. \A m \in merging : m.forwarded
    BY <1>4
  <2>3. \A m \in merging : Follow(m.absorbee)' = Follow(m.absorber)'
    BY <1>4
  <2> QED BY <2>1, <2>2, <2>3 DEF MergeCallOK, Follow
<1> QED BY <1>3, <1>5 DEF MergeInv

LEMMA CommitInv ==
    ASSUME MergeInv, Commit
    PROVE  MergeInv'
<1>1. PICK m \in merging : /\ pc = "idle"
                           /\ active' = (IF m.deactivate THEN [active EXCEPT ![m.absorbee] = FALSE]
                                         ELSE active)
                           /\ merging' = {} /\ UNCHANGED forwarderVars
  BY DEF Commit
<1>2. MergeTypeOK /\ ForwarderTypeOK /\ m \in Merges
  BY DEF MergeInv, MergeTypeOK
<1>3. active' \in [Users -> BOOLEAN]
  BY <1>1, <1>2 DEF MergeTypeOK, Merges
<1>4. MergeTypeOK'
  BY <1>1, <1>2, <1>3 DEF MergeTypeOK, ForwarderTypeOK, forwarderVars
<1> QED BY <1>1, <1>4 DEF MergeInv, MergeCallOK, forwarderVars

LEMMA MergeNextInv ==
    ASSUME SelfCalls = FALSE, MergeInv, [MergeNext]_mergeVars
    PROVE  MergeInv'
<1>1. ASSUME NEW a \in Users, NEW b \in Users, NEW f \in Forwarding, NEW d \in BOOLEAN,
             a # b \/ SelfCalls, MergeRelated(a, b, f, d)
      PROVE  MergeInv'
  BY <1>1, MergeRelatedInv
<1>2. CASE StartForward
  BY <1>2, StartForwardInv
<1>3. CASE ForwardStep
  BY <1>3, FollowInv, WriteInv DEF ForwardStep
<1>4. CASE Commit
  BY <1>4, CommitInv
<1>5. CASE UNCHANGED mergeVars
  <2>1. MergeTypeOK /\ MergeCallOK /\ UNCHANGED <<fwd, pc, source, original, target, rewrites, depth>>
        /\ UNCHANGED <<active, merging>>
    BY <1>5 DEF mergeVars, forwarderVars, MergeInv
  <2>2. MergeTypeOK'
    BY <2>1 DEF MergeTypeOK, ForwarderTypeOK
  <2>3. MergeCallOK'
    BY <2>1 DEF MergeCallOK, ForwardersIn, Follow
  <2> QED BY <2>2, <2>3 DEF MergeInv
<1> QED BY <1>1, <1>2, <1>3, <1>4, <1>5 DEF MergeNext

\* The invariant of a merge.
THEOREM MergeInvariant ==
    ASSUME SelfCalls = FALSE
    PROVE  MergeSpec => []MergeInv
<1>1. MergeInit => MergeInv
  BY MergeInitInv
<1>2. MergeInv /\ [MergeNext]_mergeVars => MergeInv'
  BY MergeNextInv
<1> QED BY <1>1, <1>2, PTL DEF MergeSpec

\* merge_users: however deep the chains that earlier merges have left, and
\* wherever the walk of updateTarget stops, the absorbee ends up logging in as
\* the account that the absorber logs in as.
THEOREM MergedAccountsLogInTogether ==
    ASSUME SelfCalls = FALSE
    PROVE  MergeSpec => MergedAccountsShareLogin
<1> DEFINE P == \A m \in merging :
                    merging' = {} /\ m.forward => Follow(m.absorbee)' = Follow(m.absorber)'
<1>1. MergeInv /\ [MergeNext]_mergeVars => [P]_mergeVars
  <2> SUFFICES ASSUME MergeInv, MergeNext, NEW m \in merging, merging' = {}, m.forward
               PROVE  Follow(m.absorbee)' = Follow(m.absorber)'
    OBVIOUS
  <2>1. Commit
    BY DEF MergeNext, MergeRelated, StartForward, ForwardStep
  <2>2. pc = "idle" /\ m.forwarded /\ fwd' = fwd
    BY <2>1 DEF Commit, forwarderVars, MergeInv, MergeTypeOK
  <2>3. Follow(m.absorbee) = Follow(m.absorber)
    BY <2>2 DEF MergeInv, MergeCallOK
  <2> QED BY <2>2, <2>3 DEF Follow
<1> QED BY <1>1, MergeInvariant, PTL DEF MergeSpec, MergedAccountsShareLogin

-----------------------------------------------------------------------------
(* Circles.                                                                 *)

LEMMA NoCircles == NoCircularity <=> Circles = {}
BY DEF NoCircularity, Circles

LEMMA CirclesInit == MergeInit => CirclesOpen
BY UsersAssumption DEF MergeInit, ForwarderInit, CirclesOpen, Circles

\* merge() closes circles through the absorber only: the rows that it changes
\* point at the absorber, or are the absorber's own.
LEMMA MergeRelatedCircles ==
    ASSUME Forwarding = {TRUE}, MergeInv, CirclesOpen,
           NEW a \in Users, NEW b \in Users, NEW f \in Forwarding,
           NEW d \in BOOLEAN, a # b, MergeRelated(a, b, f, d)
    PROVE  CirclesOpen'
<1>1. ForwarderTypeOK /\ Circles = {} /\ fwd' = Merged(a, b)
  BY DEF MergeInv, MergeTypeOK, MergeRelated, CirclesOpen
<1>2. ASSUME NEW S \in Circles' PROVE a \in S
  <2> SUFFICES ASSUME a \notin S PROVE FALSE
    OBVIOUS
  <2>1. S \in SUBSET Users /\ S # {} /\ \A u \in S : fwd'[u] \in S
    BY <1>2 DEF Circles
  <2>2. \A u \in S : fwd'[u] = fwd[u]
    <3>1. \A u \in Users : fwd'[u] \notin {NoUser, a} /\ u # a => fwd'[u] = fwd[u]
      BY <1>1, MergedFacts
    <3>2. NoUser \notin S /\ a \notin S
      BY <2>1, UsersAssumption
    <3> QED BY <2>1, <3>1, <3>2
  <2> QED BY <1>1, <2>1, <2>2 DEF Circles
<1>3. pc' = "idle" /\ \A m \in merging' : m.absorber = a /\ m.forward /\ ~m.forwarded
  BY DEF MergeRelated
<1>4. merging' # {}
  BY DEF MergeRelated
<1> QED BY <1>2, <1>3, <1>4 DEF CirclesOpen

LEMMA StartForwardCircles ==
    ASSUME MergeInv, CirclesOpen, StartForward
    PROVE  CirclesOpen'
<1>1. PICK m \in merging : /\ m.forward /\ ~m.forwarded
                           /\ BeginForward(m.absorbee, m.absorber)
                           /\ merging' = {[m EXCEPT !.forwarded = TRUE]}
  BY DEF StartForward
<1>2. fwd' = fwd /\ pc' = "walk"
  BY <1>1 DEF BeginForward
<1>3. Circles' = Circles /\ \A S \in Circles : m.absorber \in S
  BY <1>1, <1>2 DEF Circles, CirclesOpen
<1>4. m \in Merges
  BY DEF MergeInv, MergeTypeOK
<1>5. \A n \in merging' : n.absorber = m.absorber /\ n.forward
  BY <1>1, <1>4 DEF Merges
<1>6. merging' # {}
  BY <1>1
<1> QED BY <1>2, <1>3, <1>5, <1>6 DEF CirclesOpen

LEMMA FollowCircles ==
    ASSUME MergeInv, CirclesOpen, ~CutShort, FollowRow, UNCHANGED <<active, merging>>
    PROVE  CirclesOpen'
<1>1. MergeCallOK /\ fwd' = fwd /\ merging' = merging /\ pc = "walk" /\ pc' \in {"walk", "write"}
  BY DEF MergeInv, FollowRow, callVars
<1>2. Circles' = Circles /\ merging # {}
  BY <1>1 DEF Circles, MergeCallOK
<1>3. ASSUME pc' = "write" PROVE (fwd[target] = NoUser \/ target \in rewrites)'
  <2>1. target \in Users /\ fwd[target] # source
    BY <1>1 DEF MergeCallOK, MergeInv, MergeTypeOK, Merges, ForwardersIn
  <2>2. (depth = MAX_DEPTH \/ fwd[target] = NoUser) /\ UNCHANGED callVars
    BY <1>1, <1>3, <2>1 DEF FollowRow
  <2> QED BY <1>1, <2>2 DEF CutShort, callVars
<1> QED BY <1>1, <1>2, <1>3 DEF CirclesOpen

\* Every account that the walk has left is written to point at its end, whose
\* own row goes away if it has one: a circle would have to keep away from the
\* walk, and so from the absorber.
LEMMA WriteCircles ==
    ASSUME MergeInv, CirclesOpen, WriteRows, UNCHANGED <<active, merging>>
    PROVE  CirclesOpen'
<1>1. /\ MergeTypeOK /\ MergeCallOK /\ ForwarderTypeOK /\ pc = "write" /\ fwd' = Rewritten
      /\ merging' = merging /\ pc' = "idle"
  BY DEF MergeInv, MergeTypeOK, WriteRows, Return
<1>2. PICK m \in merging : m.forwarded /\ source = m.absorbee /\ original = m.absorber
  BY <1>1 DEF MergeCallOK
<1>3. /\ target \in Users /\ source \in Users /\ rewrites \subseteq Users
      /\ \A u \in rewrites : fwd[u] \in rewrites \union {target}
      /\ \A u \in Users : fwd[u] # source
      /\ original \in rewrites \/ (target = original /\ fwd[target] = NoUser)
      /\ fwd[target] = NoUser \/ target \in rewrites
  BY <1>1, <1>2 DEF MergeCallOK, MergeTypeOK, ForwarderTypeOK, Merges, ForwardersIn, CirclesOpen
<1>4. \A S \in Circles : original \in S
  BY <1>1, <1>2 DEF CirclesOpen
<1>5. target # source
  BY <1>1 DEF MergeCallOK
<1>6. ASSUME NEW S \in Circles' PROVE FALSE
  <2>1. S \in SUBSET Users /\ S # {} /\ \A u \in S : fwd'[u] \in S
    BY <1>6 DEF Circles
  <2>2. fwd'[target] = NoUser
    BY <1>1, <1>3, <1>5 DEF Rewritten
  <2>3. target \notin S
    BY <2>1, <2>2, UsersAssumption
  <2>4. \A u \in S : u \notin rewrites /\ u # source
    BY <1>1, <1>3, <2>1, <2>3, UsersAssumption DEF Rewritten
  <2>5. \A u \in S : fwd'[u] = fwd[u]
    BY <1>1, <2>1, <2>4 DEF Rewritten
  <2>6. S \in Circles
    BY <2>1, <2>5 DEF Circles
  <2>7. original \in S
    BY <1>4, <2>6
  <2> QED BY <1>3, <2>3, <2>4, <2>7
<1>7. \A n \in merging : n.forwarded /\ n.forward
  BY <1>1, <1>2 DEF MergeTypeOK
<1> QED BY <1>1, <1>6, <1>7 DEF CirclesOpen

LEMMA CirclesNext ==
    ASSUME SelfCalls = FALSE, Forwarding = {TRUE}, MergeInv, CirclesOpen, ~CutShort,
           [MergeNext]_mergeVars
    PROVE  CirclesOpen'
<1>1. ASSUME NEW a \in Users, NEW b \in Users, NEW f \in Forwarding, NEW d \in BOOLEAN,
             a # b \/ SelfCalls, MergeRelated(a, b, f, d)
      PROVE  CirclesOpen'
  BY <1>1, MergeRelatedCircles
<1>2. CASE StartForward
  BY <1>2, StartForwardCircles
<1>3. CASE ForwardStep
  BY <1>3, FollowCircles, WriteCircles DEF ForwardStep
<1>4. CASE Commit
  <2>1. pc = "idle" /\ merging # {} /\ \A m \in merging : m.forwarded
    BY <1>4 DEF Commit, MergeInv, MergeTypeOK, CirclesOpen
  <2>2. Circles' = {} /\ merging' = {} /\ pc' = "idle"
    BY <1>4, <2>1 DEF Commit, forwarderVars, CirclesOpen, Circles
  <2> QED BY <2>2 DEF CirclesOpen
<1>5. CASE UNCHANGED mergeVars
  <2>1. UNCHANGED <<fwd, pc, target, rewrites, merging>>
    BY <1>5 DEF mergeVars, forwarderVars
  <2>2. Circles' = Circles
    BY <2>1 DEF Circles
  <2> QED BY <2>1, <2>2 DEF CirclesOpen
<1> QED BY <1>1, <1>2, <1>3, <1>4, <1>5 DEF MergeNext

\* merge_users with forwarding, as many accounts and as many merges as there
\* may be: as long as every walk of updateTarget comes to an end within
\* MAX_DEPTH rows, or back to where it was, the committed forwarders have no
\* circle.
THEOREM MergesLeaveNoCircle ==
    ASSUME SelfCalls = FALSE, Forwarding = {TRUE}
    PROVE  MergeSpec /\ []~CutShort => []NoCircularityCommitted
<1>1. MergeInit => CirclesOpen
  BY CirclesInit
<1>2. MergeInv /\ CirclesOpen /\ ~CutShort /\ [MergeNext]_mergeVars => CirclesOpen'
  BY CirclesNext
<1>3. CirclesOpen => NoCircularityCommitted
  BY NoCircles DEF CirclesOpen, NoCircularityCommitted
<1> QED BY <1>1, <1>2, <1>3, MergeInvariant, PTL DEF MergeSpec

-----------------------------------------------------------------------------
(* How many accounts it takes.                                              *)

LEMMA WalkCountsInv ==
    ASSUME IsFiniteSet(Users), SelfCalls = FALSE, MergeInv, WalkCounts, [MergeNext]_mergeVars
    PROVE  WalkCounts'
<1>1. CASE \E a, b \in Users, f \in Forwarding, d \in BOOLEAN : MergeRelated(a, b, f, d)
  BY <1>1 DEF MergeRelated, WalkCounts
<1>2. CASE StartForward
  <2>1. \E m \in merging : rewrites' = ForwardersIn(m.absorbee) /\ depth' = 0 /\ ~m.forwarded
    BY <1>2 DEF StartForward, BeginForward
  <2>2. rewrites' = {} /\ depth' = 0
    BY <2>1 DEF MergeInv, MergeCallOK
  <2> QED BY <2>2, FS_EmptySet DEF WalkCounts
<1>3. CASE FollowRow
  <2>1. /\ MergeCallOK /\ pc = "walk" /\ target \in Users /\ rewrites \subseteq Users
        /\ depth \in Nat /\ fwd[target] # source
    BY <1>3 DEF MergeInv, MergeTypeOK, ForwarderTypeOK, MergeCallOK, FollowRow, ForwardersIn
  <2>2. CASE UNCHANGED callVars
    BY <2>1, <2>2 DEF WalkCounts, callVars
  <2>3. CASE /\ rewrites' = rewrites \union {target} /\ target' = fwd[target]
             /\ depth' = depth + 1
    <3> SUFFICES ASSUME target' \notin rewrites' PROVE Cardinality(rewrites') = depth'
      BY DEF WalkCounts
    <3>1. target \notin rewrites
      BY <2>1, <2>3 DEF MergeCallOK
    <3>2. Cardinality(rewrites) = depth
      BY <2>1, <3>1 DEF WalkCounts
    <3>3. IsFiniteSet(rewrites)
      BY <2>1, FS_Subset
    <3> QED BY <2>3, <3>1, <3>2, <3>3, FS_AddElement
  <2> QED BY <1>3, <2>1, <2>2, <2>3 DEF FollowRow
<1>4. CASE WriteRows \/ Commit \/ UNCHANGED mergeVars
  <2>1. CASE WriteRows
    BY <2>1 DEF WriteRows, Return, WalkCounts
  <2>2. CASE Commit \/ UNCHANGED mergeVars
    <3>1. UNCHANGED <<pc, target, rewrites, depth>>
      BY <2>2 DEF Commit, mergeVars, forwarderVars
    <3> QED BY <3>1 DEF WalkCounts
  <2> QED BY <1>4, <2>1, <2>2
<1> QED BY <1>1, <1>2, <1>3, <1>4 DEF MergeNext, ForwardStep

\* MAX_DEPTH accounts are too few to cut a walk short.
THEOREM FewAccountsAreWalked ==
    ASSUME SelfCalls = FALSE, IsFiniteSet(Users), Cardinality(Users) <= MAX_DEPTH
    PROVE  MergeSpec => []~CutShort
<1>1. MergeInit => WalkCounts
  BY DEF MergeInit, ForwarderInit, WalkCounts
<1>2. MergeInv /\ WalkCounts /\ [MergeNext]_mergeVars => WalkCounts'
  BY WalkCountsInv
<1>3. MergeInv /\ WalkCounts => ~CutShort
  <2> SUFFICES ASSUME MergeInv, WalkCounts, CutShort PROVE FALSE
    OBVIOUS
  <2>1. /\ pc = "walk" /\ depth = MAX_DEPTH /\ target \notin rewrites
        /\ target \in Users /\ rewrites \subseteq Users
    BY DEF CutShort, MergeInv, MergeTypeOK, ForwarderTypeOK, MergeCallOK
  <2>2. Cardinality(rewrites) = MAX_DEPTH
    BY <2>1 DEF WalkCounts
  <2>3. IsFiniteSet(rewrites) /\ IsFiniteSet(rewrites \union {target})
    BY <2>1, FS_Subset, FS_AddElement
  <2>4. Cardinality(rewrites \union {target}) = MAX_DEPTH + 1
    BY <2>1, <2>2, <2>3, FS_AddElement
  <2>5. Cardinality(rewrites \union {target}) <= Cardinality(Users)
    BY <2>1, FS_Subset
  <2>6. Cardinality(Users) \in Nat
    BY FS_CardinalityType
  <2> QED BY <2>4, <2>5, <2>6, DepthAssumption
<1> QED BY <1>1, <1>2, <1>3, MergeInvariant, PTL DEF MergeSpec

\* So no more than MAX_DEPTH accounts can be merged into a circle.
THEOREM FewAccountsMakeNoCircle ==
    ASSUME SelfCalls = FALSE, Forwarding = {TRUE},
           IsFiniteSet(Users), Cardinality(Users) <= MAX_DEPTH
    PROVE  MergeSpec => []NoCircularityCommitted
BY MergesLeaveNoCircle, FewAccountsAreWalked, PTL

-----------------------------------------------------------------------------
(* Bulk email.                                                              *)

\* The tables stay finite, so that the batches can be counted.
Finite ==
    /\ IsFiniteSet(DOMAIN texts)
    /\ \A c \in Crons : IsFiniteSet(cron[c].made)

\* When one process goes on with f, the processes keep their types.
LEMMA CronType ==
    ASSUME TypeOK, Finite, NEW c \in Crons, NEW f \in CronState,
           IsFiniteSet(f.made), Go(c, f)
    PROVE  /\ cron' \in [Crons -> CronState]
           /\ \A d \in Crons : IsFiniteSet(cron'[d].made)
           /\ cron'[c] = f
           /\ \A d \in Crons : d # c => cron'[d] = cron[d]
BY DEF TypeOK, Finite, Go

\* A process that does not run.
LEMMA StoppedType == Stopped \in CronState /\ IsFiniteSet(Stopped.made)
BY FS_EmptySet, MailAssumption DEF Stopped, CronState

\* The number of batches is a natural number.
LEMMA BatchesType ==
    ASSUME TypeOK, Finite, NEW cutoff
    PROVE  CeilDiv(Cardinality(Eligible(cutoff)), BatchSize) \in Nat
<1>1. Eligible(cutoff) \subseteq DOMAIN texts
  BY DEF Eligible
<1>2. Cardinality(Eligible(cutoff)) \in Nat
  BY <1>1, FS_Subset, FS_CardinalityType DEF Finite
<1>3. ASSUME NEW n \in Nat PROVE (n + BatchSize - 1) \div BatchSize \in Nat
  BY MailAssumption, SMTT(30)
<1> QED BY <1>2, <1>3 DEF CeilDiv

\* New rows have the types of the tables.
LEMMA WithTextsType ==
    ASSUME TypeOK, Finite, NEW ids \in SUBSET TextIds, IsFiniteSet(ids), WithTexts(ids)
    PROVE  /\ DOMAIN texts' = DOMAIN texts \union ids
           /\ DOMAIN texts' \subseteq TextIds
           /\ IsFiniteSet(DOMAIN texts')
           /\ texts' \in [DOMAIN texts' -> TextRow]
           /\ attempts' \in [DOMAIN texts' -> Nat]
<1>1. DOMAIN texts' = DOMAIN texts \union ids
  BY DEF WithTexts
<1>2. DOMAIN attempts = DOMAIN texts
  BY DEF TypeOK
<1>3. texts' \in [DOMAIN texts' -> TextRow]
  BY <1>1 DEF WithTexts, TypeOK, TextRow, Unsent
<1>4. attempts' \in [DOMAIN texts' -> Nat]
  BY <1>1, <1>2 DEF WithTexts, TypeOK
<1>5. IsFiniteSet(DOMAIN texts')
  BY <1>1, FS_Union DEF Finite
<1> QED BY <1>1, <1>3, <1>4, <1>5 DEF TypeOK

\* The database starts empty and every process stopped.
LEMMA InitType == Init => TypeOK /\ Finite
<1> SUFFICES ASSUME Init PROVE TypeOK /\ Finite
  OBVIOUS
<1>1. DOMAIN texts = {}
  BY DEF Init
<1>2. texts \in [DOMAIN texts -> TextRow] /\ attempts \in [DOMAIN texts -> Nat]
  BY <1>1 DEF Init
<1>3. cron \in [Crons -> CronState] /\ \A c \in Crons : IsFiniteSet(cron[c].made)
  BY StoppedType DEF Init
<1> QED BY <1>1, <1>2, <1>3, FS_EmptySet DEF Init, TypeOK, Finite

\* The steps of commfinal, and time.
LEMMA AuthorType ==
    ASSUME TypeOK, Finite, NEW m \in Messages, Author(m)
    PROVE  TypeOK' /\ Finite'
BY DEF TypeOK, Finite, Author, CreateRequest, SaveAgain, Age, mailVars, faults

\* The process ends.
LEMMA ExitType ==
    ASSUME TypeOK, Finite, NEW c \in Crons,
           StartCron(c) \/ ProcessError(c) \/ Crash(c) \/ Finish(c)
    PROVE  TypeOK' /\ Finite'
<1>1. CASE StartCron(c)
  <2> DEFINE f == [Stopped EXCEPT !.pc = "select"]
  <2>1. f \in CronState /\ f.made = {}
    BY StoppedType DEF CronState, Stopped
  <2> QED BY <1>1, <2>1, CronType, FS_EmptySet DEF StartCron, TypeOK, Finite, mailVars, faults
<1>2. CASE ProcessError(c) \/ Crash(c) \/ Finish(c)
  <2>1. Go(c, Stopped) /\ lock' \in Crons \union {None}
    BY <1>2 DEF ProcessError, Crash, Finish, Exit, TypeOK
  <2> QED
    BY <1>2, <2>1, CronType, StoppedType
    DEF ProcessError, Crash, Finish, Exit, TypeOK, Finite, mailVars, faults
<1> QED BY <1>1, <1>2

\* The steps of a running process.
LEMMA RunType ==
    ASSUME TypeOK, Finite, NEW c \in Crons, Run(c), MailInv
    PROVE  TypeOK' /\ Finite'
<1>0. cron[c] \in CronState /\ IsFiniteSet(cron[c].made) /\ RunOK(c)
  BY DEF TypeOK, Finite, MailInv
<1>1. CASE SelectMessages(c)
  <2> DEFINE f == [cron[c] EXCEPT !.pc = "process",
                 !.todo = {m \in Messages \ old : request[m] = "unprocessed"}]
  <2>1. f \in CronState /\ f.made = cron[c].made
    BY <1>0 DEF CronState
  <2> QED BY <1>0, <1>1, <2>1, CronType DEF SelectMessages, TypeOK, Finite, mailVars, faults
<1>2. CASE BeginProcess(c)
  <2>1. PICK m \in cron[c].todo :
          /\ Go(c, [cron[c] EXCEPT !.pc = "create", !.msg = m, !.todo = @ \ {m},
                                   !.addrs = Recipients[m]])
          /\ serial' = [serial EXCEPT ![m] = @ + 1]
    BY <1>2 DEF BeginProcess
  <2> DEFINE f == [cron[c] EXCEPT !.pc = "create", !.msg = m, !.todo = @ \ {m},
                                  !.addrs = Recipients[m]]
  <2>2. m \in Messages /\ Recipients[m] \in SUBSET Addresses
    BY <1>0, MailAssumption DEF CronState
  <2>3. f \in CronState /\ f.made = cron[c].made
    BY <1>0, <2>2 DEF CronState
  <2>4. serial' \in [Messages -> Nat]
    BY <2>1, <2>2 DEF TypeOK
  <2> QED BY <1>0, <1>2, <2>1, <2>3, <2>4, CronType DEF BeginProcess, TypeOK, Finite, faults
<1>3. CASE CreateText(c)
  <2>1. PICK a \in cron[c].addrs :
          Go(c, [cron[c] EXCEPT !.addrs = @ \ {a},
                   !.made = @ \union {<<cron[c].msg, a, serial[cron[c].msg]>>}])
    BY <1>3 DEF CreateText
  <2> DEFINE new == <<cron[c].msg, a, serial[cron[c].msg]>>
             f == [cron[c] EXCEPT !.addrs = @ \ {a}, !.made = @ \union {new}]
  <2>2. cron[c].msg \in Messages /\ a \in Addresses
    BY <1>0, <1>3 DEF RunOK, CreateText, CronState
  <2>3. serial[cron[c].msg] \in Nat /\ serial[cron[c].msg] > 0
    BY <1>0, <1>3, <2>2 DEF RunOK, CreateText, TypeOK
  <2>4. new \in TextIds
    BY <2>2, <2>3 DEF TextIds
  <2>5. f \in CronState /\ f.made = cron[c].made \union {new}
    BY <1>0, <2>4 DEF CronState
  <2>6. IsFiniteSet(f.made)
    BY <1>0, <2>5, FS_AddElement
  <2> QED BY <1>3, <2>1, <2>5, <2>6, CronType DEF CreateText, TypeOK, Finite, mailVars, faults
<1>4. CASE CommitProcess(c)
  <2> DEFINE f == [cron[c] EXCEPT !.pc = "process", !.msg = None, !.made = {}]
  <2>1. f \in CronState /\ f.made = {}
    BY <1>0 DEF CronState
  <2>2. cron[c].made \in SUBSET TextIds /\ WithTexts(cron[c].made) /\ Go(c, f)
    BY <1>0, <1>4 DEF CronState, CommitProcess
  <2>3. request' \in [Messages -> {"absent", "unprocessed", "processed"}]
    BY <1>4 DEF CommitProcess, TypeOK
  <2>4. /\ cron' \in [Crons -> CronState]
        /\ \A d \in Crons : IsFiniteSet(cron'[d].made)
    BY <2>1, <2>2, CronType, FS_EmptySet
  <2>5. /\ DOMAIN texts' \subseteq TextIds
        /\ IsFiniteSet(DOMAIN texts')
        /\ texts' \in [DOMAIN texts' -> TextRow]
        /\ attempts' \in [DOMAIN texts' -> Nat]
    BY <1>0, <2>2, WithTextsType
  <2> QED BY <1>4, <2>3, <2>4, <2>5 DEF CommitProcess, TypeOK, Finite, faults
<1>5. CASE CountBatches(c)
  <2> DEFINE n == CeilDiv(Cardinality(Eligible(old)), BatchSize)
             f == [cron[c] EXCEPT !.pc = "send", !.cutoff = old, !.left = n]
  <2>1. n \in Nat
    BY BatchesType
  <2>2. f \in CronState /\ f.made = cron[c].made
    BY <1>0, <2>1 DEF CronState, TypeOK
  <2> QED BY <1>0, <1>5, <2>2, CronType DEF CountBatches, TypeOK, Finite, mailVars, faults
<1>6. CASE FetchBatch(c)
  <2>1. PICK B \in SUBSET Eligible(cron[c].cutoff) :
          Go(c, [cron[c] EXCEPT !.left = @ - 1, !.batch = {Loaded(t) : t \in B}])
    BY <1>6 DEF FetchBatch
  <2> DEFINE rows == {Loaded(t) : t \in B}
             f == [cron[c] EXCEPT !.left = @ - 1, !.batch = rows]
  <2>2. ASSUME NEW t \in B PROVE Loaded(t) \in LoadedRow
    <3>1. t \in DOMAIN texts /\ t \in TextIds /\ texts[t] \in TextRow
      BY DEF Eligible, TypeOK
    <3> QED BY <3>1 DEF Loaded, LoadedRow, TextRow
  <2>3. rows \in SUBSET LoadedRow
    BY <2>2
  <2>4. cron[c].left - 1 \in Nat
    BY <1>0, <1>6 DEF CronState, FetchBatch
  <2>5. f \in CronState /\ f.made = cron[c].made
    BY <1>0, <2>3, <2>4 DEF CronState
  <2> QED BY <1>0, <1>6, <2>1, <2>5, CronType DEF FetchBatch, TypeOK, Finite, mailVars, faults
<1>7. CASE SendMail(c)
  <2>1. PICK row \in cron[c].batch, outcome \in {"saveSent", "saveTry"} :
          /\ attempts' = [attempts EXCEPT ![row.id] = @ + 1]
          /\ Go(c, [cron[c] EXCEPT !.pc = outcome, !.batch = @ \ {row}, !.mailtxt = row])
    BY <1>7 DEF SendMail
  <2> DEFINE f == [cron[c] EXCEPT !.pc = outcome, !.batch = @ \ {row}, !.mailtxt = row]
  <2>2. row \in LoadedRow
    BY <1>0 DEF CronState
  <2>3. f \in CronState /\ f.made = cron[c].made
    BY <1>0, <2>2 DEF CronState
  <2>4. attempts' \in [DOMAIN texts -> Nat]
    <3>1. row.id \in DOMAIN texts
      BY <1>0 DEF RunOK, Current
    <3>2. attempts[row.id] + 1 \in Nat
      BY <3>1 DEF TypeOK
    <3> QED BY <2>1, <3>1, <3>2 DEF TypeOK
  <2> QED BY <1>0, <1>7, <2>1, <2>3, <2>4, CronType DEF SendMail, TypeOK, Finite, faults
<1>8. CASE SaveText(c)
  <2> DEFINE row == cron[c].mailtxt
             new == IF cron[c].pc = "saveSent" THEN [sent |-> TRUE, tries |-> row.tries]
                                 ELSE [sent |-> row.sent, tries |-> row.tries + 1]
             f == [cron[c] EXCEPT !.pc = "send", !.mailtxt = None]
  <2>1. Current(row)
    BY <1>0, <1>8 DEF SaveText, RunOK
  <2>2. row.id \in DOMAIN texts /\ row.sent \in BOOLEAN /\ row.tries \in Nat
    BY <2>1 DEF Current, Loaded, TypeOK, TextRow
  <2>3. new \in TextRow
    BY <2>2 DEF TextRow
  <2>4. texts' = [texts EXCEPT ![row.id] = new] /\ Go(c, f)
    BY <1>8 DEF SaveText
  <2>5. DOMAIN texts' = DOMAIN texts /\ texts' \in [DOMAIN texts -> TextRow]
    BY <2>3, <2>4 DEF TypeOK
  <2>6. f \in CronState /\ f.made = cron[c].made
    BY <1>0 DEF CronState
  <2> QED BY <1>0, <1>8, <2>4, <2>5, <2>6, CronType DEF SaveText, TypeOK, Finite, faults
<1>9. CASE Finish(c)
  BY <1>9, ExitType
<1> QED BY <1>1, <1>2, <1>3, <1>4, <1>5, <1>6, <1>7, <1>8, <1>9 DEF Run

-----------------------------------------------------------------------------
(* The lock and the accounting of calls.                                    *)

\* A stopped process satisfies RunOK, whatever the tables hold.
LEMMA StoppedOK ==
    ASSUME NEW c \in Crons, cron[c] = Stopped
    PROVE  RunOK(c)
BY DEF RunOK, Stopped

\* While c runs, every other process is stopped, before and after its step.
LEMMA OthersStopped ==
    ASSUME MailInv, NEW c \in Crons, cron[c].pc # "stopped", NEW f, Go(c, f), TypeOK
    PROVE  /\ \A d \in Crons : d # c => cron[d] = Stopped /\ RunOK(d)'
           /\ cron'[c] = f
           /\ \A t : InFlight(t) <=> /\ cron[c].pc \in {"saveSent", "saveTry"}
                                     /\ cron[c].mailtxt.id = t
           /\ \A t : InFlight(t)' <=> /\ f.pc \in {"saveSent", "saveTry"}
                                      /\ f.mailtxt.id = t
<1>1. ASSUME NEW d \in Crons, d # c
      PROVE  cron[d] = Stopped /\ cron'[d] = Stopped
  BY <1>1 DEF MailInv, RunOK, Go, TypeOK
<1>2. ASSUME NEW d \in Crons, d # c PROVE RunOK(d)'
  BY <1>1, <1>2 DEF RunOK, Stopped
<1>3. cron'[c] = f
  BY DEF Go, TypeOK
<1>4. Stopped.pc = "stopped"
  BY DEF Stopped
<1> QED BY <1>1, <1>2, <1>3, <1>4 DEF InFlight

\* Before anything is stored.
LEMMA InitMail == Init => MailInv /\ AllOrNothing
<1> SUFFICES ASSUME Init PROVE MailInv /\ AllOrNothing
  OBVIOUS
<1>1. DOMAIN texts = {}
  BY DEF Init
<1>2. \A c \in Crons : cron[c] = Stopped
  BY DEF Init
<1> QED BY <1>1, <1>2, StoppedOK DEF MailInv, AllOrNothing

\* commfinal and time touch nothing that the processes rely on.
LEMMA AuthorMail ==
    ASSUME MailInv, AllOrNothing, NEW m \in Messages, Author(m)
    PROVE  MailInv' /\ AllOrNothing'
<1>1. UNCHANGED <<texts, serial, attempts, lock, cron, crashes>>
  BY DEF Author, CreateRequest, SaveAgain, Age, mailVars, faults
<1> QED
  BY <1>1 DEF MailInv, AllOrNothing, RunOK, Accounted, InFlight, Current, Loaded

\* The lock is free only when nobody runs.
LEMMA StartMail ==
    ASSUME TypeOK, MailInv, AllOrNothing, NEW c \in Crons, StartCron(c)
    PROVE  MailInv' /\ AllOrNothing'
<1> DEFINE f == [Stopped EXCEPT !.pc = "select"]
<1>0. UNCHANGED <<texts, serial, attempts, crashes>> /\ lock = None /\ lock' = c
  BY DEF StartCron, mailVars, faults
<1>1. \A d \in Crons : cron[d] = Stopped
  BY <1>0, MailAssumption DEF MailInv, RunOK
<1>2. cron'[c] = f /\ \A d \in Crons : d # c => cron'[d] = Stopped
  BY <1>1 DEF StartCron, Go, TypeOK
<1>3. RunOK(c)'
  BY <1>0, <1>2 DEF RunOK, Stopped
<1>4. ASSUME NEW d \in Crons, d # c PROVE RunOK(d)'
  BY <1>2, <1>4 DEF RunOK, Stopped
<1>5. \A t : ~InFlight(t) /\ ~InFlight(t)'
  BY <1>1, <1>2 DEF InFlight, Stopped
<1>6. \A t \in DOMAIN texts : Accounted(t)'
  BY <1>0, <1>5 DEF MailInv, Accounted
<1> QED BY <1>0, <1>3, <1>4, <1>6 DEF MailInv, AllOrNothing

\* The end of a process; when it dies, at most the text in flight loses its
\* call, which the crash accounts for.
LEMMA ExitMail ==
    ASSUME TypeOK, MailInv, AllOrNothing, NEW c \in Crons,
           ProcessError(c) \/ Crash(c) \/ Finish(c)
    PROVE  MailInv' /\ AllOrNothing'
<1>0. /\ UNCHANGED <<texts, serial, attempts>>
      /\ Go(c, Stopped)
      /\ cron[c].pc # "stopped"
  BY DEF ProcessError, Crash, Finish, Exit, mailVars, faults, MailInv, RunOK
<1>a. Stopped.pc = "stopped"
  BY DEF Stopped
<1>1. /\ \A d \in Crons : d # c => cron[d] = Stopped /\ RunOK(d)'
      /\ cron'[c] = Stopped
      /\ \A t : InFlight(t) => cron[c].pc \in {"saveSent", "saveTry"}
      /\ \A t : ~InFlight(t)'
  BY <1>0, <1>a, OthersStopped
<1>2. RunOK(c)'
  BY <1>1 DEF RunOK, Stopped
<1>3. ASSUME NEW t \in DOMAIN texts PROVE Accounted(t)'
  <2>1. Accounted(t) /\ attempts[t] \in Nat /\ texts[t].tries \in Nat
    BY DEF MailInv, TypeOK, TextRow
  <2>2. CASE Crash(c)
    <3>1. crashes' = crashes + 1 /\ crashes \in Nat
      BY <2>2 DEF Crash, TypeOK
    <3> QED BY <1>0, <1>1, <2>1, <3>1 DEF Accounted
  <2>3. CASE ProcessError(c) \/ Finish(c)
    <3>1. crashes' = crashes /\ ~InFlight(t)
      BY <2>3, <1>1 DEF ProcessError, Finish, faults
    <3> QED BY <1>0, <1>1, <2>1, <3>1 DEF Accounted
  <2> QED BY <2>2, <2>3
<1> QED BY <1>0, <1>1, <1>2, <1>3 DEF MailInv, AllOrNothing

\* A step that changes only what the process knows, and sends nothing.
LEMMA LocalMail ==
    ASSUME TypeOK, MailInv, AllOrNothing, NEW c \in Crons, NEW f, Go(c, f),
           cron[c].pc \notin {"stopped", "saveSent", "saveTry"},
           f.pc \notin {"saveSent", "saveTry"},
           UNCHANGED <<texts, serial, attempts, lock, crashes>>,
           RunOK(c)'
    PROVE  MailInv' /\ AllOrNothing'
<1>1. /\ \A d \in Crons : d # c => RunOK(d)'
      /\ \A t : ~InFlight(t) /\ ~InFlight(t)'
  BY OthersStopped
<1>2. \A t \in DOMAIN texts : Accounted(t)'
  BY <1>1 DEF MailInv, Accounted
<1> QED BY <1>1, <1>2 DEF MailInv, AllOrNothing

\* Steps of a running process.
LEMMA RunMail ==
    ASSUME TypeOK, MailInv, AllOrNothing, NEW c \in Crons, Run(c)
    PROVE  MailInv' /\ AllOrNothing'
<1>0. cron[c] \in CronState /\ RunOK(c)
  BY DEF TypeOK, MailInv
<1>1. CASE SelectMessages(c)
  <2> DEFINE f == [cron[c] EXCEPT !.pc = "process",
                 !.todo = {m \in Messages \ old : request[m] = "unprocessed"}]
  <2>1. /\ Go(c, f) /\ cron[c].pc = "select" /\ cron'[c] = f
        /\ UNCHANGED <<texts, serial, attempts, lock, crashes>>
    BY <1>1 DEF SelectMessages, Go, TypeOK, mailVars, faults
  <2>2. f.pc = "process" /\ f.made = cron[c].made /\ f.batch = cron[c].batch
    BY <1>0 DEF CronState
  <2>3. RunOK(c)'
    BY <1>0, <2>1, <2>2 DEF RunOK
  <2> QED BY <2>1, <2>2, <2>3, LocalMail
<1>2. CASE BeginProcess(c)
  <2>1. PICK m \in cron[c].todo :
          /\ Go(c, [cron[c] EXCEPT !.pc = "create", !.msg = m, !.todo = @ \ {m},
                                   !.addrs = Recipients[m]])
          /\ serial' = [serial EXCEPT ![m] = @ + 1]
    BY <1>2 DEF BeginProcess
  <2> DEFINE f == [cron[c] EXCEPT !.pc = "create", !.msg = m, !.todo = @ \ {m},
                                  !.addrs = Recipients[m]]
  <2>2. /\ m \in Messages /\ serial[m] \in Nat /\ serial'[m] = serial[m] + 1
        /\ \A x \in Messages : serial'[x] >= serial[x]
    BY <1>0, <2>1 DEF CronState, TypeOK
  <2>3. /\ f.pc = "create" /\ f.made = cron[c].made /\ f.batch = cron[c].batch
        /\ f.msg = m /\ f.addrs = Recipients[m]
    BY <1>0 DEF CronState
  <2>4. /\ cron[c].pc = "process"
        /\ UNCHANGED <<texts, attempts, lock, crashes>>
    BY <1>2 DEF BeginProcess, faults
  <2>5. /\ \A d \in Crons : d # c => RunOK(d)'
        /\ cron'[c] = f
        /\ \A t : ~InFlight(t) /\ ~InFlight(t)'
    <3>1. Go(c, f)
      BY <2>1
    <3> HIDE DEF f
    <3> QED BY <2>3, <2>4, <3>1, OthersStopped
  <2>6. ASSUME NEW t \in DOMAIN texts
        PROVE  Accounted(t)' /\ (t[1] = m => t[3] < serial'[m])
    <3>1. Accounted(t) /\ t \in TextIds /\ t[1] \in Messages /\ t[3] \in Nat
      BY DEF MailInv, TypeOK, TextIds
    <3>a. /\ t[3] <= serial[t[1]] /\ serial[t[1]] \in Nat /\ serial'[t[1]] \in Nat
          /\ serial'[t[1]] >= serial[t[1]]
      BY <2>1, <2>2, <3>1 DEF Accounted, TypeOK
    <3>2. t[3] <= serial'[t[1]] /\ (t[1] = m => t[3] < serial'[m])
      <4> DEFINE x == t[3]
                 y == t[1]
      <4>1. x \in Nat /\ x <= serial[y] /\ serial'[y] \in Nat /\ serial[y] \in Nat /\ serial'[y] >= serial[y]
        BY <3>1, <3>a
      <4> HIDE DEF x, y
      <4>2. x <= serial'[y] /\ (y = m => x < serial'[m])
        BY <2>2, <4>1
      <4> QED BY <4>2 DEF x, y
    <3> QED BY <2>4, <2>5, <3>1, <3>2 DEF Accounted
  <2>7. RunOK(c)'
    BY <1>0, <2>2, <2>3, <2>4, <2>5, <2>6 DEF RunOK
  <2> QED BY <2>4, <2>5, <2>6, <2>7 DEF MailInv, AllOrNothing
<1>3. CASE CreateText(c)
  <2>1. PICK a \in cron[c].addrs :
          Go(c, [cron[c] EXCEPT !.addrs = @ \ {a},
                   !.made = @ \union {<<cron[c].msg, a, serial[cron[c].msg]>>}])
    BY <1>3 DEF CreateText
  <2> DEFINE new == <<cron[c].msg, a, serial[cron[c].msg]>>
             f == [cron[c] EXCEPT !.addrs = @ \ {a}, !.made = @ \union {new}]
  <2>2. /\ cron[c].pc = "create"
        /\ UNCHANGED <<texts, serial, attempts, lock, crashes>>
    BY <1>3 DEF CreateText, mailVars, faults
  <2>3. /\ f.pc = "create" /\ f.made = cron[c].made \union {new}
        /\ f.batch = cron[c].batch /\ f.msg = cron[c].msg
        /\ f.addrs = cron[c].addrs \ {a}
    BY <1>0, <2>2 DEF CronState
  <2>4. cron'[c] = f
    BY <2>1 DEF Go, TypeOK
  <2>5. RunOK(c)'
    BY <1>0, <2>2, <2>3, <2>4 DEF RunOK
  <2> QED BY <2>1, <2>2, <2>3, <2>5, LocalMail
<1>4. CASE CommitProcess(c)
  <2> DEFINE f == [cron[c] EXCEPT !.pc = "process", !.msg = None, !.made = {}]
             m == cron[c].msg
             made == cron[c].made
  <2>1. /\ cron[c].pc = "create" /\ cron[c].addrs = {} /\ Go(c, f) /\ WithTexts(made)
        /\ UNCHANGED <<serial, lock, crashes>>
    BY <1>4 DEF CommitProcess, faults
  <2>2. f.pc = "process" /\ f.made = {} /\ f.batch = cron[c].batch
    BY <1>0 DEF CronState
  <2>3. /\ \A d \in Crons : d # c => RunOK(d)'
        /\ cron'[c] = f
        /\ \A t : ~InFlight(t) /\ ~InFlight(t)'
    <3> HIDE DEF f
    <3> QED BY <2>1, <2>2, OthersStopped
  <2>4. /\ DOMAIN texts' = DOMAIN texts \union made
        /\ \A t \in made : texts'[t] = Unsent /\ attempts'[t] = 0
        /\ \A t \in DOMAIN texts \ made : texts'[t] = texts[t] /\ attempts'[t] = attempts[t]
    BY <2>1 DEF WithTexts, TypeOK
  <2>5. RunOK(c)'
    <3>1. cron[c].batch = {} /\ lock = c
      BY <1>0, <2>1 DEF RunOK
    <3> QED BY <2>1, <2>2, <2>3, <3>1 DEF RunOK
  <2>6. ASSUME NEW t \in DOMAIN texts' PROVE Accounted(t)'
    <3>1. CASE t \in made
      <4>1. t[1] = m /\ t[3] = serial[m] /\ m \in Messages /\ serial[m] \in Nat
        BY <1>0, <2>1, <3>1 DEF RunOK, TypeOK
      <4>2. crashes \in Nat /\ Retries \in Nat
        BY MailAssumption DEF TypeOK
      <4> QED BY <2>1, <2>3, <2>4, <3>1, <4>1, <4>2 DEF Accounted, Unsent
    <3>2. CASE t \notin made
      <4>1. t \in DOMAIN texts /\ Accounted(t)
        BY <2>4, <3>2 DEF MailInv
      <4> QED BY <2>1, <2>3, <2>4, <3>2, <4>1 DEF Accounted
    <3> QED BY <3>1, <3>2
  <2>7. AllOrNothing'
    <3> SUFFICES ASSUME NEW t \in DOMAIN texts', NEW a \in Recipients[t[1]]
                 PROVE  <<t[1], a, t[3]>> \in DOMAIN texts'
      BY DEF AllOrNothing
    <3>1. CASE t \in made
      BY <1>0, <2>1, <2>4, <3>1 DEF RunOK
    <3>2. CASE t \notin made
      BY <2>4, <3>2 DEF AllOrNothing
    <3> QED BY <3>1, <3>2
  <2> QED BY <2>3, <2>5, <2>6, <2>7 DEF MailInv
<1>5. CASE CountBatches(c)
  <2> DEFINE f == [cron[c] EXCEPT !.pc = "send", !.cutoff = old,
                  !.left = CeilDiv(Cardinality(Eligible(old)), BatchSize)]
  <2>1. /\ Go(c, f) /\ cron[c].pc = "process" /\ cron'[c] = f
        /\ UNCHANGED <<texts, serial, attempts, lock, crashes>>
    BY <1>5 DEF CountBatches, Go, TypeOK, mailVars, faults
  <2>2. f.pc = "send" /\ f.made = cron[c].made /\ f.batch = cron[c].batch
    BY <1>0 DEF CronState
  <2>3. RunOK(c)'
    BY <1>0, <2>1, <2>2 DEF RunOK
  <2> QED BY <2>1, <2>2, <2>3, LocalMail
<1>6. CASE FetchBatch(c)
  <2>1. PICK B \in SUBSET Eligible(cron[c].cutoff) :
          Go(c, [cron[c] EXCEPT !.left = @ - 1, !.batch = {Loaded(t) : t \in B}])
    BY <1>6 DEF FetchBatch
  <2> DEFINE f == [cron[c] EXCEPT !.left = @ - 1, !.batch = {Loaded(t) : t \in B}]
  <2>2. /\ cron[c].pc = "send" /\ cron'[c] = f
        /\ UNCHANGED <<texts, serial, attempts, lock, crashes>>
    BY <1>6, <2>1 DEF FetchBatch, Go, TypeOK, mailVars, faults
  <2>3. f.pc = "send" /\ f.made = cron[c].made /\ f.batch = {Loaded(t) : t \in B}
    BY <1>0, <2>2 DEF CronState
  <2>4. ASSUME NEW t \in B PROVE Current(Loaded(t))
    BY DEF Eligible, Current, Loaded
  <2>5. ASSUME NEW row \in f.batch PROVE Current(row)'
    <3>1. Current(row)
      BY <2>3, <2>4
    <3> QED BY <2>2, <3>1 DEF Current, Loaded
  <2>6. RunOK(c)'
    BY <1>0, <2>2, <2>3, <2>5 DEF RunOK
  <2> QED BY <2>1, <2>2, <2>3, <2>6, LocalMail
<1>7. CASE SendMail(c)
  <2>1. PICK row \in cron[c].batch, outcome \in {"saveSent", "saveTry"} :
          /\ attempts' = [attempts EXCEPT ![row.id] = @ + 1]
          /\ Go(c, [cron[c] EXCEPT !.pc = outcome, !.batch = @ \ {row}, !.mailtxt = row])
    BY <1>7 DEF SendMail
  <2> DEFINE f == [cron[c] EXCEPT !.pc = outcome, !.batch = @ \ {row}, !.mailtxt = row]
  <2>2. cron[c].pc = "send" /\ UNCHANGED <<texts, serial, lock, crashes>>
    BY <1>7 DEF SendMail, faults
  <2>3. /\ f.pc = outcome /\ f.made = cron[c].made
        /\ f.batch = cron[c].batch \ {row} /\ f.mailtxt = row
    BY <1>0 DEF CronState
  <2>4. /\ \A d \in Crons : d # c => RunOK(d)'
        /\ cron'[c] = f
        /\ \A t : ~InFlight(t) /\ (InFlight(t)' <=> t = row.id)
    <3>1. Go(c, f)
      BY <2>1
    <3> HIDE DEF f
    <3> QED BY <2>2, <2>3, <3>1, OthersStopped
  <2>5. Current(row) /\ \A x \in cron[c].batch : Current(x)
    BY <1>0 DEF RunOK
  <2>6. \A x \in cron[c].batch : x # row => x.id # row.id
    BY <2>5 DEF Current
  <2>7. \A x \in cron[c].batch : Current(x)'
    BY <2>2, <2>5 DEF Current, Loaded
  <2>8. RunOK(c)'
    BY <1>0, <2>2, <2>3, <2>4, <2>6, <2>7 DEF RunOK
  <2>9. ASSUME NEW t \in DOMAIN texts PROVE Accounted(t)'
    <3>1. /\ Accounted(t) /\ attempts[t] \in Nat /\ texts[t].tries \in Nat
          /\ crashes \in Nat
      BY DEF MailInv, TypeOK, TextRow
    <3>2. CASE t = row.id
      <4>1. ~texts[t].sent /\ attempts'[t] = attempts[t] + 1
        BY <2>1, <2>5, <3>2 DEF Current, Loaded, TypeOK
      <4> QED BY <2>2, <2>4, <3>1, <3>2, <4>1 DEF Accounted
    <3>3. CASE t # row.id
      <4>1. attempts'[t] = attempts[t]
        BY <2>1, <3>3 DEF TypeOK
      <4> QED BY <2>2, <2>4, <3>1, <3>3, <4>1 DEF Accounted
    <3> QED BY <3>2, <3>3
  <2> QED BY <2>2, <2>4, <2>8, <2>9 DEF MailInv, AllOrNothing
<1>8. CASE SaveText(c)
  <2> DEFINE row == cron[c].mailtxt
             new == IF cron[c].pc = "saveSent" THEN [sent |-> TRUE, tries |-> row.tries]
                                 ELSE [sent |-> row.sent, tries |-> row.tries + 1]
             f == [cron[c] EXCEPT !.pc = "send", !.mailtxt = None]
  <2>1. /\ cron[c].pc \in {"saveSent", "saveTry"}
        /\ texts' = [texts EXCEPT ![row.id] = new] /\ Go(c, f)
        /\ UNCHANGED <<serial, attempts, lock, crashes>>
    BY <1>8 DEF SaveText, faults
  <2>2. f.pc = "send" /\ f.made = cron[c].made /\ f.batch = cron[c].batch
    BY <1>0 DEF CronState
  <2>3. /\ \A d \in Crons : d # c => RunOK(d)'
        /\ cron'[c] = f
        /\ \A t : ~InFlight(t)' /\ (InFlight(t) <=> t = row.id)
    <3> HIDE DEF f
    <3> QED BY <2>1, <2>2, OthersStopped
  <2>4. Current(row) /\ \A x \in cron[c].batch : Current(x) /\ x.id # row.id
    BY <1>0, <2>1 DEF RunOK
  <2>5. /\ DOMAIN texts' = DOMAIN texts
        /\ texts'[row.id] = new
        /\ \A t \in DOMAIN texts : t # row.id => texts'[t] = texts[t]
    BY <2>1, <2>4 DEF Current
  <2>6. \A x \in cron[c].batch : Current(x)'
    BY <2>4, <2>5 DEF Current, Loaded
  <2>7. RunOK(c)'
    BY <1>0, <2>1, <2>2, <2>3, <2>6 DEF RunOK
  <2>8. ASSUME NEW t \in DOMAIN texts PROVE Accounted(t)'
    <3>1. /\ Accounted(t) /\ attempts[t] \in Nat /\ texts[t].tries \in Nat
          /\ crashes \in Nat /\ Retries \in Nat
      BY MailAssumption DEF MailInv, TypeOK, TextRow
    <3>2. CASE t = row.id
      <4>1. /\ row.tries = texts[t].tries /\ ~texts[t].sent /\ ~row.sent
            /\ row.tries <= Retries
        BY <2>4, <3>2 DEF Current, Loaded
      <4>2. CASE cron[c].pc = "saveSent"
        <5>1. texts'[t].sent = TRUE /\ texts'[t].tries = texts[t].tries
          BY <2>5, <3>2, <4>1, <4>2
        <5> QED BY <2>1, <2>3, <3>1, <3>2, <4>1, <5>1 DEF Accounted
      <4>3. CASE cron[c].pc # "saveSent"
        <5>1. texts'[t].sent = row.sent /\ texts'[t].tries = texts[t].tries + 1
          BY <2>5, <3>2, <4>1, <4>3
        <5> QED BY <2>1, <2>3, <3>1, <3>2, <4>1, <5>1 DEF Accounted
      <4> QED BY <4>2, <4>3
    <3>3. CASE t # row.id
      BY <2>1, <2>3, <2>5, <3>1, <3>3 DEF Accounted
    <3> QED BY <3>2, <3>3
  <2> QED BY <2>3, <2>5, <2>7, <2>8 DEF MailInv, AllOrNothing
<1>9. CASE Finish(c)
  BY <1>9, ExitMail
<1> QED BY <1>1, <1>2, <1>3, <1>4, <1>5, <1>6, <1>7, <1>8, <1>9 DEF Run

-----------------------------------------------------------------------------
(* Theorems.                                                                *)

\* The inductive invariant.
MailIInv == TypeOK /\ Finite /\ MailInv /\ AllOrNothing

\* Every step of the system keeps it.
LEMMA NextMail ==
    ASSUME MailIInv, [Next]_vars
    PROVE  MailIInv'
<1> USE DEF MailIInv
<1>1. ASSUME NEW m \in Messages, Author(m) PROVE MailIInv'
  BY <1>1, AuthorType, AuthorMail
<1>2. ASSUME NEW c \in Crons, StartCron(c) PROVE MailIInv'
  BY <1>2, ExitType, StartMail
<1>3. ASSUME NEW c \in Crons, Run(c) PROVE MailIInv'
  BY <1>3, RunType, RunMail
<1>4. ASSUME NEW c \in Crons, ProcessError(c) \/ Crash(c) PROVE MailIInv'
  BY <1>4, ExitType, ExitMail
<1>5. CASE UNCHANGED vars
  BY <1>5 DEF vars, TypeOK, Finite, MailInv, AllOrNothing, RunOK, Accounted,
              InFlight, Current, Loaded
<1> QED BY <1>1, <1>2, <1>3, <1>4, <1>5 DEF Next

\* The invariant holds in every behaviour.
LEMMA AlwaysMail == Spec => []MailIInv
<1>1. Init => MailIInv
  BY InitType, InitMail DEF MailIInv
<1>2. MailIInv /\ [Next]_vars => MailIInv'
  BY NextMail
<1> QED BY <1>1, <1>2, PTL DEF Spec

\* The tables and the processes of dbmail_cron.py keep their types.
THEOREM MailTypes == Spec => []TypeOK
<1>1. MailIInv => TypeOK
  BY DEF MailIInv
<1> QED BY <1>1, AlwaysMail, PTL

\* process() leaves a TextOfEmail for every address of a message or for none,
\* wherever the script fails or dies.
THEOREM ProcessIsAtomic == Spec => []AllOrNothing
<1>1. MailIInv => AllOrNothing
  BY DEF MailIInv
<1> QED BY <1>1, AlwaysMail, PTL

\* send_email_requests gives a text to the mail server at most EMAILRETRIES + 1
\* times, and once more for every time that the script has died.
THEOREM TriesAreBounded == Spec => []TriesTotal
<1>1. MailIInv => TriesTotal
  <2> SUFFICES ASSUME MailIInv, NEW t \in DOMAIN texts
               PROVE  attempts[t] <= Retries + 1 + crashes
    BY DEF TriesTotal
  <2>1. /\ Accounted(t) /\ attempts[t] \in Nat /\ texts[t].tries \in Nat
        /\ crashes \in Nat /\ Retries \in Nat
    BY MailAssumption DEF MailIInv, MailInv, TypeOK, TextRow
  <2>2. InFlight(t) => texts[t].tries <= Retries
    <3> SUFFICES ASSUME NEW c \in Crons, cron[c].pc \in {"saveSent", "saveTry"},
                        cron[c].mailtxt.id = t
                 PROVE  texts[t].tries <= Retries
      BY DEF InFlight
    <3>1. Current(cron[c].mailtxt)
      BY DEF MailIInv, MailInv, RunOK
    <3> QED BY <3>1 DEF Current, Loaded
  <2>3. CASE texts[t].sent \/ InFlight(t)
    BY <2>1, <2>2, <2>3 DEF Accounted
  <2>4. CASE ~(texts[t].sent \/ InFlight(t))
    BY <2>1, <2>4 DEF Accounted
  <2> QED BY <2>3, <2>4
<1> QED BY <1>1, AlwaysMail, PTL

\* A step neither sends a text that is recorded as sent nor takes the record
\* back.
LEMMA SentStep ==
    ASSUME MailIInv, [Next]_vars, NEW t \in DOMAIN texts, texts[t].sent
    PROVE  texts'[t].sent /\ attempts'[t] = attempts[t]
<1>0. TypeOK /\ MailInv
  BY DEF MailIInv
<1>1. CASE UNCHANGED <<texts, attempts>>
  BY <1>1
<1>2. ASSUME NEW c \in Crons, CommitProcess(c)
      PROVE  texts'[t].sent /\ attempts'[t] = attempts[t]
  <2>1. t \notin cron[c].made
    <3>1. RunOK(c) /\ cron[c].pc = "create"
      BY <1>0, <1>2 DEF MailInv, CommitProcess
    <3>2. /\ cron[c].msg \in Messages
          /\ \A x \in cron[c].made : x[1] = cron[c].msg /\ x[3] = serial[cron[c].msg]
          /\ t[1] = cron[c].msg => t[3] < serial[cron[c].msg]
      BY <3>1 DEF RunOK
    <3>3. serial[cron[c].msg] \in Nat
      BY <1>0, <3>2 DEF TypeOK
    <3> QED BY <3>2, <3>3
  <2> QED BY <1>0, <1>2, <2>1 DEF CommitProcess, WithTexts, TypeOK
<1>3. ASSUME NEW c \in Crons, SendMail(c)
      PROVE  texts'[t].sent /\ attempts'[t] = attempts[t]
  <2>1. PICK row \in cron[c].batch : attempts' = [attempts EXCEPT ![row.id] = @ + 1]
    BY <1>3 DEF SendMail
  <2>2. Current(row)
    BY <1>0 DEF MailInv, RunOK
  <2>3. t # row.id
    BY <2>2 DEF Current, Loaded
  <2> QED BY <1>0, <1>3, <2>1, <2>3 DEF SendMail, TypeOK
<1>4. ASSUME NEW c \in Crons, SaveText(c)
      PROVE  texts'[t].sent /\ attempts'[t] = attempts[t]
  <2>1. Current(cron[c].mailtxt)
    BY <1>0, <1>4 DEF MailInv, RunOK, SaveText
  <2>2. t # cron[c].mailtxt.id
    BY <2>1 DEF Current, Loaded
  <2> QED BY <1>4, <2>2 DEF SaveText
<1>5. ASSUME NEW m \in Messages, Author(m) PROVE UNCHANGED <<texts, attempts>>
  BY <1>5 DEF Author, CreateRequest, SaveAgain, Age, mailVars
<1>6. ASSUME NEW c \in Crons, StartCron(c) \/ ProcessError(c) \/ Crash(c)
      PROVE  UNCHANGED <<texts, attempts>>
  BY <1>6 DEF StartCron, ProcessError, Crash, mailVars
<1>7. ASSUME NEW c \in Crons, Run(c)
      PROVE  texts'[t].sent /\ attempts'[t] = attempts[t]
  <2>1. \/ UNCHANGED <<texts, attempts>>
        \/ CommitProcess(c) \/ SendMail(c) \/ SaveText(c)
    BY <1>7 DEF Run, SelectMessages, BeginProcess, CreateText, CountBatches,
                FetchBatch, Finish, mailVars
  <2> QED BY <1>1, <1>2, <1>3, <1>4, <2>1
<1>8. CASE UNCHANGED vars
  BY <1>1, <1>8 DEF vars
<1> QED BY <1>1, <1>5, <1>6, <1>7, <1>8 DEF Next

\* Once a text is saved as sent no run of dbmail_cron.py sends it again or
\* forgets that it was sent, however many are started at a time.
THEOREM SentTextsStaySent == Spec => SentOnce
<1> DEFINE P == \A t \in DOMAIN texts :
                  texts[t].sent => /\ texts'[t].sent
                                   /\ attempts'[t] = attempts[t]
<1>1. MailIInv /\ [Next]_vars => [P]_vars
  BY SentStep
<1> QED BY <1>1, AlwaysMail, PTL DEF Spec, SentOnce
=============================================================================
