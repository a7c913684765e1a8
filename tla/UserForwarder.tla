--------------------------- MODULE UserForwarder ---------------------------
(***************************************************************************)
(* Login forwarding between user accounts (users/models/forwarder.py).     *)
(*                                                                         *)
(* The table UserForwarder has at most one row per source (a OneToOne      *)
(* field), so it is a function from accounts to their target.  A call of   *)
(* UserForwarder.forward is modelled query by query: it reads the rows     *)
(* that point at the source, walks from the target at most MAX_DEPTH rows, *)
(* and then writes everything in one transaction.  One call runs at a time *)
(* (the code documents that it does not defend against concurrent calls).  *)
(***************************************************************************)
EXTENDS Naturals

CONSTANTS
    Users,       \* the accounts
    NoUser,      \* no row for this source / no account
    MAX_DEPTH,   \* how many forwarders updateTarget follows
    SelfCalls    \* TRUE: callers may pass the same account twice

ASSUME UsersAssumption == NoUser \notin Users
ASSUME DepthAssumption == MAX_DEPTH \in Nat \ {0, 1}
ASSUME SelfCallsAssumption == SelfCalls \in BOOLEAN

VARIABLES
    fwd,         \* the table: fwd[s] is the target of the row of source s
    pc,          \* where the running call is: "idle", "walk" or "write"
    source,      \* self.source of the running call
    original,    \* the target as given by the caller
    target,      \* how far the walk has come
    rewrites,    \* sources of the rows to be re-pointed
    depth        \* rows followed so far

forwarderVars == <<fwd, pc, source, original, target, rewrites, depth>>
callVars == <<source, original, target, rewrites, depth>>

ForwarderInit ==
    /\ fwd = [u \in Users |-> NoUser]
    /\ pc = "idle"
    /\ source = NoUser
    /\ original = NoUser
    /\ target = NoUser
    /\ rewrites = {}
    /\ depth = 0

\* forward() returns, and its local variables with it.
Return ==
    /\ pc' = "idle"
    /\ source' = NoUser
    /\ original' = NoUser
    /\ target' = NoUser
    /\ rewrites' = {}
    /\ depth' = 0

\* The rows of forwarders_in, by source.
ForwardersIn(u) == {v \in Users : fwd[v] = u}

\* Beginning of forward(): load the rows that point at the source.
BeginForward(s, t) ==
    /\ pc = "idle"
    /\ pc' = "walk"
    /\ source' = s
    /\ original' = t
    /\ target' = t
    /\ rewrites' = ForwardersIn(s)
    /\ depth' = 0
    /\ UNCHANGED fwd

\* A walk that does not notice it has come back to the source.
FollowUnchecked ==
    /\ pc = "walk"
    /\ IF depth < MAX_DEPTH /\ fwd[target] # NoUser
       THEN /\ rewrites' = rewrites \union {target}
            /\ target' = fwd[target]
            /\ depth' = depth + 1
            /\ UNCHANGED <<fwd, pc, source, original>>
       ELSE /\ pc' = "write"
            /\ UNCHANGED <<fwd, callVars>>

\* One round of the loop of updateTarget: stop when the target forwards to
\* nobody (or after MAX_DEPTH rounds), fall back to the given target when it
\* forwards to the source, otherwise follow the row.
FollowRow ==
    /\ pc = "walk"
    /\ \/ /\ depth = MAX_DEPTH \/ fwd[target] = NoUser
          /\ pc' = "write"
          /\ UNCHANGED <<fwd, callVars>>
       \/ /\ depth < MAX_DEPTH
          /\ fwd[target] = source
          /\ target' = original
          /\ pc' = "write"
          /\ UNCHANGED <<fwd, source, original, rewrites, depth>>
       \/ /\ depth < MAX_DEPTH
          /\ fwd[target] \notin {NoUser, source}
          /\ rewrites' = rewrites \union {target}
          /\ target' = fwd[target]
          /\ depth' = depth + 1
          /\ UNCHANGED <<fwd, pc, source, original>>

\* The table after the transaction: self is saved, and every row to rewrite
\* is re-pointed, or deleted when it would point at its own source.
Rewritten ==
    [u \in Users |->
        IF u \in rewrites THEN (IF u = target THEN NoUser ELSE target)
        ELSE IF u = source THEN target
        ELSE fwd[u]]

\* A transaction that saves self but flattens nothing.
WriteUnflattened ==
    /\ pc = "write"
    /\ fwd' = [fwd EXCEPT ![source] = target]
    /\ Return

WriteRows ==
    /\ pc = "write"
    /\ fwd' = Rewritten
    /\ Return

ForwarderNext ==
    \/ \E s, t \in Users : (s # t \/ SelfCalls) /\ BeginForward(s, t)
    \/ FollowRow
    \/ WriteRows

ForwarderSpec == ForwarderInit /\ [][ForwarderNext]_forwarderVars

\* follow(): one row at most; chains are not handled at read time.
Follow(u) == IF fwd[u] = NoUser THEN u ELSE fwd[u]

-----------------------------------------------------------------------------

\* Types of the table and of the running call.
ForwarderTypeOK ==
    /\ fwd \in [Users -> Users \union {NoUser}]
    /\ pc \in {"idle", "walk", "write"}
    /\ source \in Users \union {NoUser}
    /\ original \in Users \union {NoUser}
    /\ target \in Users \union {NoUser}
    /\ rewrites \subseteq Users
    /\ depth \in 0..MAX_DEPTH

\* Nobody who is forwarded to is forwarded further, so that the single row
\* read by follow() always reaches the final account ("We don't handle
\* chained forwarders. That's done at write time").
Flat == \A u \in Users : fwd[u] # NoUser => fwd[fwd[u]] = NoUser

\* What a running call has read and where its walk stands.  The table is flat
\* and nobody else writes it, so the walk follows one row at most.
CallOK ==
    /\ pc = "idle" => source = NoUser
    /\ pc # "idle" =>
        /\ source \in Users
        /\ original \in Users
        /\ source # original
        /\ target \in Users
        /\ \/ /\ target = original
              /\ rewrites = ForwardersIn(source)
              /\ depth = 0
              /\ pc = "write" => fwd[original] \in {NoUser, source}
           \/ /\ target = fwd[original]
              /\ depth = 1
              /\ target # source
              /\ rewrites = ForwardersIn(source) \union {original}

\* The inductive invariant.
ForwarderInv == ForwarderTypeOK /\ Flat /\ CallOK

\* updateTarget "preserves absence of circularity": no set of accounts
\* forwards only within itself.
NoCircularity ==
    \A S \in SUBSET Users : S # {} => \E u \in S : fwd[u] \notin S

\* A finished call is one step of LoginIdentity, and nothing else moves an
\* account: forwarding s to t moves s and all accounts under it to t's
\* identity, and every other account stays where it was.
LI == INSTANCE LoginIdentity WITH identity <- [u \in Users |-> Follow(u)]
ForwardingIsOneStep == LI!Spec
=============================================================================
