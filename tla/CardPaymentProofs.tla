------------------------- MODULE CardPaymentProofs -------------------------
(***************************************************************************)
(* Theorems about CardPayment: what the site records as paid was charged,   *)
(* and the first payment is for rows that sum to it, for any number of      *)
(* requests, any fee and donations, and any faults.                         *)
(***************************************************************************)
EXTENDS CardPayment, FiniteSetTheorems, WellFoundedInduction, TLAPS

\* f is a record with the fields of a request.  The amounts are sums over
\* tables, about whose values nothing needs to be known here.
IsRequest(f) ==
    f \in [pc : {f.pc}, base : {f.base}, donation : {f.donation}, token : {f.token},
           doomed : {f.doomed}, loaded : {f.loaded}, linked : {f.linked},
           total : {f.total}, target : {f.target}]

Records ==
    /\ req = [r \in Requests |-> req[r]]
    /\ \A r \in Requests : IsRequest(req[r])

\* A recorded payment belongs to a request that is done, and was charged; and
\* a request that is about to commit has been charged.
Charged ==
    /\ payments \subseteq Requests
    /\ \A r \in payments : req[r].pc = "done" /\ Charge(r) \in charges
    /\ \A r \in Requests : req[r].pc = "commit" => Charge(r) \in charges

CardInv == Records /\ Charged /\ LinksArePayments

\* What is posted, and with which token.
SameForm(f, g) == f.base = g.base /\ f.donation = g.donation /\ f.token = g.token

LEMMA OneMoves ==
    ASSUME Records, NEW r \in Requests, NEW g, IsRequest(g), req' = [req EXCEPT ![r] = g]
    PROVE  /\ Records'
           /\ req'[r] = g
           /\ \A q \in Requests : q # r => req'[q] = req[q]
<1>1. req' = [q \in Requests |-> req'[q]]
  BY DEF Records
<1>2. req'[r] = g /\ \A q \in Requests : q # r => req'[q] = req[q]
  BY DEF Records
<1>3. ASSUME NEW q \in Requests PROVE IsRequest(req'[q])
  <2>1. CASE q = r
    BY <1>2, <2>1
  <2>2. CASE q # r
    <3>1. IsRequest(req[q])
      BY DEF Records
    <3> QED BY <1>2, <2>2, <3>1
  <2> QED BY <2>1, <2>2
<1> QED BY <1>1, <1>2, <1>3 DEF Records

\* Charge(q) only depends on the form that q has posted.
LEMMA ChargeOfForm ==
    ASSUME NEW q \in Requests, SameForm(req[q], req'[q])
    PROVE  Charge(q)' = Charge(q)
BY DEF SameForm, Charge, Posted

LEMMA FinishedIsRequest ==
    ASSUME NEW r \in Requests, IsRequest(req[r])
    PROVE  /\ IsRequest(Finished(r))
           /\ Finished(r).pc = "done"
           /\ SameForm(req[r], Finished(r))
BY DEF IsRequest, Finished, SameForm

\* Only r moves, it was not done, and its form was only changed before it was
\* posted.
Moved(r) ==
    /\ req[r].pc # "done"
    /\ Records'
    /\ \A q \in Requests : q # r => req'[q] = req[q]
    /\ req[r].pc \in {"new", "page"} \/ SameForm(req[r], req'[r])

LEMMA MovesTo ==
    ASSUME Records, NEW r \in Requests, NEW g, IsRequest(g), Go(r, g),
           req[r].pc # "done",
           req[r].pc \in {"new", "page"} \/ SameForm(req[r], g)
    PROVE  Moved(r) /\ req'[r] = g
BY OneMoves DEF Go, Moved

\* The request ends.
LEMMA EndMoves ==
    ASSUME Records, NEW r \in Requests, Go(r, Finished(r)), req[r].pc # "done"
    PROVE  Moved(r) /\ req'[r].pc = "done"
<1>1. IsRequest(req[r])
  BY DEF Records
<1>2. IsRequest(Finished(r)) /\ Finished(r).pc = "done" /\ SameForm(req[r], Finished(r))
  BY <1>1, FinishedIsRequest
<1> QED BY <1>2, MovesTo

\* The browser opens the page, fills in the form and posts it, or posts it
\* again.
LEMMA BrowserMoves ==
    ASSUME Records, NEW r \in Requests, Browser(r)
    PROVE  Moved(r) /\ req'[r].pc # "commit" /\ UNCHANGED <<transfers, payments, charges>>
<1>0. IsRequest(req[r])
  BY DEF Records
<1>1. CASE OpenPage(r)
  <2> DEFINE g == [New EXCEPT !.pc = "page", !.base = amount_due - amount_donation]
  <2>1. IsRequest(g) /\ g.pc = "page"
    BY DEF IsRequest, New
  <2>2. Go(r, g) /\ req[r].pc = "new" /\ UNCHANGED <<transfers, payments, charges>>
    BY <1>1 DEF OpenPage
  <2> HIDE DEF g
  <2> QED BY <2>1, <2>2, MovesTo
<1>2. ASSUME NEW d \in Donations, Post(r, d)
      PROVE  Moved(r) /\ req'[r].pc # "commit" /\ UNCHANGED <<transfers, payments, charges>>
  <2> DEFINE g == [req[r] EXCEPT !.pc = "clearDonation", !.donation = d, !.token = r]
  <2>1. IsRequest(g) /\ g.pc = "clearDonation"
    BY <1>0 DEF IsRequest
  <2>2. Go(r, g) /\ req[r].pc = "page" /\ UNCHANGED <<transfers, payments, charges>>
    BY <1>2 DEF Post
  <2> HIDE DEF g
  <2> QED BY <2>1, <2>2, MovesTo
<1>3. ASSUME NEW q \in Requests, Resend(r, q)
      PROVE  Moved(r) /\ req'[r].pc # "commit" /\ UNCHANGED <<transfers, payments, charges>>
  <2> DEFINE g == [New EXCEPT !.pc = "clearDonation", !.base = req[q].base,
                              !.donation = req[q].donation, !.token = q]
  <2>1. IsRequest(g) /\ g.pc = "clearDonation"
    BY DEF IsRequest, New
  <2>2. Go(r, g) /\ req[r].pc = "new" /\ UNCHANGED <<transfers, payments, charges>>
    BY <1>3 DEF Resend
  <2> HIDE DEF g
  <2> QED BY <2>1, <2>2, MovesTo
<1> QED BY <1>1, <1>2, <1>3 DEF Browser

\* The steps of a request up to the call of Stripe, and its errors.
LEMMA WorkMoves ==
    ASSUME Records, NEW r \in Requests,
           \/ ClearDonation(r) \/ DeleteMatching(r) \/ InsertDonation(r)
           \/ CheckAmount(r) \/ SubmitPayment(r) \/ ReadTransfers(r)
           \/ LinkTransfer(r) \/ ChargeRefused(r) \/ AnswerLost(r) \/ Crash(r)
    PROVE  Moved(r) /\ req'[r].pc # "commit"
<1>0. IsRequest(req[r])
  BY DEF Records
<1>a. ASSUME Go(r, Finished(r)), req[r].pc # "done"
      PROVE  Moved(r) /\ req'[r].pc # "commit"
  BY <1>a, EndMoves
<1>1. CASE ClearDonation(r)
  <2> DEFINE g == [req[r] EXCEPT !.pc = IF req[r].donation = 0 THEN "check" ELSE "matching"]
  <2>1. IsRequest(g) /\ g.pc # "commit" /\ SameForm(req[r], g)
    BY <1>0 DEF IsRequest, SameForm
  <2>2. Go(r, g) /\ req[r].pc = "clearDonation"
    BY <1>1 DEF ClearDonation
  <2> HIDE DEF g
  <2> QED BY <2>1, <2>2, MovesTo
<1>2. CASE DeleteMatching(r)
  <2> DEFINE g == [req[r] EXCEPT !.pc = "insertDonation",
                    !.doomed = {i \in DonationIds : transfers[i].amount = req[r].donation}]
  <2>1. IsRequest(g) /\ g.pc # "commit" /\ SameForm(req[r], g)
    BY <1>0 DEF IsRequest, SameForm
  <2>2. Go(r, g) /\ req[r].pc = "matching"
    BY <1>2 DEF DeleteMatching
  <2> HIDE DEF g
  <2> QED BY <2>1, <2>2, MovesTo
<1>3. CASE InsertDonation(r)
  <2> DEFINE g == [req[r] EXCEPT !.pc = "check", !.doomed = {}]
  <2>1. IsRequest(g) /\ g.pc # "commit" /\ SameForm(req[r], g)
    BY <1>0 DEF IsRequest, SameForm
  <2>2. Go(r, g) /\ req[r].pc = "insertDonation"
    BY <1>3 DEF InsertDonation
  <2> HIDE DEF g
  <2> QED BY <2>1, <2>2, MovesTo
<1>4. CASE CheckAmount(r)
  <2> DEFINE g == [req[r] EXCEPT !.pc = "submit"]
  <2>1. IsRequest(g) /\ g.pc # "commit" /\ SameForm(req[r], g)
    BY <1>0 DEF IsRequest, SameForm
  <2>2. (Go(r, g) \/ Go(r, Finished(r))) /\ req[r].pc = "check"
    BY <1>4 DEF CheckAmount
  <2> HIDE DEF g
  <2> QED BY <1>a, <2>1, <2>2, MovesTo
<1>5. CASE SubmitPayment(r)
  <2> DEFINE g == [req[r] EXCEPT !.pc = "read", !.target = amount_paid + Posted(r)]
  <2>1. IsRequest(g) /\ g.pc # "commit" /\ SameForm(req[r], g)
    BY <1>0 DEF IsRequest, SameForm
  <2>2. Go(r, g) /\ req[r].pc = "submit"
    BY <1>5 DEF SubmitPayment
  <2> HIDE DEF g
  <2> QED BY <2>1, <2>2, MovesTo
<1>6. CASE ReadTransfers(r)
  <2> DEFINE g == [req[r] EXCEPT !.pc = "link", !.total = 0,
                    !.loaded = {[id |-> i, kind |-> transfers[i].kind,
                                 amount |-> transfers[i].amount,
                                 paid_in |-> transfers[i].paid_in] : i \in DOMAIN transfers}]
  <2>1. IsRequest(g) /\ g.pc # "commit" /\ SameForm(req[r], g)
    BY <1>0 DEF IsRequest, SameForm
  <2>2. Go(r, g) /\ req[r].pc = "read"
    BY <1>6 DEF ReadTransfers
  <2> HIDE DEF g
  <2> QED BY <2>1, <2>2, MovesTo
<1>7. CASE LinkTransfer(r)
  <2>1. req[r].pc = "link"
    BY <1>7 DEF LinkTransfer
  <2>2. CASE Go(r, Finished(r))
    BY <1>a, <2>1, <2>2
  <2>3. ASSUME NEW l, NEW t, NEW k, NEW p \in {"charge", "link"},
               Go(r, [req[r] EXCEPT !.loaded = l, !.total = t, !.linked = k, !.pc = p])
        PROVE  Moved(r) /\ req'[r].pc # "commit"
    <3> DEFINE g == [req[r] EXCEPT !.loaded = l, !.total = t, !.linked = k, !.pc = p]
    <3>1. IsRequest(g) /\ g.pc # "commit" /\ SameForm(req[r], g)
      BY <1>0 DEF IsRequest, SameForm
    <3>2. Go(r, g)
      BY <2>3
    <3> HIDE DEF g
    <3> QED BY <2>1, <3>1, <3>2, MovesTo
  <2>4. PICK row \in req[r].loaded :
            LET total == req[r].total + row.amount
                rest == req[r].loaded \ {row}
                last == total >= req[r].target \/ rest = {}
                new == IF row.paid_in = None THEN {row} ELSE {}
            IN  \/ Go(r, Finished(r))
                \/ Go(r, [req[r] EXCEPT !.loaded = rest, !.total = total,
                             !.linked = @ \union new,
                             !.pc = IF last THEN "charge" ELSE "link"])
    BY <1>7 DEF LinkTransfer
  <2> DEFINE total == req[r].total + row.amount
             rest == req[r].loaded \ {row}
             linked == req[r].linked \union (IF row.paid_in = None THEN {row} ELSE {})
             pc == IF total >= req[r].target \/ rest = {} THEN "charge" ELSE "link"
  <2>5. \/ Go(r, Finished(r))
        \/ Go(r, [req[r] EXCEPT !.loaded = rest, !.total = total, !.linked = linked, !.pc = pc])
    BY <2>4
  <2>6. pc \in {"charge", "link"}
    OBVIOUS
  <2> HIDE DEF total, rest, linked, pc
  <2> QED BY <2>2, <2>3, <2>5, <2>6
<1>8. CASE ChargeRefused(r)
  BY <1>8, <1>a DEF ChargeRefused, Rollback
<1>9. CASE AnswerLost(r)
  BY <1>9, <1>a DEF AnswerLost, Rollback
<1>10. CASE Crash(r)
  BY <1>10, <1>a DEF Crash, Rollback
<1> QED BY <1>1, <1>2, <1>3, <1>4, <1>5, <1>6, <1>7, <1>8, <1>9, <1>10

-----------------------------------------------------------------------------
(* The records and the charges.                                             *)

LEMMA InitCard == Init => CardInv
<1> SUFFICES ASSUME Init PROVE CardInv
  OBVIOUS
<1>1. ASSUME NEW r \in Requests PROVE IsRequest(req[r]) /\ req[r].pc = "new"
  BY DEF Init, New, IsRequest
<1>2. Records
  BY <1>1 DEF Init, Records
<1>3. Charged
  BY <1>1 DEF Init, Charged
<1>4. LinksArePayments
  BY DEF Init, LinksArePayments
<1> QED BY <1>2, <1>3, <1>4 DEF CardInv

\* A step that records nothing, undoes no charge and does not lead to the
\* commit keeps Charged.
LEMMA QuietCharged ==
    ASSUME Charged, NEW r \in Requests, Moved(r), req'[r].pc # "commit",
           payments' = payments, charges \subseteq charges'
    PROVE  Charged'
<1>1. r \notin payments
  BY DEF Charged, Moved
<1>2. ASSUME NEW q \in Requests, q # r PROVE req'[q] = req[q] /\ Charge(q)' = Charge(q)
  BY <1>2 DEF Moved, Charge, Posted
<1> QED BY <1>1, <1>2 DEF Charged

\* ChargeCard adds the charge of r and nothing else: r may commit.
LEMMA ChargeCardCharged ==
    ASSUME Records, Charged, NEW r \in Requests, ChargeCard(r)
    PROVE  Records' /\ Charged'
<1>0. IsRequest(req[r])
  BY DEF Records
<1> DEFINE g == [req[r] EXCEPT !.pc = "commit"]
<1>1. IsRequest(g) /\ g.pc = "commit" /\ SameForm(req[r], g)
  BY <1>0 DEF IsRequest, SameForm
<1>2. Go(r, g) /\ req[r].pc = "charge"
  BY DEF ChargeCard
<1> HIDE DEF g
<1>3. Moved(r) /\ req'[r] = g
  BY <1>1, <1>2, MovesTo
<1>4. ASSUME NEW q \in Requests PROVE Charge(q)' = Charge(q)
  <2>1. CASE q = r
    BY <1>1, <1>3, <2>1, ChargeOfForm
  <2>2. CASE q # r
    BY <1>3, <2>2 DEF Moved, Charge, Posted
  <2> QED BY <2>1, <2>2
<1>5. payments' = payments /\ charges' = charges \union {Charge(r)}
  BY DEF ChargeCard
<1>6. r \notin payments
  BY <1>2 DEF Charged
<1> QED BY <1>3, <1>4, <1>5, <1>6 DEF Charged, Moved

\* CommitPayment records r, which has been charged.
LEMMA CommitCharged ==
    ASSUME Records, Charged, NEW r \in Requests, CommitPayment(r)
    PROVE  Records' /\ Charged'
<1>1. Go(r, Finished(r)) /\ req[r].pc = "commit"
  BY DEF CommitPayment
<1>2. Moved(r) /\ req'[r].pc = "done"
  BY <1>1, EndMoves
<1>3. ASSUME NEW q \in Requests PROVE Charge(q)' = Charge(q)
  <2>1. CASE q = r
    BY <1>1, <1>2, <2>1, ChargeOfForm DEF Moved
  <2>2. CASE q # r
    BY <1>2, <2>2 DEF Moved, Charge, Posted
  <2> QED BY <2>1, <2>2
<1>4. payments' = payments \union {r} /\ charges' = charges
  BY DEF CommitPayment
<1>5. Charge(r) \in charges
  BY <1>1 DEF Charged
<1> QED BY <1>2, <1>3, <1>4, <1>5 DEF Charged, Moved

\* Rows are deleted, created unpaid, or linked to the payment that the same
\* commit records.
LEMMA LinksStep ==
    ASSUME LinksArePayments, NEW r \in Requests,
           \/ UNCHANGED <<transfers, payments>>
           \/ ClearDonation(r) \/ InsertDonation(r) \/ CommitPayment(r)
    PROVE  LinksArePayments'
<1>1. CASE UNCHANGED <<transfers, payments>>
  BY <1>1 DEF LinksArePayments
<1>2. CASE ClearDonation(r)
  BY <1>2 DEF ClearDonation, LinksArePayments
<1>3. CASE InsertDonation(r)
  BY <1>3 DEF InsertDonation, LinksArePayments
<1>4. CASE CommitPayment(r)
  <2>1. payments' = payments \union {r}
    BY <1>4 DEF CommitPayment
  <2>2. PICK ids :
            /\ DOMAIN transfers' = DOMAIN transfers \union ids
            /\ \A i \in DOMAIN transfers' :
                   IF i \in ids THEN transfers'[i].paid_in = r
                                ELSE transfers'[i] = transfers[i]
    BY <1>4 DEF CommitPayment
  <2> QED BY <2>1, <2>2 DEF LinksArePayments
<1> QED BY <1>1, <1>2, <1>3, <1>4

\* CardInv is inductive.
LEMMA NextCard == CardInv /\ [Next]_vars => CardInv'
<1> SUFFICES ASSUME CardInv, [Next]_vars PROVE CardInv'
  OBVIOUS
<1>1. CASE UNCHANGED vars
  BY <1>1 DEF vars, CardInv, Records, Charged, LinksArePayments, Charge, Posted
<1>2. ASSUME NEW r \in Requests, Browser(r) \/ Work(r) \/ AnswerLost(r) \/ Crash(r)
      PROVE  CardInv'
  <2>1. CASE Browser(r)
    BY <2>1, BrowserMoves, QuietCharged, LinksStep DEF CardInv, Moved
  <2>2. CASE ClearDonation(r) \/ InsertDonation(r)
    <3>1. Moved(r) /\ req'[r].pc # "commit"
      BY <2>2, WorkMoves DEF CardInv
    <3>2. payments' = payments /\ charges' = charges
      BY <2>2 DEF ClearDonation, InsertDonation
    <3> QED BY <2>2, <3>1, <3>2, QuietCharged, LinksStep DEF CardInv, Moved
  <2>3. CASE \/ DeleteMatching(r) \/ CheckAmount(r) \/ SubmitPayment(r)
             \/ ReadTransfers(r) \/ LinkTransfer(r) \/ ChargeRefused(r)
             \/ AnswerLost(r) \/ Crash(r)
    <3>1. Moved(r) /\ req'[r].pc # "commit"
      BY <2>3, WorkMoves DEF CardInv
    <3>2. UNCHANGED <<transfers, payments>> /\ charges \subseteq charges'
      BY <2>3 DEF DeleteMatching, CheckAmount, SubmitPayment, ReadTransfers, LinkTransfer,
                  ChargeRefused, AnswerLost, Crash, Rollback
    <3> QED BY <3>1, <3>2, QuietCharged, LinksStep DEF CardInv, Moved
  <2>4. CASE ChargeCard(r)
    <3>1. UNCHANGED <<transfers, payments>>
      BY <2>4 DEF ChargeCard
    <3> QED BY <2>4, <3>1, ChargeCardCharged, LinksStep DEF CardInv
  <2>5. CASE CommitPayment(r)
    BY <2>5, CommitCharged, LinksStep DEF CardInv
  <2> QED BY <1>2, <2>1, <2>2, <2>3, <2>4, <2>5 DEF Work
<1> QED BY <1>1, <1>2 DEF Next

LEMMA AlwaysCard == Spec => []CardInv
BY InitCard, NextCard, PTL DEF Spec

\* "nor vice-versa": no payment is on record at the site that Stripe has not
\* charged, with the amount posted, whatever interleaves, is refused, lost or
\* dies (charge_payment).
THEOREM RecordsAreCharged == Spec => []RecordedIsCharged
<1>1. CardInv => RecordedIsCharged
  BY DEF CardInv, Charged, RecordedIsCharged
<1> QED BY <1>1, AlwaysCard, PTL

\* A paid_in link that link_paid_transfers has made always leads to a payment
\* on record: what is rolled back leaves no links behind.
THEOREM LinksLeadToPayments == Spec => []LinksArePayments
<1>1. CardInv => LinksArePayments
  BY DEF CardInv
<1> QED BY <1>1, AlwaysCard, PTL

-----------------------------------------------------------------------------
(* Sums over finite sets, and the induction they rest on.                   *)

LEMMA LeastNatural ==
    ASSUME NEW T, T \subseteq Nat, T # {}
    PROVE  \E n \in T : \A m \in T : n <= m
<1>1. PICK n \in T : \A m \in T : ~(<<m, n>> \in OpToRel(<, Nat))
  BY NatLessThanWellFounded, WFMin
<1>2. \A m \in T : ~(m < n)
  BY <1>1 DEF OpToRel
<1> QED BY <1>2

\* Induction, about the numbers in a set.
LEMMA Induction ==
    ASSUME NEW n \in Nat, NEW T, 0 \in T, \A i \in 1..n : i - 1 \in T => i \in T
    PROVE  \A i \in 0..n : i \in T
<1> SUFFICES ASSUME NEW j \in 0..n, j \notin T PROVE FALSE
  OBVIOUS
<1> DEFINE B == {i \in Nat : i \in 0..n /\ i \notin T}
<1>1. PICK i \in B : \A m \in B : i <= m
  <2>1. B \subseteq Nat /\ B # {}
    OBVIOUS
  <2> HIDE DEF B
  <2> QED BY <2>1, LeastNatural
<1>2. i \in 1..n /\ i - 1 \notin B /\ i - 1 \in 0..n
  BY <1>1
<1> QED BY <1>1, <1>2

AnyOf(T) == CHOOSE x \in T : TRUE

\* The recursive function behind a sum.
SumsUp(G, F, S) ==
    G = [T \in SUBSET S |-> IF T = {} THEN 0 ELSE F[AnyOf(T)] + G[T \ {AnyOf(T)}]]

AtMost(S, k) == {T \in SUBSET S : Cardinality(T) <= k}

LEMMA Smaller ==
    ASSUME NEW S, IsFiniteSet(S), NEW T \in SUBSET S, T # {}
    PROVE  /\ AnyOf(T) \in T /\ T \ {AnyOf(T)} \in SUBSET S
           /\ Cardinality(T) \in Nat /\ 0 < Cardinality(T)
           /\ Cardinality(T \ {AnyOf(T)}) = Cardinality(T) - 1
<1>1. AnyOf(T) \in T
  BY DEF AnyOf
<1>2. IsFiniteSet(T)
  BY FS_Subset
<1>3. Cardinality(T \ {AnyOf(T)}) = Cardinality(T) - 1
  BY <1>1, <1>2, FS_RemoveElement
<1>4. Cardinality(T) \in Nat /\ Cardinality(T) # 0
  BY <1>2, FS_CardinalityType, FS_EmptySet
<1> QED BY <1>1, <1>3, <1>4

LEMMA SumTyped ==
    ASSUME NEW S, IsFiniteSet(S), NEW F, \A x \in S : F[x] \in Int, NEW G, SumsUp(G, F, S)
    PROVE  \A T \in SUBSET S : G[T] \in Int
<1> DEFINE n == Cardinality(S)
           B == {k \in 0..n : \A T \in AtMost(S, k) : G[T] \in Int}
<1>1. n \in Nat
  BY FS_CardinalityType
<1>2. \A T \in SUBSET S : G[T] = IF T = {} THEN 0 ELSE F[AnyOf(T)] + G[T \ {AnyOf(T)}]
  BY DEF SumsUp
<1>3. 0 \in B
  <2> SUFFICES ASSUME NEW T \in AtMost(S, 0) PROVE G[T] \in Int
    BY <1>1
  <2>1. T \in SUBSET S /\ Cardinality(T) <= 0
    BY DEF AtMost
  <2>2. T = {}
    <3> SUFFICES ASSUME T # {} PROVE FALSE
      OBVIOUS
    <3>1. Cardinality(T) \in Nat /\ 0 < Cardinality(T)
      BY <2>1, Smaller
    <3> QED BY <2>1, <3>1
  <2>3. G[T] = 0
    BY <1>2, <2>1, <2>2
  <2> QED BY <2>3
<1>4. ASSUME NEW k \in 1..n, k - 1 \in B PROVE k \in B
  <2> SUFFICES ASSUME NEW T \in AtMost(S, k) PROVE G[T] \in Int
    BY <1>1
  <2>1. CASE T = {}
    <3>1. {} \in SUBSET S
      OBVIOUS
    <3>2. G[{}] = 0
      BY <1>2, <3>1
    <3> QED BY <2>1, <3>2
  <2>2. CASE T # {}
    <3> DEFINE x == AnyOf(T)
    <3>1. T \in SUBSET S /\ Cardinality(T) <= k
      BY DEF AtMost
    <3>2. x \in S /\ T \ {x} \in SUBSET S /\ Cardinality(T \ {x}) <= k - 1
      BY <2>2, <3>1, Smaller
    <3>3. G[T \ {x}] \in Int
      BY <1>4, <3>2 DEF AtMost
    <3>4. G[T] = F[x] + G[T \ {x}]
      BY <1>2, <2>2, <3>1
    <3> HIDE DEF x
    <3> QED BY <3>2, <3>3, <3>4
  <2> QED BY <2>1, <2>2
<1> HIDE DEF B
<1>5. \A k \in 0..n : k \in B
  BY <1>1, <1>3, <1>4, Induction
<1>6. n \in B
  BY <1>1, <1>5
<1> SUFFICES ASSUME NEW T \in SUBSET S PROVE G[T] \in Int
  OBVIOUS
<1>7. Cardinality(T) <= n
  BY FS_Subset
<1> QED BY <1>6, <1>7 DEF B, AtMost

HasSum(F, S) == \E G : SumsUp(G, F, S)

LEMMA SumExists ==
    ASSUME NEW S, IsFiniteSet(S), NEW F
    PROVE  HasSum(F, S)
<1> DEFINE n == Cardinality(S)
           Entry(G, T) == IF T = {} THEN 0 ELSE F[AnyOf(T)] + G[T \ {AnyOf(T)}]
           Sums(k, G) == G = [T \in AtMost(S, k) |-> Entry(G, T)]
           Has(k) == \E G : Sums(k, G)
           B == {k \in 0..n : Has(k)}
<1>1. n \in Nat
  BY FS_CardinalityType
<1>2. 0 \in B
  <2> DEFINE G == [T \in AtMost(S, 0) |-> 0]
  <2>1. ASSUME NEW T \in AtMost(S, 0), T # {} PROVE FALSE
    <3>1. T \in SUBSET S /\ Cardinality(T) <= 0
      BY DEF AtMost
    <3>2. Cardinality(T) \in Nat /\ 0 < Cardinality(T)
      BY <2>1, <3>1, Smaller
    <3> QED BY <3>1, <3>2
  <2>2. Sums(0, G)
    BY <2>1
  <2>3. Has(0)
    <3> HIDE DEF Sums
    <3> QED BY <2>2
  <2> HIDE DEF Has
  <2> QED BY <1>1, <2>3
<1>3. ASSUME NEW k \in 1..n, k - 1 \in B PROVE k \in B
  <2>1. PICK G : Sums(k - 1, G)
    <3> HIDE DEF Sums
    <3> QED BY <1>3
  <2> DEFINE H == [T \in AtMost(S, k) |-> Entry(G, T)]
  <2>2. \A T \in AtMost(S, k - 1) : T \in AtMost(S, k) /\ G[T] = Entry(G, T)
    <3> TAKE T \in AtMost(S, k - 1)
    <3>1. T \in SUBSET S /\ Cardinality(T) \in Nat /\ Cardinality(T) <= k - 1
      BY FS_Subset, FS_CardinalityType DEF AtMost
    <3>2. T \in AtMost(S, k)
      BY <1>1, <3>1 DEF AtMost
    <3> QED BY <2>1, <3>2
  <2>3. \A T \in AtMost(S, k - 1) : H[T] = G[T]
    BY <2>2
  <2>4. \A T \in AtMost(S, k) : Entry(H, T) = Entry(G, T)
    <3> TAKE T \in AtMost(S, k)
    <3> SUFFICES ASSUME T # {} PROVE H[T \ {AnyOf(T)}] = G[T \ {AnyOf(T)}]
      <4> HIDE DEF H
      <4> QED OBVIOUS
    <3>1. T \in SUBSET S /\ Cardinality(T) <= k
      BY DEF AtMost
    <3>2. T \ {AnyOf(T)} \in AtMost(S, k - 1)
      BY <3>1, Smaller DEF AtMost
    <3> QED BY <2>3, <3>2
  <2>5. Sums(k, H)
    BY <2>4
  <2>6. Has(k)
    <3> HIDE DEF Sums, H
    <3> QED BY <2>5
  <2> HIDE DEF Has
  <2> QED BY <1>1, <2>6
<1> HIDE DEF B
<1>4. \A k \in 0..n : k \in B
  BY <1>1, <1>2, <1>3, Induction
<1>5. PICK G : Sums(n, G)
  <2>1. n \in B
    BY <1>1, <1>4
  <2> HIDE DEF Sums
  <2> QED BY <2>1 DEF B
<1>6. AtMost(S, n) = SUBSET S
  BY FS_Subset DEF AtMost
<1>7. SumsUp(G, F, S)
  BY <1>5, <1>6 DEF SumsUp
<1> QED BY <1>7 DEF HasSum

\* A sum may start with any of its terms.
StartsAnywhere(G, F, S) == \A T \in SUBSET S : \A x \in T : G[T] = F[x] + G[T \ {x}]

LEMMA AnyTerm ==
    ASSUME NEW S, IsFiniteSet(S), NEW F, \A x \in S : F[x] \in Int, NEW G, SumsUp(G, F, S)
    PROVE  StartsAnywhere(G, F, S)
<1> DEFINE n == Cardinality(S)
           FromAny(T) == \A x \in T : G[T] = F[x] + G[T \ {x}]
           B == {k \in 0..n : \A T \in AtMost(S, k) : FromAny(T)}
<1>1. n \in Nat
  BY FS_CardinalityType
<1>2. \A T \in SUBSET S : T # {} => G[T] = F[AnyOf(T)] + G[T \ {AnyOf(T)}]
  BY DEF SumsUp
<1>3. \A T \in SUBSET S : G[T] \in Int
  BY SumTyped
<1>4. 0 \in B
  <2> SUFFICES ASSUME NEW T \in AtMost(S, 0) PROVE FromAny(T)
    BY <1>1
  <2>1. T \in SUBSET S /\ Cardinality(T) <= 0
    BY DEF AtMost
  <2>2. T = {}
    <3> SUFFICES ASSUME T # {} PROVE FALSE
      OBVIOUS
    <3>1. Cardinality(T) \in Nat /\ 0 < Cardinality(T)
      BY <2>1, Smaller
    <3> QED BY <2>1, <3>1
  <2> QED BY <2>2
<1>5. ASSUME NEW k \in 1..n, k - 1 \in B PROVE k \in B
  <2> SUFFICES ASSUME NEW T \in AtMost(S, k), NEW x \in T PROVE G[T] = F[x] + G[T \ {x}]
    BY <1>1
  <2> DEFINE a == AnyOf(T)
  <2>1. T \in SUBSET S /\ Cardinality(T) <= k /\ T # {}
    BY DEF AtMost
  <2>2. a \in T /\ Cardinality(T \ {a}) <= k - 1 /\ G[T] = F[a] + G[T \ {a}]
    BY <1>2, <2>1, Smaller
  <2> HIDE DEF a
  <2>3. CASE x = a
    BY <2>2, <2>3
  <2>4. CASE x # a
    <3>1. T \ {a} \in AtMost(S, k - 1) /\ x \in T \ {a}
      BY <2>1, <2>2, <2>4 DEF AtMost
    <3>2. IsFiniteSet(T)
      BY <2>1, FS_Subset
    <3>3. Cardinality(T \ {x}) = Cardinality(T \ {a})
      BY <2>2, <3>2, FS_RemoveElement
    <3>4. T \ {x} \in AtMost(S, k - 1) /\ a \in T \ {x}
      BY <2>1, <2>2, <2>4, <3>3 DEF AtMost
    <3>5. G[T \ {a}] = F[x] + G[(T \ {a}) \ {x}]
      BY <1>5, <3>1
    <3>6. G[T \ {x}] = F[a] + G[(T \ {x}) \ {a}]
      BY <1>5, <3>4
    <3>7. (T \ {a}) \ {x} = (T \ {x}) \ {a}
      OBVIOUS
    <3>8. G[(T \ {x}) \ {a}] \in Int
      BY <1>3, <2>1
    <3>9. F[x] \in Int /\ F[a] \in Int
      BY <2>1, <2>2
    <3> DEFINE u == G[(T \ {x}) \ {a}]
    <3>10. G[T] = F[a] + (F[x] + u) /\ G[T \ {x}] = F[a] + u /\ u \in Int
      BY <2>2, <3>5, <3>6, <3>7, <3>8
    <3> HIDE DEF u
    <3> QED BY ONLY <3>9, <3>10
  <2> QED BY <2>3, <2>4
<1> HIDE DEF B
<1>6. \A k \in 0..n : k \in B
  BY <1>1, <1>4, <1>5, Induction
<1>7. n \in B
  BY <1>1, <1>6
<1> SUFFICES ASSUME NEW T \in SUBSET S PROVE FromAny(T)
  BY DEF StartsAnywhere
<1>8. Cardinality(T) <= n
  BY FS_Subset
<1> QED BY <1>7, <1>8 DEF B, AtMost

\* Sums over sets whose elements correspond are the same.
LEMMA SameSums ==
    ASSUME NEW S, IsFiniteSet(S), NEW F, \A x \in S : F[x] \in Int, NEW G, SumsUp(G, F, S),
           NEW R, IsFiniteSet(R), NEW E, \A y \in R : E[y] \in Int, NEW H, SumsUp(H, E, R),
           NEW h, \A x \in S : h[x] \in R /\ E[h[x]] = F[x],
           \A x, y \in S : h[x] = h[y] => x = y
    PROVE  \A T \in SUBSET S : H[{h[x] : x \in T}] = G[T]
<1> DEFINE n == Cardinality(S)
           Image(T) == {h[x] : x \in T}
           B == {k \in 0..n : \A T \in AtMost(S, k) : H[Image(T)] = G[T]}
<1>1. n \in Nat
  BY FS_CardinalityType
<1>2. \A T \in SUBSET S : G[T] = IF T = {} THEN 0 ELSE F[AnyOf(T)] + G[T \ {AnyOf(T)}]
  BY DEF SumsUp
<1>3. \A T \in SUBSET R : \A y \in T : H[T] = E[y] + H[T \ {y}]
  <2>1. StartsAnywhere(H, E, R)
    BY AnyTerm
  <2> QED BY <2>1 DEF StartsAnywhere
<1>4. 0 \in B
  <2> SUFFICES ASSUME NEW T \in AtMost(S, 0) PROVE H[Image(T)] = G[T]
    BY <1>1
  <2>1. T \in SUBSET S /\ Cardinality(T) <= 0
    BY DEF AtMost
  <2>2. T = {}
    <3> SUFFICES ASSUME T # {} PROVE FALSE
      OBVIOUS
    <3>1. Cardinality(T) \in Nat /\ 0 < Cardinality(T)
      BY <2>1, Smaller
    <3> QED BY <2>1, <3>1
  <2>3. Image(T) = {}
    BY <2>2
  <2>4. H[{}] = 0
    <3>1. {} \in SUBSET R
      OBVIOUS
    <3> QED BY <3>1 DEF SumsUp
  <2>5. G[T] = 0
    BY <1>2, <2>1, <2>2
  <2> QED BY <2>3, <2>4, <2>5
<1>5. ASSUME NEW k \in 1..n, k - 1 \in B PROVE k \in B
  <2> SUFFICES ASSUME NEW T \in AtMost(S, k) PROVE H[Image(T)] = G[T]
    BY <1>1
  <2>1. T \in SUBSET S /\ Cardinality(T) <= k
    BY DEF AtMost
  <2>2. CASE T = {}
    <3>1. G[T] = 0 /\ Image(T) = {}
      BY <1>2, <2>1, <2>2
    <3>2. {} \in SUBSET R
      OBVIOUS
    <3>3. H[{}] = 0
      BY <3>2 DEF SumsUp
    <3> QED BY <3>1, <3>3
  <2>3. CASE T # {}
    <3> DEFINE a == AnyOf(T)
    <3>0. a \in T /\ Cardinality(T) \in Nat /\ Cardinality(T \ {a}) = Cardinality(T) - 1
      BY <2>1, <2>3, Smaller
    <3>9. G[T] = F[a] + G[T \ {a}]
      BY <1>2, <2>1, <2>3
    <3> HIDE DEF a
    <3>1. a \in T /\ Cardinality(T \ {a}) <= k - 1 /\ G[T] = F[a] + G[T \ {a}]
      BY <2>1, <3>0, <3>9
    <3>2. T \ {a} \in AtMost(S, k - 1)
      BY <2>1, <3>1 DEF AtMost
    <3>3. H[Image(T \ {a})] = G[T \ {a}]
      <4> HIDE DEF Image
      <4> QED BY <1>5, <3>2
    <3>4. h[a] \in Image(T) /\ Image(T) \in SUBSET R /\ E[h[a]] = F[a]
      BY <2>1, <3>1
    <3>5. Image(T \ {a}) = Image(T) \ {h[a]}
      BY <2>1, <3>1
    <3> HIDE DEF Image
    <3>6. H[Image(T)] = E[h[a]] + H[Image(T) \ {h[a]}]
      BY <1>3, <3>4
    <3> QED BY <3>1, <3>3, <3>4, <3>5, <3>6
  <2> QED BY <2>2, <2>3
<1> HIDE DEF B
<1>6. \A k \in 0..n : k \in B
  BY <1>1, <1>4, <1>5, Induction
<1>7. n \in B
  BY <1>1, <1>6
<1> SUFFICES ASSUME NEW T \in SUBSET S PROVE H[Image(T)] = G[T]
  OBVIOUS
<1>8. Cardinality(T) <= n
  BY FS_Subset
<1> HIDE DEF Image
<1> QED BY <1>7, <1>8 DEF B, AtMost

\* The sum of F over S.
SumOf(F, S) == (CHOOSE G : SumsUp(G, F, S))[S]

LEMMA SumOfAny ==
    ASSUME NEW S, IsFiniteSet(S), NEW F, \A x \in S : F[x] \in Int, NEW G, SumsUp(G, F, S)
    PROVE  SumOf(F, S) = G[S] /\ G[S] \in Int
<1> DEFINE H == CHOOSE K : SumsUp(K, F, S)
           h == [x \in S |-> x]
<1>1. SumsUp(H, F, S)
  BY DEF SumsUp
<1>2. SumOf(F, S) = H[S]
  BY DEF SumOf
<1> HIDE DEF H
<1>3. /\ \A x \in S : h[x] \in S /\ F[h[x]] = F[x]
      /\ \A x, y \in S : h[x] = h[y] => x = y
  OBVIOUS
<1>4. {h[x] : x \in S} = S
  OBVIOUS
<1> HIDE DEF h
<1>5. \A T \in SUBSET S : H[{h[x] : x \in T}] = G[T]
  BY <1>1, <1>3, SameSums
<1>6. S \in SUBSET S
  OBVIOUS
<1>7. H[S] = G[S]
  BY <1>4, <1>5, <1>6
<1>8. \A T \in SUBSET S : G[T] \in Int
  BY SumTyped
<1> QED BY <1>2, <1>6, <1>7, <1>8

LEMMA SumOfEmpty == ASSUME NEW F PROVE SumOf(F, {}) = 0
<1>1. IsFiniteSet({}) /\ \A x \in {} : F[x] \in Int
  BY FS_EmptySet
<1> DEFINE G == [T \in SUBSET {} |-> 0]
<1>2. SumsUp(G, F, {})
  BY DEF SumsUp
<1>3. G[{}] = 0
  OBVIOUS
<1> HIDE DEF G
<1>4. SumOf(F, {}) = G[{}]
  BY <1>1, <1>2, SumOfAny
<1> QED BY <1>3, <1>4

LEMMA SumOfTyped ==
    ASSUME NEW S, IsFiniteSet(S), NEW F, \A x \in S : F[x] \in Int
    PROVE  SumOf(F, S) \in Int
<1>1. PICK G : SumsUp(G, F, S)
  BY SumExists DEF HasSum
<1> QED BY <1>1, SumOfAny

\* Sums over sets whose elements correspond, and a sum with one more term.
LEMMA SumOfImage ==
    ASSUME NEW S, IsFiniteSet(S), NEW F, \A x \in S : F[x] \in Int,
           NEW R, NEW E, NEW h, R = {h[x] : x \in S},
           \A x \in S : E[h[x]] = F[x],
           \A x, y \in S : h[x] = h[y] => x = y
    PROVE  SumOf(E, R) = SumOf(F, S)
<1>1. IsFiniteSet(R)
  <2> DEFINE k == [x \in S |-> h[x]]
  <2>1. k \in Surjection(S, R)
    BY DEF Surjection
  <2> HIDE DEF k
  <2> QED BY <2>1, FS_Surjection
<1>2. PICK G : SumsUp(G, F, S)
  BY SumExists DEF HasSum
<1>3. PICK H : SumsUp(H, E, R)
  BY <1>1, SumExists DEF HasSum
<1>4. (\A y \in R : E[y] \in Int) /\ \A x \in S : h[x] \in R
  OBVIOUS
<1>5. \A T \in SUBSET S : H[{h[x] : x \in T}] = G[T]
  BY <1>1, <1>2, <1>3, <1>4, SameSums
<1>6. S \in SUBSET S
  OBVIOUS
<1>7. H[R] = G[S]
  BY <1>5, <1>6
<1>8. SumOf(F, S) = G[S]
  BY <1>2, SumOfAny
<1>9. SumOf(E, R) = H[R]
  BY <1>1, <1>3, <1>4, SumOfAny
<1> QED BY <1>7, <1>8, <1>9

LEMMA SumOfAdd ==
    ASSUME NEW S, IsFiniteSet(S), NEW a, a \notin S, NEW R, R = S \union {a},
           NEW F, \A x \in S : F[x] \in Int,
           NEW E, E[a] \in Int, \A x \in S : E[x] = F[x]
    PROVE  SumOf(E, R) = SumOf(F, S) + E[a]
<1>0. IsFiniteSet(S) /\ \A x \in S : F[x] \in Int
  OBVIOUS
<1>1. IsFiniteSet(R)
  BY FS_AddElement
<1>2. \A y \in R : E[y] \in Int
  OBVIOUS
<1>3. PICK G : SumsUp(G, F, S)
  BY SumExists DEF HasSum
<1>4. PICK H : SumsUp(H, E, R)
  BY <1>1, SumExists DEF HasSum
<1>5. H[R] = E[a] + H[R \ {a}]
  <2>1. StartsAnywhere(H, E, R)
    BY <1>1, <1>2, <1>4, AnyTerm
  <2>2. R \in SUBSET R /\ a \in R
    OBVIOUS
  <2> QED BY <2>1, <2>2 DEF StartsAnywhere
<1> DEFINE h == [x \in S |-> x]
<1>6. /\ \A x \in S : h[x] \in R /\ E[h[x]] = F[x]
      /\ \A x, y \in S : h[x] = h[y] => x = y
      /\ {h[x] : x \in S} = S
  OBVIOUS
<1> HIDE DEF h
<1>7. \A T \in SUBSET S : H[{h[x] : x \in T}] = G[T]
  BY ONLY <1>0, <1>1, <1>2, <1>3, <1>4, <1>6, SameSums
<1>8. H[S] = G[S]
  <2>1. S \in SUBSET S
    OBVIOUS
  <2> QED BY <1>6, <1>7, <2>1
<1>9. R \ {a} = S
  OBVIOUS
<1>10. SumOf(F, S) = G[S] /\ G[S] \in Int
  BY <1>3, SumOfAny
<1>11. SumOf(E, R) = H[R]
  BY <1>1, <1>2, <1>4, SumOfAny
<1> DEFINE g == G[S]
<1>12. SumOf(E, R) = E[a] + g /\ SumOf(F, S) = g /\ g \in Int /\ E[a] \in Int
  BY <1>5, <1>8, <1>9, <1>10, <1>11
<1> HIDE DEF g
<1> QED BY ONLY <1>12

\* The sum of the amounts of the rows with the given ids.
AmountsIn(t, S) == MapThenSumSet(LAMBDA i : t[i].amount, S)

LEMMA AmountsAreSums ==
    ASSUME NEW S, IsFiniteSet(S), NEW t, \A i \in S : t[i].amount \in Int
    PROVE  AmountsIn(t, S) = SumOf([i \in S |-> t[i].amount], S)
<1> DEFINE F == [i \in S |-> t[i].amount]
           Is(G) == G = [T \in SUBSET S |->
                            IF T = {} THEN 0 ELSE t[AnyOf(T)].amount + G[T \ {AnyOf(T)}]]
           G == CHOOSE G : Is(G)
<1>2. \A x \in S : F[x] \in Int
  OBVIOUS
<1>3. ASSUME NEW H PROVE Is(H) <=> SumsUp(H, F, S)
  <2>1. \A T \in SUBSET S : T # {} => F[AnyOf(T)] = t[AnyOf(T)].amount
    BY DEF AnyOf
  <2> HIDE DEF F
  <2> QED BY <2>1 DEF SumsUp
<1>4. AmountsIn(t, S) = G[S]
  BY DEF AmountsIn, MapThenSumSet, MapThenFoldSet, AnyOf
<1> HIDE DEF F
<1>5. PICK H : SumsUp(H, F, S)
  <2>1. HasSum(F, S)
    BY SumExists
  <2> QED BY <2>1 DEF HasSum
<1>6. Is(G)
  <2>1. \E K : Is(K)
    BY <1>3, <1>5
  <2> QED BY <2>1
<1>7. SumsUp(G, F, S)
  BY <1>3, <1>6
<1> HIDE DEF G
<1>8. SumOf(F, S) = G[S]
  BY <1>2, <1>7, SumOfAny
<1> QED BY <1>4, <1>8 DEF F

LEMMA AmountTyped ==
    ASSUME NEW S, IsFiniteSet(S), \A i \in S : transfers[i].amount \in Int
    PROVE  Amount(S) \in Int
<1>1. Amount(S) = AmountsIn(transfers, S)
  BY DEF Amount, AmountsIn, MapThenSumSet, MapThenFoldSet
<1> DEFINE F == [i \in S |-> transfers[i].amount]
<1>2. AmountsIn(transfers, S) = SumOf(F, S)
  BY AmountsAreSums
<1>3. \A x \in S : F[x] \in Int
  OBVIOUS
<1> HIDE DEF F
<1>4. SumOf(F, S) \in Int
  BY <1>3, SumOfTyped
<1> QED BY <1>1, <1>2, <1>4

\* The table holds finitely many rows with amounts.
TableOK ==
    /\ transfers = [i \in DOMAIN transfers |-> transfers[i]]
    /\ IsFiniteSet(DOMAIN transfers)
    /\ \A i \in DOMAIN transfers : transfers[i].amount \in Int
    /\ IsFiniteSet(payments)

\* The rows that link_paid_transfers has read, each once, those that it has
\* linked apart from those that are left.
RowsOK(r) ==
    /\ req[r].base \in Int /\ req[r].donation \in Int
    /\ req[r].pc \notin {"link", "charge", "commit"} => req[r].loaded = {} /\ req[r].linked = {}
    /\ IsFiniteSet(req[r].linked)
    /\ req[r].loaded \intersect req[r].linked = {}
    /\ \A x \in req[r].loaded \union req[r].linked : x.amount \in Int
    /\ \A x, y \in req[r].loaded \union req[r].linked : x.id = y.id => x = y

\* The sum of the amounts of the rows in a set.
AmountOf(L) == SumOf([x \in L |-> x.amount], L)

\* As long as no payment is on record every row that was read is unpaid, so
\* that the running total is that of the linked rows, and what they must cover
\* is what was posted.
FirstOK(r) ==
    payments = {} =>
        /\ req[r].pc \in {"read", "link", "charge", "commit"} => req[r].target = Posted(r)
        /\ req[r].pc \in {"link", "charge", "commit"} =>
               /\ req[r].total = AmountOf(req[r].linked)
               /\ \A x \in req[r].loaded : x.paid_in = None
        /\ req[r].pc \in {"charge", "commit"} => req[r].total = req[r].target

CoverInv == CardInv /\ TableOK /\ \A r \in Requests : RowsOK(r) /\ FirstOK(r)

LEMMA DueTyped ==
    ASSUME TableOK, IsFiniteSet(payments), \A r \in payments : Posted(r) \in Int
    PROVE  /\ amount_due \in Int /\ amount_paid \in Int /\ amount_donation \in Int
           /\ payments = {} => amount_paid = 0
<1> DEFINE F == [r \in payments |-> Posted(r)]
           Is(G) == G = [T \in SUBSET payments |->
                            IF T = {} THEN 0 ELSE Posted(AnyOf(T)) + G[T \ {AnyOf(T)}]]
           G == CHOOSE G : Is(G)
<1>1. \A x \in payments : F[x] \in Int
  OBVIOUS
<1>2. ASSUME NEW H PROVE Is(H) <=> SumsUp(H, F, payments)
  <2>1. \A T \in SUBSET payments : T # {} => F[AnyOf(T)] = Posted(AnyOf(T))
    BY DEF AnyOf
  <2> HIDE DEF F
  <2> QED BY <2>1 DEF SumsUp
<1>3. amount_paid = G[payments]
  BY DEF amount_paid, MapThenSumSet, MapThenFoldSet, AnyOf
<1> HIDE DEF F
<1>4. PICK H : SumsUp(H, F, payments)
  <2>1. HasSum(F, payments)
    BY SumExists
  <2> QED BY <2>1 DEF HasSum
<1>5. Is(G)
  <2>1. \E K : Is(K)
    BY <1>2, <1>4
  <2> QED BY <2>1
<1>6. payments = {} => G[payments] = 0
  <2>1. {} \in SUBSET payments
    OBVIOUS
  <2>2. G[{}] = 0
    <3> HIDE DEF G
    <3> QED BY <1>5, <2>1
  <2> HIDE DEF G
  <2> QED BY <2>2
<1>7. SumsUp(G, F, payments)
  BY <1>2, <1>5
<1> HIDE DEF G
<1>8. G[payments] \in Int
  BY <1>1, <1>7, SumOfAny
<1>9. amount_paid \in Int
  BY <1>3, <1>8
<1>10. Amount(DOMAIN transfers) \in Int
  BY AmountTyped DEF TableOK
<1>11. amount_donation \in Int
  <2> DEFINE oldest == {i \in DonationIds : \A j \in DonationIds : i <= j}
  <2>1. oldest \subseteq DOMAIN transfers
    BY DEF DonationIds
  <2>2. IsFiniteSet(oldest)
    BY <2>1, FS_Subset DEF TableOK
  <2>3. amount_donation = Amount(oldest)
    BY DEF amount_donation
  <2> HIDE DEF oldest
  <2> QED BY <2>1, <2>2, <2>3, AmountTyped DEF TableOK
<1> QED BY <1>3, <1>6, <1>9, <1>10, <1>11 DEF amount_due

-----------------------------------------------------------------------------
(* What the first payment covers.                                           *)

LEMMA OthersKeep ==
    ASSUME NEW r \in Requests, Moved(r), payments \subseteq payments',
           NEW q \in Requests, q # r, RowsOK(q), FirstOK(q)
    PROVE  RowsOK(q)' /\ FirstOK(q)'
<1>1. req'[q] = req[q]
  BY DEF Moved
<1>2. RowsOK(q)'
  BY <1>1 DEF RowsOK
<1>3. Posted(q)' = Posted(q) /\ AmountOf(req[q].linked)' = AmountOf(req'[q].linked)
  BY <1>1 DEF Posted, AmountOf
<1>4. FirstOK(q)'
  BY <1>1, <1>3 DEF FirstOK
<1> QED BY <1>2, <1>4

\* A request that has read no rows.
LEMMA HoldsNothing ==
    ASSUME NEW r \in Requests, NEW g, req'[r] = g, g.loaded = {}, g.linked = {},
           g.base \in Int, g.donation \in Int,
           g.pc \notin {"link", "charge", "commit"}, g.pc = "read" => g.target = g.base + g.donation
    PROVE  RowsOK(r)' /\ FirstOK(r)'
<1>1. RowsOK(r)'
  BY FS_EmptySet DEF RowsOK
<1>2. FirstOK(r)'
  BY DEF FirstOK, Posted
<1> QED BY <1>1, <1>2

LEMMA PaidTyped ==
    ASSUME CoverInv
    PROVE  /\ amount_due \in Int /\ amount_paid \in Int /\ amount_donation \in Int
           /\ payments = {} => amount_paid = 0
<1>1. \A r \in payments : Posted(r) \in Int
  BY DEF CoverInv, CardInv, Charged, RowsOK, Posted
<1> QED BY <1>1, DueTyped DEF CoverInv, TableOK

LEMMA BrowserCovers ==
    ASSUME CoverInv, NEW r \in Requests, Browser(r)
    PROVE  RowsOK(r)' /\ FirstOK(r)'
<1>0. Records /\ IsRequest(req[r]) /\ RowsOK(r)
  BY DEF CoverInv, CardInv, Records
<1>a. ASSUME NEW g, Go(r, g) PROVE req'[r] = g
  BY <1>0, <1>a DEF Go, Records
<1>1. CASE OpenPage(r)
  <2> DEFINE base == amount_due - amount_donation
             g == [New EXCEPT !.pc = "page", !.base = base]
  <2>1. base \in Int
    BY PaidTyped
  <2>2. req'[r] = g
    BY <1>1, <1>a DEF OpenPage
  <2> HIDE DEF base
  <2>3. /\ g.loaded = {} /\ g.linked = {} /\ g.base \in Int /\ g.donation \in Int
        /\ g.pc = "page"
    BY <2>1 DEF New
  <2> HIDE DEF g
  <2> QED BY <2>2, <2>3, HoldsNothing
<1>2. ASSUME NEW d \in Donations, Post(r, d) PROVE RowsOK(r)' /\ FirstOK(r)'
  <2> DEFINE g == [req[r] EXCEPT !.pc = "clearDonation", !.donation = d, !.token = r]
  <2>1. req'[r] = g /\ req[r].pc = "page"
    BY <1>2, <1>a DEF Post
  <2>2. req[r].loaded = {} /\ req[r].linked = {} /\ req[r].base \in Int /\ d \in Int
    BY <1>0, <2>1, CardAssumption DEF RowsOK
  <2>3. /\ g.loaded = {} /\ g.linked = {} /\ g.base \in Int /\ g.donation \in Int
        /\ g.pc = "clearDonation"
    BY <1>0, <2>2 DEF IsRequest
  <2> HIDE DEF g
  <2> QED BY <2>1, <2>3, HoldsNothing
<1>3. ASSUME NEW q \in Requests, Resend(r, q) PROVE RowsOK(r)' /\ FirstOK(r)'
  <2> DEFINE g == [New EXCEPT !.pc = "clearDonation", !.base = req[q].base,
                              !.donation = req[q].donation, !.token = q]
  <2>1. req'[r] = g
    BY <1>3, <1>a DEF Resend
  <2>2. req[q].base \in Int /\ req[q].donation \in Int
    BY DEF CoverInv, RowsOK
  <2>3. /\ g.loaded = {} /\ g.linked = {} /\ g.base \in Int /\ g.donation \in Int
        /\ g.pc = "clearDonation"
    BY <2>2 DEF New
  <2> HIDE DEF g
  <2> QED BY <2>1, <2>3, HoldsNothing
<1> QED BY <1>1, <1>2, <1>3 DEF Browser

\* The request ends.
LEMMA EndCovers ==
    ASSUME CoverInv, NEW r \in Requests, Go(r, Finished(r))
    PROVE  RowsOK(r)' /\ FirstOK(r)'
<1>0. Records /\ IsRequest(req[r]) /\ RowsOK(r)
  BY DEF CoverInv, CardInv, Records
<1> DEFINE g == Finished(r)
<1>1. req'[r] = g
  BY <1>0 DEF Go, Records
<1>2. /\ g.loaded = {} /\ g.linked = {} /\ g.base = req[r].base /\ g.donation = req[r].donation
      /\ g.pc = "done"
  BY <1>0 DEF Finished, IsRequest
<1>3. g.base \in Int /\ g.donation \in Int
  BY <1>0, <1>2 DEF RowsOK
<1> HIDE DEF g
<1> QED BY <1>1, <1>2, <1>3, HoldsNothing

\* What charge_payment does before it reads the rows.
LEMMA EarlyCovers ==
    ASSUME CoverInv, NEW r \in Requests,
           \/ ClearDonation(r) \/ DeleteMatching(r) \/ InsertDonation(r)
           \/ CheckAmount(r) \/ SubmitPayment(r)
    PROVE  RowsOK(r)' /\ FirstOK(r)'
<1>0. Records /\ IsRequest(req[r]) /\ RowsOK(r)
  BY DEF CoverInv, CardInv, Records
<1> DEFINE Later(g) ==
        /\ g.loaded = req[r].loaded /\ g.linked = req[r].linked
        /\ g.base = req[r].base /\ g.donation = req[r].donation
        /\ g.pc \notin {"link", "charge", "commit"}
        /\ g.pc = "read" => g.target = g.base + g.donation
<1>1. ASSUME req[r].pc \notin {"link", "charge", "commit"}, NEW g, Go(r, g), Later(g)
      PROVE  RowsOK(r)' /\ FirstOK(r)'
  <2>1. req'[r] = g
    BY <1>0, <1>1 DEF Go, Records
  <2>2. req[r].loaded = {} /\ req[r].linked = {} /\ req[r].base \in Int /\ req[r].donation \in Int
    BY <1>0, <1>1 DEF RowsOK
  <2> QED BY <1>1, <2>1, <2>2, HoldsNothing
<1>2. CASE ClearDonation(r)
  <2> DEFINE g == [req[r] EXCEPT !.pc = IF req[r].donation = 0 THEN "check" ELSE "matching"]
  <2>1. Later(g)
    BY <1>0 DEF IsRequest
  <2>2. Go(r, g) /\ req[r].pc = "clearDonation"
    BY <1>2 DEF ClearDonation
  <2> HIDE DEF g, Later
  <2> QED BY <1>1, <2>1, <2>2
<1>3. CASE DeleteMatching(r)
  <2> DEFINE g == [req[r] EXCEPT !.pc = "insertDonation",
                    !.doomed = {i \in DonationIds : transfers[i].amount = req[r].donation}]
  <2>1. Later(g)
    BY <1>0 DEF IsRequest
  <2>2. Go(r, g) /\ req[r].pc = "matching"
    BY <1>3 DEF DeleteMatching
  <2> HIDE DEF g, Later
  <2> QED BY <1>1, <2>1, <2>2
<1>4. CASE InsertDonation(r)
  <2> DEFINE g == [req[r] EXCEPT !.pc = "check", !.doomed = {}]
  <2>1. Later(g)
    BY <1>0 DEF IsRequest
  <2>2. Go(r, g) /\ req[r].pc = "insertDonation"
    BY <1>4 DEF InsertDonation
  <2> HIDE DEF g, Later
  <2> QED BY <1>1, <2>1, <2>2
<1>5. CASE CheckAmount(r)
  <2> DEFINE g == [req[r] EXCEPT !.pc = "submit"]
  <2>1. Later(g)
    BY <1>0 DEF IsRequest
  <2>2. (Go(r, g) \/ Go(r, Finished(r))) /\ req[r].pc = "check"
    BY <1>5 DEF CheckAmount
  <2> HIDE DEF g, Later
  <2> QED BY <1>1, <2>1, <2>2, EndCovers
<1>6. CASE SubmitPayment(r)
  <2> DEFINE target == amount_paid + Posted(r)
             g == [req[r] EXCEPT !.pc = "read", !.target = target]
  <2>1. req'[r] = g /\ req[r].pc = "submit"
    BY <1>0, <1>6 DEF SubmitPayment, Go, Records
  <2>2. payments = {} => target = Posted(r)
    BY <1>0, PaidTyped DEF RowsOK, Posted
  <2> HIDE DEF target
  <2>3. /\ g.loaded = req[r].loaded /\ g.linked = req[r].linked
        /\ g.base = req[r].base /\ g.donation = req[r].donation
        /\ g.pc = "read" /\ g.target = target
    BY <1>0 DEF IsRequest
  <2> HIDE DEF g
  <2>4. RowsOK(r)'
    BY <1>0, <2>1, <2>3, FS_EmptySet DEF RowsOK
  <2>5. FirstOK(r)'
    <3>1. Posted(r)' = Posted(r) /\ payments' = payments
      BY <1>6, <2>1, <2>3 DEF Posted, SubmitPayment
    <3> QED BY <2>1, <2>2, <2>3, <3>1 DEF FirstOK
  <2> QED BY <2>4, <2>5
<1> QED BY <1>2, <1>3, <1>4, <1>5, <1>6

\* The rows are read: each once, and unpaid as long as nothing is on record.
LEMMA ReadCovers ==
    ASSUME CoverInv, NEW r \in Requests, ReadTransfers(r)
    PROVE  RowsOK(r)' /\ FirstOK(r)'
<1>0. Records /\ IsRequest(req[r]) /\ RowsOK(r) /\ FirstOK(r) /\ TableOK /\ LinksArePayments
  BY DEF CoverInv, CardInv, Records
<1> DEFINE Row(i) == [id |-> i, kind |-> transfers[i].kind, amount |-> transfers[i].amount,
                      paid_in |-> transfers[i].paid_in]
           loaded == {Row(i) : i \in DOMAIN transfers}
           g == [req[r] EXCEPT !.pc = "link", !.total = 0, !.loaded = loaded]
<1>1. req'[r] = g /\ req[r].pc = "read" /\ payments' = payments
  BY <1>0 DEF ReadTransfers, Go, Records
<1>2. \A x \in loaded : \E i \in DOMAIN transfers :
          x = Row(i) /\ x.id = i /\ x.amount = transfers[i].amount /\ x.paid_in = transfers[i].paid_in
  OBVIOUS
<1> HIDE DEF loaded
<1>3. /\ g.loaded = loaded /\ g.linked = req[r].linked
      /\ g.base = req[r].base /\ g.donation = req[r].donation
      /\ g.pc = "link" /\ g.target = req[r].target /\ g.total = 0
  BY <1>0 DEF IsRequest
<1> HIDE DEF g
<1>4. req[r].linked = {}
  BY <1>0, <1>1 DEF RowsOK
<1>5. \A x \in loaded : x.amount \in Int
  BY <1>0, <1>2 DEF TableOK
<1>6. \A x, y \in loaded : x.id = y.id => x = y
  <2> HIDE DEF Row
  <2> QED BY <1>2
<1>7. payments = {} => \A x \in loaded : x.paid_in = None
  BY <1>0, <1>2 DEF LinksArePayments
<1>8. RowsOK(r)'
  <2>1. req[r].base \in Int /\ req[r].donation \in Int
    BY <1>0 DEF RowsOK
  <2> QED BY <1>1, <1>3, <1>4, <1>5, <1>6, <2>1, FS_EmptySet DEF RowsOK
<1>9. FirstOK(r)'
  <2>1. AmountOf({}) = 0
    BY SumOfEmpty DEF AmountOf
  <2>2. Posted(r)' = Posted(r)
    BY <1>1, <1>3 DEF Posted
  <2>3. payments = {} => req[r].target = Posted(r)
    BY <1>0, <1>1 DEF FirstOK
  <2> QED BY <1>1, <1>3, <1>4, <1>7, <2>1, <2>2, <2>3 DEF FirstOK
<1> QED BY <1>8, <1>9

LEMMA AmountOfOneMore ==
    ASSUME NEW L, IsFiniteSet(L), NEW row, row \notin L, row.amount \in Int,
           \A x \in L : x.amount \in Int
    PROVE  AmountOf(L \union {row}) = AmountOf(L) + row.amount
<1> DEFINE R == L \union {row}
           F == [x \in L |-> x.amount]
           E == [x \in R |-> x.amount]
<1>1. /\ \A x \in L : F[x] \in Int
      /\ \A x \in L : E[x] = F[x]
      /\ E[row] = row.amount /\ E[row] \in Int
      /\ R = L \union {row}
  OBVIOUS
<1>2. AmountOf(L \union {row}) = SumOf(E, R) /\ AmountOf(L) = SumOf(F, L)
  BY DEF AmountOf
<1> HIDE DEF E, F, R
<1>3. SumOf(E, R) = SumOf(F, L) + E[row]
  <2>1. /\ IsFiniteSet(L) /\ row \notin L
        /\ \A x \in L : F[x] \in Int
        /\ \A x \in L : E[x] = F[x]
        /\ E[row] \in Int
    BY <1>1
  <2>2. R = L \union {row}
    BY <1>1
  <2> QED BY ONLY <2>1, <2>2, SumOfAdd
<1> QED BY <1>1, <1>2, <1>3

\* A row is added to the running total, and linked if it was not paid.
LEMMA LinkCovers ==
    ASSUME CoverInv, NEW r \in Requests, LinkTransfer(r)
    PROVE  RowsOK(r)' /\ FirstOK(r)'
<1>0. Records /\ IsRequest(req[r]) /\ RowsOK(r) /\ FirstOK(r)
  BY DEF CoverInv, CardInv, Records
<1>1. req[r].pc = "link" /\ payments' = payments
  BY DEF LinkTransfer
<1>2. PICK row \in req[r].loaded :
          LET total == req[r].total + row.amount
              rest == req[r].loaded \ {row}
              last == total >= req[r].target \/ rest = {}
              new == IF row.paid_in = None THEN {row} ELSE {}
          IN  \/ Go(r, Finished(r))
              \/ /\ ~last \/ total = req[r].target
                 /\ Go(r, [req[r] EXCEPT !.loaded = rest, !.total = total,
                              !.linked = @ \union new,
                              !.pc = IF last THEN "charge" ELSE "link"])
  BY DEF LinkTransfer
<1> DEFINE total == req[r].total + row.amount
           rest == req[r].loaded \ {row}
           last == total >= req[r].target \/ rest = {}
           linked == req[r].linked \union (IF row.paid_in = None THEN {row} ELSE {})
           pc == IF last THEN "charge" ELSE "link"
           g == [req[r] EXCEPT !.loaded = rest, !.total = total, !.linked = linked, !.pc = pc]
<1>3. CASE Go(r, Finished(r))
  BY <1>3, EndCovers
<1>4. CASE (~last \/ total = req[r].target) /\ Go(r, g)
  <2>1. req'[r] = g
    BY <1>0, <1>4 DEF Go, Records
  <2>2. pc \in {"charge", "link"} /\ (pc = "charge" => total = req[r].target)
    BY <1>4
  <2>3. \/ linked = req[r].linked
        \/ linked = req[r].linked \union {row}
    OBVIOUS
  <2>4. row.paid_in = None => linked = req[r].linked \union {row}
    OBVIOUS
  <2>5. row \notin req[r].linked /\ row.amount \in Int
    BY <1>0 DEF RowsOK
  <2>6. rest = req[r].loaded \ {row} /\ total = req[r].total + row.amount
    OBVIOUS
  <2> HIDE DEF total, linked, rest, last, pc
  <2>7. /\ g.loaded = rest /\ g.linked = linked /\ g.total = total /\ g.pc = pc
        /\ g.base = req[r].base /\ g.donation = req[r].donation /\ g.target = req[r].target
    BY <1>0 DEF IsRequest
  <2> HIDE DEF g
  <2>8. RowsOK(r)'
    <3>1. IsFiniteSet(req[r].linked) /\ req[r].base \in Int /\ req[r].donation \in Int
      BY <1>0 DEF RowsOK
    <3>2. IsFiniteSet(linked)
      BY <2>3, <3>1, FS_AddElement
    <3>3. rest \union linked \subseteq req[r].loaded \union req[r].linked
      BY <2>3, <2>6
    <3>4. rest \intersect linked = {}
      BY <1>0, <2>3, <2>6 DEF RowsOK
    <3>5. /\ \A x \in rest \union linked : x.amount \in Int
          /\ \A x, y \in rest \union linked : x.id = y.id => x = y
      BY <1>0, <3>3 DEF RowsOK
    <3>6. g.pc \in {"link", "charge", "commit"}
      BY <2>2, <2>7
    <3> QED BY <2>1, <2>7, <3>1, <3>2, <3>4, <3>5, <3>6 DEF RowsOK
  <2>9. FirstOK(r)'
    <3> SUFFICES ASSUME payments = {}
                 PROVE  /\ g.target = g.base + g.donation
                        /\ g.total = AmountOf(g.linked)
                        /\ \A x \in g.loaded : x.paid_in = None
                        /\ g.pc \in {"charge", "commit"} => g.total = g.target
      BY <1>1, <2>1 DEF FirstOK, Posted
    <3>1. /\ req[r].target = Posted(r) /\ req[r].total = AmountOf(req[r].linked)
          /\ \A x \in req[r].loaded : x.paid_in = None
      BY <1>0, <1>1 DEF FirstOK
    <3>2. AmountOf(req[r].linked \union {row}) = AmountOf(req[r].linked) + row.amount
      BY <1>0, <2>5, AmountOfOneMore DEF RowsOK
    <3>3. total = AmountOf(linked)
      BY <2>4, <2>6, <3>1, <3>2
    <3> QED BY <2>2, <2>6, <2>7, <3>1, <3>3 DEF Posted
  <2> QED BY <2>8, <2>9
<1> QED BY <1>2, <1>3, <1>4

LEMMA ChargeCovers ==
    ASSUME CoverInv, NEW r \in Requests, ChargeCard(r)
    PROVE  RowsOK(r)' /\ FirstOK(r)'
<1>0. Records /\ IsRequest(req[r]) /\ RowsOK(r) /\ FirstOK(r)
  BY DEF CoverInv, CardInv, Records
<1> DEFINE g == [req[r] EXCEPT !.pc = "commit"]
<1>1. req'[r] = g /\ req[r].pc = "charge" /\ payments' = payments
  BY <1>0 DEF ChargeCard, Go, Records
<1>2. /\ g.loaded = req[r].loaded /\ g.linked = req[r].linked
      /\ g.base = req[r].base /\ g.donation = req[r].donation
      /\ g.pc = "commit" /\ g.target = req[r].target /\ g.total = req[r].total
  BY <1>0 DEF IsRequest
<1> HIDE DEF g
<1>3. RowsOK(r)'
  BY <1>0, <1>1, <1>2 DEF RowsOK
<1>4. FirstOK(r)'
  BY <1>0, <1>1, <1>2 DEF FirstOK, Posted
<1> QED BY <1>3, <1>4

\* What is created or written back is a row with an amount, and the table
\* stays finite.
LEMMA TableStep ==
    ASSUME CoverInv, NEW r \in Requests,
           \/ UNCHANGED <<transfers, payments>>
           \/ ClearDonation(r) \/ InsertDonation(r) \/ CommitPayment(r)
    PROVE  TableOK'
<1>0. TableOK /\ RowsOK(r)
  BY DEF CoverInv
<1>1. CASE UNCHANGED <<transfers, payments>>
  BY <1>0, <1>1 DEF TableOK
<1>2. CASE ClearDonation(r)
  <2>1. transfers' = [i \in DOMAIN transfers \ DonationIds |-> transfers[i]] /\ payments' = payments
    BY <1>2 DEF ClearDonation
  <2>2. IsFiniteSet(DOMAIN transfers \ DonationIds)
    BY <1>0, FS_Subset DEF TableOK
  <2> HIDE DEF DonationIds
  <2> QED BY <1>0, <2>1, <2>2 DEF TableOK
<1>3. CASE InsertDonation(r)
  <2> DEFINE D == (DOMAIN transfers \ req[r].doomed) \union {nextId}
             NewDonation == [kind |-> "donation", amount |-> req[r].donation, paid_in |-> None]
  <2>1. transfers' = [i \in D |-> IF i = nextId THEN NewDonation ELSE transfers[i]] /\ payments' = payments
    BY <1>3 DEF InsertDonation
  <2>2. IsFiniteSet(D)
    <3>1. IsFiniteSet(DOMAIN transfers \ req[r].doomed)
      BY <1>0, FS_Subset DEF TableOK
    <3> QED BY <3>1, FS_AddElement
  <2>3. NewDonation.amount \in Int
    BY <1>0 DEF RowsOK
  <2>4. \A i \in D : i # nextId => transfers[i].amount \in Int
    BY <1>0 DEF TableOK
  <2> HIDE DEF D, NewDonation
  <2> QED BY <1>0, <2>1, <2>2, <2>3, <2>4 DEF TableOK
<1>4. CASE CommitPayment(r)
  <2> DEFINE ids == {row.id : row \in req[r].linked}
             Linked(i) == CHOOSE row \in req[r].linked : row.id = i
             D == DOMAIN transfers \union ids
             T(i) == IF i \in ids
                     THEN [kind |-> Linked(i).kind, amount |-> Linked(i).amount, paid_in |-> r]
                     ELSE transfers[i]
  <2>1. transfers' = [i \in D |-> T(i)] /\ payments' = payments \union {r}
    BY <1>4 DEF CommitPayment
  <2>2. IsFiniteSet(D)
    <3>1. IsFiniteSet(ids)
      <4> DEFINE k == [x \in req[r].linked |-> x.id]
      <4>1. k \in Surjection(req[r].linked, ids)
        BY DEF Surjection
      <4> HIDE DEF k, ids
      <4> QED BY <1>0, <4>1, FS_Surjection DEF RowsOK
    <3> QED BY <1>0, <3>1, FS_Union DEF TableOK
  <2>3. \A i \in ids : Linked(i) \in req[r].linked
    OBVIOUS
  <2>4. \A i \in D : T(i).amount \in Int
    <3> TAKE i \in D
    <3>1. CASE i \in ids
      <4>1. Linked(i).amount \in Int
        BY <1>0, <2>3, <3>1 DEF RowsOK
      <4> HIDE DEF Linked, ids
      <4> QED BY <3>1, <4>1
    <3>2. CASE i \notin ids
      BY <1>0, <3>2 DEF TableOK
    <3> QED BY <3>1, <3>2
  <2>5. IsFiniteSet(payments')
    BY <1>0, <2>1, FS_AddElement DEF TableOK
  <2> HIDE DEF D, T
  <2> QED BY <2>1, <2>2, <2>4, <2>5 DEF TableOK
<1> QED BY <1>1, <1>2, <1>3, <1>4

\* CoverInv is inductive.
LEMMA InitCovers == Init => CoverInv
<1> SUFFICES ASSUME Init PROVE CoverInv
  OBVIOUS
<1>1. CardInv
  BY InitCard
<1>2. TableOK
  <2>1. /\ DOMAIN transfers = {FeeId} /\ transfers[FeeId].amount = Fee /\ payments = {}
        /\ transfers = [i \in DOMAIN transfers |-> transfers[i]]
    BY DEF Init
  <2>2. IsFiniteSet({FeeId}) /\ IsFiniteSet({}) /\ Fee \in Int
    BY FS_Singleton, FS_EmptySet, CardAssumption
  <2> QED BY <2>1, <2>2 DEF TableOK
<1>3. ASSUME NEW r \in Requests PROVE RowsOK(r) /\ FirstOK(r)
  <2>1. /\ req[r].pc = "new" /\ req[r].loaded = {} /\ req[r].linked = {}
        /\ req[r].base = 0 /\ req[r].donation = 0
    BY DEF Init, New
  <2> QED BY <2>1, FS_EmptySet DEF RowsOK, FirstOK
<1> QED BY <1>1, <1>2, <1>3 DEF CoverInv

LEMMA NextCovers == CoverInv /\ [Next]_vars => CoverInv'
<1> SUFFICES ASSUME CoverInv, [Next]_vars PROVE CoverInv'
  OBVIOUS
<1>0. CardInv' /\ Records
  BY NextCard DEF CoverInv, CardInv
<1>1. CASE UNCHANGED vars
  <2>1. TableOK'
    BY <1>1 DEF vars, CoverInv, TableOK
  <2>2. ASSUME NEW r \in Requests PROVE RowsOK(r)' /\ FirstOK(r)'
    <3>1. RowsOK(r) /\ FirstOK(r) /\ req' = req /\ payments' = payments
      BY <1>1 DEF vars, CoverInv
    <3>2. RowsOK(r)'
      BY <3>1 DEF RowsOK
    <3>3. FirstOK(r)'
      BY <3>1 DEF FirstOK, Posted
    <3> QED BY <3>2, <3>3
  <2> QED BY <1>0, <2>1, <2>2 DEF CoverInv
<1>2. ASSUME NEW r \in Requests, Browser(r) \/ Work(r) \/ AnswerLost(r) \/ Crash(r)
      PROVE  CoverInv'
  <2> SUFFICES Moved(r) /\ payments \subseteq payments' /\ TableOK' /\ RowsOK(r)' /\ FirstOK(r)'
    BY <1>0, OthersKeep DEF CoverInv
  <2>1. CASE Browser(r)
    BY <1>0, <2>1, BrowserMoves, BrowserCovers, TableStep
  <2>2. CASE ClearDonation(r) \/ InsertDonation(r)
    <3>1. payments' = payments
      BY <2>2 DEF ClearDonation, InsertDonation
    <3> QED BY <1>0, <2>2, <3>1, WorkMoves, EarlyCovers, TableStep
  <2>3. CASE DeleteMatching(r) \/ CheckAmount(r) \/ SubmitPayment(r)
    <3>1. UNCHANGED <<transfers, payments>>
      BY <2>3 DEF DeleteMatching, CheckAmount, SubmitPayment
    <3> QED BY <1>0, <2>3, <3>1, WorkMoves, EarlyCovers, TableStep
  <2>4. CASE ReadTransfers(r)
    <3>1. UNCHANGED <<transfers, payments>>
      BY <2>4 DEF ReadTransfers
    <3> QED BY <1>0, <2>4, <3>1, WorkMoves, ReadCovers, TableStep
  <2>5. CASE LinkTransfer(r)
    <3>1. UNCHANGED <<transfers, payments>>
      BY <2>5 DEF LinkTransfer
    <3> QED BY <1>0, <2>5, <3>1, WorkMoves, LinkCovers, TableStep
  <2>6. CASE ChargeRefused(r) \/ AnswerLost(r) \/ Crash(r)
    <3>1. UNCHANGED <<transfers, payments>> /\ Go(r, Finished(r))
      BY <2>6 DEF ChargeRefused, AnswerLost, Crash, Rollback
    <3> QED BY <1>0, <2>6, <3>1, WorkMoves, EndCovers, TableStep
  <2>7. CASE ChargeCard(r)
    <3>1. UNCHANGED <<transfers, payments>>
      BY <2>7 DEF ChargeCard
    <3>2. Moved(r)
      <4>1. IsRequest(req[r]) /\ req[r].pc = "charge"
        BY <1>0, <2>7 DEF Records, ChargeCard
      <4> DEFINE g == [req[r] EXCEPT !.pc = "commit"]
      <4>2. IsRequest(g) /\ SameForm(req[r], g)
        BY <4>1 DEF IsRequest, SameForm
      <4>3. Go(r, g)
        BY <2>7 DEF ChargeCard
      <4> HIDE DEF g
      <4> QED BY <1>0, <4>1, <4>2, <4>3, MovesTo
    <3> QED BY <2>7, <3>1, <3>2, ChargeCovers, TableStep
  <2>8. CASE CommitPayment(r)
    <3>1. /\ Go(r, Finished(r)) /\ req[r].pc = "commit"
          /\ payments' = payments \union {r}
      BY <2>8 DEF CommitPayment
    <3>2. Moved(r)
      BY <1>0, <3>1, EndMoves
    <3> QED BY <2>8, <3>1, <3>2, EndCovers, TableStep
  <2> QED BY <1>2, <2>1, <2>2, <2>3, <2>4, <2>5, <2>6, <2>7, <2>8 DEF Work
<1> QED BY <1>1, <1>2 DEF Next

\* The rows that the first payment pays are those that it has linked, as they
\* were read.
LEMMA CommitCoversPosted ==
    ASSUME CoverInv, payments = {}, NEW r \in Requests, CommitPayment(r)
    PROVE  AmountsIn(transfers', {i \in DOMAIN transfers' : transfers'[i].paid_in = r}) = Posted(r)'
<1>0. /\ Records /\ IsRequest(req[r]) /\ RowsOK(r) /\ FirstOK(r) /\ TableOK
      /\ LinksArePayments /\ req[r].pc = "commit"
  BY DEF CoverInv, CardInv, Records, CommitPayment
<1> DEFINE L == req[r].linked
           ids == {row.id : row \in L}
           Linked(i) == CHOOSE row \in L : row.id = i
           D == DOMAIN transfers \union ids
           T(i) == IF i \in ids
                   THEN [kind |-> Linked(i).kind, amount |-> Linked(i).amount, paid_in |-> r]
                   ELSE transfers[i]
           paid == {i \in DOMAIN transfers' : transfers'[i].paid_in = r}
           F == [x \in L |-> x.amount]
           E == [i \in paid |-> transfers'[i].amount]
           h == [x \in L |-> x.id]
<1>1. transfers' = [i \in D |-> T(i)]
  BY DEF CommitPayment
<1>2. \A i \in ids : Linked(i) \in L /\ Linked(i).id = i
  OBVIOUS
<1>3. \A x \in L : x.id \in ids /\ Linked(x.id) = x
  <2> TAKE x \in L
  <2>1. x.id \in ids
    OBVIOUS
  <2>2. Linked(x.id) \in L /\ Linked(x.id).id = x.id
    BY <1>2, <2>1
  <2> HIDE DEF Linked
  <2> QED BY <1>0, <2>1, <2>2 DEF RowsOK
<1> HIDE DEF Linked
<1>4. paid = ids
  <2>1. \A i \in ids : i \in D /\ T(i).paid_in = r
    OBVIOUS
  <2>2. \A i \in D \ ids : T(i).paid_in = None
    BY <1>0 DEF LinksArePayments
  <2>3. r # None
    BY CardAssumption
  <2>4. ids \subseteq D
    OBVIOUS
  <2> HIDE DEF D, T, ids
  <2> QED BY <1>1, <2>1, <2>2, <2>3, <2>4
<1>5. \A x \in L : E[h[x]] = F[x]
  <2> TAKE x \in L
  <2>1. x.id \in ids /\ x.id \in D /\ T(x.id).amount = x.amount
    BY <1>3
  <2> HIDE DEF D, T, ids, paid
  <2> QED BY <1>1, <1>4, <2>1
<1>6. /\ IsFiniteSet(L) /\ \A x \in L : F[x] \in Int
  BY <1>0 DEF RowsOK
<1>7. \A x, y \in L : h[x] = h[y] => x = y
  BY <1>0 DEF RowsOK
<1>8. ids = {h[x] : x \in L}
  OBVIOUS
<1>9. SumOf(F, L) = req[r].total /\ req[r].total = Posted(r)
  BY <1>0 DEF FirstOK, AmountOf
<1>10. Posted(r)' = Posted(r)
  <2>1. req'[r] = Finished(r)
    BY <1>0 DEF CommitPayment, Go, Records
  <2> QED BY <1>0, <2>1 DEF Finished, IsRequest, Posted
<1>11. IsFiniteSet(paid) /\ \A i \in paid : transfers'[i].amount \in Int
  <2>1. TableOK'
    BY TableStep
  <2>2. paid \subseteq DOMAIN transfers'
    OBVIOUS
  <2> QED BY <2>1, <2>2, FS_Subset DEF TableOK
<1>12. AmountsIn(transfers', paid) = SumOf(E, paid)
  <2> HIDE DEF paid
  <2> QED BY <1>11, AmountsAreSums
<1> HIDE DEF F, E, h, L, ids, paid
<1>13. SumOf(E, ids) = SumOf(F, L)
  BY <1>5, <1>6, <1>7, <1>8, SumOfImage
<1> QED BY <1>4, <1>9, <1>10, <1>12, <1>13 DEF paid

\* "Transfers do not sum to target" (link_paid_transfers): the first payment
\* on record is for exactly what the rows that are marked as paid by it say,
\* whatever other requests change, link or roll back meanwhile.
THEOREM FirstPaymentIsCovered == Spec => FirstPaymentCovers
<1> DEFINE P ==
        payments = {} /\ payments' # {} =>
            \E r \in payments' :
                MapThenSumSet(LAMBDA i : transfers'[i].amount,
                              {i \in DOMAIN transfers' : transfers'[i].paid_in = r})
                  = Posted(r)
<1>1. CoverInv /\ [Next]_vars => [P]_vars
  <2> SUFFICES ASSUME CoverInv, Next, payments = {}, payments' # {} PROVE P
    OBVIOUS
  <2>1. PICK r \in Requests : CommitPayment(r)
    <3>1. PICK r \in Requests : Browser(r) \/ Work(r) \/ AnswerLost(r) \/ Crash(r)
      BY DEF Next
    <3>2. CASE Browser(r)
      BY <3>2, BrowserMoves DEF CoverInv, CardInv
    <3>3. CASE CommitPayment(r)
      BY <3>3
    <3> QED BY <3>1, <3>2, <3>3 DEF Work, ClearDonation, InsertDonation, DeleteMatching, CheckAmount,
               SubmitPayment, ReadTransfers, LinkTransfer, ChargeRefused, ChargeCard, AnswerLost,
               Crash, Rollback
  <2>2. AmountsIn(transfers', {i \in DOMAIN transfers' : transfers'[i].paid_in = r}) = Posted(r)'
    BY <2>1, CommitCoversPosted
  <2>3. Posted(r)' = Posted(r)
    <3>1. Records /\ IsRequest(req[r])
      BY DEF CoverInv, CardInv, Records
    <3>2. req'[r] = Finished(r)
      BY <2>1, <3>1 DEF CommitPayment, Go, Records
    <3> QED BY <3>1, <3>2 DEF Finished, IsRequest, Posted
  <2>4. payments' = {r}
    BY <2>1 DEF CommitPayment
  <2> QED BY <2>2, <2>3, <2>4 DEF AmountsIn, MapThenSumSet, MapThenFoldSet
<1>2. Spec => []CoverInv
  BY InitCovers, NextCovers, PTL DEF Spec
<1> QED BY <1>1, <1>2, PTL DEF Spec, FirstPaymentCovers
=============================================================================
