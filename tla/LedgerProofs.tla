----------------------------- MODULE LedgerProofs -----------------------------
(***************************************************************************)
(* Proofs about Ledger, for any number of pages, postbacks and forms, any   *)
(* items and prices: a payment is banked once, for rows that sum to it, and *)
(* a row that has been paid is not paid again.                              *)
(*                                                                          *)
(* Requests keep copies of rows that others change or delete meanwhile, and *)
(* save() writes every column of a copy.  The invariant says what all       *)
(* copies of a row agree on (KnownOK), and what the lock on the student     *)
(* keeps true between the check for a repetition and the commit             *)
(* (PostbacksOK).                                                           *)
(***************************************************************************)
EXTENDS Ledger, FiniteSetTheorems, WellFoundedInduction, TLAPS

-----------------------------------------------------------------------------
(* The helpers.                                                             *)

\* A set of numbers that is not empty has a least element.
LEMMA LeastId ==
    ASSUME NEW T \in SUBSET Nat, T # {}
    PROVE  \E n \in T : \A m \in T : n <= m
<1>1. PICK n \in T : \A m \in T : ~(<<m, n>> \in OpToRel(<, Nat))
  BY NatLessThanWellFounded, WFMin
<1>2. \A m \in T : ~(m < n)
  BY <1>1 DEF OpToRel
<1> QED BY <1>2

\* The oldest of some rows is one of them.
LEMMA OldestIsOne ==
    ASSUME NEW S, S # {}, \A x \in S : x.id \in Nat
    PROVE  Oldest(S) \in S
<1> DEFINE T == {x.id : x \in S}
<1>1. T \in SUBSET Nat /\ T # {}
  OBVIOUS
<1>2. PICK n \in T : \A m \in T : n <= m
  <2> HIDE DEF T
  <2> QED BY <1>1, LeastId
<1>3. \E x \in S : \A y \in S : x.id <= y.id
  BY <1>2
<1> QED BY <1>3 DEF Oldest

\* What has been written from S is there, and everything else is as in R.
IsSaved(W, R, S) ==
    /\ W = [i \in DOMAIN W |-> W[i]]
    /\ DOMAIN W = DOMAIN R \union {x.id : x \in S}
    /\ \A i \in DOMAIN W : \/ W[i] \in S /\ W[i].id = i
                           \/ i \in DOMAIN R /\ W[i] = R[i] /\ \A x \in S : x.id # i

LEMMA SavedFacts ==
    ASSUME NEW R, NEW S
    PROVE  IsSaved(Saved(R, S), R, S)
<1> DEFINE W == Saved(R, S)
<1>1. W = [i \in DOMAIN W |-> W[i]] /\ DOMAIN W = DOMAIN R \union {x.id : x \in S}
  BY DEF Saved
<1>2. ASSUME NEW i \in DOMAIN W
      PROVE  \/ W[i] \in S /\ W[i].id = i
             \/ i \in DOMAIN R /\ W[i] = R[i] /\ \A x \in S : x.id # i
  <2>1. W[i] = IF \E x \in S : x.id = i THEN CHOOSE x \in S : x.id = i ELSE R[i]
    BY <1>1 DEF Saved
  <2> HIDE DEF W
  <2>2. CASE \E x \in S : x.id = i
    BY <2>1, <2>2
  <2>3. CASE ~ \E x \in S : x.id = i
    BY <1>1, <2>1, <2>3
  <2> QED BY <2>2, <2>3
<1> HIDE DEF W
<1>3. IsSaved(W, R, S)
  BY <1>1, <1>2 DEF IsSaved
<1> QED BY <1>3 DEF W

\* A step of a request changes its own record only.
LEMMA GoFacts ==
    ASSUME TypeOK, NEW r \in Requests, NEW f, IsRequest(f), Go(r, f)
    PROVE  /\ req' = [q \in Requests |-> req'[q]]
           /\ \A q \in Requests : IsRequest(req[q])'
           /\ req'[r] = f
           /\ \A q \in Requests : q # r => req'[q] = req[q]
<1>1. /\ req' = [q \in Requests |-> req'[q]]
      /\ req'[r] = f
      /\ \A q \in Requests : q # r => req'[q] = req[q]
  BY DEF TypeOK, Go
<1>2. \A q \in Requests : IsRequest(req[q])'
  BY <1>1 DEF TypeOK, IsRequest
<1> QED BY <1>1, <1>2

-----------------------------------------------------------------------------
(* Rows and their copies.                                                   *)

\* y is a copy of the row that x is a copy of.
SameRow(x, y) ==
    /\ x.id = y.id /\ x.item = y.item
    /\ x.item = Payment => x.amount = y.amount /\ x.tx = y.tx

\* The committed rows are known.
LEMMA RowsKnown ==
    /\ \A i \in DOMAIN rows : rows[i] \in Known
    /\ \A r \in Requests : \A x \in req[r].seen : x \in Known
BY DEF Known

\* A step that makes new rows only with ids that nobody has, and writes old
\* ones from copies, loses no payment and changes none.
LEMMA KnownStep ==
    ASSUME TypeOK, KnownOK, NEW fresh, nextId <= nextId', nextId' \in Nat,
           \A i \in DOMAIN rows' : rows'[i].id = i,
           \A y \in Known' : IsRow(y) /\ (y \in fresh \/ \E x \in Known : SameRow(x, y)),
           \A y \in fresh : y.id \in Nat /\ y.id < nextId' /\ \A x \in Known : x.id # y.id,
           \A y \in fresh : y.item = Payment => y.id \in DOMAIN rows',
           \A y, z \in fresh : y.id = z.id => y = z,
           PaymentIds \subseteq DOMAIN rows'
    PROVE  /\ KnownOK'
           /\ PaymentIds \subseteq PaymentIds'
           /\ \A i \in PaymentIds' : i \in PaymentIds \/ \E y \in fresh : y.item = Payment /\ y.id = i
           /\ \A i \in PaymentIds : rows'[i].amount = rows[i].amount /\ rows'[i].tx = rows[i].tx
<1>1. \A x \in Known : x.id \in Nat /\ x.id < nextId /\ (x.item = Payment => x.id \in PaymentIds)
  <2> TAKE x \in Known
  <2>1. x.id \in Nat /\ x.id < nextId /\ (x.item = Payment => x.id \in DOMAIN rows)
    BY DEF KnownOK
  <2>2. ASSUME x.item = Payment PROVE x.id \in PaymentIds
    <3>1. x.id \in DOMAIN rows /\ rows[x.id] \in Known /\ rows[x.id].id = x.id
      BY <2>1, <2>2, RowsKnown DEF KnownOK
    <3>2. rows[x.id].item = x.item
      BY <3>1 DEF KnownOK
    <3> QED BY <2>2, <3>1, <3>2 DEF PaymentIds
  <2> QED BY <2>1, <2>2
<1>2. \A y \in Known' : /\ IsRow(y) /\ y.id \in Nat /\ y.id < nextId'
                        /\ y.item = Payment => y.id \in DOMAIN rows'
  <2> TAKE y \in Known'
  <2>1. CASE y \in fresh
    BY <2>1
  <2>2. CASE y \notin fresh
    <3>1. PICK x \in Known : SameRow(x, y)
      BY <2>2
    <3>2. x.id = y.id /\ x.item = y.item
      BY <3>1 DEF SameRow
    <3>3. y.id \in Nat /\ y.id < nextId /\ (y.item = Payment => y.id \in PaymentIds)
      BY <1>1, <3>2
    <3>4. y.id < nextId'
      BY <3>3 DEF TypeOK
    <3> QED BY <3>3, <3>4
  <2> QED BY <2>1, <2>2
<1>3. \A y, z \in Known' : y.id = z.id => SameRow(y, z)
  <2> SUFFICES ASSUME NEW y \in Known', NEW z \in Known', y.id = z.id
               PROVE  SameRow(y, z)
    OBVIOUS
  <2>1. CASE y \in fresh \/ z \in fresh
    <3>1. y = z
      BY <2>1 DEF SameRow
    <3> QED BY <3>1 DEF SameRow
  <2>2. CASE y \notin fresh /\ z \notin fresh
    <3>1. PICK x \in Known : SameRow(x, y)
      BY <2>2
    <3>2. PICK w \in Known : SameRow(w, z)
      BY <2>2
    <3>3. x.id = w.id
      BY <3>1, <3>2 DEF SameRow
    <3>4. SameRow(x, w)
      BY <3>3 DEF KnownOK, SameRow
    <3> QED BY <3>1, <3>2, <3>4 DEF SameRow
  <2> QED BY <2>1, <2>2
<1>4. KnownOK'
  BY <1>2, <1>3 DEF KnownOK, SameRow, IsRow
<1>5. \A i \in DOMAIN rows' : rows'[i] \in Known'
  BY DEF Known
<1>6. \A i \in PaymentIds : /\ i \in PaymentIds'
                            /\ rows'[i].amount = rows[i].amount /\ rows'[i].tx = rows[i].tx
  <2> TAKE i \in PaymentIds
  <2>1. i \in DOMAIN rows /\ rows[i].item = Payment /\ rows[i].id = i /\ rows[i] \in Known
    BY RowsKnown DEF PaymentIds, KnownOK
  <2>2. i \in DOMAIN rows' /\ rows'[i].id = i /\ rows'[i] \in Known'
    BY <1>5
  <2>3. rows'[i] \notin fresh
    BY <2>1, <2>2
  <2>4. PICK x \in Known : SameRow(x, rows'[i])
    BY <2>2, <2>3
  <2>5. x.id = rows[i].id
    BY <2>1, <2>2, <2>4 DEF SameRow
  <2>6. SameRow(rows[i], x)
    BY <2>1, <2>5 DEF KnownOK, SameRow
  <2>7. rows'[i].item = Payment /\ rows'[i].amount = rows[i].amount /\ rows'[i].tx = rows[i].tx
    BY <2>1, <2>4, <2>6 DEF SameRow
  <2> QED BY <2>2, <2>7 DEF PaymentIds
<1>7. \A i \in PaymentIds' : i \in PaymentIds \/ \E y \in fresh : y.item = Payment /\ y.id = i
  <2> SUFFICES ASSUME NEW i \in PaymentIds', i \notin PaymentIds
               PROVE  \E y \in fresh : y.item = Payment /\ y.id = i
    OBVIOUS
  <2>1. i \in DOMAIN rows' /\ rows'[i].item = Payment /\ rows'[i].id = i /\ rows'[i] \in Known'
    BY <1>5 DEF PaymentIds
  <2>2. ASSUME NEW x \in Known, SameRow(x, rows'[i]) PROVE FALSE
    <3>1. x.id = i /\ x.item = Payment
      BY <2>1, <2>2 DEF SameRow
    <3> QED BY <1>1, <3>1
  <2> QED BY <2>1, <2>2
<1> QED BY <1>4, <1>6, <1>7

-----------------------------------------------------------------------------
(* Steps that write no row.                                                 *)

\* What a postback relies on is not disturbed by a step of another request
\* that records no payment, marks no row as paid and takes no id.
LEMMA PostbackKeeps ==
    ASSUME LedgerInv, TypeOK', NEW q \in Postbacks, req'[q] = req[q],
           nextId <= nextId', charged \subseteq charged',
           q \in DOMAIN log => q \in DOMAIN log', user = q => user' = q,
           req[q].pc = "link" =>
               /\ \A i \in PaymentIds' : i \in PaymentIds /\ rows'[i].tx = rows[i].tx
               /\ \A x \in Known' : x.id # req[q].id
               /\ \A p \in Requests : req[q].id \notin req'[p].doomed
               /\ \A i \in DOMAIN rows' :
                      \/ rows'[i].paid_in = None
                      \/ i \in DOMAIN rows /\ rows'[i].paid_in = rows[i].paid_in
    PROVE  PostbackOK(q)'
<1>1. PostbackOK(q)
  BY DEF LedgerInv, PostbacksOK
<1>2. /\ req[q].pc \in {"lock", "bank", "link"} =>
             /\ q \in DOMAIN log'
             /\ \E c \in charged' : c.tx = req[q].tx /\ c.amount = req[q].amount
      /\ req[q].pc \in {"bank", "link"} => user' = q
  BY <1>1 DEF PostbackOK
<1>3. ASSUME req[q].pc = "link"
      PROVE  /\ ~IsRecorded(req[q].tx)'
             /\ req[q].id \in Nat /\ req[q].id < nextId'
             /\ \A x \in req[q].seen :
                    x.paid_in = None /\ x.id \in DOMAIN rows' => rows'[x.id].paid_in = None
  <2>1. ~IsRecorded(req[q].tx)'
    BY <1>1, <1>3 DEF PostbackOK, IsRecorded
  <2>2. req[q].id \in Nat /\ req[q].id < nextId'
    BY <1>1, <1>3 DEF PostbackOK, LedgerInv, TypeOK
  <2>3. ASSUME NEW x \in req[q].seen, x.paid_in = None, x.id \in DOMAIN rows'
        PROVE  rows'[x.id].paid_in = None
    BY <1>1, <1>3, <2>3 DEF PostbackOK
  <2> QED BY <2>1, <2>2, <2>3
<1> QED BY <1>2, <1>3 DEF PostbackOK

\* Payments that are on record stay there, and the log of the others is not
\* touched.
LEMMA BankedKeeps ==
    ASSUME TypeOK, BankedOnce, charged \subseteq charged', DOMAIN log \subseteq DOMAIN log',
           PaymentIds' = PaymentIds,
           \A i \in PaymentIds : rows'[i].amount = rows[i].amount /\ rows'[i].tx = rows[i].tx,
           \A r \in DOMAIN log : log'[r] = log[r],
           \A r \in DOMAIN log' \ DOMAIN log : log'[r] = None
    PROVE  BankedOnce'
<1>1. \A i \in PaymentIds' : \E c \in charged' : c.tx = rows'[i].tx /\ c.amount = rows'[i].amount
  BY DEF BankedOnce
<1>2. \A i, j \in PaymentIds' : rows'[i].tx = rows'[j].tx => i = j
  BY DEF BankedOnce
<1>3. \A r \in DOMAIN log' : log'[r] # None => r \in DOMAIN log /\ log'[r] \in PaymentIds'
  BY DEF BankedOnce
<1>4. ASSUME NEW i \in PaymentIds' PROVE Cardinality({r \in DOMAIN log' : log'[r] = i}) = 1
  <2>1. Cardinality({r \in DOMAIN log : log[r] = i}) = 1
    BY <1>4 DEF BankedOnce
  <2>2. i # None
    BY <1>4, LedgerAssumption DEF PaymentIds, TypeOK
  <2>3. {r \in DOMAIN log' : log'[r] = i} = {r \in DOMAIN log : log[r] = i}
    BY <1>3, <2>2
  <2> QED BY <2>1, <2>3
<1> QED BY <1>1, <1>2, <1>3, <1>4 DEF BankedOnce

\* A step of request r that writes no row.
LEMMA RowsUntouched ==
    ASSUME LedgerInv, NEW r \in Requests, NEW f, IsRequest(f), Go(r, f),
           UNCHANGED rows, nextId' \in Nat, nextId <= nextId', charged \subseteq charged',
           log' = [q \in DOMAIN log' |-> log'[q]],
           DOMAIN log \subseteq DOMAIN log', DOMAIN log' \subseteq Postbacks,
           \A q \in DOMAIN log : log'[q] = log[q],
           \A q \in DOMAIN log' \ DOMAIN log : log'[q] = None,
           f.seen \subseteq req[r].seen \union {rows[i] : i \in DOMAIN rows},
           f.linked \subseteq {x \in f.seen : x.paid_in = None},
           f.pc # "link" => f.linked = {},
           f.doomed \subseteq req[r].doomed \union (DOMAIN rows \ PaymentIds),
           r \in Pages => \A x \in f.seen : x.item = Admission,
           user' \in Postbacks \union {None},
           \A q \in Postbacks : q # r /\ user = q => user' = q,
           r \in Postbacks =>
               /\ f.pc \in {"lock", "bank", "link"} =>
                      /\ r \in DOMAIN log'
                      /\ \E c \in charged' : c.tx = f.tx /\ c.amount = f.amount
               /\ f.pc \in {"bank", "link"} => user' = r
               /\ f.pc = "link" =>
                      /\ ~IsRecorded(f.tx)
                      /\ f.id \in Nat /\ f.id < nextId'
                      /\ \A x \in Known : x.id # f.id
                      /\ \A p \in Requests : f.id \notin req[p].doomed
                      /\ \A x \in f.seen :
                             x.paid_in = None /\ x.id \in DOMAIN rows => rows[x.id].paid_in = None,
           f.pc = "done" \/ req[r].pc # "done"
    PROVE  LedgerInv'
<1>1. TypeOK /\ KnownOK /\ HoldingsOK /\ PostbacksOK /\ BankedOnce
  BY DEF LedgerInv
<1>2. /\ req' = [q \in Requests |-> req'[q]] /\ \A q \in Requests : IsRequest(req[q])'
      /\ req'[r] = f /\ \A q \in Requests : q # r => req'[q] = req[q]
  BY <1>1, GoFacts
<1>3. TypeOK'
  BY <1>1, <1>2 DEF TypeOK
<1>4. Known' \subseteq Known
  <2> SUFFICES ASSUME NEW y \in Known' PROVE y \in Known
    OBVIOUS
  <2>1. CASE \E i \in DOMAIN rows : y = rows[i]
    BY <2>1, RowsKnown
  <2>2. CASE \E q \in Requests : y \in req'[q].seen
    <3>1. PICK q \in Requests : y \in req'[q].seen
      BY <2>2
    <3>2. CASE q = r
      BY <1>2, <3>1, <3>2, RowsKnown
    <3>3. CASE q # r
      BY <1>2, <3>1, <3>3, RowsKnown
    <3> QED BY <3>2, <3>3
  <2> QED BY <2>1, <2>2 DEF Known
<1>5. KnownOK'
  <2>1. \A x \in Known' : /\ IsRow(x) /\ x.id \in Nat /\ x.id < nextId'
                          /\ x.item = Payment => x.id \in DOMAIN rows'
    BY <1>1, <1>4 DEF KnownOK, TypeOK
  <2> QED BY <1>1, <1>4, <2>1 DEF KnownOK, IsRow
<1>6. PaymentIds' = PaymentIds
  BY DEF PaymentIds
<1>7. \A i \in DOMAIN rows : i \in Nat /\ i < nextId /\ rows[i] \in Known /\ rows[i].id = i
  BY <1>1, RowsKnown DEF KnownOK
<1>8. HoldingsOK'
  <2>0. \A q \in Requests : \A i \in req[q].doomed : i \in Nat /\ i < nextId' /\ i \notin PaymentIds'
    BY <1>1, <1>6 DEF HoldingsOK, TypeOK
  <2>1. \A i \in DOMAIN rows : i \in Nat /\ i < nextId'
    BY <1>1, <1>7 DEF TypeOK
  <2>2. ASSUME NEW q \in Requests
        PROVE  /\ req'[q].linked \subseteq {x \in req'[q].seen : x.paid_in = None}
               /\ req'[q].pc # "link" => req'[q].linked = {}
               /\ \A i \in req'[q].doomed : i \in Nat /\ i < nextId' /\ i \notin PaymentIds'
               /\ q \in Pages => \A x \in req'[q].seen : x.item = Admission
    <3>1. CASE q # r
      BY <1>1, <1>2, <2>0, <3>1 DEF HoldingsOK
    <3>2. CASE q = r
      BY <1>1, <1>2, <1>6, <2>0, <2>1, <3>2
    <3> QED BY <3>1, <3>2
  <2> QED BY <2>2 DEF HoldingsOK, Requests
<1>9. ASSUME NEW n, \A x \in Known : x.id # n, \A p \in Requests : n \notin req[p].doomed
      PROVE  \A p \in Requests : n \notin req'[p].doomed
  <2>1. n \notin DOMAIN rows
    BY <1>7, <1>9
  <2> QED BY <1>2, <1>9, <2>1
<1>10. \A q \in Postbacks : PostbackOK(q)'
  <2> TAKE q \in Postbacks
  <2>0. PostbackOK(q) /\ q \in Requests
    BY <1>1 DEF PostbacksOK, Requests
  <2>1. CASE q # r
    <3>1. req'[q] = req[q] /\ (user = q => user' = q)
      BY <1>2, <2>0, <2>1
    <3>2. req[q].pc = "link" => \A p \in Requests : req[q].id \notin req'[p].doomed
      BY <1>9, <2>0 DEF PostbackOK
    <3> QED BY <1>3, <1>4, <1>6, <2>0, <3>1, <3>2, PostbackKeeps DEF PostbackOK
  <2>2. CASE q = r
    <3>1. f.pc = "link" =>
              /\ ~IsRecorded(f.tx)'
              /\ \A x \in Known' : x.id # f.id
              /\ \A p \in Requests : f.id \notin req'[p].doomed
      BY <1>4, <1>6, <1>9, <2>2 DEF IsRecorded
    <3> QED BY <1>2, <2>2, <3>1 DEF PostbackOK
  <2> QED BY <2>1, <2>2
<1>11. \A q \in DOMAIN log' : log'[q] # None => req'[q].pc = "done"
  <2> SUFFICES ASSUME NEW q \in DOMAIN log', log'[q] # None PROVE req'[q].pc = "done"
    OBVIOUS
  <2>1. q \in DOMAIN log /\ log[q] # None /\ q \in Requests
    BY DEF Requests
  <2>2. req[q].pc = "done"
    BY <1>1, <2>1 DEF PostbacksOK
  <2>3. CASE q = r
    BY <1>2, <2>2, <2>3
  <2>4. CASE q # r
    BY <1>2, <2>1, <2>2, <2>4
  <2> QED BY <2>3, <2>4
<1>12. BankedOnce'
  BY <1>1, <1>6, BankedKeeps
<1> QED BY <1>3, <1>5, <1>8, <1>10, <1>11, <1>12 DEF LedgerInv, PostbacksOK

\* A step of request r that only reads, locks or gives up.
LEMMA QuietStep ==
    ASSUME LedgerInv, NEW r \in Requests, NEW f, IsRequest(f), Go(r, f),
           UNCHANGED <<rows, nextId, charged, log>>,
           f.seen \subseteq req[r].seen \union {rows[i] : i \in DOMAIN rows},
           f.linked \subseteq {x \in f.seen : x.paid_in = None},
           f.pc # "link" => f.linked = {},
           f.doomed \subseteq req[r].doomed \union (DOMAIN rows \ PaymentIds),
           r \in Pages => \A x \in f.seen : x.item = Admission,
           user' \in Postbacks \union {None},
           \A q \in Postbacks : q # r /\ user = q => user' = q,
           r \in Postbacks =>
               /\ f.pc \in {"lock", "bank", "link"} =>
                      req[r].pc \in {"lock", "bank", "link"} /\ f.tx = req[r].tx /\ f.amount = req[r].amount
               /\ f.pc \in {"bank", "link"} => user' = r
               /\ f.pc = "link" => req[r].pc = "link" /\ f.id = req[r].id /\ f.seen = req[r].seen,
           f.pc = "done" \/ req[r].pc # "done"
    PROVE  LedgerInv'
<1>1. /\ nextId' \in Nat /\ nextId <= nextId'
      /\ log' = [q \in DOMAIN log' |-> log'[q]] /\ DOMAIN log' \subseteq Postbacks
  BY DEF LedgerInv, TypeOK
<1>2. r \in Postbacks => PostbackOK(r)
  BY DEF LedgerInv, PostbacksOK
<1>3. r \in Postbacks =>
          /\ f.pc \in {"lock", "bank", "link"} =>
                 /\ r \in DOMAIN log'
                 /\ \E c \in charged' : c.tx = f.tx /\ c.amount = f.amount
          /\ f.pc \in {"bank", "link"} => user' = r
          /\ f.pc = "link" =>
                 /\ ~IsRecorded(f.tx)
                 /\ f.id \in Nat /\ f.id < nextId'
                 /\ \A x \in Known : x.id # f.id
                 /\ \A p \in Requests : f.id \notin req[p].doomed
                 /\ \A x \in f.seen :
                        x.paid_in = None /\ x.id \in DOMAIN rows => rows[x.id].paid_in = None
  BY <1>2 DEF PostbackOK
<1> QED BY <1>1, <1>3, RowsUntouched

\* A record of a request with some of its fields changed is one.
LEMMA RequestFacts ==
    ASSUME TypeOK, HoldingsOK, NEW r \in Requests
    PROVE  /\ IsRequest(req[r])
           /\ req[r].linked \subseteq {x \in req[r].seen : x.paid_in = None}
           /\ req[r].pc # "link" => req[r].linked = {}
BY DEF TypeOK, HoldingsOK

\* The page reads and computes the bill.
LEMMA PageReadsInv ==
    ASSUME LedgerInv, NEW r \in Pages,
           MakeIdentifier(r) \/ LookForAdmission(r) \/ ShowTotal(r)
    PROVE  LedgerInv'
<1>1. TypeOK /\ HoldingsOK /\ r \in Requests /\ r \notin Postbacks /\ user \in Postbacks \union {None}
  BY LedgerAssumption DEF LedgerInv, Requests, TypeOK
<1>2. UNCHANGED <<rows, nextId, charged, log, user>> /\ req[r].pc \in {"new", "look", "total"}
  BY DEF MakeIdentifier, LookForAdmission, ShowTotal
<1>3. req[r].linked = {} /\ \A x \in req[r].seen : x.item = Admission
  BY <1>1, <1>2 DEF HoldingsOK
<1>4. ASSUME NEW f, Go(r, f), IsRequest(f), f.pc \in {"look", "ensure", "shown"},
             f.linked = req[r].linked, f.doomed = req[r].doomed,
             f.seen \subseteq req[r].seen \union {rows[i] : i \in DOMAIN rows},
             \A x \in f.seen : x.item = Admission
      PROVE  LedgerInv'
  BY <1>1, <1>2, <1>3, <1>4, QuietStep
<1>5. CASE MakeIdentifier(r)
  <2> DEFINE f == [req[r] EXCEPT !.pc = "look", !.ident = get_identifier]
  <2>1. /\ IsRequest(f) /\ f.pc = "look" /\ f.linked = req[r].linked
        /\ f.doomed = req[r].doomed /\ f.seen = req[r].seen
    BY <1>1 DEF TypeOK, IsRequest
  <2>2. Go(r, f)
    BY <1>5 DEF MakeIdentifier
  <2> HIDE DEF f
  <2> QED BY <1>3, <1>4, <2>1, <2>2
<1>6. CASE LookForAdmission(r)
  <2>1. PICK S : /\ S \subseteq {rows[i] : i \in DOMAIN rows}
                 /\ \A x \in S : x.item = Admission
                 /\ Go(r, [req[r] EXCEPT !.pc = "ensure", !.seen = S])
    <3>1. ASSUME Go(r, [req[r] EXCEPT !.pc = "ensure", !.seen = {}])
          PROVE  \E S : /\ S \subseteq {rows[i] : i \in DOMAIN rows}
                        /\ \A x \in S : x.item = Admission
                        /\ Go(r, [req[r] EXCEPT !.pc = "ensure", !.seen = S])
      BY <3>1
    <3>2. ASSUME NEW i \in DOMAIN rows, rows[i].item = Admission,
                 Go(r, [req[r] EXCEPT !.pc = "ensure", !.seen = {rows[i]}])
          PROVE  \E S : /\ S \subseteq {rows[j] : j \in DOMAIN rows}
                        /\ \A x \in S : x.item = Admission
                        /\ Go(r, [req[r] EXCEPT !.pc = "ensure", !.seen = S])
      BY <3>2
    <3> QED BY <1>6, <3>1, <3>2 DEF LookForAdmission
  <2> DEFINE f == [req[r] EXCEPT !.pc = "ensure", !.seen = S]
  <2>2. /\ IsRequest(f) /\ f.pc = "ensure" /\ f.linked = req[r].linked
        /\ f.doomed = req[r].doomed /\ f.seen = S
    BY <1>1 DEF TypeOK, IsRequest
  <2>3. Go(r, f)
    BY <2>1
  <2> HIDE DEF f
  <2> QED BY <1>4, <2>1, <2>2, <2>3
<1>7. CASE ShowTotal(r)
  <2> DEFINE f == [req[r] EXCEPT !.pc = "shown", !.amount = amount_due, !.seen = {}]
  <2>1. /\ IsRequest(f) /\ f.pc = "shown" /\ f.linked = req[r].linked
        /\ f.doomed = req[r].doomed /\ f.seen = {}
    BY <1>1 DEF TypeOK, IsRequest
  <2>2. Go(r, f)
    BY <1>7 DEF ShowTotal
  <2> HIDE DEF f
  <2> QED BY <1>4, <2>1, <2>2
<1> QED BY <1>5, <1>6, <1>7

\* A request that ends lets go of everything, the lock on the student included.
LEMMA EndInv ==
    ASSUME LedgerInv, NEW r \in Requests, NEW pc \in {"done", "died"}, End(r, pc),
           UNCHANGED <<rows, nextId, charged, log>>, UNCHANGED user \/ Unlock(r),
           r \in Postbacks => Unlock(r),
           pc = "done" \/ req[r].pc # "done"
    PROVE  LedgerInv'
<1> DEFINE f == [req[r] EXCEPT !.pc = pc, !.seen = {}, !.linked = {}, !.doomed = {}]
<1>1. TypeOK
  BY DEF LedgerInv
<1>2. IsRequest(f) /\ f.pc = pc /\ f.linked = {} /\ f.doomed = {} /\ f.seen = {}
  BY <1>1 DEF TypeOK, IsRequest
<1>3. Go(r, f)
  BY DEF End
<1>4. user' \in Postbacks \union {None} /\ \A q \in Postbacks : q # r /\ user = q => user' = q
  BY <1>1 DEF TypeOK, Unlock
<1> HIDE DEF f
<1> QED BY <1>2, <1>3, <1>4, QuietStep

\* Deaths, exceptions, and the form of somebody who has paid.
LEMMA GivesUpInv ==
    ASSUME LedgerInv, NEW r \in Requests,
           \/ r \in Postbacks /\ (RefuseRepeated(r) \/ RefuseEntry(r) \/ RefuseTotal(r))
           \/ Crash(r)
    PROVE  LedgerInv'
<1>1. CASE Crash(r)
  BY <1>1, EndInv DEF Crash
<1>2. CASE r \in Postbacks /\ (RefuseRepeated(r) \/ RefuseEntry(r) \/ RefuseTotal(r))
  BY <1>2, EndInv DEF RefuseRepeated, RefuseEntry, RefuseTotal, Fail, Finish
<1> QED BY <1>1, <1>2

\* The lock is free, and nobody else is between the check and the commit.
LEMMA LockUserInv ==
    ASSUME LedgerInv, NEW r \in Postbacks, LockUser(r)
    PROVE  LedgerInv'
<1> DEFINE f == [req[r] EXCEPT !.pc = "bank"]
<1>1. TypeOK /\ HoldingsOK /\ r \in Requests /\ r \notin Pages
  BY LedgerAssumption DEF LedgerInv, Requests
<1>2. /\ IsRequest(f) /\ f.pc = "bank" /\ f.linked = req[r].linked /\ f.doomed = req[r].doomed
      /\ f.seen = req[r].seen /\ f.tx = req[r].tx /\ f.amount = req[r].amount
  BY <1>1 DEF TypeOK, IsRequest
<1>3. /\ Go(r, f) /\ user = None /\ user' = r /\ req[r].pc = "lock"
      /\ UNCHANGED <<rows, nextId, charged, log>>
  BY DEF LockUser, Goto
<1>4. req[r].linked = {}
  BY <1>1, <1>3 DEF HoldingsOK
<1>5. \A q \in Postbacks : user # q
  BY <1>3, LedgerAssumption DEF Requests
<1> HIDE DEF f
<1> QED BY <1>1, <1>2, <1>3, <1>4, <1>5, QuietStep

\* The row that an entry gets is one of those that are left and unpaid.
LEMMA RowForIsAvailable ==
    ASSUME LedgerInv, NEW r \in Postbacks, IsPayable(r)
    PROVE  RowFor(r) \in req[r].seen /\ RowFor(r).paid_in = None
<1>1. \A x \in req[r].seen : x.id \in Nat
  BY RowsKnown DEF LedgerInv, KnownOK, Requests
<1>2. Available(r) # {} /\ \A x \in Available(r) : x.id \in Nat
  BY <1>1 DEF IsPayable, Available
<1>3. RowFor(r) \in Available(r)
  <2> DEFINE matching == {x \in Available(r) : x.amount = Entry(r)[2]}
  <2>1. CASE matching # {}
    <3>1. Oldest(matching) \in matching
      BY <1>2, <2>1, OldestIsOne
    <3> QED BY <2>1, <3>1 DEF RowFor
  <2>2. CASE matching = {}
    BY <1>2, <2>2, OldestIsOne DEF RowFor
  <2> QED BY <2>1, <2>2
<1> QED BY <1>3 DEF Available

LEMMA LinkRowInv ==
    ASSUME LedgerInv, NEW r \in Postbacks, LinkRow(r)
    PROVE  LedgerInv'
<1> DEFINE f == [req[r] EXCEPT !.linked = @ \union {RowFor(r)}]
<1>1. /\ TypeOK /\ HoldingsOK /\ PostbacksOK /\ r \in Requests /\ r \notin Pages
      /\ user \in Postbacks \union {None}
  BY LedgerAssumption DEF LedgerInv, Requests, TypeOK
<1>2. /\ IsRequest(f) /\ f.pc = req[r].pc /\ f.linked = req[r].linked \union {RowFor(r)}
      /\ f.doomed = req[r].doomed /\ f.seen = req[r].seen
      /\ f.tx = req[r].tx /\ f.amount = req[r].amount /\ f.id = req[r].id
  BY <1>1 DEF TypeOK, IsRequest
<1>3. Go(r, f) /\ UNCHANGED <<rows, nextId, charged, log, user>> /\ req[r].pc = "link" /\ IsPayable(r)
  BY DEF LinkRow
<1>4. f.linked \subseteq {x \in f.seen : x.paid_in = None}
  BY <1>1, <1>2, <1>3, RowForIsAvailable, RequestFacts
<1>5. user = r
  BY <1>1, <1>3 DEF PostbacksOK, PostbackOK
<1> HIDE DEF f
<1> QED BY <1>1, <1>2, <1>3, <1>4, <1>5, QuietStep

\* The form reads and locks the rows that it will delete.
LEMMA FormReadsInv ==
    ASSUME LedgerInv, NEW r \in Forms, CheckUnpaid(r) \/ ClearExtras(r)
    PROVE  LedgerInv'
<1>1. /\ TypeOK /\ HoldingsOK /\ r \in Requests /\ r \notin Pages /\ r \notin Postbacks
      /\ user \in Postbacks \union {None}
  BY LedgerAssumption DEF LedgerInv, Requests, TypeOK
<1>2. UNCHANGED <<rows, nextId, charged, log, user>> /\ req[r].pc \in {"new", "clear"}
  BY DEF CheckUnpaid, ClearExtras
<1>3. req[r].linked = {}
  BY <1>1, <1>2 DEF HoldingsOK
<1>4. ASSUME NEW f, Go(r, f), IsRequest(f), f.pc \in {"clear", "apply"},
             f.linked = req[r].linked, f.seen = req[r].seen,
             f.doomed \subseteq req[r].doomed \union (DOMAIN rows \ PaymentIds)
      PROVE  LedgerInv'
  BY <1>1, <1>2, <1>3, <1>4, QuietStep
<1>5. CASE CheckUnpaid(r) /\ Finish(r)
  BY <1>1, <1>2, <1>5, EndInv DEF Finish
<1>6. CASE CheckUnpaid(r) /\ Goto(r, "clear")
  <2> DEFINE f == [req[r] EXCEPT !.pc = "clear"]
  <2>1. /\ IsRequest(f) /\ f.pc = "clear" /\ f.linked = req[r].linked
        /\ f.doomed = req[r].doomed /\ f.seen = req[r].seen
    BY <1>1 DEF TypeOK, IsRequest
  <2>2. Go(r, f)
    BY <1>6 DEF Goto
  <2> HIDE DEF f
  <2> QED BY <1>4, <2>1, <2>2
<1>7. CASE ClearExtras(r)
  <2> DEFINE ids == {i \in DOMAIN rows : rows[i].item \in Extras}
             f == [req[r] EXCEPT !.pc = "apply", !.doomed = ids]
  <2>1. /\ IsRequest(f) /\ f.pc = "apply" /\ f.linked = req[r].linked
        /\ f.doomed = ids /\ f.seen = req[r].seen
    BY <1>1 DEF TypeOK, IsRequest
  <2>2. Go(r, f)
    BY <1>7 DEF ClearExtras
  <2>3. ids \subseteq DOMAIN rows \ PaymentIds
    BY LedgerAssumption DEF PaymentIds
  <2> HIDE DEF f, ids
  <2> QED BY <1>4, <2>1, <2>2, <2>3
<1> QED BY <1>5, <1>6, <1>7 DEF CheckUnpaid

\* The student pays: there is one more charge.
LEMMA PayInv ==
    ASSUME LedgerInv, NEW r \in Pages, Pay(r)
    PROVE  LedgerInv'
<1> DEFINE f == [req[r] EXCEPT !.pc = "done", !.seen = {}, !.linked = {}, !.doomed = {}]
<1>1. TypeOK /\ r \in Requests /\ r \notin Postbacks
  BY LedgerAssumption DEF LedgerInv, Requests
<1>2. IsRequest(f) /\ f.pc = "done" /\ f.linked = {} /\ f.doomed = {} /\ f.seen = {}
  BY <1>1 DEF TypeOK, IsRequest
<1>3. Go(r, f) /\ charged \subseteq charged' /\ UNCHANGED <<rows, nextId, log, user>>
  BY DEF Pay, Finish, End
<1>4. /\ nextId' \in Nat /\ nextId <= nextId'
      /\ log' = [q \in DOMAIN log' |-> log'[q]] /\ DOMAIN log' \subseteq Postbacks
      /\ user' \in Postbacks \union {None}
  BY <1>1, <1>3 DEF TypeOK
<1> HIDE DEF f
<1> QED BY <1>1, <1>2, <1>3, <1>4, RowsUntouched

\* A postback is logged with the data of a charge.
LEMMA LogPostbackInv ==
    ASSUME LedgerInv, NEW r \in Postbacks, LogPostback(r)
    PROVE  LedgerInv'
<1>1. TypeOK /\ HoldingsOK /\ PostbacksOK /\ r \in Requests /\ r \notin Pages
  BY LedgerAssumption DEF LedgerInv, Requests
<1>2. PICK c \in charged :
          Go(r, [req[r] EXCEPT !.pc = "lock", !.ident = c.ident, !.amount = c.amount, !.tx = c.tx])
  BY DEF LogPostback
<1> DEFINE f == [req[r] EXCEPT !.pc = "lock", !.ident = c.ident, !.amount = c.amount, !.tx = c.tx]
<1>3. /\ IsRequest(f) /\ f.pc = "lock" /\ f.linked = req[r].linked /\ f.doomed = req[r].doomed
      /\ f.seen = req[r].seen /\ f.tx = c.tx /\ f.amount = c.amount
  BY <1>1 DEF TypeOK, IsRequest
<1>4. /\ Go(r, f) /\ req[r].pc = "new"
      /\ log' = [q \in DOMAIN log \union {r} |-> IF q = r THEN None ELSE log[q]]
      /\ UNCHANGED <<rows, nextId, charged, user>>
  BY <1>2 DEF LogPostback
<1>5. req[r].linked = {} /\ (r \in DOMAIN log => log[r] = None)
  BY <1>1, <1>4 DEF HoldingsOK, PostbacksOK
<1>6. /\ nextId' \in Nat /\ nextId <= nextId'
      /\ log' = [q \in DOMAIN log' |-> log'[q]] /\ DOMAIN log' \subseteq Postbacks
      /\ DOMAIN log \subseteq DOMAIN log' /\ r \in DOMAIN log'
      /\ \A q \in DOMAIN log : log'[q] = log[q]
      /\ \A q \in DOMAIN log' \ DOMAIN log : log'[q] = None
      /\ user' \in Postbacks \union {None}
  BY <1>1, <1>4, <1>5 DEF TypeOK
<1> HIDE DEF f
<1> QED BY <1>1, <1>3, <1>4, <1>5, <1>6, RowsUntouched

\* Under the lock the check is up to date, the id is new, and what is read
\* unpaid is unpaid.
LEMMA BankInv ==
    ASSUME LedgerInv, NEW r \in Postbacks, Bank(r)
    PROVE  LedgerInv'
<1> DEFINE read == {rows[i] : i \in {j \in DOMAIN rows :
                                       \E k \in DOMAIN req[r].ident : req[r].ident[k][1] = rows[j].item}}
           f == [req[r] EXCEPT !.pc = "link", !.id = nextId, !.seen = read]
<1>1. TypeOK /\ KnownOK /\ HoldingsOK /\ PostbackOK(r) /\ r \in Requests /\ r \notin Pages
  BY LedgerAssumption DEF LedgerInv, PostbacksOK, Requests
<1>2. /\ IsRequest(f) /\ f.pc = "link" /\ f.linked = req[r].linked /\ f.doomed = req[r].doomed
      /\ f.seen = read /\ f.tx = req[r].tx /\ f.amount = req[r].amount /\ f.id = nextId
  BY <1>1 DEF TypeOK, IsRequest
<1>3. /\ Go(r, f) /\ req[r].pc = "bank" /\ ~IsRecorded(req[r].tx) /\ nextId' = nextId + 1
      /\ UNCHANGED <<rows, charged, log, user>>
  BY DEF Bank
<1>4. /\ req[r].linked = {} /\ user = r /\ r \in DOMAIN log
      /\ \E c \in charged : c.tx = req[r].tx /\ c.amount = req[r].amount
  BY <1>1, <1>3 DEF HoldingsOK, PostbackOK
<1>5. /\ nextId' \in Nat /\ nextId <= nextId' /\ nextId \in Nat /\ nextId < nextId'
      /\ log' = [q \in DOMAIN log' |-> log'[q]] /\ DOMAIN log' \subseteq Postbacks
      /\ user' \in Postbacks \union {None}
  BY <1>1, <1>3 DEF TypeOK
<1>6. /\ \A x \in Known : x.id # nextId
      /\ \A p \in Requests : nextId \notin req[p].doomed
  BY <1>1 DEF KnownOK, HoldingsOK
<1>7. \A x \in read : x.paid_in = None /\ x.id \in DOMAIN rows => rows[x.id].paid_in = None
  BY <1>1 DEF KnownOK
<1>8. read \subseteq {rows[i] : i \in DOMAIN rows}
  OBVIOUS
<1> HIDE DEF f, read
<1> QED BY <1>1, <1>2, <1>3, <1>4, <1>5, <1>6, <1>7, <1>8, RowsUntouched

-----------------------------------------------------------------------------
(* Steps that write rows.                                                   *)

\* SameRow is what it says.
LEMMA SameRowFacts ==
    ASSUME KnownOK
    PROVE  /\ \A x : SameRow(x, x)
           /\ \A x, y \in Known : x.id = y.id => SameRow(x, y)
BY DEF SameRow, KnownOK

\* A step of a page or form that writes copies of rows for items, without a
\* mark, and new rows for items with new ids, and deletes no payment.
LEMMA WriteItems ==
    ASSUME LedgerInv, NEW r \in Requests, r \notin Postbacks,
           NEW f, IsRequest(f), Go(r, f), f.linked = {}, f.seen \subseteq req[r].seen,
           f.doomed \subseteq req[r].doomed,
           NEW R, NEW S, rows' = Saved(R, S),
           DOMAIN R \subseteq DOMAIN rows, PaymentIds \subseteq DOMAIN R,
           \A i \in DOMAIN R : R[i] = rows[i],
           nextId' \in Nat, nextId <= nextId',
           \A y \in S : /\ IsRow(y) /\ y.item # Payment /\ y.paid_in = None
                        /\ \/ \E x \in Known : SameRow(x, y)
                           \/ y.id \in Nat /\ nextId <= y.id /\ y.id < nextId',
           \A y, z \in S : y.id = z.id /\ nextId <= y.id => y = z,
           UNCHANGED <<charged, log, user>>
    PROVE  LedgerInv'
<1>1. TypeOK /\ KnownOK /\ HoldingsOK /\ PostbacksOK /\ BankedOnce
  BY DEF LedgerInv
<1>2. /\ req' = [q \in Requests |-> req'[q]] /\ \A q \in Requests : IsRequest(req[q])'
      /\ req'[r] = f /\ \A q \in Requests : q # r => req'[q] = req[q]
  BY <1>1, GoFacts
<1>3. nextId \in Nat /\ \A x \in Known : x.id \in Nat /\ x.id < nextId
  BY <1>1 DEF KnownOK, TypeOK
<1> DEFINE fresh == {y \in S : nextId <= y.id}
<1>4. \A y \in S : y \in fresh \/ \E x \in Known : SameRow(x, y)
  BY <1>3
<1>5. \A y \in fresh : y \in S /\ y.id \in Nat /\ nextId <= y.id /\ y.id < nextId'
  BY <1>3 DEF SameRow
<1>6. /\ DOMAIN rows' = DOMAIN R \union {x.id : x \in S}
      /\ rows' = [i \in DOMAIN rows' |-> rows'[i]]
      /\ \A i \in DOMAIN rows' :
             \/ rows'[i] \in S /\ rows'[i].id = i
             \/ i \in DOMAIN rows /\ rows'[i] = rows[i]
  <2>1. IsSaved(rows', R, S)
    BY SavedFacts
  <2> QED BY <2>1 DEF IsSaved
<1>7. \A i \in DOMAIN rows' : rows'[i].id = i
  BY <1>1, <1>6 DEF KnownOK
<1>8. \A y \in S : y.id \in Nat
  BY <1>3, <1>4, <1>5 DEF SameRow
<1>9. TypeOK'
  <2>1. DOMAIN rows' \subseteq Nat
    BY <1>1, <1>6, <1>8 DEF TypeOK
  <2> QED BY <1>1, <1>2, <1>6, <2>1 DEF TypeOK
<1>10. \A q \in Requests : req'[q].seen \subseteq req[q].seen
  BY <1>2
<1>11. \A y \in Known' : IsRow(y) /\ (y \in fresh \/ y \in S \/ y \in Known)
  <2> SUFFICES ASSUME NEW y \in Known' PROVE IsRow(y) /\ (y \in fresh \/ y \in S \/ y \in Known)
    OBVIOUS
  <2>1. CASE \E i \in DOMAIN rows' : y = rows'[i]
    <3>1. y \in S \/ y \in Known
      BY <1>6, <2>1, RowsKnown
    <3> QED BY <1>1, <3>1 DEF KnownOK
  <2>2. CASE \E q \in Requests : y \in req'[q].seen
    BY <1>1, <1>10, <2>2, RowsKnown DEF KnownOK
  <2> QED BY <2>1, <2>2 DEF Known
<1>12. \A y \in Known' : IsRow(y) /\ (y \in fresh \/ \E x \in Known : SameRow(x, y))
  BY <1>1, <1>4, <1>11, SameRowFacts
<1>13. \A y \in fresh : y.id \in Nat /\ y.id < nextId' /\ \A x \in Known : x.id # y.id
  BY <1>3, <1>5
<1>14. \A y, z \in fresh : y.id = z.id => y = z
  BY <1>5
<1>15. \A y \in fresh : y.item # Payment
  BY <1>5
<1>16. PaymentIds \subseteq DOMAIN rows'
  BY <1>6
<1> HIDE DEF fresh
<1>17. /\ KnownOK' /\ PaymentIds' = PaymentIds
       /\ \A i \in PaymentIds : rows'[i].amount = rows[i].amount /\ rows'[i].tx = rows[i].tx
  <2>1. \A y \in fresh : y.item = Payment => y.id \in DOMAIN rows'
    BY <1>15
  <2>2. /\ KnownOK' /\ PaymentIds \subseteq PaymentIds'
        /\ \A i \in PaymentIds' : i \in PaymentIds \/ \E y \in fresh : y.item = Payment /\ y.id = i
        /\ \A i \in PaymentIds : rows'[i].amount = rows[i].amount /\ rows'[i].tx = rows[i].tx
    BY <1>1, <1>7, <1>12, <1>13, <1>14, <1>16, <2>1, KnownStep
  <2> QED BY <1>15, <2>2
<1>18. HoldingsOK'
  <2>0. \A q \in Requests : \A i \in req[q].doomed : i \in Nat /\ i < nextId' /\ i \notin PaymentIds'
    BY <1>1, <1>3, <1>17 DEF HoldingsOK
  <2>1. ASSUME NEW q \in Requests
        PROVE  /\ req'[q].linked \subseteq {x \in req'[q].seen : x.paid_in = None}
               /\ req'[q].pc # "link" => req'[q].linked = {}
               /\ \A i \in req'[q].doomed : i \in Nat /\ i < nextId' /\ i \notin PaymentIds'
               /\ q \in Pages => \A x \in req'[q].seen : x.item = Admission
    <3>1. CASE q # r
      BY <1>1, <1>2, <2>0, <3>1 DEF HoldingsOK
    <3>2. CASE q = r
      BY <1>1, <1>2, <2>0, <3>2 DEF HoldingsOK
    <3> QED BY <3>1, <3>2
  <2> QED BY <2>1 DEF HoldingsOK, Requests
<1>19. \A q \in Postbacks : PostbackOK(q)'
  <2> TAKE q \in Postbacks
  <2>0. PostbackOK(q) /\ q \in Requests
    BY <1>1 DEF PostbacksOK, Requests
  <2>1. req'[q] = req[q]
    BY <1>2, <2>0
  <2>2. ASSUME req[q].pc = "link"
        PROVE  /\ \A x \in Known' : x.id # req[q].id
               /\ \A p \in Requests : req[q].id \notin req'[p].doomed
               /\ \A i \in DOMAIN rows' :
                      \/ rows'[i].paid_in = None
                      \/ i \in DOMAIN rows /\ rows'[i].paid_in = rows[i].paid_in
    <3>1. /\ req[q].id \in Nat /\ req[q].id < nextId
          /\ \A x \in Known : x.id # req[q].id
          /\ \A p \in Requests : req[q].id \notin req[p].doomed
      BY <2>0, <2>2 DEF PostbackOK
    <3>2. \A x \in Known' : x.id # req[q].id
      BY <1>3, <1>5, <1>12, <3>1 DEF SameRow
    <3>3. \A p \in Requests : req[q].id \notin req'[p].doomed
      BY <1>2, <3>1
    <3> QED BY <1>6, <3>2, <3>3
  <2> QED BY <1>9, <1>17, <2>0, <2>1, <2>2, PostbackKeeps
<1>20. \A q \in DOMAIN log' : log'[q] # None => req'[q].pc = "done"
  <2>1. \A q \in DOMAIN log : q # r /\ q \in Requests
    BY <1>1 DEF TypeOK, Requests
  <2> QED BY <1>1, <1>2, <2>1 DEF PostbacksOK
<1>21. BankedOnce'
  BY <1>1, <1>17, BankedKeeps
<1> QED BY <1>9, <1>17, <1>18, <1>19, <1>20, <1>21 DEF LedgerInv, PostbacksOK

\* A page creates the admission, or writes over it with the copy it has read.
LEMMA EnsureAdmissionInv ==
    ASSUME LedgerInv, NEW r \in Pages, EnsureAdmission(r)
    PROVE  LedgerInv'
<1> DEFINE stale == {x \in req[r].seen : x.paid_in = None /\ x.amount # price}
           S == IF req[r].seen = {} THEN {NewRow(nextId, Admission, price, None)}
                ELSE {[x EXCEPT !.amount = price] : x \in stale}
           f == [req[r] EXCEPT !.pc = "total"]
<1>1. /\ TypeOK /\ KnownOK /\ HoldingsOK /\ r \in Requests /\ r \notin Postbacks /\ nextId \in Nat
  BY LedgerAssumption DEF LedgerInv, Requests, TypeOK
<1>2. /\ IsRequest(f) /\ f.linked = req[r].linked /\ f.doomed = req[r].doomed /\ f.seen = req[r].seen
  BY <1>1 DEF TypeOK, IsRequest
<1>3. /\ Go(r, f) /\ req[r].pc = "ensure" /\ rows' = Saved(rows, S)
      /\ nextId' = IF req[r].seen = {} THEN nextId + 1 ELSE nextId
      /\ UNCHANGED <<charged, log, user>>
  BY DEF EnsureAdmission, Goto
<1>4. f.linked = {}
  BY <1>1, <1>2, <1>3 DEF HoldingsOK
<1>5. nextId' \in Nat /\ nextId <= nextId'
  BY <1>1, <1>3
<1>6. /\ \A y \in S : /\ IsRow(y) /\ y.item # Payment /\ y.paid_in = None
                      /\ \/ \E x \in Known : SameRow(x, y)
                         \/ y.id \in Nat /\ nextId <= y.id /\ y.id < nextId'
      /\ \A y, z \in S : y.id = z.id /\ nextId <= y.id => y = z
  <2>1. CASE req[r].seen = {}
    <3> DEFINE n == NewRow(nextId, Admission, price, None)
    <3>1. IsRow(n) /\ n.id = nextId /\ n.item = Admission /\ n.paid_in = None
      BY DEF NewRow, IsRow
    <3>2. S = {n} /\ nextId < nextId'
      BY <1>1, <1>3, <2>1
    <3>3. n.item # Payment
      BY <3>1 DEF Admission, Payment
    <3> HIDE DEF n, S
    <3> QED BY <1>1, <3>1, <3>2, <3>3
  <2>2. CASE req[r].seen # {}
    <3>1. ASSUME NEW y \in S
          PROVE  /\ IsRow(y) /\ y.item = Admission /\ y.paid_in = None
                 /\ \E x \in Known : SameRow(x, y)
      <4>1. PICK x \in req[r].seen : x.paid_in = None /\ y = [x EXCEPT !.amount = price]
        BY <2>2
      <4>2. x \in Known /\ IsRow(x) /\ x.item = Admission
        BY <1>1, RowsKnown DEF KnownOK, HoldingsOK
      <4>3. IsRow(y) /\ y.item = x.item /\ y.paid_in = x.paid_in /\ y.id = x.id
        BY <4>1, <4>2 DEF IsRow
      <4>4. SameRow(x, y)
        BY <4>2, <4>3 DEF SameRow, Admission, Payment
      <4> QED BY <4>1, <4>2, <4>3, <4>4
    <3>2. \A y \in S : ~(nextId <= y.id)
      BY <1>1, <3>1 DEF KnownOK, SameRow
    <3> HIDE DEF S
    <3> QED BY <3>1, <3>2 DEF Admission, Payment
  <2> QED BY <2>1, <2>2
<1>7. PaymentIds \subseteq DOMAIN rows
  BY DEF PaymentIds
<1> HIDE DEF f, S
<1> QED BY <1>1, <1>2, <1>3, <1>4, <1>5, <1>6, <1>7, WriteItems

\* SetToSeq gives every element of a finite set a place.
LEMMA SetToSeqFacts ==
    ASSUME NEW S, IsFiniteSet(S)
    PROVE  /\ DOMAIN SetToSeq(S) = 1..Len(SetToSeq(S)) /\ Len(SetToSeq(S)) \in Nat
           /\ \A k \in DOMAIN SetToSeq(S) : SetToSeq(S)[k] \in S
<1> DEFINE n == Cardinality(S)
<1>1. n \in Nat /\ ExistsBijection(1..n, S)
  BY FS_CardinalityType
<1>2. PICK g : g \in Bijection(1..n, S)
  BY <1>1 DEF ExistsBijection
<1>3. g \in [1..n -> S] /\ \A i, j \in DOMAIN g : g[i] = g[j] => i = j
  BY <1>2 DEF Bijection, Injection, IsInjective
<1>4. \E h \in [1..n -> S] : IsInjective(h)
  BY <1>3 DEF IsInjective
<1>5. SetToSeq(S) \in [1..n -> S]
  BY <1>4 DEF SetToSeq
<1> HIDE DEF n
<1>6. DOMAIN SetToSeq(S) = 1..n /\ SetToSeq(S) \in Seq(S)
  BY <1>1, <1>5
<1>7. Len(SetToSeq(S)) = n
  BY <1>1, <1>6
<1> QED BY <1>1, <1>5, <1>6, <1>7

\* The form deletes rows for optional items and creates those that were chosen.
LEMMA ApplyPreferencesInv ==
    ASSUME LedgerInv, NEW r \in Forms, ApplyPreferences(r)
    PROVE  LedgerInv'
<1> DEFINE f == [req[r] EXCEPT !.pc = "done", !.seen = {}, !.linked = {}, !.doomed = {}]
<1>1. /\ TypeOK /\ KnownOK /\ HoldingsOK /\ r \in Requests /\ r \notin Postbacks /\ nextId \in Nat
  BY LedgerAssumption DEF LedgerInv, Requests, TypeOK
<1>2. IsRequest(f) /\ f.linked = {} /\ f.doomed = {} /\ f.seen = {}
  BY <1>1 DEF TypeOK, IsRequest
<1>3. Go(r, f) /\ UNCHANGED <<charged, log, user>>
  BY DEF ApplyPreferences, Finish, End
<1>4. PICK C \in SUBSET Extras, again \in SUBSET {i \in DOMAIN rows \ req[r].doomed : rows[i].item \in Extras} :
          /\ rows' = Saved([i \in DOMAIN rows \ (req[r].doomed \union again) |-> rows[i]],
                           {NewRow(nextId + k - 1, SetToSeq(C)[k], ExtraPrice, None) : k \in DOMAIN SetToSeq(C)})
          /\ nextId' = nextId + Len(SetToSeq(C))
  BY DEF ApplyPreferences
<1> DEFINE R == [i \in DOMAIN rows \ (req[r].doomed \union again) |-> rows[i]]
           new(k) == NewRow(nextId + k - 1, SetToSeq(C)[k], ExtraPrice, None)
           S == {new(k) : k \in DOMAIN SetToSeq(C)}
<1>5. /\ DOMAIN SetToSeq(C) = 1..Len(SetToSeq(C)) /\ Len(SetToSeq(C)) \in Nat
      /\ \A k \in DOMAIN SetToSeq(C) : SetToSeq(C)[k] \in Extras
  <2>1. IsFiniteSet(C)
    BY LedgerAssumption, FS_Subset
  <2> QED BY <2>1, SetToSeqFacts
<1>6. nextId' \in Nat /\ nextId <= nextId'
  BY <1>1, <1>4, <1>5
<1>7. ASSUME NEW k \in DOMAIN SetToSeq(C)
      PROVE  /\ IsRow(new(k)) /\ new(k).item # Payment /\ new(k).paid_in = None
             /\ new(k).id = nextId + k - 1
             /\ new(k).id \in Nat /\ nextId <= new(k).id /\ new(k).id < nextId'
  <2>1. /\ IsRow(new(k)) /\ new(k).item = SetToSeq(C)[k] /\ new(k).paid_in = None
        /\ new(k).id = nextId + k - 1
    BY DEF NewRow, IsRow
  <2>2. SetToSeq(C)[k] # Payment
    BY <1>5, LedgerAssumption
  <2>3. nextId + k - 1 \in Nat /\ nextId <= nextId + k - 1 /\ nextId + k - 1 < nextId'
    BY <1>1, <1>4, <1>5
  <2> HIDE DEF new
  <2> QED BY <2>1, <2>2, <2>3
<1>8. \A y \in S : /\ IsRow(y) /\ y.item # Payment /\ y.paid_in = None
                   /\ y.id \in Nat /\ nextId <= y.id /\ y.id < nextId'
  <2> HIDE DEF new
  <2> QED BY <1>7
<1>9. \A y, z \in S : y.id = z.id /\ nextId <= y.id => y = z
  <2>1. \A k, l \in DOMAIN SetToSeq(C) : new(k).id = new(l).id => k = l
    <3> HIDE DEF new
    <3>1. \A k \in DOMAIN SetToSeq(C) : k \in Nat /\ new(k).id = nextId + k - 1
      BY <1>5, <1>7
    <3> QED BY <1>1, <3>1
  <2> HIDE DEF new
  <2> QED BY <2>1
<1>10. /\ DOMAIN R \subseteq DOMAIN rows /\ PaymentIds \subseteq DOMAIN R
       /\ \A i \in DOMAIN R : R[i] = rows[i]
  BY <1>1, LedgerAssumption DEF HoldingsOK, PaymentIds
<1>11. rows' = Saved(R, S)
  BY <1>4
<1> HIDE DEF f, R, S
<1> QED BY <1>1, <1>2, <1>3, <1>6, <1>8, <1>9, <1>10, <1>11, WriteItems

\* The payment is recorded under its own id, for a charge that was not recorded,
\* and the log of this postback is linked to it.
LEMMA CommitPaymentInv ==
    ASSUME LedgerInv, NEW r \in Postbacks, CommitPayment(r)
    PROVE  LedgerInv'
<1> DEFINE n == req[r].id
           pay == NewRow(n, Payment, req[r].amount, req[r].tx)
           marked == {[x EXCEPT !.paid_in = n] : x \in req[r].linked}
           S == marked \union {pay}
           f == [req[r] EXCEPT !.pc = "done", !.seen = {}, !.linked = {}, !.doomed = {}]
<1>1. /\ TypeOK /\ KnownOK /\ HoldingsOK /\ PostbacksOK /\ BankedOnce /\ PostbackOK(r)
      /\ r \in Requests /\ r \notin Pages
  BY LedgerAssumption DEF LedgerInv, PostbacksOK, Requests
<1>2. IsRequest(f) /\ f.pc = "done" /\ f.linked = {} /\ f.doomed = {} /\ f.seen = {}
  BY <1>1 DEF TypeOK, IsRequest
<1>3. /\ Go(r, f) /\ req[r].pc = "link" /\ rows' = Saved(rows, S)
      /\ log' = [log EXCEPT ![r] = n]
      /\ user' = (IF user = r THEN None ELSE user)
      /\ UNCHANGED <<nextId, charged>>
  BY DEF CommitPayment, Finish, End, Unlock
<1>4. /\ user = r /\ r \in DOMAIN log /\ ~IsRecorded(req[r].tx)
      /\ n \in Nat /\ n < nextId
      /\ \A x \in Known : x.id # n
      /\ \A q \in Requests : n \notin req[q].doomed
      /\ \E c \in charged : c.tx = req[r].tx /\ c.amount = req[r].amount
  BY <1>1, <1>3 DEF PostbackOK
<1>5. /\ pay.id = n /\ pay.item = Payment /\ pay.amount = req[r].amount /\ pay.tx = req[r].tx
      /\ IsRow(pay)
  BY DEF NewRow, IsRow
<1>6. \A y \in marked : IsRow(y) /\ y.id # n /\ y.id \in Nat /\ \E x \in Known : SameRow(x, y)
  <2> SUFFICES ASSUME NEW x \in req[r].linked, NEW y, y = [x EXCEPT !.paid_in = n]
               PROVE  IsRow(y) /\ y.id # n /\ y.id \in Nat /\ \E w \in Known : SameRow(w, y)
    OBVIOUS
  <2>1. x \in Known
    BY <1>1, RowsKnown DEF HoldingsOK
  <2>2. IsRow(x) /\ x.id \in Nat /\ x.id # n
    BY <1>1, <1>4, <2>1 DEF KnownOK
  <2> HIDE DEF n
  <2>3. IsRow(y) /\ y.id = x.id /\ y.item = x.item /\ y.amount = x.amount /\ y.tx = x.tx
    BY <2>2 DEF IsRow
  <2>4. SameRow(x, y)
    BY <2>3 DEF SameRow
  <2> QED BY <2>1, <2>2, <2>3, <2>4
<1> HIDE DEF n, pay, f, marked
<1>7. /\ req' = [q \in Requests |-> req'[q]] /\ \A q \in Requests : IsRequest(req[q])'
      /\ req'[r] = f /\ \A q \in Requests : q # r => req'[q] = req[q]
  BY <1>1, <1>2, <1>3, GoFacts
<1>8. /\ rows' = [i \in DOMAIN rows' |-> rows'[i]]
      /\ DOMAIN rows' = DOMAIN rows \union {x.id : x \in S}
      /\ \A i \in DOMAIN rows' :
             \/ rows'[i] \in S /\ rows'[i].id = i
             \/ i \in DOMAIN rows /\ rows'[i] = rows[i] /\ \A x \in S : x.id # i
  <2>1. IsSaved(rows', rows, S)
    BY <1>3, SavedFacts
  <2> QED BY <2>1 DEF IsSaved
<1>9. \A i \in DOMAIN rows' : rows'[i].id = i
  BY <1>1, <1>8 DEF KnownOK
<1>10. n \in DOMAIN rows' /\ rows'[n] = pay
  <2>1. pay \in S
    OBVIOUS
  <2>2. n \in DOMAIN rows'
    BY <1>5, <1>8, <2>1
  <2>3. rows'[n] \in S /\ rows'[n].id = n
    BY <1>5, <1>8, <2>1, <2>2
  <2> QED BY <1>6, <2>2, <2>3
<1>11. TypeOK'
  <2>1. DOMAIN rows' \subseteq Nat
    BY <1>1, <1>4, <1>5, <1>6, <1>8 DEF TypeOK
  <2>2. log' = [q \in DOMAIN log' |-> log'[q]] /\ DOMAIN log' \subseteq Postbacks
    BY <1>1, <1>3 DEF TypeOK
  <2>3. user' \in Postbacks \union {None}
    BY <1>3, <1>4
  <2> QED BY <1>1, <1>3, <1>7, <1>8, <2>1, <2>2, <2>3 DEF TypeOK
<1>12. \A y \in Known' : IsRow(y) /\ (y \in {pay} \/ \E x \in Known : SameRow(x, y))
  <2>0. \A y \in Known : IsRow(y) /\ SameRow(y, y)
    BY <1>1 DEF KnownOK, SameRow
  <2> SUFFICES ASSUME NEW y \in Known'
               PROVE  IsRow(y) /\ (y \in {pay} \/ \E x \in Known : SameRow(x, y))
    OBVIOUS
  <2>1. CASE \E i \in DOMAIN rows' : y = rows'[i]
    <3>1. y \in marked \/ y = pay \/ y \in Known
      BY <1>8, <2>1, RowsKnown
    <3> QED BY <1>5, <1>6, <2>0, <3>1
  <2>2. CASE \E q \in Requests : y \in req'[q].seen
    <3>1. y \in Known
      BY <1>2, <1>7, <2>2, RowsKnown
    <3> QED BY <2>0, <3>1
  <2> QED BY <2>1, <2>2 DEF Known
<1>13. /\ KnownOK' /\ PaymentIds \subseteq PaymentIds'
       /\ \A i \in PaymentIds' : i \in PaymentIds \/ i = n
       /\ \A i \in PaymentIds : rows'[i].amount = rows[i].amount /\ rows'[i].tx = rows[i].tx
  <2>1. nextId' \in Nat /\ nextId <= nextId'
    BY <1>1, <1>3 DEF TypeOK
  <2> DEFINE fresh == {pay}
  <2>2. /\ \A y \in fresh : y.id \in Nat /\ y.id < nextId' /\ \A x \in Known : x.id # y.id
        /\ \A y \in fresh : y.item = Payment => y.id \in DOMAIN rows'
        /\ \A y, z \in fresh : y.id = z.id => y = z
    BY <1>3, <1>4, <1>5, <1>10
  <2>3. \A y \in Known' : IsRow(y) /\ (y \in fresh \/ \E x \in Known : SameRow(x, y))
    BY <1>12
  <2>4. PaymentIds \subseteq DOMAIN rows'
    BY <1>8 DEF PaymentIds
  <2> HIDE DEF fresh
  <2>5. /\ KnownOK' /\ PaymentIds \subseteq PaymentIds'
        /\ \A i \in PaymentIds' : i \in PaymentIds \/ \E y \in fresh : y.item = Payment /\ y.id = i
        /\ \A i \in PaymentIds : rows'[i].amount = rows[i].amount /\ rows'[i].tx = rows[i].tx
    BY <1>1, <1>9, <2>1, <2>2, <2>3, <2>4, KnownStep
  <2> QED BY <1>5, <2>5 DEF fresh
<1>14. n \in PaymentIds' /\ rows'[n].tx = req[r].tx /\ rows'[n].amount = req[r].amount
  BY <1>5, <1>10 DEF PaymentIds
<1>15. n \notin PaymentIds
  BY <1>1, <1>4, RowsKnown DEF PaymentIds, KnownOK
<1>16. HoldingsOK'
  <2>1. ASSUME NEW q \in Requests
        PROVE  /\ req'[q].linked \subseteq {x \in req'[q].seen : x.paid_in = None}
               /\ req'[q].pc # "link" => req'[q].linked = {}
               /\ \A i \in req'[q].doomed : i \in Nat /\ i < nextId' /\ i \notin PaymentIds'
               /\ q \in Pages => \A x \in req'[q].seen : x.item = Admission
    <3>1. CASE q # r
      BY <1>1, <1>3, <1>4, <1>7, <1>13, <3>1 DEF HoldingsOK
    <3>2. CASE q = r
      BY <1>2, <1>7, <3>2
    <3> QED BY <3>1, <3>2
  <2> QED BY <2>1 DEF HoldingsOK, Requests
<1>17. \A q \in Postbacks : PostbackOK(q)'
  <2> TAKE q \in Postbacks
  <2>1. CASE q = r
    BY <1>2, <1>7, <2>1 DEF PostbackOK, Requests
  <2>2. CASE q # r
    <3>1. PostbackOK(q) /\ q \in Requests
      BY <1>1 DEF PostbacksOK, Requests
    <3>2. req'[q] = req[q] /\ req[q].pc \notin {"bank", "link"}
      BY <1>4, <1>7, <2>2, <3>1 DEF PostbackOK
    <3> QED BY <1>3, <1>7, <3>1, <3>2 DEF PostbackOK
  <2> QED BY <2>1, <2>2
<1>18. DOMAIN log' = DOMAIN log /\ log'[r] = n /\ \A q \in DOMAIN log : q # r => log'[q] = log[q]
  BY <1>1, <1>3, <1>4 DEF TypeOK
<1>19. \A q \in DOMAIN log' : log'[q] # None => req'[q].pc = "done"
  <2> SUFFICES ASSUME NEW q \in DOMAIN log', log'[q] # None PROVE req'[q].pc = "done"
    OBVIOUS
  <2>1. CASE q = r
    BY <1>2, <1>7, <2>1
  <2>2. CASE q # r
    <3>1. q \in Requests /\ req[q].pc = "done"
      BY <1>1, <1>18, <2>2 DEF PostbacksOK, TypeOK, Requests
    <3> QED BY <1>7, <2>2, <3>1
  <2> QED BY <2>1, <2>2
<1>20. \A q \in DOMAIN log : log[q] # n /\ (log[q] # None => log[q] \in PaymentIds)
  BY <1>1, <1>4, <1>15, LedgerAssumption DEF BankedOnce
<1>21. log[r] = None
  BY <1>1, <1>3, <1>4 DEF PostbacksOK
<1>22. BankedOnce'
  <2>1. ASSUME NEW i \in PaymentIds'
        PROVE  \E c \in charged' : c.tx = rows'[i].tx /\ c.amount = rows'[i].amount
    <3>1. CASE i = n
      <4>1. PICK c \in charged : c.tx = req[r].tx /\ c.amount = req[r].amount
        BY <1>4
      <4> QED BY <1>3, <1>14, <3>1, <4>1
    <3>2. CASE i # n
      <4>1. i \in PaymentIds
        BY <1>13, <3>2
      <4>2. PICK c \in charged : c.tx = rows[i].tx /\ c.amount = rows[i].amount
        BY <1>1, <4>1 DEF BankedOnce
      <4> QED BY <1>3, <1>13, <4>1, <4>2
    <3> QED BY <3>1, <3>2
  <2>2. ASSUME NEW i \in PaymentIds', NEW j \in PaymentIds', rows'[i].tx = rows'[j].tx
        PROVE  i = j
    <3>1. \A k \in PaymentIds : rows'[k].tx = rows[k].tx /\ rows[k].tx # req[r].tx
      BY <1>4, <1>13 DEF IsRecorded
    <3>2. \A k, m \in PaymentIds : rows[k].tx = rows[m].tx => k = m
      BY <1>1 DEF BankedOnce
    <3> QED BY <1>13, <1>14, <2>2, <3>1, <3>2
  <2>3. ASSUME NEW i \in PaymentIds' PROVE Cardinality({q \in DOMAIN log' : log'[q] = i}) = 1
    <3>1. CASE i = n
      <4>1. {q \in DOMAIN log' : log'[q] = i} = {r}
        BY <1>4, <1>18, <1>20, <3>1
      <4> QED BY <4>1, FS_Singleton
    <3>2. CASE i # n
      <4>1. i \in PaymentIds
        BY <1>13, <3>2
      <4>2. i # None
        BY <1>1, <4>1, LedgerAssumption DEF PaymentIds, TypeOK
      <4>3. {q \in DOMAIN log' : log'[q] = i} = {q \in DOMAIN log : log[q] = i}
        BY <1>18, <1>21, <3>2, <4>2
      <4> QED BY <1>1, <4>1, <4>3 DEF BankedOnce
    <3> QED BY <3>1, <3>2
  <2>4. \A q \in DOMAIN log' : log'[q] # None => log'[q] \in PaymentIds'
    BY <1>13, <1>14, <1>18, <1>20
  <2> QED BY <2>1, <2>2, <2>3, <2>4 DEF BankedOnce
<1> QED BY <1>11, <1>13, <1>16, <1>17, <1>19, <1>22 DEF LedgerInv, PostbacksOK

-----------------------------------------------------------------------------
(* The specification.                                                       *)

\* At the start there is at most the admission, and nobody has done anything.
LEMMA InitInv == Init => LedgerInv
<1> SUFFICES ASSUME Init PROVE LedgerInv
  OBVIOUS
<1> DEFINE first == NewRow(1, Admission, price, None)
<1>1. /\ first.id = 1 /\ first.item = Admission /\ first.item # Payment /\ IsRow(first)
  BY DEF NewRow, IsRow, Admission, Payment
<1> HIDE DEF first
<1>2. /\ rows = [i \in DOMAIN rows |-> rows[i]] /\ nextId \in Nat
      /\ \A i \in DOMAIN rows : i = 1 /\ rows[i] = first /\ 1 < nextId
  <2>1. CASE rows = <<>>
    BY <2>1 DEF Init
  <2>2. CASE rows = <<first>>
    BY <2>2 DEF Init
  <2> QED BY <2>1, <2>2 DEF Init, first
<1>3. /\ IsRequest(New) /\ New.pc = "new" /\ New.seen = {} /\ New.linked = {} /\ New.doomed = {}
  BY DEF New, IsRequest
<1>4. \A r \in Requests : req[r] = New
  BY DEF Init
<1> HIDE DEF New
<1>5. \A x \in Known : x = first /\ 1 < nextId
  BY <1>2, <1>3, <1>4 DEF Known
<1>6. PaymentIds = {}
  BY <1>1, <1>2 DEF PaymentIds
<1>7. log = <<>> /\ DOMAIN log = {} /\ user = None /\ req = [r \in Requests |-> New]
  BY DEF Init
<1>8. TypeOK
  BY <1>2, <1>3, <1>4, <1>7 DEF TypeOK
<1>9. KnownOK
  BY <1>1, <1>2, <1>5 DEF KnownOK
<1>10. HoldingsOK
  BY <1>3, <1>4 DEF HoldingsOK, Requests
<1>11. PostbacksOK
  BY <1>3, <1>4, <1>7 DEF PostbacksOK, PostbackOK, Requests
<1>12. BankedOnce
  BY <1>6, <1>7 DEF BankedOnce
<1> QED BY <1>8, <1>9, <1>10, <1>11, <1>12 DEF LedgerInv

\* The price, the mails and the deaths are no part of the invariant.
LEMMA SameInv ==
    ASSUME LedgerInv, UNCHANGED <<rows, nextId, charged, log, req, user>>
    PROVE  LedgerInv'
<1>1. TypeOK /\ KnownOK /\ HoldingsOK /\ PostbacksOK /\ BankedOnce
  BY DEF LedgerInv
<1>2. Known' = Known /\ PaymentIds' = PaymentIds
  BY DEF Known, PaymentIds
<1>3. TypeOK'
  BY <1>1 DEF TypeOK
<1>4. KnownOK' /\ HoldingsOK'
  BY <1>1, <1>2 DEF KnownOK, HoldingsOK
<1>5. PostbacksOK'
  BY <1>1, <1>2 DEF PostbacksOK, PostbackOK, IsRecorded
<1>6. BankedOnce'
  BY <1>1, <1>2 DEF BankedOnce
<1> QED BY <1>3, <1>4, <1>5, <1>6 DEF LedgerInv

LEMMA NextInv == LedgerInv /\ [Next]_vars => LedgerInv'
<1> SUFFICES ASSUME LedgerInv, [Next]_vars PROVE LedgerInv'
  OBVIOUS
<1>1. ASSUME NEW r \in Pages, Page(r) PROVE LedgerInv'
  BY <1>1, PageReadsInv, EnsureAdmissionInv DEF Page
<1>2. ASSUME NEW r \in Pages, Pay(r) PROVE LedgerInv'
  BY <1>2, PayInv
<1>3. ASSUME NEW r \in Postbacks, LogPostback(r) PROVE LedgerInv'
  BY <1>3, LogPostbackInv
<1>4. ASSUME NEW r \in Postbacks, Postback(r) PROVE LedgerInv'
  <2>1. r \in Requests
    BY DEF Requests
  <2> QED BY <1>4, <2>1, LockUserInv, GivesUpInv, BankInv, LinkRowInv, CommitPaymentInv DEF Postback
<1>5. ASSUME NEW r \in Forms, Form(r) PROVE LedgerInv'
  BY <1>5, FormReadsInv, ApplyPreferencesInv DEF Form
<1>6. ASSUME NEW r \in Requests, Crash(r) PROVE LedgerInv'
  BY <1>6, GivesUpInv
<1>7. CASE ChangePrice
  BY <1>7, SameInv DEF ChangePrice
<1>8. CASE UNCHANGED vars
  BY <1>8, SameInv DEF vars
<1> QED BY <1>1, <1>2, <1>3, <1>4, <1>5, <1>6, <1>7, <1>8 DEF Next

\* The invariant of the account.
THEOREM LedgerInvariant == Spec => []LedgerInv
<1> QED BY InitInv, NextInv, PTL DEF Spec

\* record_payment_from_identifier: however often a payment is notified, and
\* however notifications meet, it is recorded once, as it was charged, and
\* linked to the one postback that brought it.
THEOREM PaymentsAreBankedOnce == Spec => []BankedOnce
<1>1. LedgerInv => BankedOnce
  BY DEF LedgerInv
<1> QED BY <1>1, LedgerInvariant, PTL

\* What a step may do to a row that has been paid.
LEMMA PaidStep ==
    ASSUME LedgerInv, [Next]_vars, NEW i \in DOMAIN rows, i \in DOMAIN rows',
           rows[i].paid_in # None, rows'[i] # rows[i]
    PROVE  \E r \in Pages :
               /\ req[r].pc = "ensure" /\ req'[r].pc = "total"
               /\ \E x \in req[r].seen : /\ x.id = i /\ x.paid_in = None /\ x.amount # price
                                         /\ rows'[i] = [x EXCEPT !.amount = price]
<1>1. TypeOK /\ KnownOK /\ HoldingsOK /\ PostbacksOK
  BY DEF LedgerInv
<1>2. rows[i].id = i /\ rows[i] \in Known /\ i < nextId /\ nextId \in Nat /\ i \in Nat
  BY <1>1, RowsKnown DEF KnownOK, TypeOK
<1>3. ASSUME NEW r \in Pages, EnsureAdmission(r)
      PROVE  /\ req[r].pc = "ensure" /\ req'[r].pc = "total"
             /\ \E x \in req[r].seen : /\ x.id = i /\ x.paid_in = None /\ x.amount # price
                                       /\ rows'[i] = [x EXCEPT !.amount = price]
  <2> DEFINE S == IF req[r].seen = {} THEN {NewRow(nextId, Admission, price, None)}
                  ELSE {[x EXCEPT !.amount = price] :
                            x \in {y \in req[r].seen : y.paid_in = None /\ y.amount # price}}
  <2>1. r \in Requests /\ req[r].pc = "ensure" /\ rows' = Saved(rows, S)
        /\ Go(r, [req[r] EXCEPT !.pc = "total"])
    BY <1>3 DEF EnsureAdmission, Goto, Requests
  <2>2. req'[r].pc = "total"
    BY <1>1, <2>1 DEF Go, TypeOK, IsRequest
  <2>3. IsSaved(rows', rows, S)
    BY <2>1, SavedFacts
  <2>4. rows'[i] \in S /\ rows'[i].id = i
    BY <2>3 DEF IsSaved
  <2>5. req[r].seen # {}
    <3>1. NewRow(nextId, Admission, price, None).id = nextId
      BY DEF NewRow
    <3> QED BY <1>2, <2>4, <3>1
  <2>6. PICK x \in req[r].seen : /\ x.paid_in = None /\ x.amount # price
                                 /\ rows'[i] = [x EXCEPT !.amount = price]
    BY <2>4, <2>5
  <2>7. IsRow(x)
    BY <1>1, <2>1, RowsKnown DEF KnownOK
  <2>8. x.id = i
    BY <2>4, <2>6, <2>7 DEF IsRow
  <2> QED BY <2>1, <2>2, <2>6, <2>8
<1>4. ASSUME NEW r \in Postbacks, CommitPayment(r) PROVE FALSE
  <2> DEFINE n == req[r].id
             S == {[x EXCEPT !.paid_in = n] : x \in req[r].linked}
                     \union {NewRow(n, Payment, req[r].amount, req[r].tx)}
  <2>1. r \in Requests /\ req[r].pc = "link" /\ rows' = Saved(rows, S) /\ PostbackOK(r)
    BY <1>1, <1>4 DEF CommitPayment, Requests, PostbacksOK
  <2>2. IsSaved(rows', rows, S)
    BY <2>1, SavedFacts
  <2>3. rows'[i] \in S /\ rows'[i].id = i
    BY <2>2 DEF IsSaved
  <2>4. n # i
    BY <1>2, <2>1 DEF PostbackOK
  <2>5. NewRow(n, Payment, req[r].amount, req[r].tx).id = n
    BY DEF NewRow
  <2>6. PICK x \in req[r].linked : rows'[i] = [x EXCEPT !.paid_in = n]
    BY <2>3, <2>4, <2>5
  <2>7. x \in req[r].seen /\ x.paid_in = None
    BY <1>1, <2>1 DEF HoldingsOK
  <2>8. IsRow(x)
    BY <1>1, <2>1, <2>7, RowsKnown DEF KnownOK
  <2>9. x.id = i
    BY <2>3, <2>6, <2>8 DEF IsRow
  <2> QED BY <2>1, <2>7, <2>9 DEF PostbackOK
<1>5. ASSUME NEW r \in Forms, ApplyPreferences(r) PROVE FALSE
  <2>1. PICK C \in SUBSET Extras, again \in SUBSET DOMAIN rows :
            rows' = Saved([j \in DOMAIN rows \ (req[r].doomed \union again) |-> rows[j]],
                          {NewRow(nextId + k - 1, SetToSeq(C)[k], ExtraPrice, None) : k \in DOMAIN SetToSeq(C)})
    BY <1>5 DEF ApplyPreferences
  <2> DEFINE R == [j \in DOMAIN rows \ (req[r].doomed \union again) |-> rows[j]]
             new(k) == NewRow(nextId + k - 1, SetToSeq(C)[k], ExtraPrice, None)
             S == {new(k) : k \in DOMAIN SetToSeq(C)}
  <2>2. \A k \in DOMAIN SetToSeq(C) : new(k).id = nextId + k - 1 /\ k \in Nat /\ 1 <= k
    <3>1. IsFiniteSet(C)
      BY LedgerAssumption, FS_Subset
    <3>2. DOMAIN SetToSeq(C) = 1..Len(SetToSeq(C)) /\ Len(SetToSeq(C)) \in Nat
      BY <3>1, SetToSeqFacts
    <3>3. \A k \in DOMAIN SetToSeq(C) : new(k).id = nextId + k - 1
      BY DEF NewRow
    <3> HIDE DEF new
    <3> QED BY <3>2, <3>3
  <2>3. IsSaved(rows', R, S)
    BY <2>1, SavedFacts
  <2>4. rows'[i] \in S /\ rows'[i].id = i
    BY <2>3 DEF IsSaved
  <2> HIDE DEF new
  <2>5. PICK k \in DOMAIN SetToSeq(C) : rows'[i] = new(k)
    BY <2>4
  <2>6. i = nextId + k - 1 /\ k \in Nat /\ 1 <= k
    BY <2>2, <2>4, <2>5
  <2> QED BY <1>2, <2>6
<1>6. \/ UNCHANGED rows
      \/ \E r \in Pages : EnsureAdmission(r)
      \/ \E r \in Postbacks : CommitPayment(r)
      \/ \E r \in Forms : ApplyPreferences(r)
  <2>1. \A r \in Pages : Page(r) \/ Pay(r) => UNCHANGED rows \/ EnsureAdmission(r)
    BY DEF Page, Pay, MakeIdentifier, LookForAdmission, ShowTotal
  <2>2. \A r \in Postbacks : LogPostback(r) \/ Postback(r) => UNCHANGED rows \/ CommitPayment(r)
    BY DEF Postback, LogPostback, LockUser, RefuseRepeated, Bank, RefuseEntry, LinkRow,
           RefuseTotal, Fail
  <2>3. \A r \in Forms : Form(r) => UNCHANGED rows \/ ApplyPreferences(r)
    BY DEF Form, CheckUnpaid, ClearExtras
  <2>4. \A r \in Requests : Crash(r) => UNCHANGED rows
    BY DEF Crash
  <2>5. ChangePrice \/ UNCHANGED vars => UNCHANGED rows
    BY DEF ChangePrice, vars
  <2> QED BY <2>1, <2>2, <2>3, <2>4, <2>5 DEF Next
<1> QED BY <1>3, <1>4, <1>5, <1>6

\* A row that a payment has paid is not marked again by another, and loses its
\* mark only to a page with an old copy of the admission.
THEOREM PaidRowsStayPaid == Spec => PaidOnce
<1> DEFINE P == \A i \in DOMAIN rows \intersect DOMAIN rows' :
           rows[i].paid_in # None /\ rows'[i] # rows[i] =>
               \E r \in Pages :
                   /\ req[r].pc = "ensure" /\ req'[r].pc = "total"
                   /\ \E x \in req[r].seen : /\ x.id = i /\ x.paid_in = None /\ x.amount # price
                                            /\ rows'[i] = [x EXCEPT !.amount = price]
<1>1. LedgerInv /\ [Next]_vars => [P]_vars
  BY PaidStep
<1> QED BY <1>1, LedgerInvariant, PTL DEF Spec, PaidOnce

-----------------------------------------------------------------------------
(* Sums over finite sets, and the induction they rest on.                   *)

\* Induction, about the numbers in a set.
LEMMA Induction ==
    ASSUME NEW n \in Nat, NEW T, 0 \in T, \A i \in 1..n : i - 1 \in T => i \in T
    PROVE  \A i \in 0..n : i \in T
<1> SUFFICES ASSUME NEW j \in 0..n, j \notin T PROVE FALSE
  OBVIOUS
<1> DEFINE B == {i \in Nat : i \in 0..n /\ i \notin T}
<1>1. PICK i \in B : \A m \in B : i <= m
  <2>1. B \in SUBSET Nat /\ B # {}
    OBVIOUS
  <2> HIDE DEF B
  <2> QED BY <2>1, LeastId
<1>2. i \in 1..n /\ i - 1 \notin B /\ i - 1 \in 0..n
  BY <1>1
<1> QED BY <1>1, <1>2


AnyOf(T) == CHOOSE x \in T : TRUE

\* The recursive function behind a sum.
SumsUp(G, F, S) ==
    G = [T \in SUBSET S |-> IF T = {} THEN 0 ELSE G[T \ {AnyOf(T)}] + F[AnyOf(T)]]

AtMost(S, k) == {T \in SUBSET S : Cardinality(T) <= k}

LEMMA Smaller ==
    ASSUME NEW S, IsFiniteSet(S), NEW T \in SUBSET S, T # {}
    PROVE  /\ AnyOf(T) \in T /\ T \ {AnyOf(T)} \in SUBSET S
           /\ Cardinality(T) \in Nat /\ 0 < Cardinality(T)
           /\ Cardinality(T \ {AnyOf(T)}) = Cardinality(T) - 1
<1>1. AnyOf(T) \in T
  BY DEF AnyOf
<1>2. IsFiniteSet(T)
  BY FS_Subset
<1>3. Cardinality(T \ {AnyOf(T)}) = Cardinality(T) - 1
  BY <1>1, <1>2, FS_RemoveElement
<1>4. Cardinality(T) \in Nat /\ Cardinality(T) # 0
  BY <1>2, FS_CardinalityType, FS_EmptySet
<1> QED BY <1>1, <1>3, <1>4

LEMMA SumTyped ==
    ASSUME NEW S, IsFiniteSet(S), NEW F, \A x \in S : F[x] \in Int, NEW G, SumsUp(G, F, S)
    PROVE  \A T \in SUBSET S : G[T] \in Int
<1> DEFINE n == Cardinality(S)
           B == {k \in 0..n : \A T \in AtMost(S, k) : G[T] \in Int}
<1>1. n \in Nat
  BY FS_CardinalityType
<1>2. \A T \in SUBSET S : G[T] = IF T = {} THEN 0 ELSE G[T \ {AnyOf(T)}] + F[AnyOf(T)]
  BY DEF SumsUp
<1>3. 0 \in B
  <2> SUFFICES ASSUME NEW T \in AtMost(S, 0) PROVE G[T] \in Int
    BY <1>1
  <2>1. T \in SUBSET S /\ Cardinality(T) <= 0
    BY DEF AtMost
  <2>2. T = {}
    <3> SUFFICES ASSUME T # {} PROVE FALSE
      OBVIOUS
    <3>1. Cardinality(T) \in Nat /\ 0 < Cardinality(T)
      BY <2>1, Smaller
    <3> QED BY <2>1, <3>1
  <2>3. G[T] = 0
    BY <1>2, <2>1, <2>2
  <2> QED BY <2>3
<1>4. ASSUME NEW k \in 1..n, k - 1 \in B PROVE k \in B
  <2> SUFFICES ASSUME NEW T \in AtMost(S, k) PROVE G[T] \in Int
    BY <1>1
  <2>1. CASE T = {}
    <3>1. {} \in SUBSET S
      OBVIOUS
    <3>2. G[{}] = 0
      BY <1>2, <3>1
    <3> QED BY <2>1, <3>2
  <2>2. CASE T # {}
    <3> DEFINE x == AnyOf(T)
    <3>1. T \in SUBSET S /\ Cardinality(T) <= k
      BY DEF AtMost
    <3>2. x \in S /\ T \ {x} \in SUBSET S /\ Cardinality(T \ {x}) <= k - 1
      BY <2>2, <3>1, Smaller
    <3>3. G[T \ {x}] \in Int
      BY <1>4, <3>2 DEF AtMost
    <3>4. G[T] = G[T \ {x}] + F[x]
      BY <1>2, <2>2, <3>1
    <3> HIDE DEF x
    <3> QED BY <3>2, <3>3, <3>4
  <2> QED BY <2>1, <2>2
<1> HIDE DEF B
<1>5. \A k \in 0..n : k \in B
  BY <1>1, <1>3, <1>4, Induction
<1>6. n \in B
  BY <1>1, <1>5
<1> SUFFICES ASSUME NEW T \in SUBSET S PROVE G[T] \in Int
  OBVIOUS
<1>7. Cardinality(T) <= n
  BY FS_Subset
<1> QED BY <1>6, <1>7 DEF B, AtMost

HasSum(F, S) == \E G : SumsUp(G, F, S)

LEMMA SumExists ==
    ASSUME NEW S, IsFiniteSet(S), NEW F
    PROVE  HasSum(F, S)
<1> DEFINE n == Cardinality(S)
           Term(G, T) == IF T = {} THEN 0 ELSE G[T \ {AnyOf(T)}] + F[AnyOf(T)]
           Sums(k, G) == G = [T \in AtMost(S, k) |-> Term(G, T)]
           Has(k) == \E G : Sums(k, G)
           B == {k \in 0..n : Has(k)}
<1>1. n \in Nat
  BY FS_CardinalityType
<1>2. 0 \in B
  <2> DEFINE G == [T \in AtMost(S, 0) |-> 0]
  <2>1. ASSUME NEW T \in AtMost(S, 0), T # {} PROVE FALSE
    <3>1. T \in SUBSET S /\ Cardinality(T) <= 0
      BY DEF AtMost
    <3>2. Cardinality(T) \in Nat /\ 0 < Cardinality(T)
      BY <2>1, <3>1, Smaller
    <3> QED BY <3>1, <3>2
  <2>2. Sums(0, G)
    BY <2>1
  <2>3. Has(0)
    <3> HIDE DEF Sums
    <3> QED BY <2>2
  <2> HIDE DEF Has
  <2> QED BY <1>1, <2>3
<1>3. ASSUME NEW k \in 1..n, k - 1 \in B PROVE k \in B
  <2>1. PICK G : Sums(k - 1, G)
    <3> HIDE DEF Sums
    <3> QED BY <1>3
  <2> DEFINE H == [T \in AtMost(S, k) |-> Term(G, T)]
  <2>2. \A T \in AtMost(S, k - 1) : T \in AtMost(S, k) /\ G[T] = Term(G, T)
    <3> TAKE T \in AtMost(S, k - 1)
    <3>1. T \in SUBSET S /\ Cardinality(T) \in Nat /\ Cardinality(T) <= k - 1
      BY FS_Subset, FS_CardinalityType DEF AtMost
    <3>2. T \in AtMost(S, k)
      BY <1>1, <3>1 DEF AtMost
    <3> QED BY <2>1, <3>2
  <2>3. \A T \in AtMost(S, k - 1) : H[T] = G[T]
    BY <2>2
  <2>4. \A T \in AtMost(S, k) : Term(H, T) = Term(G, T)
    <3> TAKE T \in AtMost(S, k)
    <3> SUFFICES ASSUME T # {} PROVE H[T \ {AnyOf(T)}] = G[T \ {AnyOf(T)}]
      <4> HIDE DEF H
      <4> QED OBVIOUS
    <3>1. T \in SUBSET S /\ Cardinality(T) <= k
      BY DEF AtMost
    <3>2. T \ {AnyOf(T)} \in AtMost(S, k - 1)
      BY <3>1, Smaller DEF AtMost
    <3> QED BY <2>3, <3>2
  <2>5. Sums(k, H)
    BY <2>4
  <2>6. Has(k)
    <3> HIDE DEF Sums, H
    <3> QED BY <2>5
  <2> HIDE DEF Has
  <2> QED BY <1>1, <2>6
<1> HIDE DEF B
<1>4. \A k \in 0..n : k \in B
  BY <1>1, <1>2, <1>3, Induction
<1>5. PICK G : Sums(n, G)
  <2>1. n \in B
    BY <1>1, <1>4
  <2> HIDE DEF Sums
  <2> QED BY <2>1 DEF B
<1>6. AtMost(S, n) = SUBSET S
  BY FS_Subset DEF AtMost
<1>7. SumsUp(G, F, S)
  BY <1>5, <1>6 DEF SumsUp
<1> QED BY <1>7 DEF HasSum

\* A sum may start with any of its terms.
StartsAnywhere(G, F, S) == \A T \in SUBSET S : \A x \in T : G[T] = G[T \ {x}] + F[x]

LEMMA AnyTerm ==
    ASSUME NEW S, IsFiniteSet(S), NEW F, \A x \in S : F[x] \in Int, NEW G, SumsUp(G, F, S)
    PROVE  StartsAnywhere(G, F, S)
<1> DEFINE n == Cardinality(S)
           FromAny(T) == \A x \in T : G[T] = G[T \ {x}] + F[x]
           B == {k \in 0..n : \A T \in AtMost(S, k) : FromAny(T)}
<1>1. n \in Nat
  BY FS_CardinalityType
<1>2. \A T \in SUBSET S : T # {} => G[T] = G[T \ {AnyOf(T)}] + F[AnyOf(T)]
  BY DEF SumsUp
<1>3. \A T \in SUBSET S : G[T] \in Int
  BY SumTyped
<1>4. 0 \in B
  <2> SUFFICES ASSUME NEW T \in AtMost(S, 0) PROVE FromAny(T)
    BY <1>1
  <2>1. T \in SUBSET S /\ Cardinality(T) <= 0
    BY DEF AtMost
  <2>2. T = {}
    <3> SUFFICES ASSUME T # {} PROVE FALSE
      OBVIOUS
    <3>1. Cardinality(T) \in Nat /\ 0 < Cardinality(T)
      BY <2>1, Smaller
    <3> QED BY <2>1, <3>1
  <2> QED BY <2>2
<1>5. ASSUME NEW k \in 1..n, k - 1 \in B PROVE k \in B
  <2> SUFFICES ASSUME NEW T \in AtMost(S, k), NEW x \in T PROVE G[T] = G[T \ {x}] + F[x]
    BY <1>1
  <2> DEFINE a == AnyOf(T)
  <2>1. T \in SUBSET S /\ Cardinality(T) <= k /\ T # {}
    BY DEF AtMost
  <2>2. a \in T /\ Cardinality(T \ {a}) <= k - 1 /\ G[T] = G[T \ {a}] + F[a]
    BY <1>2, <2>1, Smaller
  <2> HIDE DEF a
  <2>3. CASE x = a
    BY <2>2, <2>3
  <2>4. CASE x # a
    <3>1. T \ {a} \in AtMost(S, k - 1) /\ x \in T \ {a}
      BY <2>1, <2>2, <2>4 DEF AtMost
    <3>2. IsFiniteSet(T)
      BY <2>1, FS_Subset
    <3>3. Cardinality(T \ {x}) = Cardinality(T \ {a})
      BY <2>2, <3>2, FS_RemoveElement
    <3>4. T \ {x} \in AtMost(S, k - 1) /\ a \in T \ {x}
      BY <2>1, <2>2, <2>4, <3>3 DEF AtMost
    <3>5. G[T \ {a}] = G[(T \ {a}) \ {x}] + F[x]
      BY <1>5, <3>1
    <3>6. G[T \ {x}] = G[(T \ {x}) \ {a}] + F[a]
      BY <1>5, <3>4
    <3>7. (T \ {a}) \ {x} = (T \ {x}) \ {a}
      OBVIOUS
    <3>8. G[(T \ {x}) \ {a}] \in Int
      BY <1>3, <2>1
    <3>9. F[x] \in Int /\ F[a] \in Int
      BY <2>1, <2>2
    <3> DEFINE u == G[(T \ {x}) \ {a}]
    <3>10. G[T] = (u + F[x]) + F[a] /\ G[T \ {x}] = u + F[a] /\ u \in Int
      BY <2>2, <3>5, <3>6, <3>7, <3>8
    <3> HIDE DEF u
    <3> QED BY ONLY <3>9, <3>10
  <2> QED BY <2>3, <2>4
<1> HIDE DEF B
<1>6. \A k \in 0..n : k \in B
  BY <1>1, <1>4, <1>5, Induction
<1>7. n \in B
  BY <1>1, <1>6
<1> SUFFICES ASSUME NEW T \in SUBSET S PROVE FromAny(T)
  BY DEF StartsAnywhere
<1>8. Cardinality(T) <= n
  BY FS_Subset
<1> QED BY <1>7, <1>8 DEF B, AtMost

\* Sums over sets whose elements correspond are the same.
LEMMA SameSums ==
    ASSUME NEW S, IsFiniteSet(S), NEW F, \A x \in S : F[x] \in Int, NEW G, SumsUp(G, F, S),
           NEW R, IsFiniteSet(R), NEW E, \A y \in R : E[y] \in Int, NEW H, SumsUp(H, E, R),
           NEW h, \A x \in S : h[x] \in R /\ E[h[x]] = F[x],
           \A x, y \in S : h[x] = h[y] => x = y
    PROVE  \A T \in SUBSET S : H[{h[x] : x \in T}] = G[T]
<1> DEFINE n == Cardinality(S)
           Image(T) == {h[x] : x \in T}
           B == {k \in 0..n : \A T \in AtMost(S, k) : H[Image(T)] = G[T]}
<1>1. n \in Nat
  BY FS_CardinalityType
<1>2. \A T \in SUBSET S : G[T] = IF T = {} THEN 0 ELSE G[T \ {AnyOf(T)}] + F[AnyOf(T)]
  BY DEF SumsUp
<1>3. \A T \in SUBSET R : \A y \in T : H[T] = H[T \ {y}] + E[y]
  <2>1. StartsAnywhere(H, E, R)
    BY AnyTerm
  <2> QED BY <2>1 DEF StartsAnywhere
<1>4. 0 \in B
  <2> SUFFICES ASSUME NEW T \in AtMost(S, 0) PROVE H[Image(T)] = G[T]
    BY <1>1
  <2>1. T \in SUBSET S /\ Cardinality(T) <= 0
    BY DEF AtMost
  <2>2. T = {}
    <3> SUFFICES ASSUME T # {} PROVE FALSE
      OBVIOUS
    <3>1. Cardinality(T) \in Nat /\ 0 < Cardinality(T)
      BY <2>1, Smaller
    <3> QED BY <2>1, <3>1
  <2>3. Image(T) = {}
    BY <2>2
  <2>4. H[{}] = 0
    <3>1. {} \in SUBSET R
      OBVIOUS
    <3> QED BY <3>1 DEF SumsUp
  <2>5. G[T] = 0
    BY <1>2, <2>1, <2>2
  <2> QED BY <2>3, <2>4, <2>5
<1>5. ASSUME NEW k \in 1..n, k - 1 \in B PROVE k \in B
  <2> SUFFICES ASSUME NEW T \in AtMost(S, k) PROVE H[Image(T)] = G[T]
    BY <1>1
  <2>1. T \in SUBSET S /\ Cardinality(T) <= k
    BY DEF AtMost
  <2>2. CASE T = {}
    <3>1. G[T] = 0 /\ Image(T) = {}
      BY <1>2, <2>1, <2>2
    <3>2. {} \in SUBSET R
      OBVIOUS
    <3>3. H[{}] = 0
      BY <3>2 DEF SumsUp
    <3> QED BY <3>1, <3>3
  <2>3. CASE T # {}
    <3> DEFINE a == AnyOf(T)
    <3>0. a \in T /\ Cardinality(T) \in Nat /\ Cardinality(T \ {a}) = Cardinality(T) - 1
      BY <2>1, <2>3, Smaller
    <3>9. G[T] = G[T \ {a}] + F[a]
      BY <1>2, <2>1, <2>3
    <3> HIDE DEF a
    <3>1. a \in T /\ Cardinality(T \ {a}) <= k - 1 /\ G[T] = G[T \ {a}] + F[a]
      BY <2>1, <3>0, <3>9
    <3>2. T \ {a} \in AtMost(S, k - 1)
      BY <2>1, <3>1 DEF AtMost
    <3>3. H[Image(T \ {a})] = G[T \ {a}]
      <4> HIDE DEF Image
      <4> QED BY <1>5, <3>2
    <3>4. h[a] \in Image(T) /\ Image(T) \in SUBSET R /\ E[h[a]] = F[a]
      BY <2>1, <3>1
    <3>5. Image(T \ {a}) = Image(T) \ {h[a]}
      BY <2>1, <3>1
    <3> HIDE DEF Image
    <3>6. H[Image(T)] = H[Image(T) \ {h[a]}] + E[h[a]]
      BY <1>3, <3>4
    <3> QED BY <3>1, <3>3, <3>4, <3>5, <3>6
  <2> QED BY <2>2, <2>3
<1> HIDE DEF B
<1>6. \A k \in 0..n : k \in B
  BY <1>1, <1>4, <1>5, Induction
<1>7. n \in B
  BY <1>1, <1>6
<1> SUFFICES ASSUME NEW T \in SUBSET S PROVE H[Image(T)] = G[T]
  OBVIOUS
<1>8. Cardinality(T) <= n
  BY FS_Subset
<1> HIDE DEF Image
<1> QED BY <1>7, <1>8 DEF B, AtMost

\* The sum of F over S.
SumOf(F, S) == (CHOOSE G : SumsUp(G, F, S))[S]

LEMMA SumOfAny ==
    ASSUME NEW S, IsFiniteSet(S), NEW F, \A x \in S : F[x] \in Int, NEW G, SumsUp(G, F, S)
    PROVE  SumOf(F, S) = G[S] /\ G[S] \in Int
<1> DEFINE H == CHOOSE K : SumsUp(K, F, S)
           h == [x \in S |-> x]
<1>1. SumsUp(H, F, S)
  BY DEF SumsUp
<1>2. SumOf(F, S) = H[S]
  BY DEF SumOf
<1> HIDE DEF H
<1>3. /\ \A x \in S : h[x] \in S /\ F[h[x]] = F[x]
      /\ \A x, y \in S : h[x] = h[y] => x = y
  OBVIOUS
<1>4. {h[x] : x \in S} = S
  OBVIOUS
<1> HIDE DEF h
<1>5. \A T \in SUBSET S : H[{h[x] : x \in T}] = G[T]
  BY <1>1, <1>3, SameSums
<1>6. S \in SUBSET S
  OBVIOUS
<1>7. H[S] = G[S]
  BY <1>4, <1>5, <1>6
<1>8. \A T \in SUBSET S : G[T] \in Int
  BY SumTyped
<1> QED BY <1>2, <1>6, <1>7, <1>8

LEMMA SumOfEmpty == ASSUME NEW F PROVE SumOf(F, {}) = 0
<1>1. IsFiniteSet({}) /\ \A x \in {} : F[x] \in Int
  BY FS_EmptySet
<1> DEFINE G == [T \in SUBSET {} |-> 0]
<1>2. SumsUp(G, F, {})
  BY DEF SumsUp
<1>3. G[{}] = 0
  OBVIOUS
<1> HIDE DEF G
<1>4. SumOf(F, {}) = G[{}]
  BY <1>1, <1>2, SumOfAny
<1> QED BY <1>3, <1>4

LEMMA SumOfTyped ==
    ASSUME NEW S, IsFiniteSet(S), NEW F, \A x \in S : F[x] \in Int
    PROVE  SumOf(F, S) \in Int
<1>1. PICK G : SumsUp(G, F, S)
  BY SumExists DEF HasSum
<1> QED BY <1>1, SumOfAny

\* Sums over sets whose elements correspond, and a sum with one more term.
LEMMA SumOfImage ==
    ASSUME NEW S, IsFiniteSet(S), NEW F, \A x \in S : F[x] \in Int,
           NEW R, NEW E, NEW h, R = {h[x] : x \in S},
           \A x \in S : E[h[x]] = F[x],
           \A x, y \in S : h[x] = h[y] => x = y
    PROVE  SumOf(E, R) = SumOf(F, S)
<1>1. IsFiniteSet(R)
  <2> DEFINE k == [x \in S |-> h[x]]
  <2>1. k \in Surjection(S, R)
    BY DEF Surjection
  <2> HIDE DEF k
  <2> QED BY <2>1, FS_Surjection
<1>2. PICK G : SumsUp(G, F, S)
  BY SumExists DEF HasSum
<1>3. PICK H : SumsUp(H, E, R)
  BY <1>1, SumExists DEF HasSum
<1>4. (\A y \in R : E[y] \in Int) /\ \A x \in S : h[x] \in R
  OBVIOUS
<1>5. \A T \in SUBSET S : H[{h[x] : x \in T}] = G[T]
  BY <1>1, <1>2, <1>3, <1>4, SameSums
<1>6. S \in SUBSET S
  OBVIOUS
<1>7. H[R] = G[S]
  BY <1>5, <1>6
<1>8. SumOf(F, S) = G[S]
  BY <1>2, SumOfAny
<1>9. SumOf(E, R) = H[R]
  BY <1>1, <1>3, <1>4, SumOfAny
<1> QED BY <1>7, <1>8, <1>9

LEMMA SumOfAdd ==
    ASSUME NEW S, IsFiniteSet(S), NEW a, a \notin S, NEW R, R = S \union {a},
           NEW F, \A x \in S : F[x] \in Int,
           NEW E, E[a] \in Int, \A x \in S : E[x] = F[x]
    PROVE  SumOf(E, R) = SumOf(F, S) + E[a]
<1>0. IsFiniteSet(S) /\ \A x \in S : F[x] \in Int
  OBVIOUS
<1>1. IsFiniteSet(R)
  BY FS_AddElement
<1>2. \A y \in R : E[y] \in Int
  OBVIOUS
<1>3. PICK G : SumsUp(G, F, S)
  BY SumExists DEF HasSum
<1>4. PICK H : SumsUp(H, E, R)
  BY <1>1, SumExists DEF HasSum
<1>5. H[R] = H[R \ {a}] + E[a]
  <2>1. StartsAnywhere(H, E, R)
    BY <1>1, <1>2, <1>4, AnyTerm
  <2>2. R \in SUBSET R /\ a \in R
    OBVIOUS
  <2> QED BY <2>1, <2>2 DEF StartsAnywhere
<1> DEFINE h == [x \in S |-> x]
<1>6. /\ \A x \in S : h[x] \in R /\ E[h[x]] = F[x]
      /\ \A x, y \in S : h[x] = h[y] => x = y
      /\ {h[x] : x \in S} = S
  OBVIOUS
<1> HIDE DEF h
<1>7. \A T \in SUBSET S : H[{h[x] : x \in T}] = G[T]
  BY ONLY <1>0, <1>1, <1>2, <1>3, <1>4, <1>6, SameSums
<1>8. H[S] = G[S]
  <2>1. S \in SUBSET S
    OBVIOUS
  <2> QED BY <1>6, <1>7, <2>1
<1>9. R \ {a} = S
  OBVIOUS
<1>10. SumOf(F, S) = G[S] /\ G[S] \in Int
  BY <1>3, SumOfAny
<1>11. SumOf(E, R) = H[R]
  BY <1>1, <1>2, <1>4, SumOfAny
<1> DEFINE g == G[S]
<1>12. SumOf(E, R) = g + E[a] /\ SumOf(F, S) = g /\ g \in Int /\ E[a] \in Int
  BY <1>5, <1>8, <1>9, <1>10, <1>11
<1> HIDE DEF g
<1> QED BY ONLY <1>12

-----------------------------------------------------------------------------
(* The amounts.                                                             *)

\* Finitely many rows, each once.
Distinct(S) == IsFiniteSet(S) /\ \A x, y \in S : x.id = y.id => x = y

\* All amounts are numbers, who has read rows has each of them once, and
\* nothing is marked as paid but by a payment on record.
AmountsOK ==
    /\ price \in Int
    /\ IsFiniteSet(DOMAIN rows)
    /\ \A x \in Known : x.amount \in Int /\ (x.paid_in = None \/ x.paid_in \in PaymentIds)
    /\ \A c \in charged : c.amount \in Int
    /\ \A r \in Requests : req[r].amount \in Int /\ Distinct(req[r].seen)

LEMMA TotalsAreSums ==
    ASSUME NEW S, IsFiniteSet(S), NEW t, \A i \in S : t[i].amount \in Int
    PROVE  FoldSet(LAMBDA i, n : n + t[i].amount, 0, S) = SumOf([i \in S |-> t[i].amount], S)
<1> DEFINE F == [i \in S |-> t[i].amount]
           Is(G) == G = [T \in SUBSET S |->
                            IF T = {} THEN 0 ELSE G[T \ {AnyOf(T)}] + t[AnyOf(T)].amount]
           G == CHOOSE G : Is(G)
<1>2. \A x \in S : F[x] \in Int
  OBVIOUS
<1>3. ASSUME NEW H PROVE Is(H) <=> SumsUp(H, F, S)
  <2>1. \A T \in SUBSET S : T # {} => F[AnyOf(T)] = t[AnyOf(T)].amount
    BY DEF AnyOf
  <2> HIDE DEF F
  <2> QED BY <2>1 DEF SumsUp
<1>4. FoldSet(LAMBDA i, n : n + t[i].amount, 0, S) = G[S]
  BY DEF FoldSet, MapThenFoldSet, AnyOf
<1> HIDE DEF F
<1>5. PICK H : SumsUp(H, F, S)
  <2>1. HasSum(F, S)
    BY SumExists
  <2> QED BY <2>1 DEF HasSum
<1>6. Is(G)
  <2>1. \E K : Is(K)
    BY <1>3, <1>5
  <2> QED BY <2>1
<1>7. SumsUp(G, F, S)
  BY <1>3, <1>6
<1> HIDE DEF G
<1>8. SumOf(F, S) = G[S]
  BY <1>2, <1>7, SumOfAny
<1> QED BY <1>4, <1>8 DEF F

\* The same for the rows that a postback has linked.
LEMMA LinkedTotalIsSum ==
    ASSUME NEW r, IsFiniteSet(req[r].linked), \A x \in req[r].linked : x.amount \in Int
    PROVE  LinkedTotal(r) = SumOf([x \in req[r].linked |-> x.amount], req[r].linked)
<1> DEFINE S == req[r].linked
           F == [x \in S |-> x.amount]
           Is(G) == G = [T \in SUBSET S |->
                            IF T = {} THEN 0 ELSE G[T \ {AnyOf(T)}] + AnyOf(T).amount]
           G == CHOOSE G : Is(G)
<1>2. IsFiniteSet(S) /\ \A x \in S : F[x] \in Int
  OBVIOUS
<1>3. ASSUME NEW H PROVE Is(H) <=> SumsUp(H, F, S)
  <2>1. \A T \in SUBSET S : T # {} => F[AnyOf(T)] = AnyOf(T).amount
    BY DEF AnyOf
  <2> HIDE DEF F, S
  <2> QED BY <2>1 DEF SumsUp
<1>4. LinkedTotal(r) = G[S]
  BY DEF LinkedTotal, FoldSet, MapThenFoldSet, AnyOf
<1>0. SumOf([x \in req[r].linked |-> x.amount], req[r].linked) = SumOf(F, S)
  OBVIOUS
<1> HIDE DEF F, S
<1>5. PICK H : SumsUp(H, F, S)
  <2>1. HasSum(F, S)
    BY <1>2, SumExists
  <2> QED BY <2>1 DEF HasSum
<1>6. Is(G)
  <2>1. \E K : Is(K)
    BY <1>3, <1>5
  <2> QED BY <2>1
<1>7. SumsUp(G, F, S)
  BY <1>3, <1>6
<1> HIDE DEF G
<1>8. SumOf(F, S) = G[S]
  BY <1>2, <1>7, SumOfAny
<1> QED BY <1>0, <1>4, <1>8

LEMMA TotalTyped ==
    ASSUME NEW S, IsFiniteSet(S), \A i \in S : rows[i].amount \in Int
    PROVE  Total(S) \in Int
<1> DEFINE F == [i \in S |-> rows[i].amount]
<1>1. Total(S) = FoldSet(LAMBDA i, n : n + rows[i].amount, 0, S)
  BY DEF Total, FoldSet, MapThenFoldSet
<1>2. FoldSet(LAMBDA i, n : n + rows[i].amount, 0, S) = SumOf(F, S)
  BY TotalsAreSums
<1>3. \A x \in S : F[x] \in Int
  OBVIOUS
<1> HIDE DEF F
<1>4. SumOf(F, S) \in Int
  BY <1>3, SumOfTyped
<1> QED BY <1>1, <1>2, <1>4

LEMMA DueTyped ==
    ASSUME AmountsOK
    PROVE  amount_due \in Int
<1>1. \A i \in DOMAIN rows : rows[i].amount \in Int
  BY RowsKnown DEF AmountsOK
<1>2. PaymentIds \subseteq DOMAIN rows /\ IsFiniteSet(DOMAIN rows)
  BY DEF PaymentIds, AmountsOK
<1>3. IsFiniteSet(PaymentIds) /\ IsFiniteSet(DOMAIN rows \ PaymentIds)
  BY <1>2, FS_Subset
<1>4. Total(PaymentIds) \in Int /\ Total(DOMAIN rows \ PaymentIds) \in Int
  BY <1>1, <1>2, <1>3, TotalTyped
<1> QED BY <1>4 DEF amount_due

LEMMA DistinctFew == Distinct({}) /\ \A x : Distinct({x})
BY FS_EmptySet, FS_Singleton DEF Distinct

LEMMA DistinctRows ==
    ASSUME KnownOK, IsFiniteSet(DOMAIN rows), NEW T, T \subseteq DOMAIN rows
    PROVE  Distinct({rows[i] : i \in T})
<1> DEFINE S == {rows[i] : i \in T}
           g == [i \in T |-> rows[i]]
<1>1. IsFiniteSet(T)
  BY FS_Subset
<1>2. g \in Surjection(T, S)
  BY DEF Surjection
<1>3. \A x, y \in S : x.id = y.id => x = y
  BY DEF KnownOK
<1> HIDE DEF S, g
<1>4. IsFiniteSet(S)
  BY <1>1, <1>2, FS_Surjection
<1>5. Distinct(S)
  BY <1>3, <1>4 DEF Distinct
<1> QED BY <1>5 DEF S

\* A step that writes no rows: what is read is a row, or was read before.
LEMMA QuietAmounts ==
    ASSUME LedgerInv, AmountsOK, NEW r \in Requests, NEW f, IsRequest(f), Go(r, f),
           rows' = rows, price' \in Int, \A c \in charged' : c.amount \in Int,
           f.amount \in Int, Distinct(f.seen),
           f.seen \subseteq req[r].seen \union {rows[i] : i \in DOMAIN rows}
    PROVE  AmountsOK'
<1>1. TypeOK
  BY DEF LedgerInv
<1>2. req'[r] = f /\ \A q \in Requests : q # r => req'[q] = req[q]
  BY <1>1, GoFacts
<1>3. Known' \subseteq Known /\ PaymentIds' = PaymentIds
  BY <1>2 DEF Known, PaymentIds
<1>4. \A x \in Known' : x.amount \in Int /\ (x.paid_in = None \/ x.paid_in \in PaymentIds')
  BY <1>3 DEF AmountsOK
<1>5. \A q \in Requests : req'[q].amount \in Int /\ Distinct(req'[q].seen)
  BY <1>2 DEF AmountsOK
<1>6. \A q \in Requests : Distinct(req[q].seen)' <=> Distinct(req'[q].seen)
  BY DEF Distinct
<1> QED BY <1>4, <1>5, <1>6 DEF AmountsOK

\* A step that writes rows with amounts, and no other row over a payment.
LEMMA WriteAmounts ==
    ASSUME LedgerInv, AmountsOK, NEW r \in Requests, NEW f, IsRequest(f), Go(r, f),
           NEW R, NEW S, rows' = Saved(R, S), IsFiniteSet(S),
           DOMAIN R \subseteq DOMAIN rows, PaymentIds \subseteq DOMAIN R,
           \A i \in DOMAIN R : R[i] = rows[i],
           \A y \in S : \A i \in PaymentIds : y.id = i => y.item = Payment,
           \A y \in S : y.amount \in Int,
           \A y \in S : y.paid_in = None \/ y.paid_in \in PaymentIds \/ \E z \in S : z.item = Payment /\ z.id = y.paid_in,
           \A y, z \in S : y.id = z.id => y.item = z.item,
           UNCHANGED <<price, charged>>,
           f.amount = req[r].amount, f.seen \in {{}, req[r].seen}
    PROVE  PaymentIds \subseteq PaymentIds' /\ AmountsOK'
<1>1. TypeOK
  BY DEF LedgerInv
<1>2. req'[r] = f /\ \A q \in Requests : q # r => req'[q] = req[q]
  BY <1>1, GoFacts
<1>3. /\ DOMAIN rows' = DOMAIN R \union {x.id : x \in S}
      /\ \A i \in DOMAIN rows' : \/ rows'[i] \in S /\ rows'[i].id = i
                                 \/ i \in DOMAIN R /\ rows'[i] = R[i] /\ \A x \in S : x.id # i
  <2>1. IsSaved(rows', R, S)
    BY SavedFacts
  <2> QED BY <2>1 DEF IsSaved
<1>4. PaymentIds \subseteq PaymentIds'
  BY <1>3 DEF PaymentIds
<1>5. \A z \in S : z.item = Payment => z.id \in PaymentIds'
  <2> SUFFICES ASSUME NEW z \in S, z.item = Payment PROVE z.id \in PaymentIds'
    OBVIOUS
  <2>1. z.id \in DOMAIN rows'
    BY <1>3
  <2>2. rows'[z.id] \in S /\ rows'[z.id].id = z.id
    BY <1>3, <2>1
  <2> QED BY <2>1, <2>2 DEF PaymentIds
<1>6. \A x \in Known' : x \in Known \/ x \in S
  <2>1. \A i \in DOMAIN rows' : rows'[i] \in S \/ \E j \in DOMAIN rows : rows'[i] = rows[j]
    BY <1>3
  <2>2. \A q \in Requests : req'[q].seen \subseteq req[q].seen
    BY <1>2
  <2> QED BY <2>1, <2>2 DEF Known
<1>7. \A x \in Known' : x.amount \in Int /\ (x.paid_in = None \/ x.paid_in \in PaymentIds')
  BY <1>4, <1>5, <1>6 DEF AmountsOK
<1>8. IsFiniteSet(DOMAIN rows')
  <2> DEFINE ids == {x.id : x \in S}
             g == [x \in S |-> x.id]
  <2>1. g \in Surjection(S, ids)
    BY DEF Surjection
  <2>2. IsFiniteSet(DOMAIN R)
    BY FS_Subset DEF AmountsOK
  <2> HIDE DEF g, ids
  <2>3. IsFiniteSet(ids)
    BY <2>1, FS_Surjection
  <2>4. IsFiniteSet(DOMAIN R \union ids)
    BY <2>2, <2>3, FS_Union
  <2> QED BY <1>3, <2>4 DEF ids
<1>9. \A q \in Requests : req'[q].amount \in Int /\ Distinct(req'[q].seen)
  BY <1>2, DistinctFew DEF AmountsOK
<1>10. \A q \in Requests : Distinct(req[q].seen)' <=> Distinct(req'[q].seen)
  BY DEF Distinct
<1>11. price' \in Int /\ \A c \in charged' : c.amount \in Int
  BY DEF AmountsOK
<1>12. AmountsOK'
  BY <1>7, <1>8, <1>9, <1>10, <1>11 DEF AmountsOK
<1> QED BY <1>4, <1>12

\* What a request is, and that what it has read was read once.
LEMMA RequestAmounts ==
    ASSUME LedgerInv, AmountsOK, NEW r \in Requests
    PROVE  /\ IsRequest(req[r]) /\ req[r].amount \in Int /\ Distinct(req[r].seen)
           /\ price \in Int /\ \A c \in charged : c.amount \in Int
BY DEF LedgerInv, TypeOK, AmountsOK

\* The steps of a page but the one that writes the admission.
LEMMA PageAmounts ==
    ASSUME LedgerInv, AmountsOK, NEW r \in Pages,
           MakeIdentifier(r) \/ LookForAdmission(r) \/ ShowTotal(r) \/ Pay(r)
    PROVE  AmountsOK'
<1>0. /\ r \in Requests /\ IsRequest(req[r]) /\ req[r].amount \in Int /\ Distinct(req[r].seen)
      /\ price \in Int /\ \A c \in charged : c.amount \in Int
  BY RequestAmounts DEF Requests
<1>a. ASSUME NEW f, Go(r, f), IsRequest(f), f.amount \in Int,
             f.seen = {} \/ f.seen = req[r].seen \/ \E i \in DOMAIN rows : f.seen = {rows[i]},
             rows' = rows, price' = price, \A c \in charged' : c.amount \in Int
      PROVE  AmountsOK'
  <2>1. Distinct(f.seen) /\ f.seen \subseteq req[r].seen \union {rows[i] : i \in DOMAIN rows}
    BY <1>0, <1>a, DistinctFew
  <2> QED BY <1>0, <1>a, <2>1, QuietAmounts
<1>1. CASE MakeIdentifier(r)
  <2> DEFINE f == [req[r] EXCEPT !.pc = "look", !.ident = get_identifier]
  <2>1. IsRequest(f) /\ f.amount = req[r].amount /\ f.seen = req[r].seen
    BY <1>0 DEF IsRequest
  <2>2. Go(r, f) /\ UNCHANGED <<rows, price, charged>>
    BY <1>1 DEF MakeIdentifier
  <2> HIDE DEF f
  <2> QED BY <1>0, <1>a, <2>1, <2>2
<1>2. CASE LookForAdmission(r)
  <2>1. PICK S : /\ S = {} \/ \E i \in DOMAIN rows : S = {rows[i]}
                 /\ Go(r, [req[r] EXCEPT !.pc = "ensure", !.seen = S])
    <3>1. ASSUME NEW S, S = {} \/ \E i \in DOMAIN rows : S = {rows[i]},
                 Go(r, [req[r] EXCEPT !.pc = "ensure", !.seen = S])
          PROVE  \E T : /\ T = {} \/ \E i \in DOMAIN rows : T = {rows[i]}
                        /\ Go(r, [req[r] EXCEPT !.pc = "ensure", !.seen = T])
      BY <3>1
    <3>2. CASE Go(r, [req[r] EXCEPT !.pc = "ensure", !.seen = {}])
      BY <3>1, <3>2
    <3>3. ASSUME NEW i \in DOMAIN rows, Go(r, [req[r] EXCEPT !.pc = "ensure", !.seen = {rows[i]}])
          PROVE  \E T : /\ T = {} \/ \E j \in DOMAIN rows : T = {rows[j]}
                        /\ Go(r, [req[r] EXCEPT !.pc = "ensure", !.seen = T])
      BY <3>1, <3>3
    <3> QED BY <1>2, <3>2, <3>3 DEF LookForAdmission
  <2> DEFINE f == [req[r] EXCEPT !.pc = "ensure", !.seen = S]
  <2>2. IsRequest(f) /\ f.amount = req[r].amount /\ f.seen = S
    BY <1>0 DEF IsRequest
  <2>3. Go(r, f) /\ UNCHANGED <<rows, price, charged>>
    BY <1>2, <2>1 DEF LookForAdmission
  <2> HIDE DEF f
  <2> QED BY <1>0, <1>a, <2>1, <2>2, <2>3
<1>3. CASE ShowTotal(r)
  <2> DEFINE f == [req[r] EXCEPT !.pc = "shown", !.amount = amount_due, !.seen = {}]
  <2>1. IsRequest(f) /\ f.amount = amount_due /\ f.seen = {}
    BY <1>0 DEF IsRequest
  <2>2. Go(r, f) /\ UNCHANGED <<rows, price, charged>>
    BY <1>3 DEF ShowTotal
  <2> HIDE DEF f
  <2> QED BY <1>0, <1>a, <2>1, <2>2, DueTyped
<1>4. CASE Pay(r)
  <2> DEFINE f == [req[r] EXCEPT !.pc = "done", !.seen = {}, !.linked = {}, !.doomed = {}]
  <2>1. IsRequest(f) /\ f.amount = req[r].amount /\ f.seen = {}
    BY <1>0 DEF IsRequest
  <2>2. Go(r, f) /\ UNCHANGED <<rows, price>>
    BY <1>4 DEF Pay, Finish, End
  <2>3. \A c \in charged' : c.amount \in Int
    BY <1>0, <1>4 DEF Pay
  <2> HIDE DEF f
  <2> QED BY <1>0, <1>a, <2>1, <2>2, <2>3
<1> QED BY <1>1, <1>2, <1>3, <1>4

\* The steps of a postback but the commit, of a form but the one that writes,
\* and the ends of a request.
LEMMA QuietStepsAmounts ==
    ASSUME LedgerInv, AmountsOK, NEW r \in Requests,
           \/ LogPostback(r) \/ LockUser(r) \/ RefuseRepeated(r) \/ Bank(r) \/ RefuseEntry(r)
           \/ LinkRow(r) \/ RefuseTotal(r) \/ CheckUnpaid(r) \/ ClearExtras(r) \/ Crash(r)
    PROVE  AmountsOK'
<1>0. /\ IsRequest(req[r]) /\ req[r].amount \in Int /\ Distinct(req[r].seen)
      /\ price \in Int /\ \A c \in charged : c.amount \in Int
  BY RequestAmounts
<1>1. UNCHANGED <<rows, price, charged>>
  BY DEF LogPostback, LockUser, RefuseRepeated, Bank, RefuseEntry, LinkRow, RefuseTotal, Fail,
         CheckUnpaid, ClearExtras, Crash
<1>a. ASSUME NEW f, Go(r, f), IsRequest(f), f.amount \in Int, Distinct(f.seen),
             f.seen \subseteq req[r].seen \union {rows[i] : i \in DOMAIN rows}
      PROVE  AmountsOK'
  BY <1>0, <1>1, <1>a, QuietAmounts
<1>b. ASSUME NEW pc, End(r, pc) PROVE AmountsOK'
  <2> DEFINE f == [req[r] EXCEPT !.pc = pc, !.seen = {}, !.linked = {}, !.doomed = {}]
  <2>1. IsRequest(f) /\ f.amount = req[r].amount /\ f.seen = {}
    BY <1>0 DEF IsRequest
  <2>2. Go(r, f)
    BY <1>b DEF End
  <2> HIDE DEF f
  <2> QED BY <1>0, <1>a, <2>1, <2>2, DistinctFew
<1>c. ASSUME NEW pc, Goto(r, pc) PROVE AmountsOK'
  <2> DEFINE f == [req[r] EXCEPT !.pc = pc]
  <2>1. IsRequest(f) /\ f.amount = req[r].amount /\ f.seen = req[r].seen
    BY <1>0 DEF IsRequest
  <2>2. Go(r, f)
    BY <1>c DEF Goto
  <2> HIDE DEF f
  <2> QED BY <1>0, <1>a, <2>1, <2>2
<1>2. CASE LogPostback(r)
  <2>1. PICK c \in charged :
            Go(r, [req[r] EXCEPT !.pc = "lock", !.ident = c.ident, !.amount = c.amount, !.tx = c.tx])
    BY <1>2 DEF LogPostback
  <2> DEFINE f == [req[r] EXCEPT !.pc = "lock", !.ident = c.ident, !.amount = c.amount, !.tx = c.tx]
  <2>2. IsRequest(f) /\ f.amount = c.amount /\ f.seen = req[r].seen
    BY <1>0 DEF IsRequest
  <2>3. Go(r, f)
    BY <2>1
  <2> HIDE DEF f
  <2> QED BY <1>0, <1>a, <2>2, <2>3
<1>3. CASE Bank(r)
  <2> DEFINE T == {j \in DOMAIN rows : \E k \in DOMAIN req[r].ident : req[r].ident[k][1] = rows[j].item}
             read == {rows[i] : i \in T}
             f == [req[r] EXCEPT !.pc = "link", !.id = nextId, !.seen = read]
  <2>1. IsRequest(f) /\ f.amount = req[r].amount /\ f.seen = read
    BY <1>0 DEF IsRequest
  <2>2. Go(r, f)
    BY <1>3 DEF Bank
  <2>3. T \subseteq DOMAIN rows /\ read \subseteq {rows[i] : i \in DOMAIN rows}
    OBVIOUS
  <2> HIDE DEF f, T
  <2>4. Distinct(read)
    BY <2>3, DistinctRows DEF LedgerInv, AmountsOK
  <2> HIDE DEF read
  <2> QED BY <1>0, <1>a, <2>1, <2>2, <2>3, <2>4
<1>4. CASE LinkRow(r)
  <2> DEFINE f == [req[r] EXCEPT !.linked = @ \union {RowFor(r)}]
  <2>1. IsRequest(f) /\ f.amount = req[r].amount /\ f.seen = req[r].seen
    BY <1>0 DEF IsRequest
  <2>2. Go(r, f)
    BY <1>4 DEF LinkRow
  <2> HIDE DEF f
  <2> QED BY <1>0, <1>a, <2>1, <2>2
<1>5. CASE ClearExtras(r)
  <2> DEFINE ids == {i \in DOMAIN rows : rows[i].item \in Extras}
             f == [req[r] EXCEPT !.pc = "apply", !.doomed = ids]
  <2>1. IsRequest(f) /\ f.amount = req[r].amount /\ f.seen = req[r].seen
    BY <1>0 DEF IsRequest
  <2>2. Go(r, f)
    BY <1>5 DEF ClearExtras
  <2> HIDE DEF f
  <2> QED BY <1>0, <1>a, <2>1, <2>2
<1>6. CASE \/ LockUser(r) \/ RefuseRepeated(r) \/ RefuseEntry(r) \/ RefuseTotal(r)
           \/ CheckUnpaid(r) \/ Crash(r)
  BY <1>6, <1>b, <1>c DEF LockUser, RefuseRepeated, RefuseEntry, RefuseTotal, Fail, Finish,
                          CheckUnpaid, Crash
<1> QED BY <1>2, <1>3, <1>4, <1>5, <1>6

\* The copies of a payment are copies of a payment.
LEMMA PaymentCopies ==
    ASSUME LedgerInv
    PROVE  \A i \in PaymentIds : /\ i < nextId /\ i \in Nat
                                 /\ \A x \in Known : x.id = i => x.item = Payment
<1> SUFFICES ASSUME NEW i \in PaymentIds
             PROVE  /\ i < nextId /\ i \in Nat
                    /\ \A x \in Known : x.id = i => x.item = Payment
  OBVIOUS
<1>1. i \in DOMAIN rows /\ rows[i].item = Payment /\ rows[i] \in Known
  BY RowsKnown DEF PaymentIds
<1>2. KnownOK
  BY DEF LedgerInv
<1>3. rows[i].id = i
  BY <1>1, <1>2 DEF KnownOK
<1> QED BY <1>1, <1>2, <1>3 DEF KnownOK

LEMMA EnsureAmounts ==
    ASSUME LedgerInv, AmountsOK, NEW r \in Pages, EnsureAdmission(r)
    PROVE  AmountsOK'
<1> DEFINE stale == {x \in req[r].seen : x.paid_in = None /\ x.amount # price}
           g == [x \in stale |-> [x EXCEPT !.amount = price]]
           S == IF req[r].seen = {} THEN {NewRow(nextId, Admission, price, None)}
                ELSE {[x EXCEPT !.amount = price] : x \in stale}
           f == [req[r] EXCEPT !.pc = "total"]
<1>1. /\ KnownOK /\ HoldingsOK /\ r \in Requests /\ nextId \in Nat
      /\ IsRequest(req[r]) /\ Distinct(req[r].seen) /\ price \in Int
  BY RequestAmounts DEF LedgerInv, Requests, TypeOK
<1>2. IsRequest(f) /\ f.amount = req[r].amount /\ f.seen = req[r].seen
  BY <1>1 DEF IsRequest
<1>3. Go(r, f) /\ rows' = Saved(rows, S) /\ UNCHANGED <<price, charged>>
  BY DEF EnsureAdmission, Goto
<1>4. IsFiniteSet(S)
  <2>1. IsFiniteSet(stale)
    BY <1>1, FS_Subset DEF Distinct
  <2>2. g \in Surjection(stale, {[x EXCEPT !.amount = price] : x \in stale})
    BY DEF Surjection
  <2>3. IsFiniteSet({[x EXCEPT !.amount = price] : x \in stale})
    <3> DEFINE T == {[x EXCEPT !.amount = price] : x \in stale}
    <3>1. g \in Surjection(stale, T)
      BY <2>2
    <3> HIDE DEF g, stale, T
    <3>2. IsFiniteSet(T)
      BY <2>1, <3>1, FS_Surjection
    <3> QED BY <3>2 DEF T
  <2> QED BY <2>3, FS_Singleton
<1>5. ASSUME NEW y \in S
      PROVE  y.item = Admission /\ y.paid_in = None /\ y.amount \in Int /\ y.id \notin PaymentIds
  <2>1. CASE req[r].seen = {}
    <3>1. y = NewRow(nextId, Admission, price, None)
      BY <1>5, <2>1
    <3>2. y.id = nextId /\ y.item = Admission /\ y.paid_in = None /\ y.amount = price
      BY <3>1 DEF NewRow
    <3>3. \A i \in PaymentIds : i # nextId
      BY <1>1, PaymentCopies
    <3> QED BY <1>1, <3>2, <3>3
  <2>2. CASE req[r].seen # {}
    <3>1. PICK x \in req[r].seen : x.paid_in = None /\ y = [x EXCEPT !.amount = price]
      BY <1>5, <2>2
    <3>2. x \in Known /\ IsRow(x) /\ x.item = Admission
      BY <1>1, RowsKnown DEF KnownOK, HoldingsOK
    <3>3. y.item = x.item /\ y.paid_in = x.paid_in /\ y.id = x.id /\ y.amount = price
      BY <3>1, <3>2 DEF IsRow
    <3>4. x.id \notin PaymentIds
      BY <3>2, PaymentCopies DEF Admission, Payment
    <3> QED BY <1>1, <3>1, <3>2, <3>3, <3>4
  <2> QED BY <2>1, <2>2
<1>6. PaymentIds \subseteq DOMAIN rows
  BY DEF PaymentIds
<1> HIDE DEF f, S
<1>7. /\ \A y \in S : \A i \in PaymentIds : y.id = i => y.item = Payment
      /\ \A y \in S : y.amount \in Int
      /\ \A y \in S : \/ y.paid_in = None
                      \/ y.paid_in \in PaymentIds
                      \/ \E z \in S : z.item = Payment /\ z.id = y.paid_in
      /\ \A y, z \in S : y.id = z.id => y.item = z.item
  BY <1>5
<1> QED BY <1>1, <1>2, <1>3, <1>4, <1>6, <1>7, WriteAmounts

LEMMA ApplyAmounts ==
    ASSUME LedgerInv, AmountsOK, NEW r \in Forms, ApplyPreferences(r)
    PROVE  AmountsOK'
<1> DEFINE f == [req[r] EXCEPT !.pc = "done", !.seen = {}, !.linked = {}, !.doomed = {}]
<1>1. /\ HoldingsOK /\ r \in Requests /\ nextId \in Nat /\ IsRequest(req[r])
  BY RequestAmounts DEF LedgerInv, Requests, TypeOK
<1>2. IsRequest(f) /\ f.amount = req[r].amount /\ f.seen = {}
  BY <1>1 DEF IsRequest
<1>3. Go(r, f) /\ UNCHANGED <<price, charged>>
  BY DEF ApplyPreferences, Finish, End
<1>4. PICK C \in SUBSET Extras, again \in SUBSET {i \in DOMAIN rows \ req[r].doomed : rows[i].item \in Extras} :
          rows' = Saved([i \in DOMAIN rows \ (req[r].doomed \union again) |-> rows[i]],
                        {NewRow(nextId + k - 1, SetToSeq(C)[k], ExtraPrice, None) : k \in DOMAIN SetToSeq(C)})
  BY DEF ApplyPreferences
<1> DEFINE R == [i \in DOMAIN rows \ (req[r].doomed \union again) |-> rows[i]]
           new(k) == NewRow(nextId + k - 1, SetToSeq(C)[k], ExtraPrice, None)
           D == DOMAIN SetToSeq(C)
           S == {new(k) : k \in D}
           g == [k \in D |-> new(k)]
<1>5. D = 1..Len(SetToSeq(C)) /\ Len(SetToSeq(C)) \in Nat
  <2>1. IsFiniteSet(C)
    BY LedgerAssumption, FS_Subset
  <2> QED BY <2>1, SetToSeqFacts
<1>6. rows' = Saved(R, S)
  BY <1>4
<1>7. ASSUME NEW k \in D
      PROVE  /\ new(k).item = SetToSeq(C)[k] /\ new(k).paid_in = None /\ new(k).amount \in Int
             /\ new(k).id = nextId + k - 1 /\ k \in Nat /\ nextId <= new(k).id
  <2>1. /\ new(k).item = SetToSeq(C)[k] /\ new(k).paid_in = None /\ new(k).amount = ExtraPrice
        /\ new(k).id = nextId + k - 1
    BY DEF NewRow
  <2>2. k \in Nat /\ nextId <= nextId + k - 1
    BY <1>1, <1>5, <1>7
  <2> HIDE DEF new
  <2> QED BY <2>1, <2>2, LedgerAssumption
<1>8. IsFiniteSet(S)
  <2>1. g \in Surjection(D, S)
    <3> HIDE DEF new, D
    <3> QED BY DEF Surjection
  <2>2. IsFiniteSet(D)
    BY <1>5, FS_Interval
  <2> HIDE DEF g, D, S
  <2> QED BY <2>1, <2>2, FS_Surjection
<1>9. /\ DOMAIN R \subseteq DOMAIN rows /\ PaymentIds \subseteq DOMAIN R
      /\ \A i \in DOMAIN R : R[i] = rows[i]
  BY <1>1, LedgerAssumption DEF HoldingsOK, PaymentIds
<1> HIDE DEF new, D
<1>10. \A y \in S : y.amount \in Int /\ y.paid_in = None /\ nextId <= y.id
  BY <1>7
<1>11. \A y, z \in S : y.id = z.id => y = z
  <2>1. \A k, l \in D : new(k).id = new(l).id => k = l
    BY <1>1, <1>7
  <2> QED BY <2>1
<1> HIDE DEF f, R, S
<1>12. \A y \in S : \A i \in PaymentIds : y.id # i
  BY <1>1, <1>10, PaymentCopies
<1>13. /\ \A y \in S : \A i \in PaymentIds : y.id = i => y.item = Payment
       /\ \A y \in S : y.amount \in Int
       /\ \A y \in S : \/ y.paid_in = None
                       \/ y.paid_in \in PaymentIds
                       \/ \E z \in S : z.item = Payment /\ z.id = y.paid_in
       /\ \A y, z \in S : y.id = z.id => y.item = z.item
  BY <1>10, <1>11, <1>12
<1> QED BY <1>1, <1>2, <1>3, <1>6, <1>8, <1>9, <1>13, WriteAmounts

\* What a postback has linked: rows with different ids, not paid, and numbers.
LEMMA LinkedRows ==
    ASSUME LedgerInv, AmountsOK, NEW r \in Postbacks, req[r].pc = "link"
    PROVE  /\ IsFiniteSet(req[r].linked)
           /\ \A x \in req[r].linked : x \in Known /\ IsRow(x) /\ x.amount \in Int /\ x.id # req[r].id
           /\ \A x, y \in req[r].linked : x.id = y.id => x = y
           /\ req[r].id \in Nat /\ req[r].id \notin PaymentIds /\ req[r].id # None
<1>1. HoldingsOK /\ KnownOK /\ PostbackOK(r) /\ r \in Requests
  BY DEF LedgerInv, PostbacksOK, Requests
<1>2. req[r].linked \subseteq req[r].seen /\ Distinct(req[r].seen)
  BY <1>1 DEF HoldingsOK, AmountsOK
<1>3. req[r].id \in Nat /\ \A x \in Known : x.id # req[r].id
  BY <1>1 DEF PostbackOK
<1>4. \A x \in req[r].linked : x \in Known /\ IsRow(x) /\ x.amount \in Int /\ x.id # req[r].id
  <2>1. \A x \in req[r].linked : x \in Known
    BY <1>1, <1>2, RowsKnown
  <2> QED BY <1>1, <1>3, <2>1 DEF KnownOK, AmountsOK
<1>5. IsFiniteSet(req[r].linked) /\ \A x, y \in req[r].linked : x.id = y.id => x = y
  BY <1>2, FS_Subset DEF Distinct
<1>6. req[r].id \notin PaymentIds
  BY <1>1, <1>3, RowsKnown DEF PaymentIds, KnownOK
<1>7. req[r].id # None
  BY <1>3, LedgerAssumption
<1> QED BY <1>3, <1>4, <1>5, <1>6, <1>7

\* The rows that a postback writes.
Marked(r) == {[x EXCEPT !.paid_in = req[r].id] : x \in req[r].linked}
Paying(r) == NewRow(req[r].id, Payment, req[r].amount, req[r].tx)

LEMMA PayingFacts ==
    ASSUME NEW r
    PROVE  /\ Paying(r).id = req[r].id /\ Paying(r).item = Payment
           /\ Paying(r).amount = req[r].amount /\ Paying(r).paid_in = None
BY DEF Paying, NewRow

LEMMA MarkedFacts ==
    ASSUME LedgerInv, AmountsOK, NEW r \in Postbacks, req[r].pc = "link", NEW y \in Marked(r)
    PROVE  \E x \in req[r].linked : /\ y.id = x.id /\ y.item = x.item /\ y.amount = x.amount
                                    /\ y.paid_in = req[r].id
<1>1. PICK x \in req[r].linked : y = [x EXCEPT !.paid_in = req[r].id]
  BY DEF Marked
<1>2. IsRow(x)
  BY LinkedRows
<1> QED BY <1>1, <1>2 DEF IsRow

LEMMA CommitAmounts ==
    ASSUME LedgerInv, AmountsOK, NEW r \in Postbacks, CommitPayment(r)
    PROVE  AmountsOK'
<1> DEFINE S == Marked(r) \union {Paying(r)}
           f == [req[r] EXCEPT !.pc = "done", !.seen = {}, !.linked = {}, !.doomed = {}]
<1>1. r \in Requests /\ IsRequest(req[r]) /\ req[r].amount \in Int
  BY RequestAmounts DEF Requests
<1>2. IsRequest(f) /\ f.amount = req[r].amount /\ f.seen = {}
  BY <1>1 DEF IsRequest
<1>3. Go(r, f) /\ req[r].pc = "link" /\ rows' = Saved(rows, S) /\ UNCHANGED <<price, charged>>
  BY DEF CommitPayment, Finish, End, Marked, Paying
<1>4. IsFiniteSet(S)
  <2> DEFINE g == [x \in req[r].linked |-> [x EXCEPT !.paid_in = req[r].id]]
  <2>1. g \in Surjection(req[r].linked, Marked(r))
    BY DEF Surjection, Marked
  <2> HIDE DEF g
  <2>2. IsFiniteSet(req[r].linked)
    BY <1>3, LinkedRows
  <2>3. IsFiniteSet(Marked(r))
    BY <2>1, <2>2, FS_Surjection
  <2> QED BY <2>3, FS_Singleton, FS_Union
<1>5. \A y \in Marked(r) : \E x \in req[r].linked : /\ y.id = x.id /\ y.item = x.item /\ y.amount = x.amount
                                                    /\ y.paid_in = req[r].id
  BY <1>3, MarkedFacts
<1>6. /\ \A x \in req[r].linked : x \in Known /\ x.amount \in Int /\ x.id # req[r].id
      /\ req[r].id \notin PaymentIds
  BY <1>3, LinkedRows
<1>7. Paying(r) \in S
  OBVIOUS
<1>8. \A x, y \in Known : x.id = y.id => x.item = y.item
  BY DEF LedgerInv, KnownOK
<1>9. PaymentIds \subseteq DOMAIN rows
  BY DEF PaymentIds
<1>10. ASSUME NEW y \in S
       PROVE  /\ \A i \in PaymentIds : y.id = i => y.item = Payment
              /\ y.amount \in Int
              /\ y.paid_in = None \/ y.paid_in = Paying(r).id
  <2>1. CASE y \in Marked(r)
    <3>1. PICK x \in req[r].linked : y.id = x.id /\ y.item = x.item /\ y.amount = x.amount /\ y.paid_in = req[r].id
      BY <1>5, <2>1
    <3>2. \A i \in PaymentIds : x.id = i => x.item = Payment
      BY <1>6, PaymentCopies
    <3> QED BY <1>6, <3>1, <3>2, PayingFacts
  <2>2. CASE y = Paying(r)
    BY <1>1, <1>6, <2>2, PayingFacts
  <2> QED BY <1>10, <2>1, <2>2
<1>11. \A y, z \in S : y.id = z.id => y.item = z.item
  <2> SUFFICES ASSUME NEW y \in S, NEW z \in S, y.id = z.id PROVE y.item = z.item
    OBVIOUS
  <2>1. CASE y \in Marked(r) /\ z \in Marked(r)
    BY <1>5, <1>6, <1>8, <2>1
  <2>2. CASE y = Paying(r) /\ z = Paying(r)
    BY <2>2
  <2>3. ASSUME NEW w \in Marked(r) PROVE w.id # Paying(r).id
    BY <1>5, <1>6, PayingFacts
  <2> QED BY <2>1, <2>2, <2>3
<1>12. \A y \in S : \/ y.paid_in = None
                    \/ y.paid_in \in PaymentIds
                    \/ \E z \in S : z.item = Payment /\ z.id = y.paid_in
  BY <1>7, <1>10, PayingFacts
<1>13. /\ \A y \in S : \A i \in PaymentIds : y.id = i => y.item = Payment
       /\ \A y \in S : y.amount \in Int
  BY <1>10
<1> HIDE DEF f, S
<1> QED BY <1>1, <1>2, <1>3, <1>4, <1>9, <1>11, <1>12, <1>13, WriteAmounts

-----------------------------------------------------------------------------
(* What a payment covers.                                                   *)

LEMMA InitAmounts == Init => AmountsOK
<1> SUFFICES ASSUME Init PROVE AmountsOK
  OBVIOUS
<1>1. price \in Int /\ charged = {} /\ \A r \in Requests : req[r] = New
  BY LedgerAssumption DEF Init
<1>2. \A r \in Requests : req[r].amount \in Int /\ req[r].seen = {}
  BY <1>1 DEF New
<1>3. \A r \in Requests : Distinct(req[r].seen)
  BY <1>2, DistinctFew
<1>4. /\ IsFiniteSet(DOMAIN rows)
      /\ \A i \in DOMAIN rows : rows[i].amount \in Int /\ rows[i].paid_in = None
  <2> DEFINE first == NewRow(1, Admission, price, None)
  <2>1. first.amount = price /\ first.paid_in = None
    BY DEF NewRow
  <2>2. rows = <<>> \/ rows = <<first>>
    BY DEF Init
  <2> HIDE DEF first
  <2>3. CASE rows = <<>>
    BY <2>3, FS_EmptySet
  <2>4. CASE rows = <<first>>
    <3>1. DOMAIN rows = {1} /\ rows[1] = first
      BY <2>4
    <3>2. IsFiniteSet({1})
      BY FS_Singleton
    <3> QED BY <1>1, <2>1, <3>1, <3>2
  <2> QED BY <2>2, <2>3, <2>4
<1>5. \A x \in Known : x.amount \in Int /\ x.paid_in = None
  BY <1>2, <1>4 DEF Known
<1> QED BY <1>1, <1>2, <1>3, <1>4, <1>5 DEF AmountsOK

LEMMA NextAmounts ==
    ASSUME LedgerInv, AmountsOK, [Next]_vars
    PROVE  AmountsOK'
<1>1. ASSUME NEW r \in Pages, Page(r) \/ Pay(r) PROVE AmountsOK'
  BY <1>1, EnsureAmounts, PageAmounts DEF Page
<1>2. ASSUME NEW r \in Postbacks, LogPostback(r) \/ Postback(r) PROVE AmountsOK'
  <2>1. r \in Requests
    BY DEF Requests
  <2>2. CASE CommitPayment(r)
    BY <2>2, CommitAmounts
  <2>3. CASE ~CommitPayment(r)
    BY <1>2, <2>1, <2>3, QuietStepsAmounts DEF Postback
  <2> QED BY <2>2, <2>3
<1>3. ASSUME NEW r \in Forms, Form(r) PROVE AmountsOK'
  <2>1. r \in Requests
    BY DEF Requests
  <2> QED BY <1>3, <2>1, ApplyAmounts, QuietStepsAmounts DEF Form
<1>4. ASSUME NEW r \in Requests, Crash(r) PROVE AmountsOK'
  BY <1>4, QuietStepsAmounts
<1>5. CASE ChangePrice
  <2>1. price' \in Int /\ UNCHANGED <<rows, charged, req>>
    BY <1>5, LedgerAssumption DEF ChangePrice
  <2> QED BY <2>1 DEF AmountsOK, Known, PaymentIds, Distinct
<1>6. CASE UNCHANGED vars
  BY <1>6 DEF vars, AmountsOK, Known, PaymentIds, Distinct
<1> QED BY <1>1, <1>2, <1>3, <1>4, <1>5, <1>6 DEF Next

\* A commit marks exactly the rows that were linked, with their amounts.
LEMMA CommitCovers ==
    ASSUME LedgerInv, AmountsOK, NEW r \in Postbacks, CommitPayment(r)
    PROVE  LET p == req[r].id
           IN  FoldSet(LAMBDA i, n : n + rows'[i].amount, 0, {i \in DOMAIN rows' : rows'[i].paid_in = p})
                   = rows'[p].amount
<1> DEFINE p == req[r].id
           L == req[r].linked
           S == Marked(r) \union {Paying(r)}
           ids == {i \in DOMAIN rows' : rows'[i].paid_in = p}
           W == rows'
<1>1. req[r].pc = "link" /\ rows' = Saved(rows, S) /\ SumsAgree(r)
  BY DEF CommitPayment, Marked, Paying
<1>2. /\ IsFiniteSet(L)
      /\ \A x \in L : x \in Known /\ IsRow(x) /\ x.amount \in Int /\ x.id # p
      /\ \A x, y \in L : x.id = y.id => x = y
      /\ p \in Nat /\ p \notin PaymentIds /\ p # None
  BY <1>1, LinkedRows
<1>3. \A y \in Marked(r) : \E x \in L : y.id = x.id /\ y.amount = x.amount /\ y.paid_in = p
  BY <1>1, MarkedFacts
<1>4. /\ DOMAIN rows' = DOMAIN rows \union {x.id : x \in S}
      /\ \A i \in DOMAIN rows' : \/ rows'[i] \in S /\ rows'[i].id = i
                                 \/ i \in DOMAIN rows /\ rows'[i] = rows[i] /\ \A x \in S : x.id # i
  <2>1. IsSaved(rows', rows, S)
    BY <1>1, SavedFacts
  <2> QED BY <2>1 DEF IsSaved
<1>5. ASSUME NEW x \in L
      PROVE  x.id \in ids /\ rows'[x.id].amount = x.amount
  <2> DEFINE y == [x EXCEPT !.paid_in = p]
  <2>1. y \in S /\ y.id = x.id
    BY <1>2 DEF Marked, IsRow
  <2>2. x.id \in DOMAIN rows' /\ rows'[x.id] \in S /\ rows'[x.id].id = x.id
    BY <1>4, <2>1
  <2>3. rows'[x.id] \in Marked(r)
    BY <1>2, <2>2, PayingFacts
  <2>4. PICK z \in L : rows'[x.id].id = z.id /\ rows'[x.id].amount = z.amount /\ rows'[x.id].paid_in = p
    BY <1>3, <2>3
  <2>5. z = x
    BY <1>2, <2>2, <2>4
  <2> QED BY <2>2, <2>4, <2>5
<1>6. ASSUME NEW i \in ids PROVE \E x \in L : x.id = i
  <2>1. CASE rows'[i] \in S /\ rows'[i].id = i
    <3>1. rows'[i] # Paying(r)
      BY <1>2, PayingFacts
    <3>2. rows'[i] \in Marked(r)
      BY <2>1, <3>1
    <3> QED BY <1>3, <2>1, <3>2
  <2>2. CASE i \in DOMAIN rows /\ rows'[i] = rows[i]
    <3>1. rows[i].paid_in = None \/ rows[i].paid_in \in PaymentIds
      BY <2>2, RowsKnown DEF AmountsOK
    <3> QED BY <1>2, <2>2, <3>1
  <2> QED BY <1>4, <2>1, <2>2
<1> DEFINE h == [x \in L |-> x.id]
           F == [x \in L |-> x.amount]
           E == [i \in ids |-> rows'[i].amount]
<1>7. ids = {h[x] : x \in L}
  <2>1. \A x \in L : h[x] = x.id
    OBVIOUS
  <2> HIDE DEF h, ids
  <2> QED BY <1>5, <1>6, <2>1
<1>8. /\ \A x \in L : F[x] \in Int
      /\ \A x \in L : E[h[x]] = F[x]
      /\ \A x, y \in L : h[x] = h[y] => x = y
  BY <1>2, <1>5
<1>9. IsFiniteSet(ids)
  <2>1. h \in Surjection(L, ids)
    <3>1. DOMAIN h = L
      OBVIOUS
    <3> HIDE DEF ids
    <3> QED BY <1>7 DEF Surjection
  <2> HIDE DEF h, ids
  <2> QED BY <1>2, <2>1, FS_Surjection
<1>10. \A i \in ids : W[i].amount \in Int
  BY <1>2, <1>5, <1>6
<1>11. FoldSet(LAMBDA i, n : n + W[i].amount, 0, ids) = SumOf([i \in ids |-> W[i].amount], ids)
  <2> HIDE DEF W, ids
  <2> QED BY <1>9, <1>10, TotalsAreSums
<1>12. LinkedTotal(r) = SumOf(F, L)
  BY <1>2, LinkedTotalIsSum
<1>13. SumOf(E, ids) = SumOf(F, L)
  <2> HIDE DEF E, F, h, ids
  <2> QED BY <1>2, <1>7, <1>8, SumOfImage
<1>14. rows'[p].amount = req[r].amount
  <2>1. p \in DOMAIN rows' /\ rows'[p] \in S /\ rows'[p].id = p
    BY <1>4, PayingFacts
  <2>2. rows'[p] \notin Marked(r)
    BY <1>2, <1>3, <2>1
  <2>3. rows'[p] = Paying(r)
    BY <2>1, <2>2
  <2> QED BY <2>3, PayingFacts
<1>15. LinkedTotal(r) = req[r].amount
  BY <1>1 DEF SumsAgree
<1> QED BY <1>11, <1>12, <1>13, <1>14, <1>15

\* Pages and forms write no payment.
LEMMA WritesNoPayment ==
    ASSUME NEW R, NEW S, rows' = Saved(R, S), DOMAIN R \subseteq DOMAIN rows,
           \A y \in S : y.item # Payment
    PROVE  \A p \in DOMAIN rows' \ DOMAIN rows : rows'[p].item # Payment
<1>1. IsSaved(rows', R, S)
  BY SavedFacts
<1> QED BY <1>1 DEF IsSaved

LEMMA NewPayments ==
    ASSUME LedgerInv, [Next]_vars, NEW p \in DOMAIN rows' \ DOMAIN rows, rows'[p].item = Payment
    PROVE  \E r \in Postbacks : CommitPayment(r) /\ p = req[r].id
<1>1. ASSUME NEW r \in Pages, EnsureAdmission(r) PROVE FALSE
  <2> DEFINE S == IF req[r].seen = {} THEN {NewRow(nextId, Admission, price, None)}
                  ELSE {[x EXCEPT !.amount = price] :
                            x \in {y \in req[r].seen : y.paid_in = None /\ y.amount # price}}
  <2>1. rows' = Saved(rows, S)
    BY <1>1 DEF EnsureAdmission
  <2>2. ASSUME NEW y \in S PROVE y.item = Admission
    <3>1. CASE req[r].seen = {}
      <4>1. y = NewRow(nextId, Admission, price, None)
        BY <2>2, <3>1
      <4> QED BY <4>1 DEF NewRow
    <3>2. CASE req[r].seen # {}
      <4>1. PICK x \in req[r].seen : y = [x EXCEPT !.amount = price]
        BY <2>2, <3>2
      <4>2. IsRow(x) /\ x.item = Admission
        BY RowsKnown DEF LedgerInv, KnownOK, HoldingsOK, Requests
      <4> QED BY <4>1, <4>2 DEF IsRow
    <3> QED BY <3>1, <3>2
  <2> HIDE DEF S
  <2>3. \A y \in S : y.item # Payment
    BY <2>2 DEF Admission, Payment
  <2> QED BY <2>1, <2>3, WritesNoPayment
<1>2. ASSUME NEW r \in Forms, ApplyPreferences(r) PROVE FALSE
  <2>1. PICK C \in SUBSET Extras, again \in SUBSET DOMAIN rows :
            rows' = Saved([i \in DOMAIN rows \ (req[r].doomed \union again) |-> rows[i]],
                          {NewRow(nextId + k - 1, SetToSeq(C)[k], ExtraPrice, None) : k \in DOMAIN SetToSeq(C)})
    BY <1>2 DEF ApplyPreferences
  <2> DEFINE R == [i \in DOMAIN rows \ (req[r].doomed \union again) |-> rows[i]]
             new(k) == NewRow(nextId + k - 1, SetToSeq(C)[k], ExtraPrice, None)
             S == {new(k) : k \in DOMAIN SetToSeq(C)}
  <2>2. IsFiniteSet(C)
    BY LedgerAssumption, FS_Subset
  <2>3. \A k \in DOMAIN SetToSeq(C) : SetToSeq(C)[k] \in Extras
    BY <2>2, SetToSeqFacts
  <2>4. \A k \in DOMAIN SetToSeq(C) : new(k).item = SetToSeq(C)[k]
    BY DEF NewRow
  <2>5. rows' = Saved(R, S) /\ DOMAIN R \subseteq DOMAIN rows
    BY <2>1
  <2> HIDE DEF new
  <2>6. \A y \in S : y.item # Payment
    BY <2>3, <2>4, LedgerAssumption
  <2> HIDE DEF R, S
  <2> QED BY <2>5, <2>6, WritesNoPayment
<1>3. ASSUME NEW r \in Postbacks, CommitPayment(r) PROVE p = req[r].id
  <2> DEFINE S == Marked(r) \union {Paying(r)}
  <2>1. req[r].pc = "link" /\ rows' = Saved(rows, S)
    BY <1>3 DEF CommitPayment, Marked, Paying
  <2>2. IsSaved(rows', rows, S)
    BY <2>1, SavedFacts
  <2>3. rows'[p] \in S /\ rows'[p].id = p
    BY <2>2 DEF IsSaved
  <2>4. CASE rows'[p] = Paying(r)
    BY <2>3, <2>4, PayingFacts
  <2>5. ASSUME rows'[p] \in Marked(r) PROVE FALSE
    <3>1. PICK x \in req[r].linked : rows'[p] = [x EXCEPT !.paid_in = req[r].id]
      BY <2>5 DEF Marked
    <3>2. x \in Known /\ KnownOK
      BY RowsKnown DEF LedgerInv, HoldingsOK, Requests
    <3>3. IsRow(x) /\ (x.item = Payment => x.id \in DOMAIN rows)
      BY <3>2 DEF KnownOK
    <3>4. rows'[p].item = x.item /\ rows'[p].id = x.id
      BY <3>1, <3>3 DEF IsRow
    <3> QED BY <2>3, <3>3, <3>4
  <2> QED BY <2>3, <2>4, <2>5
<1>4. rows' # rows
  OBVIOUS
<1>5. ASSUME NEW r \in Pages, Page(r) \/ Pay(r) PROVE FALSE
  BY <1>1, <1>4, <1>5 DEF Page, MakeIdentifier, LookForAdmission, ShowTotal, Pay
<1>6. ASSUME NEW r \in Postbacks, LogPostback(r) \/ Postback(r) PROVE CommitPayment(r)
  BY <1>4, <1>6 DEF LogPostback, Postback, LockUser, RefuseRepeated, Bank, RefuseEntry, LinkRow,
                    RefuseTotal, Fail
<1>7. ASSUME NEW r \in Forms, Form(r) PROVE FALSE
  BY <1>2, <1>4, <1>7 DEF Form, CheckUnpaid, ClearExtras
<1>8. ~(\E r \in Requests : Crash(r)) /\ ~ChangePrice /\ ~UNCHANGED vars
  BY <1>4 DEF Crash, ChangePrice, vars
<1> QED BY <1>3, <1>5, <1>6, <1>7, <1>8 DEF Next

\* Every reachable state has amounts that can be summed.
LEMMA AmountsInvariant == Spec => [](LedgerInv /\ AmountsOK)
<1>1. LedgerInv /\ AmountsOK /\ [Next]_vars => AmountsOK'
  BY NextAmounts
<1> QED BY <1>1, InitAmounts, LedgerInvariant, PTL DEF Spec

\* record_payment_from_identifier: a payment is recorded together with the
\* marks of the rows it is for, and these sum to it, although pages and forms
\* write and delete rows in between.
THEOREM PaymentsCoverTheirRows == Spec => PaymentCovers
<1> DEFINE P == \A p \in DOMAIN rows' \ DOMAIN rows :
           rows'[p].item = Payment =>
               FoldSet(LAMBDA i, n : n + rows'[i].amount, 0, {i \in DOMAIN rows' : rows'[i].paid_in = p})
                   = rows'[p].amount
<1>1. LedgerInv /\ AmountsOK /\ [Next]_vars => [P]_vars
  <2> SUFFICES ASSUME LedgerInv, AmountsOK, [Next]_vars PROVE P
    OBVIOUS
  <2> SUFFICES ASSUME NEW p \in DOMAIN rows' \ DOMAIN rows, rows'[p].item = Payment
               PROVE  FoldSet(LAMBDA i, n : n + rows'[i].amount, 0, {i \in DOMAIN rows' : rows'[i].paid_in = p})
                          = rows'[p].amount
    OBVIOUS
  <2>1. PICK r \in Postbacks : CommitPayment(r) /\ p = req[r].id
    BY NewPayments
  <2> QED BY <2>1, CommitCovers
<1> QED BY <1>1, AmountsInvariant, PTL DEF Spec, PaymentCovers
=============================================================================
