------------------------------- MODULE Ledger -------------------------------
(***************************************************************************)
(* The account of one student at a program that is paid through             *)
(* Cybersource: the rows of Transfer (accounting/controllers.py), the page   *)
(* that bills them (creditcardmodule_cybersource.py), the postbacks of the   *)
(* processor (program/views.py), which may be repeated, delayed or meet each *)
(* other, and the form for optional items (studentextracosts.py).            *)
(*                                                                          *)
(* PostgreSQL at READ COMMITTED.  save() writes every column of an object,   *)
(* and inserts the row again if it is gone.  Financial aid and sibling       *)
(* discounts are left out.  The admission is the only required item.         *)
(***************************************************************************)
EXTENDS Integers, FiniteSets, Sequences, SequencesExt

CONSTANTS
    Pages,       \* visits to the page that leads to the processor
    Postbacks,   \* notifications: a payment may be notified several times
    Forms,       \* submissions of the form for optional items
    Extras,      \* the optional items
    Prices,      \* the prices that the admission may have
    ExtraPrice,  \* the price of an optional item
    None,
    MaxFaults    \* bound: deaths of a worker

Requests == Pages \union Postbacks \union Forms

Admission == "Program admission"
Payment == "Student payment"

ASSUME LedgerAssumption ==
    /\ Prices \subseteq Nat \ {0} /\ ExtraPrice \in Nat
    /\ MaxFaults \in Nat
    /\ None \notin Requests \union Nat
    /\ Pages \intersect Postbacks = {} /\ Forms \intersect (Pages \union Postbacks) = {}
    \* The form offers no item that is required or not for payment.
    /\ IsFiniteSet(Extras) /\ {Admission, Payment} \intersect Extras = {}

VARIABLES
    rows,       \* committed Transfer rows by id
    nextId,
    price,      \* LineItemType.amount_dec of the admission
    charged,    \* what the processor has charged: page, identifier and amount
    log,        \* CybersourcePostback rows: by postback, the payment or None
    reported,   \* the postbacks whose failure was mailed to the treasury
    req,        \* what every request is doing
    user,       \* the postback that holds the lock on the row of the student
    faults

vars == <<rows, nextId, price, charged, log, reported, req, user, faults>>

New == [pc |-> "new", ident |-> <<>>, amount |-> 0, tx |-> None, id |-> 0,
        seen |-> {}, linked |-> {}, doomed |-> {}]

NewRow(i, item, amount, tx) == [id |-> i, item |-> item, amount |-> amount, paid_in |-> None, tx |-> tx]

\* Another page of the registration may have created the admission already.
Init ==
    /\ price \in Prices
    /\ rows \in {<<>>, <<NewRow(1, Admission, price, None)>>}
    /\ nextId = Len(rows) + 1
    /\ charged = {}
    /\ log = <<>>
    /\ reported = {}
    /\ req = [r \in Requests |-> New]
    /\ user = None
    /\ faults = 0

-----------------------------------------------------------------------------
Total(S) == FoldSet(LAMBDA i, n : n + rows[i].amount, 0, S)
PaymentIds == {i \in DOMAIN rows : rows[i].item = Payment}

\* amount_due: what is requested and not yet paid.
amount_due == Total(DOMAIN rows \ PaymentIds) - Total(PaymentIds)

\* Rows that the transaction of r has changed and not committed.
LockedBy(r) == req[r].doomed \union {x.id : x \in req[r].linked}
Free(r, ids) == \A q \in Requests \ {r} : LockedBy(q) \intersect ids = {}

Go(r, fields) == req' = [req EXCEPT ![r] = fields]
Goto(r, pc) == Go(r, [req[r] EXCEPT !.pc = pc])

\* The end of a request, with its transaction committed or rolled back.
End(r, pc) == Go(r, [req[r] EXCEPT !.pc = pc, !.seen = {}, !.linked = {}, !.doomed = {}])
Finish(r) == End(r, "done")

\* The committed rows when those with the given contents have been saved.
Saved(R, S) ==
    [i \in DOMAIN R \union {x.id : x \in S} |->
        IF \E x \in S : x.id = i THEN CHOOSE x \in S : x.id = i ELSE R[i]]

-----------------------------------------------------------------------------
(* The page cybersource(): the identifier is made first, and amount_due()   *)
(* then ensures that there is a row for the admission.                      *)

\* get_identifier lists every row of the student, payments too.
get_identifier ==
    LET Purchase(i) == <<rows[i].item, rows[i].amount>>
    IN  [k \in DOMAIN SetToSortSeq(DOMAIN rows, <) |-> Purchase(SetToSortSeq(DOMAIN rows, <)[k])]

MakeIdentifier(r) ==
    /\ req[r].pc = "new"
    /\ Go(r, [req[r] EXCEPT !.pc = "look", !.ident = get_identifier])
    /\ UNCHANGED <<rows, nextId, price, charged, log, reported, user, faults>>

\* ensure_required_transfers reads the row of the admission, one of them if
\* there are several...
LookForAdmission(r) ==
    LET ids == {i \in DOMAIN rows : rows[i].item = Admission}
    IN  /\ req[r].pc = "look"
        /\ \/ ids = {} /\ Go(r, [req[r] EXCEPT !.pc = "ensure", !.seen = {}])
           \/ \E i \in ids : Go(r, [req[r] EXCEPT !.pc = "ensure", !.seen = {rows[i]}])
        /\ UNCHANGED <<rows, nextId, price, charged, log, reported, user, faults>>

\* ...and creates it, adjusts the amount, or leaves it alone if it was paid or
\* has the right amount.  The page does this several times; what the later ones
\* do, another visit that is broken off does as well.
EnsureAdmission(r) ==
    LET stale == {x \in req[r].seen : x.paid_in = None /\ x.amount # price}
    IN  /\ req[r].pc = "ensure"
        /\ Free(r, {x.id : x \in stale})
        /\ IF req[r].seen = {}
           THEN /\ rows' = Saved(rows, {NewRow(nextId, Admission, price, None)})
                /\ nextId' = nextId + 1
           ELSE /\ rows' = Saved(rows, {[x EXCEPT !.amount = price] : x \in stale})
                /\ UNCHANGED nextId
        /\ Goto(r, "total")
        /\ UNCHANGED <<price, charged, log, reported, user, faults>>

ShowTotal(r) ==
    /\ req[r].pc = "total"
    /\ Go(r, [req[r] EXCEPT !.pc = "shown", !.amount = amount_due, !.seen = {}])
    /\ UNCHANGED <<rows, nextId, price, charged, log, reported, user, faults>>

\* The student pays at the processor what the page shows, or leaves the page.
Pay(r) ==
    /\ req[r].pc = "shown"
    /\ req[r].amount > 0
    /\ charged' = charged \union {[tx |-> r, ident |-> req[r].ident, amount |-> req[r].amount]}
    /\ Finish(r)
    /\ UNCHANGED <<rows, nextId, price, log, reported, user, faults>>

-----------------------------------------------------------------------------
(* submit_transaction, for the decision ACCEPT.                             *)

\* The postback is logged, and that is committed.
LogPostback(r) ==
    /\ req[r].pc = "new"
    /\ \E c \in charged :
           Go(r, [req[r] EXCEPT !.pc = "lock", !.ident = c.ident, !.amount = c.amount, !.tx = c.tx])
    /\ log' = [q \in DOMAIN log \union {r} |-> IF q = r THEN None ELSE log[q]]
    /\ UNCHANGED <<rows, nextId, price, charged, reported, user, faults>>

\* A postback that would not lock the student.
PassUser(r) ==
    /\ req[r].pc = "lock"
    /\ Goto(r, "bank")
    /\ UNCHANGED <<rows, nextId, price, charged, log, reported, user, faults>>

LockUser(r) ==
    /\ req[r].pc = "lock"
    /\ user = None
    /\ user' = r
    /\ Goto(r, "bank")
    /\ UNCHANGED <<rows, nextId, price, charged, log, reported, faults>>

Unlock(r) == user' = IF user = r THEN None ELSE user

\* An exception that would not be mailed.
FailUnreported(r) ==
    /\ Finish(r)
    /\ Unlock(r)
    /\ UNCHANGED <<rows, nextId, price, charged, log, reported, faults>>

\* An exception: everything but the log is rolled back, and mailed.
Fail(r) ==
    /\ Finish(r)
    /\ Unlock(r)
    /\ reported' = reported \union {r}
    /\ UNCHANGED <<rows, nextId, price, charged, log, faults>>

IsRecorded(tx) == \E i \in PaymentIds : rows[i].tx = tx

\* The check for a repeated postback.
RefuseRepeated(r) ==
    /\ req[r].pc = "bank"
    /\ IsRecorded(req[r].tx)
    /\ Fail(r)

\* The payment is created, and the rows it may be for are read.
Bank(r) ==
    /\ req[r].pc = "bank"
    /\ ~IsRecorded(req[r].tx)
    /\ Go(r, [req[r] EXCEPT !.pc = "link", !.id = nextId,
                 !.seen = {rows[i] : i \in {j \in DOMAIN rows : \E k \in DOMAIN req[r].ident : req[r].ident[k][1] = rows[j].item}}])
    /\ nextId' = nextId + 1
    /\ UNCHANGED <<rows, price, charged, log, reported, user, faults>>

\* The entry of the identifier that is next, and the row that it gets: the
\* oldest of the right amount or else the oldest.
Entry(r) == req[r].ident[Cardinality(req[r].linked) + 1]

\* The rows that are left, the paid ones among them.
AvailableOrPaid(r) == {x \in req[r].seen \ req[r].linked : x.item = Entry(r)[1]}

Available(r) == {x \in req[r].seen \ req[r].linked : x.item = Entry(r)[1] /\ x.paid_in = None}
Oldest(S) == CHOOSE x \in S : \A y \in S : x.id <= y.id
RowFor(r) ==
    LET matching == {x \in Available(r) : x.amount = Entry(r)[2]}
    IN  IF matching # {} THEN Oldest(matching) ELSE Oldest(Available(r))

AllLinked(r) == Cardinality(req[r].linked) = Len(req[r].ident)

\* There is a row left, and its amount was not changed.
IsPayable(r) == Available(r) # {} /\ RowFor(r).amount = Entry(r)[2]

RefuseEntry(r) ==
    /\ req[r].pc = "link"
    /\ ~AllLinked(r)
    /\ ~IsPayable(r)
    /\ Fail(r)

\* The row is marked as paid.
LinkRow(r) ==
    /\ req[r].pc = "link"
    /\ ~AllLinked(r)
    /\ IsPayable(r)
    /\ Free(r, {RowFor(r).id})
    /\ Go(r, [req[r] EXCEPT !.linked = @ \union {RowFor(r)}])
    /\ UNCHANGED <<rows, nextId, price, charged, log, reported, user, faults>>

LinkedTotal(r) == FoldSet(LAMBDA x, n : n + x.amount, 0, req[r].linked)

\* The items that would not be compared with the payment.
SumsUnchecked(r) == req[r].ident # <<>>

\* An identifier without entries cannot be parsed; or the items do not sum to
\* what was paid.
SumsAgree(r) == req[r].ident # <<>> /\ LinkedTotal(r) = req[r].amount

RefuseTotal(r) ==
    /\ req[r].pc = "link"
    /\ AllLinked(r)
    /\ ~SumsAgree(r)
    /\ Fail(r)

\* The log is linked to the payment, and everything is committed.
CommitPayment(r) ==
    /\ req[r].pc = "link"
    /\ AllLinked(r)
    /\ SumsAgree(r)
    /\ rows' = Saved(rows, {[x EXCEPT !.paid_in = req[r].id] : x \in req[r].linked}
                       \union {NewRow(req[r].id, Payment, req[r].amount, req[r].tx)})
    /\ log' = [log EXCEPT ![r] = req[r].id]
    /\ Finish(r)
    /\ Unlock(r)
    /\ UNCHANGED <<nextId, price, charged, reported, faults>>

-----------------------------------------------------------------------------
(* The form for optional items.                                             *)

\* has_paid: who has paid may not change anything.
CheckUnpaid(r) ==
    /\ req[r].pc = "new"
    /\ IF Total(PaymentIds) > 0 THEN Finish(r) ELSE Goto(r, "clear")
    /\ UNCHANGED <<rows, nextId, price, charged, log, reported, user, faults>>

\* apply_preferences deletes the rows for optional items...
ClearExtras(r) ==
    LET ids == {i \in DOMAIN rows : rows[i].item \in Extras}
    IN  /\ req[r].pc = "clear"
        /\ Free(r, ids)
        /\ Go(r, [req[r] EXCEPT !.pc = "apply", !.doomed = ids])
        /\ UNCHANGED <<rows, nextId, price, charged, log, reported, user, faults>>

\* ...and set_preference creates one for each item that was chosen, after it
\* has deleted what another form has committed for the item by then.
ApplyPreferences(r) ==
    /\ req[r].pc = "apply"
    /\ \E S \in SUBSET Extras :
       \E again \in SUBSET {i \in DOMAIN rows \ req[r].doomed : rows[i].item \in S} :
           LET chosen == SetToSeq(S)
               Ordered(k) == NewRow(nextId + k - 1, chosen[k], ExtraPrice, None)
           IN  /\ Free(r, again)
               /\ rows' = Saved([i \in DOMAIN rows \ (req[r].doomed \union again) |-> rows[i]],
                                {Ordered(k) : k \in DOMAIN chosen})
               /\ nextId' = nextId + Len(chosen)
    /\ Finish(r)
    /\ UNCHANGED <<price, charged, log, reported, user, faults>>

-----------------------------------------------------------------------------
\* An administrator changes the price of the admission.
ChangePrice ==
    /\ price' \in Prices \ {price}
    /\ UNCHANGED <<rows, nextId, charged, log, reported, req, user, faults>>

\* The worker dies; an open transaction is rolled back.
Crash(r) ==
    /\ req[r].pc \notin {"new", "shown", "done", "died"}
    /\ faults < MaxFaults
    /\ faults' = faults + 1
    /\ End(r, "died")
    /\ Unlock(r)
    /\ UNCHANGED <<rows, nextId, price, charged, log, reported>>

Page(r) == MakeIdentifier(r) \/ LookForAdmission(r) \/ EnsureAdmission(r) \/ ShowTotal(r)
Postback(r) ==
    \/ LockUser(r)
    \/ RefuseRepeated(r) \/ Bank(r)
    \/ RefuseEntry(r) \/ LinkRow(r)
    \/ RefuseTotal(r) \/ CommitPayment(r)
Form(r) == CheckUnpaid(r) \/ ClearExtras(r) \/ ApplyPreferences(r)

Next ==
    \/ \E r \in Pages : Page(r) \/ Pay(r)
    \/ \E r \in Postbacks : LogPostback(r) \/ Postback(r)
    \/ \E r \in Forms : Form(r)
    \/ \E r \in Requests : Crash(r)
    \/ ChangePrice

\* A worker that can go on goes on.  Weak fairness is enough: a request runs
\* once, so that a row it waits for is free for good in the end.
Fairness ==
    /\ \A r \in Postbacks : WF_vars(Postback(r))
    /\ \A r \in Forms : WF_vars(Form(r))

Spec == Init /\ [][Next]_vars /\ Fairness

-----------------------------------------------------------------------------
(* Properties.                                                              *)

\* "A repeated notification from the payment processor cannot be banked twice"
\* (record_payment_from_identifier): every payment on record is a charge of
\* the same amount, no charge is recorded twice, and each has the one postback
\* in the log that brought it.
BankedOnce ==
    /\ \A i \in PaymentIds : \E c \in charged : c.tx = rows[i].tx /\ c.amount = rows[i].amount
    /\ \A i, j \in PaymentIds : rows[i].tx = rows[j].tx => i = j
    /\ \A i \in PaymentIds : Cardinality({r \in DOMAIN log : log[r] = i}) = 1
    /\ \A r \in DOMAIN log : log[r] # None => log[r] \in PaymentIds

\* When a payment is recorded, the rows that are marked as paid by it sum to
\* its amount, whatever pages and forms change the rows meanwhile.
PaymentCovers ==
    [][\A p \in DOMAIN rows' \ DOMAIN rows :
           rows'[p].item = Payment =>
               FoldSet(LAMBDA i, n : n + rows'[i].amount, 0, {i \in DOMAIN rows' : rows'[i].paid_in = p})
                   = rows'[p].amount]_vars

\* "It's too late, so do nothing" (ensure_required_transfers): a row that has
\* been paid is never paid again by another payment.  Only a page that read the
\* admission before it was paid, with an amount that is no longer the price,
\* writes over it and takes the mark away.
PaidOnce ==
    [][\A i \in DOMAIN rows \intersect DOMAIN rows' :
           rows[i].paid_in # None /\ rows'[i] # rows[i] =>
               \E r \in Pages :
                   /\ req[r].pc = "ensure" /\ req'[r].pc = "total"
                   /\ \E x \in req[r].seen : /\ x.id = i /\ x.paid_in = None /\ x.amount # price
                                            /\ rows'[i] = [x EXCEPT !.amount = price]]_vars

IsLinked(r) == r \in DOMAIN log /\ log[r] # None

\* Every postback that reaches the site is recorded or mailed to the treasury,
\* unless its worker died.
PostbacksSettled ==
    \A r \in Postbacks :
        r \in DOMAIN log ~> (IsLinked(r) \/ r \in reported \/ req[r].pc = "died")

-----------------------------------------------------------------------------
(* The inductive invariant.                                                 *)

\* A record with the fields of a row, of a request.
IsRow(x) == x \in [id : {x.id}, item : {x.item}, amount : {x.amount}, paid_in : {x.paid_in}, tx : {x.tx}]

IsRequest(f) == f \in [pc : {f.pc}, ident : {f.ident}, amount : {f.amount}, tx : {f.tx}, id : {f.id},
                       seen : {f.seen}, linked : {f.linked}, doomed : {f.doomed}]

\* The shape of the state: tables are functions, rows and requests records.
TypeOK ==
    /\ nextId \in Nat
    /\ rows = [i \in DOMAIN rows |-> rows[i]] /\ DOMAIN rows \subseteq Nat
    /\ log = [r \in DOMAIN log |-> log[r]] /\ DOMAIN log \subseteq Postbacks
    /\ req = [r \in Requests |-> req[r]]
    /\ \A r \in Requests : IsRequest(req[r])
    /\ user \in Postbacks \union {None}

\* The rows in the table and the copies, maybe outdated, that requests hold.
Known == {rows[i] : i \in DOMAIN rows} \union UNION {req[r].seen : r \in Requests}

\* Ids that nextId has given out are not given to anything else: the copies of
\* a row agree on its item and, for a payment, on everything but the mark.
KnownOK ==
    /\ \A i \in DOMAIN rows : rows[i].id = i
    /\ \A x \in Known : /\ IsRow(x) /\ x.id \in Nat /\ x.id < nextId
                        /\ x.item = Payment => x.id \in DOMAIN rows
    /\ \A x, y \in Known :
           x.id = y.id => /\ x.item = y.item
                          /\ x.item = Payment => x.amount = y.amount /\ x.tx = y.tx

\* What the requests of each kind hold on to.
HoldingsOK ==
    /\ \A r \in Requests :
           /\ req[r].linked \subseteq {x \in req[r].seen : x.paid_in = None}
           /\ req[r].pc # "link" => req[r].linked = {}
           /\ \A i \in req[r].doomed : i \in Nat /\ i < nextId /\ i \notin PaymentIds
    /\ \A r \in Pages : \A x \in req[r].seen : x.item = Admission

\* A postback between the check for a repetition and its commit has the lock,
\* so that the check, and the rows it has found unpaid, are still up to date.
PostbackOK(r) ==
    /\ req[r].pc \in {"lock", "bank", "link"} =>
           /\ r \in DOMAIN log
           /\ \E c \in charged : c.tx = req[r].tx /\ c.amount = req[r].amount
    /\ req[r].pc \in {"bank", "link"} => user = r
    /\ req[r].pc = "link" =>
           /\ ~IsRecorded(req[r].tx)
           /\ req[r].id \in Nat /\ req[r].id < nextId
           /\ \A x \in Known : x.id # req[r].id
           /\ \A q \in Requests : req[r].id \notin req[q].doomed
           /\ \A x \in req[r].seen :
                  x.paid_in = None /\ x.id \in DOMAIN rows => rows[x.id].paid_in = None

PostbacksOK ==
    /\ \A r \in Postbacks : PostbackOK(r)
    /\ \A r \in DOMAIN log : log[r] # None => req[r].pc = "done"

LedgerInv == TypeOK /\ KnownOK /\ HoldingsOK /\ PostbacksOK /\ BankedOnce
=============================================================================
