----------------------------- MODULE CardPayment -----------------------------
(***************************************************************************)
(* Paying for a program by credit card: payonline and charge_payment        *)
(* (program/modules/handlers/creditcardmodule_stripe.py) and the accounting *)
(* they call (accounting/controllers.py), for one student.                  *)
(*                                                                          *)
(* Every POST to charge_payment is a request that runs once, in parallel    *)
(* with the others, on PostgreSQL at READ COMMITTED.  The student owes a    *)
(* fee, a required Transfer that exists by the time the page is shown, and  *)
(* the donation chosen on the page.  Amounts are whole numbers, where the   *)
(* code adds floats and compares them with Decimals: cents that floats do   *)
(* not add up to are left out.  So are financial aid, sibling discounts,    *)
(* refunds and the checks of the form that no concurrent request can        *)
(* change (the PO number, missing fields).                                  *)
(***************************************************************************)
EXTENDS Integers, FiniteSets, FiniteSetsExt

CONSTANTS
    Requests,    \* POSTs to charge_payment
    None,        \* no request
    Fee,         \* what the program costs
    Donations,   \* the amounts of the donation form; 0 is no donation
    MaxFaults    \* bound: lost answers of Stripe and deaths of a worker

ASSUME CardAssumption ==
    /\ IsFiniteSet(Requests)
    /\ None \notin Requests
    /\ Fee \in Nat \ {0}
    /\ Donations \in SUBSET Nat
    /\ MaxFaults \in Nat

VARIABLES
    transfers,   \* committed Transfer rows for what is owed: id -> row
    nextId,      \* the id of the next row
    payments,    \* committed Transfer rows for payments, by request
    charges,     \* the charges Stripe has made
    req,         \* what every request is doing
    faults       \* faults so far

vars == <<transfers, nextId, payments, charges, req, faults>>

New == [pc |-> "new", base |-> 0, donation |-> 0, token |-> None,
        doomed |-> {}, loaded |-> {}, linked |-> {}, total |-> 0, target |-> 0]

\* The required Transfer.
FeeId == 1

Init ==
    /\ transfers = [i \in {FeeId} |-> [kind |-> "fee", amount |-> Fee, paid_in |-> None]]
    /\ nextId = FeeId + 1
    /\ payments = {}
    /\ charges = {}
    /\ req = [r \in Requests |-> New]
    /\ faults = 0

-----------------------------------------------------------------------------
(* The account of the student.                                              *)

Amount(ids) == MapThenSumSet(LAMBDA i : transfers[i].amount, ids)

\* totalcost_cents of the request: the page adds the donation to base.
Posted(r) == req[r].base + req[r].donation

amount_paid == MapThenSumSet(LAMBDA r : Posted(r), payments)

amount_due == Amount(DOMAIN transfers) - amount_paid

DonationIds == {i \in DOMAIN transfers : transfers[i].kind = "donation"}

\* Rows that a transaction of r has changed and not committed.
LockedBy(r) == req[r].doomed \union {row.id : row \in req[r].linked}

\* No other transaction holds one of these rows.
Free(r, ids) == \A q \in Requests \ {r} : LockedBy(q) \intersect ids = {}

Go(r, fields) == req' = [req EXCEPT ![r] = fields]

\* A worker that keeps its transaction open after the answer.
FinishedHoldingRows(r) == [req[r] EXCEPT !.pc = "done"]

\* The page with the answer or the error is shown.  An open transaction has
\* been committed or rolled back.
Finished(r) == [req[r] EXCEPT !.pc = "done", !.doomed = {}, !.loaded = {}, !.linked = {}]

\* An exception: the transaction is rolled back.
Rollback(r) ==
    /\ Go(r, Finished(r))
    /\ UNCHANGED <<transfers, nextId, payments>>

-----------------------------------------------------------------------------
(* The browser.                                                             *)

\* The donation that payonline takes for the only one.
amount_donation == Amount({i \in DonationIds : \A j \in DonationIds : i <= j})

\* payonline shows the amount without the donation.
OpenPage(r) ==
    /\ req[r].pc = "new"
    /\ Go(r, [New EXCEPT !.pc = "page", !.base = amount_due - amount_donation])
    /\ UNCHANGED <<transfers, nextId, payments, charges, faults>>

\* The form is submitted with a new token from Stripe.
Post(r, d) ==
    /\ req[r].pc = "page"
    /\ Go(r, [req[r] EXCEPT !.pc = "clearDonation", !.donation = d, !.token = r])
    /\ UNCHANGED <<transfers, nextId, payments, charges, faults>>

\* The same form is submitted a second time (a double click).
Resend(r, q) ==
    /\ req[r].pc = "new"
    /\ req[q].token = q
    /\ Go(r, [New EXCEPT !.pc = "clearDonation", !.base = req[q].base,
                         !.donation = req[q].donation, !.token = q])
    /\ UNCHANGED <<transfers, nextId, payments, charges, faults>>

-----------------------------------------------------------------------------
(* charge_payment.                                                          *)

\* set_preference('Donation...', 0) deletes every donation.
ClearDonation(r) ==
    /\ req[r].pc = "clearDonation"
    /\ Free(r, DonationIds)
    /\ transfers' = [i \in DOMAIN transfers \ DonationIds |-> transfers[i]]
    /\ Go(r, [req[r] EXCEPT !.pc = IF req[r].donation = 0 THEN "check" ELSE "matching"])
    /\ UNCHANGED <<nextId, payments, charges, faults>>

\* set_preference('Donation...', 1, amount) deletes the donations of exactly
\* this amount...
DeleteMatching(r) ==
    LET matching == {i \in DonationIds : transfers[i].amount = req[r].donation}
    IN  /\ req[r].pc = "matching"
        /\ Free(r, matching)
        /\ Go(r, [req[r] EXCEPT !.pc = "insertDonation", !.doomed = matching])
        /\ UNCHANGED <<transfers, nextId, payments, charges, faults>>

\* ...creates one, and commits.
InsertDonation(r) ==
    /\ req[r].pc = "insertDonation"
    /\ transfers' = [i \in (DOMAIN transfers \ req[r].doomed) \union {nextId} |->
           IF i = nextId
           THEN [kind |-> "donation", amount |-> req[r].donation, paid_in |-> None]
           ELSE transfers[i]]
    /\ nextId' = nextId + 1
    /\ Go(r, [req[r] EXCEPT !.pc = "check", !.doomed = {}])
    /\ UNCHANGED <<payments, charges, faults>>

\* The amount in the POST is checked against the records.
CheckAmount(r) ==
    /\ req[r].pc = "check"
    /\ \/ Posted(r) # amount_due /\ Go(r, Finished(r))
       \/ Posted(r) = amount_due /\ Go(r, [req[r] EXCEPT !.pc = "submit"])
    /\ UNCHANGED <<transfers, nextId, payments, charges, faults>>

\* submit_payment: the transaction begins, the payment is created (not
\* committed), and link_paid_transfers computes what it must cover.
SubmitPayment(r) ==
    /\ req[r].pc = "submit"
    /\ Go(r, [req[r] EXCEPT !.pc = "read", !.target = amount_paid + Posted(r)])
    /\ UNCHANGED <<transfers, nextId, payments, charges, faults>>

\* The loop of link_paid_transfers reads the rows...
ReadTransfers(r) ==
    /\ req[r].pc = "read"
    /\ Go(r, [req[r] EXCEPT !.pc = "link", !.total = 0,
                 !.loaded = {[id |-> i, kind |-> transfers[i].kind,
                              amount |-> transfers[i].amount,
                              paid_in |-> transfers[i].paid_in] : i \in DOMAIN transfers}])
    /\ UNCHANGED <<transfers, nextId, payments, charges, faults>>

\* An UPDATE of a row that is outside the transaction.
LinkAtOnce(r) ==
    /\ req[r].pc = "link"
    /\ \E row \in req[r].loaded :
        LET total == req[r].total + row.amount
            rest == req[r].loaded \ {row}
        IN  /\ \A x \in req[r].loaded : row.id <= x.id
            /\ transfers' = [i \in DOMAIN transfers |->
                   IF i = row.id THEN [transfers[i] EXCEPT !.paid_in = r] ELSE transfers[i]]
            /\ Go(r, [req[r] EXCEPT !.loaded = rest, !.total = total,
                   !.pc = IF total < req[r].target /\ rest # {} THEN "link"
                          ELSE IF total = req[r].target THEN "charge" ELSE "done"])
    /\ UNCHANGED <<nextId, payments, charges, faults>>

\* No comparison of the sums after the loop.
LinkUnchecked(r) ==
    /\ req[r].pc = "link"
    /\ \E row \in req[r].loaded :
        LET total == req[r].total + row.amount
            rest == req[r].loaded \ {row}
            last == total >= req[r].target \/ rest = {}
            new == IF row.paid_in = None THEN {row} ELSE {}
        IN  /\ \A x \in req[r].loaded : row.id <= x.id
            /\ new = {} \/ Free(r, {row.id})
            /\ Go(r, [req[r] EXCEPT !.loaded = rest, !.total = total,
                         !.linked = @ \union new,
                         !.pc = IF last THEN "charge" ELSE "link"])
    /\ UNCHANGED <<transfers, nextId, payments, charges, faults>>

\* ...and links those that were not paid, in the order of their ids, until
\* the target is reached.  The UPDATE waits for the row.  When the sums do
\* not agree it raises a ValueError.
LinkTransfer(r) ==
    /\ req[r].pc = "link"
    /\ \E row \in req[r].loaded :
        LET total == req[r].total + row.amount
            rest == req[r].loaded \ {row}
            last == total >= req[r].target \/ rest = {}
            new == IF row.paid_in = None THEN {row} ELSE {}
        IN  /\ \A x \in req[r].loaded : row.id <= x.id
            /\ new = {} \/ Free(r, {row.id})
            /\ \/ last /\ total # req[r].target /\ Go(r, Finished(r))
               \/ /\ ~last \/ total = req[r].target
                  /\ Go(r, [req[r] EXCEPT !.loaded = rest, !.total = total,
                               !.linked = @ \union new,
                               !.pc = IF last THEN "charge" ELSE "link"])
    /\ UNCHANGED <<transfers, nextId, payments, charges, faults>>

\* Stripe refuses a token that has been used, and an amount of nothing.
Accepts(r) ==
    /\ Posted(r) > 0
    /\ \A c \in charges : c.token # req[r].token

Charge(r) == [by |-> r, token |-> req[r].token, amount |-> Posted(r)]

\* The exception is caught inside the transaction, which commits.
RefusedButCommitted(r) ==
    /\ req[r].pc = "charge"
    /\ Go(r, [req[r] EXCEPT !.pc = "commit"])
    /\ UNCHANGED <<transfers, nextId, payments, charges, faults>>

\* The charge is refused (declined, a used token, an error): an exception.
ChargeRefused(r) ==
    /\ req[r].pc = "charge"
    /\ Rollback(r)
    /\ UNCHANGED <<charges, faults>>

\* stripe.Charge.create charges the card and returns the charge.
ChargeCard(r) ==
    /\ req[r].pc = "charge"
    /\ Accepts(r)
    /\ charges' = charges \union {Charge(r)}
    /\ Go(r, [req[r] EXCEPT !.pc = "commit"])
    /\ UNCHANGED <<transfers, nextId, payments, faults>>

\* The card is charged and the answer does not arrive: APIConnectionError.
AnswerLost(r) ==
    /\ req[r].pc = "charge"
    /\ Accepts(r)
    /\ faults < MaxFaults
    /\ faults' = faults + 1
    /\ charges' = charges \union {Charge(r)}
    /\ Rollback(r)

\* The transaction id is saved and the transaction commits.  save() inserts
\* a row again when the UPDATE finds none.
CommitPayment(r) ==
    LET ids == {row.id : row \in req[r].linked}
        Linked(i) == CHOOSE row \in req[r].linked : row.id = i
    IN  /\ req[r].pc = "commit"
        /\ payments' = payments \union {r}
        /\ transfers' = [i \in DOMAIN transfers \union ids |->
               IF i \in ids
               THEN [kind |-> Linked(i).kind, amount |-> Linked(i).amount, paid_in |-> r]
               ELSE transfers[i]]
        /\ Go(r, Finished(r))
        /\ UNCHANGED <<nextId, charges, faults>>

\* The worker dies; an open transaction is rolled back.
Crash(r) ==
    /\ req[r].pc \notin {"new", "page", "done"}
    /\ faults < MaxFaults
    /\ faults' = faults + 1
    /\ Rollback(r)
    /\ UNCHANGED charges

Browser(r) ==
    \/ OpenPage(r)
    \/ \E d \in Donations : Post(r, d)
    \/ \E q \in Requests : Resend(r, q)

Work(r) ==
    \/ ClearDonation(r)
    \/ DeleteMatching(r)
    \/ InsertDonation(r)
    \/ CheckAmount(r)
    \/ SubmitPayment(r)
    \/ ReadTransfers(r)
    \/ LinkTransfer(r)
    \/ ChargeRefused(r)
    \/ ChargeCard(r)
    \/ CommitPayment(r)

Next == \E r \in Requests : Browser(r) \/ Work(r) \/ AnswerLost(r) \/ Crash(r)

Spec == Init /\ [][Next]_vars

\* A worker that can go on goes on.  Weak fairness is enough: a request runs
\* once, so that a row it waits for is free for good in the end.
FairSpec == Spec /\ \A r \in Requests : WF_vars(Work(r))

-----------------------------------------------------------------------------
(* Properties.                                                              *)

\* "Thus, we will never be in a state where the card has been charged without
\* a record being created on the site, nor vice-versa", the second half: a
\* payment on record is a charge of the same amount at Stripe.
RecordedIsCharged == \A r \in payments : Charge(r) \in charges

\* What the records call paid has been paid: a paid_in link leads to a payment
\* on record, whatever was refused, lost or rolled back on the way.
LinksArePayments ==
    \A i \in DOMAIN transfers :
        transfers[i].paid_in # None => transfers[i].paid_in \in payments

\* The payments on record together cover exactly what is linked to them, as
\* long as there has been only one of them: link_paid_transfers raises an
\* error when "Transfers do not sum to target".
FirstPaymentCovers ==
    [][payments = {} /\ payments' # {} =>
          \E r \in payments' :
              MapThenSumSet(LAMBDA i : transfers'[i].amount,
                            {i \in DOMAIN transfers' : transfers'[i].paid_in = r})
                = Posted(r)]_vars

\* No request is running.
Quiet == \A r \in Requests : req[r].pc \in {"new", "page", "done"}

\* The first half of that comment, once no request is running: every charge at
\* Stripe is on record.
ChargedIsRecorded == Quiet => \A c \in charges : c.by \in payments

\* Every request comes to an end, though it holds rows during the call to
\* Stripe: from some time on no request is running.
RequestsFinish == <>[]Quiet
=============================================================================
