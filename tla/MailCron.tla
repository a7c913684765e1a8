------------------------------ MODULE MailCron ------------------------------
(***************************************************************************)
(* Bulk email: the communications panel stores a MessageRequest             *)
(* (commmodule.commfinal), and dbmail_cron.py, started by cron(8), turns it  *)
(* into one TextOfEmail for every address (process_messages) and hands the   *)
(* texts to the mail server (send_email_requests).                           *)
(*                                                                           *)
(* Everything but process() runs in autocommit, so a step is a statement or  *)
(* a call to the mail server.  A cron process may die at any point.  The     *)
(* subject and body of a message, and the MessageVars that only rendering    *)
(* reads, are left out; processed_by and sent_by are null, as the panel      *)
(* leaves them.                                                              *)
(***************************************************************************)
EXTENDS Integers, FiniteSets

CONSTANTS
    Messages,     \* rows of MessageRequest
    Addresses,    \* email addresses
    Recipients,   \* message -> the addresses that sendto_fn gives for its users
    Crons,        \* processes running dbmail_cron.py
    None,         \* no process, message or text
    Retries,      \* EMAILRETRIES
    BatchSize,    \* batch_size
    MaxCrashes,   \* bound: how often a cron process dies
    MaxErrors     \* bound: how often process() raises an exception

ASSUME MailAssumption ==
    /\ IsFiniteSet(Messages)
    /\ IsFiniteSet(Addresses)
    /\ Recipients \in [Messages -> SUBSET Addresses]
    /\ None \notin Messages \union Crons
    /\ Retries \in Nat
    /\ BatchSize \in Nat \ {0}
    /\ MaxCrashes \in Nat
    /\ MaxErrors \in Nat

VARIABLES
    request,    \* message -> "absent" or the column processed
    author,     \* message -> where the request to commfinal is
    old,        \* messages created more than a week ago
    texts,      \* TextOfEmail rows: id -> its columns sent and tries
    serial,     \* message -> how often process() has begun, for the ids
    attempts,   \* id -> calls of send_mail for the text
    lock,       \* the process that holds espweb.dbmailcron.lock
    cron,       \* what every cron process is doing
    crashes,    \* deaths of cron processes so far
    errors      \* exceptions in process() so far

vars == <<request, author, old, texts, serial, attempts, lock, cron,
          crashes, errors>>

\* A text is identified by its message, its address and the call of process()
\* that created it.
TextIds == Messages \X Addresses \X (Nat \ {0})

Stopped == [pc |-> "stopped", todo |-> {}, msg |-> None, addrs |-> {},
            made |-> {}, cutoff |-> {}, left |-> 0, batch |-> {},
            mailtxt |-> None]

Unsent == [sent |-> FALSE, tries |-> 0]

Init ==
    /\ request = [m \in Messages |-> "absent"]
    /\ author = [m \in Messages |-> "start"]
    /\ old = {}
    /\ texts = <<>>
    /\ serial = [m \in Messages |-> 0]
    /\ attempts = <<>>
    /\ lock = None
    /\ cron = [c \in Crons |-> Stopped]
    /\ crashes = 0
    /\ errors = 0

mailVars == <<texts, serial, attempts>>
faults == <<crashes, errors>>

-----------------------------------------------------------------------------
(* commfinal, and time.                                                     *)

\* createRequest saves the new row, which cron can see from then on, and
\* goes on to create the MessageVars.
CreateRequest(m) ==
    /\ author[m] = "start"
    /\ request' = [request EXCEPT ![m] = "unprocessed"]
    /\ author' = [author EXCEPT ![m] = "saved"]
    /\ UNCHANGED <<old, mailVars, lock, cron, faults>>

\* newmsg_request.save(): every column is written again, from the object
\* that commfinal holds.
SaveAgain(m) ==
    /\ author[m] = "saved"
    /\ request' = [request EXCEPT ![m] = "unprocessed"]
    /\ author' = [author EXCEPT ![m] = "done"]
    /\ UNCHANGED <<old, mailVars, lock, cron, faults>>

\* A week has passed since the message was created.
Age(m) ==
    /\ request[m] # "absent"
    /\ m \notin old
    /\ old' = old \union {m}
    /\ UNCHANGED <<request, author, mailVars, lock, cron, faults>>

-----------------------------------------------------------------------------
(* dbmail_cron.py.                                                          *)

\* The process goes on with the given fields.
Go(c, fields) == cron' = [cron EXCEPT ![c] = fields]

\* The process ends, and with it its lock.
Exit(c) ==
    /\ Go(c, Stopped)
    /\ lock' = IF lock = c THEN None ELSE lock

\* A script that does not take the lock.
StartUnlocked(c) ==
    /\ cron[c] = Stopped
    /\ Go(c, [Stopped EXCEPT !.pc = "select"])
    /\ UNCHANGED <<request, author, old, mailVars, lock, faults>>

\* The lock is taken without waiting; a process that does not get it exits
\* at once.
StartCron(c) ==
    /\ cron[c] = Stopped
    /\ lock = None
    /\ lock' = c
    /\ Go(c, [Stopped EXCEPT !.pc = "select"])
    /\ UNCHANGED <<request, author, old, mailVars, faults>>

\* process_messages: the list of messages to process.
SelectMessages(c) ==
    /\ cron[c].pc = "select"
    /\ Go(c, [cron[c] EXCEPT !.pc = "process",
                 !.todo = {m \in Messages \ old : request[m] = "unprocessed"}])
    /\ UNCHANGED <<request, author, old, mailVars, lock, faults>>

\* process() begins its transaction for the next message.
BeginProcess(c) ==
    /\ cron[c].pc = "process"
    /\ \E m \in cron[c].todo :
        /\ Go(c, [cron[c] EXCEPT !.pc = "create", !.msg = m, !.todo = @ \ {m},
                                 !.addrs = Recipients[m]])
        /\ serial' = [serial EXCEPT ![m] = @ + 1]
    /\ UNCHANGED <<request, author, old, texts, attempts, lock, faults>>

\* New rows for the given ids.
WithTexts(ids) ==
    /\ texts' = [t \in DOMAIN texts \union ids |->
                    IF t \in ids THEN Unsent ELSE texts[t]]
    /\ attempts' = [t \in DOMAIN attempts \union ids |->
                    IF t \in ids THEN 0 ELSE attempts[t]]

\* A text that is committed as soon as it is created.
CreateTextAtOnce(c) ==
    /\ cron[c].pc = "create"
    /\ \E a \in cron[c].addrs :
        /\ Go(c, [cron[c] EXCEPT !.addrs = @ \ {a}])
        /\ WithTexts({<<cron[c].msg, a, serial[cron[c].msg]>>})
    /\ UNCHANGED <<request, author, old, serial, lock, faults>>

\* A TextOfEmail and an EmailRequest for the next address, not committed yet.
CreateText(c) ==
    /\ cron[c].pc = "create"
    /\ \E a \in cron[c].addrs :
        Go(c, [cron[c] EXCEPT !.addrs = @ \ {a},
                   !.made = @ \union {<<cron[c].msg, a, serial[cron[c].msg]>>}])
    /\ UNCHANGED <<request, author, old, mailVars, lock, faults>>

\* Rendering a text or finding an address raises an exception: the
\* transaction is rolled back and the script ends.
ProcessError(c) ==
    /\ cron[c].pc = "create"
    /\ cron[c].addrs # {}
    /\ errors < MaxErrors
    /\ errors' = errors + 1
    /\ Exit(c)
    /\ UNCHANGED <<request, author, old, mailVars, crashes>>

\* The message is marked processed, and the transaction commits.
CommitProcess(c) ==
    /\ cron[c].pc = "create"
    /\ cron[c].addrs = {}
    /\ WithTexts(cron[c].made)
    /\ request' = [request EXCEPT ![cron[c].msg] = "processed"]
    /\ Go(c, [cron[c] EXCEPT !.pc = "process", !.msg = None, !.made = {}])
    /\ UNCHANGED <<author, old, serial, lock, faults>>

\* One try too many.
EligibleOnceMore(cutoff) ==
    {t \in DOMAIN texts : /\ t[1] \notin cutoff
                          /\ ~texts[t].sent
                          /\ texts[t].tries <= Retries + 1}

\* Texts that send_email_requests sends when the messages of cutoff are too
\* old.  A text has the created_at of its message.
Eligible(cutoff) ==
    {t \in DOMAIN texts : /\ t[1] \notin cutoff
                          /\ ~texts[t].sent
                          /\ texts[t].tries <= Retries}

\* Only full batches.
FloorDiv(n, d) == n \div d

\* math.ceil of the quotient.
CeilDiv(n, d) == (n + d - 1) \div d

\* send_email_requests computes its cutoff and the number of batches, once.
CountBatches(c) ==
    /\ cron[c].pc = "process"
    /\ cron[c].todo = {}
    /\ Go(c, [cron[c] EXCEPT !.pc = "send", !.cutoff = old,
                  !.left = CeilDiv(Cardinality(Eligible(old)), BatchSize)])
    /\ UNCHANGED <<request, author, old, mailVars, lock, faults>>

\* The object that a query returns for the text t.
Loaded(t) == [id |-> t, sent |-> texts[t].sent, tries |-> texts[t].tries]

\* The query is evaluated again for every batch, in no particular order.
FetchBatch(c) ==
    /\ cron[c].pc = "send"
    /\ cron[c].batch = {}
    /\ cron[c].left > 0
    /\ \E B \in SUBSET Eligible(cron[c].cutoff) :
        /\ Cardinality(B) <= BatchSize
        /\ B = Eligible(cron[c].cutoff) \/ Cardinality(B) = BatchSize
        /\ Go(c, [cron[c] EXCEPT !.left = @ - 1, !.batch = {Loaded(t) : t \in B}])
    /\ UNCHANGED <<request, author, old, mailVars, lock, faults>>

\* The next text goes to the mail server: send_mail returns, or it raises an
\* exception (the server may have accepted the text even then).
SendMail(c) ==
    /\ cron[c].pc = "send"
    /\ \E row \in cron[c].batch, outcome \in {"saveSent", "saveTry"} :
        /\ attempts' = [attempts EXCEPT ![row.id] = @ + 1]
        /\ Go(c, [cron[c] EXCEPT !.pc = outcome, !.batch = @ \ {row}, !.mailtxt = row])
    /\ UNCHANGED <<request, author, old, texts, serial, lock, faults>>

\* save() writes the whole row from the object: sent, or one more try.
SaveText(c) ==
    LET row == cron[c].mailtxt
    IN  /\ cron[c].pc \in {"saveSent", "saveTry"}
        /\ texts' = [texts EXCEPT ![row.id] =
               IF cron[c].pc = "saveSent" THEN [sent |-> TRUE, tries |-> row.tries]
                                          ELSE [sent |-> row.sent, tries |-> row.tries + 1]]
        /\ Go(c, [cron[c] EXCEPT !.pc = "send", !.mailtxt = None])
        /\ UNCHANGED <<request, author, old, serial, attempts, lock, faults>>

\* After the last batch the failures are reported and the lock is released.
Finish(c) ==
    /\ cron[c].pc = "send"
    /\ cron[c].batch = {}
    /\ cron[c].left = 0
    /\ Exit(c)
    /\ UNCHANGED <<request, author, old, mailVars, faults>>

\* The process dies.  An open transaction is rolled back, and the operating
\* system drops the lock.
Crash(c) ==
    /\ cron[c] # Stopped
    /\ crashes < MaxCrashes
    /\ crashes' = crashes + 1
    /\ Exit(c)
    /\ UNCHANGED <<request, author, old, mailVars, errors>>

Author(m) == CreateRequest(m) \/ SaveAgain(m) \/ Age(m)

Run(c) ==
    \/ SelectMessages(c)
    \/ BeginProcess(c)
    \/ CreateText(c)
    \/ CommitProcess(c)
    \/ CountBatches(c)
    \/ FetchBatch(c)
    \/ SendMail(c)
    \/ SaveText(c)
    \/ Finish(c)

Next ==
    \/ \E m \in Messages : Author(m)
    \/ \E c \in Crons : StartCron(c) \/ Run(c) \/ ProcessError(c) \/ Crash(c)

Spec == Init /\ [][Next]_vars

\* cron(8) starts the script again and again, and a started script runs.
FairSpec ==
    /\ Spec
    /\ WF_vars(\E c \in Crons : StartCron(c))
    /\ \A c \in Crons : WF_vars(Run(c))

-----------------------------------------------------------------------------
(* Properties.                                                              *)

TextRow == [sent : BOOLEAN, tries : Nat]
LoadedRow == [id : TextIds, sent : BOOLEAN, tries : Nat]

CronState ==
    [pc : {"stopped", "select", "process", "create", "send", "saveSent", "saveTry"},
     todo : SUBSET Messages,
     msg : Messages \union {None},
     addrs : SUBSET Addresses,
     made : SUBSET TextIds,
     cutoff : SUBSET Messages,
     left : Nat,
     batch : SUBSET LoadedRow,
     mailtxt : LoadedRow \union {None}]

\* Types of the database and of the processes.
TypeOK ==
    /\ request \in [Messages -> {"absent", "unprocessed", "processed"}]
    /\ author \in [Messages -> {"start", "saved", "done"}]
    /\ old \subseteq Messages
    /\ DOMAIN texts \subseteq TextIds
    /\ texts \in [DOMAIN texts -> TextRow]
    /\ serial \in [Messages -> Nat]
    /\ attempts \in [DOMAIN texts -> Nat]
    /\ lock \in Crons \union {None}
    /\ cron \in [Crons -> CronState]
    /\ crashes \in Nat
    /\ errors \in Nat

\* "we don't end up with half of the TextOfEmail objects created and half of
\* them not": a call of process() leaves a text for every address of the
\* message or none, wherever the script dies.
AllOrNothing ==
    \A t \in DOMAIN texts : \A a \in Recipients[t[1]] :
        <<t[1], a, t[3]>> \in DOMAIN texts

\* "the caller's responsibility to call this only on emails which have not
\* already been sent": once a text is recorded as sent it is never given to
\* the mail server again, however many cron processes are started.
SentOnce ==
    [][\A t \in DOMAIN texts :
          texts[t].sent => /\ texts'[t].sent
                           /\ attempts'[t] = attempts[t]]_vars

\* "retries = 2 # i.e. 3 tries total": a text is tried at most Retries + 1
\* times, not counting tries whose outcome died with the process.
TriesTotal ==
    \A t \in DOMAIN texts : attempts[t] <= Retries + 1 + crashes

\* The object still agrees with the row it was loaded from, which may be sent.
Current(row) ==
    /\ row.id \in DOMAIN texts
    /\ row = Loaded(row.id)
    /\ ~row.sent
    /\ row.tries <= Retries

\* What a process is entitled to at each point of the script.
RunOK(c) ==
    /\ cron[c].pc = "stopped" => cron[c] = Stopped
    /\ cron[c].pc # "stopped" => lock = c
    /\ cron[c].pc # "create" => cron[c].made = {}
    /\ cron[c].pc = "create" =>
           LET m == cron[c].msg
           IN  /\ m \in Messages
               /\ serial[m] > 0
               /\ \A t \in cron[c].made : t[1] = m /\ t[3] = serial[m]
               /\ \A a \in Recipients[m] \ cron[c].addrs :
                      <<m, a, serial[m]>> \in cron[c].made
               /\ \A t \in DOMAIN texts : t[1] = m => t[3] < serial[m]
    /\ cron[c].pc \in {"select", "process", "create"} => cron[c].batch = {}
    /\ \A row \in cron[c].batch : Current(row)
    /\ cron[c].pc \in {"saveSent", "saveTry"} =>
           /\ Current(cron[c].mailtxt)
           /\ \A row \in cron[c].batch : row.id # cron[c].mailtxt.id

\* The text t has been given to the mail server and not been saved yet.
InFlight(t) ==
    \E c \in Crons : cron[c].pc \in {"saveSent", "saveTry"} /\ cron[c].mailtxt.id = t

\* Every call of send_mail is accounted for: by tries, by sent, by the text
\* being in flight, or by a process that died.
Accounted(t) ==
    /\ t[3] <= serial[t[1]]
    /\ texts[t].tries <= Retries + 1
    /\ texts[t].sent => texts[t].tries <= Retries
    /\ attempts[t] <= texts[t].tries + crashes
                        + (IF texts[t].sent \/ InFlight(t) THEN 1 ELSE 0)

\* One process at a time works on rows that nobody else changes, and no call
\* of the mail server goes missing.
MailInv ==
    /\ \A c \in Crons : RunOK(c)
    /\ \A t \in DOMAIN texts : Accounted(t)

\* Every message, unless a week passes, is processed in the end, and each of
\* its texts sent, or tried Retries + 1 times.
Settled(m) ==
    /\ request[m] = "processed"
    /\ \A t \in DOMAIN texts : t[1] = m => texts[t].sent \/ texts[t].tries > Retries

MailGoesOut ==
    \A m \in Messages : (request[m] # "absent") ~> (Settled(m) \/ m \in old)
=============================================================================
