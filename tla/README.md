# ESP-Website: a TLA+ verification project

ESP-Website is the Django application that runs Learning Unlimited's
educational programs: students register for classes, teachers and
administrators run them, and money and mail go out on the way. Requests are
served by parallel worker processes on one PostgreSQL database; bulk mail is
sent by a script that cron(8) starts. This project models the parts where
several of these processes meet on shared rows, checks them with TLC on small
instances, and proves the most important results with TLAPS for every
instance.

## 1. Inventory

| Component | State | Operations | Interacts with | Hard behaviour | What makes it correct |
|---|---|---|---|---|---|
| Class registration (`studentclassregmodule.py`, `class_.py`) | `StudentRegistration` rows with an end date, `ClassSection.enrolled_students`, status of sections and classes | `addclass`, `ajax_addclass`, `force_replace`, `clearslot`, `ClassSection.cancel` | accounting, mail, caches | parallel requests, row locks, a derived column | capacity, one section per class, no overlap in time, swaps lose nothing, cancelled sections are empty |
| Login forwarding (`users/models/forwarder.py`) | `UserForwarder` rows | `forward`, `updateTarget`, `follow` | login, merging | chains and circles after long call sequences | the table stays flat and acyclic |
| Merging of accounts (`users/controllers/merge.py`) | every row that refers to a user | `merge_users` | login forwarding | skipped rows, order of steps | both accounts log in as one |
| Bulk email (`dbmail_cron.py`, `dbmail/cronmail.py`, `dbmail/models.py`, `commmodule.py`) | `MessageRequest`, `TextOfEmail` rows, a lock file | `commfinal`, `process_messages`, `process`, `send_email_requests`, `send` | the mail server, cron(8) | crashes, overlapping scripts, retries, batches | all or nothing, sent once, bounded tries, mail goes out |
| Card payments (`creditcardmodule_stripe.py`, `accounting/controllers.py`) | `Transfer` rows and their `paid_in` links; charges at Stripe | `payonline`, `charge_payment`, `set_preference`, `submit_payment`, `link_paid_transfers` | Stripe | lost answers, double clicks, two tabs, locks held during a remote call | what is on record was charged, and the reverse; only what is due is charged |
| Cybersource and optional items (`creditcardmodule_cybersource.py`, `program/views.py`, `accounting/controllers.py`, `studentextracosts.py`) | `Transfer` rows, `CybersourcePostback` log, price of the admission | `cybersource`, `ensure_required_transfers`, `submit_transaction`, `record_payment_from_identifier`, `apply_preferences` | the payment processor | repeated, late and meeting notifications; rows and prices that change while the student pays | no charge banked twice, a payment covers what it pays, nothing lost silently |
| Refunds, financial aid (`accounting/`) | `Transfer`, `FinancialAidGrant` | `process_refund`, grants | Stripe | crash between refund and record | refunded once |
| Class status (`class_.py`, `adminclass.py`) | status of class and sections | `accept`, `reject`, `cancel`, `save` | registration | two writers, save() of a section writes its class | class and section statuses agree |
| On-site registration (`onsite*.py`) | registrations, attendance records | `update_schedule`, check-in and check-out | registration | check, drop and add without a transaction | a student keeps the old class when the new one is refused |
| Class lottery (`program/controllers/lottery.py`) | numpy matrices of preferences, schedules and sections | `fill_section`, `compute_assignments`, `assign_lunches` | registration (saves its result) | many draws in sequence, each trusting the bookkeeping of the earlier ones | capacity and program size, possible schedules with lunch, no seat wasted, priorities in order |
| Class change requests (`program/controllers/classchange.py`) | numpy matrices, then registrations | `fill_section`, `push_back_students`, `save_assignments`, `unsave_assignments` | registration | several passes share seats; students push each other in and out; an undo beside the running site | possible schedules, nobody loses a class for nothing, no seat given twice or wasted, the rounds end, the undo restores |
| Scheduling (`ajaxschedulingmodule.py`, the scripts under `ajaxschedulingmodule/ESP`, `program_settings.py`, `resources/models.py`) | `ResourceAssignment`, meeting times, change log; what every page shows | assign, unassign, swap, clear; poll, apply, reload | automatic scheduler | several administrators with stale pages, lost answers, a pruned log | no room or teacher is booked twice, pages agree with the tables |
| Automatic scheduler (`program/controllers/autoscheduler/`) | a schedule in memory with its history | `check_*`, `perform_action`, `undo`, `optimize_section`, `save` | scheduling | recursion with evictions and reverts; saving a stale result | checks are sound, nothing is left of a failed attempt, a stale result is refused |
| Everything else (teacher registration, surveys, custom forms, tags, themes, printables, mailing lists, caches) | forms and configuration | storing and rendering | | little | see `components` in PROJECT.json |

`components` in PROJECT.json names every part with its sources and the reason
when it is not modelled; `hazards` lists what is hard to test, at its line.

## 2. The database the models share

`ATOMIC_REQUESTS = True` in `django_settings.py` is a top-level setting, which
Django does not read (it belongs to an entry of `DATABASES`), so a view runs
in autocommit except inside `transaction.atomic`. PostgreSQL runs at READ
COMMITTED: each statement sees what was committed before it and the writes of
its own transaction. `select_for_update`, UPDATE and DELETE wait for a row
that another transaction has locked or changed, and locks last until the
transaction ends. The models take one step per statement, or per group of
statements between two points where the interleaving matters. Uncommitted
work is kept in the record of the request, and becomes visible in the step
that commits.

## 3. Modules

| Module | Models |
|---|---|
| `ClassRegistration` | Student class registration and the cancellation of sections |
| `MCClassRegistration` | Its instance for TLC, and the fair specification |
| `ClassRegistrationProofs` | Its theorems |
| `LoginIdentity` | What login forwarding promises (abstract) |
| `UserForwarder` | `forward()` query by query; refines `LoginIdentity` |
| `MergeUsers` | `merge_users`, composed with `UserForwarder` |
| `MailCron` | Bulk email |
| `MCMailCron` | Its instance for TLC |
| `LoginAndMailProofs` | Theorems about `UserForwarder` (the refinement included), `MergeUsers` and `MailCron` |
| `CardPayment` | Payment by credit card |
| `CardPaymentProofs` | Its theorems |
| `Ledger` | The account of a student who pays through Cybersource |
| `LedgerProofs` | Its theorems |
| `Lottery`, `MCLottery` | The class lottery, and its instance |
| `LotteryProofs` | Its theorems |
| `ClassChange`, `MCClassChange` | Class change requests, and their instance |
| `ClassChangeProofs` | Its theorems |
| `AutoScheduler`, `MCAutoScheduler` | Constraints, manipulator and search of the automatic scheduler, and their instance |
| `AutoSchedulerProofs` | Theorems about its checks, its undo and its search |
| `ScheduleBoard`, `MCScheduleBoard` | The scheduling pages, their requests and change log, composed with the saving of the automatic scheduler's results, and the instance |
| `ScheduleBoardProofs` | Its theorems |

Operators that stand before a definition and change it the way a plausible bug
would (`IsFullLate`, `ReadSection`, `StartUnlocked`, `LinkUnchecked`, ...) are
not part of any specification: with one of them in the place of the original
TLC finds the property listed with it in `mutants` violated, which shows that
the property depends on that line of the code.

### ClassRegistration

State: `regs` are the valid "Enrolled" registrations (`end_date` not passed),
`enrolled` the column `enrolled_students`, `cancelled` the status of sections
and classes, `lock` the row locks on them, `req[r]` what worker `r` is doing
together with what its transaction has written and not committed (`dropped`,
`columns`).

| Action | Code |
|---|---|
| `BeginAdd`, `BeginReplace`, `BeginClearslot`, `BeginCancel` | a request arrives at `addclass`, `ajax_addclass` with `force_replace`, `clearslot_logic`, `ClassSection.cancel` |
| `Expire`, `Recount`, `WriteCount` | `unpreregister_student`: the UPDATE, the count made by its signal, the write of the derived column |
| `LockSection`, `LockSubject` | the two `select_for_update` of `addclass_logic`, each with its `cannotAdd` |
| `Register` | `preregister_student` and the commit |
| `ClearStudents`, `SaveSection`, `CommitCancel` | the transaction of `cancel`, with `ClassSection.save` |
| `DeadlockError` | PostgreSQL fails one transaction of a cycle (external) |

`BeginClearslot` starts only when the slot holds a section, since otherwise the
code changes nothing. A grade, a permission or a deadline is a check that no
concurrent request changes, and is left out; so are the text of errors,
mailing list membership and applications.

### LoginIdentity, UserForwarder, MergeUsers

`fwd` is the table `UserForwarder` as a function (its `source` is one-to-one).
A call of `forward` reads (`BeginForward`, `FollowRow`) and then writes in one
transaction (`WriteRows`). `LoginIdentity` has one variable, the account each
login ends up in, and one action; `UserForwarder` refines it with
`identity[u] = Follow(u)`. `MergeUsers` extends `UserForwarder`: `MergeRelated`
is `merge()` on the forwarder rows (a row that breaks the one-to-one
constraint is skipped, as the code does), `StartForward` and `ForwardStep` the
call of `forward`, `Commit` the end of the transaction.

### MailCron

State: `request[m]` the column `processed` of a `MessageRequest`, `author[m]`
where `commfinal` is, `old` the messages over a week old, `texts` the
`TextOfEmail` rows with `sent` and `tries`, `lock` the lock file, `cron[c]`
the local state of a process. `serial` and `attempts` are history variables:
which call of `process()` made a text, and how often it was given to the mail
server.

| Action | Code |
|---|---|
| `CreateRequest`, `SaveAgain` | the two saves of a new message (`createRequest`, `commfinal`) |
| `Age` | a week passes |
| `StartCron`, `Finish`, `Exit` | `dbmail_cron.py`: the lock file, the end of the script |
| `SelectMessages`, `BeginProcess`, `CreateText`, `CommitProcess`, `ProcessError` | `process_messages` and the transaction of `process()` |
| `CountBatches`, `FetchBatch`, `SendMail`, `SaveText` | `send_email_requests` and `TextOfEmail.send` |
| `Crash` | the process dies; the operating system drops its lock (external) |

### CardPayment

One student who owes a fee and may add a donation. State: `transfers` the rows
for what is owed, with `paid_in`; `payments` the committed payment rows;
`charges` what Stripe has done; `req[r]` a POST to `charge_payment`, with what
its transaction has deleted (`doomed`), read (`loaded`) and linked (`linked`).
The actions follow the handler from top to bottom: `ClearDonation`,
`DeleteMatching`, `InsertDonation` (the two calls of `set_preference`),
`CheckAmount`, `SubmitPayment`, `ReadTransfers`, `LinkTransfer`, then the call
to Stripe (`ChargeCard`, `ChargeRefused`, `AnswerLost`) and `CommitPayment`.
`OpenPage` is `payonline`; `Post` and `Resend` are the browser. The form is
valid, the PO number is the student's own and a token is present: no
concurrent request changes these, and without them the handler stops. The fee
exists when the page is shown. Amounts are whole numbers: the code adds floats
and compares the sum with a Decimal, so what cents do to that comparison is left
out. With two donations on record (two tabs can both insert one) the page takes
the first for the only one (`amount_donation`).

### Ledger

One student, one required item (the admission) and optional ones. State:
`rows` are the committed `Transfer` rows by id, `price` the present price of
the admission, `charged` what the processor has taken, `log` the
`CybersourcePostback` rows with the payment each is linked to, `reported` the
postbacks whose failure was mailed, `user` who holds the row lock on the
student, `req[r]` a visit to the page, a postback or a form, with what it has
read (`seen`) and written without committing (`linked`, `doomed`).

| Action | Code |
|---|---|
| `MakeIdentifier`, `LookForAdmission`, `EnsureAdmission`, `ShowTotal` | `cybersource()`: `get_identifier`, then `ensure_required_transfers` (its read and its `save()` apart) and `amount_due` |
| `Pay` | the student and the processor (external) |
| `LogPostback` | `submit_transaction` commits the log; any charge may be notified again |
| `LockUser`, `RefuseRepeated`, `Bank`, `LinkRow`, `RefuseEntry`, `RefuseTotal`, `CommitPayment` | `record_payment_from_identifier` and the end of its transaction; a refusal is an exception, mailed by `submit_transaction` (`Fail`) |
| `CheckUnpaid`, `ClearExtras`, `ApplyPreferences` | `extracosts` and `apply_preferences` |
| `ChangePrice`, `Crash` | an administrator; the death of a worker (external) |

The page calls `ensure_required_transfers` several times; the model does it
once, since what a later call does, another visit that is broken off does too.
`ApplyPreferences` deletes rows that another form has committed for a chosen
item by then (`again`), as `set_preference` does.

### Lottery

The arrays are sets of pairs: `student_sections`, `student_schedules`; a draw
by weight is a choice of any students of the right number, so the weights and
utilities are left out. `FillSection` is `fill_section`, one filter per
operator (`GradeFits`, `WithinLimits`, `IsFree`, `NotInClass`, `KeepsLunch`),
in the order `Before` in which `compute_assignments` calls it; `NextLevel` goes
through the priorities and then the interests; `NextDay` and `AssignLunch` are
`assign_lunches`.

### ClassChange

`FillSection` and `NextLevel` are the passes of `compute_assignments`,
`NextSection`, `PushBack` and `EndRound` the rounds of `push_back_students`
with their queue of students to kick, `SaveAssignments` is `save_assignments`
and `Unsave` `unsave_assignments`. A row of `regs` says whether it was made
since the script began, which is all that the dates are used for. `stage` tells
whether the save had nothing to change (`saved`) or stopped with its error
(`failed`; see the known faults). Two more things in the code are not what they
seem, and are modelled as they are: `random.shuffle` on a two-dimensional array
(`Shuffles`), and an index that selects positions of timeslots instead of
sections (`Entries`).

The site is an environment: `SiteAdds` and `SiteDrops` give any student of
`Active` a row or end it, without the checks before that. It may let more
students in than there are seats, because `isFull` reads the column
`enrolled_students`, which a drop can leave wrong (`ClassRegistration` has that
in full); so nothing is claimed here about how full a section is in the tables.
The column is also what `initialize` takes the seats from, so that `Inputs` may
have columns that do not agree with the rows. What is said about seats
(`NewcomersFit`, `NothingWasted`) is about the arrays, given the column.

Assumed of the input: enrolments clash for nobody, a student requests no section
of a class he or she is in, no section meets in a lunch period (where one does,
`fill_section` fails), and no section has more timeslots than there are sections
(where one has, the index that should be a section is out of range, and the
script stops).

### AutoScheduler

`assigned` is `assigned_roomslots`, `history` the manipulator's history, `stack`
the calls of `optimize_section`. One operator per constraint (`RoomsFree`,
`TeachersAvailable`, `TeachersFree`, `RoomSuits`, `RightLength`, `OverLunch`)
and per check; `PerformAction`, `Undo` and `Revert` are functions on a schedule
and its history. The search has one action per stretch between two calls:
`TrySlot`, `Recurse`, `Returned`, `Compare`, `Return`; `Timeout` may come at
any moment. Times are in minutes. The score is a sum over the sections of a
parameter, the value of where a section starts; the scorers of the code need not
be sums, but no property depends on what the score is.

### ScheduleBoard

The tables `db` (times and booked rooms), the change `log`, and for every
browser its `page`, what it shows (`view`), the last index it has applied
(`last`), the `request` and the `answers` that are under way. Requests are
handled one at a time; they, and polls, take any time, and an answer may be
lost after the request was handled. `Open` serves a page, prunes the log, and
`LastChanged` sets the index afterwards, as the page does. `getChanges` asks
for what is after `last` (`get_log`) and `applyChangeLog` applies any answer
that is under way, in any order. An entry of the automatic scheduler has the name
of a room where others have its id, and a page reads it with `parseInt`: as the
room whose id the name begins with (`Read`, `RoomOfName`). An entry that makes
`scheduleSectionLocal` fail ends the loop over the answer, and the index stays
before it (`CanApply`, `Applicable`): one whose place has no cell, or one for a
section that the page shows at a time without a room (`HalfPlaced`), which is
what a page opened after the schedule was cleared shows. For the same reason
such a section cannot be moved on that page (`Send`). `Handle` is
`ajax_schedule_class` with `ajax_schedule_assignreg`, `ajax_schedule_deletereg`
and `ajax_schedule_swap`; `Answered` reverts the page after a failure.
`autoscheduler_execute` computes a plan that the checks allow and
`autoscheduler_save` saves it later, all or nothing. `AutoScheduler` shows that
what is computed is valid, and `ScheduleBoard` takes any plan from `Plans` that
is. Two variables are history: `overridden` (sections scheduled with the
override) and `stale` (pairs of a page and a section that the change log, for
one of the faults below, does not bring in step: a change without an entry, an
entry that is read as another place, an entry with an index the page is past or
was never told of (`Misses`), an entry deleted before the page has seen it
(`Unseen`), one left out because answers have overtaken each other (`Skipped`),
or a place taken back after the page has moved on in the log). The next entry
for the section that reaches the page takes the pair out of `stale` again.

## 4. Runs

| Run | Expected | Shows |
|---|---|---|
| `registration_add` | pass | Three students, three sections (capacities 1, 2, 0), two workers, onsite users and cancellations: nobody takes a seat that is not there (`NoOverfull`) or one in a section already cancelled (`NoNewStudentsInCancelled`) |
| `registration_replace` | pass | Adds, swaps and drops: `OneSectionPerClass`, `ReplaceIsAtomic`, and every request ends, deadlocked swaps included (`RequestsFinish`) |
| `forwarder` | pass | Four accounts: the table stays `Flat`, a call is one step of `LoginIdentity` (`ForwardingIsOneStep`) |
| `merge` | pass | Four accounts, any sequence of merges: no circle as long as walks are not cut short, which four accounts are too few for (`NoCircularityCommitted`; see the known faults), both accounts share a login (`MergedAccountsShareLogin`) |
| `mail` | pass | Two scripts, a crash, an exception: `AllOrNothing`, `TriesTotal`, `SentOnce`, and all mail is sent or given up unless a week passes (`MailGoesOut`) |
| `card_payment` | pass | Three POSTs with faults: `RecordedIsCharged`, `LinksArePayments`, `FirstPaymentCovers`, and every request ends (`RequestsFinish`) |
| `lottery` | pass | Three students, six sections, all draws: capacities and program size (`LimitsKept`), schedules with lunch (`SchedulesPossible`), no free seat that a student who asked for it could take (`NothingWasted`), priorities in order (`PriorityRespected`), the run ends (`RunEnds`) |
| `class_change` | pass | Four students and one without a request: `SchedulesPossible`, nobody loses a class for nothing (`NobodyLoses`), the passes leave no seat that somebody asked for (`NothingWasted`), newcomers are no more than the seats (`NewcomersFit`), an undo after the save or its error restores (`UnsaveRestores`), and the rounds end (`ScriptEnds`) |
| `autoscheduler` | pass | Depth three, fifty loaded schedules, two sections to optimize: the checks before an action let nothing invalid pass (`ChecksSound`), the schedule stays valid through tries and reverts (`StaysValid`), the history replays (`HistoryReplays`), `SearchEnds` |
| `schedule_board` | pass | Two pages and the automatic scheduler: `NoDoubleBooking`, a page that has applied the log is right (`InStep`), a stale result is not saved (`SaveSound`), pages catch up unless an entry makes them fail (`CatchesUp`) |
| `ledger` | pass | Two pages, two notifications, a form, a price change, a dying worker: `BankedOnce`, `PaymentCovers`, `PaidOnce`, and every notification is recorded or reported (`PostbacksSettled`) |
| `card_lost` | violation | A charge without a record (`ChargedIsRecorded`) |

### Known faults

`card_lost` is the one disagreement between the code and its own comments that
is kept as a run; `findings` quotes it. The models have other faults of the
code as reachable behaviour (the worst are under `hazards`, at their lines). The
properties above are stated so that they say what holds beside them.

* Registration: `enrolled_students` can stay wrong after a drop that counts
  before another request commits; a student whose registration is under way
  survives in a section that is cancelled; two tabs of one student can enrol in
  classes that meet at one time; a full section is refused even with
  `enforce_max` off.
* Accounts: a merge can leave a chain of forwarders, which `follow()` does not
  resolve; `forward(a, a)` saves a circle. `merge()` itself can close a circle
  through the absorber, and it is the walk of `updateTarget` after it that
  opens it again. Each merge can make a chain longer by one row, so that in the
  end a circle has more rows than the walk follows, and is committed. With
  `MAX_DEPTH = 5` twelve accounts and twelve merges are enough: for chains of
  one account each, X<-A, B<-C, A<-B, Q<-P, P<-X, Q2<-P2, P2<-Q, Q3<-P3,
  P3<-Q2, Q4<-P4, P4<-Q3 and then C<-Q4 (absorber<-absorbee). With `MAX_DEPTH`
  set to 2 six accounts are enough, and TLC finds it in seconds; the run
  `merge` has four accounts and the real `MAX_DEPTH`, where it cannot happen.
* Mail: the second save of `commfinal` marks a message that cron has processed
  as unprocessed, and it goes out again.
* Payments: two tabs can both pass the check of the amount due (Stripe); two
  pages at once create the admission twice; the identifier is made before the
  admission exists and lists rows that are paid, so that such payments are
  reconciled by hand; a page that has read an unpaid row can take the mark
  away from it when the price has changed (Cybersource).
* Class change: `save_assignments` looks up sections and students in a QuerySet
  by a `numpy.int64`, which Django refuses with a TypeError, so that the script
  stops at its first changed pair and no result is ever saved (where nothing
  changes there is nothing to save). A shuffled queue that holds a student twice
  leaves a section over-full in what is computed. The undo takes back what other
  users did since the script began, and does not recount `enrolled_students`,
  since `update()` sends no signal.
* Automatic scheduler: `continue` after an evicted section found no place goes
  on with the next evicted section, so that sections can end up unscheduled.
* Scheduling pages: a refused assignment unschedules the section without an
  entry in the log; clearing the schedule clears no times and logs nothing;
  changes between loading a page and its first index are missed; a log that was
  pruned to nothing starts at index 1 again; entries of the automatic scheduler
  carry the name of a room, which pages read as an id: a name that begins with
  the number of another room is shown in that room, any other makes the page
  fail; a page opened after the schedule was cleared shows sections at a time
  without a room, and the next entry for one of them makes it fail; a page that
  fails on an entry fails on it again at every poll and gets no further until it
  is loaded again; polls are sent at an interval whether or not the one before was answered, an old answer takes a page back in
  the log, and one that was asked for later then leaves out entries; requests at
  the same moment can book a room twice. `save()` of the automatic scheduler
  compares times and rooms and not when the rooms are booked, so that a booking
  of an old timeslot in the same room can be left over; `SaveSound` compares what
  a page is given and does not see it either.

### Bounds, and why they are enough

* Registration: two workers at a time, because every race in this code is
  between two transactions, and each worker serves any number of requests one
  after the other. Three sections are the least with two of one class and two
  at one time; capacities 1, 2 and 0 are the boundary, a shared section and
  the special case of `isFull`. Two students fill a section of one seat, three
  one of two seats. Cancellation is in the first run and drops are in the
  second: the theorems on locks and swaps cover all four kinds together.
* Forwarding: four accounts reach every shape that matters to one call (source
  and target, each with an account in front of it); `MAX_DEPTH` is 5 as in
  the code. `merge` takes two different accounts and forwarding requested, as
  the form proposes (`SelfCalls`, `Forwarding`).
* Mail: one message for two addresses; when `SaveAgain` makes it processed
  twice, its four texts need two batches of two, and a batch that is not full
  is reached as texts are sent. `Retries = 1` gives each text a second try.
  One crash and one exception at any point are enough to interrupt any step
  and start again. `MaxCrashes` and `MaxErrors` also express that faults stop
  in the end, without which no mail need ever go out.
* Payments: three requests allow two tabs and a double click together, a fee
  and a donation of different amounts make the sums differ, and one fault at
  any point covers a lost answer and a dying worker. A request is used once,
  so the model ends when all are done; these runs do not look for deadlock,
  and `RequestsFinish` shows that nothing stops half-way.
* Ledger: two visits to the page and two notifications let a charge be notified
  twice, and two charges meet; a form and a change of the price come between
  any two steps. One death of a worker at any point. With one form nobody else
  commits optional items while it works, so that `again` is never non-empty in
  the run; it is in the proofs.
* Lottery: a section of two timeslots that takes a lunch period, a second
  section of its class, a short one at the same time and one in the other lunch
  period are the least with every filter at work; three students compete for
  one or two seats; 125 combinations of wishes and four sets of options (no
  limit, a program size with grade exceptions, a limit of sections, a limit of
  timeslots without the grade check).
* Class change: a section of two timeslots and four short ones, five kinds of
  students in six mixes of four: exchanges of full sections, chains of three,
  students with nothing to lose. The column of enrolments is right or misses a
  student of the long section; with it the seats of a section can be none or
  negative (four students in a section of one seat). `MaxSite = 3` rows made
  or ended by a student with requests and one without are enough for the site to
  end a row of before, make one and end it again.
* Automatic scheduler: depth three is the least at which an evicted section
  evicts another; two rooms, three timeslots with lunch in two of them.
* Scheduling pages: two pages, one with the override, two sections of one
  teacher, two changes. Two changes are enough for a request, a poll and a
  save to overtake each other in every order. One room's name is read as the other room, which can be used at one of two times only, so
  that an entry is shown in the wrong room or makes the page fail. In the run a
  page has one poll under way (`MaxAnswers = 1`), so that answers never overtake
  each other there; the proofs are for any number of them.
* Symmetry (students, workers) is used only in `registration_add`, which has
  no liveness property.

### Fairness

`registration_replace` assumes strong fairness of each worker's steps: a
worker process is scheduled, PostgreSQL queues those who wait for a row, so a
row that is released again and again is granted in the end, and
`deadlock_timeout` finds cycles. `card_payment` needs only weak fairness of
each request's steps: Stripe answers or the call fails, and a row is not
locked for ever by requests that run once. Nothing is assumed of browsers or
of the arrival of requests. `mail` assumes weak fairness of cron(8) starting
the script and of a started script running; crashes and exceptions are not
fair, and authors need not finish. `lottery`, `class_change` and
`autoscheduler` assume that the one computing process goes on (weak fairness of
its steps; in `AutoScheduler` with ENABLED written out). `schedule_board`
assumes that a page polls (`Ask`) and that its polls are answered (`Take`), which
is what `setInterval` does while the page is open; no user need do anything. `ledger`
assumes that a worker that can go on does (weak fairness of postbacks and
forms); pages may be left at any point, and nobody need pay.

## 5. Proofs

The theorems hold for every value of the constants that satisfies the
assumptions that the modules name: any number of students, sections, workers,
accounts, messages, requests and crashes.

* **ClassRegistrationProofs.** The inductive invariant is
  `RegistrationInv = TypeOK /\ ControlOK /\ LocksHeld`. `ControlOK` says which
  fields a request has filled at each point; `LocksHeld` that it still holds
  the rows it has checked and that the section it is adding is not cancelled
  (which is true only because `cancel` needs the same row). From it:
  `RegistrationTypes`, `RowsStayLocked`, `CancelledTakesNobody` and
  `SwapIsAtomic`. `NoSecondSection` assumes that there are no onsite users
  (they may ignore the error of `cannotAdd`, and then take no lock on the
  class) and adds that a request past `LockSubject` still finds its student in
  no section of the class: whoever adds one holds the class.
  `CapacityIsKept` assumes that requests only add and cancel, because the
  proof rests on `enrolled_students` being exact under the section's lock, and
  drops break this (see the known faults). That the capacity also
  holds in other mixes is not claimed.
* **LoginAndMailProofs, accounts.** `ForwarderInv = ForwarderTypeOK /\ Flat /\ CallOK`: since
  the table is flat, a walk follows one row at most, and `CallOK` says what it
  has read at each point. From it `ForwardersStayFlat`, `ForwardingIsAcyclic`
  (flat implies acyclic), and the refinement `ForwardingRefinesIdentity`. The
  theorems assume that callers pass distinct accounts (`SelfCalls = FALSE`),
  since `forward(a, a)` saves a row from `a` to `a`. `MAX_DEPTH` needs to be at least 2.
  Merges do not keep the table flat, so that they need an invariant of their
  own. `MergeInv = MergeTypeOK /\ MergeCallOK` says that nobody forwards to the
  absorbee once `merge()` is done, and that the absorber is among the accounts
  the walk has left or is its end; so both accounts get the same target however
  the walk ends (`MergedAccountsLogInTogether`). `CirclesOpen` adds that every
  circle goes through the absorber until the walk is over, and that a walk
  ends where nobody is forwarded, or has seen a whole circle. This last step
  needs that the walk is not cut short: `MergesLeaveNoCircle` is stated under
  `[]~CutShort`, and without that hypothesis it is false (see the known
  faults). `FewAccountsMakeNoCircle` shows, by counting the accounts that a
  walk has left, that up to `MAX_DEPTH` accounts never cut one short.
* **LoginAndMailProofs, mail.** `MailIInv = TypeOK /\ Finite /\ MailInv /\ AllOrNothing`.
  `MailInv` says that a running process holds the lock file, that objects
  loaded in a batch still agree with their rows (so that a full-row `save()`
  overwrites nothing), that texts in preparation are those of the current call
  of `process()`, and that every call of the mail server is accounted for by
  `tries`, by `sent`, by a text in flight or by a crash. From it `MailTypes`,
  `ProcessIsAtomic`, `TriesAreBounded` and `SentTextsStaySent`.
* **CardPaymentProofs.** `CardInv = Records /\ Charged /\ LinksArePayments`:
  the requests are records (their amounts may be anything), a payment on
  record belongs to a request that is done and was charged, and a request that
  is about to commit has been charged. A form is not changed once it is
  posted, so the charge that Stripe made stays the charge that is recorded.
  From it `RecordsAreCharged` and `LinksLeadToPayments`.
  What the first payment covers needs sums: what is due and what is paid are
  folds over finite sets, and the lemmas about `SumOf` show that such a fold is the
  one function that adds up the elements in any order, by induction over the
  size of the set. `CoverInv` then says that as long as no payment is on record
  the rows that a request has read are unpaid, its running total is the sum of
  the rows it has linked, and what it has to cover is what was posted. From it
  the action property `FirstPaymentIsCovered`.

* **LotteryProofs.** `LotteryInv = LimitsKept /\ SchedulesPossible /\
  NothingWasted /\ LunchOK`. No part is inductive alone: a lunch period stays
  open because a free timeslot is one without a section, which is the
  consistency of schedules; the program size needs that whoever gets a lunch
  was attending before (`LunchOK`); and a draw that leaves out a candidate
  fills the section, which needs that it was not overfull. From it
  `LotteryKeepsLimits`, `LotterySchedulesPossible`, `LotteryWastesNothing`, and
  the action property `LotteryRespectsPriority`.
* **ClassChangeProofs.** `ClassChangeInv` adds three facts to the five
  invariants that the run checks. `PushOK`: a student who is still to be pushed
  back is free at the time of the old section, whoever is kicked out of a
  section is there because of a request, and a round that pushed nobody has
  found everybody placed, so that the rounds end with nobody worse off.
  `SeatsOK`: during the passes the seats that are gone are those that newcomers
  have, and seats below zero are those of the beginning. The rounds need no
  such account: they only put students into sections they had, who are no
  newcomers there, or take newcomers out. `RowsOK`: the rows from before the
  script are all there, valid or ended, so that the undo finds them. From it
  `ScriptKeepsSchedulesPossible`, `ScriptTakesFromNobody`, `PassesWasteNothing`,
  `NewcomersKeepToSeats` and `UnsaveIsExact`. That a student keeps what nobody
  has asked to leave is part of the first. Assumed: `ClassChangeAssumption` and
  `InputAssumption`, which are the assumptions on the input named above.
* **LedgerProofs.** `LedgerInv = TypeOK /\ KnownOK /\ HoldingsOK /\
  PostbacksOK /\ BankedOnce`. Requests keep copies of rows that others change
  or delete, and `save()` writes every column of a copy: `KnownOK` says what
  all copies of a row agree on, `HoldingsOK` that no request has a payment
  among what it is about to delete, and `PostbacksOK` that between the check
  for a repetition and the commit nobody else has recorded the charge or paid a
  row that was read as unpaid, since both need the lock on the student. From it
  `PaymentsAreBankedOnce` and the action property `PaidRowsStayPaid`. The search
  for the invariant corrected `PaidOnce`: it used to say that a page with an old
  copy changes the amount of the paid row, which is so with two pages, but with
  three the page may write the very amount that is there (the others having
  changed the price and paid in between), and takes the mark away all the same.
  Assumed of the form: it offers finitely many items, and neither the admission
  nor payments are among them.
  `AmountsOK` adds what makes the sums mean something: amounts are numbers, a
  request has read each row once, and a mark leads to a payment on record. The
  last part is what keeps the rows of an older payment from being counted for a
  new one. From it `PaymentsCoverTheirRows`: the commit marks exactly the rows
  that were linked, with the amounts that were compared.
* **AutoSchedulerProofs.** `ChecksSuffice`: in every valid schedule what the
  checks of a single action allow leads to a valid schedule. The check of the
  whole schedule is taken apart section by section (`Alone`) and pair by pair
  (`Apart`); each check gives the parts that its action can disturb. It is a
  statement about every schedule in memory, not only those that a search
  reaches (`SearchChecksSound` is the statement about those). `UndoReverts`: one `undo()` gives back the schedule and the history
  from before any action that the checks let pass. It needs that the section
  was in the roomslots that its first one stands for (`InOneBlock`), because
  that is what `undo()` puts it back into; a section that was loaded in other
  roomslots is not given back to them. `ActionsKeepBlocks` shows that actions
  leave sections that way. What is loaded must be that way (`LoadedAssumption`):
  the scheduling pages, where it comes from, take timeslots from a first one on
  until the length is reached; where their rounding and the scheduler's
  tolerance disagree, the theorems about the search say nothing.
  The search is proved with `IInv`: the history is a chain of legal actions
  from the loaded schedule through valid ones to the present one (`Traced`),
  and the calls on the stack are covered (`Covered`): there is a bound on the
  actions that were there when each call began, none for the outermost, and
  undoing what a call has proposed stays below it. A bound and not a count,
  because the statement `continue` after a failed recursion goes on with a list
  of actions that has been reverted already, so that a later revert may undo
  more than the call has done. From it `SearchStaysValid`, `HistoryIsReplayable`
  and `SearchChecksSound`. The reverts and replays are recursive functions of the number of
  actions, so that what they do is an induction over that number, carried out
  by well-founded induction (a least counterexample) and not by the library's
  induction theorems. The score of a schedule is a sum; that it is a number is
  proved in the same way (`SumExists`).

* **ScheduleBoardProofs.** `InStep` speaks of pages that have applied the whole
  log, which is the one moment that is easy to describe; what leads there is
  `IInv`. Of the tables it says that they are a schedule (`IsSchedule`) and that
  teachers are free (`TeachersOK`). Of every pair of a page and a section that
  is not stale: the last entry of the log for the section, if there is one,
  is read as where the section is (`LogTells`); and a page that is behind has an
  entry for the section still before it, or shows where the section is, or, as
  long as its own request is not confirmed, would go back to that place
  (`PairOK`). Of the polls: an answer is a part of the log without a gap
  (`IsSegment`), and an index that the log has not reached tells the page
  nothing (`Reached`). The handlers loop over sections, and their loops are
  recursive functions; an induction over the number of rounds (`Induction`)
  shows once for all of them that each section they touch has changed without
  an entry or has a last entry that tells where it is (`Recorded`, `Served`), and that the
  teachers stay free (`GoodServers`). `CommitStep` then needs nothing else of a
  handler. From the invariant: `NeverDoubleBooked`, `PagesStayInStep`, and the
  action property `SavesAreSound`, which in addition follows `save()` section by
  section. The search for the invariant found that `InStep` held in the run only because
  a page had one poll under way: with two, answers overtake each other and
  entries are left out (see the known faults), which `Skipped` now tells.
  Assumed (`BoardAssumption`): the schedule at the beginning has no conflicts,
  there are finitely many sections, the name of a room begins with the id of one
  room or of none, and plans name places that exist. That no
  two plans of the automatic scheduler clash is checked by its action and not
  assumed.

Only model-checked is liveness (`RequestsFinish`, `MailGoesOut`, `RunEnds`,
`ScriptEnds`, `SearchEnds`, `PostbacksSettled`, `CatchesUp`), which is out of
the reach of the prover. Every other property that a passing run checks is
stated by a theorem.

## 6. Not modelled

See `components` for the list with reasons. In the modelled parts: programs
that use priorities (`use_priority`), schedule constraints other than lunch,
the webapp's fullness by attendance, program caps, financial aid and discounts
in the amount due, rendering of messages, moderators, comments and locks of the
scheduling pages, sections of several timeslots on these pages, requests of two
pages at the very same moment, the weights and scores of the lottery and of
the automatic scheduler, and the cache of `cache_function`, which is taken to
be exact.

Most of the repository (the forms of teachers and administrators, the
handlers that render pages, printables, themes, tags, custom forms, surveys,
and the tests) stores what a user has typed or shows what is stored, one
request at a time; a state machine of it would say what its statements say.

## 7. Plan

1. On-site registration: `update_schedule` on the rows of `ClassRegistration`.
2. Refunds on the rows of `Ledger`, with a crash between the refund and its
   record.
