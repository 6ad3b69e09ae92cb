# memship: a TLA+ verification of the back end

memship is a membership management system: a FastAPI back end over PostgreSQL
(SQLAlchemy, one session per request), a Celery worker with a nightly schedule,
and a web front end. Its own logic is in `src/backend/app/domains`; the part
where mistakes cost money is `domains/billing`, and most of this project is about
it; the seats of `domains/activities`, the slots of `domains/bookings` and the
announcements of `domains/communications` follow. Paths below are relative to
`src/backend/app` unless they start with `docs/` or `src/`.

## The system

| Component | State it keeps | Operations | What is hard |
|---|---|---|---|
| Receipts (`domains/billing/service.py`) | status, amounts, `remittance_id` | create, edit, emit, pay, return, cancel, re-emit | many handlers write the same status; the batch it is in must follow |
| SEPA remittances (`remittance_service.py`, `sepa_xml.py`) | status, counters, history rows, a file on disk | create, generate file, submit, import returns, close, cancel | a long protocol with the bank outside it; a file that is not transactional |
| Mandates (`mandate_service.py`) | one active mandate per party | create, cancel | withdrawn between two steps of a batch |
| Document numbers (`sequences.py`, `service.py`) | a counter per year and series, a global counter | draw a number | concurrent transactions, first number of a year, rollback, stale reads |
| Payment notifications (`api/v1/endpoints/webhooks.py`, `webhook_service.py`, `providers/`) | `webhook_events`, the receipt | receive, retry, confirm | duplicates, reordering, retries, crashes, unlocked reads, a blocked event loop |
| Membership purchase, lapse and restore (`membership_purchase_service.py`, `lapse_service.py`) | a member's plan, the plan it lost | purchase, activate, expire, revert, restore | several receipts act on one plan |
| Recurring billing (`recurring_billing_service.py`, `service.py`) | a fee per member and period, `billing_runs` | the nightly run, an administrator's run, fees by hand | concurrent runs, a failed run and its retries, one transaction for several periods |
| Reminders (`reminder_service.py`) | overdue marks, reminder rows | a nightly pass | order of the passes, a queued reminder that is lost |
| Activity registrations (`domains/activities/registration_service.py`) | seat counters, waitlist, discount uses | register, cancel, promote | capacity under concurrency, receipts of a cancelled registration |
| Space bookings (`domains/bookings`) | bookings of a slot, FIFO waitlist, receipts | book, cancel, promote | slot lock, stale status, receipt that cannot be voided |
| Announcements (`domains/communications`, `tasks/communication_tasks.py`) | recipients and their outcome | send, fan out, retry | at-least-once task, audience resolved again |
| Members, persons, accounts, settings, reports, mailing, front end | records | CRUD, queries, rendering | little state of their own; not modelled |

How they interact. Requests, provider notifications and nightly jobs all write
the same `receipts` rows, each in one database transaction. Paying a receipt
also moves the payer's plan, in the same transaction. A remittance reads
receipts and mandates again at every step. After its commit a handler queues
mails on Celery, best effort. The API is one uvicorn process whose synchronous
handlers run in a thread pool, while the webhook handler runs on the event loop.

What makes each part correct: a batch, its counters, its history, its file and
its receipts tell the same story and each debt is asked for once; document
series have no gap and no duplicate; a notification is applied exactly once and
none is lost; a plan is granted and withdrawn for the receipt that says so; a
slot or an activity is never over its capacity and the waitlist is served in
order; an announcement reaches each recipient once.

## The modules

- `ReceiptStatus`: the status words of receipts and remittances and the moves
  between them, shared by every billing module.
- `DebtLedger`: the abstract promise of SEPA collection: a debt is claimed by at
  most one batch, a sent claim is given up only for a debt that came back, and
  closing a batch settles what it still claims.
- `EventLedger`: the abstract promise to a provider, without processes, locks or
  attempts: what an event did to the receipt and its being settled are one step, taken
  once and for good; an event is acknowledged and a payment confirmed only after it.
- `SlotLedger`: the abstract promise of a slot, without requests, locks or loaded
  rows: a booking gets a seat while there is one, or else a place at the end of the line;
  who leaves a seat passes it to the first in line whose tier lets them in, in the same
  step; what a closed slot held is gone. The only ones overtaken are those the promotion
  looked at first and found without their tier (`excused`, the `barred` of whoever
  holds the slot).
- `PeriodLedger`: the abstract promise of recurring billing, without savepoints or
  locks: a transaction bills its members and closes its periods in one step, and a
  period that is closed, and not raced for, is billed by nobody again.
- `Collection`: receipts, remittances, files and mandates. One action per
  handler, job or provider notification; a handler runs in one transaction and is
  one step. A refusal (HTTP 4xx) changes nothing and is the absence of the step.
  A receipt is its status, total and `remittance_id`. What only restricts who
  may be chosen is left free: any unpaid receipt may fall past due, be a plan
  purchase or be past its time limit; a batch whose collection date is past is
  one nobody moves. A fee run that raises several receipts is several steps.
  Cancelling a booking's receipts (`void_booking_receipts`) is `CancelReceipt`.
  `GenerateXmlRolledBack` and `LoseFile` are the ways file and rows can part.
- `DocumentNumbers`: `next_yearly_number`, `generate_receipt_number` and
  `generate_remittance_number` while transactions run concurrently, one step
  per statement that may block or that reads what others write. `WaitsFor` is who
  waits for whose lock; that nobody waits for one who waits is proved, not run.
- `Webhooks`: `receive_webhook`, `webhook_service` and the providers' handlers,
  with several API processes, redeliveries, a handler that fails, crashes, and
  *desks*: any other transaction that reads one receipt, checks the transition
  and writes it (an office request or a nightly job). `LoopOf` says in which API
  process a desk's request runs, or that it is a job of the worker. Batches are
  left out here. That the event loop is one thread shows in `LoopIsFree`: a failed
  request's session is closed when the loop gets to it.
- `Bookings`: one upcoming slot with its bookings, waitlist and receipts. A
  request reads before the lock in one step (`LoadCancel`, `LoadDelete`), takes
  the slot's lock and decides in another (`Book`, `Cancel`), and commits or rolls
  back in a third. `ahead` is the order of `waitlisted_at`; `was` and `room` are the status and
  the capacity a cancellation loaded before it locked, which the lock does not
  refresh. `highest` is auxiliary. The voiding of receipts is part of the commit.

- `Membership`: a member's plan and the receipts that give it and take it away:
  `purchase_membership`, `activate_purchased_membership`, the purchases that expire,
  `revert_lapsed_members`, `restore_reverted_membership`, and the administrator who
  moves members, the default plan and what is on sale. One step is one transaction.
  Days are two sets, the receipts past due and the fees past the cutoff of the grace
  period. `tier` and `parked` are `membership_type_id` and
  `membership_reverted_from_id`; `given` and `disturbed` are auxiliary.
- `FeeRuns`: the transactions that raise membership fees, several open at once.
  `StartFrequency` is `run_billing` up to its savepoint, `Check` and `RaiseFee` are
  the look for a fee of the period and the insert under the lock of the number
  series, `FailFrequency` rolls back to the savepoint, `LogRun` writes the row of
  `billing_runs`, and `Commit` shows it all to the others. A receipt of the period that a
  purchase or an administrator has written (`purchase_membership`, `create_receipt`)
  makes `Check` pass the member over (`other`); it is no fee and is not counted. `found` is the row the run
  loaded: the ORM updates that row and inserts one where it found none, and the unique
  index keeps the second of two inserts waiting. `raced` is auxiliary: the periods
  two transactions raise that no row keeps apart.
- `Registrations`: one activity's seats. `Register` decides under the locks of the
  code and the capacity rows and is one step. `cancel_registration` and
  `admin_change_status` lock no seat: `Load` is what they read, `Finish` their commit,
  `Abandon` their failure, and `Written` the columns the ORM writes, those that are not
  as loaded. The row of a code is locked and counted only in `Finish`, and the unique
  index of a party's live registration (`OnlyLive`) refuses there too. A receipt written
  by hand for a registration is the receipt `Ensure` may find and leave. `overtaken`
  is auxiliary: a transaction has committed on what others had changed by then.
- `Announcements`: `send_announcement` in two steps, as it takes no lock, and
  `send_announcement_task`, which resolves its audience, mails one member and
  commits the outcome, again and again (`Start`, `Mail`, `Record`, `Complete`).
  `Fail` is an exception with its retry, `Kill` a worker that dies, `Redeliver` a
  delivery the broker takes for lost while it runs. `seen` and `doubled` are
  auxiliary.

They share the receipts but no variables: a receipt is a row with its batch in
`Collection`, what a notification pays in `Webhooks`, what a plan hangs on in
`Membership`, what a run raises in `FeeRuns` and what bills a seat in
`Registrations` and `Bookings`. Each module keeps every handler that writes what it
is about, and lets the others' handlers move the receipt as they may.

Each `MC...` module gives the constants their values for a bounded instance,
each `...Proofs` module holds the theorems about its component.

Definitions preceded by "Mutant" are plausible mistakes in the code they stand
next to. No specification uses them: each is there to be put in the place of the
definition it mutates, to see that a property really depends on that code.

## The runs

| Run | Configuration | What it shows |
|---|---|---|
| `collection` | 2 receipts, one payer, 2 batches, amounts 0 and 1 | `OpenCountersAgree`, `HistoryMatchesLinks`, `HeldAmountsStand`, `NoStrandedDebt`, `HeldIsInFile`, `SentRecordFrozen`, `OnlyReturnsLeaveSentBatch`, and that Collection implements DebtLedger |
| `numbers` | 3 transactions, 2 years, both reset modes, 2 receipts each | `Unbroken`, `NoFalseCollision`, and under fairness `EveryRequestEnds` |
| `webhooks` | 2 API processes, a worker job, a capture and an expiry for one receipt, 1 fault | `AppliedAsRecorded`, `AcknowledgedIsSettled`, `ConfirmedOnce`, `PaidIsAccounted`, that Webhooks implements EventLedger, and under fairness `EveryEventSettles` |
| `bookings` | 2 requests at a time, 3 members with 4 bookings, 1 or 2 seats | `NeverOverbooked`, `PromotedInOrder`, `CancelVoids`, and that Bookings implements SlotLedger |
| `membership` | 1 member, 2 receipts, 2 priced plans, 2 free ones | `HoldsGiven`, `NeverChased`, and under fairness `PurchaseEnds` |
| `registrations` | 3 people, 3 rows, one modality of one seat, a code with one use, 2 receipts, 2 transactions at once | `CountersAreTheRows`, `OnlyForced`, `BilledOnce` |
| `announcements` | 2 members, 2 requests to send, 2 deliveries, a retry, a fault | `SentWasMailed`, `MailedOnce`, and under fairness `FanOutEnds` |
| `feeruns` | 2 members, 2 frequencies, 2 transactions at once, 3 in all | `BilledOnce`, and that FeeRuns implements PeriodLedger |
| `collection_settled` | 1 batch is enough | violates `NoSettledReceiptInOpenBatch` |
| `webhooks_late` | no desk | violates `NoAuthorisationDropped` |
| `bookings_seat` | one seat | violates `SeatIsPassedOn` |
| `registrations_line` | cancellations only, registrations that state a modality or none | violates `NobodyPassedOver` |

The bounds. Two receipts and two batches are enough for a receipt to leave one
batch and join another while a second receipt stays; amounts 0 and 1 are the one
that may not be collected and one that may. Three transactions are the fewest where
one fails, one waits for the first of a year and one reads after both; two years
and two receipts each make locks overlap. Two processes deliver one event twice
at a time while the job locks its receipt; one fault is a handler that fails or a
process that dies at any point.
One member holds a seat while two wait, and the fourth booking is a member's
second: the fewest with which an order can be broken and a member can hold two.
Other handlers move one booking's receipt (`Handled`), and one member's tier changes
(`MayChange`).
In `Membership` one member is enough, as nothing of one member's plan depends on
another's; two receipts are a fee and a purchase, or two of either, and two priced and
two free plans let every plan be left for another of its kind; an administrator puts
members on a priced plan or on a free one, also under a parked plan. In `Registrations` one
person holds the only seat of the modality, one waits and one comes; capacities of one
and two make the activity, the modality or neither the tighter one; two changes of
status are the fewest that overtake each other. In `Announcements` the second request
resolves before the first commits, the second delivery runs beside the first, and the
one retry may be of either. In `FeeRuns` two transactions race while the third retries
what they left; a scheduled run bills both frequencies and an administrator's only one.
One change (`MaxChanges`, `MaxTurns`) is a plan, a fee or a member that moves between
what a transaction reads and what it writes.
Deadlock is not checked because every model really may stop: when receipts and
batches have all ended, when every transaction has, when no retry is left, or, in
`Webhooks`, when a process waits for a lock nobody will release. That requests, events,
purchases and tasks do not wait for ever is stated by the liveness properties.

Fairness. `DocumentNumbers`: weak fairness of each request, as the server runs
what it has accepted and PostgreSQL hands a released lock to a waiter.
`Webhooks`: strong fairness of each process's step, since a lock may be taken by
others while it waits but row locks are queued in order; of a desk's end (a
commit, or the close of its session once the loop may run it); and of
redelivery of what was not acknowledged, which both providers promise for long
enough. Faults are finitely many. `Membership`: weak fairness of the nightly job, which
the schedule starts every night, and of the days that pass. `Announcements`: weak
fairness of each delivery, which a worker takes and goes on with; nothing makes an
exception end, but `max_retries` is finite.

### What the violations show

Each is a disagreement between the code and what its docs, comments or
docstrings say; PROJECT.json quotes the lines.

- `NoSettledReceiptInOpenBatch`: registration cancellation and provider payments
  do not take the receipt out of a batch that is still open.
- `NoAuthorisationDropped`: an expired Stripe session returns a receipt that
  another attempt may still pay, and that payment is then ignored.
- `SeatIsPassedOn`: a cancellation decides whether it frees a seat from the
  status loaded before the slot's lock; a booking promoted in between frees its
  seat and nobody gets it.
- `NobodyPassedOver`: the guide says that the waitlist is promoted in order when a
  place is freed. A cancellation looks only among those who wait for the modality
  of the freed place, so a seat of the activity that somebody of another modality
  could take is left to whoever registers next, in a plain sequence of requests.

### Known departures no run shows

Met while modelling, each at a line PROJECT.json lists as a hazard or a module's
comment names. They need no run of their own: some are what an auxiliary variable
excuses, some are outside the models.

- The counters of a batch whose file exists still follow releases, while no second
  file can be generated, so the record of what was sent can be smaller than the file.
- `SELECT ... FOR UPDATE` on an organisation row the session has loaded already does
  not refresh it: the number drawn may be taken. In the same year it is refused; with
  the annual reset off it is given out a second time under another year.
- An unlocked read followed by a blind write can undo a payment, so that a second
  capture is not seen to be the second.
- A failed request keeps its row lock until the event loop closes its session; a
  notification handled on that loop and waiting for the lock blocks it. The run of
  `EveryEventSettles` has a worker's job as its desk; with a request of the same process
  in its place (`LoopOf`) the property fails.
- Moving or retiring the default plan while members have a plan parked, or putting such
  a member on the free tier by hand, can lose it (`disturbed`): the restore takes the
  free tier they hold for a newer choice, or what was chosen for the lapse's.
- Two requests to send an announcement at once both find a draft and both mail; a
  member who joined after the send has no row, is mailed by the task and mailed again by
  a retry (`doubled`, `HasRow`).
- Two retries of a failed fee run at once both bill: only an insert is kept apart by
  the index, an update is not. Fees raised by hand during a run bill twice as well
  (`raced`).
- The second of two runs that insert the same row loses every frequency it has billed
  in that transaction.
- Two cancellations or changes of status at once write the activity's counters over
  each other (`overtaken`).
- `create_receipt` takes a registration or a membership period as the administrator gives
  it and looks for no receipt that stands: one written by hand on top of what is billed
  already bills twice. `purchase_membership` looks for no fee of the period either.

## The proofs

TLAPS proves, for every value of the constants (from the assumptions named in
the modules only):

- `CollectionProofs`: `Inductive`, that `IInv` holds always, hence `TypeCorrect`,
  `CountersAgree`, `HistoryAgrees`, `AmountsStand`, `NothingStranded` and
  `FileCoversBatch`. The invariants explain each other, which is why they are proved
  together: a batch not created yet holds nothing because the history agrees with the
  links; its file covers what it holds because nothing joins a batch after it is
  created and held amounts stand; no debt is stranded because closing settles every
  held status that may still be expected. From these, the action properties
  `SentRecordsFrozen` and `SentBatchKeepsItsReceipts`, and `Implements`, the
  refinement of `DebtLedger`, with one lemma for the handlers that only move debts,
  one for those that release, and one per step of a batch.
- `DocumentNumbersProofs`: `SeriesUnbroken`, `NoNumberRefused` and
  `NumberingNeverDeadlocks`. The inductive invariant adds who holds which lock and
  that what a transaction has drawn is exactly what it has written (`DrawnIsWritten`):
  a commit then extends the series by an interval that starts where it ended, and a
  rollback gives back the whole interval. That requests never wait in a circle follows
  from the order in which they lock (`LocksInOrder`, the organisation's row before a
  year's): whoever is waited for waits for nobody. This is the safety half of
  `EveryRequestEnds`.
- `WebhooksProofs`: `AppliedExactlyOnce`, `AcknowledgedOnlySettled`,
  `ConfirmedAtMostOnce`, `PaymentsAccounted`, `SettledForEver` and
  `WebhooksImplement`. The inductive invariant adds that a process at work on an event
  holds its row (`RowsAreHeld`), that receipt locks belong to who wrote the receipt
  (`LocksAreHeld`, `DeskLocksAreHeld`), and what is settled after a commit
  (`AfterwardsSettled`). For the refinement of `EventLedger` every step is a commit
  that settles an event, an answer, a confirmation, or another transaction's move of
  the receipt, and the steps between are stutters; that a settled event stays so
  (`SettledIsFinal`) is part of it and has no run of its own.
- `BookingsProofs`: `SlotNeverOverbooked`, `OneBookingEach`, `PromotionInOrder`,
  `CancellationVoids` and `BookingsImplement`. The inductive invariant adds that who
  decides holds the slot (`LockIsHeld`), that what was found about a row and about the
  line still is so at the commit (`InsertIsFree`, `PromotionStands`), that whoever is
  about to take a seat counted one (`SeatIsThere`), and that the line is an order
  (`LineIsTotal`). That a cancellation voids what it loaded needs that a booking
  loaded as booked is not back in line at the commit (`LoadedStands`) and that nobody
  promotes the booking they cancel (`NobodyPromotesSelf`). In the refinement of
  `SlotLedger` a commit is the seat, the place in line or the departure that was
  decided under the lock and still holds then; the slot is there as long as somebody
  holds it (`DecidesOnSlot`). One row per member and slot (`OneRowEach`) is proved,
  not run.
- `MembershipProofs`: `PlanIsNeverLost` and `PurchaseNeverChased`. The inductive
  invariant adds that a parked plan of a member nobody disturbed is the plan given,
  and that the free tier is on sale as long as it parks one: a restore then never
  takes the free tier for a newer choice.
- `FeeRunsProofs`: `OneFeePerPeriod`, `BilledPeriodIsClosed` and `FeeRunsImplement`.
  Of a period nobody raced for, the inductive invariant says that a run which found
  the row of a failed run, and fees by hand, are alone (`Apart`); that whoever is
  about to raise a fee finds none, unless a row has come up meanwhile that will refuse
  the run's own (`RaisesNew`); and, of every period, that one transaction at most has
  written its row (`OneWrites`) and that a failure is recorded only where there was no
  row (`FailureIsNew`), so that a billed period never fails again (`OncePerPeriod`,
  proved, not run). The refinement of `PeriodLedger` adds that a frequency which
  failed has raised nothing since its savepoint (`Savepoints`): the commit is then the
  one step that bills.
- `RegistrationsProofs`: `CountersCountTheRows`, `PlaceBilledOnce` and
  `SeatsKeepToCapacity`. The inductive invariant adds that what a transaction has read
  still stands as long as nobody overtook it (`Fresh`), and that at most one receipt
  stands for a registration (`OneStands`). The counters are cardinalities of sets of
  rows, and a few lemmas say what a commit adds to and takes from each set.
- `AnnouncementsProofs`: `SentOnlyMailed` and `RetryResumes`. The inductive invariant
  adds that a mail goes before its mark (`OutIsMailed`), that whom a delivery has left
  has no row that says sent (`LeftIsUnsent`), and that a member without such a row has
  no mail seen through to its commit (`UnsentIsUnseen`).

Only model-checked: the liveness properties (`EveryRequestEnds`, `EveryEventSettles`,
`PurchaseEnds`, `FanOutEnds`), which are beyond the prover, and the four violations, which
are statements about one instance. Every other property of a run is a theorem.

## Not modelled, and why

PDF, e-mail and XML layout are formatting; signatures, rate limits, roles and
permissions decide whether a request is served and keep no state of the
protocols above; persons, custom fields, reports and settings are records and
queries; the front end keeps nothing the back end relies on. In what is modelled,
left out: credit notes, VAT and discounts (arithmetic on one receipt), checkout
creation and refunds (calls to the provider), the provider's amount check (an
ignored event), mandate references; of bookings, dates, hours, series, the week view
and e-mails; of registrations, consents, eligibility, dates, the counter of a price,
which caps nothing, and the receipts written by hand for a registration
(`create_receipt` with a `registration_id`), which `BilledOnce` does not count; of announcements, the in-app notification and its being read; of fee
runs, the day a frequency is due, prorating, and the receipts of a period that no run
writes (`create_receipt`, `purchase_membership`), of which only their being there is kept.

The implementation counts some 39,000 lines, and what is modelled is the part with a
protocol: what reads, decides and writes while others do. Most of the rest is
endpoints and services that check a permission and write one row, schemas, queries,
templates of mails and documents, seeds, and screens. A model of those would be their
transcription.

In `Collection` a handler is one atomic step. Two handlers that read the same
receipt at once are the subject of `Webhooks`, for one receipt; two
concurrent batch creations over one receipt are not modelled yet.

## Plan

Done: `Collection`, `DocumentNumbers`, `Webhooks`, `Bookings`, `Membership`, `FeeRuns`,
`Registrations` and `Announcements`, with their proofs, and four refinements. Next:

1. Abstract promises of `Membership` (a plan follows its receipts), `Registrations` (a
   seat and its counter are one step) and `DocumentNumbers` (a series grows by whole
   intervals), and their refinements.
2. Reminders: which one is due, and one that is recorded, queued and then lost.
3. A concurrent `create_remittance`, to be composed with `Collection`.
4. Two purchases by one member at once, in `Membership`.
5. In `Bookings`: what a deletion leaves behind, and an edit of the allow-list.
6. Credit notes issued at once for one receipt.
