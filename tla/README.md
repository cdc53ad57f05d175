# A TLA+ model of the billing application

This directory models the part of the application where its own logic is: the
life of an invoice, from the payload that a client or Stripe sends to an invoice
the buyer's platform has judged and somebody has paid, and what surrounds it: the
online payment, the import from Stripe, the parties an invoice names, the
notifications and the page that tells its history. It is read beside `src/apps`.

Contents: [The system](#the-system) - [How the code is modelled](#how-the-code-is-modelled)
- [Modules](#modules) - [Runs](#runs) - [What the runs refute](#what-the-runs-refute)
- [Bounds](#bounds) - [Fairness](#fairness) - [Proofs](#proofs)
- [Not modelled](#not-modelled) - [Plan](#plan)

## The system

A Django application with four gunicorn workers, Celery workers behind a Redis
broker, and PostgreSQL. Three remote parties: FactPulse (which turns an invoice
into a Factur-X PDF and speaks to the *plateforme agréée*, the PA), the PA itself
(seen through FactPulse) and the payment providers.

| Component | Source | State | Operations |
|---|---|---|---|
| Invoice state machine | `billing/services/state_machine.py` | - | `can_transition`, `validate_transition`, `is_editable`, `is_deletable` |
| Invoice service | `billing/services/invoice_service.py` | the `Invoice` row, the audit log | create, update, soft_delete, validate, transmit, mark_paid, cancel, check_auto_cancel |
| Numbering | `billing/services/numbering_service.py` | `NumberingSequence`, `NumberingCounter` | `assign_number` inside the transaction of `validate_invoice` |
| Generation tasks | `factpulse/tasks.py` 70-178, 849-971 | the row, `pdf_file` | `generate_and_validate_invoice`, `generate_source_pdf`, `_handle_factpulse_error` |
| Transmission tasks | `factpulse/tasks.py` 181-375, 515-846 | the row, `pdp_transmission_id`, the `cdar_event` logs | `transmit_invoice`, `poll_cdar_events`, `check_invoice_lifecycle`, the flow fallback, `submit_cdar_paid` |
| E-reporting task | `factpulse/tasks.py` 378-512 | `ereporting_status` | `submit_ereporting_for_invoice` with Celery retries |
| API, portal, MCP tools | `billing/views.py`, `ui/views`, `assistant/tools` | idempotency keys | look the row up, call the service |
| Payments | `payments/services.py`, `payments/providers` | `PaymentEventLog`, `PaymentTransaction` | checkout, provider webhooks, `invoice.paid` |
| Stripe import | `payments/services.py`, `payments/catchup.py`, `payments/providers/stripe`, `ui/views/stripe_sync.py` | `external_id` | import by webhook, by nightly catch-up, by the page; resynchronisation |
| Outgoing webhooks | `webhooks/services.py` | endpoints, deliveries | emit, deliver, retry, disable |
| FactPulse client | `factpulse/client.py` | token cache under a lock | requests, one renewal on 401, polling of a task |
| Payload building | `billing/services/payload_builder.py` | `en16931_data` | lines, VAT breakdown, totals, references, notes |
| Resolution | `billing/services/resolution_service.py`, `payments/providers/stripe/sync.py` | customers, suppliers | look up, create, seed |
| Flow detection | `billing/services/flow_detector.py` | - | customer type, flow, BAR note |
| Timeline | `ui/timeline.py` | - | the entries and the summary of an invoice's page |
| Accounts, OAuth, assistant, dashboards, pages | `core`, `oauth`, `assistant`, `mcp`, `ui` | - | no protocol of their own |

They meet in the invoice row. A request reads it, decides, saves, and *then*
sends a Celery message; a task reads it again, waits for FactPulse for seconds or
minutes, and saves. Nothing locks the row in between: there is no
`ATOMIC_REQUESTS` and no `select_for_update` on invoices. `Invoice.save()` writes
**every** column from the object; `save(update_fields=...)` only the named ones.
The hard part of this code is therefore not any one function but what happens
between a read and the save that goes with it: another worker's save, a crash, a
lost answer, a message that arrives late. `hazards` in `PROJECT.json` lists the
places, line by line.

What makes each part correct:

- **issuance**: an issued invoice has a number and its Factur-X document; numbers
  are unique and without hole; no update is lost; a validation ends;
- **transmission**: the row tells only what happened at the PA, and in the end
  tells all of it; the PA gets an invoice and a payment once; a payment is not
  forgotten; a transmission ends;
- **e-reporting**: a declaration is made, once;
- **content**: whatever is edited, refused, rebuilt or copied, the totals follow
  the lines, the BAR note tells the flow, a credit note names its invoice, and what
  is cancelled was credited in full;
- **payments**: the customer is charged once, and what is collected is recorded;
- **import**: a Stripe document gets one draft in the end, a deleted draft stays
  deleted, and a payment announced for it shows;
- **parties**: requests with one identifier reach one party, and an import does not
  overwrite what a user entered;
- **edges**: the answers under one idempotency key agree, a message is delivered or
  fails at each of its attempts, a call to FactPulse ends, and the page tells each
  event once;
- **all**: the status follows the table of `state_machine.py`.

## How the code is modelled

### The invoice row

`InvoiceRow` has one row, a set of workers, and the broker:

- `row` is the committed row, restricted to the columns that decide anything
  (status, number, version, whether a payment is recorded, which PDF is stored,
  flow id, e-reporting status, deleted). Names, amounts and `en16931_data` are
  left out here: no branch of these modules looks at them. `Drafting` models them.
- `copy[w]` is the Python object worker `w` holds, `pc[w]` where it is. A handler
  is a *read* action (`Open...` or `Take...`, with the guards the code applies to
  the object just read) followed by its *save* actions. A request the guards
  refuse changes nothing and is not an action.
- `Save(w, r)` replaces the whole row by `r`, built from the copy: this is
  `Invoice.save()`. `SaveFields` builds the new row from the *row*, as
  `update_fields` does.
- `queue[t]` counts the messages of task `t`. Celery acknowledges before running:
  a message is delivered once and dies with its worker.
- Sending a message is an action of its own (`SendGenerate`, ...), since it comes
  after the commit: `Crash` in between loses it.
- two history variables: `clean` (no save so far was made from a copy that
  differs from the row in a column that the save writes or that its decision used)
  and `received` (a payment was recorded).

Two constants say what may happen. `Handlers` names the entry points in use
(`"ui"` adds the portal's access to soft-deleted rows), so that a run, or a
theorem, can say which handlers it is about; `Faults` names what may go wrong
(`crash`, `rejected`, `timed_out`, `no_flow_id`, `nack`, `post_save`). `Serialised` says that
the *user requests* on an invoice do not overlap each other, which is what
happens when one person works on it in one tab; tasks, polls and providers always
interleave.

The PA is external and modelled from what the code reads: `flows` (the
acknowledgement of each submission) and `events` (the lifecycle events, in the
order the standard gives them). A submission may be taken and its answer lost
(`timed_out`), or be answered without a flow id (`no_flow_id`: `tasks.py:223` then saves
an empty one, which the fallback does not look for).

A poll reads the row, then the audit logs, then for each event writes the log and
then the status: four kinds of actions, because no transaction joins them.
`check_invoice_lifecycle` runs the same steps as `poll_cdar_events` on one
invoice, so both are `Poll`; `Pollers` says which workers may run one. The
schedule and the follow-ups at 20, 60 and 180 seconds are separate messages, so
two of them can run at once.

### Inbound events

`EventLog` is `handle_webhook` of `payments/services.py`: a provider sends an event
until it is answered; the event is logged under its unique identifier, and a logged
event is a duplicate, whatever became of it. `PaymentEvents` and `StripeImport` are
two instances of it (`Log == INSTANCE EventLog`); their own actions lie between
`LogEvent` and `Processed`, and `Interrupted` is both the exception and the death of
the worker in between. `sent` is a set that only grows, so events arrive in any
order, late, or again.

`PaymentEvents` models a provider by what its `create_checkout` keeps as reference
and by what its `parse_webhook` makes of a notification: three adapters, Fintecture
with and without event identifiers. Each checkout asks for a provider of its own, a
parameter of the request, and looks for the pending transactions of that one only.
`Elsewhere` is the rest of the application: the status may take any step of the table at
any time. `StaleSave` is the rest of the application when it saves a status it decided on
before (a poll, `tasks.py:701`): any status, whatever the row has by then; `trouble`
remembers it, and `MaxMishaps` bounds it.

`StripeImport` has one invoice and one credit note of it at Stripe. The look-up and
the insertion are two actions, and the unique constraint (`Free`) counts deleted
rows, while the look-up (`Live`) does not see them. The nightly job takes its list
of missing documents at once and then imports them one by one. The handlers that read the
row of the invoice and later save every column of it (the edit, the resynchronisation,
the validation, the generation task, `mark_paid`) are one pair of actions, `OpenRow` and
`SaveRow`: they may save any status that may follow the one they read, and undo what was
written in between (`"overwritten"`). Of the statuses of an issued invoice `invoice.paid`
tells apart those it can pay (`payable`), those it cannot (`unpayable`, a ConflictError
that is swallowed) and `paid`. The credit note stays a draft here.

### The content of an invoice

`Payload` translates `payload_builder.py`: lines, the VAT breakdown and the totals in
cents, with the rounding of `Decimal.quantize`. `StripeMapper` translates the mapping
of Stripe's invoices and credit notes, and `FlowDetection` the detection of flows and
BAR notes. `Drafting` applies them in the order of the handlers; its handlers take
turns, since how they interleave is the matter of `Issuance`. A payload may leave a
field out (`Absent`), as the API allows; the form never does. A client of the API may also
state its own totals, with or without an amount due, or its own breakdown, when it creates
an invoice or in an edit without lines; the service keeps what it is given, and `given`
remembers it. A VAT rate is the text it is written with, a value and a number of decimals:
the breakdown groups by the text (`payload_builder.py:101`), so that `'20'`, `'20.0'` and
`'20.00'` are three lines, each rounded. An edit of the references may leave out the type
and may state the invoice it is about, or an empty one: what it states replaces BT-25.

### The edges

`WebhookDelivery`, `IdempotentCreate`, `TokenCache`, `Parties` and `Timeline` share no
state with each other. Each is a module with its own `Init`, `Next` and
specification; `MCEdges` runs the five of them in one configuration (`part` says which
one a behaviour is about).

Variables, or parts of them, whose comment begins with *history* are not in the code:
they remember what a property speaks of. Several properties hold *unless* such a
variable says that something happened which the code does not cater for (`trouble`,
`overlap`, `turned`, `restamped`, `late`, `lost`), or that a client has stated the thing
itself (`given`, `named`). Each of these exceptions is a
departure listed under [What the runs refute](#what-the-runs-refute).

## Modules

| Module | What it is |
|---|---|
| `StateMachine` | statuses and transitions |
| `StatusLifecycle` | the abstract specification: a status that follows the table |
| `InvoiceRow` | the row, the workers and the broker; no behaviour of its own |
| `Issuance` | draft to validated: edit, delete, validate, Stripe's early payment, preview, generation |
| `Transmission` | validated to the end: transmission, PA, polls, payment, cancellation |
| `Ereporting` | the e-reporting task and its retries |
| `InvoiceLifecycle` | the three on one row; implements `StatusLifecycle` |
| `Numbering` | several invoices of one supplier, counters, the row lock, imported numbers |
| `EventLog` | how an inbound event is logged and processed; `INSTANCE`d by the next two |
| `PaymentEvents` | checkouts with one provider or another, sessions, provider events, `mark_paid`, stale saves |
| `StripeImport` | webhook, page, nightly job and the saves of whole rows on two documents |
| `Payload`, `StripeMapper`, `FlowDetection` | the computations on `en16931_data`, as operators |
| `Drafting` | a document and its credit note: create, import, edit, validate, fail, cancel |
| `WebhookDelivery` | messages to one endpoint, attempts, deactivation |
| `IdempotentCreate` | creations with one idempotency key, and its expiry |
| `TokenCache` | threads, the lock, expiry, 401 and polling of the client |
| `Parties` | customers or suppliers: resolution, seeding, edits |
| `Timeline` | the audit log as polls write it, and what the page makes of it |
| `IssuanceProofs`, `NumberingProofs`, `TransmissionProofs`, `LifecycleProofs`, `DraftingProofs`, `PaymentProofs`, `StripeImportProofs`, `EdgesProofs` | theorems |
| `MC...` | symmetry sets and values for TLC; `MCEdges` also the composition of the five edges |

`Issuance` counts in `drawn` the numbers one invoice consumed; `Numbering` has the
counters and all the invoices, and nothing of their lives. They meet in
`ValidateInvoice`, which is one action in the first (one transaction) and three
steps in the second (the lock is taken, the row saved, the transaction ends).

`map` in `PROJECT.json` gives the source lines of each definition. The definitions
marked *Mutation* are wrong on purpose: each is what a plausible mistake would make
of the definition after it, and `mutants` names the property that catches it.

## Runs

| Configuration | Checks | Setting |
|---|---|---|
| `IssuanceRaces` | `IssuedComplete` | no lock, previews, crashes, all errors, the portal |
| `TransmissionRaces` | `BackedByThePA`, `PaymentKeptOnceIssued` | user, provider, credit note, two pollers, every fault; one event, so that `accepted` and `refused` are left to the proof |
| `LifecycleRaces` | `LifecycleTypeOK`, `Consistent`, `ImplementsLifecycle` | every handler on one row, lost answers, until a save is stale |
| `LifecycleLocks` | `NoLostUpdate`, `NumbersWithoutHole`, `DeletedForGood`, `DeclaredOnce`, `LegalTransitions`, `OnlyCrashesStrand` | serialised requests, one poller, refusals and crashes |
| `LifecycleLive` | `VerdictShown`, `SubmittedOnce`, `ReportedOnce`, `PaidStays`, `ProcessingEnds`, `TransmittingEnds`, `EreportingSettles` | serialised requests, an early payment, one poller, refusals, fairness |
| `Numbering` | `RefusedOnlyImports`, `NoHole` | three workers, three invoices, two counters, an imported number in the way of one |
| `Payments` | `TypeOK`, `CollectedIsRecorded`, `ChargedOnce`, `CollectedIsApplied` | two workers, two sessions, each with Stripe or GoCardless, one interruption or stale save, an invoice that starts to be transmitted at any time, fairness |
| `StripeImport` | `TypeOK`, `PaymentKnown`, `DeletedLeftAlone`, `EventuallyImported` | a webhook worker and the nightly job's, which also saves whole rows, a user who deletes, two nights, one failure, fairness |
| `Drafting` | `DraftingTypeOK`, `TotalsFollowLines`, `FlowTold`, `CreditedInFull` | an invoice and a credit note, from the API, with totals and breakdown or without, the form or Stripe, two edits of any kind; 20% written in three ways |
| `Edges` | `EdgesTypeOK`, `Delivered`, `AnswersAgree`, `RequestsEnd`, `StableIdentity`, `OnlySeeds`, `ToldOnce` | the five edges, each on its own |

Read together they say how far the design holds.

- *Without any assumption*: an issued invoice has a number and a document, the row
  never tells of a PA event that did not happen, a payment recorded on an *issued*
  invoice survives every race, two validations never draw the same number, and
  the status leaves the table only by a save made from a stale copy
  (`ImplementsLifecycle`: the abstract status is `lost` from then on).
- *If requests do not overlap*, the status itself works as the lock: `processing`
  keeps the requests out while the generation task works, `transmitting` while the
  transmission does. So no update is lost, numbers have no hole, deletions last, a
  declaration is made once. If moreover every submission is answered, with a flow id and
  without a refusal, only a crash strands an invoice: in `processing` with no task left for
  it, or in `transmitting` with no task, no flow that the fallback will ask for and no event
  that a poll has yet to apply (`OnlyCrashesStrand`). A flow id alone does not count: the
  fallback skips an invoice that has events, and a logged event is never applied again.
- *If no two checkouts overlap, no status is in the way, no event is interrupted and no
  stale copy saved*, a customer is charged once by each provider, and by two only when a
  checkout asked one of them while a transaction of the other was pending. Even with
  overlaps, an event that the log calls processed has confirmed its transaction and paid the
  invoice, or has met a status that cannot be paid, or another handler has saved a stale
  copy over the invoice; reordering and repetition change nothing.
- *Whatever the importers do at once*, a Stripe document has one row and a deleted one
  comes back only by a save of the whole row that was read before. A payment that Stripe
  announced is on the row unless there was none, it could not be paid, or such a save
  overlapped. With a supplier
  configured and fewer failures than nights, it is imported in the end, by whichever
  importer comes through.
- *If the workers also keep running*, validations and transmissions end, the last
  verdict of the PA is shown, and the PA gets the invoice and its payment once.

`WhileClean` stops `LifecycleRaces` at the first stale save: what it checks says
nothing after it, and all the states up to it are explored. In `IssuanceRaces` the
previews are on, and `IssuedComplete` then allows a source PDF on an issued invoice;
with previews off it asks for the Factur-X document, which
`IssuedInvoicesAreComplete` proves.

## What the runs refute

Two runs show the code departing from what the repository says of it; `findings`
quotes the line.

| Configuration | Refutes | Because |
|---|---|---|
| `IssuancePaymentLost` | `PaymentKept` | the generation task's full save erases a Stripe payment recorded while it waited |
| `TransmissionPaidLate` | `PaidStays` | a poll applies an event on an object read before the payment |

The assumptions of the passing runs are there for a reason. Each of these departures
is reached by the model when the constants named are changed, and no configuration is
kept for it:

| Change | Lost | How |
|---|---|---|
| `"preview"` in `LifecycleLive` | `ProcessingEnds` | a preview that read `processing` saves it back after the generation ended (`tasks.py:178`) |
| `"preview"`, asking `pdf = "facturx"` | the Factur-X document | the same save puts the source PDF on a validated invoice, where `views.py:296` promises "validated+: returns Factur-X PDF" |
| `"ui"` in `LifecycleLocks` | `DeletedForGood` | the portal's actions find deleted rows and validate them (`ui/views/invoices.py:192`) |
| `"post_save"` in `LifecycleLocks` | `LegalTransitions` | an exception after the save takes a validated invoice back to draft (`tasks.py:164`) |
| `Serialised = FALSE` in `LifecycleLocks` | `NoLostUpdate` | two edits of one version are both saved: the version is compared before the save, not by it (`invoice_service.py:172`; `docs/api-guide.md:221`) |
| `Serialised = FALSE` in `Numbering` | `NoHole` | two validations of one draft draw two numbers (`invoice_service.py:297`) |
| `"crash"` in `LifecycleLive` | `VerdictShown` | the audit log that marks an event as handled is committed before its status (`tasks.py:679`) |
| `"timed_out"` in `LifecycleLive` | `TransmittingEnds` | an event that arrives while the invoice is back to validated is logged and not applied; after the retry the fallback skips the invoice, which has events (`tasks.py:776`) |
| `"nack"` in `LifecycleLive` | a verdict on the flow of the current attempt | the flow id of the refused attempt stays on the row, and a poll during the next one reads the old answer (`tasks.py:223`) |
| `"timed_out"` in `LifecycleLocks` | `OnlyCrashesStrand` | the same event, logged while the invoice was validated: after the retry neither the events nor the fallback take it out of `transmitting` |
| `"nack"` in `LifecycleLocks` | `OnlyCrashesStrand` | a poll reads the refusal of the old flow and takes the invoice back to validated while the next attempt goes on; a third attempt begins, and the event of the second is logged in between |
| `"no_flow_id"` in `LifecycleLocks`, without `"crash"` | `OnlyCrashesStrand` | an empty flow id is saved and the fallback asks for `pdp_transmission_id__gt=""` (`tasks.py:768`); with `"crash"` the step looks like a crash after the submission |

Three more need no other constant. `EreportingSettles` only speaks of behaviours
that stay at or before `validated`: an invoice transmitted or paid before its
e-reporting task runs is skipped for good (`tasks.py:417`). Event 210 leads to
`refused` (`tasks.py:597`) where the docstring of the poll says `rejected`
(`tasks.py:522`). A counter that comes to an imported number draws it again at every
validation, since the refused save rolls the increment back (`numbering_service.py:44`):
`RefusedOnlyImports` names the numbers this may happen to.

The exceptions of the newer properties, and what else was met while modelling:

| Where | What happens | In the model |
|---|---|---|
| `payments/services.py:116` | two checkouts at once both find no pending transaction and open two sessions, both of which may be paid | `"overlap"` in `trouble` |
| `payments/services.py:119` | a checkout looks at the pending transactions of the provider it asks for: a second provider opens a session beside the first, and both may be paid | `"other_provider"` in `trouble` |
| `tasks.py:701` | a poll saves accepted or refused over an invoice that an online payment has paid meanwhile; the event stays processed | `StaleSave`, `"overwritten"` |
| `payments/services.py:246` | between the confirmation of a transaction and `mark_paid` nothing is pending and the invoice is not paid: a checkout opens another session | `"overlap"` |
| `payments/services.py:247` | `mark_paid` refuses a status that cannot be paid; the error is logged and the event counts as processed | `"conflict"` |
| `payments/services.py:173` | an event whose processing failed is a duplicate when it is sent again | `"interrupted"` |
| Stripe's adapter | `checkout.session.completed` confirms a payment that is still to come, and may fail | `StripeEvent` |
| GoCardless's adapter | events refer to the payment, transactions to the billing request: none is ever confirmed | `GoCardlessReference`, `GoCardlessEvent` |
| Fintecture's adapter | without an event id the second status of a session is taken for a duplicate | `FintectureEvent` |
| `payments/services.py:459`, `tasks.py:121` | a resynchronisation, an edit or a generation saves the whole row it had read: a deletion or a payment in between is undone | `"overwritten"` |
| `payments/services.py:652` | `invoice.paid` meets an invoice that cannot be paid: the ConflictError is swallowed, and the event counts as processed | `"conflict"` |
| `payments/services.py:605` | `invoice.paid` before the row of the invoice exists counts as processed | `"paid_unknown"` |
| `payments/catchup.py:54` | the job asks for documents *created* in the last days, one failing document ends its run, and one that was finalised later than that is not seen, where `CHANGELOG.md:13` speaks of those "finalisées [...] des 3 derniers jours" | `age`, `Abandon` |
| `ui/views/payments.py` | a form saved without a supplier erases the default one, and webhooks and nights skip the account | `"unconfigured"` |
| `mapper.py:133` | a credit note whose invoice has no number yet never names it (BT-25) | `named` |
| `payments/services.py:290` | "no number assigned", where the mapper passes Stripe's number | `Insert` |
| `payload_builder.py:142` | the issue date of an imported invoice is today's, which `mapper.py` says it never is | left out with the dates |
| `mapper.py` | the mapper of invoices ignores discounts and taxes included in the price, which that of credit notes handles | `DraftingAssumption` |
| `invoice_service.py:323` | the flow is detected once and kept, through failed generations and changes of the customer; `flow_detector.py:123` never replaces a BAR note, so that a credit note may tell the flow of its invoice and have another | `turned` |
| `payload_builder.py:155` | an edit that sends references without a type makes an invoice (380) of a credit note | `UpdateReferences` |
| `invoice_service.py:221` | an edit that states a preceding reference of its own, an empty one included, replaces BT-25 of a credit note | `named` |
| `payload_builder.py:86` | totals that are stated without an amount due (the examples of `docs/api-guide.md`) stay without one until a payment is deducted at validation | `TotalsRecord`, `"stated"` in `given` |
| `payload_builder.py:101` | one rate written in two ways makes two lines of the breakdown, rounded apart: the VAT can differ by a cent from that of the grouped lines | `Rate`, `VatLine` |
| `invoice_service.py:450` | an invoice may have several credit notes; the copy keeps its prepayment and amount due | `CancelInvoice` |
| `payload_builder.py` | a supplier whose exemption changes leaves the breakdown of existing drafts behind until their lines are edited | `restamped` |
| `tasks.py:158` | an error after the automatic cancellation takes the credit note back to draft, and its invoice stays cancelled | `late` |
| `resolution_service.py:141` | two payloads with one unknown SIREN make two parties; every later look-up by it fails | `overlap` |
| `billing/views.py:157` | two creations with one key at once both make an invoice; the second answer is an error | `FailToStore` |
| `webhooks/services.py:88` | the three failures that disable an endpoint are those of one message, where `docs/api-guide.md:362` says "3 consecutive failures"; a disabled endpoint still gets the retries that are due | `RecordDelivery` |
| `ui/timeline.py` | overlapping polls log an event twice, and the page shows it twice; a PA that names no documents makes the echo of a second 212 show | `habit`, one poll at a time |

## Bounds

| Constant | Bounds | Values, and why they are enough |
|---|---|---|
| `Workers` | processes | 2, or 3 in `Numbering`: every race here is between one stale reader and one writer; 3 lets a third request in |
| `MaxQueued` (`Issuance`, `Transmission`) | no request starts while a task has this many messages | 1: a second message of a task is sent by requests already started; queues are not bounded otherwise |
| `MaxVersion` | edits | 2: one edit, by a stale or a fresh reader |
| `MaxNumber` | no validation starts once so many numbers were drawn | 2: one number and one too many |
| `MaxFlows` | no transmission starts once the PA has so many flows | 1, or 2 for a retry |
| `MaxEvents` | events published | 1 to 3: 200 or 213, then 201, 210 or 213, then 210 |
| `MaxRetries` | Celery's `max_retries` (3 in the code) | 1: a first attempt, a retry and the giving up |
| `MaxRank` | ranks per counter | 2 |
| `MaxSessions`, `Providers`, `Reached` in `PaymentEvents` | sessions; providers; statuses the rest of the application gives | 2: a retry after a failure, or a second charge, with the same provider or another; Stripe, whose events find their transaction, and GoCardless, whose events do not (Fintecture with event ids behaves as Stripe does, without them its second status is a known exception); transmitting, which cannot be paid |
| `MaxMishaps` | kinds of mishap: an interrupted event, a stale save | 1 |
| `Reached`, `Editors` in `StripeImport` | statuses an issued invoice takes other than by the payment; workers that save whole rows | one that can be paid and one that cannot; the Celery worker, which the nightly job shares |
| `CatchupDays` | nights that see a document (3 in the code) | 2: one to fail and one to catch up |
| `MaxFailures` | handlers that fail or die, settings lost | 1, fewer than the nights |
| `MaxEdits` | edits of a document, a customer or the supplier | 2: an edit before and one after an issue, or two before |
| `MCLineLists`, `MCStripeInvoices`, `MCStripeCreditNotes` | inputs | lines at one rate written in two ways, whose VAT rounds apart, a line at 0% with and without a reason, a product's rate, an unknown rate, a discount, a tax included |
| `MCStatedTotals`, `MCBreakdowns` | what a client of the API states | the totals of the guide's example, without an amount due, and a breakdown in a third writing of 20% |
| `MaxAttempts`, `Messages`, `MaxDeaths` | webhooks | 3 as in the code, 2 messages to one endpoint, 1 death |
| `Creators`, `MaxCreated`, `MaxLives` | creations under one key | 3 requests, 4 invoices, 3 rows of the key: one request in each of two rows and one across |
| `Threads`, `MaxRevocations`, `MaxPolls` | the client | 2 threads, so that one renews while the other waits; 2 revocations, so that a renewed token fails again |
| `Clerks`, `MaxParties` | resolution | 2 workers, one identifier of each kind, 3 parties: two that compete and another |
| `MaxSent`, `MaxReceived`, `MaxSeconds`, `Window` | the timeline | two 212, one event of the buyer, two seconds, and a page of 3 entries that the oldest leaves |
| `reported`, `declared` | history counters | stop at 2: the properties tell 1 from more |

`CHECK_DEADLOCK FALSE`: an invoice at the end of its life (paid and reported, refused,
cancelled), a document that is imported, a message that is delivered and an exhausted
bound all stop the model.

## Fairness

**`LifecycleFairness`.** Weak fairness on the next step of a handler that a worker has
started (`GoOn`): the process runs and its remote calls have timeouts. Strong fairness
on the delivery of a message, since workers become free again and again without
staying free, and the broker's lists are first in, first out; the same for the next
poll, which is periodic. Weak fairness on the PA: it acknowledges what it accepted and
goes on publishing. None on the users, none under `crash`: the code has no recovery
for a message lost with its worker, and no liveness property is claimed there.

**`PaymentEvents`.** Weak fairness on each handler, and on the receipt of each
notification: a provider sends it until it is answered. None on customers, users, the
interruption or stale saves.

**`StripeImport`.** Weak fairness on the handlers, the nightly one included: it goes from
document to document. Strong fairness on the start of the night's run (`CatchUp`): Celery
beat sends it each night, and it waits in the queue while its worker is busy with other
tasks, of which none lasts for ever. None on the webhooks: `EventuallyImported` must hold
when all of them are lost.

**`WebhookFairness`, `TokenFairness`.** Weak fairness on a task that is due and on a post
that is sent (it has a timeout), and on the next step of a thread; strong fairness on
taking the lock, which others release and take again.

## Proofs

Checked by TLAPS for every value of the constants that their assumptions allow, so for
any number of workers, any handlers, faults, bounds and inputs. The assumptions, each
named in the module that declares the constants: `RowAssumption`, `IssuanceAssumption`,
`EreportingAssumption`, `TransmissionAssumption`, `NumberingAssumption`,
`PaymentAssumption`, `ImportAssumption`, `PayloadAssumption`, `DraftingAssumption`,
`WebhookAssumption`, `IdempotencyAssumption`, `TokenAssumption`, `PartiesAssumption`,
`TimelineAssumption`. Every safety property that a passing run checks is a theorem.

`IssuanceProofs`:

- `IssuanceTypeCorrect`: `TypeOK` is inductive (TLC checks these columns in `LifecycleTypeOK`).
- `IssuedInvoicesAreComplete`: `IssuedComplete`, with or without previews. It is not
  inductive: a stale save can only be harmless if the *copies* are complete too.
  `CompleteInv` says so of every copy, with what each program point knows (a copy
  at `generate` has a number, since it was read as `processing`), and that no
  preview runs if none can be asked for.
- `LocksPreventLostUpdates`, `LocksKeepNumbers`, `LocksKeepDeletions`,
  `LocksKeepTransitions`: under `Locked` (serialised requests, no early Stripe
  payment, preview, portal access to deleted rows or error after the save). The
  strengthening `LockInv` says that at most one worker holds a copy it will save,
  that this copy equals the row, and that an invoice in `processing` has at most
  one of: a message to be sent, a message waiting, a task at work.

`NumberingProofs`:

- `NumbersAreUnique`: the unique constraint only ever refuses a number that came
  from outside. The invariant: a worker that has a rank holds the lock of its
  counter, its rank is the committed counter plus one, and no invoice has a rank
  beyond the counter unless its number was imported.
- `NumbersHaveNoHole`: if no invoice is validated twice at once, whatever is
  imported. The invariant adds that the invoice being validated has no number yet,
  so that no committed number is overwritten.

`TransmissionProofs`:

- `TransmissionTypeCorrect`: types, and every flow id on the row or on a copy is one of
  the PA's.
- `PaymentIsKept`: `PaymentKeptOnceIssued`. A stale save loses a payment unless the copy
  it is made from has it too: the invariant says so of every copy that is going to be
  saved whole.
- `BackedByPA`: `BackedByThePA`. A status is saved from a verdict that a poll read
  before: the invariant says of each worker what the verdict it holds is backed by,
  that events are only of an accepted flow, and that what was published stays so.

`LifecycleProofs`, about the three on one row:

- `LifecycleTypeCorrect`: `LifecycleTypeOK`, with the flow ids as above.
- `LifecycleIsImplemented`: `ImplementsLifecycle`, the refinement of `StatusLifecycle`. The
  invariant `Knows` says of each program point what the guards that led there have left
  in the worker's object (a copy at `submit` is `transmitting`). A save that keeps
  `clean` was made from an object whose status is the row's, so that what the guards said
  of the object holds of the row, and `LifecycleEffect` sums up what a step may make of
  the invoice: nothing, a deletion, a payment recorded, a number, a move along the table,
  a payment. Without `post_save`: that error saves a draft over a validated invoice.
- `LifecycleIsConsistent`: `Consistent`, from the same effects, only without `ui` (the portal
  can validate a deleted draft).

The other theorems of `LifecycleProofs` are about what goes wrong only when a save is
stale or a message is doubled. Their hypotheses come in layers, each with an invariant
that rests on the one before:

| Hypotheses | Invariant | Theorems |
|---|---|---|
| `SerialRequests`: user requests do not overlap, drafts are not previewed | `NumberInv` | `LifecycleKeepsNumbers`; without `ui`, `LifecycleKeepsDeletions` |
| `Serial`: and nothing fails after the save of `validated` | `IssuanceTurns` | (for the next rows) |
| `OneReporter`: `Serial`, and neither `nack`, `mark_paid` nor `online_payment`, and one worker that polls | `Sending`, `Reads`, `Accounted` | `LifecycleReportsOnce` |
| `Serial`, and no answer of FactPulse is lost | `Handed` | `LifecycleDeclaresOnce`; without `nack`, `LifecycleSubmitsOnce` |
| the same, with neither `nack` nor `no_flow_id` | `PollsKnow` | `LifecycleStrandsByCrashes` |
| `OnePoller`: `Serial`, and neither `timed_out`, `nack`, `mark_paid`, `online_payment` nor `auto_cancel`, and one worker that polls | `Placed` | `LifecycleMovesLegally`, `LifecycleStaysPaid` |
| `NoEarlyPayment`: and no Stripe payment | `Quiet` | `LifecycleLosesNoUpdate` |
| `NoCrash`: `OnePoller`, and no crash | `Verdicts` | `LifecycleShowsVerdict` |

- `NumberInv`: whoever will save the whole object holds the number that the row has, and
  who holds a deleted one holds it without number. Only a request on a draft draws a number
  or deletes, and one such request runs at a time. What is generated twice, an error after
  the first save having made it a draft again, has kept its number from the first time: no
  object that is saved is older than the number.
- `IssuanceTurns`: one request at a time holds a draft; an invoice that is `processing`
  has one generation, which is a worker about to send the message, the message, or the
  worker that took it; who works on an issued invoice comes after its generation.
  Crashes, payments, lost answers and any number of polls interleave with all that.
- `Sending`, `Reads`, `Accounted`: an invoice whose answers are lost is submitted again, so
  the status of a poll's object is not the row's. Two facts are enough. Once a submission
  has saved its flow the invoice is with the PA and none is going on (`Over`), so that
  nothing takes it out of `paid` but a credit note, for good. And an invoice that is paid
  before it has its flow was deposited by an event, the first one and the only one of its
  kind: that event is logged, so that no poll will apply it again (`PastDeposit`). One of
  the two holds of an invoice that is reported, and neither leaves a way to pay it again.
- `Handed` follows a piece of work from hand to hand and counts it: a message, a worker
  and what has arrived are one in all (`OneOf`), for the declaration and for the
  submission. While it is one, the status keeps the invoice from being generated or
  validated again.
- `PollsKnow`: what a poll holds of an invoice that is still transmitting was read after the
  submission, since there is one (`Handed`). So the invoice waits in `processing` or
  `transmitting` for a piece of work that a worker has in hand or a message announces
  (`Generating`, `Submitting`), then for the acknowledgement of its flow (`FlowWatched`),
  then for its first event, which finds the status it may follow (`EventAwaited`); and
  no step but a crash drops the one before the next is there, for any number of pollers.
- `Placed`: the object of a poll has the status of the row, and a submission that is going
  on is of a `transmitting` invoice. So the two saves that test no transition, the fallback
  of a poll and the end of a failed submission, find the status they were written for.
- `Quiet`: every object that will be saved, or that a save was decided on, has what the
  row has in the columns that count. The status alone takes the place of a lock.
- `Verdicts`: the log marks the first `m` events, in the order in which the PA published
  them (`Ordered`), the row shows the `m`-th, and the poll that has logged one and not
  yet saved it has gone through those before. With the order of the standard, an event
  that may not be applied is one that the row shows or that comes after the payment.

These hypotheses are not there for the prover's sake: with 2 workers, 2 flows and 3 events
TLC finds a counterexample in each case that the table says *lost* (*holds* and *open* are
what it says of that instance, *open* if it did not finish):

| Dropped | `NumbersWithoutHole`, `DeletedForGood` | `DeclaredOnce` | `SubmittedOnce` | `ReportedOnce` | `LegalTransitions` | `PaidStays` | `NoLostUpdate` | `VerdictShown` |
|---|---|---|---|---|---|---|---|---|
| requests do not overlap | lost | lost | lost | lost | lost | lost | lost | lost |
| no preview | lost | lost | lost | lost | lost | lost | lost | lost |
| no `post_save` | proved | lost | lost | lost | lost | lost | lost | lost |
| no `timed_out` | proved | lost | lost | proved | lost | lost | lost | lost |
| no `nack` | proved | proved | lost | lost with 3 flows | lost | lost | lost | lost |
| no `mark_paid`, `online_payment` | proved | proved | proved | lost | lost | lost | lost | holds |
| no `auto_cancel` | proved | proved | proved | proved | lost | holds | lost | holds |
| one poller | proved | proved | proved | lost | lost | lost | lost | lost |
| no Stripe payment | proved | proved | proved | proved | proved | proved | lost | proved |
| no crash | proved | proved | proved | proved | proved | proved | proved | lost |

`OnlyCrashesStrand` is lost with `timed_out`, `nack` or `no_flow_id`. Without the three
other hypotheses (requests that do not overlap, no preview, no `post_save`) it holds with
1 flow and 2 events. None of the other theorems needs that a flow id is there: they hold
with `no_flow_id`. `TransmittingEnds` does not: nothing moves an invoice whose flow id
is empty, unless another pending invoice starts a poll that finds an event for it, which
the model's polls would take for granted. `LifecycleLive` leaves `no_flow_id` out.

`DraftingProofs`, for any payloads, Stripe documents, lines, edits and profiles:

- `DraftingTypeCorrect`, `TotalsAreOfTheLines`, `FlowIsTold` and `CancelledIsCredited`:
  `DraftingTypeOK`, `TotalsFollowLines`, `FlowTold`, `CreditedInFull`, from one invariant
  (`Inv`). The data of a document is always what `Enrich` returns: complete, with totals and
  a breakdown of its lines, at the rates as they are written and at the exemption of its
  supplier, unless a client has stated them or the supplier was changed since (`AllSound`); the BAR note of an issued document tells the flow of its row
  (`BarsTold`); what is cancelled has a credit note that names it (`Cancelled`). The rest
  are lemmas on the operators of `Payload`, `FlowDetection` and `StripeMapper`: what each
  keeps of the data, and that it can be applied twice. Sums over lines and over the
  breakdown need an induction on finite sets; it is made on the set of counterexamples,
  of which a smallest one exists (`FiniteSetTheorems`).

`PaymentProofs`:

- `CollectedStaysRecorded`: `CollectedIsRecorded`. The invariant follows the event: a
  notification that was sent tells what its session has become (`Told`), a session that
  took money had its transaction saved before (`HadLink`, the customer has the link
  from there), a worker that has confirmed knows a transaction that says so (`Knows`),
  and the log inherits it (`Recorded`). That a late failure cannot undo it is
  `FailedSession`: it can only be about a session that has failed.
- `CustomerChargedOnce`: `ChargedOnce`. As long as there is no trouble but a checkout that
  passed over another provider's transaction, two sessions that are chargeable are with two
  providers (`Apart`), and while one is, something keeps checkouts with its provider away
  from it (`Covered`): the checkout that opened it, its pending transaction, the worker about
  to mark the invoice as paid, or the status.
- `PaymentTypeCorrect`: `TypeOK`; the workers and the transactions are about sessions that
  exist (`OfSessions`).

`StripeImportProofs`:

- `DeletedStays`: `DeletedLeftAlone`, an action property. The only insertion needs a
  document without any row; the link of a credit note is saved on a row that has a
  Stripe number, and such a row cannot be deleted (`Waits`); a save of the whole row that
  brings one back was made from another row than there is, and says so (`"overwritten"`).
- `PaymentShown`: `PaymentKnown`. What is saved of a copy that equals the row keeps its
  payment, an invoice that is `paid` has one (`RowType`), and each branch of
  `_handle_invoice_paid` either records it or is one of the exceptions (`PaidInv`).
- `ImportTypeCorrect`: `TypeOK`; what a night has still to import it has read as missing.

`EdgesProofs`, about the five small protocols:

- `OneAnswerPerKey`: `AnswersAgree`. An invoice is in the hands of one worker at most, or
  named by one row, never both (`Attribution`).
- `IdentifiersAreStable`: `StableIdentity`. What an identifier led to still bears it
  (`Leads`), the external one is unique (`ExternalUnique`), and without an overlap what a
  worker looked for in vain is still missing when it creates it (`StillMissing`).
- `ImportsOnlySeed`: `OnlySeeds`, from the same invariant.
- `EdgesTypeCorrect`: `EdgesTypeOK` of the composition, from `EdgesInv`, which adds to the
  types that only what was emitted is posted and answered (`InHand`).
- `NothingToldTwice`: `ToldOnce`. The invariant says that the PA publishes a document of
  ours at most once (`Publications`), that every log tells what the PA or the answer said
  (`Genuine`), and that nothing is logged twice (`LoggedOnce`: a poll passes over what was
  logged when it began, and there is one poll). Then an echo can reflect one log only, that
  of its document, so the page's order (`Newer`, `First`) has nothing to choose: of two logs
  with one subject the event is folded and the answer stays.

Only model-checked:

- the liveness properties: `ProcessingEnds`, `TransmittingEnds`, `EreportingSettles`,
  `CollectedIsApplied`, `EventuallyImported`, `Delivered`, `RequestsEnd` (fairness is out
  of the prover's reach);
- the two refutations, which are counterexamples.

One more simplification: `retries` in `Ereporting` counts over all messages for an invoice,
where Celery counts per message (`tasks.py:378`). A second message only exists after a
validation that follows a late failure (`post_save`), so the two agree without that fault.

## Not modelled

- Names, addresses, texts, dates and units; the PDF, and whether FactPulse finds the
  invoice valid (it accepts or refuses). IBAN and VAT number checks refuse a validation
  without a trace and are left out as refusals, like every check that changes nothing.
- The warnings on a payload that differs from the stored party, and the requests to the
  SIRENE directory.
- The import of products from Stripe and the product catalogue: master data that a line
  is copied from.
- The Stripe App's automatic processing after an import, which is `validate` and
  `transmit` of `Issuance` and `Transmission`; the signature checks of webhooks.
- The audit log but for the entries that polls and the page read; e-mails and signals.
- Dashboards, search and exports: queries.
- Accounts, organisations, authentication and OAuth, the assistant and MCP (they call the
  same services), the demo data and deployment: no protocol of their own.

## Plan

1. Done: `StateMachine`, `InvoiceRow`, `Issuance`, `Transmission`, `Ereporting`,
   `InvoiceLifecycle` refining `StatusLifecycle`, `Numbering`; proofs of issuance and
   numbering.
2. Done: `EventLog`, `PaymentEvents`, `StripeImport`, `WebhookDelivery`,
   `IdempotentCreate`, `TokenCache`, `Parties`, `Timeline`.
3. Done: `Payload`, `StripeMapper`, `FlowDetection`, and `Drafting`, which has credit
   notes and the automatic cancellation on two documents.
4. Done: proofs of `Transmission`, `PaymentEvents`, `StripeImport` and the edges, the
   refinement of `StatusLifecycle` by `InvoiceLifecycle`, the invariant of `Drafting` for
   any inputs, and the safety properties of the whole life under their hypotheses.
5. Left: `OnlyCrashesStrand` for requests that overlap, and the cases that hold on an instance and have no proof, which need an invariant
   that lets the status move under a poll: `ReportedOnce` with lost answers, refused flows
   or credit notes, `VerdictShown` with any payment or a credit note, `PaidStays` with a
   credit note.
