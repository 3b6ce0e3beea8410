# A verification development of TradeFlow ERP

TLA+ models of the TradeFlow API (`src/apps/api`), the TLC runs that check them on
small instances, and TLAPS proofs of what holds for every instance.

Contents: [the system](#the-system) · [the models](#the-models) ·
[what the runs show](#what-the-runs-show) · [what is proved](#what-is-proved) ·
[where the code differs from its documents](#where-the-code-differs-from-its-documents) ·
[what is not modelled](#what-is-not-modelled) · [plan](#plan)

## The system

TradeFlow is an ERP for distributors: a FastAPI service over PostgreSQL, a Next.js web
client, an Expo client that works offline, and a worker that drains outboxes. A command
is one HTTP request and one database transaction (READ COMMITTED). Concurrent commands
are ordered by `SELECT ... FOR UPDATE` on rows and by `pg_advisory_xact_lock` on named
keys; some handlers share a lock and some do not, which is where most of the hard
behaviour is. Events are append-only; most balances are projections of events that the
handlers maintain by increments.

| component (under `src/apps/api/src/tradeflow_api/`) | state | operations | meets | what makes it correct |
|---|---|---|---|---|
| Orders `sales.py` | order status, revisions | create, revise, submit | approval, holds, mobile drafts | a revision is made once, of what its author saw |
| Quotations `quotations.py` | revisions, approvals, conversion | create, revise, approve, convert | orders, customers | what is converted is what someone else approved |
| Approval and reservation `commercial_approval.py` | approvals, reservation events, reserved quantity, line commitments | approve, invalidate, rebuild | stock, payment | reserve only free stock; projection = events |
| Prepayment `payment_fulfillment.py` | fulfillment orders, coverage, receipts, holds | create, designate, clear, reverse, release, deadline, retry | approval, picking | no unpaid prepaid demand is released; expiry is final |
| Cancellation `order_cancellation.py` | as above | cancel part or all | all of the above | quantities stay partitioned |
| Picking `picking.py` | picks, staged stock, on hand | pick, reverse, rebuild | reservation, dispatch | picked = staged + dispatched, within what was released |
| Dispatch, delivery, corrections, exceptions `dispatch.py`, `delivery_*.py` | custody, deliveries, receipts | dispatch, confirm, correct, return | picking, invoices | every unit is in one place |
| Returns `returns.py`, `return_receipts.py` | authorizations, returned stock | authorize, receive, inspect | delivery, credit | no more returned than delivered |
| Receivables `invoice_posting.py`, `payment_allocation.py`, `credit_notes.py` | invoices, allocations, credit | post, void, allocate, credit | delivery, receipts | allocations within both balances |
| Procurement `purchase_*.py`, `goods_receipts.py`, `landed_costs.py` | requests, orders, receipts, costs | order, receive, reverse | stock | received within ordered; cost shares add up |
| Stock `catalog_inventory.py`, `inventory_*.py` | availability, movements | receive, transfer, adjust, rebuild | all | projection = events; nothing negative |
| Idempotency `command_receipts.py` | command receipts | replay | every command | a repeated command acts once |
| Outboxes and worker `*_outbox.py`, `apps/worker` | events, processing state, handler receipts, receipt documents | emit, poll, claim, handle, fail | deliveries, invoices, object store | each event is handled once, and in the end |
| Mobile `apps/mobile/offline` | drafts, captures and their queues in SQLite | save, capture, synchronize, resolve, replace | orders, deliveries, returns, picks, receipts through the API | nothing is lost or applied twice |
| Master data and views `customers.py`, `organization.py`, `auth.py`, `operations.py`, `customer_statement.py`, ... | rows | edit, read | they refuse commands | only the status and version of a customer are modelled |

Hard behaviours, each at its line in the hazard list of `PROJECT.json`: two orders and
one unit of stock; a payment that clears after its deadline; a reversal around a pick
release; a cancellation of an order on hold; a revision of an order whose approval is
active; handlers that read a status before they lock; a projection that is rebuilt while
it is incremented; worker jobs that overlap, fail and stop; a draft invoice that is posted
while the worker is about to replace it; a command repeated because its answer was lost;
reviews, conversions and receipts that write on what they read without a lock; a delivery
that is corrected while its exceptions are acted on; goods that come back on several paths;
devices that work without a connection while the office works on the same documents.

## The models

A step of a model is a committed transaction of one handler. A refused command (a 4xx,
or a CHECK or key constraint that fails at the write and becomes a 500) rolls back and is
a disabled action. Where a handler tests what it read before it took the lock of what it
writes, and a property depends on that, the handler is split: a request begins with the
locks and reads of its first statements, finishes with the locks of its writes and its
commit, and may fail in between. `PaymentReceipts`, `Receivables` and `Procurement` are
modelled so as a whole; elsewhere only the handlers are split that need it:

- `Reservation`: a cancellation, which reads the fulfillment order it will write without a
  lock (`BeginCancel`, `Cancel`), and the reversal of a receipt, which reads the status of the
  fulfillment orders it will bare (`BeginReversal`, `ReverseReceipt`);
- `Picking`: approval and retry, which read what is on hand and then what is reserved
  (`BeginPromise`, `EndPromise`);
- `InternalStock`: a goods receipt or a first posting that finds no row of the valuation
  (`BeginReceipt`, `FinishReceipt`, `FindNoRow`), and the rebuild, which deletes and then
  replays (`BeginRebuild`, `FinishRebuild`);
- `Custody`: the authorization of a correction (`CheckCorrection`, `PostCorrection`).

| module | models | state ↔ tables |
|---|---|---|
| `Units` | whole units and their totals | quantities and money, `Numeric(18,6)` in the code |
| `AvailableToPromise` | what reservation promises to sales: the abstract specification | – |
| `Reservation` | orders, approval, reservation, cancellation, prepayment, pick release, deadline, retry, receipts | `order` = `sales_orders` + current revision; `approval` = `commercial_approvals`; `commitment` = `sales_order_line_commitments`; `ledger` = net `inventory_reservation_events`; `reserved` = `inventory_reserved_by_sku_warehouse`; `onHand` = eligible `inventory_availability`; `fo` = `fulfillment_orders`, lines, state and coverage; `receipt` = `payment_receipts`; `hold` = `active_sales_order_holds`; `cancelling`, `reversing` = what the cancellations and reversals in progress have read |
| `Picking` | posting, reversing and dispatching picks on top of `Reservation` | `pick` = `pick_postings`, `pick_lines`, `delivery_lines`; `staged`, `transit` = availability at those locations; `dispatched` of `fulfillment_order_state`; `looked` = what an approval or a retry in progress has read on hand |
| `EventHandling` | what the outbox promises to those who react to an event: the abstract specification | – |
| `Outbox` | the two polls of the worker and the handlers they call | `emitted` = `outbox_events`; `status`, `available` = `outbox_processing_state`; `receipts` = `outbox_handler_receipts`; `document` = `delivery_receipt_documents.status`; `job` = the running jobs of the worker: what they selected, in which transaction they are, which handlers found no receipt |
| `DraftInvoices` | what one delivery charges: confirmation, corrections, draft invoices, posting, voiding | `announced`, `done` = events and handler receipts; `accepted` = confirmation and correction lines; `proposal` = requested `delivery_corrections`; `drafts` = `draft_invoices` with their lines; `ledger` = `customer_ledger_entries` |
| `Accounts` | the documents and amounts of one customer's account, as constants | – |
| `PaymentReceipts` | the commands on one payment receipt, split at their row locks | `receipt` = `payment_receipts`, `payment_receipt_status`, `payment_receipt_balances`; `clearings` = cleared `payment_receipt_events`; `cash` = `cash_reconciliation_items`; `collection` = `cod_collections`; `order` = the fulfillment order it covers; `request` = what each running request has read |
| `Receivables` | what one customer owes: posting and voiding of invoices, manual and automatic allocation, credit notes, exposure and its rebuild, split at their locks | `commitment` = approval and `credit_exposure_entries`; `ledger` = `customer_ledger_entries`; `applied` = `payment_allocations`; `balance` = `payment_receipt_balances`; `note` = `credit_notes`; `exposure` = `customer_credit_exposure`; `drift` = what the last rebuild overlooked, a history variable; `task` = what each running request has read |
| `StockCustody` | what deliveries and returns promise about the goods: the abstract specification | – |
| `Custody` | from the staging area to the customer and back: dispatch, confirmation, exceptions and their resolutions, retries, corrections, customer returns, COD charged to the account | `stock` = `inventory_on_hand_by_location`; `valued` = `inventory_valuation`; `delivery` = `delivery_dispatches`, `delivery_state`, the head of the receipt chain and its invoice; `cases` = exception cases and their events; `proposal` = `delivery_corrections`; `returns` = return requests, authorizations and receipts; `conversion`, `charged` = COD conversions and the exposure they add |
| `Procurement` | purchase requests, their conversion, purchase orders, goods receipts, split at their reads and writes | `request` = `purchase_requests` and lines; `order` = `purchase_orders` and lines; `receipt` = `goods_receipt_lines`; `onHand`, `valued` = both projections; `job` = what each running request has read |
| `InternalStock` | opening stock, receipts, transfers, adjustments, the rebuild from the ledger | `ledger` = `stock_movements` per leg; `stock`, `valuation` = both projections; `transfer`, `adjustment` = their rows; `arrival`, `creating` = receipts and other postings in progress that found no row of the valuation; `rebuild` = the one in progress |
| `Quotations` | creation, revision, approval and conversion of quotations, with the command receipts that make them repeatable | `commands` = what users sent, perhaps several times; `quotations`, `revisions`, `approvals`, `conversions` = the tables; `receipts` = `platform_command_receipts`; `customer` = status and version of the account |
| `SalesDrafts` | one sales order drafted on a device, its passes and conflicts, and the office that revises it | `draft`, `outbox` = `sales_drafts`, `sales_outbox` in SQLite; `pass` = the running `syncSalesDrafts`; `wire` = requests under way; `order`, `receipts` = revisions and command receipts on the server; `reference`, `shown` = customer, price list and date, current and cached |
| `DeviceCaptures` | deliveries, returns, picks and payment receipts captured on a device | `captures`, `queue` = `*_captures`, `*_outbox`; `linking` = a replacement between its two transactions; `server` = version, openness and assignment of each subject; `executed`, `reversed` = command receipts |
| `MCReservation`, `MCPicking`, `MCOutbox`, `MCDraftInvoices`, `MCCustody` | model values and symmetry sets of the runs | – |
| `MCFinance`, `MCSupply`, `MCOffice` | two or three components side by side in one run, without shared state | – |
| `UnitsProofs` | lemmas about totals | – |
| `ReservationProofs`, `OutboxProofs`, `CustodyProofs`, `ReceivablesProofs`, `CommercialProofs`, `SupplyProofs`, `OfficeProofs` | proofs; `ReservationProofs` is about `Reservation` and `Picking`, `CommercialProofs` about `PaymentReceipts`, `Quotations` and `DraftInvoices`, `SupplyProofs` about `InternalStock` and `Procurement`, `OfficeProofs` about `SalesDrafts` and `DeviceCaptures` | – |

The actions carry the names of the handlers: `Approve` is `approve_sales_order` with the
creation of the fulfillment order, `Revise` is `update_sales_order_draft` with
`invalidate_active_approval` and `cancel_fulfillment_for_approval`, `Cancel` is
`cancel_sales_order`, `PickRelease`, `Deadline` and `Retry` are the handlers of
`payment_fulfillment.py`, `RecordReceipt`, `RecordCash`, `ClearReceipt`,
`BeginReversal` and `ReverseReceipt` those of receipts, `PostPick`, `ReversePick` and `Dispatch` those of
`picking.py` and `dispatch.py`. `StockIn` and `StockOut` stand for every other module that
moves stock: they look at what is on hand and not at what is reserved.

The worker is modelled at the grain of its transactions, because jobs overlap: the cron
jobs start every 15 seconds, a batch of up to 50 events may take 300 seconds, and the row
locks of the select end with the select. `Poll` is the select, `Claim` the transaction that
writes `processing`, `Begin` and `Commit` the first read and the end of the transaction
that runs the handlers, `Fail` the transaction of the `except` branch. `Begin` of a delivery
job takes the `FOR UPDATE` lock of its event, which is held until `Commit`, `Fail` or the
end of the job; a notification job takes none, and its receipt waits for that lock because
of its foreign key. `Raise` is an error of the object store or the database, `Crash` a
worker that stops or a job that reaches `job_timeout`. `DraftInvoices` sits on the promise
of `EventHandling`: it uses the `Handle` of that module as the worker's one step.

`PaymentReceipts` names the rows a command locks first and those it locks to write
(`FirstLocks`, `WriteLocks`); an insert that references a row shares its key, which `FOR
UPDATE` excludes, so that the lock on `payment_receipts` also orders commands that lock only
`payment_receipt_status`. `Receivables` keeps the advisory key of a command (`KeyOf`):
posting and voiding, manual and automatic allocation have different ones. `Custody` splits
the one command that holds no lock of what it tests, the authorization of a correction:
`CheckCorrection`, then `PostCorrection` or `FailCorrection`.

On a device a pass is `StartSync` (it reads the queue once; the screen of a draft offers it
while the draft is pending), `Attempt` or `Send`, the answer or `GiveUp`, then `MarkSynced`, `MarkConflict` or `MarkState`. `Stop` is the application that
is closed: what SQLite holds remains. A request on the wire is handled or lost, and a draft
may be handled after the device gave it up. The server side of these modules is the handler
as a whole: replay, refusal, or execution with its receipt.

Abstractions, and why they lose nothing the properties tell apart:

- One warehouse. Stock, reservation and staging are kept per warehouse, and an order has
  one fulfillment warehouse.
- An order has at most one line per SKU, so the SKU stands for the line. The code serves
  two lines of one SKU one after the other from the same free quantity; that split is left
  out.
- A unit of any SKU costs one unit of money; taxes and rounding are left out.
- The policies `cash_on_delivery` and `on_account` behave alike up to pick release: neither
  requires prepayment.
- Commands carry the current If-Match version: a stale one is refused before it does
  anything. Checks of actor, capability, price, tax and credit may refuse any command; a
  safety property that holds when they never refuse holds when they do.
- The events of all deliveries look alike to the worker. Times, attempts and error texts of
  the outbox are written and never read; the object store is what `document` says of it.
- The deterministic keys and unique constraints behind draft invoices and handler receipts
  are left out of `Outbox`, so that `InsertsNeverCollide` shows that the locks alone keep
  them from ever raising.
- Amounts of drafts follow quantities; prices, discounts, taxes and rounding are left out of
  `DraftInvoices`. What may refuse a correction besides its receipt and draft (an authorized
  return, an exception that was acted on, the approver) only disables steps.
- `Custody` has one SKU and one line per delivery, and damaged goods are handled like
  refused ones. In `Procurement` each line has its own SKU. `InternalStock` keeps the ledger
  as totals per leg: only the order of its entries is lost.
- In `Receivables` each order has one invoice; amounts are whole and taxes are left out.
- In `Quotations` prices, discounts and taxes come down to whether a revision is exceptional
  and whether what its author referred to may differ by now; names and lines are left out.
- A device never uses one key for two contents, so the refusal of such a key is left out.
- A payment deadline may pass at any moment after the approval, so `Deadline` has no clock.
- An operator that stands just above a definition with the same parameters is that
  definition with a plausible bug. No behaviour uses it; the mutation checks of
  `PROJECT.json` put it in the place of the definition and expect the property to fail.

## What the runs show

| run | instance | shows |
|---|---|---|
| `reservation_contention` | 2 orders, 1 SKU, at most 1 on hand, lines of 2, 2 approvals, 3 generations, prepaid and on account, no receipts | types; `ReservedMatchesLedger`: the projection four handlers increment is the sum of the events; `HeldHasHold`: a held order can be retried; `PromisesOnlyAvailable`: `Reservation` implements `AvailableToPromise` |
| `reservation_prepayment` | 1 prepaid order, 2 SKUs, 2 receipts, 1 approval, 2 generations | `CommitmentsBacked`; `CoverageReconciles`: the designated balance of a receipt is what its coverage events add up to, through clearing, expiry, retry, and cancellations and reversals that write what they read before; `ReleasedStaysPaid`: only a reversal takes the payment of released demand; `ExpiredStaysExpired` |
| `picking_dispatch` | 2 orders on account, 1 SKU, 2 on hand, 2 approvals, 2 generations, 2 picks | types; `CustodyBalances`: one staging location shared by both orders neither loses nor duplicates a unit; `FulfillmentPicked`: what a fulfillment order counts as picked is what its posted picks add up to, whatever is reversed, invalidated or cancelled meanwhile |
| `outbox_handling` | 2 events: a confirmation whose recipient may not be notified and a correction that leaves no receipt; 2 jobs, batches of 2, 2 errors or stops | `InsertsNeverCollide`; `HandlesEvents`: `Outbox` implements `EventHandling`, with its liveness, although the refused notification keeps moving the `available_at` that both polls share |
| `finance` | one receipt of 2 against an order that requires 1, 2 requests at a time; 2 invoices, 1 receipt, 1 credit note, 2 requests at a time; 1 quotation, 4 commands of 2 users, 2 of them unanswered | `ClearedOnce`; `CollectionFollows`; `ExposureReconciles`: the exposure row differs from its entries by what a rebuild overlooked and nothing else; `DocumentsReconcile`; `AnswersTrue`: each command has one effect, and its answer, however often it is sent, tells whether it had; `ConvertedAsApproved` |
| `custody` | 2 picked units, 2 deliveries, outcomes recorded twice, 2 returns | types; `CustodyMatchesCases`: what is on vehicles and under investigation is what open cases account for, unless a correction overtook a command; `ValuationMatches`; `ReturnsWithinDelivered`; `ConversionsSettle`; `KeepsCustody`: `Custody` implements `StockCustody` |
| `supply` | a request for up to 2, 2 orders, 2 requests at a time; 2 warehouses, 2 units, 2 transfers, 1 adjustment, 2 receipts at a time | `ConvertedWithinRequest`; `ReceiptsReconcile`; `TransitMatchesTransfers`; `ValuedAreThere`: a lost update, a reversed shortage or a rebuild may leave the valuation short of the stock, nothing leaves it above |
| `office` | a delivery of 2 lines of 2, corrected twice; 2 edits under 4 keys, 1 revision by the office, 2 generations of references; 3 captures for one subject | `DraftsNetToAccepted`; `PostedOriginalStands`: a draft posted before any correction is authorized remains the only one; `CorrectionsInvoiced`: once the delivery has a draft no constraint ever refuses a correction, whatever was posted or voided; `SyncedIsSaved`; `EditAppliedOnce`; `ConflictNotExecuted`; `OneProofPerSubject`; `EditsReachServer`: a queued edit becomes a revision unless a later one replaces it or the screen leads no further |

The bounds are the smallest that make the interesting cases happen. Competition for stock
needs two orders, a line longer than the stock (so that reservation and backorder split)
and one more generation than orders (so that an expired one is retried); an approval that
is invalidated and given again needs two approvals. Coverage that moves needs two receipts
and two generations. Staging needs two picks of different orders and of the same order.
A larger number of orders only repeats pairs: every action concerns one order and the
shared stock, receipts are shared with nobody else, and the theorems below have no bound.
`MaxApprovals`, `MaxFulfillments`, `MaxQty`, `MaxAmount` and `MaxStock` bound the counters
and make the system stop, so the runs do not check deadlock. Two jobs make every overlap
of one event, and two events a batch whose second event is taken by another job; a second
correction is the first whose source draft is not the original. `Events`, `MaxFaults` and
`MaxCorrections` bound what is emitted, the errors and the corrections.

A race of two handlers needs two requests (`Requests`, `Tasks`, `Jobs`); two invoices for one
receipt make automatic allocation meet a manual one, and a credit note competes with both for
what is open. A quotation that is converted takes three commands of two users, since nobody
approves what he made, and the fourth revises it somewhere in between; two unanswered
commands (`MaxWaiting`) are repeated around each other. Two units are the fewest that a delivery
divides among outcomes, a retry is the second delivery, a correction the second version
(`Versions`), and two returns compete for one receipt line. Transfers that cross, and a
transfer next to an adjustment, need two warehouses and two units (`Incoming`); an update of the
valuation is lost between two receipts (`Arrivals`). What an adjustment does to a warehouse it
does alone, so one is enough. An edit that
replaces one which is being sent needs two edits, and each conflict takes a new key
(`MaxKeys`). Three captures make a replacement of a replacement; `MaxVersions` and `MaxOffice`
bound what others do meanwhile.

Symmetry: the runs declare orders, SKUs, receipts, picks, requests, invoices, deliveries,
returns and warehouses symmetric. No definition or
property tells two of them apart (`Redesignation` abstracts the order in which receipts
were received by a choice), and no run with symmetry checks a liveness property.

Fairness. The modules of commands alone assume none: a user need not do anything. The worker is
scheduled by the code: a running job goes on (`WF` of `Proceed`; its errors and stops are
`Raise` and `Crash`, at most `MaxFaults` of them, since an outage that never ends lets
nothing be handled), the minute of a failed event passes (`WF` of `Elapse`), and each of
the two cron jobs starts every 15 seconds. The last is *strong* fairness of the poll that
would select a given event: a poll selects an event whenever its turn comes and the event
is available, and the moments of the cron jobs have no fixed order with the minute a
failed event waits, so an event that is available again and again is not missed at every
poll. Weak fairness would not do: the refused notification makes the event unavailable
for a minute again and again. `DraftInvoices` assumes only that the worker handles what it
can handle (`WF` of `Work`), which is what `outbox_handling` shows of the worker.

On a device nothing is scheduled but by its user and its network. `DraftsFairness` says that the
user of a draft presses what its screen offers, and no more: he synchronizes while the draft is
pending (`WF` of `StartSync`, which is disabled in a conflict and for what is synced, as the
button is), and resolves a conflict for which there is a server draft to show (`WF` of
`ResolveConflict`); a save he began is finished unless the application stops (`WF` of
`FinishSave`); and the connection, which may fail anywhere any number of times, does not fail for
ever at the same point (`SF` of sending, of an answer that is heard, and of the transaction that
marks it, since `Stop` or `GiveUp` may come first each time). Without the last, a device that
never reaches its server would refute any promise. Where the screen offers nothing that helps,
`EditsReachServer` claims nothing: `DeadEnd` names the three cases. Nothing is assumed of new
edits, of the office, or of the reassignment of work. Captures have no fairness and no liveness
property: the screen of picks offers to send only while the capture that changed last is pending
(`pick-scanner.tsx:149-152` and `609`), that of payments only while its own capture is queued
(`payment-receipt-capture.tsx:257`), and none sends returns, so that the code does not say that a
queue moves.

## What is proved

`ReservationProofs` proves of `Reservation`, for any finite sets of orders, SKUs and receipts and
any natural bounds (`ReservationAssumption`, all that is assumed):

| theorem | statement | checked by |
|---|---|---|
| `TypeCorrect` | `Spec => []TypeOK` | `reservation_contention` |
| `ReservedIsLedger` | `Spec => []ReservedMatchesLedger` | `reservation_contention` |
| `CommitmentsAreBacked` | `Spec => []CommitmentsBacked` | `reservation_prepayment` |
| `SalesPromiseAvailable` | `Spec => PromisesOnlyAvailable` (refinement) | `reservation_contention` |
| `ExpiredIsFinal` | `Spec => ExpiredStaysExpired` | `reservation_prepayment` |
| `ReleasedIsPaid` | `Spec => []ReleasedStaysPaid` | `reservation_prepayment` |
| `HeldIsOnHold` | `Spec => []HeldHasHold` | `reservation_contention` |
| `CoverageAlwaysReconciles` | `Spec => []CoverageReconciles` | `reservation_prepayment` |
| `StockInvariant` | `Spec => []StockInv` | – |

The argument. `ReservedMatchesLedger` is not inductive: a step that takes more from an
order's events than they hold would leave a sum of naturals that the projection, which may
not go negative, does not equal. What excludes it is that a handler only gives back what a
commitment says is reserved, and that a commitment never claims more than its events
(`CommitmentsBacked`); that in turn needs that commitments partition their quantity and
belong to the active approval, and that every fulfillment order has an order
(`FulfillmentsOwned`). `StockInv` is the conjunction, with `FlightInv` below. Each handler has a lemma that it
keeps the rows (`RowsStep` collects them); `BookedStep` reduces every handler to one of
two shapes, *nothing booked* or *booked for one order, either only given back or only
granted within what is available*, from which both the sum (`LedgerStep`) and the
refinement (`PromiseStep`) follow. For the properties of fulfillment orders, `StepChanges`
classifies what any step may do to one (created, stripped of coverage, cancelled, expired,
funded, reduced, released); `ExpiredStep` and `PaidStep` go through the cases.
`FlightInv` says of the two handlers that write what they read before how much of it still
holds: the fulfillment order of a cancellation is of the order whose row it has locked, and has
not expired since (`CancellationRead`: whatever expires waits for that row); what a reversal will
bare is recorded as backed by its receipt. `ReleasedStaysPaid` needs `PaidInv`: what a prepaid
order must pay is at least what it reserves, because a cancellation lowers only the latter, of
the row that is there and of the row that a cancellation has read alike; whatever else leaves
released demand unpaid has reversed a receipt that backed it. `CoverageReconciles` is about
coverage events: every handler that adds one moves the balance of the receipt by the same amount,
in the same step, also a reversal that works from a sum it read earlier (`DesignatedHeld`). Of
the covered amount of the fulfillment order it says nothing, because a cancellation may write an
old one.

It proves of `Picking`, for any finite sets of orders, SKUs, receipts and picks and any
natural bounds (`ReservationAssumption`, `PickingAssumption`):

| theorem | statement | checked by |
|---|---|---|
| `PickingTypeCorrect` | `PickingSpec => []PickingTypeOK` | `picking_dispatch` |
| `CustodyAlwaysBalances` | `PickingSpec => []CustodyBalances` | `picking_dispatch` |
| `PickedIsPosted` | `PickingSpec => []FulfillmentPicked` | `picking_dispatch` |
| `ReservedStaysNet` | `PickingSpec => []ReservedIsNet` | – |
| `PickingInvariant` | `PickingSpec => []PickingInv` | – |

`FulfillmentPicked` is not inductive: a generation created for a new approval starts with
nothing picked, so no posted pick may be of a fulfillment order that does not exist yet
(`PicksOwned`). The invariant of `Reservation` cannot be reused. After an approval was
invalidated in the middle of picking, a pick takes from the events of an order what its
commitments no longer hold, so that commitments are not always backed here. `MovesWritten`
says instead all that matters of every step of `Reservation`, whatever stock an approval
has read: it picks nothing, and revives no fulfillment order as one that does not exist. `QtyJoin` and `SumJoin` say how the totals
move when a pick joins the posted ones; a reversal is the same step read backwards. The
projection stays true to its events (`ReservedIsNet`): a pick after its approval fell may take
the events of one order below zero, where `ReservedMatchesLedger`, a sum of naturals, says
nothing, but each step of the composed system books at most once (`PickingBooks`), and a
booking moves events and projection alike (`BookNets`).

Totals are cardinalities of sets of units (`Units`), so that `UnitsProofs` can derive what
it needs (a total moves with one of its rows, adds up, is empty, is bounded by a part, is the
same along rows and columns) from the library's facts on finite sets; an inductive definition
of a sum is out of the prover's reach. `Net` is the difference of two totals, for rows that
may be negative.

`OutboxProofs` proves, for any number of events, jobs and errors and any batch size
(`OutboxAssumption`):

| theorem | statement | checked by |
|---|---|---|
| `OutboxTypeCorrect` | `OutboxSafety => []OutboxTypeOK` | `outbox_handling` |
| `NoInsertCollides` | `OutboxSafety => []InsertsNeverCollide` | `outbox_handling` |
| `WorkerHandlesOnce` | `OutboxSafety => Handling!HandlingSafety` (refinement, the safety of `HandlesEvents`) | `outbox_handling` |
| `OutboxInvariant` | `OutboxSafety => []OutboxInv` | – |

`InsertsNeverCollide` looks at one job and is not inductive: another job could add the
receipts while the first is about to. `OutboxInv` adds that no two delivery jobs are at
the same event (`DeliversAlone`, the row lock), that what a delivery job found owed is
exactly what is owed (`OwesAsFound`, because only another delivery job could have done a
part of it), and that jobs are at emitted events. `CommitHandles` then maps a commit to a
`Handle` of the abstract specification, or to a stutter when a job had nothing left to do;
every other step stutters. That a job is at an event of its batch needs that a set of events
has a least element, which `LeastIsIn` derives from the library's well-founded order of the
subsets of a finite set, since induction on numbers is not available.

`CommercialProofs` proves of `Quotations`, for any sets of users and authorized users and any
bounds, with no assumption on the constants:

| theorem | statement | checked by |
|---|---|---|
| `AnswersAreTrue` | `QuotationsSpec => []AnswersTrue` | `finance` |
| `ConversionsAreApproved` | `QuotationsSpec => []ConvertedAsApproved` | `finance` |
| `QuotationsTyped` | `QuotationsSpec => []QuotationsTypeOK` | – |
| `QuotationsInvariant` | `QuotationsSpec => []QuotationsInv` | – |

Neither property is inductive. For `AnswersTrue`, `QuotationsInv` ties rows and answers to
receipts: a command with a receipt has exactly one row and every row belongs to a receipt
(`ReceiptsKnown`); what was answered *done* has a receipt and what was refused has none
(`AnswersKnown`), which lasts because a command that was answered is not sent again. For
`ConvertedAsApproved` it says that the approved revision of a quotation is its latest one and
was approved by someone else with the authority for it (`ApprovalStands`: a revision takes the
approval away), and that a conversion is of the latest revision, which stays the latest
(`ConversionsStand`). Each command has a lemma that it keeps these; that they hold on of the
quotations a command does not touch is `OthersStand` for all of them.

It proves of `PaymentReceipts`, for any number of requests at a time and any positive amounts
(`ReceiptAssumption`):

| theorem | statement | checked by |
|---|---|---|
| `ReceiptsClearOnce` | `ReceiptsSpec => []ClearedOnce` | `finance` |
| `CollectionsFollow` | `ReceiptsSpec => []CollectionFollows` | `finance` |
| `ReceiptsInvariant` | `ReceiptsSpec => []ReceiptsInv` | – |

The commands do not lock the same rows in the same order: some take the receipt first, some
its status, and what they read they use after they have waited for more. `ReceiptsInv` adds
that no row is locked twice (`LocksExclude`) and that what a request has read of a receipt
stays true while it holds *either* row (`SeenStands`). The lemma `Alone` is the heart of it:
every command that changes the state of a receipt has, by the time it writes, locked both
rows, so that no other request holds either; what it read is still so, and what others will
read is what it wrote. The values follow, one lemma per command.

It proves of `DraftInvoices`, for any set of lines, any quantity and any number of corrections
(`DraftAssumption`):

| theorem | statement | checked by |
|---|---|---|
| `DraftsAlwaysNet` | `DraftSpec => []DraftsNetToAccepted` | `office` |
| `PostedOriginalsStand` | `DraftSpec => PostedOriginalStands` | `office` |
| `CorrectionsAreHandleable` | `DraftSpec => []CorrectionsHandleable` | – |
| `DraftInvariant` | `DraftSpec => []DraftInv` | – |

The worker may take events in any order and at any time later, and the sum of all drafts grows
with every correction. `DraftInv` says that the events are handled in order all the same,
because only what has a draft is corrected and so at most one event waits (`HandledTo`), and
that the draft in force charges line by line what its version accepted. A correction then
adds a reversal, which negates the draft of the version before, and a replacement, so that the
sum moves from one version to the next whatever lies before it; a line that the replacement
leaves out is one it charges nothing for. Posting and voiding touch the ledger, never a draft.
For `PostedOriginalStands`, what is posted is a draft that exists (`PostedAlwaysExist`), so that
the confirmation is handled and no event waits; that no other follows is kept by the check of the
original draft at each authorization.
This is the one argument along a chain of any length; it needs no induction over the chain
because the sum is carried by the invariant.

`CorrectionsInvoiced` itself is liveness and out of reach, but all it needs of the code besides
a worker that goes on is proved: `CorrectionsHandleable` says that in every state an authorized
correction whose event waits finds everything before it handled, the draft it reverses, a root
draft without empty lines to scale (`RootPositive`), and identities not yet taken, so that no
constraint refuses what it writes. A confirmation has no such theorem; it may be refused for
ever (`mixed_delivery_uninvoiced`), and then nothing of the delivery is ever corrected.

`CustodyProofs` proves, for any finite sets of deliveries and returns, any quantities and any
number of versions of a receipt (`CustodyAssumption`):

| theorem | statement | checked by |
|---|---|---|
| `CustodyTypeCorrect` | `CustodySpec => []CustodyTypeOK` | `custody` |
| `CasesAccountForCustody` | `CustodySpec => []CustodyMatchesCases` | `custody` |
| `BooksValueCustody` | `CustodySpec => []ValuationMatches` | `custody` |
| `ReturnsStayWithinDelivered` | `CustodySpec => []ReturnsWithinDelivered` | `custody` |
| `ConversionsAlwaysSettle` | `CustodySpec => []ConversionsSettle` | `custody` |
| `CustodyRefines` | `CustodySpec => KeepsCustody` (refinement of `StockCustody`) | `custody` |
| `CustodyInvHolds` | `CustodySpec => []CustodyInv` | – |

The properties compare a stock with a sum over every version of every delivery. `CustodyInv`
says which case can have anything open: an outcome divides what was sent (`ChainOK`), only the
cases of the last version are open (`CasesOK`), so that each sum over versions is one case
(`HeadOpen`). A step then changes each sum by what it changes of one delivery and one return.
A receipt with an authorized return stays the head of its chain (`ReturnOK`), because whoever
is correcting it found none; no authorization is granted meanwhile. That no more came back than
went out, which the refinement needs, follows: all returns of a delivery are of its head and
within what its head says was accepted. The correction that overtakes another command, which
`correction_overtakes_return` exhibits, is part of the steps proved about.

`ReceivablesProofs` proves, for any finite sets of invoices, receipts and credit notes, any
number of requests at a time and any amounts (`AccountsAssumption`):

| theorem | statement | checked by |
|---|---|---|
| `ExposureAlwaysReconciles` | `ReceivablesSpec => []ExposureReconciles` | `finance` |
| `DocumentsAlwaysReconcile` | `ReceivablesSpec => []DocumentsReconcile` | `finance` |

`AccountsInv` says of every request that what it tested is still so when it writes (`Sound`):
an invoice about to be posted is a draft, the balance of a receipt is what an allocation
has read. It lasts because requests in progress hold different keys (`Exclusive`), and it is no
stronger than that: nothing is said of the open amount of an invoice, which allocations and
credit notes read without a common lock. `LedgerTold` and `BalanceTold` are the two sums over
allocations, one along each axis. A rebuild writes what it read at its beginning; `drift`
collects what other requests changed meanwhile, so that `ExposureReconciles` says the row
differs from its entries by that and by nothing else.

`SupplyProofs` proves of `InternalStock` and `Procurement`, for any finite sets of warehouses,
transfers, adjustments, lines, orders and requests and any quantities (`StockAssumption`,
`ProcurementAssumption`):

| theorem | statement | checked by |
|---|---|---|
| `TransitAlwaysMatches` | `StockSpec => []TransitMatchesTransfers` | `supply` |
| `ValuedUnitsAreThere` | `StockSpec => []ValuedAreThere` | `supply` |
| `AlwaysConvertedWithinRequest` | `ProcurementSpec => []ConvertedWithinRequest` | `supply` |
| `ReceiptsAlwaysReconcile` | `ProcurementSpec => []ReceiptsReconcile` | `supply` |

A rebuild replaces the projection by a replay of the ledger, so `StockInv` must say that what
the replay finds in transit is what is there (`TransitReplays`), although for the shelf it finds
something else; that a rebuild removes no row of a warehouse that has an adjustment to reverse
(`RowsStay`); that a transfer on its way has a quantity and two different ends
(`TransfersMove`); that a warehouse without a row of the valuation has nothing, so that a row
which is written over one that was created meanwhile loses units and invents none
(`UnvaluedIsEmpty`); and what a rebuild in progress has deleted is still counted until it commits
(`RebuildSound`). The valuation may stay short of the stock for good: after a lost update
(`valuation_overwritten`), after the reversal of a shortage, or after a rebuild that overlaps a
receipt.

In `Procurement` requests read without a lock. `ProcurementInv` says how much of what was read
survives (`JobSound`): a conversion fits unless the request was revised in between (`Fits`;
`OneConversion` is the lock of the purchase request), and what a posting computed is a lower
bound, because receipts only add (`Computed`). `StillSound` is the lemma that no commit of
another request undoes it, `JobStep` that a step which does not write keeps everything else. A
row of the valuation is written from what was read, so the invariant bounds it by what is on
hand (`StockReconciles`) and says no more: two first receipts may lose one of them.

`OfficeProofs` proves of `SalesDrafts`, for any number of edits, keys, revisions and generations
of references, with no assumption on the constants:

| theorem | statement | checked by |
|---|---|---|
| `SyncedIsAlwaysSaved` | `DraftsSpec => []SyncedIsSaved` | `office` |
| `EditsAppliedOnce` | `DraftsSpec => []EditAppliedOnce` | `office` |
| `DraftsInvariant` | `DraftsSpec => []DraftsInv` | – |

A request that was given up may still be handled, at any time and next to others with the same
edit. What keeps them apart is that the server only moves on: a request that expects an older
version or refers to older references is refused for ever (`Dead`), and each revision makes all
requests that exist dead but the one it executes (`RevisionPasses`, `MovedKeeps`). `EditsStand`
says that whatever may still be sent under another key than the last, with the edit of the draft,
was executed or is dead; for this the conflict that lets the user send an edit again must be of
the attempted item of the outbox, and the pass must go no further than that item
(`PassStands`). `SyncedIsSaved` rests on the outbox: its last item holds the draft
(`OutboxStands`), so that an empty one means the last key was executed. `TwinsAlike` and
`SameKeySame` let a request stand for all its copies.

It proves of `DeviceCaptures`, again for all values of the constants:

| theorem | statement | checked by |
|---|---|---|
| `ConflictsAreNotExecuted` | `D!CapturesSpec => []ConflictNotExecuted` | `office` |
| `ProofsAreUnique` | `D!CapturesSpec => []OneProofPerSubject` | `office` |
| `CapturesInvariant` | `D!CapturesSpec => []CapturesInv` | – |

`CapturesInv` says that what is under way is queued and what is queued is open (`QueueStands`), that
a pass which has its answer has nothing under way (`SendingStands`: an answer to an earlier
attempt cannot overtake it, since a retry waits behind the attempt it repeats), and that a
delivery or return request that took an outcome is closed (`SubjectsStand`), which neither
reassignment nor others undo. One lemma covers every change of a row (`RowKeeps`), one
whatever the server does without a capture (`ServerKeeps`).

The invariants `CoverageInv`, `CustodyInv`, `AccountsInv`, `StockInv`, `ProcurementInv`,
`DraftInv`, `DraftsInv` and `CapturesInv` were checked by TLC on the instances of the runs above
before they were proved, and so were `ReservedIsNet` and `CorrectionsHandleable`, which no run
lists because a theorem holds of every instance.

Every safety property of the passing runs is proved. Only model-checked is all liveness:
`HandlesEvents` beyond its safety, `CorrectionsInvoiced` and `EditsReachServer`.
Liveness, `ENABLED` and inductions over data cannot be proved with the provers at hand and stay
with TLC, as do the violations below, which are about what the code does and not about all of its
instances.

## Where the code differs from its documents

Each row is a run that ends in a violation, with the quotation and the trace in the
findings of `PROJECT.json`.

| run | property | the code |
|---|---|---|
| `mixed_delivery_uninvoiced` | `DeliveriesInvoiced` | a delivery with a line of which nothing is accepted is never invoiced |
| `correction_overtakes_return` | `CorrectsOnlyUntouched` | a correction supersedes an exception that was returned, resolved or retried after its checks |
| `valuation_overwritten` | `ValuationAlwaysMatches` | a goods receipt takes no lock of its SKU: opening stock that found no row of the valuation writes over the one the receipt created |
| `promised_twice` | `PromisedOnce` | an approval reads what is on hand before, and what is reserved after the pick of another order: the picked units are promised again |

Other behaviour met while modelling. The models contain it; the properties above hold with it
because they claim no more than the code keeps, as the items say:

- A pick release may commit between the read of a reversal and its writes
  (`payment_fulfillment.py:2137`): the demand is released and nothing covers it.
  `ReleasedStaysPaid` excepts what a reversal took.
- A cancellation writes the covered amount and the status of a fulfillment order as it read them
  (`order_cancellation.py:520` and `658-698`), over a reversal, a designation or a pick release
  that committed since. `CoverageReconciles` is about coverage events and receipts, which stay
  right.
- The authorization of a second correction hands its receipt over under a key that the check does
  not read (`delivery_corrections.py:2146-2166` and `673`), so that it looks at the draft and the
  cases of the first receipt: a posted replacement is corrected all the same. The drafts net to
  what was accepted nevertheless; `PostedOriginalStands` is about the original.
- The reversal of a shortage puts its units back on hand and takes them from the valuation a
  second time (`inventory_adjustments.py:861` and `908-925`): `ValuationAlwaysMatches` fails on it
  too.

- Revising a partially cancelled order leaves its approval and reservation. A partial
  cancellation does not lower what must be paid before release. An order that was cancelled
  can be revised, and is a draft again (`sales.py:1467-1511`).
- Guards were written for `pick_released` and not for the statuses that follow it: a
  dispatched pick is reversed at the expense of a staged one; after a partial pick the
  payment can be reversed and picking goes on; an approval whose fulfillment order is
  partially picked is invalidated.
- A job that failed marks the receipt document, rendered by another job, unavailable for
  ever. A draft that is posted before the worker handles its correction is replaced all the
  same.
- Two goods receipts at a time may exceed what is open without the approval of an
  over-receipt (`goods_receipts.py:473`). A receipt that accepts two lines is refused by the
  key of the movement group. The first two receipts of a SKU at once, in different locations,
  lose one in the valuation. A rebuild counts goods received, and goods that customers
  returned, as outgoing (`catalog_inventory.py:1344`). The approval of a purchase order writes
  its status whatever it has become.
- Allocations and credit notes together may exceed an invoice: each holds its amount against
  an open balance that it reads without a lock of the invoice. Coverage is applied at posting
  only from receipts that have other value left. A rebuild of the exposure overlooks what
  commits while it waits.
- An offline edit whose references changed is refused for ever: it was attempted, so a later
  edit is dropped, and a conflict on an order that the device cannot read cannot be
  resolved (`sales-order-draft.tsx:609`, `630`). An edit saved during a pass is queued behind the
  command that is then acknowledged, and the screen of a synced draft has no button to send it
  (`:618`). All three are `DeadEnd`.
  A capture whose evidence cannot be uploaded, or a receipt that is refused, keeps everything
  behind it.
- The scope of a delivery, a pick or a receipt is checked before the replay: after its
  subject was reassigned, a command that was executed is answered 403, and the device shows
  as forbidden what was done.

## What is not modelled

Every component that no module names is in `PROJECT.json` with its reason: expenses and cash
bases, statements and views, platform, web client. Within the modelled ones: bounced, expired
and corrected receipts; lots, serial numbers, barcodes and unit costs; landed costs; number
series, taxes, approval limits and rounding; assignment of delivery staff; the sign-in of a
device, its cache of deliveries and its web stores; organization and operational policies;
the jobs `process_delivery_*_event` of the worker, which nothing enqueues. Access checks only
refuse commands: a safety property that holds when they never refuse holds when they do.

The components of one run that share no state (`MCFinance`, `MCSupply`, `MCOffice`) are not
composed: that a goods receipt of `Procurement` is one of `InternalStock`, or that the receipt
of `PaymentReceipts` is one of `Receivables`, is stated in the comments and by no shared
variable; so it is with the parts of `MCOffice`. `Picking` on `Reservation`, and
`DraftInvoices` on `EventHandling`, are composed.

## Plan

Modelled and checked: reservation, picking, worker, draft invoices, receipts, receivables,
custody, procurement, internal stock, quotations, offline work. Proved: the safety of all of
them. Next, in order of importance:

1. Algorithms as recursive functions against reference definitions: largest remainder,
   partial line allocation, money rounding; landed costs on top of them.
2. Expenses and cash bases; lots and serial numbers.

Bounds are planned like those of the present runs: two orders, events or requests, one or two
SKUs, quantities up to two, two of every document that can be repeated.
