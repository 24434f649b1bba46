# Formal models of avoqado-server

avoqado-server is the backend of a point-of-sale platform: points of sale (POS) and payment
terminals (TPV) take orders and charge them over HTTP and Socket.IO, legacy POS systems are
driven through RabbitMQ, and jobs repair what a lost message or a dead process left behind. The
state lives in PostgreSQL behind Prisma. There is one Node process per instance, so two pieces
of code interleave exactly at their `await`s, and every instance shares the database.

This directory models the parts of it that move money or stock, or copy state to another system, and that
interleave: TLA+ modules, TLC configurations on small instances, and TLAPS proofs for any instance.

    tlc -workers 2 -config OrderSettlement_settlement.cfg MCOrderSettlement.tla
    tlapm TerminalPaymentProofs.tla

## 1. Inventory

Paths are relative to the repository root; `prisma/schema.prisma` declares every table.

| component | state | operations | hard behaviour | correct when |
|---|---|---|---|---|
| **Terminal payment arbitration** `src/services/terminal-payment.service.ts`, `src/jobs/terminal-payment-watchdog.job.ts` | `TerminalPaymentRequest` rows, the partial unique index over them, `pendingPayments` in memory | send, result, cancel, record, watchdog pass, order cancellation gate | retries, rivals, lost messages, five-minute timeouts, overlapping passes, restarts | one live charge per terminal, one emission per request, money that moved is never reported as failed, no row stuck |
| **Order settlement** `src/services/tpv/payment.tpv.service.ts`, `src/services/mobile/order.mobile.service.ts`, `src/services/tpv/order.tpv.service.ts` | `Order` (paymentStatus, paidAmount, version, subtotal), `OrderItem`, `Payment`, stock | card tender, cash tender, round of items | read-compute-write over several queries, one path with a compare-and-set and one without, retries of one charge on two paths | the order claims what is on record, closes only when paid for, bills every accepted round |
| **TPV command queue** `src/services/tpv/command-queue.service.ts`, `command-execution.service.ts` | `TpvCommandQueue` status, attempts, expiry | queue, ack, started, result, cancel, expire, retry | status written unconditionally after a read; expiry against results | a final status stays; a cancelled command is not executed |
| **POS command outbox** `src/communication/rabbitmq/{commandListener,commandRetryService,publisher}.ts` | `PosCommand` status and attempts, LISTEN connection | notify, claim, publish, retry | death between PROCESSING and publish; retry bound | every command is published, or marked failed |
| **POS event consumer** `src/communication/rabbitmq/{consumer,dispacher}.ts` | deduplication cache in memory, queue | deliver, dispatch, ack/nack | redelivery; mark before dispatch | each event takes effect at least once |
| **Cash-out ledger** `src/services/dashboard/cash-out/*.ts`, `src/jobs/cash-out-settlement.job.ts` | `PromoterCommissionEntry`, `CashOutWithdrawal` | materialize entries, claw back, withdraw, report, the daily job | every query apart from the next; one process's job against another's, a withdrawal against a clawback | an entry is withdrawn once, a withdrawal reported once, tiers are earned, the ledger follows the sales |
| **Terminal registry** `src/communication/sockets/terminal-registry.ts`, `managers/socketManager.ts` | map terminal → socket, in memory | register, heartbeat, disconnect | registration after an await, stale socket ids | a live terminal is reachable |
| **Serialized inventory and custody** `src/services/serialized-inventory/*.ts`, `src/services/dashboard/manualSale.service.ts` | `SerializedItem` (status, custody state, holders, version), `SerializedItemCustodyEvent` | register, assign, accept, reject, collect, reassign, approve, sell (terminal, upload), pay, roll back, return, damage | calls compare a version that sales, returns and approvals do not move; sales check and write in two queries | somebody who can act on a SIM holds it, its events are a chain, it is sold once and approved |
| **FIFO stock batches** `src/services/dashboard/{fifoBatch,rawMaterial,purchaseOrder}.service.ts` | `StockBatch`, `RawMaterial.currentStock` | deduct, adjust, receive a purchase, expire, quarantine | one stock kept twice; some calls lock, some assign what they read before | the batches balance; total and batches agree |
| **Inter-venue transfers** `src/services/dashboard/interVenueTransfer*.ts` | transfer, items, allocations, receipts and resolutions by key, stock of two venues | create, approve, reject, cancel, dispatch, receive, resolve a variance | receipts in parts, repeated keys, losses at FIFO cost, batches that are sold or expire meanwhile | no unit lost or counted twice, closes when and only when all is accounted for |
| **Reservations, slot holds** `src/services/reservation/*.ts` | holds with expiry, reservations | hold, confirm, release | expiry against confirmation | a slot is sold once |
| **Delivery ingestion** `src/services/delivery-channels/core/*.ts` | external order ids, orders | webhook, reconcile | repeated webhooks | one order per external order |
| **Refunds** `src/services/tpv/refund.tpv.service.ts`, `src/services/dashboard/{refund.dashboard,inventoryRestock}.service.ts` | a `Payment` for each refund, `processorData` of the original, stock | refund an amount or lines, from a terminal or the back office; return stock | a read before the lock; two ways to count what was refunded; sums after the commit | no more is refunded than was paid, split as it was paid, and stock comes back once |
| **Shifts** `src/services/tpv/shift.tpv.service.ts` | shift totals | open, close | close against a payment | totals agree with the payments |
| **Google Calendar outbox** `src/services/google-calendar/{outbox,push}.service.ts`, `src/jobs/gcal-outbox-sweeper.job.ts`, `src/communication/rabbitmq/gcal-push-consumer.ts`, `src/controllers/dashboard/googleCalendarStatus.controller.ts` | `CalendarSyncOutbox`, `ReservationGoogleEventMapping`, advisory locks, the calendar at Google, the connection's tokens | enqueue, collapse, push (create, update, cancel), retry, sweep, put back by hand | calls to Google inside a transaction of 60 seconds whose function goes on, lost answers, two workers, bodies built before the lock, tokens that cannot be read | one event per reservation, up to date, gone when cancelled; every row ends |
| **Google Calendar inbox** `src/services/google-calendar/pull.service.ts`, `src/jobs/gcal-inbox-sweeper.job.ts` | inbox rows, sync tokens | notify, pull, backfill | session locks over a connection pool; a backfill without one | no change of the calendar is skipped |
| **Billing** `src/services/stripe.webhook.service.ts` | a mirror of the provider's state | webhook | repeated events | |
| **Money integrity watchdog** `src/jobs/money-integrity-watchdog.job.ts` | none | read-only SQL | | its first equation is `PaidAmountAgrees` |
| HTTP routing, dashboards, reports, fiscal documents, notifications | CRUD and queries | | little control of their own | |

How they interact: a POS calls `sendPaymentToTerminal`, which reads the **registry**, inserts a row
and emits to the terminal's socket; the terminal answers with `terminal:payment_result` and, on a
separate HTTP call, posts the payment to `recordOrderPayment` (**settlement**), whose transaction
calls back `closeRowFromPaymentTx` (**arbitration**). The **watchdog** reconciles stale rows against
`Payment`. `cancelOrder` asks the arbitration whether a charge is alive. Cash and rounds of items meet
card tenders only in the `Order` row and its `version`. Sales draw the **stock** that **transfers** move
between venues. A committed reservation leaves a row in the **calendar outbox**. An approved sale
verification becomes an entry of the **cash-out ledger** at the next pass that looks for it. A SIM is **sold** when
a terminal adds it to an order and once more when the order is paid, and a failed stock deduction takes that
back. **Refunds** lock the payment they refund, and return to stock what the order took.

## 2. Plan

The order is by what an error costs; each component becomes a module with an MC module, its
configuration and a proof module.

Done:

1. `TerminalPayment` and its abstraction `ChargeSlots`.
2. `OrderSettlement`, for tenders and rounds.
3. `StockBatches`, and `InterVenueTransfer` which composes with it (EXTENDS) and implements `TransferLedger`.
4. `CalendarPush`, the outbox with its faults.
5. `CashOut`, the ledger, withdrawals, reports and the daily job.
6. `SimCustody`, custody calls against sales, returns and approvals.
7. `Refunds`, terminals against the back office.

Left, in this order:

8. `OrderSettlement`: fast payments, area tickets, shifts, discounts, rounds that rewrite an existing line.
9. `CalendarPull`: the inbox, sync tokens, the pool's session locks and the backfill. Expected disagreement: a
   token that moves past changes that were not applied.
10. `PosOutbox`: listener, retry job, publisher, broker and consumer; restarts; the broker duplicates.
    Abstract specification: commands that take effect at most `attempts` times. Liveness: every command is
    published or failed, which a death after PROCESSING is expected to refute.
11. `TpvCommandQueue`: acks, results, cancel and heartbeat delivery in any order. Nearly every write is
    unconditional, so few properties survive; the first is that a delivered command was not cancelled.
12. `TerminalRegistry`, then `TerminalPayment` composed with it instead of the nondeterministic socket. After
    that: slot holds, delivery ingestion.

Theorems to add: the safety properties of the modelled components are all proved (section 12). Left are
abstract specifications for `CashOut` and `Refunds`, as `ChargeSlots` and `TransferLedger` are for theirs, and
the proofs of the modules above.

## 3. TerminalPayment

A charge is a row. `status`, `paymentId`, `resultJson` are its columns; `bornAt` stands for
`createdAt`, counted in payments recorded so far, which is all that the watchdog's query compares.
`call` and `longPoll` are the HTTP calls of `sendPaymentToTerminal` and `pendingPayments`; `closing` the
fire-and-forget `closeRow` calls on their way to the database; `cancelling`, `sweep` and `voiding` the
program counters of `cancelPayment`, of the watchdog's passes and of `cancelOrder`; `ledger` the
`Payment` table. `net` and `phase` are the wire and the terminal, both external.

| action | code |
|---|---|
| `SendCheck`, `SendInsert`, `SendConflict`, `SendEmit`, `SendTimeout` | `sendPaymentToTerminal`: checks, INSERT, the P2002 branch, registration and emission, the timer |
| `HandlePaymentResult`, `CloseRow`, `CloseRowFails` | `handlePaymentResult`, `closeRow` and its swallowed error |
| `CancelMark`, `CancelAnswer` | `cancelPayment`: the row's mark (or its failure), then the long-poll |
| `SweepScan`, `SweepCandidate`, `SweepClaim`, `SweepWrite`, `SweepFails` | `reconcileStaleRequests`, query by query, and the job that calls it |
| `RecordPayment` | the transaction of `recordOrderPayment` with `closeRowFromPaymentTx` |
| `OtherTender` | any other payment of the order |
| `VoidRead`, `VoidGate`, `VoidWrite` | `cancelOrder` with `hasChargeBlockingOrderCancel` |
| `Restart` | a process that dies: everything in memory goes, the rows stay |
| `TerminalAccept`, `TerminalApprove`, `TerminalReport`, `TerminalRefuse` | external: what the code's comments say that terminals do |

The terminal may ignore a charge, refuse it for good, give up on one that is approved later
(`doubt`), approve and report in either order with the payment's recording, or never report.
Messages are lost by not being put on the wire, and `net` is a set, so they are reordered freely.

Abstractions. Wall-clock time is not kept: any row in flight may be past `expiresAt` or past the
cancel's grace at any time, which includes every real timing. Refusals in `SendCheck` (paid order,
terminal without a socket) are always possible. `SendEmit` has no branch for a missing `io`: `initialize` sets it
once and nothing unsets it, and the socket id that the checks ask for can only have been registered by a handler
of that `io`. `CloseRow` joins the two updates of `closeRow`: when
the first matches nothing, the row is not in flight and no step puts it back in flight, so the pair does what
one update at the time of the second does. Every request charges an order; charges without one, which no watchdog
query matches, are not modelled.

`ChargeSlots` is what the component promises: a slot per terminal, taken when a charge opens, kept
while the outcome is open or in doubt, given back once; a closed charge can only be corrected to
`charged`, which is definitive.

## 4. OrderSettlement

One order. `payStatus`, `paidAmount`, `version` are its columns; `billed` the rounds counted in
`subtotal`, `items` those whose rows exist, `payments` the tenders whose `Payment` is committed,
`deducted` those that took the stock. A tender is one HTTP call; calls with the same `ChargeOf` are
posts of the same charge: its retries, on the same path or on the other.

| action | code |
|---|---|
| `RecordCheck`, `RecordCommit` | `recordOrderPayment`: the idempotency key and reference checks, the transaction and its P2002 net |
| `TotalsRead`, `TotalsWrite` | `updateOrderTotalsForStandalonePayment`: the read of order and payments, the unconditional update |
| `Deduct`, `DeductFails`, `Rollback` | its stock deduction, the restock after a failed row, the order set back to PARTIAL |
| `CashCheck`, `CashRead`, `CashCommit`, `CashLoses`, `CashRetry`, `CashStock` | `payCashOrder`: the key, the transaction's read, its compare-and-set with the Payment, the three attempts, the fire-and-forget deduction |
| `RoundRead`, `RoundRows`, `RoundSum`, `RoundCommit` | `addItemsToOrder`: the read, the rows, the re-read, the compare-and-set |
| `TenderFails`, `RoundFails`, `Crash` | a database call that throws, and a process that dies |

Abstractions. Amounts are cents in small numbers; tips add the same to both sides of every comparison
and are left out; the service charge is kept because the two paths treat it differently. `RoundRows`
creates rows of its own: the branches that rewrite an existing line (same product, modifiers,
notes) are not modelled. The kind of split and the stock may refuse a card tender at any time.
Transactions run at PostgreSQL's default READ COMMITTED, so a transaction's read and its later
compare-and-set are two steps.

## 5. StockBatches, InterVenueTransfer and TransferLedger

The stock of a material is kept twice: `stock` is `RawMaterial.currentStock`, `batches` the `StockBatch`
rows in the order of `receivedDate`. `call` are the calls and job runs of `StockBatches`, one kind each.

| action | code |
|---|---|
| `Deduct` | `deductStockFIFO`: Serializable, locks every active batch, one step or none |
| `AdjustRead`, `AdjustWrite` | `adjustStock`, adding: the total is read before the transaction |
| `PurchaseBatch`, `PurchaseStock` | `receivePurchaseOrder`: the batch commits before the total's increment |
| `ExpireScan`, `ExpireClaim`, `ExpireWrite` | `markExpiredBatches`: a list, then one transaction per batch that holds its row |
| `QuarantineRead`, `QuarantineClaim`, `QuarantineWrite` | `quarantineBatch`, which decides on a batch it read before |
| `CallFails` | an error or a death between two of these |
| `Approve`, `Reject`, `Cancel` | `approve`, `reject`, `cancelInterVenueTransfer`, guarded by `assertTransferTransition` |
| `Dispatch` | `dispatchInterVenueTransfer`: item after item, FIFO from what the ones before left of the source's batches (`Ahead`), allocations |
| `Receive` | `receiveInterVenueTransfer`: FIFO from the allocations, past what was resolved as lost, into the destination's batches, which are created item after item |
| `ResolveVariance` | `resolveInterVenueTransferVariance`: lost units, or units never sent, at their cost |

The transfer's operations are Serializable transactions that lock the transfer first, so each is one step; they
contend with the row locks of `StockBatches` (`Locked`, `Lockable`). A request that is refused or answered from
the record is no step. Items of a transfer may share a material, which `createInterVenueTransfer` refuses only
of a whole pair, and what a transfer brought may be sold, sent on or sent back. `Turns` are the orders in which
a loop may come to the items.

`Draw` is what the four loops over batches take from each batch, stated without a loop: laid end to end,
the part of each batch in the units after the skipped ones. `MCInterVenueTransfer` has the loop
itself, recursive, and the assumption `DrawIsTheLoop` compares the two over every list of three batches
of up to two units, every skip and every quantity.

Abstractions: quantities are small integers (Decimal in the code); units, presentations, movements,
average costs and alerts are left out; a purchase is received at once (`receivePurchaseOrder`, not item
by item); `adjustStock` with a negative quantity is `Deduct`; a retried serialization failure is the
refused or the later step. `BatchesBalance` needs a history: `used` adds up the USAGE movements of a batch.

`TransferLedger` is what a transfer promises, in quantities only: sent whole in one step, arrivals
never beyond what was sent, closed with the last unit accounted for and only then, final from there.

## 6. CalendarPush

`source` is a reservation, with a count of its versions; `rows` the outbox, `mapping` the event id kept
for a reservation, `events` the calendar at Google, with the version each event shows. `worker` is a run
of `processOutboxRow`, by a RabbitMQ consumer or a sweeper; `stray` the calls to Google that outlive their
transaction. `readable` says whether the connection's tokens are there and can be decrypted; `operator` is a request to
put back a row that was given up.

| action | code |
|---|---|
| `Book`, `Change`, `Cancel` | `createReservation`, `updateReservation`, the cancelling transition, each with its `enqueuePush`; `Cancel` also `collapseSupersededOps` |
| `Take` | the sweeper's loop, or a message: `processOutboxRow` reads the row and builds the body |
| `Busy` | another worker holds the advisory lock |
| `Unreadable` | `buildCalendarClientForConnection` throws, outside the `try`: the claim is undone, no attempt counts, the row is due as before |
| `Claim` | the lock, IN_PROGRESS, `isSourceCancelled`, the choice of handler |
| `List` | `events.list` by private property, before an insert |
| `Answered`, `Rejected`, `Refused`, `Unanswered` | insert, patch and delete as Google answers: done, not possible any more, refused, done with the answer lost |
| `Commit` | `upsertMapping` and `markSuccess`, `markSkipped` or the failure branch; a conflict of the unique index undoes both |
| `Cut` | the transaction's timeout, or a death; `Land` is its call reaching Google later, or never |
| `GoOn` | a search that outlives its transaction and finds nothing: the function goes on to `events.insert`, without the lock |
| `FindDead`, `PutBack` | `retryDeadLetterOutbox`: the read with its check, then an update by id |
| `Unread`, `Mend` | external: the key of the tokens, or the tokens, become unusable, and usable again |

Google is external and modelled by what the code relies on: list shows events that are not cancelled, a
patch of a cancelled event fails, a delete cannot be repeated. A message is never needed: `Take` is
open to any worker at any time, so messages may be lost, late and repeated. Not modelled: class sessions,
several connections of one venue, the backoff (a row is due at any time), the content of events. A body that
needs a query (a reservation with products) ends a function whose transaction was cut; `GoOn` is the other
case, and since a stray search may also end by itself (`Land`) both are in the model.

Three history variables name the exceptions of the properties: `overrun`, a reservation with a call, be it the
search only, that its transaction did not live to see; `unsure`, one with an insert whose answer was never
recorded, the insert that such a search goes on to included; `outdated`, one of which a row was claimed on a
read that was already old. Each exception is needed (section 13).

## 7. CashOut

`approved` are the sales that are COMPLETED; `entry` and `withdrawal` the two tables; `at`, `todo`, `prior`,
`counters`, `seen` and `listed` what a call has in hand between its queries. A call is a daily job (one in each
process: `ecosystem.config.js` runs as many as there are processors), a read of the balance, a withdrawal or a
report.

| action | code |
|---|---|
| `Approve`, `Drop` | a review, a reopening or an edit of a sale verification |
| `ReadEntries`, `ReadSales`, `Count`, `Create`, `Duplicate`, `Skip` | `materializeEntries`: its two lists and, for each sale, the count, the insert, the refusal of the unique key, any other failure |
| `ReadOwed`, `ReadCompleted`, `Clawback` | `reconcileClawbacks`, query by query |
| `ReadAvailable`, `Claim` | `createWithdrawal`: the read and, in the same READ COMMITTED transaction, the conditional update with its count |
| `ReadPending`, `Report` | `generateDispersionReport` |
| `Fails` | a query that throws or a process that dies: the call ends there |

Abstractions: one venue, one week and sales of active days that were not entered by hand; an amount is the set of its
sales; the rate of a tier is left out (a missing rate is `Skip`); reports for one business day are left out, since
they list a part of what the report for all days lists. With `Balances = {}` a run still has every behaviour of a balance
read: it is a withdrawal that fails after its ledger part (venue), or a job that fails before its report
(organization).

## 8. SimCustody

`row` is the `SerializedItem` of each SIM, `timeline` its custody events. A call of `custody.service.ts` serves
one row after another: `target` and `old` are the row it has read. `at` says where the sale of an order item
stands, `seen` what an upload has read of the SIM that it sells.

| action | code |
|---|---|
| `Init` | `registerBatch`: a SIM is held by whoever scans it in |
| `Fetch`, `Refuse` | `findOrgItem` in a transaction of its own (`processOneRow`), and every error of one |
| `AssignToSupervisor`, `AssignToPromoter`, `AssignToPromoterDirect`, `Accept`, `Reject`, `CollectFromPromoter`, `CollectFromSupervisor`, `ReassignPromoter` | the calls of the same names: checks on the row that was read, then `updateWithVersion` with `writeEvent` |
| `ApproveStock` | `approveStockItems`, by id |
| `MarkAsReturned`, `MarkAsDamaged` | the methods of the same names, which find SIMs of a venue only |
| `Scan`, `CheckSale`, `Sell` | `addSerializedItemToOrder`: the scan, then `markAsSold`'s read with the custody precheck, then its update |
| `CheckManualSale`, `Sell`, `WriteCustodyEvent` | `createOneManualSale`: `resolveIccid`, `markAsSold` without precheck, the event that nobody waits for |
| `CheckPayment`, `Pay`, `RollBack` | the payment of the order marks the SIM once more; a line without stock takes it back |

`updateWithVersion` writes every custody column, those it leaves alone from the row it read; hence a call
that overtakes a sale or an approval puts old columns back. Abstractions: times are not kept (`accepted` is
whether `promoterAcceptedAt` is set); answers that change nothing (an assignment to the same person) are no
step; the modes OFF and WARN, and eSIMs, are SIMs outside `Enforced`; old terminals, which run as OFF, too.

## 9. Refunds

One order with its payments. `row` is the REFUND payment that each call has created, whose `processor` tells
a terminal's (`blumon` by default) from the back office's; `processed` what the original's `processorData` says
(`refundedAmount`, `refunds`), `restocked` the units that each call has returned to stock, `seen` the split and the
`processorData` that a terminal's refund has read.

| action | code |
|---|---|
| `TpvRead`, `TpvCommit` | `recordRefund`: checks and split on the first read; lock, second check, row and update |
| `TpvRestock` | the sum over the order's refunds and `restockOrderItems`, with lines that fail |
| `IssueAmount`, `IssueItems` | `issueRefund`: one transaction that holds the lock from its first read |
| `DashboardRestock` | the lines it was asked to return, with lines that fail |
| `Stop` | a process that dies after the commit, or a sum that cannot be read |

Abstractions: cents instead of pesos in floating point, with `Rounded` for `Math.round`; one order; a line is
named by the units that are returned of it. A call that is refused before its transaction is no step.

## 10. Runs

| run | instance | what it shows |
|---|---|---|
| `rivals` | a request called twice, a rival on the same terminal, one pass, one cancel, one payment | `SlotExclusive`, `OneEmission`, `CompletedIsFinal` under every interleaving |
| `refines` | two requests with the lock's busy rejection off | the rows implement `ChargeSlots` |
| `liveness` | a request and its retry, cancel, order cancellation, one fault | `NothingIsStuck`; `RecordedIsCompleted` and `FreedOnEvidence` with a restart or a failed pass |
| `settlement` | a charge posted as card and as cash, a rival cash tender for half, two rounds, one fault | the order claims no more than is on record, closes only when backed, cash overwrites nothing, an accepted round is billed |
| `transfers` | flour in two batches of different cost; a transfer of it whose two items share their source, and a pushed return whose two items share their destination; two keys; one call on the stock of either venue | every unit is accounted for, once and at its cost; the transfers implement `TransferLedger` |
| `calendar` | a reservation that is booked, changed once and cancelled; a sweeper and a consumer; two attempts; one refusal, one other fault, one row put back by hand | one event, up to date, gone with the reservation; every row ends |
| `cash_out` | two sales of a promoter, one change of a sale, two withdrawals, one job that comes back, one report by hand, one failure | nothing withdrawn or reported twice, tiers are earned, the ledger comes to follow the sales |
| `custody` | a plain SIM, one that waits for approval where gates are enforced and one of a venue, which may be returned and damaged; two calls, a terminal's sale of each and an upload of the second; two versions | `HoldersMatchState`, `UnapprovedIsNotSold`, `ChainOfCustody` |
| `refunds` | payments of six cents with a tip of three and of three cents, for three units of five cents among others; three refunds, each of a terminal or of the back office | `PaysBackExactly`, `TotalsAgree`, `ReversedIsRestocked` |
| `void_race`, `totals_race`, `refund_race` | the smallest instance each | the disagreements of section 13 |

The properties, by what would have to go wrong:

- `SlotExclusive`: a stale pass or late message brings a freed row back while another holds the slot.
- `OneEmission`: a retry sends the charge again.
- `CompletedIsFinal`, `RecordedIsCompleted`: a refusal, cancel or pass overrides money that moved.
- `NothingIsStuck` (`StaleRowsResolve`, `CallsReturn`): a row stays in flight, or the cashier waits, for ever.
- `FreedOnEvidence`: the slot is given back though nobody reported, paid or cancelled.
- `ChargeRecordedOnce`: one charge posted on two paths is recorded twice.
- `PaidIsBacked`: a payment is counted twice and the order closes short, or claims money without a record.
- `CashPaysTheBill` (`CashIsExact`, `CashCoversTheBill`), `LosesOnlyToProgress`: the compare-and-set of cash
  misses a change, or its retry fights its own stale read.
- `AcceptedRoundIsBilled`: a round's subtotal overwrites another's.
- `CountedOncePerKey`: a receipt sent again counts again.
- `BatchesBalance`: a receipt into a batch that was sold, sent back, expired or quarantined meanwhile loses units or
  makes some. `TypeOK` of the transfers: two items that draw on one batch overdraw it.
- `ClosesWhenAccounted` (`ClosedIsAccounted`, `OpenHasWork`), `LossIsPriced`: partial receipts and losses, in
  some order, skip a unit, charge another's cost, or leave a transfer that nothing can close.
- `StockIsBatchesWhenSerial`: sales, purchases and transfers leave total and batches apart.
- `OneEventPerSource`, `NoGhostEvent`: a retry inserts a second event, or a cancellation misses one.
- `SuccessIsOnCalendar`, `ShowsTheLatest`: a row is marked done and the calendar does not show it.
- `RowsSettle`: a row is retried for ever, or dropped by everyone.
- `WithdrawalIsItsEntries`: an entry is summed in two withdrawals, or in one that it does not belong to.
- `TierIsEarned`: interleaved counts pay a sale at a tier nobody reached. Two passes with different lists
  may give two sales the *same* tier; only the bound holds.
- `ReportedOnce`: a withdrawal is paid from two reports. `LedgerFollowsSales`: a sale is never entered, or
  a dropped one never clawed back.
- `HoldersMatchState`: a stale call, a return or an approval leaves a SIM that nobody can act on.
- `ChainOfCustody`: two calls both move a SIM, and the events no longer say where it has been.
- `UnapprovedIsNotSold`: a SIM is sold though its owner has not approved it, or the approval is asked of an old row.
- `PaysBackExactly` (`SplitFits`, `LinesAreExact`): rounding gives back more than there was, or odd cents twice.
- `TotalsAgree`: a payment claims refunds that do not exist, and the customer is refused (`NeverOverstated`); or
  the refunds of the two sides, which count in different ways, add up to more than was paid (`OneTerminalFits`).
- `ReversedIsRestocked`: of several refunds that together reverse the order none finds that it did.

`PaidIsBacked` is stated against what the order started with, and its second part as `<=`: with rounds and
rival cards the stronger statements are false, which `totals_race` and section 13 show.

Bounds, all named in the configurations or constants: requests, terminals, calls, passes, payments; tenders and
rounds; `Quantities`, `Keys`; `MaxVersion`, `MAX_ATTEMPTS`, `MaxEdits`; `MaxFaults` restarts or failures;
`Cancellable`, `Voidable`, `Refusals` limit what the cashier and the terminal try. The races of the code are
between two parties over one row: each instance has those two and, where the state allows it, a third that lets
one of them lose to each of the others in turn. `MaxCasAttempts` is the code's own 3, and two rounds and a rival
use it up. `MAX_ATTEMPTS` is 2 instead of 7: enough for a retry and for a row to be given up. Two units of one
item over two batches, with two keys, are enough for a receipt and a loss to share a batch, in both orders; with
a second item, for a batch that both draw on. `Perishable` keeps one of the three materials from expiring.
`MaxVersion` is the number of custody calls that may win: two are enough for each to overtake the other, and,
with the event of its registration, for a chain with an inner link. The SIMs of `custody` are of three kinds and
share nothing but the calls, which forget one row before they read the next: `OneSimAtATime` leaves all but one
of them in the warehouse, so that the run explores the three one beside the other and not their product. `Asked`
are the amounts a refund may ask for: some that fit the remainder exactly, some that exceed the sale but not the
sale with the tip. Five cents do not divide into three units, and nine and seven leave a rounded share. The
proofs need none of these bounds.

Deadlock is not checked except in `cash_out`, whose job always comes back: when every call has returned and the
bounds are used up, nothing is left to do. Symmetry is used of the custody calls, of the refunds and of the keys
of the transfers, which nothing tells apart; elsewhere the constants tell requests, tenders, items and calls
apart, or liveness forbids it.

## 11. Fairness

- `TerminalPayment`, in `liveness` only: weak fairness of every step of a call that has started (including its
  timer, which Node runs) and of a pass that has started; strong fairness of a pass *finding* a row that stays
  in flight, because cron starts a pass every 30 seconds and, from `expiresAt` on, each one's query returns the
  row. Nothing is assumed of the terminal, the network, the cashier, or of `closeRow` reaching the database.
- `CalendarPush`: weak fairness of what a worker does by itself once it has read a row (its transaction ends within 60
  seconds); strong fairness of the sweeper taking a row, because each tick goes through the rows that are
  due one after another, so that it comes to some row again and again while one is open at some of its ticks. The
  query takes the 100 rows that are due longest: this is right only as long as no 100 older ones stay due, as rows of
  a connection whose tokens cannot be read do (section 13). No message need arrive, and Google need not accept;
  `RowsSettle` supposes that the tokens are readable in the end, and fairness does not.
- `CashOut`: weak fairness of the steps of each job, which cron starts every day and which logs an error
  and goes on. Nothing of the other calls, so that what they leave half done is repaired by the
  job alone.

`SimCustody` and `Refunds` state none: all that is checked of them is safety, and their calls may stop anywhere.

## 12. Proofs

Every invariant and every action property that a passing run checks is also a theorem, for every value
of the constants. Where it is not inductive as it stands, these are the invariants that are.

`TerminalPaymentProofs`. `Typing`; `SlotIsExclusive`, inductive given the types: every compare-and-set
starts from a held status or ends in a final one, and only the INSERT takes a slot; `CompletedStays`.
`OneEmission` is not inductive: nothing in it says who may emit. `ArbitrationInv` adds that the call about
to emit created the row and nobody else has (`EmitterOwnsRow`), that the wire and the terminal follow the
emissions (`WireIsHonest`), that recorded payments come from approved charges (`LedgerIsHonest`) and that a
pass's candidate is still a payment of the row's order (`SweepIsHonest`). `Arbitration` proves it inductive,
one lemma for each part; `EmittedOnce`, `EmittedIsDurable`, `RecordedCompletes` and `NeverFreedBlind` follow.
These assume `LockEnabled`: with `TERMINAL_PAYMENT_LOCK_ENABLED` off a call that loses the INSERT emits
without a row. `Refinement`, that every step maps to a step of `ChargeSlots` or to a stutter under the
mapping `SlotOf`, `ChargeOf`, does not assume the lock; it needs `SlotExclusive` for the CHOOSE of the
mapping to be determined.

`Sums`. Money and stock are sums over sets, and `SumFunctionOnSet` is a recursive function with a CHOOSE in
it, of which induction would have to be over an operator. `SumCountsTokens` goes around that: the sum of
natural numbers over a finite set is the number of pairs <<x, n>> with n in 1..f[x], because that
number solves the recurrence of the fold and two solutions would differ on a smallest set. What a sum does
when an element is added, changed, split off or renamed, or when a set is summed part by part, is then about
cardinalities, and the other proof modules cite only that.

`OrderSettlementProofs`. `OncePerCharge` from the unique index; `NoCashOnPaid` from the compare-and-set;
`RoundsCompete`, that `RoundsInv` is inductive: a round that may still win its compare-and-set has read
every row that is billed, because whoever billed another row since moved the version; `AcceptedIsBilled`
follows. `Typing` needs `RetriesLeft`, that a cash tender that may try again has tries left.
`LossesAreProgress` measures what went through (`Progress`: versions moved, and cards that have written the
totals) and shows by `LossInv` that a tender loses no more often than that grows after its reads.
`NothingUnbacked` from `BackedInv`: what a tender carries between its read and its write was backed by
payments, and payments are never taken back. `CashIsRight` from `CashInv`: as long as only cash has
paid, a cash tender that may still win has read every payment there is and the bill as it is, and a round
that may still win has read an open order.

`InterVenueTransferProofs`, each invariant on top of the one before.
- `RowInv`: before its dispatch a transfer has moved nothing (`Untouched`); a dispatch checks only what it sends,
  so the quantities stay within each other only because nothing was received or resolved earlier. With it
  `TransferTyping` and `TransferRefinement`, that transfers implement `TransferLedger`, of which no argument is
  about a batch.
- `RecordInv`: the quantities of an item are the sums of its recorded requests (`CountedOnce`).
- `ItemInv`: what an item has in transit is what its allocations have left, and its losses are priced as the
  first units of those (`Typing`, `ClosingAccounts`, `LossesPriced`). The lemmas under it say what `Draw` takes:
  the part of a batch in the first n units is a difference of two clipped numbers, so that a receipt past
  the losses, and two losses one after the other, take from each batch what one draw over both would. For the same
  reason items that draw on one material leave each batch as one item would that asks for their sum, which the
  total covers.
- `BalanceInv`: the batch of a receipt was created with what its allocation received, and no two allocations
  share one (`Apart`), whatever materials their items share; the batches that one receipt creates are numbered
  by the rank of their allocation (`UnitsBalance`).
- `SerialInv`: while only sales, purchases and transfers touch a material its total lags behind its batches by
  the purchases under way, every batch with something left is in the FIFO, and what was received
  lies in batches of the right material (`TotalFollowsBatches`).

`CalendarPushProofs`. A row is marked SUCCESS with what its worker has in hand. `Inv` says what that is at every
point (`WorkerInv`: an event in hand is one of the reservation, only a cancellation deletes, success without an
event is a cancellation), what the calls have in hand that left their transaction (`CallInv`), and that events
are cancelled for cancelled reservations only (`EventInv`). Every step but the worker's own leaves it that,
because events and cancellations are never taken back, and of the rows only their status, by an operator
(`Grows`, `Retried`); `Typing` and `SuccessStays` follow. `PushInv` adds what the advisory lock gives,
reservation by reservation: the lock is one worker's (`Exclusive`); calls that left their transaction are in the
history, and so are the inserts that a search among them goes on to (`Adrift`); a worker inserts where no event
is (`Single`); every event is mapped or in the hand of the worker with the lock, which knows the mapping and,
before an insert, that nothing was deleted or will be (`Recorded`, `InHand`); an event, or a worker, that is
behind its reservation has a row waiting that is not the worker's (`Fresh`). `OneEvent`, `NoGhosts` and
`LatestShown` are three of its parts. TLC checked `PushInv` first, on the instance of `calendar` with one fault
more.

`CashOutProofs`: `Typing`; `WithdrawnOnce` from `ClaimInv`, that an entry's withdrawal is written once, with the
withdrawal; `OneReport` from `ReportInv`, that a withdrawal in hand of one report only is still REQUESTED;
`TiersAreEarned` from `TierInv`: the count a call holds, whether it read it or kept it, is at most the number of
entries of that promoter, because entries are never deleted and each turn that adds one to the count has
created one.

`SimCustodyProofs`: `TypeCorrect`; `SomebodyHoldsIt`, `NoUnapprovedSale`, `TimelineIsAChain`. A call that wins writes
columns of an old row, so each invariant is also one of the rows in hand: `Held`, that they name a holder as the
rows of the table do; `Approved`, that a sale between its check and its update is of an approved SIM, and that
no step takes an approval back; `Chained`, that a row whose version a call still finds is the row it read, as long as only
calls have written it.

`RefundsProofs`. `Typing` needs that a split read before the lock fits its payment (`ReadFits`).
`PaidBackExactly` from `LinesInv`: the refunds of a line add up to the cents of its first units
(`LineCents`), however they were split, so that the odd cents are paid once. `TotalsOfBothSides` from
`ClaimsInv`, that a payment's `processorData`, and what a terminal has read of it, claim no more than
the rows refund, and `TerminalInv`, that until a terminal has refunded they claim no less of the sale.
`ReversedOrdersRestock` from `ReversedInv`: once the order is reversed some row is yet to sum it up, or has
done so and seen all rows.

Assumptions: only those the modules name (`CallsAssumption`, `RequestsAssumption`, `BoundsAssumption`,
`TendersAssumption`, `OrderAssumption`, `StockAssumption`, `TransfersAssumption`, `MaterialsAssumption`,
`CalendarAssumption`, `CashOutAssumption`, `SimCustodyAssumption`, `RefundsAssumption`), evaluated by TLC in every run of
the module. That the sets summed over are finite is among them: the rows of an order, of a transfer or of a
payment, and the calls. `LockEnabled` is a hypothesis of the theorems that need it. `MaterialsAssumption` is what
`createInterVenueTransfer` enforces, and no more; no proof uses it.

Model-checked only: the liveness properties `NothingIsStuck`, `RowsSettle` and `LedgerFollowsSales`, because
no prover here decides fairness; and that `Draw` is what the code's loop computes (`DrawIsTheLoop`), which
would take induction over the length of a list.

## 13. Disagreements between the code and what it says of itself

Runs that expect a violation:

- `void_race`: `cancelOrder` checks for a charge in flight and cancels later; one may start in between,
  against the comment at `order.mobile.service.ts:2294-2298`.
- `totals_race`: two card tenders write `paidAmount` from crossing reads; the last writer forgets a recorded
  payment, against `money-integrity-watchdog.job.ts:28`.
- `refund_race`: a terminal's refund writes the total it read before its lock and forgets another; a third one
  then passes, against `refund.tpv.service.ts:237-239`.

Behaviours of the models that contradict a text and have no run of their own. Each can be seen by
stating the sentence as an invariant or action property of its module:

- A row closed as failed and then completed by its payment keeps the old `resultJson`, and `resultFromRow`
  prefers it (`terminal-payment.service.ts:157`): a retry of the requestId is told that the charge failed, against
  the comment at 481-485.
- Passes may overlap (cron, boot, instances), and the check that a payment is not claimed twice (607-608) is a
  query apart from the update: two passes complete two rows with one payment. With one pass at a time they
  do not.
- A card tender marks the order PAID without moving `version`; a round that read it before is added to a paid
  order, against `order.tpv.service.ts:1284`.
- When a line has no stock the rollback makes a SIM available again and leaves its custody SOLD, so that every
  custody call is refused, against `prisma/schema.prisma:8911`.
- Sales, returns and approvals do not move `custodyVersion`; a call that read the row before them wins and writes
  over them, against `custody.service.ts:878-879`.
- An upload reads that a SIM is available and sells it by id; a sale in between is overwritten, against
  `manualSale.service.ts:88-89` and `198-199`.
- The back office compares a tip with the original tip and counts only the sale of earlier refunds: a tip is
  refunded twice, against "the remaining refundable tip" (`refund.dashboard.service.ts:45-46`).
- An item refund that names a tip skips the rebalance, against "Item-refunds ignore this override" (46-47).
- Two refunds commit before either sums, and both return every line, against `refund.tpv.service.ts:444-445`.
- Lines that the back office returned are returned again with the whole order, against "there is no per-item
  breakdown" (`inventoryRestock.service.ts:130-131`).

Shown by the exceptions that the properties of the other modules need; without its exception each is
violated:

- `StockIsBatches`, the invariant of `fifoBatch.service.ts:581`: `adjustStock` adds to a total it read before
  its transaction and undoes a sale in between (`rawMaterial.service.ts:559`), and two calls quarantine one batch
  twice; the same was cured in `receivePurchaseOrder` (`purchaseOrder.service.ts:1081`).
- `overrun` in `OneEventPerSource`: an insert that lands after its transaction was cut, or that a search goes on
  to whose transaction was cut, is not seen by the retry's list, and a second event appears, against the promise
  of idempotency at the head of `push.service.ts`. The two events then collide with the unique index on the
  mapping at every retry, and the row never ends (`RowsSettle`).
- `unsure` in `NoGhostEvent`: after an insert whose answer was lost, or that was sent when its transaction was over,
  nothing is mapped, and the cancellation, finding no mapping, is done at once (`push.service.ts:274-275`).
- `readable` in `RowsSettle`: a row whose client cannot be made (`push.service.ts:153`) is tried at every tick with no
  attempt counted and no delay, and 100 of them keep the sweeper from all others, against "persists all failure
  paths" (`gcal-outbox-sweeper.job.ts:99-100`).
- `Retried` in `TypeOK` of the calendar: a row that an operator put back may be given up before `MAX_ATTEMPTS` further
  attempts, since a worker that read it before counts on; and the update, which looks at the status no more, may
  put back a row that has just succeeded, against `googleCalendarStatus.controller.ts:237-238`.
- `outdated` in `ShowsTheLatest`: the body is built before the lock (`push.service.ts:103`), so an older one may be
  pushed last.
- `shared` in `ReportedOnce`: two reports that overlap list the same withdrawal, against "atomically marks
  them REPORTED so they aren't reported twice" (`cash-out.report.service.ts:6`).

Two things the cash-out model shows that no text contradicts: an entry that was clawed back stays so when its
sale is approved again, and a clawback leaves the amount of its withdrawal as it was. Two that the other models
show: a damage leaves the SIM's order item in place, and the units of a line are counted per payment, so
that an order paid in two parts can return each unit once through each.

## 14. Not modelled

Of the modelled components: `printReceiptOnTerminal` and the read-only queries; charges without an order; the
integrated mode, fast payments, area tickets and merchant routing of `recordOrderPayment`; loyalty, commissions,
reviews, digital receipts and notifications, which follow a payment and do not decide it; discounts, comps and
voids; rounds that rewrite an existing line; receiving a purchase item by item, products for resale and the
direct adjustment of the mobile stock count; class sessions on the calendar; rates, active days and bank
accounts of the cash-out scheme; categories and registration requests of SIMs; shift totals, commissions,
transaction costs, referrals and receipts of a refund, and refunds without an original payment. The other
components of section 1 are not modelled yet; section 2 says in which order they come. Dashboards, reports,
fiscal documents and the provider mirrors, which are most of the code, have little control of their own and are
not planned.
