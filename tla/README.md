# TLA+ model of the shop's checkout, payment and delivery core

The repository is a shop: a Telegram bot (`apps/order-bot`), a web storefront
(`apps/storefront`) and an admin panel (`apps/web-admin`) in one Node process
(`apps/server`) over one PostgreSQL database (`packages/db`, Prisma, READ
COMMITTED). Buyers pay through QRIS gateways and crypto rails; the shop then
delivers stock items, calls a supplier, queues the order for an admin, or
credits a wallet.

The database is the only shared state. Concurrency is between HTTP requests,
pollers (`setInterval` loops in the bot), gateway callbacks and admins, each an
`async` function whose awaits interleave with every other one, and between
those and process restarts. There is no queue and no lock service: mutual
exclusion is a guarded `UPDATE ... WHERE` that reports how many rows it hit, a
unique key, or `SELECT ... FOR UPDATE` inside a transaction. What is hard is
everything between two statements that are not in one transaction.

## 1. Inventory

| Part | State | Operations | Interacts with | Correct when |
|---|---|---|---|---|
| Gateway invoice slot (`crud/orders.ts`, pay pages) | `Order.paymentRef`: null, time-stamped sentinel, invoice | claim, reclaim, commit, release | page loads, bot checkout, gateway | one gateway call at a time; the invoice shown is the one kept |
| QRIS settlement (`crud/tokopay.ts`, twin `crud/paydisini.ts`) | ledger row per transaction (`processed_*_tx`), order | park, claim, reclaim, deliver, undo | callbacks, poller, admins, wallet | a payment is spent once; nothing paid is lost |
| Order lifecycle (`crud/orders.ts`, `crud/orderStatus.ts`) | `Order.status`, history, items | transition, cancel, expire, fulfil, credit | every rail, stock, wallet | terminal means terminal; one payout |
| Underpaid resolutions (`crud/wallet_topup.ts`, `crud/binance_internal.ts`) | `QrisUnderpaidTx`, status | flag, refund, deliver, credit anyway | wallet, admins | the short money is given back once |
| Manual match and dismissal (`crud/manualMatch.ts`) | ledger rows | match, undo, dismiss | settlement | no payment funds two orders or is hidden |
| Wallet (`crud/users.ts`) | balance, journal | adjust | orders, refunds | balance is the sum of the journal, never negative |
| Checkout and idempotency (`crud/wallet_checkout.ts`, `crud/idempotency.ts`) | claim row, stored reply | claim, save, release, take over | stock, wallet, vouchers | a retried request buys once |
| Stock (`crud/stock*.ts`) | items AVAILABLE/RESERVED/SOLD | allocate (`SKIP LOCKED`), release, import, replace | orders | an item is sold once |
| Vouchers, bulk tiers, pricing | counters, rules | quote, bump usage | checkout | the limit holds; a quote is what is charged |
| Amount-matched rails (`binance_internal`, `bybit_deposit`) | unique amounts, ledger | poll, match, deliver | exchange APIs | one transfer, one order |
| BSC deposits and tracker | confirmations, status | detect, count, deliver | Bybit, explorer | tracking never disturbs delivery |
| NOWPayments, Xendit, KokinPay | ledger | callback, reconcile | gateways | as QRIS |
| Digiflazz (`crud/digiflazz*.ts`) | dispatch stamp, lease, outcome | dispatch, recheck, webhook, admin verdict | supplier | bought once; failed means failed |
| Outbox and dispatcher (`crud/notifications.ts`, `outbox-dispatcher`) | rows with status, claim, attempts | enqueue, claim, send, record, retry | Telegram, SMTP | no row lost, no known send repeated |
| Poll loop, backoff, cursor, health | cursor, delay | run, back off | all pollers | every order is visited |
| Ledger, revenue, settlements, refunds | double-entry postings | post, reconcile | every money move | debits equal credits |
| Email, support, broadcasts, reviews, referrals, catalogue, detection, i18n, auth, HTTP and client code | own tables | CRUD, rendering | outbox | outside the money core |

`PROJECT.json` lists the same parts as components with their files and status,
and every hazard found while reading, at the line where it bites.

## 2. What is modelled

### GatewaySlot

One order's `paymentRef`, any number of storefront page loads (`PageLoads`) and
bot checkouts (`Checkouts`). Each database statement of `claimGatewaySlot`,
`commitGatewayResult` and `releaseGatewaySlot` is an action (none runs in a
transaction), and so is the gateway call, which succeeds (`CallSucceeds`) or
fails (`CallFails`). The sentinel string is `Claim(t)`: its time stamp is what
staleness and compare-and-swap look at. `Begin` is the caller's earlier read of
a payable order without an invoice. A checkout that fails also cancels its
order shell, in a step of its own. `Crash` may kill any caller between two
statements.

The clock is explicit. `Tick` cannot pass the point at which a live caller's
HTTP timeout would have ended its call: `CallLimit < TTL` is the code's 15 s
(`HTTP_TIMEOUT_MS.gatewayWrite`) against 30 s (`GATEWAY_CLAIM_TTL_MS`). This is
`TimelyCalls`, the assumption that mutual exclusion stands on: without it two
callers may be in the gateway call at once. What the compare-and-swap of commit
and release still guarantees then, that a stored invoice stays, is proved
without the assumption.

One detail is idealised: the sentinel identifies its caller. In the code the
string is `claim:<order>:<milliseconds>`, in the model a tick. Two callers with
the same tick hold equal sentinels, in the model as in the code, so the model
keeps the collision.

### PaymentSettlement

Orders, ledger rows and workers of one QRIS gateway. A worker is a storefront
callback, the bot's reconcile poller or an admin request; `pc` is the statement
it is about to run and `job` its payment and order.

| Model | Code |
|---|---|
| `Pay` | the gateway has the buyer's money |
| `CallbackStart`, `PollerStart`, `GatewayAnswers`, `GatewayHidesAmount` | callback route and `pollOnce`; `checkTransaction` |
| `Park`, `RecordShort`, `FlagUnderpaid` | `recordUnmatchedTokopayTx`, `markOrderUnderpaid` |
| `Claim`, `Reclaim` | the claim in `deliverPaidTokopayOrder`, `reclaimStaleMatchedClaim` |
| `ReadOrder`, `Unpayable`, `Settle`, `SettledByOther`, `SettleFails` | the delivery transaction |
| `Preserve`, `MarkFailed`, `UndoMatch` | its catch branches; `undoFailedManualQrisClaim` |
| `Alert` | `enqueueAdminStalePayment` |
| `MatchStart`, `Dismiss` | `manualMatchLedgerTx`, `dismissUnmatchedLedgerTx` |
| `CancelOrder`, `ExpireOrder` | `cancelOrder`, the expiry job |
| `CreditToBalance`, `FulfillManual` | `creditOrderToBalance`, `fulfillManualOrder` |
| `RefundUnderpaid`, `DeliverUnderpaid`, `CreditAnyway*` | the underpaid resolutions; the aged-underpaid sweep calls the first |
| `Crash` | a restart, or a write whose error the code swallows |

The delivery transaction is two actions, `ReadOrder` and `Settle`: READ
COMMITTED lets another transaction commit between its first read and its
guarded writes. A transaction that rolls back is `SettleFails`. `Settle` may
also end as an error *after* COMMIT: the acknowledgement is lost, and the catch
block runs on an order that is settled.

`order[o].payouts`, `funded` and `alerted` are histories: how often something
of value was handed over for `o`, which payments paid for it, and which stale
payments were told to whom: to an admin, or, by the poller, to the log
(`Channels`). The "unconfirmable" alert of a parked payment is not counted.

`PaymentOnce` is what a buyer and the shop may count on, with no ledger, claim,
worker or crash in it: each product is open, queued, delivered, returned or
cancelled; it is settled by one payment that covers its price and was spent on
nothing, or by its own short payments; it pays out (the goods, or the price back
to the wallet) when it becomes delivered or returned, and that happens once; a
cancelled product can still be given back, but only against money that arrived;
and money spent on one order is spent on no other. `SettlesOnce` maps a product's
status and credit mark to where it stands (`Standing`), `payouts` and `funded` to
the two histories. A top-up order is only a way for money into a wallet there:
how often is not promised (finding 1 of section 3 says why).

Left out, with the reason: `PENDING_VERIFICATION` and the approve/reject
screens (the status is only passed through inside transactions; the screens'
entry, `attachPaymentProof`, has no caller outside the tests); the Digiflazz
lock on crediting (in `DigiflazzDispatch`); `ADMIN_OVERRIDE` completion (writes
the same status); rows parked before `suggestedOrderId` existed, which are
matched to their order by an amount window; stock and vouchers (in `Checkout`;
a delivery that finds no stock is `SettleFails` here); the expiry clock (an
order may expire at any moment).

**Timing.** `Abandoned(t)`, the guard of a reclaim, says that no live worker
holds the claim. In the code the guard is age: `STALE_MATCHED_CLAIM_MS` is
2 minutes and a delivery transaction ends within 15-20 seconds. A worker that
slept longer than that without dying is outside the model. `MarkFailed`, which
the code does not gate on the claim, relies on it too.

### Outbox and NotificationDelivery

`Rows` of `notification_outbox` and `Dispatchers`, each a process running
`runDispatcher`. A row has its status, attempt count, the owner and the age of
its claim, and whether its backoff is still running; a dispatcher has the step
it is in (`pc`), its row (`at`) and the sends it could not record (`parked`,
the code's `unrecordedSends`).

| Model | Code |
|---|---|
| `Enqueue`, `AdminRetry` | `enqueueNotification` and its wrappers, `retryNotification` |
| `BackoffEnds`, `ClaimAges` | time against `nextRetryAt` and `STALE_CLAIM_MS` |
| `Claim` (`Claimable`, `MayTake`) | `claimNotification`; the `unrecordedSends` check of `drainBatch` |
| `Skip`, `CheckFails`, `PutOff`, `StartSend` | the branches of `drainBatch` and `deliverEmail` |
| `SendAccepted`, `SendFails`, `SendFlooded`, `Release` | `trySend`, `trySendEmail` |
| `RecordSent`, `RecordThrows`, `Flush` | `recordSent`, `flushUnrecordedSends` |
| `CountAttempt`, `SettleFailure` | the two statements of `markNotificationFailed` and of `releaseNotificationClaimWithBackoff` |
| `WriteThrows`, `Crash` | a write that ends the tick; a process that dies |

`Owns(d, r)` is `claimGuard`. The code compares time stamps; a dispatcher works
on one row at a time and never claims one it has parked, so its name stands for
its latest claim. A claim may get stale at any moment while its dispatcher sleeps
in Telegram's flood control, after it died, and, for those in `Slow`, at any
time: the others end a send (60 s, 4 min for a support reply) before the claim
is stale (5 min). `reached`, `known` and `failures` are histories: messages that
arrived, the sends a process has seen accepted and still owns, and failed
attempts since a row was queued. A call that timed out may have got through; it
is decided at the timeout, since what arrives later changes nothing the
dispatchers look at.

`NotificationDelivery` is what the rest of the shop relies on: a row is absent,
queued, sent, skipped or given up; it is sent only if its message arrived, and
sent and skipped are for ever. It leaves out what the code does not promise: a
crash between a send and its record repeats the message.

Left out: dedupe keys (a repeated enqueue is a no-op), the order of a batch,
pruning of settled rows, and checkpoints inside messages of several parts.

### DigiflazzDispatch

One paid order that the supplier delivers; orders share nothing here. The cron,
the instant dispatch after payment, the supplier's callback and an admin's
"check now" are `Workers`, all of which run `processDigiflazzOrder` or a part
of it; `pc` is the statement a worker is at, `job` the snapshot it took. The
supplier is external: `trx` is its transaction for the order's ref id, `wire`
holds requests the shop has given up on and the supplier may still receive.

| Model | Code |
|---|---|
| `ReadCandidate`, `Remind`, `FailUnconfigured`, `TerminalFail` | the candidate query, the reminder, the failure for want of credentials |
| `ClaimFresh`, `ClaimRecheck` | the guarded claim of a dispatch and of a recheck, with its lease |
| `StartCheck`, `ClaimCheck` | `recheckDigiflazzOrderNow` and the callback route; `claimDigiflazzWebhookRecheck` |
| `Unfit`, `Send`, `Serve`, `Refuse`, `TimeOut`, `LateArrival`, `SupplierDecides` | the request and what may become of it |
| `Fulfil`, `FulfilFails`, `RecordFailure`, `RecordPending`, `RecordUnresolved`, `RecordCheck` | the ways to record an answer |
| `MarkFailed`, `MarkDelivered`, `Credit`, `FulfilByHand`, `Edit` | admin overrides, `creditOrderToBalance`, `fulfillManualOrder`, `updateOrderCustomerData` |
| `Tick`, `WeekEnds`, `Crash` | the lease and backoff clock, the unresolved week, a process death |

`digiflazzNextRecheckAt` serves as backoff and as lease. Its value is null,
passed, within a lease or later, tagged with the worker that wrote it, which
stands for the exact time stamp the code compares. `Tick` does not let a lease
run out under a live dispatcher: this is the code's claim that a 15 s request
ends well inside 45 s (`digiflazz.ts:356`). A check has no such protection, as
in the code. Overrides are modelled with an admin who tells the truth about the
supplier's panel. Left out: the catalogue synchronisation and product settings.

### Checkout

Orders of one unit, the items, wallets, the voucher and the carts they need,
under PostgreSQL's READ COMMITTED. A `Worker` is a transaction; each step is a
statement that can wait for a row, lose a race or read what another transaction
will change. Only what is committed is state: `order`, `stock`, `balance`,
`journal`, `used`, `redeemed`, `full`. A transaction keeps what it will write
in `job`, and holds rows in `owner` (exclusive) and `sharers` (the foreign-key
lock an `INSERT` takes on the buyer's row).

| Model | Code |
|---|---|
| `ReadSession`, `LockCart`, `CartIsEmpty`, `BeginDirect` | the entry of a checkout, `lockCartForCheckout` |
| `Quote`, `QuoteRefused`, `InsertOrder` | price and credit, the voucher's first check, `order.create` |
| `Reserve`, `OutOfStock` | `allocateOneAvailableStock` (`FOR UPDATE SKIP LOCKED`) |
| `Debit`, `Overdraws`, `Redeem`, `RedeemRefused` | `adjustWallet`, `bumpVoucherUsage` |
| `StillOwing`, `CommitOrder` | the wallet checkout's last checks and its commit |
| `ClaimOrder`, `SellHeld`, `LostIt`, `Substitute`, `CommitDelivery` | `approveOrder` |
| `LockOrder`, `ReleaseItem`, `Refund`, `GiveBackUse`, `CommitCancel` | `cancelOrder`, `releaseOrderHolds` |
| `MarkDead`, `SoftDelete` | the admin's stock operations |
| `DeadlockVictim`, `Abort` | the database ends a cycle of waits; a connection is lost |

The order of the statements is the code's, which differs between the cart path
(debit, then voucher) and the direct one (voucher, then debit): locks are taken
in that order, so real deadlocks are behaviours here. Left out: quantities,
several currencies, tiers and rounding; import and replacement of stock.

`AtomicShop` is the same shop with no transactions: it has only the committed
variables, and a checkout, a delivery, a cancellation or an admin's withdrawal
is one step that reads what is committed at that moment. `Checkout` implements
it with its own variables (`ShopKept`; no mapping is needed), which says that
the isolation the code builds from row locks is serialisability: an operation
that is refused, rolled back or chosen as a deadlock's victim is a step that did
not happen, and there is no other interference.

### IdempotentRequest

One Idempotency-Key. `Attempts` race for its row; `kind` is where the route
stores its response: in the mutation's transaction, after it under a guard that
refuses a second run, after it without one, or without a key at all.

| Model | Code |
|---|---|
| `Claim`, `Collide` | `create` of the row, its unique violation |
| `Look` (six cases) | what `claimIdempotentRequest` does with the row it finds |
| `TakeOver`, `Reclaim` | the compare-and-swap that claims an abandoned row (on its `pendingSince`) or a keyless response outside its window (on its `createdAt`) again |
| `Run` (`CommitInside`, `CommitOutside`, `Refuse`, `RefuseUnsaved`, `Throw`) | the route's mutation |
| `Save`, `SaveFails`, `Release` | `saveIdempotentResponse`, `releaseIdempotentClaim` after the answer |
| `Age`, `Crash` | a claim turns a minute old, a keyless answer ten seconds; a death |

Attempts in `slow` may still run when their claim is a minute old. The code
assumes there are none; the model checks what holds without that assumption.

### BscDeposit

Orders paid by an on-chain transfer, which names no order. A `Poller` is one
deposit in work in a cycle of the deposit poller (cycles overlap: an abandoned
one runs on), a `Tracker` one order in work in the confirmation tracker.

| Model | Code |
|---|---|
| `Match` (`InFlight`, `TiedOrders`, `MatchByAmount`, `MatchUnderpaid`) | the matching of `processDeposits` |
| `LookConfirming`, `LookCredited` | a deposit as Bybit lists it, unconfirmed or credited |
| `DetectRead`, `DetectTie`, `DetectMove` | `recordBybitBscPaymentDetected` |
| `Claim`, `ReadOrder`, `Stale`, `Settle`, `SettledByOther`, `SettleFails` | `deliverPaidBybitBscOrder`, `settleClaimedBybitBscDeposit` |
| `Preserve`, `MarkFailed`, `FailOrder`, `Alert` | its catch block |
| `FlagClaim`, `FlagRead`, `FlagOrder`, `FlagFails`, `Park` | `markUnderpaidBybitBsc`, `recordUnmatchedBybitBscTx` |
| `TrackerLook`, `TrackerRead`, `TrackerAdvance`, `TrackerComplete` | `recordBybitBscConfirmationProgress` |
| `ManualMatch`, `Dismiss`, `CancelOrder`, `ExpireOrder`, `Crash` | admins, the buyer, the expiry job, a death |

The writes of the catch block are best-effort in the code, so each may fail. As
in the QRIS module, `Abandoned` stands for the age check of a reclaim, and
`Settle` may end as an error after COMMIT. Left out: the creation of an order
and its unique cents, the display-only staleness flag, crediting and manual
fulfilment (in `PaymentSettlement`), whether Telegram delivers an alert, and
the transaction hash a settled order keeps.

## 3. Runs

| Run | Question | Bounds |
|---|---|---|
| `gateway_slot` | Does the slot exclude rivals and keep the invoice? | 2 page loads, 1 checkout, TTL 2, call limit 1, clock to 5: time for a claim to go stale and its successor too |
| `settlement` | Do claim, cancellation and resolution exclude each other? | a product and a top-up, both paid in full; callback, poller, admin; 1 crash |
| `settlement_alert` | Is a product paid for once and handed out once (`PaymentOnce`), is each payment spent on one order, and does a payment of a cancelled product reach an admin or the log? | a dear product, a top-up, a cheap product; a payment in full, one short of its own order that covers the cheap one, and a second, short payment of the dear order; callback and admin |
| `settlement_recovery` | Is a payment recovered after its worker died? | callback, poller, 1 crash, fairness |
| `settlement_topup` | Is a short top-up credited once? (no) | a top-up, callback, admin |
| `outbox` | Do claims and `unrecordedSends` prevent duplicates, is the promise kept, is every row settled in the end? | 1 row, 2 dispatchers, 2 attempts, 1 fault, 1 put-off, fairness |
| `digiflazz` | Is there one request at a time, for one account, and never a top-up and its money? Is every paid order settled? | cron (perhaps without credentials), instant dispatch, callback and admin check; 2 accounts, 1 edit; 2 fast attempts; 1 fault; fairness |
| `digiflazz_credentials` | Does only an unsubmitted order fail for want of credentials? (no) | as `digiflazz` |
| `checkout` | Do stock, wallets, voucher and carts agree with the orders, are the transactions serialisable, and does every checkout end? | one cart submitted twice, once by wallet; a direct purchase by the same buyer and one by another, both with a voucher of one use; 2 items; 1 payment, 1 cancellation, 1 item withdrawn; fairness |
| `idempotency` | Does a key run its request once, and is the reply true and kept? | 3 attempts and one with other content; the four kinds of route; with and without an attempt that outlives its claim |
| `bsc` | Is an order paid once and no deposit swallowed? | a product and a top-up; a deposit that pays one and fits the other, and one that pays the other and is short of the first; 2 deposits in work, 1 crash |
| `bsc_tracker` | Do poller and tracker only move an order forward? | 1 deposit, 2 in work, 1 tracked order, 1 crash |

Three kinds of worker and one crash are enough for the passing properties of
`settlement` because a claim is about one payment: the rivals a worker meets
are another automatic worker, a manual one, and what a dead one left behind.
`settlement_alert` has no poller, whose own stale finds go to the log only (see
below), and no crash, after which an alert may be missing: the property claims
nothing then. The proofs of its three properties cover pollers and crashes.

Two dispatchers are a sender and whoever takes the row over; one row is enough
because each property of `outbox` is about one row at a time, and all but the
liveness are proved for any number of both, and for slow dispatchers too (save
`SingleSender`, which their slowness breaks). Two attempts give a row that is
retried and one that is not; `CountCap` is one above, so that a put-off row may
pass the limit.

In `digiflazz` one worker of each kind is every pair of code paths that can
meet; a window of two attempts has an order that is answered inside it and one
that leaves it. In `checkout` two carts of one buyer race for the cart, three
transactions of `b1` for the wallet row, two buyers for the last use of the
voucher and for the last item, with an item withdrawn while it is held. Three
equal attempts in `idempotency` are an owner, one that takes over and one that
waits. In `bsc` the amounts make each deposit fit both orders at some time. All
safety properties of these four are proved without the bounds.

The amounts are small numbers chosen so that a payment is exact, short for its
own order, or enough for a cheaper one. The page loads in `gateway_slot` and
the deposit cycles of the `bsc` runs are symmetric (no liveness is checked
there); no other run uses symmetry. `CHECK_DEADLOCK FALSE`: when every payment
is settled, every request answered and every row sent, nothing has to happen.
(A deadlock of database transactions is not such a stop: the database ends it,
and `EveryCheckoutEnds` is about it.)

### Fairness

`FairSpec` of `PaymentSettlement` is weak for each worker's next step (Node
keeps running a request it accepted; a crash ends the request and is bounded),
strong for the poller to pick up each waiting order (the rotating cursor of
`pollOnce` comes back to it, though the order may be busy in between) and
strong for the gateway to name the amount (it may hide it for a while, not for
ever). Callbacks have no fairness to start: a gateway may never call.

In `Outbox` a dispatcher keeps running (weak), every tick flushes and takes the
oldest claimable rows first, so each row is claimed and each parked send flushed
again and again (strong), and a send is not put off by flood control for ever
(strong).

In `DigiflazzDispatch` a worker finishes what it began (a request is answered
or times out), the cron, which runs every five seconds, reads its candidates,
and the clock advances: all weak. Instant dispatches, callbacks, checks and
admins need not happen. In `Checkout` a transaction that began runs on, which
includes that the database wakes a waiter whose row is free and breaks a
deadlock: weak, and only for those that began.

### Where code and text disagree

Two disagreements are runs that must end in a counterexample; `PROJECT.json`
quotes the lines.

1. `settlement_topup`: "a second call fails the UNDERPAID precondition": that
   check is made before the lock, and a concurrent refund slips in between.
2. `digiflazz_credentials`: "missing credentials fail only an order that was
   never submitted": a dispatch that read the order before another one claimed
   it fails it after that one's request was made.

The others were met while modelling. The models have the behaviour, as the
code does; no property says otherwise.

QRIS and orders:

* The bot cancels a shell that "has no payment instructions" after releasing
  the slot; a page load in between may have got some.
* A stale payment is left to "a human", but the poller tells only its log.
* Crediting consumes parked rows "so no gateway settle path can reclaim and pay
  out the same payment again" (`orders.ts:2226`); a callback that holds the
  matched claim of a top-up settles it late.
* After a crash, a re-match and its undo a row has lost its hint, and the guard
  against dismissing a payment the order still waits for sees nothing.
* Of two claimed payments of a cancelled order one is named to the admins
  (`orders.ts:2085`), and the alert of a stale callback is lost if the process
  dies before enqueueing it (storefront `checkout.ts:1397`).

Outbox:

* A dead letter "went through real exponential-backoff retries"; a row put off
  for missing configuration has used up its attempts, and its first real
  failure is its last.

Checkout and idempotency:

* Wallet movements "queue behind each other" (`users.ts:318`); two wallet
  checkouts of one buyer have both inserted an order by then, whose foreign key
  locks the user row in share mode, and the upgrade deadlocks: the database
  aborts one. `emailInventory.ts:27` avoids the same upgrade.
* A repeated top-up request replays "instead of creating a second order"
  (`apiTopup.ts:352`): the reply is stored after the order's commit, and a
  death in between lets the retry create another. The admin panel's wallet
  route stores it inside (`users.ts:396` explains why).
* A cart line added between the checkout's read and its `clearCart`
  (`orders.ts:1150`) vanishes unbought.

Digiflazz:

* An order the supplier fulfilled whose own fulfilment then fails "must NEVER
  be retried" (`digiflazz.ts:1708`); its fields stay as the claim left them, so
  the cron does ask again, and the other comment (1953) relies on it.
* `createRefund` and `executeRefund` do not look at the in-flight lock that
  `creditOrderToBalance` respects.

BSC:

* A tied deposit is "re-matched by that txid, never by amount again", but the
  lookup is among the orders in flight: once its order is CONFIRMED or past its
  window the deposit is matched by amount.
* A `delivery_failed` row is claimed for whatever order the deposit fits then,
  which may be another.
* The tracker runs "without any risk of double- or under-delivery"; a milestone
  between the delivery's read and its status write makes the delivery of a
  product throw, and the order ends FAILED with the deposit `delivery_failed`.
* A death between claim and delivery of an order past PENDING_PAYMENT leaves
  the row "matched", which no later cycle may reclaim for it.
* An underpaid row commits before its order is read: an order that moved since
  leaves an "underpaid" row nobody is told of, and the write of the
  transaction hash is blind (914).
* A top-up that another deposit settled between the read and the write keeps
  this deposit's row "matched"; `ClaimedDepositIsAnswered` is about products.
* After a lost acknowledgement of a settlement the row says `delivery_failed`,
  and the deposit may settle a second order.

## 4. Proofs

TLAPS proves, for every value of the constants that meets the module's
assumption, with any number of orders, payments, callers and workers:

* `GatewaySlotProofs`: `TypeCorrect`, `OneCallerAtATime` (`SingleCaller`),
  `LiveCallerKeepsSlot` (`ShownInvoiceIsStored`), `InvoiceIsFinal`
  (`StoredInvoiceIsKept`). `SingleCaller` is not inductive: a caller about to
  swap a stale sentinel may still find it in the slot while its owner lives.
  The strengthening says that whoever acts on a claim owns the slot's content,
  that no claim is stamped in the future, and that the claims of live callers
  are younger than the TTL; so a null slot or a stale sentinel has no holder
  (the two lemmas of that name), and the swap takes nothing from anybody. The
  two theorems about live callers assume `TimelyCalls`; the other two do not.
* `PaymentSettlementProofs`: `TypeCorrect`; `ProductIsPaidOnce`, by the
  invariant that the payouts of a product are a function of its status (one if
  it was delivered, refunded or credited, none if it waits, fails short or is
  queued); `ClaimIsHeldOnce`, by the invariant that at most one worker holds a
  payment, that a held row is "matched" for the holder's order until it settles
  or fails, and that a worker about to reclaim found a row abandoned;
  `EndIsFinal` (`EndedStaysEnded`), for orders from the guards and typing, for
  rows from the invariant of claims: a worker that writes a row holds it, a held
  row is matched, or was settled by its holder, and a resolved row is neither.
  `ProductIsPaidOnce` is part of what the refinement below says.
* `PaymentFundsProofs`, on top of those: first, what one step may do to a job
  (`JobMoves`), a row (`RowMoves`), an order (`OrderMoves`) and the history of
  payouts (`FundedMoves`), one case per action; the two invariants need only
  these. `PaymentFundsOne` (`PaymentFundsOneOrder`) stands on `FundsInv`: money
  paid out went either to the order that took it as a short payment, or to the
  order its row names, where it is the settlement on record or a credit
  (`FundedOnce`); a short payment is linked to another order only once its own
  cannot take it any more (`ShortMoneyElsewhere`, what `SpentAsShort` is for);
  and a manual match still in progress moves money that was not paid out
  (`MatchMovesUnspentMoney`), so its undo hides nothing. `StaleIsReported`
  (`StalePaymentReachesAdmin`) stands on `StaleInv`: a payment whose row says
  "stale", or "matched" for a product that was cancelled and not credited, is
  with a worker that will tell, or has been told; a product that a payment is
  on record for was fulfilled, credited or returned, so a claim is not left
  behind by a settled one. Both hold for any number of workers and crashes (the
  second one's property excludes crashes itself). `SettlementKeepsPromise`
  (`SettlesOnce`) is the refinement of `PaymentOnce`, one lemma per action that
  moves an order or money. The money a settlement takes is fresh by `FundsInv`
  and the invariant of claims; that no step spends it on a second order is
  `PaymentFundsOneOrder` of the next state; and `MoneyInv` has what the ledger
  says nothing of: the money a match moves covers its order's price, and an
  underpaid order has a short payment of its own.
* `OutboxProofs`: `TypeCorrect`; `NoKnownSendRepeated`, by the invariant that a
  send its dispatcher knows of is either about to be recorded under an intact
  claim or recorded; `HolderDecides` (`ClaimerRules`), from the claim guard and
  the fact that a row being sent is due; `NobodySendsTwice` (`SingleSender`),
  which assumes `Slow = {}`: whoever works on a row awake holds a fresh claim;
  `OutboxImplementsPromise` (`PromiseKept`), the refinement, which needs that
  whatever is being recorded as sent has arrived and that whatever is worked on
  was queued.
* `DigiflazzDispatchProofs`: `TypeCorrect`; `RequestsAreSerial`
  (`OneRequestInFlight`), by the invariant that the lease in the row of an open
  order is that of the one worker between claim and answer; `NoSecondBenefit`
  (`NoDoubleBenefit`), which needs that an order never dispatched is unknown to
  the supplier, that a refusal and a "Gagal" in hand are true, and that money
  and hand deliveries leave only failed orders; `SubmittedTargetsAgree`
  (`TargetIsFrozen`), as whoever may still send holds the order's target;
  `NotReopened` (`NeverReopened`), from the guards of the recording writes and
  the fact that only a dispatched order has an outcome.
* `CheckoutProofs`: `TypeCorrect`; `ItemsAgree` (`ItemsMatchOrders`),
  `WalletsAddUp` (`WalletIsItsJournal`), `UsesStayCounted` (`UsesAreCounted`),
  `CartsSellOnce` (`OneOrderPerCart`), `FinalStockNeverReturns` (what is sold,
  dead or deleted is never overwritten; an action property stated there). One
  invariant carries them: a transaction that has passed a statement owns the
  rows it locked there, and what it has read of them (the balance, the order's
  status, the cart, the item) is what is committed. Other transactions keep it
  true because they write only rows they own. `CheckoutIsSerialisable`
  (`ShopKept`) follows: only commits write (`OnlyCommitsWrite`), and at a commit
  everything the transaction remembers is current, so the commit is the abstract
  operation, run alone at that moment. One value is read without a lock, the
  balance the session saw; it decides only whether the checkout is refused, and
  the credit it quotes depends on it in no order that commits (`QuoteStands`).
* `IdempotentRequestProofs`: `TypeCorrect`; `AtMostOnce` (`OneEffect`), by the
  invariant that the effect of an inside route has its completed row (of a
  guarded route it claims nothing: there the order or the cart refuses the
  second run, see `OneOrderPerCart`);
  `RunsAreExclusive` (`OneRunner`) and `SuccessIsTrue` (`TruthfulSuccess`), which
  the properties claim when no attempt is slow: then a running attempt's claim
  is the row; `ResponsesStay` (`KeptAnswerStays`).
* `BscDepositProofs`: `TypeSafety`; `PaidOnce` (`OrderPaidOnce`),
  `ClaimsAreExclusive` (`ClaimHeldOnce`), `DepositsAreAnswered`
  (`ClaimedDepositIsAnswered`) and `MilestonesMoveForward`
  (`OrderMovesForward`). The invariant says that an order's payouts follow its
  status, that one worker at most holds a deposit and its row is the one it
  wrote (until it settles or fails), and that a claimed deposit has delivered
  its order, has been reported, or has a worker that will do one of the two.

The auxiliary invariants are in the proof modules under their own names, one
lemma per action group shows that a step preserves them, and the last step of
each theorem is temporal.

Model-checked only: `PaidOrderIsRecovered`, `EveryRowIsSettled`,
`PaidOrderIsSettled` and `EveryCheckoutEnds` (liveness under fairness, which the
prover does not reach), and the violations, which are counterexamples. Every
other property of a passing run is a theorem.

## 5. Not modelled, and the plan

In this order:

1. `PollLoop`: backoff, budget and rotating cursor, to derive the fairness that
   `PaymentSettlement` assumes; and the batch order behind `Outbox`'s.
2. The other rails. Binance internal and the Bybit UID rail share the claim
   protocol and the amount matching of `BscDeposit`, without the tracker;
   NOWPayments and Xendit have a ledger keyed by order.
3. `ProgressMessage`: the lease over a fulfilment message and its edits.
4. Refunds after delivery and the replacement of a sold item.

Not planned: pure formatting, pricing arithmetic and the detection engine
(decimal or text functions with their own property tests), the accounting
ledger (sums written inside transactions modelled here), the catalogue
synchronisation, support tickets, authentication, CRUD and rendering, and the
single-page clients. They are most of the repository's lines and hold none of
the state the properties are about.

## 6. Running

    tlc -config MC_PaymentSettlement.cfg MC_PaymentSettlement
    tlapm PaymentSettlementProofs.tla

Every module that is checked has an `MC_` module with its constants and one
`.cfg` per run. A definition whose comment begins with "Variant" is a plausible
mistake in the definition after it; `PROJECT.json` pairs each with the property
that detects it.
