-------------------------- MODULE PaymentSettlement --------------------------
(***************************************************************************)
(* How a QRIS payment becomes a delivered order or a wallet credit.        *)
(*                                                                         *)
(* A payment (trx) is reported by storefront callbacks and by the bot's    *)
(* reconcile poller, which race each other and admins working in the web   *)
(* panel.  Every report commits a claim on the payment's ledger row first  *)
(* and settles the order in a second transaction; a process may die        *)
(* between the two.  Admins match parked payments to orders, credit        *)
(* orders, resolve underpaid ones and cancel; the expiry sweep cancels.    *)
(*                                                                         *)
(* The TokoPay code is the one translated; PayDisini's is its twin.        *)
(* Code: packages/db/src/crud/{tokopay, _staleClaim, _manualQrisClaim,     *)
(* wallet_topup, manualMatch, orders, orderStatus, reports,                *)
(* binance_internal}.ts and the callers named at each action.              *)
(***************************************************************************)
EXTENDS Naturals, FiniteSets

CONSTANTS
    Orders,      \* orders on this gateway
    Products,    \* those of kind PRODUCT; the others are WALLET_TOPUP orders
    HandMade,    \* products an admin fulfils by hand (they stop at PROCESSING)
    Price,       \* Price[o]: what the gateway bills for o
    Trxs,        \* gateway transaction ids
    Own,         \* Own[t]: the order whose invoice t pays
    Amount,      \* Amount[t]: what the buyer sends with t
    Callbacks,   \* concurrent callback requests
    Pollers,     \* reconcile pollers
    Admins,      \* concurrent admin requests
    NoOrder, NoTrx,
    MaxCrashes   \* bound on worker deaths, for model checking

Workers == Callbacks \cup Pollers \cup Admins
Topups  == Orders \ Products

ASSUME SettlementAssumption ==
    /\ Products \subseteq Orders /\ HandMade \subseteq Products
    /\ Price \in [Orders -> Nat \ {0}]
    /\ Own \in [Trxs -> Orders] /\ Amount \in [Trxs -> Nat \ {0}]
    /\ Callbacks \cap Pollers = {} /\ Workers \ Admins = Callbacks \cup Pollers
    /\ NoOrder \notin Orders /\ NoTrx \notin Trxs
    /\ MaxCrashes \in Nat

VARIABLES
    order,       \* the orders table, and what was paid out for each order
    row,         \* the processed_tokopay_tx ledger, one row per transaction
    paid,        \* payments the gateway reports as paid
    funded,      \* <<t, o>>: money of t was paid out through o (history)
    alerted,     \* <<t, m>>: of payment t an admin was told, or a line logged
    pc, job,     \* what each worker is doing, and for which payment and order
    crashes

vars == <<order, row, paid, funded, alerted, pc, job, crashes>>

Statuses == {"PENDING_PAYMENT", "UNDERPAID", "PROCESSING", "DELIVERED",
             "CANCELLED", "REFUNDED"}
Outcomes == {"none", "matched", "unmatched", "delivery_failed", "stale",
             "overpaid", "dismissed", "credited_to_balance"}
(* ACTIONABLE_LEDGER_OUTCOMES, and equally QRIS_RECLAIMABLE_OUTCOMES. *)
Actionable == {"unmatched", "delivery_failed"}

Steps == {"idle", "asking", "parking", "recording", "flagging", "claiming",
          "reclaiming", "reading", "settling", "alerting", "preserving",
          "failing", "undoing", "doubting", "crediting"}
(* Where word of a payment that needs a human goes.                        *)
Channels == {"admin", "log"}
(* A worker in one of these steps won the claim on its payment's row. *)
Holding == {"reading", "settling", "preserving", "failing", "undoing", "doubting"}

OrderRec ==
    [status   : Statuses,
     review   : BOOLEAN,                \* walletCreditState = NEEDS_REVIEW
     short    : BOOLEAN,                \* a QrisUnderpaidTx row exists
     credited : BOOLEAN,                \* wallet row "unfulfilled_credit"
     adjusted : BOOLEAN,                \* wallet row "admin_adjust"
     paidBy   : Trxs \cup {NoTrx},      \* transaction named in the history
     payouts  : Nat]                    \* deliveries and wallet credits made
LedgerRow ==
    [outcome : Outcomes,
     order   : Orders \cup {NoOrder},
     known   : BOOLEAN,                 \* the amount is recorded, not 0
     hint    : BOOLEAN]                 \* suggestedOrderId names Own[t]
Job == [trx : Trxs \cup {NoTrx}, order : Orders \cup {NoOrder}, review : BOOLEAN]

TypeOK ==
    /\ order \in [Orders -> OrderRec]
    /\ row \in [Trxs -> LedgerRow]
    /\ paid \in SUBSET Trxs
    /\ funded \in SUBSET (Trxs \X Orders)
    /\ alerted \in SUBSET (Trxs \X Channels)
    /\ pc \in [Workers -> Steps]
    /\ job \in [Workers -> Job]
    /\ crashes \in Nat

NoJob == [trx |-> NoTrx, order |-> NoOrder, review |-> FALSE]

Init ==
    /\ order = [o \in Orders |->
          [status |-> "PENDING_PAYMENT", review |-> FALSE, short |-> FALSE,
           credited |-> FALSE, adjusted |-> FALSE, paidBy |-> NoTrx,
           payouts |-> 0]]
    /\ row = [t \in Trxs |-> [outcome |-> "none", order |-> NoOrder,
                              known |-> FALSE, hint |-> FALSE]]
    /\ paid = {} /\ funded = {} /\ alerted = {}
    /\ pc = [w \in Workers |-> "idle"]
    /\ job = [w \in Workers |-> NoJob]
    /\ crashes = 0

Status(o) == order[o].status
Full(t)   == Amount[t] >= Price[Own[t]]
Goto(w, s) == pc' = [pc EXCEPT ![w] = s]
Finish(w)  == Goto(w, "idle") /\ job' = [job EXCEPT ![w] = NoJob]
Take(w, s, t, o) ==
    /\ pc[w] = "idle"
    /\ Goto(w, s)
    /\ job' = [job EXCEPT ![w] = [trx |-> t, order |-> o, review |-> FALSE]]

(* What the operations write into an order ...                             *)
Underpaid(r)    == [r EXCEPT !.status = "UNDERPAID", !.short = TRUE]
InReview(r)     == [r EXCEPT !.review = TRUE]
Cancelled(r)    == [r EXCEPT !.status = "CANCELLED"]
Queued(r)       == [r EXCEPT !.status = "PROCESSING"]
Completed(r)    == [r EXCEPT !.status = "DELIVERED", !.payouts = @ + 1]
Refunded(r)     == [r EXCEPT !.status = "REFUNDED", !.payouts = @ + 1]
Credited(r)     == [r EXCEPT !.status = "CANCELLED", !.credited = TRUE,
                             !.payouts = @ + 1]
CreditedShort(r) == [r EXCEPT !.adjusted = TRUE, !.payouts = @ + 1,
                       !.status = IF @ = "UNDERPAID" THEN "CANCELLED" ELSE @]
PaidWith(r, t)  == [r EXCEPT !.review = FALSE, !.paidBy = t]

(* ... and into a ledger row: a new outcome; the claim for order o; and     *)
(* the row as a manual claim found it, unmatched and linked to no order.    *)
Tagged(r, x)    == [r EXCEPT !.outcome = x]
ClaimedFor(r, o) == [r EXCEPT !.outcome = "matched", !.order = o, !.known = TRUE]
Unlinked(r)     == [r EXCEPT !.outcome = "unmatched", !.order = NoOrder]

-----------------------------------------------------------------------------
(* What the gateway reports.                                               *)

Pay(t) ==
    /\ t \notin paid
    /\ paid' = paid \cup {t}
    /\ UNCHANGED <<order, row, funded, alerted, pc, job, crashes>>

(* POST /pay/tokopay/callback: sent any number of times, whatever became   *)
(* of the order.                                                           *)
CallbackStart(w, t) ==
    /\ t \in paid
    /\ Take(w, "asking", t, Own[t])
    /\ UNCHANGED <<order, row, paid, funded, alerted, crashes>>

(* pollOnce: an order listPendingTokopayOrders returned.                   *)
PollerStart(w, t) ==
    /\ t \in paid
    /\ Status(Own[t]) = "PENDING_PAYMENT" /\ ~order[Own[t]].review
    /\ Take(w, "asking", t, Own[t])
    /\ UNCHANGED <<order, row, paid, funded, alerted, crashes>>

(* checkTransaction answers with the amount: in full or short.  Only the   *)
(* callback records a short payment.                                       *)
GatewayAnswers(w) ==
    /\ pc[w] = "asking"
    /\ \/ Full(job[w].trx) /\ Goto(w, "claiming")
       \/ ~Full(job[w].trx) /\ w \in Callbacks /\ Goto(w, "recording")
       \/ ~Full(job[w].trx) /\ w \in Pollers /\ Goto(w, "flagging")
    /\ UNCHANGED <<order, row, paid, funded, alerted, job, crashes>>

(* ... or says "paid" without an amount ("unverified").                    *)
GatewayHidesAmount(w) ==
    /\ pc[w] = "asking"
    /\ Goto(w, "parking")
    /\ UNCHANGED <<order, row, paid, funded, alerted, job, crashes>>

(* recordUnmatchedTokopayTx: first writer wins, the order is only a hint.  *)
RecordUnmatched(t, known) ==
    row' = IF row[t].outcome = "none"
           THEN [row EXCEPT ![t] = [outcome |-> "unmatched", order |-> NoOrder,
                                    known |-> known, hint |-> TRUE]]
           ELSE row

Park(w) ==
    /\ pc[w] = "parking"
    /\ RecordUnmatched(job[w].trx, FALSE)
    /\ Finish(w)
    /\ UNCHANGED <<order, paid, funded, alerted, crashes>>

RecordShort(w) ==
    /\ pc[w] = "recording"
    /\ RecordUnmatched(job[w].trx, TRUE)
    /\ Goto(w, "flagging")
    /\ UNCHANGED <<order, paid, funded, alerted, job, crashes>>

(* markOrderUnderpaid: a no-op unless the order still waits for payment.   *)
FlagUnderpaid(w) ==
    LET o == job[w].order IN
    /\ pc[w] = "flagging"
    /\ order' = IF Status(o) = "PENDING_PAYMENT" /\ ~order[o].review
                THEN [order EXCEPT ![o] = Underpaid(@)]
                ELSE order
    /\ Finish(w)
    /\ UNCHANGED <<row, paid, funded, alerted, crashes>>

-----------------------------------------------------------------------------
(* Claiming the ledger row, before and outside the delivery transaction.   *)

(* isLateSettleableWalletTopup: a cancelled top-up still takes its payment. *)
Payable(o) == \/ Status(o) = "PENDING_PAYMENT"
              \/ Status(o) = "CANCELLED" /\ o \in Topups

(* Outcomes a claim may start from: an admin takes "unmatched" only.       *)
Claimable(w) == IF w \in Admins THEN {"unmatched"}
                ELSE {"none"} \cup Actionable

(* Variant: the age of a "matched" claim is not looked at. *)
AbandonedAtOnce(t) == t \in Trxs
(* Variant: "matched" is terminal, as before stale claims were recovered. *)
AbandonedNever(t) == t \notin Trxs

(* STALE_MATCHED_CLAIM_MS is six times the longest delivery transaction:   *)
(* a claim that looks stale has no live worker.                            *)
Abandoned(t) == \A w \in Workers : job[w].trx = t => pc[w] \notin Holding

TakeRow(t, o) == row' = [row EXCEPT ![t] = ClaimedFor(@, o)]

Claim(w) ==
    LET t == job[w].trx
        o == job[w].order
    IN  /\ pc[w] = "claiming"
        /\ \/ /\ row[t].outcome \in Claimable(w)
              /\ TakeRow(t, o)
              /\ Goto(w, "reading")
              /\ UNCHANGED job
           \/ /\ row[t].outcome = "matched" /\ row[t].order = o
              /\ Abandoned(t) /\ Payable(o)
              /\ Goto(w, "reclaiming")
              /\ UNCHANGED <<row, job>>
           \/ /\ row[t].outcome \notin Claimable(w)
              /\ ~(row[t].outcome = "matched" /\ row[t].order = o
                    /\ Abandoned(t) /\ Payable(o))
              /\ Finish(w)
              /\ UNCHANGED row
        /\ UNCHANGED <<order, paid, funded, alerted, crashes>>

(* reclaimStaleMatchedClaim's compare-and-swap on the updatedAt it read.   *)
(* Only a rival's reclaim can touch an abandoned row, and it makes every   *)
(* other swap on the old updatedAt fail without effect: those end here.    *)
Reclaim(w) ==
    LET t == job[w].trx
        Beaten(v) == v # w /\ pc[v] = "reclaiming" /\ job[v].trx = t
    IN  /\ pc[w] = "reclaiming"
        /\ TakeRow(t, job[w].order)
        /\ pc' = [v \in Workers |-> IF v = w THEN "reading"
                                    ELSE IF Beaten(v) THEN "idle" ELSE pc[v]]
        /\ job' = [v \in Workers |-> IF Beaten(v) THEN NoJob ELSE job[v]]
        /\ UNCHANGED <<order, paid, funded, alerted, crashes>>

-----------------------------------------------------------------------------
(* The delivery transaction of deliverPaidTokopayOrder.                    *)

(* Variant: the callback, too, takes a stale payment for a benign race. *)
UnpayableSilent(w) ==
    LET t == job[w].trx IN
    /\ pc[w] = "reading"
    /\ ~Payable(job[w].order)
    /\ row' = [row EXCEPT ![t] = IF w \in Admins THEN Unlinked(@)
                                               ELSE Tagged(@, "stale")]
    /\ alerted' = IF w \in Pollers THEN alerted \cup {<<t, "log">>} ELSE alerted
    /\ Finish(w)
    /\ UNCHANGED <<order, paid, funded, crashes>>

(* The order is no longer payable: an automatic claim marks the payment    *)
(* stale, a manual one puts it back.  The callback goes on to alert, the    *)
(* poller only logs: "likely already delivered by the webhook".            *)
Unpayable(w) ==
    LET t == job[w].trx IN
    /\ pc[w] = "reading"
    /\ ~Payable(job[w].order)
    /\ row' = [row EXCEPT ![t] = IF w \in Admins THEN Unlinked(@)
                                               ELSE Tagged(@, "stale")]
    /\ alerted' = IF w \in Pollers THEN alerted \cup {<<t, "log">>} ELSE alerted
    /\ IF w \in Callbacks THEN Goto(w, "alerting") /\ UNCHANGED job
                          ELSE Finish(w)
    /\ UNCHANGED <<order, paid, funded, crashes>>

(* enqueueAdminStalePayment, a statement of its own in the callback. *)
Alert(w) ==
    /\ pc[w] = "alerting"
    /\ alerted' = alerted \cup {<<job[w].trx, "admin">>}
    /\ Finish(w)
    /\ UNCHANGED <<order, row, paid, funded, crashes>>

ReadOrder(w) ==
    /\ pc[w] = "reading"
    /\ Payable(job[w].order)
    /\ job' = [job EXCEPT ![w].review = order[job[w].order].review]
    /\ Goto(w, "settling")
    /\ UNCHANGED <<order, row, paid, funded, alerted, crashes>>

(* Variant: the product branch settles whatever the order became. *)
SettleableAlways(o) == o \in Products \/ Payable(o)

(* The guarded status write of transitionOrderStatus (a product settles    *)
(* only from PENDING_PAYMENT) and of settleWalletTopup's claim.            *)
Settleable(o) == \/ Status(o) = "PENDING_PAYMENT"
                 \/ Status(o) = "CANCELLED" /\ o \in Topups

(* settlePaidOrder: hand-made products wait in the fulfilment queue. *)
Delivered(o) == IF o \in HandMade THEN Queued(order[o]) ELSE Completed(order[o])

(* Where an error raised after COMMIT (a lost acknowledgement) leads. *)
AfterError(w) == IF w \in Admins THEN "doubting"
                 ELSE IF job[w].order \in Topups THEN "preserving" ELSE "failing"

Settle(w) ==
    LET t == job[w].trx
        o == job[w].order
    IN  /\ pc[w] = "settling"
        /\ Settleable(o)
        /\ ~job[w].review
        /\ order' = [order EXCEPT ![o] = PaidWith(Delivered(o), t)]
        /\ funded' = funded \cup {<<t, o>>}
        /\ row' = IF Amount[t] > Price[o]
                  THEN [row EXCEPT ![t] = Tagged(@, "overpaid")] ELSE row
        /\ \/ Finish(w)
           \/ Goto(w, AfterError(w)) /\ UNCHANGED job
        /\ UNCHANGED <<paid, alerted, crashes>>

(* settleWalletTopup lost its claim: nothing to do for a callback or a     *)
(* poller; a manual match throws (see SettleFails).                        *)
SettledByOther(w) ==
    /\ pc[w] = "settling"
    /\ w \notin Admins
    /\ job[w].order \in Topups
    /\ ~job[w].review
    /\ ~Settleable(job[w].order)
    /\ Finish(w)
    /\ UNCHANGED <<order, row, paid, funded, alerted, crashes>>

(* The transaction rolls back: a lost status race, no stock, a top-up in   *)
(* review, a database error.  A manual match tells an error thrown inside  *)
(* the transaction ("undoing") from one that may follow COMMIT.            *)
SettleFails(w) ==
    /\ pc[w] \in {"reading", "settling"}
    /\ \/ w \in Admins /\ (Goto(w, "undoing") \/ Goto(w, "doubting"))
       \/ /\ w \notin Admins
          /\ Goto(w, IF pc[w] = "settling" THEN AfterError(w) ELSE "failing")
    /\ UNCHANGED <<order, row, paid, funded, alerted, job, crashes>>

(* preservePaidWalletCreditFailure: flags the top-up for review. *)
Preserve(w) ==
    LET o == job[w].order IN
    /\ pc[w] = "preserving"
    /\ order' = IF Status(o) \in {"PENDING_PAYMENT", "CANCELLED"} /\ ~order[o].short
                THEN [order EXCEPT ![o] = InReview(@)] ELSE order
    /\ Goto(w, "failing")
    /\ UNCHANGED <<row, paid, funded, alerted, job, crashes>>

(* Variant: the catch block writes an outcome no reader knows. *)
MarkFailedMisspelt(w) ==
    /\ pc[w] = "failing"
    /\ row' = [row EXCEPT ![job[w].trx] = Tagged(@, "deliver_failed")]
    /\ Finish(w)
    /\ UNCHANGED <<order, paid, funded, alerted, crashes>>

(* The catch block of an automatic delivery; the update is not gated. *)
MarkFailed(w) ==
    /\ pc[w] = "failing"
    /\ row' = [row EXCEPT ![job[w].trx] = Tagged(@, "delivery_failed")]
    /\ Finish(w)
    /\ UNCHANGED <<order, paid, funded, alerted, crashes>>

(* settledByThisMatch: proof, read under the order's lock, that the match  *)
(* did not settle the order.  A settled top-up carries no such proof.      *)
NotSettledBy(t, o) == \/ Status(o) = "PENDING_PAYMENT"
                      \/ o \in Topups /\ Status(o) = "CANCELLED"
                      \/ o \in Products /\ order[o].paidBy # t

(* undoFailedManualQrisClaim. *)
UndoMatch(w) ==
    LET t == job[w].trx
        o == job[w].order
    IN  /\ pc[w] \in {"undoing", "doubting"}
        /\ row' = IF /\ pc[w] = "undoing" \/ NotSettledBy(t, o)
                     /\ row[t].outcome = "matched" /\ row[t].order = o
                  THEN [row EXCEPT ![t] = Unlinked(@)]
                  ELSE row
        /\ Finish(w)
        /\ UNCHANGED <<order, paid, funded, alerted, crashes>>

(* The process dies, or a write whose failure the code swallows is lost.   *)
(* A transaction that has not committed rolls back: it was never applied.  *)
Crash(w) ==
    /\ pc[w] # "idle" /\ crashes < MaxCrashes
    /\ crashes' = crashes + 1
    /\ Finish(w)
    /\ UNCHANGED <<order, row, paid, funded, alerted>>

-----------------------------------------------------------------------------
(* Admins and the expiry sweep.                                            *)

(* Variant: rows parked for an underpaid order may be matched elsewhere. *)
SpentAsShortNever(t) == t \notin Trxs

(* assertNotUnderpaidShortPayment: the row's money belongs to the          *)
(* underpaid flow of the order it was parked for.                          *)
SpentAsShort(t) ==
    /\ row[t].hint
    /\ \/ order[Own[t]].short
       \/ Status(Own[t]) = "UNDERPAID"
       \/ Status(Own[t]) = "PENDING_PAYMENT" /\ ~Full(t)

(* manualMatchLedgerTx: its checks; the claim that follows is Claim(w).    *)
MatchStart(w, t, o) ==
    /\ \/ row[t].outcome = "unmatched"
       \/ row[t].outcome = "matched" /\ row[t].order = o
    /\ Status(o) = "PENDING_PAYMENT"
    /\ row[t].known /\ Amount[t] >= Price[o]
    /\ ~SpentAsShort(t)
    /\ Take(w, "claiming", t, o)
    /\ UNCHANGED <<order, row, paid, funded, alerted, crashes>>

(* dismissUnmatchedLedgerTx behind assertGatewayCannotStillSettle. *)
Dismiss(t) ==
    /\ row[t].outcome = "unmatched" /\ row[t].known
    /\ row[t].hint => Status(Own[t]) # "PENDING_PAYMENT"
    /\ row' = [row EXCEPT ![t] = Tagged(@, "dismissed")]
    /\ UNCHANGED <<order, paid, funded, alerted, pc, job, crashes>>

(* assertNotPaidWithoutCredit: paidAt is set, or paymentState is PAID. *)
MarkedPaid(o) == Status(o) = "PROCESSING" \/ order[o].review

(* alertIfMatchedClaimCancelled tells of one claimed payment of the order. *)
MatchedRows(o) == {t \in Trxs : row[t].outcome = "matched" /\ row[t].order = o}
AlertClaimed(o) ==
    IF Status(o) = "PENDING_PAYMENT" /\ o \in Products /\ MatchedRows(o) # {}
    THEN \E t \in MatchedRows(o) : alerted' = alerted \cup {<<t, "admin">>}
    ELSE UNCHANGED alerted

(* cancelOrder, by the buyer or an admin. *)
CancelOrder(o) ==
    /\ Status(o) \in {"PENDING_PAYMENT", "UNDERPAID", "PROCESSING"}
    /\ ~MarkedPaid(o)
    /\ order' = [order EXCEPT ![o] = Cancelled(@)]
    /\ AlertClaimed(o)
    /\ UNCHANGED <<row, paid, funded, pc, job, crashes>>

(* cancelExpiredPendingOrder: the sweep cancels only what still waits. *)
ExpireOrder(o) == Status(o) = "PENDING_PAYMENT" /\ CancelOrder(o)

(* The short payments whose money an underpaid resolution pays out. *)
ShortOf(o) == {t \in Trxs : Own[t] = o /\ ~Full(t) /\ order[o].short}
Funding(S, o) == funded' = funded \cup (S \X {o})

(* Variant: rows still claimed by a settlement in flight are consumed too. *)
EvidenceClaimed(o) ==
    {t \in Trxs : row[t].order = o /\ row[t].outcome \in Actionable \cup {"matched"}}
(* Rows consumeIncomingLedgerPayment re-tags. *)
Evidence(o) == {t \in Trxs : row[t].order = o /\ row[t].outcome \in Actionable}

(* creditOrderToBalance's refusals. *)
Creditable(o) == /\ Status(o) \notin {"REFUNDED", "DELIVERED"}
                 /\ ~order[o].credited
                 /\ Status(o) = "CANCELLED" => Evidence(o) # {}

CreditToBalance(o) ==
    /\ Creditable(o)
    /\ row' = [t \in Trxs |-> IF t \in Evidence(o)
                 THEN Tagged(row[t], "credited_to_balance") ELSE row[t]]
    /\ order' = [order EXCEPT ![o] = Credited(@)]
    /\ Funding(Evidence(o) \cup ShortOf(o) \cup ({order[o].paidBy} \cap Trxs), o)
    /\ UNCHANGED <<paid, alerted, pc, job, crashes>>

(* fulfillManualOrder: an admin completes a queued order. *)
FulfillManual(o) ==
    /\ Status(o) = "PROCESSING"
    /\ order' = [order EXCEPT ![o] = Completed(@)]
    /\ UNCHANGED <<row, paid, funded, alerted, pc, job, crashes>>

(* refundUnderpaidOrderTx: what arrived goes to the buyer's wallet. *)
RefundUnderpaid(o) ==
    /\ Status(o) = "UNDERPAID"
    /\ order' = [order EXCEPT ![o] = Refunded(@)]
    /\ Funding(ShortOf(o), o)
    /\ UNCHANGED <<row, paid, alerted, pc, job, crashes>>

(* deliverUnderpaidOrder: the shop absorbs the shortfall. *)
DeliverUnderpaid(o) ==
    /\ o \in Products
    /\ Status(o) = "UNDERPAID"
    /\ order' = [order EXCEPT ![o] = Delivered(o)]
    /\ Funding(ShortOf(o), o)
    /\ UNCHANGED <<row, paid, alerted, pc, job, crashes>>

(* creditUnderpaidTopupAnyway reads the order without a lock ...           *)
CreditAnywayRead(w, o) ==
    /\ o \in Topups
    /\ Status(o) = "UNDERPAID"
    /\ Take(w, "crediting", NoTrx, o)
    /\ UNCHANGED <<order, row, paid, funded, alerted, crashes>>

(* ... credits the wallet, then cancels under the lock.  cancelOrder       *)
(* returns quietly from CANCELLED and REFUNDED, and throws from DELIVERED. *)
CreditAnywayWrite(w) ==
    LET o == job[w].order IN
    /\ pc[w] = "crediting"
    /\ IF order[o].adjusted \/ Status(o) = "DELIVERED"
       THEN UNCHANGED <<order, funded>>
       ELSE /\ order' = [order EXCEPT ![o] = CreditedShort(@)]
            /\ Funding(ShortOf(o), o)
    /\ Finish(w)
    /\ UNCHANGED <<row, paid, alerted, crashes>>

-----------------------------------------------------------------------------
WorkerStep(w) ==
    \/ GatewayAnswers(w) \/ GatewayHidesAmount(w)
    \/ Park(w) \/ RecordShort(w) \/ FlagUnderpaid(w) \/ Claim(w)
    \/ Reclaim(w) \/ Unpayable(w) \/ Alert(w) \/ ReadOrder(w) \/ Settle(w)
    \/ SettledByOther(w) \/ SettleFails(w) \/ Preserve(w) \/ MarkFailed(w)
    \/ UndoMatch(w) \/ CreditAnywayWrite(w)

Next ==
    \/ \E t \in Trxs : Pay(t) \/ Dismiss(t)
    \/ \E w \in Callbacks, t \in Trxs : CallbackStart(w, t)
    \/ \E w \in Pollers, t \in Trxs : PollerStart(w, t)
    \/ \E w \in Admins, t \in Trxs, o \in Orders : MatchStart(w, t, o)
    \/ \E w \in Admins, o \in Orders : CreditAnywayRead(w, o)
    \/ \E w \in Workers : WorkerStep(w) \/ Crash(w)
    \/ \E o \in Orders : \/ CancelOrder(o) \/ ExpireOrder(o)
                         \/ CreditToBalance(o) \/ FulfillManual(o)
                         \/ RefundUnderpaid(o) \/ DeliverUnderpaid(o)

Spec == Init /\ [][Next]_vars

(* Node keeps running a request it accepted; the poll loop, rotating over  *)
(* its backlog, comes back to every order that still waits; and a gateway  *)
(* that is asked again and again does not hide an amount every time.       *)
Fairness ==
    /\ \A w \in Workers : WF_vars(WorkerStep(w))
    /\ \A w \in Pollers, t \in Trxs :
          /\ SF_vars(PollerStart(w, t))
          /\ SF_vars(job[w].trx = t /\ GatewayAnswers(w))

FairSpec == Spec /\ Fairness
-----------------------------------------------------------------------------
(* Where a product stands, for its buyer. *)
Standing(r) ==
    CASE r.status \in {"PENDING_PAYMENT", "UNDERPAID"} -> "open"
      [] r.status = "PROCESSING" -> "queued"
      [] r.status = "DELIVERED" -> "delivered"
      [] r.status = "REFUNDED" -> "returned"
      [] r.status = "CANCELLED" -> IF r.credited THEN "returned" ELSE "cancelled"

Promise == INSTANCE PaymentOnce WITH
    state   <- [o \in Products |-> Standing(order[o])],
    paidOut <- [o \in Products |-> order[o].payouts],
    spent   <- funded

(* Settlement keeps its promise (PaymentOnce): callback, poller, manual    *)
(* match, fulfilment, credit and the underpaid resolutions exclude one     *)
(* another in every order they can run. A product is delivered or its      *)
(* price is given back, never both and never twice; it is settled only by  *)
(* a payment that covers it and paid for nothing else, or by its own short *)
(* payments; and the money of no payment is spent on two orders.           *)
SettlesOnce == Promise!Spec

(* The money of one payment is paid out through at most one order: neither *)
(* undoing a manual match, nor parking, refunding or crediting a payment,  *)
(* leaves it where a second order can still be settled with it.            *)
PaymentFundsOneOrder ==
    \A t \in Trxs, o, p \in Orders :
        <<t, o>> \in funded /\ <<t, p>> \in funded => o = p

(* "the idempotency gate": of all live callback, poller and manual-match   *)
(* workers at most one is past the claim on a payment, and until it has    *)
(* read or settled the order the ledger row is the one it wrote.           *)
ClaimHeldOnce ==
    /\ \A v, w \in Workers :
          /\ pc[v] \in Holding /\ pc[w] \in Holding
          /\ job[v].trx = job[w].trx
          => v = w
    /\ \A w \in Workers : pc[w] \in {"reading", "settling"} =>
          /\ row[job[w].trx].outcome = "matched"
          /\ row[job[w].trx].order = job[w].order

(* What ended stays ended. "A cancelled PRODUCT order is NOT [payable] -   *)
(* its stock went back to the pool": no late callback, stalled worker or   *)
(* match revives one. And a payment an admin credited or dismissed stays   *)
(* resolved: no delivery that was in flight and no retry of the gateway    *)
(* reopens its row.                                                        *)
EndedStaysEnded ==
    [][/\ \A o \in Products : Status(o) = "CANCELLED" => order'[o].status = "CANCELLED"
       /\ \A t \in Trxs : row[t].outcome \in {"credited_to_balance", "dismissed"}
                              => row'[t] = row[t]]_vars

(* A payment in full whose order still waits does not stay hidden: the     *)
(* order moves on, or the payment or its top-up shows in an admin queue,   *)
(* even when the process that claimed the payment died.                    *)
Overdue(t) == /\ t \in paid /\ Full(t)
              /\ Status(Own[t]) = "PENDING_PAYMENT" /\ ~order[Own[t]].review
              /\ row[t].outcome \notin Actionable
PaidOrderIsRecovered == \A t \in Trxs : Overdue(t) ~> ~Overdue(t)

(* "a human decides what the payment was for": unless a process died, once *)
(* no worker handles it any more, a payment claimed for a product order    *)
(* that was cancelled and not credited has been brought to the admins; if  *)
(* it was the poller that found the order cancelled, to its log.           *)
StalePaymentReachesAdmin ==
    crashes = 0 =>
    \A t \in Trxs : LET o == row[t].order IN
        (/\ row[t].outcome \in {"stale", "matched"}
         /\ o \in Products /\ Status(o) = "CANCELLED" /\ ~order[o].credited
         /\ \A w \in Workers : job[w].trx # t)
        => \E m \in Channels : <<t, m>> \in alerted

(* "the first call leaves the order CANCELLED, so a second call ... cannot *)
(* credit the buyer twice" (creditUnderpaidTopupAnyway): the short money   *)
(* of a top-up reaches the wallet once.                                    *)
UnderpaidTopupCreditedOnce ==
    \A o \in Topups : order[o].adjusted /\ order[o].paidBy = NoTrx
                         => order[o].payouts = 1
=============================================================================
