----------------------------- MODULE BscDeposit -----------------------------
(***************************************************************************)
(* On-chain USDT deposits (Bybit, BSC) and the orders they pay.            *)
(*                                                                         *)
(* A deposit carries no reference to an order.  The deposit poller reads   *)
(* the deposits Bybit lists and the orders in flight, ties a deposit that  *)
(* is still confirming to the order whose total fits its amount, and when  *)
(* Bybit reports it credited claims it in the processed_bybit_tx ledger    *)
(* and delivers the order in a second transaction.  A second poller, the   *)
(* confirmation tracker, meanwhile moves the tied order along the on-chain *)
(* milestones.  Cycles overlap: a cycle abandoned at its deadline runs on, *)
(* so several deposits, and several reports of one, are in work at once.   *)
(*                                                                         *)
(* Code: packages/db/src/crud/{bybit_bsc_deposit, _staleClaim, orderStatus,*)
(* wallet_topup, manualMatch, orders}.ts and apps/order-bot/src/payments/  *)
(* {bybitBscDeposit, bybitBscConfirmationTracker, amountMatching}.ts.      *)
(***************************************************************************)
EXTENDS Naturals, FiniteSets

CONSTANTS
    Orders,      \* orders paid by BSC deposit
    Products,    \* those of kind PRODUCT; the others are WALLET_TOPUP orders
    HandMade,    \* products that stop at PROCESSING until an admin fulfils them
    Total,       \* Total[o]: the amount o asks for (unique cents included)
    Cap,         \* Cap[o]: the overpayment still taken for o (overpaymentCap)
    Deposits,    \* on-chain transactions
    Amount,      \* Amount[d]
    Pollers,     \* deposits in work in the cycles of the deposit poller
    Trackers,    \* orders in work in the cycles of the confirmation tracker
    NoOrder, NoDeposit,
    MaxCrashes   \* bound on process deaths, for model checking

Workers == Pollers \cup Trackers
Topups  == Orders \ Products

ASSUME BscAssumption ==
    /\ Products \subseteq Orders /\ HandMade \subseteq Products
    /\ Total \in [Orders -> Nat \ {0}] /\ Cap \in [Orders -> Nat]
    /\ Amount \in [Deposits -> Nat \ {0}]
    /\ Pollers \cap Trackers = {}
    /\ NoOrder \notin Orders /\ NoDeposit \notin Deposits
    /\ MaxCrashes \in Nat

VARIABLES
    order,       \* the orders table
    row,         \* the processed_bybit_tx ledger, one row per deposit
    alerted,     \* deposits a message to the admins was sent about
    pc, job,     \* what each worker is doing
    crashes

vars == <<order, row, alerted, pc, job, crashes>>

PreDelivery == {"PENDING_PAYMENT", "PAYMENT_DETECTED", "CONFIRMING", "CONFIRMED"}
Statuses == PreDelivery \cup
            {"UNDERPAID", "PROCESSING", "DELIVERED", "CANCELLED", "FAILED"}
Watched  == {"PENDING_PAYMENT", "PAYMENT_DETECTED", "CONFIRMING"}
Outcomes == {"none", "matched", "overpaid", "delivery_failed", "unmatched",
             "underpaid", "underpaid_flag_failed", "dismissed"}
Steps == {"idle", "detecting", "tying", "moving", "claiming", "reading",
          "settling", "preserving", "tagging", "failing", "blaming", "alerting",
          "flagging", "checking", "shorting", "parking",
          "exploring", "advancing", "completing"}
(* A poller in one of these steps won the claim on its deposit's row. *)
Holding == {"reading", "settling", "preserving", "tagging", "failing"}
(* And in these it recorded it as short. *)
Flagging == {"checking", "shorting"}

OrderRec  == [status  : Statuses,
              tied    : Deposits \cup {NoDeposit},  \* bybitTxid
              review  : BOOLEAN,                    \* walletCreditState = NEEDS_REVIEW
              paidBy  : Deposits \cup {NoDeposit},  \* whose settlement committed
              payouts : Nat]
LedgerRow == [outcome : Outcomes, order : Orders \cup {NoOrder}]
Job       == [dep : Deposits \cup {NoDeposit}, order : Orders \cup {NoOrder},
              read   : Statuses,             \* the status last read
              prior  : LedgerRow,            \* what a reclaim overwrote
              enough : BOOLEAN]              \* confirmations >= required

TypeOK ==
    /\ order \in [Orders -> OrderRec]
    /\ row \in [Deposits -> LedgerRow]
    /\ alerted \in SUBSET Deposits
    /\ pc \in [Workers -> Steps]
    /\ job \in [Workers -> Job]
    /\ crashes \in Nat

NewOrder == [status |-> "PENDING_PAYMENT", tied |-> NoDeposit,
             review |-> FALSE, paidBy |-> NoDeposit, payouts |-> 0]
NoRow == [outcome |-> "none", order |-> NoOrder]
NoJob == [dep |-> NoDeposit, order |-> NoOrder, read |-> "PENDING_PAYMENT",
          prior |-> NoRow, enough |-> FALSE]

Init ==
    /\ order = [o \in Orders |-> NewOrder]
    /\ row = [d \in Deposits |-> NoRow]
    /\ alerted = {}
    /\ pc = [w \in Workers |-> "idle"]
    /\ job = [w \in Workers |-> NoJob]
    /\ crashes = 0

Status(o)  == order[o].status
Goto(w, s) == pc' = [pc EXCEPT ![w] = s]
Finish(w)  == Goto(w, "idle") /\ job' = [job EXCEPT ![w] = NoJob]
Step(w, s) == Goto(w, s) /\ UNCHANGED job
Work(d, o) == [NoJob EXCEPT !.dep = d, !.order = o]
(* Go on without what an earlier step remembered. *)
Drop(w, s) ==
    /\ Goto(w, s)
    /\ job' = [job EXCEPT ![w] = Work(job[w].dep, job[w].order)]

(* What the operations write into an order ... *)
Moved(r, s)     == [r EXCEPT !.status = s]
TiedTo(r, d)    == [r EXCEPT !.tied = d]
InReview(r)     == [r EXCEPT !.review = TRUE]
Shorted(r, d)   == [r EXCEPT !.status = "UNDERPAID", !.tied = d]
Settled(r, s, d) == [r EXCEPT !.status = s, !.paidBy = d, !.payouts = @ + 1]
(* ... and into a ledger row. *)
Tagged(r, x)    == [r EXCEPT !.outcome = x]
Linked(x, o)    == [outcome |-> x, order |-> o]
-----------------------------------------------------------------------------
(* cancelExpiredPendingOrder: only what still waits is cancelled.  When    *)
(* the window of an order ends is left open.                               *)
ExpireOrder(o) ==
    /\ Status(o) = "PENDING_PAYMENT" /\ ~order[o].review
    /\ order' = [order EXCEPT ![o] = Moved(@, "CANCELLED")]
    /\ UNCHANGED <<row, alerted, pc, job, crashes>>
-----------------------------------------------------------------------------
(* Matching a deposit to an order (amountMatching.ts).                     *)

(* listInFlightBybitBscOrders: open are the orders whose window has not    *)
(* ended when the list is read.  Amounts are compared with PendingOnly.    *)
InFlight(open) == {o \in open : Status(o) \in Watched /\ ~order[o].review}
PendingOnly(open) == {o \in InFlight(open) : Status(o) = "PENDING_PAYMENT"}

(* matchByAmount: the largest total the deposit covers, refused on a tie   *)
(* and beyond the overpayment cap.                                         *)
MatchByAmount(d, open) ==
    LET covered == {o \in PendingOnly(open) : Total[o] <= Amount[d]}
        best    == {o \in covered : \A p \in covered : Total[p] <= Total[o]}
    IN  {o \in best : best = {o} /\ Amount[d] <= Total[o] + Cap[o]}

(* matchUnderpaidByAmount: the only order the deposit pays at least half   *)
(* of, but not all.                                                        *)
MatchUnderpaid(d, open) ==
    LET short == {o \in PendingOnly(open) :
                    Amount[d] < Total[o] /\ Total[o] <= 2 * Amount[d]}
    IN  {o \in short : short = {o}}

TiedOrders(d, open) == {o \in InFlight(open) : order[o].tied = d}
Match(d, open) == IF TiedOrders(d, open) # {} THEN TiedOrders(d, open)
                                              ELSE MatchByAmount(d, open)

Take(w, s, d, o) ==
    /\ Goto(w, s)
    /\ job' = [job EXCEPT ![w] = Work(d, o)]

(* processDeposits, up to its first write: Bybit's answer and the list of  *)
(* orders are read once a cycle.  When Bybit starts to report a deposit as *)
(* credited is left open, and an abandoned cycle's answer may be older     *)
(* than another's, so either report may be the next one worked on.         *)
LookConfirming(w, d) ==
    /\ pc[w] = "idle"
    /\ \E open \in SUBSET Orders :
          \E o \in Match(d, open) : Take(w, "detecting", d, o)
    /\ UNCHANGED <<order, row, alerted, crashes>>

LookCredited(w, d) ==
    /\ pc[w] = "idle"
    /\ \E open \in SUBSET Orders :
          IF Match(d, open) # {}
          THEN \E o \in Match(d, open) : Take(w, "claiming", d, o)
          ELSE \/ \E o \in MatchUnderpaid(d, open) : Take(w, "flagging", d, o)
               \/ MatchUnderpaid(d, open) = {} /\ Take(w, "parking", d, NoOrder)
    /\ UNCHANGED <<order, row, alerted, crashes>>
-----------------------------------------------------------------------------
(* recordBybitBscPaymentDetected: read, blind update, guarded transition.  *)

DetectRead(w) ==
    /\ pc[w] = "detecting"
    /\ IF Status(job[w].order) = "PENDING_PAYMENT" THEN Step(w, "tying") ELSE Finish(w)
    /\ UNCHANGED <<order, row, alerted, crashes>>

DetectTie(w) ==
    /\ pc[w] = "tying"
    /\ order' = [order EXCEPT ![job[w].order] = TiedTo(@, job[w].dep)]
    /\ Step(w, "moving")
    /\ UNCHANGED <<row, alerted, crashes>>

(* tryTransitionOrderStatus: a lost race changes nothing. *)
TryMove(o, from, to) ==
    order' = IF Status(o) = from THEN [order EXCEPT ![o] = Moved(@, to)] ELSE order

DetectMove(w) ==
    /\ pc[w] = "moving"
    /\ TryMove(job[w].order, "PENDING_PAYMENT", "PAYMENT_DETECTED")
    /\ Finish(w)
    /\ UNCHANGED <<row, alerted, crashes>>
-----------------------------------------------------------------------------
(* deliverPaidBybitBscOrder.                                               *)

(* Variant: a claim still in progress counts as abandoned. *)
AbandonedAtOnce(d) == d \in Deposits
(* STALE_MATCHED_CLAIM_MS is six times the longest delivery transaction. *)
Abandoned(d) == \A w \in Pollers : job[w].dep = d => pc[w] \notin Holding

LateTopup(o) == Status(o) = "CANCELLED" /\ o \in Topups

Claimable(d, o) ==
    \/ row[d].outcome \in {"none", "delivery_failed"}
    \/ /\ row[d] = Linked("matched", o)
       /\ Abandoned(d)
       /\ Status(o) = "PENDING_PAYMENT" \/ LateTopup(o)

Claim(w) ==
    LET d == job[w].dep
        o == job[w].order
    IN  /\ pc[w] = "claiming"
        /\ IF Claimable(d, o)
           THEN /\ row' = [row EXCEPT ![d] = Linked("matched", o)]
                /\ job' = [job EXCEPT ![w].prior = row[d]]
                /\ Goto(w, "reading")
           ELSE Finish(w) /\ UNCHANGED row
        /\ UNCHANGED <<order, alerted, crashes>>

Payable(o) == Status(o) \in PreDelivery \/ LateTopup(o)

ReadOrder(w) ==
    LET o == job[w].order IN
    /\ pc[w] = "reading"
    /\ Payable(o)
    /\ job' = [job EXCEPT ![w].read = Status(o), ![w].prior = NoRow]
    /\ Goto(w, "settling")
    /\ UNCHANGED <<order, row, alerted, crashes>>

(* Variant: nobody is told of a deposit for an order that is gone. *)
StaleSilent(w) ==
    LET d == job[w].dep IN
    /\ pc[w] = "reading"
    /\ ~Payable(job[w].order)
    /\ row' = IF job[w].prior.outcome = "none" THEN row
              ELSE [row EXCEPT ![d] = job[w].prior]
    /\ Finish(w)
    /\ UNCHANGED <<order, alerted, crashes>>
(* The order is gone: a reclaimed row is put back as it was. *)
Stale(w) ==
    LET d == job[w].dep IN
    /\ pc[w] = "reading"
    /\ ~Payable(job[w].order)
    /\ row' = IF job[w].prior.outcome = "none" THEN row
              ELSE [row EXCEPT ![d] = job[w].prior]
    /\ Drop(w, "alerting")
    /\ UNCHANGED <<order, alerted, crashes>>

(* Variant: the transition trusts the status read before. *)
SettleableAsRead(w) == pc[w] = "settling"
(* A product moves from the status that was read; a top-up is normalised   *)
(* from whatever milestone it reached (normalizeTopupToPendingPayment).    *)
Settleable(w) ==
    LET o == job[w].order IN
    IF o \in Products THEN Status(o) = job[w].read
                      ELSE Payable(o) /\ ~order[o].review

Outcome(d, o) == IF Amount[d] > Total[o] THEN "overpaid" ELSE "matched"
Final(o)      == IF o \in HandMade THEN "PROCESSING" ELSE "DELIVERED"
(* What the catch block sees; a top-up's payment was already verified. *)
AfterError(o) == IF o \in Topups THEN "preserving" ELSE "failing"

(* settleClaimedBybitBscDeposit commits; the acknowledgement may be lost. *)
Settle(w) ==
    LET d == job[w].dep
        o == job[w].order
    IN  /\ pc[w] = "settling"
        /\ Settleable(w)
        /\ order' = [order EXCEPT ![o] = Settled(@, Final(o), d)]
        /\ row' = [row EXCEPT ![d] = Tagged(@, Outcome(d, o))]
        /\ Finish(w) \/ Drop(w, AfterError(o))
        /\ UNCHANGED <<alerted, crashes>>

(* settleWalletTopup lost its claim: the poller keeps the no-op. *)
SettledByOther(w) ==
    LET o == job[w].order IN
    /\ pc[w] = "settling"
    /\ o \in Topups /\ ~Payable(o) /\ ~order[o].review
    /\ Finish(w)
    /\ UNCHANGED <<order, row, alerted, crashes>>

(* The transaction rolls back: a lost status race, no stock, a database    *)
(* error.                                                                  *)
SettleFails(w) ==
    /\ pc[w] \in {"reading", "settling"}
    /\ Drop(w, IF pc[w] = "settling" THEN AfterError(job[w].order) ELSE "failing")
    /\ UNCHANGED <<order, row, alerted, crashes>>

(* preservePaidWalletCreditFailure.  This write and those of the catch     *)
(* block are best effort: each may fail, and the next one is still tried.  *)
Preserve(w) ==
    LET o == job[w].order IN
    /\ pc[w] = "preserving"
    /\ \/ Payable(o) /\ order' = [order EXCEPT ![o] = InReview(@)]
       \/ UNCHANGED order
    /\ Step(w, "tagging")
    /\ UNCHANGED <<row, alerted, crashes>>

(* The catch block's update of the row, and its read of the order.  A      *)
(* verified top-up payment is left to its review.                          *)
MarkFailed(w) ==
    /\ pc[w] \in {"tagging", "failing"}
    /\ \/ row' = [row EXCEPT ![job[w].dep] = Tagged(@, "delivery_failed")]
       \/ UNCHANGED row
    /\ IF pc[w] = "tagging" THEN Step(w, "alerting")
       ELSE /\ job' = [job EXCEPT ![w].read = Status(job[w].order)]
            /\ Goto(w, "blaming")
    /\ UNCHANGED <<order, alerted, crashes>>

(* LEGAL_TRANSITIONS: what may still become FAILED. *)
MayFail(s) == s \in PreDelivery \cup {"PROCESSING"}

FailOrder(w) ==
    /\ pc[w] = "blaming"
    /\ \/ MayFail(job[w].read) /\ TryMove(job[w].order, job[w].read, "FAILED")
       \/ UNCHANGED order
    /\ Drop(w, "alerting")
    /\ UNCHANGED <<row, alerted, crashes>>

(* alertAdmins. *)
Alert(w) ==
    /\ pc[w] = "alerting"
    /\ alerted' = alerted \cup {job[w].dep}
    /\ Finish(w)
    /\ UNCHANGED <<order, row, crashes>>
-----------------------------------------------------------------------------
(* markUnderpaidBybitBsc and recordUnmatchedBybitBscTx.                    *)

FlagClaim(w) ==
    LET d == job[w].dep IN
    /\ pc[w] = "flagging"
    /\ IF row[d].outcome = "none"
       THEN /\ row' = [row EXCEPT ![d] = Linked("underpaid", job[w].order)]
            /\ Step(w, "checking")
       ELSE Finish(w) /\ UNCHANGED row
    /\ UNCHANGED <<order, alerted, crashes>>

FlagRead(w) ==
    /\ pc[w] = "checking"
    /\ IF Status(job[w].order) = "PENDING_PAYMENT"
       THEN Step(w, "shorting") ELSE Finish(w)
    /\ UNCHANGED <<order, row, alerted, crashes>>

(* The txid is written before the status is compared, and stays written.   *)
FlagOrder(w) ==
    LET o == job[w].order IN
    /\ pc[w] = "shorting"
    /\ IF Status(o) = "PENDING_PAYMENT"
       THEN /\ order' = [order EXCEPT ![o] = Shorted(@, job[w].dep)]
            /\ Step(w, "alerting")
       ELSE /\ order' = [order EXCEPT ![o] = TiedTo(@, job[w].dep)]
            /\ Finish(w)
    /\ UNCHANGED <<row, alerted, crashes>>

(* Variant: an outcome no admin list asks for. *)
FlagFailsMisspelt(w) ==
    /\ pc[w] \in Flagging
    /\ \/ row' = [row EXCEPT ![job[w].dep] = Tagged(@, "underpaid_flag")]
       \/ UNCHANGED row
    /\ Finish(w)
    /\ UNCHANGED <<order, alerted, crashes>>
FlagFails(w) ==
    /\ pc[w] \in Flagging
    /\ \/ row' = [row EXCEPT ![job[w].dep] = Tagged(@, "underpaid_flag_failed")]
       \/ UNCHANGED row
    /\ Finish(w)
    /\ UNCHANGED <<order, alerted, crashes>>

Park(w) ==
    LET d == job[w].dep IN
    /\ pc[w] = "parking"
    /\ row' = IF row[d].outcome = "none"
              THEN [row EXCEPT ![d] = Linked("unmatched", NoOrder)] ELSE row
    /\ Finish(w)
    /\ UNCHANGED <<order, alerted, crashes>>
-----------------------------------------------------------------------------
(* The confirmation tracker: recordBybitBscConfirmationProgress.           *)

(* listTrackedBybitBscOrders; the explorer is asked after the list. *)
TrackerLook(w, o) ==
    /\ pc[w] = "idle"
    /\ Status(o) \in {"PAYMENT_DETECTED", "CONFIRMING"}
    /\ order[o].tied # NoDeposit /\ ~order[o].review
    /\ Take(w, "exploring", NoDeposit, o)
    /\ UNCHANGED <<order, row, alerted, crashes>>

TrackerRead(w) ==
    LET o == job[w].order IN
    /\ pc[w] = "exploring"
    /\ \/ /\ Status(o) = "PAYMENT_DETECTED"
          /\ \E e \in BOOLEAN : job' = [job EXCEPT ![w].enough = e]
          /\ Goto(w, "advancing")
       \/ Status(o) = "CONFIRMING" /\ Step(w, "completing")
       \/ Finish(w)          \* too few confirmations, or the order moved on
    /\ UNCHANGED <<order, row, alerted, crashes>>

TrackerAdvance(w) ==
    LET o == job[w].order IN
    /\ pc[w] = "advancing"
    /\ TryMove(o, "PAYMENT_DETECTED", "CONFIRMING")
    /\ IF Status(o) = "PAYMENT_DETECTED" /\ job[w].enough
       THEN Drop(w, "completing") ELSE Finish(w)
    /\ UNCHANGED <<row, alerted, crashes>>

(* Variant: the milestone is written without a guard. *)
TrackerCompleteBlind(w) ==
    /\ pc[w] = "completing"
    /\ order' = [order EXCEPT ![job[w].order] = Moved(@, "CONFIRMED")]
    /\ Finish(w)
    /\ UNCHANGED <<row, alerted, crashes>>
TrackerComplete(w) ==
    /\ pc[w] = "completing"
    /\ TryMove(job[w].order, "CONFIRMING", "CONFIRMED")
    /\ Finish(w)
    /\ UNCHANGED <<row, alerted, crashes>>
-----------------------------------------------------------------------------
(* Admins.                                                                 *)

(* manualMatchBybit: claim and settlement are one transaction. *)
ManualMatch(d, o) ==
    /\ row[d].outcome = "unmatched"
    /\ Status(o) = "PENDING_PAYMENT" /\ ~order[o].review
    /\ Amount[d] >= Total[o]
    /\ row' = [row EXCEPT ![d] = Linked(Outcome(d, o), o)]
    /\ order' = [order EXCEPT ![o] = Settled(@, Final(o), d)]
    /\ UNCHANGED <<alerted, pc, job, crashes>>

(* dismissUnmatchedLedgerTx. *)
Dismiss(d) ==
    /\ row[d].outcome = "unmatched"
    /\ row' = [row EXCEPT ![d] = Tagged(@, "dismissed")]
    /\ UNCHANGED <<order, alerted, pc, job, crashes>>

(* alertIfMatchedClaimCancelled: one claimed payment is named. *)
ClaimedFor(o) == {d \in Deposits : row[d] = Linked("matched", o)}
CancelOrder(o) ==
    /\ Status(o) \in PreDelivery \cup {"UNDERPAID", "FAILED"}
    /\ order[o].paidBy = NoDeposit /\ ~order[o].review
    /\ order' = [order EXCEPT ![o] = Moved(@, "CANCELLED")]
    /\ IF Status(o) = "PENDING_PAYMENT" /\ o \in Products /\ ClaimedFor(o) # {}
       THEN \E d \in ClaimedFor(o) : alerted' = alerted \cup {d}
       ELSE UNCHANGED alerted
    /\ UNCHANGED <<row, pc, job, crashes>>

(* The bot process dies, and with it every cycle; what was not committed   *)
(* is lost.                                                                *)
Crash ==
    /\ crashes < MaxCrashes
    /\ \E w \in Workers : pc[w] # "idle"
    /\ crashes' = crashes + 1
    /\ pc' = [w \in Workers |-> "idle"]
    /\ job' = [w \in Workers |-> NoJob]
    /\ UNCHANGED <<order, row, alerted>>
-----------------------------------------------------------------------------
PollerStep(w) ==
    \/ DetectRead(w) \/ DetectTie(w) \/ DetectMove(w)
    \/ Claim(w) \/ ReadOrder(w) \/ Stale(w) \/ Settle(w) \/ SettledByOther(w)
    \/ SettleFails(w) \/ Preserve(w) \/ MarkFailed(w) \/ FailOrder(w)
    \/ FlagClaim(w) \/ FlagRead(w) \/ FlagOrder(w) \/ FlagFails(w)
    \/ Park(w) \/ Alert(w)
TrackerStep(w) == TrackerRead(w) \/ TrackerAdvance(w) \/ TrackerComplete(w)

Next ==
    \/ \E d \in Deposits : Dismiss(d)
    \/ \E o \in Orders : ExpireOrder(o) \/ CancelOrder(o)
    \/ \E d \in Deposits, o \in Orders : ManualMatch(d, o)
    \/ \E w \in Pollers, d \in Deposits : LookConfirming(w, d) \/ LookCredited(w, d)
    \/ \E w \in Pollers : PollerStep(w)
    \/ \E w \in Trackers, o \in Orders : TrackerLook(w, o)
    \/ \E w \in Trackers : TrackerStep(w)
    \/ Crash

Spec == Init /\ [][Next]_vars
-----------------------------------------------------------------------------
(* An order, product or top-up, is paid out once: overlapping cycles, two  *)
(* deposits that fit one order, a retry after a lost acknowledgement and   *)
(* an admin's match exclude one another.                                   *)
OrderPaidOnce == \A o \in Orders : order[o].payouts <= 1

(* "so a delivery still in flight is never raced" (_staleClaim.ts): of all *)
(* cycles at most one is past the claim on a deposit, and until it settles *)
(* or fails the row is the one it wrote.                                   *)
ClaimHeldOnce ==
    /\ \A v, w \in Pollers :
          /\ pc[v] \in Holding /\ pc[w] \in Holding
          /\ job[v].dep = job[w].dep
          => v = w
    /\ \A w \in Pollers : pc[w] \in {"reading", "settling"} =>
          row[job[w].dep] = Linked("matched", job[w].order)

(* Short of a crash no deposit is swallowed: once no cycle works on it, a  *)
(* deposit claimed for a product order has delivered it, or the admins     *)
(* were told.                                                              *)
ClaimedDepositIsAnswered ==
    crashes = 0 => \A d \in Deposits : LET o == row[d].order IN
        (/\ row[d].outcome \in {"matched", "overpaid"}
         /\ o \in Products
         /\ \A w \in Pollers : job[w].dep # d)
        => order[o].paidBy = d \/ d \in alerted

Rank(s) == CASE s = "PENDING_PAYMENT" -> 0 [] s = "PAYMENT_DETECTED" -> 1
             [] s = "CONFIRMING" -> 2 [] s = "CONFIRMED" -> 3 [] OTHER -> 4
(* "Milestones only ever move forward" (normalizeTopupToPendingPayment):   *)
(* whatever the poller, the tracker and the admins interleave, no order    *)
(* returns to a milestone it left, and a product order that was cancelled, *)
(* failed or flagged underpaid is not delivered by a late cycle.           *)
OrderMovesForward ==
    [][\A o \in Orders :
          /\ Rank(Status(o)) <= Rank(order'[o].status)
          /\ o \in Products /\ Status(o) \in {"CANCELLED", "FAILED", "UNDERPAID"}
               => order'[o].payouts = order[o].payouts]_vars
=============================================================================
