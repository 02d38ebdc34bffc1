-------------------------- MODULE PaymentFundsProofs --------------------------
(***************************************************************************)
(* Where the money of a payment goes: the proofs that it is spent on one   *)
(* order, that a payment whose order was cancelled reaches a human, and    *)
(* that settlement as a whole implements PaymentOnce.                      *)
(*                                                                         *)
(* First what one step may do to a worker's job, to a ledger row, to an    *)
(* order and to the history of payouts, each as a lemma with one case per  *)
(* action; then the invariants, proved from those lemmas alone.            *)
(***************************************************************************)
EXTENDS PaymentSettlementProofs

-----------------------------------------------------------------------------
(* The invariants.                                                         *)

(* A callback or a poller works on the order its payment was made for, and *)
(* claims only a payment in full.                                          *)
AutomaticJobs ==
    \A w \in Workers \ Admins : pc[w] # "idle" =>
        /\ pc[w] \notin {"crediting", "undoing", "doubting"}
        /\ job[w].order = Own[job[w].trx]
        /\ pc[w] \notin {"asking", "parking", "recording", "flagging"} => Full(job[w].trx)

AdminJobs ==
    \A w \in Admins : pc[w] \in {"idle", "claiming", "reclaiming", "reading", "settling",
                                 "undoing", "doubting", "crediting"}

(* Which order a row names, and that only a short payment needs the hint.  *)
RowLinks ==
    \A t \in Trxs :
        /\ row[t].outcome \in {"none", "unmatched"} => row[t].order = NoOrder
        /\ row[t].outcome = "delivery_failed" => row[t].order = Own[t]
        /\ row[t].outcome # "none" /\ ~row[t].hint => Full(t)

HeldRowNamesOrder ==
    \A w \in Workers : pc[w] \in Holding => row[job[w].trx].order = job[w].order

(* A short payment is linked to an order only once its own can no longer   *)
(* take it as a short payment.                                             *)
Closed(t) == Status(Own[t]) # "PENDING_PAYMENT" /\ ~order[Own[t]].short
ShortMoneyElsewhere ==
    \A t \in Trxs : ~Full(t) =>
        /\ row[t].order # NoOrder => Closed(t)
        /\ \A w \in Workers :
              pc[w] \in {"claiming", "reclaiming"} /\ job[w].trx = t => Closed(t)

(* Money paid out went to the order that took it as a short payment, or to *)
(* the order its row names, as a credit or as the settlement on record.    *)
PaidByIsFunded ==
    \A o \in Orders : order[o].paidBy \in Trxs => <<order[o].paidBy, o>> \in funded
Settled(t, o) == /\ order[o].paidBy = t
                 /\ Status(o) # "PENDING_PAYMENT"
                 /\ o \in Topups => Status(o) = "DELIVERED"
FundedOnce ==
    \A t \in Trxs, o \in Orders : <<t, o>> \in funded =>
        \/ o = Own[t] /\ ~Full(t) /\ order[o].short
        \/ /\ row[t].order = o
           /\ row[t].outcome = "credited_to_balance" \/ Settled(t, o)

(* A manual match that may still settle, or be undone without proof, moves *)
(* money that was not paid out.                                            *)
MatchMovesUnspentMoney ==
    \A w \in Admins : pc[w] \in {"reading", "settling", "undoing", "reclaiming"} =>
        \A p \in Orders : <<job[w].trx, p>> \notin funded

FundsInv ==
    /\ AutomaticJobs /\ AdminJobs /\ RowLinks /\ HeldRowNamesOrder
    /\ ShortMoneyElsewhere /\ PaidByIsFunded /\ FundedOnce /\ MatchMovesUnspentMoney

-----------------------------------------------------------------------------
(* What one step does to one worker.                                       *)
SameJob(w) == job'[w].trx = job[w].trx /\ job'[w].order = job[w].order
Started(w) ==
    \/ /\ w \notin Admins /\ pc'[w] = "asking" /\ job'[w].trx \in Trxs
       /\ job'[w].order = Own[job'[w].trx]
    \/ /\ w \in Admins /\ pc'[w] = "claiming" /\ job'[w].trx \in Trxs
       /\ row[job'[w].trx].outcome # "none" /\ ~SpentAsShort(job'[w].trx)
       /\ Amount[job'[w].trx] >= Price[job'[w].order]
    \/ w \in Admins /\ pc'[w] = "crediting"
ClaimWon(w) ==
    LET t == job[w].trx IN
    /\ funded' = funded
    /\ \/ /\ pc[w] = "claiming" /\ pc'[w] = "reading"
          /\ row[t].outcome \in Claimable(w)
          /\ row' = [row EXCEPT ![t] = ClaimedFor(@, job[w].order)]
       \/ /\ pc[w] = "claiming" /\ pc'[w] = "reclaiming"
          /\ row[t].outcome = "matched" /\ row[t].order = job[w].order
          /\ Payable(job[w].order)
       \/ /\ pc[w] = "reclaiming" /\ pc'[w] = "reading"
          /\ row' = [row EXCEPT ![t] = ClaimedFor(@, job[w].order)]
Onward(w) ==
    \/ /\ pc[w] = "asking" /\ w \notin Admins
       /\ \/ pc'[w] = "claiming" /\ Full(job[w].trx)
          \/ pc'[w] = "parking"
          \/ pc'[w] \in {"recording", "flagging"} /\ ~Full(job[w].trx)
    \/ pc[w] = "recording" /\ pc'[w] = "flagging"
    \/ pc[w] = "reading" /\ pc'[w] = "alerting" /\ w \notin Admins
    \/ pc[w] = "reading" /\ pc'[w] = "settling"
    \/ /\ pc[w] \in {"reading", "settling"}
       /\ \/ w \in Admins /\ pc'[w] \in {"undoing", "doubting"}
          \/ w \notin Admins /\ pc'[w] \in {"preserving", "failing"}
    \/ pc[w] = "preserving" /\ pc'[w] = "failing"
JobMove(w) ==
    \/ pc'[w] = pc[w] /\ SameJob(w)
    \/ pc'[w] = "idle"
    \/ pc[w] = "idle" /\ Started(w)
    \/ SameJob(w) /\ (ClaimWon(w) \/ Onward(w))

LEMMA JobMoves ==
    ASSUME TypeInv, AdminJobs, [Next]_vars, NEW v \in Workers
    PROVE  JobMove(v)
<1> USE SettlementAssumption
    DEF TypeInv, TypeOK, HasJob, AdminJobs, Workers, Goto, Finish, Take, JobMove, SameJob
<1>0. ASSUME pc' = pc, job' = job PROVE JobMove(v)
  BY <1>0
<1>1. ASSUME NEW w \in Workers, GatewayAnswers(w) PROVE JobMove(v)
  BY <1>1 DEF GatewayAnswers, Onward
<1>2. ASSUME NEW w \in Workers, GatewayHidesAmount(w) PROVE JobMove(v)
  BY <1>2 DEF GatewayHidesAmount, Onward
<1>3. ASSUME NEW w \in Workers, Park(w) PROVE JobMove(v)
  BY <1>3 DEF Park
<1>4. ASSUME NEW w \in Workers, RecordShort(w) PROVE JobMove(v)
  BY <1>4 DEF RecordShort, Onward
<1>5. ASSUME NEW w \in Workers, FlagUnderpaid(w) PROVE JobMove(v)
  BY <1>5 DEF FlagUnderpaid
<1>6. ASSUME NEW w \in Workers, Claim(w) PROVE JobMove(v)
  BY <1>6 DEF Claim, TakeRow, ClaimWon
<1>7. ASSUME NEW w \in Workers, Reclaim(w) PROVE JobMove(v)
  BY <1>7 DEF Reclaim, TakeRow, ClaimWon
<1>8. ASSUME NEW w \in Workers, Unpayable(w) PROVE JobMove(v)
  BY <1>8 DEF Unpayable, Onward
<1>9. ASSUME NEW w \in Workers, Alert(w) PROVE JobMove(v)
  BY <1>9 DEF Alert
<1>10. ASSUME NEW w \in Workers, ReadOrder(w) PROVE JobMove(v)
  BY <1>10 DEF ReadOrder, Onward, Job
<1>11. ASSUME NEW w \in Workers, Settle(w) PROVE JobMove(v)
  BY <1>11 DEF Settle, AfterError, Onward
<1>12. ASSUME NEW w \in Workers, SettledByOther(w) PROVE JobMove(v)
  BY <1>12 DEF SettledByOther
<1>13. ASSUME NEW w \in Workers, SettleFails(w) PROVE JobMove(v)
  BY <1>13 DEF SettleFails, AfterError, Onward
<1>14. ASSUME NEW w \in Workers, Preserve(w) PROVE JobMove(v)
  BY <1>14 DEF Preserve, Onward
<1>15. ASSUME NEW w \in Workers, MarkFailed(w) PROVE JobMove(v)
  BY <1>15 DEF MarkFailed
<1>16. ASSUME NEW w \in Workers, UndoMatch(w) PROVE JobMove(v)
  BY <1>16 DEF UndoMatch
<1>17. ASSUME NEW w \in Workers, CreditAnywayWrite(w) PROVE JobMove(v)
  BY <1>17 DEF CreditAnywayWrite
<1>18. ASSUME NEW w \in Workers, Crash(w) PROVE JobMove(v)
  BY <1>18 DEF Crash
<1>19. ASSUME NEW w \in Callbacks, NEW t \in Trxs, CallbackStart(w, t) PROVE JobMove(v)
  BY <1>19 DEF CallbackStart, Started
<1>20. ASSUME NEW w \in Pollers, NEW t \in Trxs, PollerStart(w, t) PROVE JobMove(v)
  BY <1>20 DEF PollerStart, Started
<1>21. ASSUME NEW w \in Admins, NEW t \in Trxs, NEW o \in Orders, MatchStart(w, t, o)
       PROVE  JobMove(v)
  BY <1>21 DEF MatchStart, Started
<1>22. ASSUME NEW w \in Admins, NEW o \in Orders, CreditAnywayRead(w, o) PROVE JobMove(v)
  BY <1>22 DEF CreditAnywayRead, Started
<1>23. ASSUME \/ \E t \in Trxs : Pay(t) \/ Dismiss(t)
              \/ \E o \in Orders : \/ CancelOrder(o) \/ CreditToBalance(o)
                                    \/ FulfillManual(o) \/ RefundUnderpaid(o)
                                    \/ DeliverUnderpaid(o)
              \/ UNCHANGED vars
       PROVE  JobMove(v)
  BY <1>23, <1>0 DEF Pay, Dismiss, CancelOrder, CreditToBalance, FulfillManual,
                     RefundUnderpaid, DeliverUnderpaid, vars
<1> QED
  BY <1>1, <1>2, <1>3, <1>4, <1>5, <1>6, <1>7, <1>8, <1>9, <1>10, <1>11, <1>12, <1>13,
     <1>14, <1>15, <1>16, <1>17, <1>18, <1>19, <1>20, <1>21, <1>22, <1>23
     DEF Next, WorkerStep, ExpireOrder

-----------------------------------------------------------------------------
(* What one step does to one ledger row.                                   *)
Kept(t, x) == row'[t].outcome = x /\ row'[t].order = row[t].order
Freed(t)   == row'[t].outcome = "unmatched" /\ row'[t].order = NoOrder
RowMove(t) ==
    \/ row[t].outcome = "none" /\ Freed(t) /\ row'[t].hint
    \/ /\ row'[t].hint = row[t].hint
       /\ \/ row'[t] = row[t]
          \/ row[t].outcome = "unmatched" /\ Kept(t, "dismissed")
          \/ row[t].outcome \in Actionable /\ Kept(t, "credited_to_balance")
          \/ \E w \in Workers :
                /\ job[w].trx = t
                /\ \/ /\ \/ /\ pc[w] = "claiming" /\ row[t].outcome \in Claimable(w)
                         \/ pc[w] = "reclaiming"
                      /\ pc'[w] = "reading" /\ SameJob(w)
                      /\ row'[t].outcome = "matched" /\ row'[t].order = job[w].order
                   \/ /\ pc[w] = "reading" /\ w \in Admins /\ Freed(t)
                      /\ pc'[w] = "idle"
                   \/ /\ pc[w] = "reading" /\ w \notin Admins /\ Kept(t, "stale")
                      /\ \/ pc'[w] = "alerting" /\ SameJob(w)
                         \/ pc'[w] = "idle" /\ <<t, "log">> \in alerted'
                   \/ /\ Settle(w) /\ Kept(t, "overpaid")
                   \/ /\ pc[w] = "failing" /\ Kept(t, "delivery_failed")
                      /\ pc'[w] = "idle"
                   \/ /\ \/ pc[w] = "undoing"
                         \/ pc[w] = "doubting" /\ NotSettledBy(t, job[w].order)
                      /\ row[t].outcome = "matched" /\ row[t].order = job[w].order
                      /\ Freed(t) /\ pc'[w] = "idle"

LEMMA RowLinkFields ==
    ASSUME NEW r \in LedgerRow
    PROVE  /\ \A x : Tagged(r, x).hint = r.hint
           /\ \A o : ClaimedFor(r, o).hint = r.hint
           /\ Unlinked(r).order = NoOrder /\ Unlinked(r).hint = r.hint
BY DEF LedgerRow, Tagged, ClaimedFor, Unlinked

LEMMA RowMoves ==
    ASSUME TypeInv, [Next]_vars, NEW u \in Trxs
    PROVE  RowMove(u)
<1> USE SettlementAssumption, RowFields, RowLinkFields
    DEF TypeInv, TypeOK, HasJob, Workers, Goto, Finish, RowMove, Kept, Freed
<1>0. ASSUME row'[u] = row[u] PROVE RowMove(u)
  BY <1>0
<1>1. ASSUME NEW w \in Workers, Park(w) PROVE RowMove(u)
  BY <1>1 DEF Park, RecordUnmatched
<1>2. ASSUME NEW w \in Workers, RecordShort(w) PROVE RowMove(u)
  BY <1>2 DEF RecordShort, RecordUnmatched
<1>3. ASSUME NEW w \in Workers, Claim(w) PROVE RowMove(u)
  BY <1>3 DEF Claim, TakeRow, SameJob
<1>4. ASSUME NEW w \in Workers, Reclaim(w) PROVE RowMove(u)
  BY <1>4 DEF Reclaim, TakeRow, SameJob
<1>5. ASSUME NEW w \in Workers, Unpayable(w) PROVE RowMove(u)
  <2>1. pc[w] = "reading" /\ job[w].trx \in Trxs
    BY <1>5 DEF Unpayable
  <2>2. CASE w \in Admins
    BY <1>5, <2>1, <2>2 DEF Unpayable
  <2>3. CASE w \notin Admins
    BY <1>5, <2>1, <2>3 DEF Unpayable, SameJob
  <2> QED
    BY <2>2, <2>3
<1>6. ASSUME NEW w \in Workers, Settle(w) PROVE RowMove(u)
  <2>1. \/ row'[u] = row[u]
        \/ u = job[w].trx /\ row'[u] = Tagged(row[u], "overpaid")
    BY <1>6 DEF Settle
  <2> QED
    BY <1>6, <2>1
<1>7. ASSUME NEW w \in Workers, MarkFailed(w) PROVE RowMove(u)
  BY <1>7 DEF MarkFailed
<1>8. ASSUME NEW w \in Workers, UndoMatch(w) PROVE RowMove(u)
  BY <1>8 DEF UndoMatch
<1>9. ASSUME NEW t \in Trxs, Dismiss(t) PROVE RowMove(u)
  BY <1>9 DEF Dismiss
<1>10. ASSUME NEW o \in Orders, CreditToBalance(o) PROVE RowMove(u)
  BY <1>10 DEF CreditToBalance, Evidence
<1>11. ASSUME NEW w \in Workers, WorkerStep(w) \/ Crash(w) PROVE RowMove(u)
  BY <1>11, <1>0, <1>1, <1>2, <1>3, <1>4, <1>5, <1>6, <1>7, <1>8
     DEF WorkerStep, GatewayAnswers, GatewayHidesAmount, FlagUnderpaid, Alert,
         ReadOrder, SettledByOther, SettleFails, Preserve, CreditAnywayWrite, Crash
<1>12. ASSUME \/ \E t \in Trxs : Pay(t)
              \/ \E w \in Callbacks, t \in Trxs : CallbackStart(w, t)
              \/ \E w \in Pollers, t \in Trxs : PollerStart(w, t)
              \/ \E w \in Admins, t \in Trxs, o \in Orders : MatchStart(w, t, o)
              \/ \E w \in Admins, o \in Orders : CreditAnywayRead(w, o)
              \/ \E o \in Orders : \/ CancelOrder(o) \/ FulfillManual(o)
                                    \/ RefundUnderpaid(o) \/ DeliverUnderpaid(o)
              \/ UNCHANGED vars
       PROVE  RowMove(u)
  BY <1>12, <1>0 DEF Pay, CallbackStart, PollerStart, MatchStart, CreditAnywayRead,
                     CancelOrder, FulfillManual, RefundUnderpaid, DeliverUnderpaid, vars
<1> QED
  BY <1>9, <1>10, <1>11, <1>12 DEF Next, ExpireOrder

-----------------------------------------------------------------------------
(* What one step does to one order: it does not wait again, a short payment *)
(* is recorded only while it waits, a delivered one stays delivered, and    *)
(* only a settlement names the payment that paid it.                        *)
Advances(r, s) ==
    /\ r.short => s.short
    /\ r.status # "PENDING_PAYMENT" =>
          s.status # "PENDING_PAYMENT" /\ (s.short => r.short)
    /\ r.status = "DELIVERED" => s.status = "DELIVERED"
PaidBy(o) ==
    \/ order'[o].paidBy = order[o].paidBy
    \/ \E w \in Workers : /\ Settle(w) /\ job[w].order = o
                          /\ order'[o].paidBy = job[w].trx
                          /\ <<job[w].trx, o>> \in funded'
ShortBy(o) ==
    \/ /\ order'[o].short = order[o].short
       /\ order'[o].status = "UNDERPAID" => order[o].status = "UNDERPAID"
    \/ order'[o].short /\ \E w \in Workers : FlagUnderpaid(w) /\ job[w].order = o
OrderMove(o) == Advances(order[o], order'[o]) /\ PaidBy(o) /\ ShortBy(o)

LEMMA OrderHistory ==
    ASSUME NEW r \in OrderRec
    PROVE  /\ Underpaid(r).paidBy = r.paidBy /\ Underpaid(r).short
           /\ InReview(r).paidBy = r.paidBy /\ InReview(r).short = r.short
           /\ Cancelled(r).paidBy = r.paidBy /\ Cancelled(r).short = r.short
           /\ Queued(r).paidBy = r.paidBy /\ Queued(r).short = r.short
           /\ Completed(r).paidBy = r.paidBy /\ Completed(r).short = r.short
           /\ Refunded(r).paidBy = r.paidBy /\ Refunded(r).short = r.short
           /\ Credited(r).paidBy = r.paidBy /\ Credited(r).short = r.short
           /\ CreditedShort(r).paidBy = r.paidBy /\ CreditedShort(r).short = r.short
           /\ CreditedShort(r).status \in {r.status, "CANCELLED"}
           /\ \A t : PaidWith(r, t).paidBy = t /\ PaidWith(r, t).short = r.short
<1> USE DEF OrderRec
<1>1. /\ Underpaid(r).paidBy = r.paidBy /\ Underpaid(r).short
      /\ InReview(r).paidBy = r.paidBy /\ InReview(r).short = r.short
  BY DEF Underpaid, InReview
<1>2. /\ Cancelled(r).paidBy = r.paidBy /\ Cancelled(r).short = r.short
      /\ Queued(r).paidBy = r.paidBy /\ Queued(r).short = r.short
  BY DEF Cancelled, Queued
<1>3. /\ Completed(r).paidBy = r.paidBy /\ Completed(r).short = r.short
      /\ Refunded(r).paidBy = r.paidBy /\ Refunded(r).short = r.short
  BY DEF Completed, Refunded
<1>4. /\ Credited(r).paidBy = r.paidBy /\ Credited(r).short = r.short
      /\ CreditedShort(r).paidBy = r.paidBy /\ CreditedShort(r).short = r.short
      /\ CreditedShort(r).status \in {r.status, "CANCELLED"}
  BY DEF Credited, CreditedShort
<1>5. \A t : PaidWith(r, t).paidBy = t /\ PaidWith(r, t).short = r.short
  BY DEF PaidWith
<1> QED
  BY <1>1, <1>2, <1>3, <1>4, <1>5

(* What the delivery of an order leaves of it.                             *)
LEMMA DeliveredOrder ==
    ASSUME TypeOK, NEW o \in Orders
    PROVE  /\ Delivered(o) \in OrderRec
           /\ Delivered(o).status = IF o \in HandMade THEN "PROCESSING" ELSE "DELIVERED"
           /\ Delivered(o).short = order[o].short /\ Delivered(o).paidBy = order[o].paidBy
<1>1. order[o] \in OrderRec
  BY DEF TypeOK
<1>2. CASE o \in HandMade
  BY <1>1, <1>2, OrderUpdates, OrderFields, OrderHistory DEF Delivered
<1>3. CASE o \notin HandMade
  BY <1>1, <1>3, OrderUpdates, OrderFields, OrderHistory DEF Delivered
<1> QED
  BY <1>2, <1>3

LEMMA SettledOrder ==
    ASSUME TypeInv, NEW w \in Workers, Settle(w)
    PROVE  /\ job[w].trx \in Trxs /\ job[w].order \in Orders /\ pc[w] = "settling"
           /\ Settleable(job[w].order)
           /\ \A o \in Orders : o # job[w].order => order'[o] = order[o]
           /\ order'[job[w].order].paidBy = job[w].trx
           /\ order'[job[w].order].short = order[job[w].order].short
           /\ order'[job[w].order].status =
                 IF job[w].order \in HandMade THEN "PROCESSING" ELSE "DELIVERED"
           /\ funded' = funded \cup {<<job[w].trx, job[w].order>>}
<1> DEFINE o == job[w].order
           d == Delivered(o)
<1>1. job[w].trx \in Trxs /\ o \in Orders /\ pc[w] = "settling" /\ Settleable(o)
  BY DEF Settle, TypeInv, HasJob
<1>2. d \in OrderRec
  BY <1>1, DeliveredOrder DEF TypeInv
<1>3. /\ PaidWith(d, job[w].trx).paidBy = job[w].trx
      /\ PaidWith(d, job[w].trx).short = d.short
      /\ PaidWith(d, job[w].trx).status = d.status
  BY <1>2, OrderHistory, OrderFields
<1>4. order' = [order EXCEPT ![o] = PaidWith(d, job[w].trx)]
  BY DEF Settle
<1>5. funded' = funded \cup {<<job[w].trx, o>>}
  BY DEF Settle
<1> QED
  BY <1>1, <1>3, <1>4, <1>5, DeliveredOrder DEF TypeInv, TypeOK

LEMMA OrderMoves ==
    ASSUME TypeInv, [Next]_vars, NEW p \in Orders
    PROVE  OrderMove(p)
<1>0. order[p] \in OrderRec
  BY DEF TypeInv, TypeOK
<1> USE <1>0 DEF TypeInv, TypeOK, OrderMove, Advances, PaidBy, ShortBy
<1>1. ASSUME order'[p] = order[p] PROVE OrderMove(p)
  BY <1>1
<1>2. ASSUME NEW w \in Workers, FlagUnderpaid(w) PROVE OrderMove(p)
  <2>1. \/ order'[p] = order[p]
        \/ /\ job[w].order = p /\ order[p].status = "PENDING_PAYMENT"
           /\ order'[p] = Underpaid(order[p])
    BY <1>2 DEF FlagUnderpaid, Status
  <2>2. /\ Underpaid(order[p]).paidBy = order[p].paidBy
        /\ Underpaid(order[p]).short /\ Underpaid(order[p]).status = "UNDERPAID"
    BY OrderFields, OrderHistory
  <2> QED
    BY <1>1, <1>2, <2>1, <2>2
<1>3. ASSUME NEW w \in Workers, Settle(w) PROVE OrderMove(p)
  <2>1. CASE p # job[w].order
    BY <1>3, <1>1, <2>1, SettledOrder
  <2>2. CASE p = job[w].order
    BY <1>3, <2>2, SettledOrder, SettlementAssumption DEF Settleable, Status, Topups
  <2> QED
    BY <2>1, <2>2
<1>4. ASSUME NEW w \in Workers, Preserve(w) PROVE OrderMove(p)
  BY <1>4, <1>1, OrderFields, OrderHistory DEF Preserve
<1>5. ASSUME NEW w \in Workers, CreditAnywayWrite(w) PROVE OrderMove(p)
  BY <1>5, <1>1, OrderFields, OrderHistory DEF CreditAnywayWrite, Status
<1>6. ASSUME NEW o \in Orders, CancelOrder(o) PROVE OrderMove(p)
  BY <1>6, <1>1, OrderFields, OrderHistory DEF CancelOrder, Status
<1>7. ASSUME NEW o \in Orders, CreditToBalance(o) PROVE OrderMove(p)
  BY <1>7, <1>1, OrderFields, OrderHistory DEF CreditToBalance, Creditable, Status
<1>8. ASSUME NEW o \in Orders, FulfillManual(o) PROVE OrderMove(p)
  BY <1>8, <1>1, OrderFields, OrderHistory DEF FulfillManual, Status
<1>9. ASSUME NEW o \in Orders, RefundUnderpaid(o) PROVE OrderMove(p)
  BY <1>9, <1>1, OrderFields, OrderHistory DEF RefundUnderpaid, Status
<1>10. ASSUME NEW o \in Orders, DeliverUnderpaid(o) PROVE OrderMove(p)
  BY <1>10, <1>1, DeliveredOrder DEF DeliverUnderpaid, Status
<1>11. CASE UNCHANGED vars
  BY <1>11, <1>1 DEF vars
<1>12. ASSUME NEW w \in Workers, WorkerStep(w) PROVE OrderMove(p)
  BY <1>12, <1>1, <1>2, <1>3, <1>4, <1>5
     DEF WorkerStep, GatewayAnswers, GatewayHidesAmount, Park, RecordShort, Claim,
         Reclaim, Unpayable, Alert, ReadOrder, SettledByOther, SettleFails,
         MarkFailed, UndoMatch
<1>13. ASSUME \/ \E t \in Trxs : Pay(t) \/ Dismiss(t)
              \/ \E w \in Callbacks, t \in Trxs : CallbackStart(w, t)
              \/ \E w \in Pollers, t \in Trxs : PollerStart(w, t)
              \/ \E w \in Admins, t \in Trxs, o \in Orders : MatchStart(w, t, o)
              \/ \E w \in Admins, o \in Orders : CreditAnywayRead(w, o)
              \/ \E w \in Workers : Crash(w)
       PROVE  OrderMove(p)
  BY <1>13, <1>1 DEF Pay, Dismiss, CallbackStart, PollerStart, MatchStart,
                     CreditAnywayRead, Crash
<1> QED
  BY <1>6, <1>7, <1>8, <1>9, <1>10, <1>11, <1>12, <1>13 DEF Next, ExpireOrder

-----------------------------------------------------------------------------
(* Whose money one step pays out: of a payment that settles, of a payment  *)
(* whose row is credited, of a short payment of the order, or of the       *)
(* payment that had settled it already.                                    *)
FundedMove(t, o) ==
    \/ <<t, o>> \in funded
    \/ \E w \in Workers : Settle(w) /\ job[w].trx = t /\ job[w].order = o
    \/ t \in ShortOf(o)
    \/ order[o].paidBy = t
    \/ t \in Evidence(o) /\ row'[t].outcome = "credited_to_balance"

LEMMA FundedMoves ==
    ASSUME TypeInv, [Next]_vars, NEW t \in Trxs, NEW o \in Orders, <<t, o>> \in funded'
    PROVE  FundedMove(t, o)
<1> USE DEF TypeInv, TypeOK, FundedMove
<1>1. ASSUME funded' = funded PROVE FundedMove(t, o)
  BY <1>1
<1>2. ASSUME NEW w \in Workers, Settle(w) PROVE FundedMove(t, o)
  BY <1>2, SettledOrder
<1>3. ASSUME NEW w \in Workers, CreditAnywayWrite(w) PROVE FundedMove(t, o)
  BY <1>3, <1>1 DEF CreditAnywayWrite, Funding
<1>4. ASSUME NEW p \in Orders, CreditToBalance(p) PROVE FundedMove(t, o)
  <2>1. \/ <<t, o>> \in funded
        \/ o = p /\ t \in Evidence(o) \cup ShortOf(o) \cup ({order[o].paidBy} \cap Trxs)
    BY <1>4 DEF CreditToBalance, Funding
  <2>2. o = p /\ t \in Evidence(o) => row'[t] = Tagged(row[t], "credited_to_balance")
    BY <1>4 DEF CreditToBalance
  <2> QED
    BY <2>1, <2>2, RowFields
<1>5. ASSUME NEW p \in Orders, RefundUnderpaid(p) \/ DeliverUnderpaid(p)
      PROVE  FundedMove(t, o)
  BY <1>5 DEF RefundUnderpaid, DeliverUnderpaid, Funding
<1>6. ASSUME NEW w \in Workers, WorkerStep(w) PROVE FundedMove(t, o)
  BY <1>6, <1>1, <1>2, <1>3
     DEF WorkerStep, GatewayAnswers, GatewayHidesAmount, Park, RecordShort, Claim,
         FlagUnderpaid, Reclaim, Unpayable, Alert, ReadOrder, SettledByOther,
         SettleFails, Preserve, MarkFailed, UndoMatch
<1>7. ASSUME \/ \E u \in Trxs : Pay(u) \/ Dismiss(u)
             \/ \E w \in Callbacks, u \in Trxs : CallbackStart(w, u)
             \/ \E w \in Pollers, u \in Trxs : PollerStart(w, u)
             \/ \E w \in Admins, u \in Trxs, p \in Orders : MatchStart(w, u, p)
             \/ \E w \in Admins, p \in Orders : CreditAnywayRead(w, p)
             \/ \E w \in Workers : Crash(w)
             \/ \E p \in Orders : CancelOrder(p) \/ FulfillManual(p)
             \/ UNCHANGED vars
      PROVE  FundedMove(t, o)
  BY <1>7, <1>1 DEF Pay, Dismiss, CallbackStart, PollerStart, MatchStart, Crash,
                    CreditAnywayRead, CancelOrder, FulfillManual, vars
<1> QED
  BY <1>4, <1>5, <1>6, <1>7 DEF Next, ExpireOrder

-----------------------------------------------------------------------------
(* Each clause is kept by every step.                                      *)
LEMMA AutomaticJobsStep ==
    TypeInv /\ AdminJobs /\ AutomaticJobs /\ [Next]_vars => AutomaticJobs'
<1> SUFFICES ASSUME TypeInv, AdminJobs, AutomaticJobs, [Next]_vars,
                    NEW w \in Workers \ Admins, pc'[w] # "idle"
             PROVE  /\ pc'[w] \notin {"crediting", "undoing", "doubting"}
                    /\ job'[w].order = Own[job'[w].trx]
                    /\ pc'[w] \notin {"asking", "parking", "recording", "flagging"}
                          => Full(job'[w].trx)
  BY DEF AutomaticJobs, Full
<1>1. JobMove(w)
  BY JobMoves
<1> QED
  BY <1>1 DEF JobMove, SameJob, Started, ClaimWon, Onward, AutomaticJobs

LEMMA AdminJobsStep == TypeInv /\ AdminJobs /\ [Next]_vars => AdminJobs'
<1> SUFFICES ASSUME TypeInv, AdminJobs, [Next]_vars, NEW w \in Admins
             PROVE  pc'[w] \in {"idle", "claiming", "reclaiming", "reading", "settling",
                                "undoing", "doubting", "crediting"}
  BY DEF AdminJobs
<1>1. JobMove(w)
  BY JobMoves DEF Workers
<1> QED
  BY <1>1 DEF JobMove, SameJob, Started, ClaimWon, Onward, AdminJobs

LEMMA RowLinksStep ==
    TypeInv /\ ClaimInv /\ FundsInv /\ [Next]_vars => RowLinks'
<1> SUFFICES ASSUME TypeInv, ClaimInv, FundsInv, [Next]_vars, NEW t \in Trxs
             PROVE  /\ row'[t].outcome \in {"none", "unmatched"} => row'[t].order = NoOrder
                    /\ row'[t].outcome = "delivery_failed" => row'[t].order = Own[t]
                    /\ row'[t].outcome # "none" /\ ~row'[t].hint => Full(t)
  BY DEF RowLinks, Full
<1>1. RowMove(t)
  BY RowMoves
<1>2. \A w \in Workers : pc[w] = "failing" => w \notin Admins
  BY DEF FundsInv, AdminJobs
<1>3. \A w \in Workers : pc[w] = "failing" => row[job[w].trx].order = Own[job[w].trx]
  BY <1>2 DEF FundsInv, AutomaticJobs, HeldRowNamesOrder, Holding
<1>4. \A w \in Workers : pc[w] = "claiming" /\ w \notin Admins => Full(job[w].trx)
  BY DEF FundsInv, AutomaticJobs
<1>5. \A w \in Workers : pc[w] = "reclaiming" => row[job[w].trx].outcome = "matched"
  BY DEF ClaimInv, ClaimedForItsOrder
<1>6. \A w \in Workers : pc[w] \in {"reading", "undoing", "doubting", "failing", "settling"}
                            => row[job[w].trx].outcome # "none"
  BY DEF ClaimInv, HeldRowIsClaimed, Holding
<1>7. \A w \in Workers : Settle(w) => pc[w] = "settling"
  BY DEF Settle
<1> QED
  BY <1>1, <1>3, <1>4, <1>5, <1>6, <1>7
     DEF RowMove, Kept, Freed, FundsInv, RowLinks, Claimable, Actionable

LEMMA HeldRowStep ==
    TypeInv /\ ClaimInv /\ FundsInv /\ [Next]_vars => HeldRowNamesOrder'
<1> SUFFICES ASSUME TypeInv, ClaimInv, FundsInv, [Next]_vars,
                    NEW w \in Workers, pc'[w] \in Holding
             PROVE  row'[job'[w].trx].order = job'[w].order
  BY DEF HeldRowNamesOrder
<1>1. JobMove(w)
  BY JobMoves DEF FundsInv
<1>2. CASE SameJob(w) /\ ClaimWon(w)
  BY <1>2 DEF SameJob, ClaimWon, TypeInv, TypeOK, HasJob, ClaimedFor, LedgerRow, Holding
<1>3. CASE SameJob(w) /\ pc[w] \in Holding
  <2> DEFINE t == job[w].trx
  <2>1. t \in Trxs /\ row[t].order = job[w].order /\ row[t].outcome \in {"matched", "overpaid"}
    BY <1>3 DEF TypeInv, HasJob, FundsInv, HeldRowNamesOrder, ClaimInv, HeldRowIsClaimed, Holding
  <2>2. RowMove(t)
    BY <2>1, RowMoves
  <2>3. ASSUME NEW v \in Workers, job[v].trx = t, pc[v] \in Holding PROVE v = w
    BY <1>3, <2>3 DEF ClaimInv, OneHolder
  <2>4. ASSUME NEW v \in Workers, job[v].trx = t PROVE pc[v] # "reclaiming"
    BY <1>3, <2>4 DEF ClaimInv, ReclaimedIsAbandoned
  <2>5. row'[t].order = row[t].order
    BY <1>3, <2>1, <2>2, <2>3, <2>4
       DEF RowMove, Kept, Freed, Claimable, Actionable, Holding
  <2> QED
    BY <1>3, <2>1, <2>5 DEF SameJob
<1> QED
  BY <1>1, <1>2, <1>3 DEF JobMove, SameJob, Started, ClaimWon, Onward, Holding

(* Once closed, an order stays closed to its short payments.               *)
LEMMA ClosedStays ==
    ASSUME TypeInv, [Next]_vars, NEW t \in Trxs, Closed(t)
    PROVE  Closed(t)'
<1>1. Own[t] \in Orders
  BY SettlementAssumption
<1>2. OrderMove(Own[t])
  BY <1>1, OrderMoves
<1> QED
  BY <1>2 DEF OrderMove, Advances, Closed, Status

LEMMA ShortMoneyStep ==
    TypeInv /\ ClaimInv /\ FundsInv /\ [Next]_vars => ShortMoneyElsewhere'
<1> SUFFICES ASSUME TypeInv, ClaimInv, FundsInv, [Next]_vars, NEW t \in Trxs, ~Full(t)
             PROVE  /\ row'[t].order # NoOrder => Closed(t)'
                    /\ \A w \in Workers :
                          pc'[w] \in {"claiming", "reclaiming"} /\ job'[w].trx = t
                             => Closed(t)'
  BY DEF ShortMoneyElsewhere, Full
<1>0. /\ row[t].order # NoOrder => Closed(t)
      /\ \A w \in Workers :
            pc[w] \in {"claiming", "reclaiming"} /\ job[w].trx = t => Closed(t)
  BY DEF FundsInv, ShortMoneyElsewhere
<1>1. Closed(t) => Closed(t)'
  BY ClosedStays
<1>2. ASSUME row'[t].order # NoOrder PROVE Closed(t)
  <2>1. RowMove(t)
    BY RowMoves
  <2>2. row[t].order # NoOrder \/ \E w \in Workers :
           pc[w] \in {"claiming", "reclaiming"} /\ job[w].trx = t
    BY <1>2, <2>1 DEF RowMove, Kept, Freed
  <2> QED
    BY <1>0, <2>2
<1>3. ASSUME NEW w \in Workers, pc'[w] \in {"claiming", "reclaiming"}, job'[w].trx = t
      PROVE  Closed(t)
  <2>1. JobMove(w)
    BY JobMoves DEF FundsInv
  <2>2. CASE SameJob(w) /\ pc[w] \in {"claiming", "reclaiming"}
    BY <1>0, <1>3, <2>2 DEF SameJob
  <2>3. CASE pc[w] = "idle" /\ Started(w)
    <3>1. row[t].outcome # "none" /\ ~SpentAsShort(t)
      BY <1>3, <2>3 DEF Started
    <3>2. row[t].hint
      BY <3>1 DEF FundsInv, RowLinks
    <3> QED
      BY <3>1, <3>2 DEF SpentAsShort, Closed
  <2>4. CASE SameJob(w) /\ pc[w] = "asking" /\ w \notin Admins
    <3>1. pc'[w] = "claiming" => Full(t)
      BY <1>3, <2>1, <2>4 DEF JobMove, ClaimWon, Onward, SameJob
    <3>2. pc'[w] # "reclaiming"
      BY <2>1, <2>4 DEF JobMove, ClaimWon, Onward
    <3> QED
      BY <1>3, <3>1, <3>2
  <2> QED
    BY <1>3, <2>1, <2>2, <2>3, <2>4 DEF JobMove, ClaimWon, Onward
<1> QED
  BY <1>1, <1>2, <1>3

LEMMA FundedGrows == [Next]_vars => funded \subseteq funded'
<1> SUFFICES ASSUME [Next]_vars PROVE funded \subseteq funded'
  OBVIOUS
<1>1. ASSUME NEW w \in Workers, WorkerStep(w) PROVE funded \subseteq funded'
  BY <1>1 DEF WorkerStep, GatewayAnswers, GatewayHidesAmount, Park, RecordShort,
     FlagUnderpaid, Claim, Reclaim, Unpayable, Alert, ReadOrder, Settle, SettledByOther,
     SettleFails, Preserve, MarkFailed, UndoMatch, CreditAnywayWrite, Funding
<1>2. ASSUME NEW o \in Orders,
             \/ CancelOrder(o) \/ CreditToBalance(o) \/ FulfillManual(o)
             \/ RefundUnderpaid(o) \/ DeliverUnderpaid(o)
      PROVE  funded \subseteq funded'
  BY <1>2 DEF CancelOrder, CreditToBalance, FulfillManual, RefundUnderpaid,
     DeliverUnderpaid, Funding
<1> QED
  BY <1>1, <1>2 DEF Next, ExpireOrder, Pay, Dismiss, CallbackStart, PollerStart,
     MatchStart, CreditAnywayRead, Crash, vars

LEMMA PaidByStep == TypeInv /\ PaidByIsFunded /\ [Next]_vars => PaidByIsFunded'
<1> SUFFICES ASSUME TypeInv, PaidByIsFunded, [Next]_vars,
                    NEW o \in Orders, order'[o].paidBy \in Trxs
             PROVE  <<order'[o].paidBy, o>> \in funded'
  BY DEF PaidByIsFunded
<1>1. PaidBy(o)
  BY OrderMoves DEF OrderMove
<1> QED
  BY <1>1, FundedGrows DEF PaidBy, PaidByIsFunded

(* A settlement on record stays the one on record.                         *)
LEMMA SettledStays ==
    ASSUME TypeInv, [Next]_vars, NEW t \in Trxs, NEW o \in Orders, Settled(t, o)
    PROVE  Settled(t, o)'
<1>1. OrderMove(o)
  BY OrderMoves
<1>2. ASSUME NEW w \in Workers, Settle(w), job[w].order = o PROVE FALSE
  BY <1>2 DEF Settle, Settleable, Settled, Status
<1> QED
  BY <1>1, <1>2 DEF OrderMove, Advances, PaidBy, Settled, Status

(* A row that settled an order, and stands for it, keeps naming it.        *)
LEMMA SpentRowStays ==
    ASSUME TypeInv, ClaimInv, FundsInv, [Next]_vars, NEW t \in Trxs, NEW o \in Orders,
           <<t, o>> \in funded, row[t].order = o, Settled(t, o)
    PROVE  row'[t].order = o
<1>1. RowMove(t)
  BY RowMoves
<1>2. row[t].outcome \notin {"none", "unmatched"} /\ o # NoOrder
  BY SettlementAssumption DEF FundsInv, RowLinks
<1>3. ASSUME NEW w \in Workers, job[w].trx = t, pc[w] = "claiming",
             row[t].outcome \in Claimable(w)
      PROVE  job[w].order = o
  <2>1. w \notin Admins /\ row[t].outcome = "delivery_failed"
    BY <1>2, <1>3 DEF Claimable, Actionable
  <2> QED
    BY <1>3, <2>1 DEF FundsInv, RowLinks, AutomaticJobs
<1>4. ASSUME NEW w \in Workers, job[w].trx = t, pc[w] = "reclaiming"
      PROVE  job[w].order = o
  BY <1>4 DEF ClaimInv, ClaimedForItsOrder
<1>5. ASSUME NEW w \in Workers, job[w].trx = t
      PROVE  ~(pc[w] = "reading" /\ w \in Admins) /\ pc[w] # "undoing"
  <2>1. w \in Admins => pc[w] \notin {"reading", "undoing"}
    BY <1>5 DEF FundsInv, MatchMovesUnspentMoney
  <2>2. ASSUME w \notin Admins PROVE pc[w] # "undoing"
    BY <2>2 DEF FundsInv, AutomaticJobs
  <2> QED
    BY <2>1, <2>2
<1>6. ASSUME NEW w \in Workers, pc[w] = "doubting", NotSettledBy(t, job[w].order),
             row[t].order = job[w].order
      PROVE  FALSE
  BY <1>6 DEF NotSettledBy, Settled, Status
<1> QED
  BY <1>1, <1>2, <1>3, <1>4, <1>5, <1>6 DEF RowMove, Kept, Freed

LEMMA FundedOnceStep ==
    TypeInv /\ ClaimInv /\ FundsInv /\ [Next]_vars => FundedOnce'
<1> SUFFICES ASSUME TypeInv, ClaimInv, FundsInv, [Next]_vars,
                    NEW t \in Trxs, NEW o \in Orders, <<t, o>> \in funded'
             PROVE  \/ o = Own[t] /\ ~Full(t) /\ order'[o].short
                    \/ /\ row'[t].order = o
                       /\ row'[t].outcome = "credited_to_balance" \/ Settled(t, o)'
  BY DEF FundedOnce, Full
<1>1. FundedMove(t, o) /\ OrderMove(o)
  BY FundedMoves, OrderMoves
<1>2. CASE <<t, o>> \in funded
  <2>1. CASE o = Own[t] /\ ~Full(t) /\ order[o].short
    BY <1>1, <2>1 DEF OrderMove, Advances
  <2>2. CASE row[t].order = o /\ row[t].outcome = "credited_to_balance"
    BY <2>2, ResolvedStep
  <2>3. CASE row[t].order = o /\ Settled(t, o)
    BY <1>2, <2>3, SettledStays, SpentRowStays
  <2> QED
    BY <1>2, <2>1, <2>2, <2>3 DEF FundsInv, FundedOnce
<1>3. CASE order[o].paidBy = t
  BY <1>2, <1>3 DEF FundsInv, PaidByIsFunded
<1>4. CASE t \in ShortOf(o)
  BY <1>1, <1>4 DEF ShortOf, OrderMove, Advances
<1>5. ASSUME NEW w \in Workers, Settle(w), job[w].trx = t, job[w].order = o
      PROVE  row'[t].order = o /\ Settled(t, o)'
  <2>1. row[t].order = o
    BY <1>5 DEF Settle, ClaimInv, ClaimedForItsOrder
  <2>2. row' = row \/ row' = [row EXCEPT ![t] = Tagged(row[t], "overpaid")]
    BY <1>5 DEF Settle
  <2>3. row'[t].order = o
    BY <2>1, <2>2, RowFields DEF TypeInv, TypeOK
  <2>4. Settled(t, o)'
    BY <1>5, SettledOrder, SettlementAssumption DEF Settled, Status, Topups
  <2> QED
    BY <2>3, <2>4
<1>6. CASE t \in Evidence(o) /\ row'[t].outcome = "credited_to_balance"
  <2>1. row[t].order = o /\ row[t].outcome \in Actionable
    BY <1>6 DEF Evidence
  <2>2. RowMove(t)
    BY RowMoves
  <2> QED
    BY <1>6, <2>1, <2>2 DEF RowMove, Kept, Freed, Actionable
<1> QED
  BY <1>1, <1>2, <1>3, <1>4, <1>5, <1>6 DEF FundedMove

(* The claim of a manual match starts from money that was not paid out.    *)
LEMMA MatchStep ==
    TypeInv /\ ClaimInv /\ FundsInv /\ [Next]_vars => MatchMovesUnspentMoney'
<1> SUFFICES ASSUME TypeInv, ClaimInv, FundsInv, [Next]_vars, NEW w \in Admins,
                    pc'[w] \in {"reading", "settling", "undoing", "reclaiming"},
                    NEW p \in Orders, <<job'[w].trx, p>> \in funded'
             PROVE  FALSE
  BY DEF MatchMovesUnspentMoney
<1> DEFINE t == job[w].trx
<1>0. w \in Workers
  BY DEF Workers
<1>1. JobMove(w)
  BY <1>0, JobMoves DEF FundsInv
<1>2. /\ SameJob(w) /\ <<t, p>> \in funded'
      /\ pc[w] \in {"claiming", "reclaiming", "reading", "settling", "undoing"}
  BY <1>1 DEF JobMove, SameJob, Started, ClaimWon, Onward
<1>3. t \in Trxs /\ job[w].order \in Orders
  BY <1>0, <1>2 DEF TypeInv, HasJob
<1>4. pc[w] \in {"claiming", "reclaiming"} \/ row[t].order # NoOrder
  BY <1>0, <1>2, <1>3, SettlementAssumption DEF FundsInv, HeldRowNamesOrder, Holding
<1>5. ~Full(t) => ~order[Own[t]].short
  BY <1>0, <1>2, <1>3, <1>4 DEF FundsInv, ShortMoneyElsewhere, Closed
<1>6. CASE pc[w] = "claiming"
  <2>1. funded' = funded
    BY <1>1, <1>6 DEF JobMove, ClaimWon, Onward
  <2>2. row[t].order = p /\ (row[t].outcome = "credited_to_balance" \/ Settled(t, p))
    BY <1>2, <1>3, <1>5, <2>1 DEF FundsInv, FundedOnce
  <2>3. row[t].outcome = "matched" /\ Payable(p)
    BY <1>1, <1>3, <1>6, <2>2, SettlementAssumption
       DEF JobMove, ClaimWon, Onward, Claimable, FundsInv, RowLinks
  <2> QED
    BY <2>2, <2>3 DEF Settled, Payable, Status
<1>7. CASE pc[w] # "claiming"
  <2>1. <<t, p>> \notin funded
    BY <1>2, <1>7 DEF FundsInv, MatchMovesUnspentMoney
  <2>2. order[p].paidBy # t
    BY <1>3, <2>1 DEF FundsInv, PaidByIsFunded
  <2>3. t \notin ShortOf(p)
    BY <1>5 DEF ShortOf
  <2>4. t \notin Evidence(p)
    BY <1>0, <1>2, <1>7
       DEF Evidence, Actionable, ClaimInv, HeldRowIsClaimed, ClaimedForItsOrder, Holding
  <2>5. ASSUME NEW v \in Workers, Settle(v), job[v].trx = t PROVE FALSE
    <3>1. pc[v] = "settling" /\ pc[v] \in Holding
      BY <2>5 DEF Settle, Holding
    <3>2. v = w
      BY <1>0, <1>2, <1>7, <2>5, <3>1
         DEF ClaimInv, OneHolder, ReclaimedIsAbandoned, Holding
    <3>3. pc'[w] \in {"idle", "doubting"}
      BY <2>5, <3>2 DEF Settle, AfterError, Goto, Finish, TypeInv, TypeOK
    <3> QED
      BY <3>3
  <2> QED
    BY <1>2, <1>3, <2>1, <2>2, <2>3, <2>4, <2>5, FundedMoves DEF FundedMove
<1> QED
  BY <1>6, <1>7

LEMMA FundsInductive == Spec => []FundsInv
<1>1. Init => FundsInv
  <2> SUFFICES ASSUME Init PROVE FundsInv
    OBVIOUS
  <2>1. /\ \A w \in Workers : pc[w] = "idle"
        /\ \A t \in Trxs : row[t].outcome = "none" /\ row[t].order = NoOrder
        /\ \A o \in Orders : order[o].paidBy = NoTrx
        /\ funded = {}
    BY DEF Init
  <2>2. AutomaticJobs /\ AdminJobs /\ HeldRowNamesOrder
    BY <2>1 DEF AutomaticJobs, AdminJobs, HeldRowNamesOrder, Holding, Workers
  <2>3. RowLinks /\ ShortMoneyElsewhere
    BY <2>1 DEF RowLinks, ShortMoneyElsewhere
  <2>4. PaidByIsFunded /\ FundedOnce /\ MatchMovesUnspentMoney
    BY <2>1, SettlementAssumption DEF PaidByIsFunded, FundedOnce, MatchMovesUnspentMoney
  <2> QED
    BY <2>2, <2>3, <2>4 DEF FundsInv
<1>2. TypeInv /\ ClaimInv /\ FundsInv /\ [Next]_vars => FundsInv'
  BY AutomaticJobsStep, AdminJobsStep, RowLinksStep, HeldRowStep, ShortMoneyStep,
     PaidByStep, FundedOnceStep, MatchStep DEF FundsInv
<1> QED
  BY <1>1, <1>2, TypeInductive, ClaimInductive, PTL DEF Spec

(* The money of a payment is spent on one order, whatever callbacks,       *)
(* pollers, manual matches, undone matches, credits and underpaid          *)
(* resolutions run, and however many of them die half-way.                 *)
THEOREM PaymentFundsOne == Spec => []PaymentFundsOneOrder
<1>1. ASSUME FundsInv, NEW t \in Trxs, NEW o \in Orders, NEW p \in Orders,
             <<t, o>> \in funded, <<t, p>> \in funded
      PROVE  o = p
  <2>1. ASSUME NEW q \in Orders, row[t].order = q, ~Full(t) PROVE ~order[Own[t]].short
    BY <1>1, <2>1, SettlementAssumption DEF FundsInv, ShortMoneyElsewhere, Closed
  <2> QED
    BY <1>1, <2>1 DEF FundsInv, FundedOnce
<1>2. FundsInv => PaymentFundsOneOrder
  BY <1>1 DEF PaymentFundsOneOrder
<1> QED
  BY <1>2, FundsInductive, PTL

-----------------------------------------------------------------------------
(* A payment of a cancelled product reaches a human, unless a process died *)
(* on the way: the claim has a live holder until its order is fulfilled or *)
(* its row is no longer "matched", and a row becomes stale in the hands of *)
(* a worker who goes on to tell.                                           *)
Told(t) == \E m \in Channels : <<t, m>> \in alerted
Fulfilled(o) == Status(o) \in {"PROCESSING", "DELIVERED"} \/ order[o].credited
PaidProductsFulfilled == \A o \in Products : order[o].paidBy \in Trxs => Fulfilled(o)
ClaimsAreFollowed ==
    crashes = 0 => \A t \in Trxs :
        row[t].outcome = "matched" /\ row[t].order \in Products =>
            \/ \E w \in Workers : pc[w] \in Holding /\ job[w].trx = t
            \/ Fulfilled(row[t].order)
StaleIsTold ==
    crashes = 0 => \A t \in Trxs :
        row[t].outcome = "stale" =>
            \/ Told(t)
            \/ \E w \in Workers : pc[w] = "alerting" /\ job[w].trx = t
StaleInv == PaidProductsFulfilled /\ ClaimsAreFollowed /\ StaleIsTold

LEMMA FulfilledStays ==
    ASSUME TypeInv, [Next]_vars, NEW o \in Products, Fulfilled(o)
    PROVE  Fulfilled(o)'
<1>1. ProductMove(order[o], order'[o])
  BY ProductStep
<1> QED
  BY <1>1 DEF ProductMove, Same, Once, Fulfilled, Status

LEMMA PaidProductsStep ==
    TypeInv /\ PaidProductsFulfilled /\ [Next]_vars => PaidProductsFulfilled'
<1> SUFFICES ASSUME TypeInv, PaidProductsFulfilled, [Next]_vars,
                    NEW o \in Products, order'[o].paidBy \in Trxs
             PROVE  Fulfilled(o)'
  BY DEF PaidProductsFulfilled
<1>1. o \in Orders /\ PaidBy(o)
  BY OrderMoves, SettlementAssumption DEF OrderMove
<1>2. ASSUME NEW w \in Workers, Settle(w), job[w].order = o PROVE Fulfilled(o)'
  BY <1>2, SettledOrder DEF Fulfilled, Status
<1> QED
  BY <1>1, <1>2, FulfilledStays DEF PaidBy, PaidProductsFulfilled

(* Who stops holding a claim has settled, parked, failed or undone it.     *)
Stops(w) == \/ Unpayable(w) \/ Settle(w) \/ SettledByOther(w)
            \/ MarkFailed(w) \/ UndoMatch(w) \/ Alert(w)
GoesOn(w) == /\ SameJob(w)
             /\ pc[w] \in Holding => pc'[w] \in Holding
             /\ pc[w] = "alerting" => pc'[w] = "alerting"
LEMMA HolderMoves ==
    ASSUME TypeInv, [Next]_vars, NEW v \in Workers, pc[v] \in Holding \cup {"alerting"}
    PROVE  GoesOn(v) \/ Stops(v) \/ crashes' # 0
<1> USE SettlementAssumption
    DEF TypeInv, TypeOK, HasJob, Workers, Goto, Finish, Take, SameJob, Holding, GoesOn
<1>0. ASSUME pc'[v] = pc[v], job'[v] = job[v] PROVE GoesOn(v)
  BY <1>0
<1>1. ASSUME NEW w \in Workers, w # v, WorkerStep(w) PROVE GoesOn(v)
  <2>1. CASE Reclaim(w)
    BY <1>1, <2>1, <1>0 DEF Reclaim
  <2>2. CASE ~Reclaim(w)
    BY <1>1, <2>2, <1>0
       DEF WorkerStep, GatewayAnswers, GatewayHidesAmount, Park, RecordShort,
           FlagUnderpaid, Claim, Unpayable, Alert, ReadOrder, Settle, SettledByOther,
           SettleFails, Preserve, MarkFailed, UndoMatch, CreditAnywayWrite
  <2> QED
    BY <2>1, <2>2
<1>2. ASSUME ReadOrder(v) PROVE GoesOn(v)
  BY <1>2 DEF ReadOrder, Job
<1>3. ASSUME SettleFails(v) \/ Preserve(v) PROVE GoesOn(v)
  BY <1>3 DEF SettleFails, Preserve, AfterError
<1>4. ASSUME WorkerStep(v) PROVE GoesOn(v) \/ Stops(v)
  <2>1. /\ ~GatewayAnswers(v) /\ ~GatewayHidesAmount(v) /\ ~Park(v) /\ ~RecordShort(v)
        /\ ~FlagUnderpaid(v) /\ ~Claim(v) /\ ~Reclaim(v) /\ ~CreditAnywayWrite(v)
    BY DEF GatewayAnswers, GatewayHidesAmount, Park, RecordShort, FlagUnderpaid, Claim,
           Reclaim, CreditAnywayWrite
  <2> QED
    BY <1>4, <1>2, <1>3, <2>1 DEF WorkerStep, Stops
<1>5. ASSUME NEW w \in Workers, Crash(w) PROVE crashes' # 0
  BY <1>5 DEF Crash
<1>6. ASSUME \/ \E t \in Trxs : Pay(t) \/ Dismiss(t)
             \/ \E o \in Orders : \/ CancelOrder(o) \/ CreditToBalance(o)
                                   \/ FulfillManual(o) \/ RefundUnderpaid(o)
                                   \/ DeliverUnderpaid(o)
             \/ UNCHANGED vars
      PROVE  GoesOn(v)
  BY <1>6, <1>0 DEF Pay, Dismiss, CancelOrder, CreditToBalance, FulfillManual,
                    RefundUnderpaid, DeliverUnderpaid, vars
<1>7. ASSUME \/ \E w \in Callbacks, t \in Trxs : CallbackStart(w, t)
             \/ \E w \in Pollers, t \in Trxs : PollerStart(w, t)
             \/ \E w \in Admins, t \in Trxs, o \in Orders : MatchStart(w, t, o)
             \/ \E w \in Admins, o \in Orders : CreditAnywayRead(w, o)
      PROVE  GoesOn(v)
  BY <1>7, <1>0 DEF CallbackStart, PollerStart, MatchStart, CreditAnywayRead
<1> QED
  BY <1>1, <1>4, <1>5, <1>6, <1>7 DEF Next, ExpireOrder

LEMMA WordIsKept == [Next]_vars => alerted \subseteq alerted'
<1> SUFFICES ASSUME [Next]_vars PROVE alerted \subseteq alerted'
  OBVIOUS
<1>1. ASSUME NEW w \in Workers, WorkerStep(w) PROVE alerted \subseteq alerted'
  BY <1>1 DEF WorkerStep, GatewayAnswers, GatewayHidesAmount, Park, RecordShort,
     FlagUnderpaid, Claim, Reclaim, Unpayable, Alert, ReadOrder, Settle, SettledByOther,
     SettleFails, Preserve, MarkFailed, UndoMatch, CreditAnywayWrite
<1>2. ASSUME NEW o \in Orders, CancelOrder(o) PROVE alerted \subseteq alerted'
  BY <1>2 DEF CancelOrder, AlertClaimed
<1> QED
  BY <1>1, <1>2 DEF Next, ExpireOrder, Pay, Dismiss, CallbackStart, PollerStart,
     MatchStart, CreditAnywayRead, Crash, CreditToBalance, FulfillManual,
     RefundUnderpaid, DeliverUnderpaid, vars

LEMMA CrashesCount == TypeOK /\ [Next]_vars => (crashes' = 0 => crashes = 0)
<1> SUFFICES ASSUME TypeOK, [Next]_vars PROVE crashes' = 0 => crashes = 0
  OBVIOUS
<1>1. ASSUME NEW w \in Workers, WorkerStep(w) PROVE crashes' = crashes
  BY <1>1 DEF WorkerStep, GatewayAnswers, GatewayHidesAmount, Park, RecordShort,
     FlagUnderpaid, Claim, Reclaim, Unpayable, Alert, ReadOrder, Settle, SettledByOther,
     SettleFails, Preserve, MarkFailed, UndoMatch, CreditAnywayWrite
<1>2. ASSUME NEW w \in Workers, Crash(w) PROVE crashes' # 0
  BY <1>2 DEF Crash, TypeOK
<1> QED
  BY <1>1, <1>2 DEF Next, ExpireOrder, Pay, Dismiss, CallbackStart, PollerStart,
     MatchStart, CreditAnywayRead, CancelOrder, CreditToBalance, FulfillManual,
     RefundUnderpaid, DeliverUnderpaid, vars

LEMMA ClaimsStep ==
    TypeInv /\ ClaimInv /\ FundsInv /\ PaidProductsFulfilled /\ ClaimsAreFollowed
        /\ [Next]_vars => ClaimsAreFollowed'
<1> SUFFICES ASSUME TypeInv, ClaimInv, FundsInv, PaidProductsFulfilled,
                    ClaimsAreFollowed, [Next]_vars, crashes' = 0,
                    NEW t \in Trxs, row'[t].outcome = "matched",
                    NEW o \in Products, row'[t].order = o
             PROVE  \/ \E w \in Workers : pc'[w] \in Holding /\ job'[w].trx = t
                    \/ Fulfilled(o)'
  BY DEF ClaimsAreFollowed, Fulfilled, Status
<1>1. RowMove(t)
  BY RowMoves
<1>2. CASE row'[t] # row[t]
  <2>1. \E w \in Workers : pc'[w] = "reading" /\ SameJob(w) /\ job[w].trx = t
    BY <1>1, <1>2 DEF RowMove, Kept, Freed
  <2> QED
    BY <2>1 DEF SameJob, Holding
<1>3. CASE row'[t] = row[t]
  <2>1. row[t].order = o /\ row[t].outcome = "matched"
    BY <1>3
  <2>2. CASE Fulfilled(o)
    BY <2>2, FulfilledStays
  <2>3. ASSUME NEW w \in Workers, pc[w] \in Holding, job[w].trx = t
        PROVE  \/ pc'[w] \in Holding /\ job'[w].trx = t
               \/ Fulfilled(o)'
    <3>1. GoesOn(w) \/ Stops(w)
      BY <2>3, HolderMoves
    <3>2. job[w].order = o /\ o \in Orders
      BY <2>1, <2>3, SettlementAssumption DEF FundsInv, HeldRowNamesOrder
    <3>3. CASE GoesOn(w)
      BY <2>3, <3>3 DEF GoesOn, SameJob
    <3>4. CASE Settle(w)
      BY <3>2, <3>4, SettledOrder DEF Fulfilled, Status
    <3>5. CASE Unpayable(w)
      <4>1. row'[t].outcome \in {"stale", "unmatched"}
        BY <2>3, <3>5, RowFields DEF Unpayable, TypeInv, TypeOK
      <4> QED
        BY <4>1
    <3>6. CASE SettledByOther(w) \/ Alert(w)
      BY <2>1, <2>3, <3>2, <3>6 DEF SettledByOther, Alert, Topups, Holding
    <3>7. CASE MarkFailed(w)
      <4>1. row'[t].outcome = "delivery_failed"
        BY <2>3, <3>7, RowFields DEF MarkFailed, TypeInv, TypeOK
      <4> QED
        BY <4>1
    <3>8. CASE UndoMatch(w)
      <4>1. ~NotSettledBy(t, o)
        <5>1. pc[w] = "undoing" \/ NotSettledBy(t, o) => row'[t] = Unlinked(row[t])
          BY <2>1, <2>3, <3>2, <3>8 DEF UndoMatch, TypeInv, TypeOK
        <5> QED
          BY <5>1, <1>3, <2>1, RowFields DEF TypeInv, TypeOK
      <4>2. order[o].paidBy = t
        BY <2>1, <4>1 DEF NotSettledBy
      <4> QED
        BY <2>1, <4>2, FulfilledStays DEF PaidProductsFulfilled
    <3> QED
      BY <3>1, <3>3, <3>4, <3>5, <3>6, <3>7, <3>8 DEF Stops
  <2> QED
    BY <2>1, <2>2, <2>3, CrashesCount DEF ClaimsAreFollowed, TypeInv
<1> QED
  BY <1>2, <1>3

LEMMA StaleStep ==
    TypeInv /\ StaleIsTold /\ [Next]_vars => StaleIsTold'
<1> SUFFICES ASSUME TypeInv, StaleIsTold, [Next]_vars, crashes' = 0,
                    NEW t \in Trxs, row'[t].outcome = "stale"
             PROVE  \/ Told(t)'
                    \/ \E w \in Workers : pc'[w] = "alerting" /\ job'[w].trx = t
  BY DEF StaleIsTold, Told
<1>1. RowMove(t)
  BY RowMoves
<1>2. CASE row'[t] # row[t]
  <2>1. \E w \in Workers :
           /\ job[w].trx = t
           /\ \/ pc'[w] = "alerting" /\ SameJob(w)
              \/ <<t, "log">> \in alerted'
    BY <1>1, <1>2 DEF RowMove, Kept, Freed
  <2> QED
    BY <2>1 DEF SameJob, Told, Channels
<1>3. CASE row'[t] = row[t]
  <2>1. Told(t) => Told(t)'
    BY WordIsKept DEF Told
  <2>2. ASSUME NEW w \in Workers, pc[w] = "alerting", job[w].trx = t
        PROVE  Told(t)' \/ (pc'[w] = "alerting" /\ job'[w].trx = t)
    <3>1. GoesOn(w) \/ Stops(w)
      BY <2>2, HolderMoves
    <3>2. CASE GoesOn(w)
      BY <2>2, <3>2 DEF GoesOn, SameJob
    <3>3. CASE Stops(w)
      <4>1. Alert(w)
        BY <2>2, <3>3
           DEF Stops, Unpayable, Settle, SettledByOther, MarkFailed, UndoMatch
      <4> QED
        BY <2>2, <4>1 DEF Alert, Told, Channels
    <3> QED
      BY <3>1, <3>2, <3>3
  <2> QED
    BY <1>3, <2>1, <2>2, CrashesCount DEF StaleIsTold, TypeInv
<1> QED
  BY <1>2, <1>3

(* While no process dies, a payment claimed for a product order that was   *)
(* cancelled and not credited is told of once no worker handles it.        *)
THEOREM StaleIsReported == Spec => []StalePaymentReachesAdmin
<1>1. Init => StaleInv
  BY SettlementAssumption
     DEF Init, StaleInv, PaidProductsFulfilled, ClaimsAreFollowed, StaleIsTold
<1>2. TypeInv /\ ClaimInv /\ FundsInv /\ StaleInv /\ [Next]_vars => StaleInv'
  BY PaidProductsStep, ClaimsStep, StaleStep DEF StaleInv
<1>3. StaleInv => StalePaymentReachesAdmin
  <2> SUFFICES ASSUME StaleInv, crashes = 0, NEW t \in Trxs,
                      row[t].outcome \in {"stale", "matched"}, row[t].order \in Products,
                      Status(row[t].order) = "CANCELLED", ~order[row[t].order].credited,
                      \A w \in Workers : job[w].trx # t
               PROVE  Told(t)
    BY DEF StalePaymentReachesAdmin, Told
  <2>1. ~Fulfilled(row[t].order)
    BY DEF Fulfilled
  <2> QED
    BY <2>1 DEF StaleInv, ClaimsAreFollowed, StaleIsTold
<1> QED
  BY <1>1, <1>2, <1>3, TypeInductive, ClaimInductive, FundsInductive, PTL DEF Spec

-----------------------------------------------------------------------------
(* The promise.  What the abstract steps ask of the money and the ledger   *)
(* says nothing of: a match moves money that covers its order, and a       *)
(* product that is underpaid has a short payment of its own.               *)
MatchCoversPrice ==
    \A w \in Admins : pc[w] \in {"claiming", "reclaiming", "reading", "settling"} =>
        Amount[job[w].trx] >= Price[job[w].order]
ShortJobs ==
    \A w \in Workers : pc[w] \in {"recording", "flagging"} => ~Full(job[w].trx)
UnderpaidHasMoney ==
    \A o \in Orders :
        /\ Status(o) = "UNDERPAID" => order[o].short
        /\ order[o].short => \E t \in Trxs : Own[t] = o /\ ~Full(t)
MoneyInv == MatchCoversPrice /\ ShortJobs /\ UnderpaidHasMoney

LEMMA MoneyStep ==
    TypeInv /\ FundsInv /\ MoneyInv /\ [Next]_vars => MoneyInv'
<1> SUFFICES ASSUME TypeInv, FundsInv, MoneyInv, [Next]_vars PROVE MoneyInv'
  OBVIOUS
<1>0. AutomaticJobs /\ AdminJobs
  BY DEF FundsInv
<1>1. MatchCoversPrice'
  <2> SUFFICES ASSUME NEW w \in Admins,
                      pc'[w] \in {"claiming", "reclaiming", "reading", "settling"}
               PROVE  Amount[job'[w].trx] >= Price[job'[w].order]
    BY DEF MatchCoversPrice
  <2>1. w \in Workers /\ JobMove(w)
    BY <1>0, JobMoves DEF Workers
  <2> QED
    BY <2>1 DEF MoneyInv, MatchCoversPrice, JobMove, Started, ClaimWon, Onward, SameJob
<1>2. ShortJobs'
  <2> SUFFICES ASSUME NEW w \in Workers, pc'[w] \in {"recording", "flagging"}
               PROVE  ~Full(job'[w].trx)
    BY DEF ShortJobs, Full
  <2>1. JobMove(w)
    BY <1>0, JobMoves
  <2> QED
    BY <2>1 DEF MoneyInv, ShortJobs, JobMove, Started, ClaimWon, Onward, SameJob
<1>3. UnderpaidHasMoney'
  <2> SUFFICES ASSUME NEW o \in Orders
               PROVE  /\ order'[o].status = "UNDERPAID" => order'[o].short
                      /\ order'[o].short => \E t \in Trxs : Own[t] = o /\ ~Full(t)
    BY DEF UnderpaidHasMoney, Status, Full
  <2>1. ShortBy(o)
    BY OrderMoves DEF OrderMove
  <2>2. ASSUME NEW w \in Workers, FlagUnderpaid(w), job[w].order = o
        PROVE  \E t \in Trxs : Own[t] = o /\ ~Full(t)
    <3>1. pc[w] = "flagging" /\ w \notin Admins
      BY <1>0, <2>2 DEF FlagUnderpaid, AdminJobs
    <3>2. job[w].trx \in Trxs /\ Own[job[w].trx] = o /\ ~Full(job[w].trx)
      BY <1>0, <2>2, <3>1 DEF AutomaticJobs, MoneyInv, ShortJobs, TypeInv, HasJob
    <3> QED
      BY <3>2
  <2> QED
    BY <2>1, <2>2 DEF ShortBy, MoneyInv, UnderpaidHasMoney, Status
<1> QED
  BY <1>1, <1>2, <1>3 DEF MoneyInv

(* The abstract step, in terms of the order that moved.                    *)
OthersStand(o) == \A p \in Products : p # o => order'[p] = order[p]
Out(s) == IF s \in {"delivered", "returned"} THEN 1 ELSE 0

LEMMA ProductBecomes ==
    ASSUME TypeInv, NEW o \in Products, NEW s, OthersStand(o),
           Standing(order'[o]) = s, order'[o].payouts = order[o].payouts + Out(s)
    PROVE  Promise!Becomes(o, s)
<1>0. order[o] \in OrderRec
  BY SettlementAssumption DEF TypeInv, TypeOK
<1>1. order[o].payouts \in Nat
  BY <1>0, OrderFields
<1>2. \A p \in Products : Standing(order'[p]) = IF p = o THEN s ELSE Standing(order[p])
  BY DEF OthersStand
<1>3. \A p \in Products :
         order'[p].payouts = IF p = o THEN order[o].payouts + Out(s) ELSE order[p].payouts
  BY DEF OthersStand
<1>4. [p \in Products |-> Standing(order'[p])] =
      [[p \in Products |-> Standing(order[p])] EXCEPT ![o] = s]
  BY <1>2
<1>5. CASE s \in {"delivered", "returned"}
  <2>1. [p \in Products |-> order'[p].payouts] =
        [[p \in Products |-> order[p].payouts] EXCEPT ![o] = @ + 1]
    BY <1>3, <1>5 DEF Out
  <2> QED
    BY <1>4, <1>5, <2>1 DEF Promise!Becomes
<1>6. CASE s \notin {"delivered", "returned"}
  <2>1. [p \in Products |-> order'[p].payouts] = [p \in Products |-> order[p].payouts]
    BY <1>1, <1>3, <1>6 DEF Out
  <2> QED
    BY <1>4, <1>6, <2>1 DEF Promise!Becomes
<1> QED
  BY <1>5, <1>6

(* Money paid out through one order only is spent as the promise says.     *)
LEMMA MoneySpent ==
    ASSUME PaymentFundsOneOrder', NEW o \in Orders, NEW S \in SUBSET Trxs, Funding(S, o)
    PROVE  Promise!Spend(S, o)
<1>1. ASSUME NEW t \in S, NEW p \in Orders, <<t, p>> \in funded PROVE p = o
  <2>1. <<t, o>> \in funded' /\ <<t, p>> \in funded'
    BY <1>1 DEF Funding
  <2> QED
    BY <2>1, <1>1 DEF PaymentFundsOneOrder
<1> QED
  BY <1>1 DEF Promise!Spend, Funding

LEMMA NothingMoved ==
    ASSUME \A p \in Products : order'[p] = order[p], funded' = funded
    PROVE  UNCHANGED Promise!promise
<1>1. \A p \in Products :
         Standing(order'[p]) = Standing(order[p]) /\ order'[p].payouts = order[p].payouts
  OBVIOUS
<1> QED
  BY <1>1 DEF Promise!promise

LEMMA WalletFilled ==
    ASSUME NEW o \in Orders \ Products, NEW S \in SUBSET Trxs, Funding(S, o),
           \A p \in Products : order'[p] = order[p], PaymentFundsOneOrder'
    PROVE  Promise!Next
<1>1. Promise!Spend(S, o)
  BY MoneySpent
<1>2. \A p \in Products :
         Standing(order'[p]) = Standing(order[p]) /\ order'[p].payouts = order[p].payouts
  OBVIOUS
<1>3. Promise!TopUp(o)
  BY <1>1, <1>2 DEF Promise!TopUp
<1> QED
  BY <1>3 DEF Promise!Next

(* A payment that is about to settle an order was spent on none.           *)
LEMMA SettlementMoneyIsFresh ==
    ASSUME TypeInv, ClaimInv, FundsInv, MoneyInv,
           NEW w \in Workers, Settle(w)
    PROVE  /\ \A p \in Orders : <<job[w].trx, p>> \notin funded
           /\ Amount[job[w].trx] >= Price[job[w].order]
<1> DEFINE t == job[w].trx
           o == job[w].order
<1>1. t \in Trxs /\ o \in Orders /\ pc[w] = "settling" /\ Settleable(o)
  BY SettledOrder
<1>2. CASE w \in Admins
  BY <1>1, <1>2 DEF FundsInv, MatchMovesUnspentMoney, MoneyInv, MatchCoversPrice
<1>3. CASE w \notin Admins
  <2>1. o = Own[t] /\ Full(t)
    BY <1>1, <1>3 DEF FundsInv, AutomaticJobs
  <2>2. row[t].outcome = "matched" /\ row[t].order = o
    BY <1>1 DEF ClaimInv, ClaimedForItsOrder
  <2>3. ~Settled(t, o)
    BY <1>1, SettlementAssumption DEF Settleable, Settled, Topups, Status
  <2> QED
    BY <1>1, <2>1, <2>2, <2>3 DEF FundsInv, FundedOnce, Full
<1> QED
  BY <1>2, <1>3

(* Where the delivery of a product leaves it.                              *)
LEMMA ProductHandedOver ==
    ASSUME TypeInv, NEW o \in Products, OthersStand(o),
           \/ order'[o] = Delivered(o)
           \/ \E t : order'[o] = PaidWith(Delivered(o), t)
    PROVE  Promise!HandOver(o)
<1> DEFINE s == IF o \in HandMade THEN "queued" ELSE "delivered"
           d == Delivered(o)
<1>1. o \in Orders /\ order[o] \in OrderRec /\ d \in OrderRec
  BY SettlementAssumption, DeliveredOrder DEF TypeInv, TypeOK
<1>2. /\ order'[o].status = d.status /\ order'[o].payouts = d.payouts
      /\ order'[o].credited = d.credited
  BY <1>1, OrderFields DEF Same
<1>3. Standing(order'[o]) = s
  BY <1>1, <1>2, DeliveredOrder DEF Standing, TypeInv
<1>4. d.payouts = order[o].payouts + Out(s)
  BY <1>1, OrderFields DEF Delivered, Out, Same, Once
<1>5. Promise!Becomes(o, s)
  BY <1>2, <1>3, <1>4, ProductBecomes
<1> QED
  BY <1>5 DEF Promise!HandOver

LEMMA SettleKeepsPromise ==
    ASSUME TypeInv, ClaimInv, FundsInv, MoneyInv, PaymentFundsOneOrder',
           NEW w \in Workers, Settle(w)
    PROVE  Promise!Next
<1> SUFFICES ASSUME NEW t, t = job[w].trx, NEW o, o = job[w].order PROVE Promise!Next
  OBVIOUS
<1>1. /\ t \in Trxs /\ o \in Orders /\ Settleable(o)
      /\ \A p \in Orders : p # o => order'[p] = order[p]
  BY SettledOrder
<1>2. /\ \A p \in Orders : <<t, p>> \notin funded
      /\ Amount[t] >= Price[o]
  BY SettlementMoneyIsFresh
<1>3. Funding({t}, o)
  BY SettledOrder DEF Funding
<1>4. CASE o \in Products
  <2>1. Promise!HandOver(o)
    <3>1. OthersStand(o)
      BY <1>1, SettlementAssumption DEF OthersStand
    <3>2. order'[o] = PaidWith(Delivered(o), t)
      BY <1>1 DEF Settle, TypeInv, TypeOK
    <3> QED
      BY <1>4, <3>1, <3>2, ProductHandedOver
  <2>2. Promise!Spend({t}, o)
    BY <1>1, <1>3, MoneySpent
  <2>3. Standing(order[o]) = "open"
    BY <1>1, <1>4 DEF Settleable, Topups, Status, Standing
  <2>4. Promise!Settle(o)
    BY <1>1, <1>2, <1>4, <2>1, <2>2, <2>3 DEF Promise!Settle
  <2> QED
    BY <1>4, <2>4 DEF Promise!Next
<1>5. CASE o \notin Products
  <2>1. \A p \in Products : order'[p] = order[p]
    BY <1>1, <1>5, SettlementAssumption
  <2> QED
    BY <1>1, <1>3, <1>5, <2>1, WalletFilled
<1> QED
  BY <1>4, <1>5

(* The steps of admins and of the expiry sweep.                            *)
LEMMA CancelKeepsPromise ==
    ASSUME TypeInv, PayoutsMatchStatus, NEW o \in Orders, CancelOrder(o)
    PROVE  [Promise!Next]_(Promise!promise)
<1>1. /\ \A p \in Orders : p # o => order'[p] = order[p]
      /\ order[o] \in OrderRec /\ order'[o] = Cancelled(order[o]) /\ funded' = funded
      /\ order[o].status \in {"PENDING_PAYMENT", "UNDERPAID"}
  BY DEF CancelOrder, MarkedPaid, Status, TypeInv, TypeOK
<1>2. CASE o \in Products
  <2>1. ~order[o].credited
    BY <1>1, <1>2 DEF PayoutsMatchStatus
  <2>2. /\ order'[o].status = "CANCELLED" /\ ~order'[o].credited
        /\ order'[o].payouts = order[o].payouts /\ order[o].payouts \in Nat
    BY <1>1, <2>1, OrderFields DEF Same
  <2>3. OthersStand(o)
    BY <1>1, SettlementAssumption DEF OthersStand
  <2>4. Standing(order'[o]) = "cancelled" /\ Standing(order[o]) = "open"
    BY <1>1, <2>2 DEF Standing
  <2>5. order'[o].payouts = order[o].payouts + Out("cancelled")
    BY <2>2 DEF Out
  <2>6. Promise!Becomes(o, "cancelled")
    BY <1>2, <2>3, <2>4, <2>5, ProductBecomes
  <2>7. Promise!Cancel(o)
    BY <1>1, <1>2, <2>4, <2>6 DEF Promise!Cancel
  <2> QED
    BY <1>2, <2>7 DEF Promise!Next
<1>3. CASE o \notin Products
  BY <1>1, <1>3, NothingMoved, SettlementAssumption
<1> QED
  BY <1>2, <1>3

LEMMA CreditKeepsPromise ==
    ASSUME TypeInv, PayoutsMatchStatus, PaymentFundsOneOrder',
           NEW o \in Orders, CreditToBalance(o)
    PROVE  Promise!Next
<1> DEFINE S == Evidence(o) \cup ShortOf(o) \cup ({order[o].paidBy} \cap Trxs)
<1>1. /\ \A p \in Orders : p # o => order'[p] = order[p]
      /\ order[o] \in OrderRec /\ order'[o] = Credited(order[o])
  BY DEF CreditToBalance, TypeInv, TypeOK
<1>2. Funding(S, o) /\ S \in SUBSET Trxs
  BY DEF CreditToBalance, Evidence, ShortOf
<1>3. Promise!Spend(S, o)
  BY <1>2, MoneySpent
<1>4. CASE o \in Products
  <2>1. /\ order[o].status \in Statuses \ {"REFUNDED", "DELIVERED"} /\ ~order[o].credited
        /\ order[o].status = "CANCELLED" => S # {}
    BY <1>1, OrderFields DEF CreditToBalance, Creditable, Status
  <2>2. /\ order'[o].status = "CANCELLED" /\ order'[o].credited
        /\ order'[o].payouts = order[o].payouts + 1
    BY <1>1, OrderFields
  <2>3. OthersStand(o)
    BY <1>1, SettlementAssumption DEF OthersStand
  <2>4. /\ Standing(order'[o]) = "returned"
        /\ Standing(order[o]) \in {"open", "queued", "cancelled"}
        /\ Standing(order[o]) = "cancelled" => S # {}
    BY <2>1, <2>2 DEF Standing, Statuses
  <2>5. Promise!Becomes(o, "returned")
    BY <1>4, <2>2, <2>3, <2>4, ProductBecomes DEF Out
  <2>6. Promise!Return(o)
    BY <1>2, <1>3, <1>4, <2>4, <2>5 DEF Promise!Return
  <2> QED
    BY <1>4, <2>6 DEF Promise!Next
<1>5. CASE o \notin Products
  <2>1. \A p \in Products : order'[p] = order[p]
    BY <1>1, <1>5, SettlementAssumption
  <2> QED
    BY <1>2, <1>5, <2>1, WalletFilled
<1> QED
  BY <1>4, <1>5

LEMMA FulfilKeepsPromise ==
    ASSUME TypeInv, NEW o \in Orders, FulfillManual(o)
    PROVE  [Promise!Next]_(Promise!promise)
<1>1. /\ \A p \in Orders : p # o => order'[p] = order[p]
      /\ order[o] \in OrderRec /\ order'[o] = Completed(order[o]) /\ funded' = funded
      /\ order[o].status = "PROCESSING"
  BY DEF FulfillManual, Status, TypeInv, TypeOK
<1>2. CASE o \in Products
  <2>1. order'[o].status = "DELIVERED" /\ order'[o].payouts = order[o].payouts + 1
    BY <1>1, OrderFields DEF Once
  <2>2. OthersStand(o)
    BY <1>1, SettlementAssumption DEF OthersStand
  <2>3. Standing(order'[o]) = "delivered" /\ Standing(order[o]) = "queued"
    BY <1>1, <2>1 DEF Standing
  <2>4. Promise!Becomes(o, "delivered")
    BY <1>2, <2>1, <2>2, <2>3, ProductBecomes DEF Out
  <2>5. Promise!Complete(o)
    BY <1>1, <1>2, <2>3, <2>4 DEF Promise!Complete
  <2> QED
    BY <1>2, <2>5 DEF Promise!Next
<1>3. CASE o \notin Products
  BY <1>1, <1>3, NothingMoved, SettlementAssumption
<1> QED
  BY <1>2, <1>3

LEMMA RefundKeepsPromise ==
    ASSUME TypeInv, PaymentFundsOneOrder', NEW o \in Orders, RefundUnderpaid(o)
    PROVE  Promise!Next
<1>1. /\ \A p \in Orders : p # o => order'[p] = order[p]
      /\ order[o] \in OrderRec /\ order'[o] = Refunded(order[o])
      /\ order[o].status = "UNDERPAID"
  BY DEF RefundUnderpaid, Status, TypeInv, TypeOK
<1>2. Funding(ShortOf(o), o) /\ ShortOf(o) \in SUBSET Trxs
  BY DEF RefundUnderpaid, ShortOf
<1>3. Promise!Spend(ShortOf(o), o)
  BY <1>2, MoneySpent
<1>4. CASE o \in Products
  <2>1. order'[o].status = "REFUNDED" /\ order'[o].payouts = order[o].payouts + 1
    BY <1>1, OrderFields DEF Once
  <2>2. OthersStand(o)
    BY <1>1, SettlementAssumption DEF OthersStand
  <2>3. Standing(order'[o]) = "returned" /\ Standing(order[o]) = "open"
    BY <1>1, <2>1 DEF Standing
  <2>4. Promise!Becomes(o, "returned")
    BY <1>4, <2>1, <2>2, <2>3, ProductBecomes DEF Out
  <2>5. Promise!Return(o)
    BY <1>2, <1>3, <1>4, <2>3, <2>4 DEF Promise!Return
  <2> QED
    BY <1>4, <2>5 DEF Promise!Next
<1>5. CASE o \notin Products
  <2>1. \A p \in Products : order'[p] = order[p]
    BY <1>1, <1>5, SettlementAssumption
  <2> QED
    BY <1>2, <1>5, <2>1, WalletFilled
<1> QED
  BY <1>4, <1>5

LEMMA AbsorbKeepsPromise ==
    ASSUME TypeInv, MoneyInv, PaymentFundsOneOrder', NEW o \in Orders, DeliverUnderpaid(o)
    PROVE  Promise!Next
<1>1. /\ o \in Products /\ order[o].status = "UNDERPAID"
      /\ order'[o] = Delivered(o) /\ OthersStand(o)
  BY SettlementAssumption DEF DeliverUnderpaid, Status, OthersStand, TypeInv, TypeOK
<1>2. Funding(ShortOf(o), o)
  BY DEF DeliverUnderpaid
<1>3. /\ ShortOf(o) \in SUBSET {t \in Trxs : Own[t] = o /\ Amount[t] < Price[o]}
      /\ ShortOf(o) # {}
  <2>1. order[o].short /\ \E t \in Trxs : Own[t] = o /\ ~Full(t)
    BY <1>1 DEF MoneyInv, UnderpaidHasMoney, Status
  <2>2. \A t \in Trxs : Own[t] = o /\ ~Full(t) => Amount[t] < Price[o]
    BY SettlementAssumption DEF Full
  <2> QED
    BY <2>1, <2>2 DEF ShortOf
<1>4. Promise!Spend(ShortOf(o), o)
  BY <1>2, <1>3, MoneySpent
<1>5. Promise!HandOver(o)
  BY <1>1, ProductHandedOver
<1>6. Standing(order[o]) = "open"
  BY <1>1 DEF Standing
<1>7. Promise!Absorb(o)
  BY <1>1, <1>3, <1>4, <1>5, <1>6 DEF Promise!Absorb
<1> QED
  BY <1>1, <1>7 DEF Promise!Next

LEMMA AnywayKeepsPromise ==
    ASSUME TypeInv, PaymentFundsOneOrder', NEW w \in Workers, CreditAnywayWrite(w)
    PROVE  [Promise!Next]_(Promise!promise)
<1> SUFFICES ASSUME NEW o, o = job[w].order PROVE [Promise!Next]_(Promise!promise)
  OBVIOUS
<1>1. o \in Orders \ Products /\ \A p \in Products : order'[p] = order[p]
  BY SettlementAssumption DEF CreditAnywayWrite, TypeInv, TypeOK, HasJob, Topups
<1>2. funded' = funded \/ Funding(ShortOf(o), o)
  BY DEF CreditAnywayWrite
<1>3. ShortOf(o) \in SUBSET Trxs
  BY DEF ShortOf
<1> QED
  BY <1>1, <1>2, <1>3, NothingMoved, WalletFilled

LEMMA StandsAlike ==
    ASSUME NEW r, NEW s, s.credited = r.credited,
           \/ s.status = r.status
           \/ r.status = "PENDING_PAYMENT" /\ s.status = "UNDERPAID"
    PROVE  Standing(s) = Standing(r)
  BY DEF Standing

LEMMA PromiseStep ==
    ASSUME TypeInv, PayoutsMatchStatus, ClaimInv, FundsInv, MoneyInv,
           PaymentFundsOneOrder', [Next]_vars
    PROVE  [Promise!Next]_(Promise!promise)
<1> DEFINE Faithful == [Promise!Next]_(Promise!promise)
<1>1. ASSUME \A p \in Products : order'[p] = order[p], funded' = funded PROVE Faithful
  BY <1>1, NothingMoved
<1>2. ASSUME NEW w \in Workers, FlagUnderpaid(w) PROVE Faithful
  <2>1. funded' = funded
    BY <1>2 DEF FlagUnderpaid
  <2>2. \A p \in Products : /\ order'[p].payouts = order[p].payouts
                            /\ Standing(order'[p]) = Standing(order[p])
    <3> SUFFICES ASSUME NEW p \in Products
                 PROVE  /\ order'[p].payouts = order[p].payouts
                        /\ Standing(order'[p]) = Standing(order[p])
      OBVIOUS
    <3>1. order[p] \in OrderRec
      BY SettlementAssumption DEF TypeInv, TypeOK
    <3>2. \/ order'[p] = order[p]
          \/ order[p].status = "PENDING_PAYMENT" /\ order'[p] = Underpaid(order[p])
      BY <1>2, SettlementAssumption DEF FlagUnderpaid, Status, TypeInv, TypeOK
    <3> QED
      BY <3>1, <3>2, OrderFields, StandsAlike DEF Same
  <2> QED
    BY <2>1, <2>2 DEF Promise!promise
<1>3. ASSUME NEW w \in Workers, Preserve(w) PROVE Faithful
  <2>1. funded' = funded
    BY <1>3 DEF Preserve
  <2>2. \A p \in Products : /\ order'[p].payouts = order[p].payouts
                            /\ Standing(order'[p]) = Standing(order[p])
    <3> SUFFICES ASSUME NEW p \in Products
                 PROVE  /\ order'[p].payouts = order[p].payouts
                        /\ Standing(order'[p]) = Standing(order[p])
      OBVIOUS
    <3>1. order[p] \in OrderRec
      BY SettlementAssumption DEF TypeInv, TypeOK
    <3>2. order'[p] = order[p] \/ order'[p] = InReview(order[p])
      BY <1>3, SettlementAssumption DEF Preserve, TypeInv, TypeOK
    <3> QED
      BY <3>1, <3>2, OrderFields, StandsAlike DEF Same
  <2> QED
    BY <2>1, <2>2 DEF Promise!promise
<1>4. ASSUME NEW w \in Workers, WorkerStep(w) PROVE Faithful
  <2>1. ASSUME order' = order, funded' = funded PROVE Faithful
    BY <1>1, <2>1
  <2> QED
    BY <1>2, <1>3, <1>4, <2>1, SettleKeepsPromise, AnywayKeepsPromise
       DEF WorkerStep, GatewayAnswers, GatewayHidesAmount, Park, RecordShort, Claim,
           Reclaim, Unpayable, Alert, ReadOrder, SettledByOther, SettleFails,
           MarkFailed, UndoMatch
<1>5. ASSUME NEW o \in Orders,
             \/ CancelOrder(o) \/ CreditToBalance(o) \/ FulfillManual(o)
             \/ RefundUnderpaid(o) \/ DeliverUnderpaid(o)
      PROVE  Faithful
  BY <1>5, CancelKeepsPromise, CreditKeepsPromise, FulfilKeepsPromise,
     RefundKeepsPromise, AbsorbKeepsPromise
<1>6. ASSUME \/ \E t \in Trxs : Pay(t) \/ Dismiss(t)
             \/ \E w \in Callbacks, t \in Trxs : CallbackStart(w, t)
             \/ \E w \in Pollers, t \in Trxs : PollerStart(w, t)
             \/ \E w \in Admins, t \in Trxs, o \in Orders : MatchStart(w, t, o)
             \/ \E w \in Admins, o \in Orders : CreditAnywayRead(w, o)
             \/ \E w \in Workers : Crash(w)
             \/ UNCHANGED vars
      PROVE  Faithful
  <2>1. order' = order /\ funded' = funded
    BY <1>6 DEF Pay, Dismiss, CallbackStart, PollerStart, MatchStart, CreditAnywayRead,
                Crash, vars
  <2> QED
    BY <1>1, <2>1
<1> QED
  BY <1>4, <1>5, <1>6 DEF Next, ExpireOrder

(* Settlement keeps its promise: callbacks, pollers, manual matches and    *)
(* their undoing, credits, fulfilments, underpaid resolutions and          *)
(* cancellations, interleaved and dying as they may, are steps in which a  *)
(* product is paid for once, by money that covers it and paid for nothing  *)
(* else, and is delivered or given back once (PaymentOnce).                *)
THEOREM SettlementKeepsPromise == Spec => SettlesOnce
<1>1. Init => MoneyInv
  BY DEF Init, MoneyInv, MatchCoversPrice, ShortJobs, UnderpaidHasMoney, Status, Workers
<1>2. Init => PayoutsMatchStatus
  BY SettlementAssumption DEF Init, PayoutsMatchStatus, PaidOut
<1>3. Init => Promise!Init
  <2> SUFFICES ASSUME Init PROVE Promise!Init
    OBVIOUS
  <2>1. \A o \in Products : Standing(order[o]) = "open" /\ order[o].payouts = 0
    BY SettlementAssumption DEF Init, Standing
  <2> QED
    BY <2>1 DEF Init, Promise!Init
<1>4. /\ TypeInv /\ PayoutsMatchStatus /\ ClaimInv /\ FundsInv /\ MoneyInv
      /\ PaymentFundsOneOrder' /\ [Next]_vars
      => [Promise!Next]_(Promise!promise)
  BY PromiseStep
<1> QED
  BY <1>1, <1>2, <1>3, <1>4, MoneyStep, PayoutsStep, TypeInductive, ClaimInductive,
     FundsInductive, PaymentFundsOne, PTL DEF Spec, SettlesOnce, Promise!Spec
=============================================================================
