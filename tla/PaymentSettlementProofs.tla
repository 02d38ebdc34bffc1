----------------------- MODULE PaymentSettlementProofs -----------------------
(***************************************************************************)
(* Proofs about PaymentSettlement for any number of orders, payments,      *)
(* callbacks, pollers and admins, any prices, and any number of crashes.   *)
(*                                                                         *)
(* Three invariants carry the argument: a working process has a job of the *)
(* right type (HasJob), a product was paid out as often as its status says *)
(* (PayoutsMatchStatus), and a claim has one holder whose row nobody else  *)
(* can move (ClaimInv).                                                    *)
(***************************************************************************)
EXTENDS PaymentSettlement, TLAPS

HasJob ==
    \A w \in Workers :
        /\ pc[w] # "idle" => job[w].order \in Orders
        /\ pc[w] \notin {"idle", "crediting"} => job[w].trx \in Trxs
        /\ pc[w] = "crediting" => job[w].order \in Topups

(* What one step may do to the record of a product order: its status moves *)
(* along these edges only, and each edge pays out as often as it says.     *)
Same(r, s) == s.payouts = r.payouts /\ s.credited = r.credited
Once(r, s) == s.payouts = r.payouts + 1 /\ s.credited = r.credited
ProductMove(r, s) ==
    \/ s.status = r.status /\ Same(r, s)
    \/ r.status = "PENDING_PAYMENT" /\ s.status = "UNDERPAID" /\ Same(r, s)
    \/ /\ r.status \in {"PENDING_PAYMENT", "UNDERPAID"}
       /\ s.status = "PROCESSING" /\ Same(r, s)
    \/ /\ r.status \in {"PENDING_PAYMENT", "UNDERPAID"}
       /\ s.status = "CANCELLED" /\ Same(r, s)
    \/ /\ r.status \in {"PENDING_PAYMENT", "UNDERPAID", "PROCESSING"}
       /\ s.status = "DELIVERED" /\ Once(r, s)
    \/ r.status = "UNDERPAID" /\ s.status = "REFUNDED" /\ Once(r, s)
    \/ /\ r.status \notin {"DELIVERED", "REFUNDED"} /\ ~r.credited
       /\ s.status = "CANCELLED" /\ s.credited /\ s.payouts = r.payouts + 1

(* A product order is delivered or its price is given back, never both and *)
(* never twice: callback, poller, manual match, fulfilment, credit and the *)
(* underpaid resolutions exclude one another in every order they can run.  *)
ProductPaidOnce == \A o \in Products : order[o].payouts <= 1

(* How often a product was paid out, read off its status.                  *)
PaidOut(r) == CASE r.status \in {"DELIVERED", "REFUNDED"} -> 1
                [] r.status = "CANCELLED" /\ r.credited -> 1
                [] OTHER -> 0
PayoutsMatchStatus ==
    \A o \in Products :
        /\ order[o].payouts = PaidOut(order[o])
        /\ order[o].credited => order[o].status = "CANCELLED"

(* The claim on a payment: one holder, on a row still claimed; and a       *)
(* worker about to reclaim a row knows it to be claimed and abandoned.     *)
OneHolder ==
    \A v, w \in Workers :
        pc[v] \in Holding /\ pc[w] \in Holding /\ job[v].trx = job[w].trx => v = w
HeldRowIsClaimed ==
    \A w \in Workers : pc[w] \in Holding =>
        row[job[w].trx].outcome \in {"matched", "overpaid"}
ClaimedForItsOrder ==
    \A w \in Workers : pc[w] \in {"reading", "settling", "reclaiming"} =>
        /\ row[job[w].trx].outcome = "matched"
        /\ row[job[w].trx].order = job[w].order
ReclaimedIsAbandoned ==
    \A v, w \in Workers :
        pc[w] = "reclaiming" /\ job[v].trx = job[w].trx => pc[v] \notin Holding
ClaimInv == OneHolder /\ HeldRowIsClaimed /\ ClaimedForItsOrder /\ ReclaimedIsAbandoned

-----------------------------------------------------------------------------
(* The record updates of the model: their types ...                        *)
LEMMA OrderUpdates ==
    ASSUME NEW r \in OrderRec
    PROVE  /\ Underpaid(r) \in OrderRec /\ InReview(r) \in OrderRec
           /\ Cancelled(r) \in OrderRec /\ Queued(r) \in OrderRec
           /\ Completed(r) \in OrderRec /\ Refunded(r) \in OrderRec
           /\ Credited(r) \in OrderRec /\ CreditedShort(r) \in OrderRec
           /\ \A t \in Trxs : PaidWith(r, t) \in OrderRec
<1>1. /\ r.payouts + 1 \in Nat
      /\ (IF r.status = "UNDERPAID" THEN "CANCELLED" ELSE r.status) \in Statuses
  BY DEF OrderRec, Statuses
<1>2. /\ Underpaid(r) \in OrderRec /\ InReview(r) \in OrderRec
      /\ Cancelled(r) \in OrderRec /\ Queued(r) \in OrderRec
  BY DEF OrderRec, Statuses, Underpaid, InReview, Cancelled, Queued
<1>3. Completed(r) \in OrderRec /\ Refunded(r) \in OrderRec
  BY <1>1 DEF OrderRec, Statuses, Completed, Refunded
<1>4. Credited(r) \in OrderRec
  BY <1>1 DEF OrderRec, Statuses, Credited
<1>5. CreditedShort(r) \in OrderRec
  BY <1>1 DEF OrderRec, CreditedShort
<1>6. ASSUME NEW t \in Trxs PROVE PaidWith(r, t) \in OrderRec
  BY DEF OrderRec, PaidWith
<1> QED
  BY <1>2, <1>3, <1>4, <1>5, <1>6

(* ... and what they do to the status, the payouts and the credit mark.    *)
LEMMA OrderFields ==
    ASSUME NEW r \in OrderRec
    PROVE  /\ r.status \in Statuses /\ r.payouts \in Nat /\ r.credited \in BOOLEAN
           /\ Underpaid(r).status = "UNDERPAID" /\ Same(r, Underpaid(r))
           /\ InReview(r).status = r.status /\ Same(r, InReview(r))
           /\ Cancelled(r).status = "CANCELLED" /\ Same(r, Cancelled(r))
           /\ Queued(r).status = "PROCESSING" /\ Same(r, Queued(r))
           /\ Completed(r).status = "DELIVERED" /\ Once(r, Completed(r))
           /\ Refunded(r).status = "REFUNDED" /\ Once(r, Refunded(r))
           /\ Credited(r).status = "CANCELLED" /\ Credited(r).credited
           /\ Credited(r).payouts = r.payouts + 1
           /\ \A t : PaidWith(r, t).status = r.status /\ Same(r, PaidWith(r, t))
<1> USE DEF OrderRec, Same, Once
<1>1. /\ r.status \in Statuses /\ r.payouts \in Nat /\ r.credited \in BOOLEAN
      /\ Underpaid(r).status = "UNDERPAID" /\ Same(r, Underpaid(r))
      /\ InReview(r).status = r.status /\ Same(r, InReview(r))
  BY DEF Underpaid, InReview
<1>2. /\ Cancelled(r).status = "CANCELLED" /\ Same(r, Cancelled(r))
      /\ Queued(r).status = "PROCESSING" /\ Same(r, Queued(r))
  BY DEF Cancelled, Queued
<1>3. /\ Completed(r).status = "DELIVERED" /\ Once(r, Completed(r))
      /\ Refunded(r).status = "REFUNDED" /\ Once(r, Refunded(r))
  BY DEF Completed, Refunded
<1>4. /\ Credited(r).status = "CANCELLED" /\ Credited(r).credited
      /\ Credited(r).payouts = r.payouts + 1
  BY DEF Credited
<1>5. ASSUME NEW t PROVE PaidWith(r, t).status = r.status /\ Same(r, PaidWith(r, t))
  BY DEF PaidWith
<1> QED
  BY <1>1, <1>2, <1>3, <1>4, <1>5

LEMMA RowUpdates ==
    ASSUME NEW r \in LedgerRow
    PROVE  /\ \A x \in Outcomes : Tagged(r, x) \in LedgerRow
           /\ \A o \in Orders : ClaimedFor(r, o) \in LedgerRow
           /\ Unlinked(r) \in LedgerRow
           /\ \A b \in BOOLEAN :
                 [outcome |-> "unmatched", order |-> NoOrder,
                  known |-> b, hint |-> TRUE] \in LedgerRow
BY DEF LedgerRow, Outcomes, Tagged, ClaimedFor, Unlinked

LEMMA RowFields ==
    ASSUME NEW r \in LedgerRow
    PROVE  /\ r.outcome \in Outcomes
           /\ \A x : Tagged(r, x).outcome = x /\ Tagged(r, x).order = r.order
           /\ \A o : ClaimedFor(r, o).outcome = "matched" /\ ClaimedFor(r, o).order = o
           /\ Unlinked(r).outcome = "unmatched"
BY DEF LedgerRow, Tagged, ClaimedFor, Unlinked

LEMMA JobUpdates ==
    /\ NoJob \in Job
    /\ \A t \in Trxs \cup {NoTrx}, o \in Orders :
          [trx |-> t, order |-> o, review |-> FALSE] \in Job
    /\ \A j \in Job, b \in BOOLEAN : [j EXCEPT !.review = b] \in Job
BY DEF NoJob, Job

-----------------------------------------------------------------------------
(* Every step keeps the types.                                             *)
LEMMA TypeStep == TypeOK /\ HasJob /\ [Next]_vars => TypeOK'
<1> SUFFICES ASSUME TypeOK, HasJob, [Next]_vars PROVE TypeOK'
  OBVIOUS
<1> USE SettlementAssumption, OrderUpdates, RowUpdates, JobUpdates
    DEF TypeOK, Outcomes, Steps, Channels, Workers, Goto, Finish, Take
<1>1. ASSUME NEW w \in Workers, GatewayAnswers(w) PROVE TypeOK'
  <2>1. /\ job[w].order \in Orders
        /\ pc[w] # "crediting" => job[w].trx \in Trxs
    BY <1>1 DEF GatewayAnswers, HasJob
  <2> QED
    BY <1>1, <2>1 DEF GatewayAnswers
<1>2. ASSUME NEW w \in Workers, GatewayHidesAmount(w) PROVE TypeOK'
  <2>1. /\ job[w].order \in Orders
        /\ pc[w] # "crediting" => job[w].trx \in Trxs
    BY <1>2 DEF GatewayHidesAmount, HasJob
  <2> QED
    BY <1>2, <2>1 DEF GatewayHidesAmount
<1>3. ASSUME NEW w \in Workers, Park(w) PROVE TypeOK'
  <2>1. /\ job[w].order \in Orders
        /\ pc[w] # "crediting" => job[w].trx \in Trxs
    BY <1>3 DEF Park, HasJob
  <2> QED
    BY <1>3, <2>1 DEF Park, RecordUnmatched
<1>4. ASSUME NEW w \in Workers, RecordShort(w) PROVE TypeOK'
  <2>1. /\ job[w].order \in Orders
        /\ pc[w] # "crediting" => job[w].trx \in Trxs
    BY <1>4 DEF RecordShort, HasJob
  <2> QED
    BY <1>4, <2>1 DEF RecordShort, RecordUnmatched
<1>5. ASSUME NEW w \in Workers, FlagUnderpaid(w) PROVE TypeOK'
  <2>1. /\ job[w].order \in Orders
        /\ pc[w] # "crediting" => job[w].trx \in Trxs
    BY <1>5 DEF FlagUnderpaid, HasJob
  <2> QED
    BY <1>5, <2>1 DEF FlagUnderpaid
<1>6. ASSUME NEW w \in Workers, Claim(w) PROVE TypeOK'
  <2>1. /\ job[w].order \in Orders
        /\ pc[w] # "crediting" => job[w].trx \in Trxs
    BY <1>6 DEF Claim, HasJob
  <2> DEFINE t == job[w].trx
             o == job[w].order
  <2>2. row' = row \/ row' = [row EXCEPT ![t] = ClaimedFor(row[t], o)]
    BY <1>6 DEF Claim, TakeRow
  <2>4. t \in Trxs /\ row[t] \in LedgerRow /\ ClaimedFor(row[t], o) \in LedgerRow
    BY <1>6, <2>1 DEF Claim
  <2>5. row' \in [Trxs -> LedgerRow]
    BY <2>2, <2>4
  <2>3. pc' \in [Workers -> Steps] /\ job' \in [Workers -> Job]
    BY <1>6 DEF Claim
  <2> QED
    BY <1>6, <2>3, <2>5 DEF Claim
<1>7. ASSUME NEW w \in Workers, Reclaim(w) PROVE TypeOK'
  <2>1. /\ job[w].order \in Orders
        /\ pc[w] # "crediting" => job[w].trx \in Trxs
    BY <1>7 DEF Reclaim, HasJob
  <2> QED
    BY <1>7, <2>1 DEF Reclaim, TakeRow
<1>8. ASSUME NEW w \in Workers, Unpayable(w) PROVE TypeOK'
  <2>1. /\ job[w].order \in Orders
        /\ pc[w] # "crediting" => job[w].trx \in Trxs
    BY <1>8 DEF Unpayable, HasJob
  <2>2. row' \in [Trxs -> LedgerRow]
    <3>1. CASE w \in Admins
      BY <1>8, <2>1, <3>1 DEF Unpayable
    <3>2. CASE w \notin Admins
      BY <1>8, <2>1, <3>2 DEF Unpayable
    <3> QED
      BY <3>1, <3>2
  <2> QED
    BY <1>8, <2>2 DEF Unpayable
<1>9. ASSUME NEW w \in Workers, Alert(w) PROVE TypeOK'
  <2>1. /\ job[w].order \in Orders
        /\ pc[w] # "crediting" => job[w].trx \in Trxs
    BY <1>9 DEF Alert, HasJob
  <2> QED
    BY <1>9, <2>1 DEF Alert
<1>10. ASSUME NEW w \in Workers, ReadOrder(w) PROVE TypeOK'
  <2>1. /\ job[w].order \in Orders
        /\ pc[w] # "crediting" => job[w].trx \in Trxs
    BY <1>10 DEF ReadOrder, HasJob
  <2>2. order[job[w].order].review \in BOOLEAN
    BY <2>1 DEF OrderRec
  <2>3. job' \in [Workers -> Job]
    BY <1>10, <2>2 DEF ReadOrder, Job
  <2> QED
    BY <1>10, <2>3 DEF ReadOrder
<1>11. ASSUME NEW w \in Workers, Settle(w) PROVE TypeOK'
  <2>1. /\ job[w].order \in Orders
        /\ pc[w] # "crediting" => job[w].trx \in Trxs
    BY <1>11 DEF Settle, HasJob
  <2> DEFINE t == job[w].trx
             o == job[w].order
  <2>2. t \in Trxs /\ o \in Orders
    BY <1>11, <2>1 DEF Settle
  <2>3. Delivered(o) \in OrderRec
    BY <2>2 DEF Delivered
  <2>4. order' \in [Orders -> OrderRec]
    BY <1>11, <2>2, <2>3 DEF Settle
  <2>5. row' \in [Trxs -> LedgerRow]
    BY <1>11, <2>2 DEF Settle
  <2>6. funded' \in SUBSET (Trxs \X Orders)
    BY <1>11, <2>2 DEF Settle
  <2>7. pc' \in [Workers -> Steps] /\ job' \in [Workers -> Job]
    BY <1>11 DEF Settle, AfterError
  <2> QED
    BY <1>11, <2>4, <2>5, <2>6, <2>7 DEF Settle
<1>12. ASSUME NEW w \in Workers, SettledByOther(w) PROVE TypeOK'
  <2>1. /\ job[w].order \in Orders
        /\ pc[w] # "crediting" => job[w].trx \in Trxs
    BY <1>12 DEF SettledByOther, HasJob
  <2> QED
    BY <1>12, <2>1 DEF SettledByOther
<1>13. ASSUME NEW w \in Workers, SettleFails(w) PROVE TypeOK'
  <2>1. /\ job[w].order \in Orders
        /\ pc[w] # "crediting" => job[w].trx \in Trxs
    BY <1>13 DEF SettleFails, HasJob
  <2> QED
    BY <1>13, <2>1 DEF SettleFails, AfterError
<1>14. ASSUME NEW w \in Workers, Preserve(w) PROVE TypeOK'
  <2>1. /\ job[w].order \in Orders
        /\ pc[w] # "crediting" => job[w].trx \in Trxs
    BY <1>14 DEF Preserve, HasJob
  <2> QED
    BY <1>14, <2>1 DEF Preserve
<1>15. ASSUME NEW w \in Workers, MarkFailed(w) PROVE TypeOK'
  <2>1. /\ job[w].order \in Orders
        /\ pc[w] # "crediting" => job[w].trx \in Trxs
    BY <1>15 DEF MarkFailed, HasJob
  <2> QED
    BY <1>15, <2>1 DEF MarkFailed
<1>16. ASSUME NEW w \in Workers, UndoMatch(w) PROVE TypeOK'
  <2>1. /\ job[w].order \in Orders
        /\ pc[w] # "crediting" => job[w].trx \in Trxs
    BY <1>16 DEF UndoMatch, HasJob
  <2> QED
    BY <1>16, <2>1 DEF UndoMatch
<1>17. ASSUME NEW w \in Workers, CreditAnywayWrite(w) PROVE TypeOK'
  <2>1. /\ job[w].order \in Orders
        /\ pc[w] # "crediting" => job[w].trx \in Trxs
    BY <1>17 DEF CreditAnywayWrite, HasJob
  <2> QED
    BY <1>17, <2>1 DEF CreditAnywayWrite, Funding, ShortOf
<1>18. ASSUME NEW w \in Workers, Crash(w)
      PROVE  TypeOK'
  BY <1>18 DEF Crash
<1>19. ASSUME NEW t \in Trxs, Pay(t)
      PROVE  TypeOK'
  BY <1>19 DEF Pay
<1>20. ASSUME NEW t \in Trxs, Dismiss(t)
      PROVE  TypeOK'
  BY <1>20 DEF Dismiss
<1>21. ASSUME NEW w \in Callbacks, NEW t \in Trxs, CallbackStart(w, t)
      PROVE  TypeOK'
  BY <1>21 DEF CallbackStart
<1>22. ASSUME NEW w \in Pollers, NEW t \in Trxs, PollerStart(w, t)
      PROVE  TypeOK'
  BY <1>22 DEF PollerStart
<1>23. ASSUME NEW w \in Admins, NEW t \in Trxs,
              NEW o \in Orders, MatchStart(w, t, o)
      PROVE  TypeOK'
  BY <1>23 DEF MatchStart
<1>24. ASSUME NEW w \in Admins, NEW o \in Orders, CreditAnywayRead(w, o)
      PROVE  TypeOK'
  BY <1>24 DEF CreditAnywayRead, Topups
<1>25. ASSUME NEW o \in Orders, CancelOrder(o)
      PROVE  TypeOK'
  BY <1>25 DEF CancelOrder, AlertClaimed, MatchedRows
<1>26. ASSUME NEW o \in Orders, CreditToBalance(o)
      PROVE  TypeOK'
  BY <1>26 DEF CreditToBalance, Funding, Evidence, ShortOf
<1>27. ASSUME NEW o \in Orders, FulfillManual(o)
      PROVE  TypeOK'
  BY <1>27 DEF FulfillManual
<1>28. ASSUME NEW o \in Orders, RefundUnderpaid(o)
      PROVE  TypeOK'
  BY <1>28 DEF RefundUnderpaid, Funding, ShortOf
<1>29. ASSUME NEW o \in Orders, DeliverUnderpaid(o)
      PROVE  TypeOK'
  BY <1>29 DEF DeliverUnderpaid, Delivered, Funding, ShortOf
<1>30. ASSUME UNCHANGED vars PROVE TypeOK'
  BY <1>30 DEF vars
<1> QED
  BY <1>1, <1>2, <1>3, <1>4, <1>5, <1>6, <1>7, <1>8, <1>9, <1>10, <1>11,
     <1>12, <1>13, <1>14, <1>15, <1>16, <1>17, <1>18, <1>19, <1>20, <1>21, <1>22,
     <1>23, <1>24, <1>25, <1>26, <1>27, <1>28, <1>29, <1>30
     DEF Next, WorkerStep, ExpireOrder

(* Every working process has a job.                                        *)
LEMMA JobStep == TypeOK /\ HasJob /\ [Next]_vars => HasJob'
<1> SUFFICES ASSUME TypeOK, HasJob, [Next]_vars PROVE HasJob'
  OBVIOUS
<1> USE SettlementAssumption
    DEF TypeOK, Job, HasJob, Steps, NoJob, Workers, Goto, Finish, Take
<1>1. ASSUME NEW w \in Workers, GatewayAnswers(w) PROVE HasJob'
  BY <1>1 DEF GatewayAnswers
<1>2. ASSUME NEW w \in Workers, GatewayHidesAmount(w) PROVE HasJob'
  BY <1>2 DEF GatewayHidesAmount
<1>3. ASSUME NEW w \in Workers, Park(w) PROVE HasJob'
  BY <1>3 DEF Park
<1>4. ASSUME NEW w \in Workers, RecordShort(w) PROVE HasJob'
  BY <1>4 DEF RecordShort
<1>5. ASSUME NEW w \in Workers, FlagUnderpaid(w) PROVE HasJob'
  BY <1>5 DEF FlagUnderpaid
<1>6. ASSUME NEW w \in Workers, Claim(w) PROVE HasJob'
  BY <1>6 DEF Claim
<1>7. ASSUME NEW w \in Workers, Reclaim(w) PROVE HasJob'
  BY <1>7 DEF Reclaim
<1>8. ASSUME NEW w \in Workers, Unpayable(w) PROVE HasJob'
  BY <1>8 DEF Unpayable
<1>9. ASSUME NEW w \in Workers, Alert(w) PROVE HasJob'
  BY <1>9 DEF Alert
<1>10. ASSUME NEW w \in Workers, ReadOrder(w) PROVE HasJob'
  BY <1>10 DEF ReadOrder
<1>11. ASSUME NEW w \in Workers, Settle(w) PROVE HasJob'
  BY <1>11 DEF Settle, AfterError
<1>12. ASSUME NEW w \in Workers, SettledByOther(w) PROVE HasJob'
  BY <1>12 DEF SettledByOther
<1>13. ASSUME NEW w \in Workers, SettleFails(w) PROVE HasJob'
  BY <1>13 DEF SettleFails, AfterError
<1>14. ASSUME NEW w \in Workers, Preserve(w) PROVE HasJob'
  BY <1>14 DEF Preserve
<1>15. ASSUME NEW w \in Workers, MarkFailed(w) PROVE HasJob'
  BY <1>15 DEF MarkFailed
<1>16. ASSUME NEW w \in Workers, UndoMatch(w) PROVE HasJob'
  BY <1>16 DEF UndoMatch
<1>17. ASSUME NEW w \in Workers, CreditAnywayWrite(w) PROVE HasJob'
  BY <1>17 DEF CreditAnywayWrite
<1>18. ASSUME NEW w \in Workers, Crash(w)
      PROVE  HasJob'
  BY <1>18 DEF Crash
<1>19. ASSUME NEW t \in Trxs, Pay(t)
      PROVE  HasJob'
  BY <1>19 DEF Pay
<1>20. ASSUME NEW t \in Trxs, Dismiss(t)
      PROVE  HasJob'
  BY <1>20 DEF Dismiss
<1>21. ASSUME NEW w \in Callbacks, NEW t \in Trxs, CallbackStart(w, t)
      PROVE  HasJob'
  BY <1>21 DEF CallbackStart
<1>22. ASSUME NEW w \in Pollers, NEW t \in Trxs, PollerStart(w, t)
      PROVE  HasJob'
  BY <1>22 DEF PollerStart
<1>23. ASSUME NEW w \in Admins, NEW t \in Trxs,
              NEW o \in Orders, MatchStart(w, t, o)
      PROVE  HasJob'
  BY <1>23 DEF MatchStart
<1>24. ASSUME NEW w \in Admins, NEW o \in Orders, CreditAnywayRead(w, o)
      PROVE  HasJob'
  BY <1>24 DEF CreditAnywayRead
<1>25. ASSUME NEW o \in Orders, CancelOrder(o)
      PROVE  HasJob'
  BY <1>25 DEF CancelOrder
<1>26. ASSUME NEW o \in Orders, CreditToBalance(o)
      PROVE  HasJob'
  BY <1>26 DEF CreditToBalance
<1>27. ASSUME NEW o \in Orders, FulfillManual(o)
      PROVE  HasJob'
  BY <1>27 DEF FulfillManual
<1>28. ASSUME NEW o \in Orders, RefundUnderpaid(o)
      PROVE  HasJob'
  BY <1>28 DEF RefundUnderpaid
<1>29. ASSUME NEW o \in Orders, DeliverUnderpaid(o)
      PROVE  HasJob'
  BY <1>29 DEF DeliverUnderpaid
<1>30. ASSUME UNCHANGED vars PROVE HasJob'
  BY <1>30 DEF vars
<1> QED
  BY <1>1, <1>2, <1>3, <1>4, <1>5, <1>6, <1>7, <1>8, <1>9, <1>10, <1>11,
     <1>12, <1>13, <1>14, <1>15, <1>16, <1>17, <1>18, <1>19, <1>20, <1>21, <1>22,
     <1>23, <1>24, <1>25, <1>26, <1>27, <1>28, <1>29, <1>30
     DEF Next, WorkerStep, ExpireOrder

(* What the services of the shop rest on: types, in every reachable state. *)
TypeInv == TypeOK /\ HasJob

LEMMA TypeInductive == Spec => []TypeInv
<1>1. Init => TypeInv
  <2>1. ASSUME Init PROVE TypeOK
    BY <2>1, SettlementAssumption
       DEF Init, TypeOK, OrderRec, LedgerRow, Statuses, Outcomes, Steps, Job, NoJob
  <2>2. ASSUME Init PROVE HasJob
    BY <2>2 DEF Init, HasJob
  <2> QED
    BY <2>1, <2>2 DEF TypeInv
<1>2. TypeInv /\ [Next]_vars => TypeInv'
  BY TypeStep, JobStep DEF TypeInv
<1> QED
  BY <1>1, <1>2, PTL DEF Spec

(* The types of the model hold of every reachable state, for any set of    *)
(* orders, payments and workers.                                           *)
THEOREM TypeCorrect == Spec => []TypeOK
BY TypeInductive, PTL DEF TypeInv

-----------------------------------------------------------------------------
(* A step moves a product order along the edges of ProductMove.            *)
LEMMA ProductStep ==
    TypeInv /\ [Next]_vars => \A o \in Products : ProductMove(order[o], order'[o])
<1> SUFFICES ASSUME TypeOK, HasJob, [Next]_vars, NEW p \in Products
             PROVE  ProductMove(order[p], order'[p])
  BY DEF TypeInv
<1>0. p \in Orders /\ p \notin Topups /\ order[p] \in OrderRec
  BY SettlementAssumption DEF TypeOK, Topups
<1>f. /\ order[p].status \in Statuses /\ order[p].payouts \in Nat
      /\ order[p].credited \in BOOLEAN
  BY <1>0, OrderFields
<1> USE <1>0 DEF TypeOK, Workers
<1>1. ASSUME order' = order PROVE ProductMove(order[p], order'[p])
  BY <1>1 DEF ProductMove, Same
<1>2. ASSUME NEW w \in Workers, FlagUnderpaid(w)
      PROVE  ProductMove(order[p], order'[p])
  BY <1>2, OrderFields DEF FlagUnderpaid, Status, ProductMove, Same
<1>3. ASSUME NEW w \in Workers, Settle(w) PROVE ProductMove(order[p], order'[p])
  <2>1. CASE p # job[w].order
    BY <1>3, <2>1, <1>1 DEF Settle, ProductMove, Same
  <2>2. CASE p = job[w].order
    <3>1. order[p].status = "PENDING_PAYMENT"
      BY <1>3, <2>2 DEF Settle, Settleable, Status
    <3>2. order'[p] = PaidWith(Delivered(p), job[w].trx)
      BY <1>3, <2>2 DEF Settle
    <3>3. CASE p \in HandMade
      <4>1. Queued(order[p]) \in OrderRec
        BY OrderUpdates
      <4> QED
        BY <3>1, <3>2, <3>3, <4>1, OrderFields DEF Delivered, ProductMove, Same
    <3>4. CASE p \notin HandMade
      <4>1. Completed(order[p]) \in OrderRec
        BY OrderUpdates
      <4> QED
        BY <3>1, <3>2, <3>4, <4>1, OrderFields DEF Delivered, ProductMove, Same, Once
    <3> QED
      BY <3>3, <3>4
  <2> QED
    BY <2>1, <2>2
<1>4. ASSUME NEW w \in Workers, Preserve(w) PROVE ProductMove(order[p], order'[p])
  BY <1>4, OrderFields DEF Preserve, ProductMove, Same
<1>5. ASSUME NEW w \in Workers, CreditAnywayWrite(w)
      PROVE  ProductMove(order[p], order'[p])
  <2>1. p # job[w].order
    BY <1>5 DEF CreditAnywayWrite, HasJob
  <2> QED
    BY <1>5, <2>1 DEF CreditAnywayWrite, ProductMove, Same
<1>6. ASSUME NEW o \in Orders, CancelOrder(o) PROVE ProductMove(order[p], order'[p])
  BY <1>6, OrderFields DEF CancelOrder, MarkedPaid, Status, ProductMove, Same
<1>7. ASSUME NEW o \in Orders, CreditToBalance(o)
      PROVE  ProductMove(order[p], order'[p])
  BY <1>7, OrderFields DEF CreditToBalance, Creditable, Status, ProductMove, Same
<1>8. ASSUME NEW o \in Orders, FulfillManual(o)
      PROVE  ProductMove(order[p], order'[p])
  BY <1>8, OrderFields DEF FulfillManual, Status, ProductMove, Same
<1>9. ASSUME NEW o \in Orders, RefundUnderpaid(o)
      PROVE  ProductMove(order[p], order'[p])
  BY <1>9, OrderFields DEF RefundUnderpaid, Status, ProductMove, Same
<1>10. ASSUME NEW o \in Orders, DeliverUnderpaid(o)
       PROVE  ProductMove(order[p], order'[p])
  BY <1>10, OrderFields DEF DeliverUnderpaid, Delivered, Status, ProductMove, Same
<1>11. CASE UNCHANGED vars
  BY <1>11, <1>1 DEF vars
<1>12. ASSUME NEW w \in Workers, WorkerStep(w)
       PROVE  ProductMove(order[p], order'[p])
  BY <1>12, <1>1, <1>2, <1>3, <1>4, <1>5
     DEF WorkerStep, GatewayAnswers, GatewayHidesAmount, Park, RecordShort, Claim,
         Reclaim, Unpayable, Alert, ReadOrder, SettledByOther, SettleFails,
         MarkFailed, UndoMatch
<1>13. ASSUME \/ \E t \in Trxs : Pay(t) \/ Dismiss(t)
              \/ \E w \in Callbacks, t \in Trxs : CallbackStart(w, t)
              \/ \E w \in Pollers, t \in Trxs : PollerStart(w, t)
              \/ \E w \in Admins, t \in Trxs, o \in Orders : MatchStart(w, t, o)
              \/ \E w \in Admins, o \in Orders : CreditAnywayRead(w, o)
              \/ \E w \in Workers : Crash(w)
       PROVE  ProductMove(order[p], order'[p])
  BY <1>13, <1>1 DEF Pay, Dismiss, CallbackStart, PollerStart, MatchStart,
                     CreditAnywayRead, Crash
<1> QED
  BY <1>6, <1>7, <1>8, <1>9, <1>10, <1>11, <1>12, <1>13 DEF Next, ExpireOrder

(* Along those edges the payouts stay what the status says.                *)
LEMMA PayoutsStep ==
    TypeInv /\ PayoutsMatchStatus /\ [Next]_vars => PayoutsMatchStatus'
<1> SUFFICES ASSUME TypeInv, PayoutsMatchStatus, [Next]_vars, NEW p \in Products
             PROVE  /\ order'[p].payouts = PaidOut(order'[p])
                    /\ order'[p].credited => order'[p].status = "CANCELLED"
  BY DEF PayoutsMatchStatus
<1>1. ProductMove(order[p], order'[p])
  BY ProductStep
<1>2. /\ order[p].payouts = PaidOut(order[p])
      /\ order[p].credited => order[p].status = "CANCELLED"
  BY DEF PayoutsMatchStatus
<1> QED
  BY <1>1, <1>2 DEF ProductMove, Same, Once, PaidOut

(* A product order is delivered, or given back, at most once, whatever the *)
(* number of callbacks, pollers, admins and crashes.                       *)
THEOREM ProductIsPaidOnce == Spec => []ProductPaidOnce
<1>1. Init => PayoutsMatchStatus
  BY SettlementAssumption DEF Init, PayoutsMatchStatus, PaidOut
<1>2. PayoutsMatchStatus => ProductPaidOnce
  BY DEF PayoutsMatchStatus, ProductPaidOnce, PaidOut
<1> QED
  BY <1>1, <1>2, PayoutsStep, TypeInductive, PTL DEF Spec

-----------------------------------------------------------------------------
(* A claim stays with its holder: a claim starts only from an outcome no   *)
(* holder's row has, or from a claimed row without a holder, and then it   *)
(* ends every rival who saw the same row; other writers skip claimed rows. *)
LEMMA ClaimStep == TypeInv /\ ClaimInv /\ [Next]_vars => ClaimInv'
<1> SUFFICES ASSUME TypeInv, ClaimInv, [Next]_vars PROVE ClaimInv'
  OBVIOUS
<1> USE SettlementAssumption, RowFields
    DEF TypeInv, TypeOK, HasJob, ClaimInv, OneHolder, HeldRowIsClaimed, ClaimedForItsOrder,
        ReclaimedIsAbandoned, Holding, Workers, Goto, Finish, Take, NoJob, Actionable
<1>1. ASSUME NEW w \in Workers, GatewayAnswers(w) PROVE ClaimInv'
  <2>1. PICK s \in {"claiming", "recording", "flagging"} : pc' = [pc EXCEPT ![w] = s]
    BY <1>1 DEF GatewayAnswers
  <2>2. row' = row /\ job' = job
    BY <1>1 DEF GatewayAnswers
  <2> QED
    BY <2>1, <2>2
<1>2. ASSUME NEW w \in Workers, GatewayHidesAmount(w) PROVE ClaimInv'
  BY <1>2 DEF GatewayHidesAmount
<1>3. ASSUME NEW w \in Workers, Park(w) PROVE ClaimInv'
  BY <1>3 DEF Park, RecordUnmatched
<1>4. ASSUME NEW w \in Workers, RecordShort(w) PROVE ClaimInv'
  BY <1>4 DEF RecordShort, RecordUnmatched
<1>5. ASSUME NEW w \in Workers, FlagUnderpaid(w) PROVE ClaimInv'
  BY <1>5 DEF FlagUnderpaid
<1>6. ASSUME NEW w \in Workers, Claim(w) PROVE ClaimInv'
  BY <1>6 DEF Claim, TakeRow, Claimable, Abandoned
<1>7. ASSUME NEW w \in Workers, Reclaim(w) PROVE ClaimInv'
  BY <1>7 DEF Reclaim, TakeRow
<1>8. ASSUME NEW w \in Workers, Unpayable(w) PROVE ClaimInv'
  <2>1. /\ pc[w] = "reading" /\ job[w].trx \in Trxs
        /\ \A t \in Trxs : t # job[w].trx => row'[t] = row[t]
        /\ pc' \in {[pc EXCEPT ![w] = "alerting"], [pc EXCEPT ![w] = "idle"]}
        /\ \A v \in Workers : v # w => job'[v] = job[v]
    BY <1>8 DEF Unpayable
  <2> QED
    BY <2>1
<1>9. ASSUME NEW w \in Workers, Alert(w) PROVE ClaimInv'
  BY <1>9 DEF Alert
<1>10. ASSUME NEW w \in Workers, ReadOrder(w) PROVE ClaimInv'
  BY <1>10 DEF ReadOrder
<1>11. ASSUME NEW w \in Workers, Settle(w) PROVE ClaimInv'
  BY <1>11 DEF Settle, AfterError
<1>12. ASSUME NEW w \in Workers, SettledByOther(w) PROVE ClaimInv'
  BY <1>12 DEF SettledByOther
<1>13. ASSUME NEW w \in Workers, SettleFails(w) PROVE ClaimInv'
  BY <1>13 DEF SettleFails, AfterError
<1>14. ASSUME NEW w \in Workers, Preserve(w) PROVE ClaimInv'
  BY <1>14 DEF Preserve
<1>15. ASSUME NEW w \in Workers, MarkFailed(w) PROVE ClaimInv'
  BY <1>15 DEF MarkFailed
<1>16. ASSUME NEW w \in Workers, UndoMatch(w) PROVE ClaimInv'
  BY <1>16 DEF UndoMatch
<1>17. ASSUME NEW w \in Workers, CreditAnywayWrite(w) PROVE ClaimInv'
  BY <1>17 DEF CreditAnywayWrite
<1>18. ASSUME NEW w \in Workers, Crash(w)
      PROVE  ClaimInv'
  BY <1>18 DEF Crash
<1>19. ASSUME NEW t \in Trxs, Pay(t)
      PROVE  ClaimInv'
  BY <1>19 DEF Pay
<1>20. ASSUME NEW t \in Trxs, Dismiss(t)
      PROVE  ClaimInv'
  BY <1>20 DEF Dismiss
<1>21. ASSUME NEW w \in Callbacks, NEW t \in Trxs, CallbackStart(w, t)
      PROVE  ClaimInv'
  BY <1>21 DEF CallbackStart
<1>22. ASSUME NEW w \in Pollers, NEW t \in Trxs, PollerStart(w, t)
      PROVE  ClaimInv'
  BY <1>22 DEF PollerStart
<1>23. ASSUME NEW w \in Admins, NEW t \in Trxs,
              NEW o \in Orders, MatchStart(w, t, o)
      PROVE  ClaimInv'
  BY <1>23 DEF MatchStart
<1>24. ASSUME NEW w \in Admins, NEW o \in Orders, CreditAnywayRead(w, o)
      PROVE  ClaimInv'
  BY <1>24 DEF CreditAnywayRead
<1>25. ASSUME NEW o \in Orders, CancelOrder(o)
      PROVE  ClaimInv'
  BY <1>25 DEF CancelOrder
<1>26. ASSUME NEW o \in Orders, CreditToBalance(o)
      PROVE  ClaimInv'
  BY <1>26 DEF CreditToBalance, Evidence
<1>27. ASSUME NEW o \in Orders, FulfillManual(o)
      PROVE  ClaimInv'
  BY <1>27 DEF FulfillManual
<1>28. ASSUME NEW o \in Orders, RefundUnderpaid(o)
      PROVE  ClaimInv'
  BY <1>28 DEF RefundUnderpaid
<1>29. ASSUME NEW o \in Orders, DeliverUnderpaid(o)
      PROVE  ClaimInv'
  BY <1>29 DEF DeliverUnderpaid
<1>30. ASSUME UNCHANGED vars PROVE ClaimInv'
  BY <1>30 DEF vars
<1> QED
  BY <1>1, <1>2, <1>3, <1>4, <1>5, <1>6, <1>7, <1>8, <1>9, <1>10, <1>11,
     <1>12, <1>13, <1>14, <1>15, <1>16, <1>17, <1>18, <1>19, <1>20, <1>21, <1>22,
     <1>23, <1>24, <1>25, <1>26, <1>27, <1>28, <1>29, <1>30
     DEF Next, WorkerStep, ExpireOrder

LEMMA ClaimInductive == Spec => []ClaimInv
<1>1. Init => ClaimInv
  BY DEF Init, ClaimInv, OneHolder, HeldRowIsClaimed, ClaimedForItsOrder,
         ReclaimedIsAbandoned, Holding
<1> QED
  BY <1>1, ClaimStep, TypeInductive, PTL DEF Spec

(* The claim on a payment has at most one live holder among all callbacks, *)
(* pollers and manual matches, and the row says what the holder settles.   *)
THEOREM ClaimIsHeldOnce == Spec => []ClaimHeldOnce
<1>1. ClaimInv => ClaimHeldOnce
  BY DEF ClaimInv, OneHolder, ClaimedForItsOrder, ClaimHeldOnce, Workers
<1> QED
  BY <1>1, ClaimInductive, PTL

(* What an admin resolved stays resolved: only a claimed row is written by *)
(* a settlement in flight, and only an open row is claimed.                *)
LEMMA ResolvedStep ==
    TypeInv /\ ClaimInv /\ [Next]_vars =>
        \A t \in Trxs : row[t].outcome \in {"credited_to_balance", "dismissed"}
                           => row'[t] = row[t]
<1> SUFFICES ASSUME TypeInv, ClaimInv, [Next]_vars, NEW u \in Trxs,
                    row[u].outcome \in {"credited_to_balance", "dismissed"}
             PROVE  row'[u] = row[u]
  OBVIOUS
<1> USE DEF TypeInv, TypeOK, HasJob, ClaimInv, HeldRowIsClaimed, ClaimedForItsOrder,
            Holding, Workers, Actionable
<1>1. ASSUME row' = row PROVE row'[u] = row[u]
  BY <1>1
<1>2. ASSUME NEW w \in Workers, Park(w) \/ RecordShort(w) PROVE row'[u] = row[u]
  BY <1>2 DEF Park, RecordShort, RecordUnmatched
<1>3. ASSUME NEW w \in Workers, Claim(w) PROVE row'[u] = row[u]
  BY <1>3 DEF Claim, TakeRow, Claimable
<1>4. ASSUME NEW w \in Workers, Reclaim(w) PROVE row'[u] = row[u]
  BY <1>4 DEF Reclaim, TakeRow
<1>5. ASSUME NEW w \in Workers, Unpayable(w) PROVE row'[u] = row[u]
  BY <1>5 DEF Unpayable
<1>6. ASSUME NEW w \in Workers, Settle(w) PROVE row'[u] = row[u]
  BY <1>6 DEF Settle
<1>7. ASSUME NEW w \in Workers, MarkFailed(w) PROVE row'[u] = row[u]
  BY <1>7 DEF MarkFailed
<1>8. ASSUME NEW w \in Workers, UndoMatch(w) PROVE row'[u] = row[u]
  BY <1>8 DEF UndoMatch
<1>9. ASSUME NEW t \in Trxs, Dismiss(t) PROVE row'[u] = row[u]
  BY <1>9 DEF Dismiss
<1>10. ASSUME NEW o \in Orders, CreditToBalance(o) PROVE row'[u] = row[u]
  BY <1>10 DEF CreditToBalance, Evidence
<1>11. ASSUME NEW w \in Workers, WorkerStep(w) \/ Crash(w) PROVE row'[u] = row[u]
  BY <1>11, <1>1, <1>2, <1>3, <1>4, <1>5, <1>6, <1>7, <1>8
     DEF WorkerStep, GatewayAnswers, GatewayHidesAmount, FlagUnderpaid, Alert,
         ReadOrder, SettledByOther, SettleFails, Preserve, CreditAnywayWrite, Crash
<1>12. ASSUME \/ \E t \in Trxs : Pay(t)
              \/ \E w \in Callbacks, t \in Trxs : CallbackStart(w, t)
              \/ \E w \in Pollers, t \in Trxs : PollerStart(w, t)
              \/ \E w \in Admins, t \in Trxs, o \in Orders : MatchStart(w, t, o)
              \/ \E w \in Admins, o \in Orders : CreditAnywayRead(w, o)
              \/ \E o \in Orders : \/ CancelOrder(o) \/ FulfillManual(o)
                                    \/ RefundUnderpaid(o) \/ DeliverUnderpaid(o)
              \/ UNCHANGED vars
       PROVE  row'[u] = row[u]
  BY <1>12, <1>1 DEF Pay, CallbackStart, PollerStart, MatchStart, CreditAnywayRead,
                     CancelOrder, FulfillManual, RefundUnderpaid, DeliverUnderpaid, vars
<1> QED
  BY <1>9, <1>10, <1>11, <1>12 DEF Next, ExpireOrder

(* A cancelled product order is never revived: its stock is gone. And a    *)
(* payment an admin credited or dismissed is never reopened.               *)
THEOREM EndIsFinal == Spec => EndedStaysEnded
<1>1. TypeInv /\ [Next]_vars =>
        \A o \in Products : Status(o) = "CANCELLED" => order'[o].status = "CANCELLED"
  BY ProductStep DEF ProductMove, Status
<1>2. TypeInv /\ ClaimInv /\ [Next]_vars =>
        \A t \in Trxs : row[t].outcome \in {"credited_to_balance", "dismissed"}
                            => row'[t] = row[t]
  BY ResolvedStep
<1> QED
  BY <1>1, <1>2, TypeInductive, ClaimInductive, PTL DEF Spec, EndedStaysEnded
=============================================================================
