------------------------------ MODULE Checkout ------------------------------
(***************************************************************************)
(* Checkout, payment and cancellation of orders as the database runs them: *)
(* interactive transactions under READ COMMITTED that meet only at row     *)
(* locks.  One step of this module is one statement that can wait, lose a  *)
(* race or read something another transaction will change; the writes of a *)
(* transaction become visible together, at its commit, and a rollback      *)
(* leaves only its locks to drop.                                          *)
(*                                                                         *)
(*   Requests   checkouts; each creates at most one order, of one unit,    *)
(*              named after it (createOrderFromCart, createOrderDirect,    *)
(*              completeCartOrderWithWalletCredit, completeOrderWith-      *)
(*              WalletCredit)                                              *)
(*   Payments   deliveries of a paid order (approveOrder inside the rail's *)
(*              transaction)                                               *)
(*   Cancels    cancellations of an unpaid order (cancelOrder)             *)
(*                                                                         *)
(* and the admin who marks stock dead or deletes it.  Prices, several      *)
(* currencies, bulk tiers and the quantity of a line are left out: every   *)
(* order asks one unit of one product, at Price, less Discount when it     *)
(* carries the voucher.                                                    *)
(***************************************************************************)
EXTENDS Integers, Sequences, FiniteSets

CONSTANTS
  Requests, Payments, Cancels,
  Buyers, Items,
  Voucher,        \* the voucher's row
  BuyerOf,        \* the buyer of each request
  FromCart,       \* requests that buy the cart; the others buy directly
  ByWallet,       \* requests paid entirely from the wallet
  WithVoucher,    \* requests that carry the voucher code
  Asked,          \* the credit a request paid by gateway asks to spend
  Price, Discount,
  Credit,         \* every wallet's balance at the start
  Limit,          \* the voucher's usageLimit
  MaxWithdrawn,   \* bound: stock items an admin takes away
  NoOne

Workers == Requests \cup Payments \cup Cancels

(* The cart lines of a buyer, locked as one.                               *)
Cart(b) == <<"cart", b>>

Rows == Items \cup Buyers \cup Requests \cup {Voucher}
          \cup {Cart(b) : b \in Buyers}

ASSUME CheckoutAssumption ==
  /\ IsFiniteSet(Buyers)
  /\ BuyerOf \in [Requests -> Buyers]
  /\ FromCart \subseteq Requests
  /\ ByWallet \subseteq Requests
  /\ WithVoucher \subseteq Requests
  /\ Asked \in [Requests -> Nat]
  /\ Price \in Nat /\ Discount \in 0..Price
  /\ Credit \in Nat /\ Limit \in Nat /\ MaxWithdrawn \in Nat
  /\ NoOne \notin Workers \cup Items
  /\ Requests \cap (Payments \cup Cancels) = {}
  /\ Payments \cap Cancels = {}
  /\ Items \cap (Buyers \cup Requests \cup {Voucher}) = {}
  /\ Buyers \cap (Requests \cup {Voucher}) = {}
  /\ Voucher \notin Requests
  /\ \A b \in Buyers : Cart(b) \notin Items \cup Buyers \cup Requests
                                        \cup {Voucher}

VARIABLES
  order,     \* order[r]: status, the stock item its line points at, and the
             \* wallet credit it spent
  stock,     \* stock[i]: status and the order it is reserved for or sold to
  balance,   \* balance[b]: the wallet column of the user row
  journal,   \* journal[b]: the buyer's rows of wallet_transactions
  used,      \* the voucher's usedCount
  redeemed,  \* redeemed[b]: the order of the buyer's redemption row
  full,      \* full[b]: the cart holds its line
  owner,     \* owner[row]: the transaction that locked the row for update
  sharers,   \* sharers[b]: the transactions that hold KEY SHARE on the user
             \* row, which inserting a row that refers to the user takes
  pc, job    \* where each transaction is, and its local variables

committed == <<order, stock, balance, journal, used, redeemed, full>>
locks == <<owner, sharers>>
vars == <<committed, locks, pc, job>>

Min2(m, n) == IF m < n THEN m ELSE n
Total(r) == IF r \in WithVoucher THEN Price - Discount ELSE Price

NoOrder == [status |-> "none", item |-> NoOne, spent |-> 0]
Started(o, i, seen) ==
  [order |-> o, item |-> i, seen |-> seen, spend |-> 0, balance |-> 0]
NoJob == Started(NoOne, NoOne, 0)

Open(o) == order[o].status = "pending"
Exists(o) == order[o].status # "none"

Init ==
  /\ order = [r \in Requests |-> NoOrder]
  /\ stock = [i \in Items |-> [status |-> "available", holder |-> NoOne]]
  /\ balance = [b \in Buyers |-> Credit]
  /\ journal = [b \in Buyers |-> <<>>]
  /\ used = 0
  /\ redeemed = [b \in Buyers |-> NoOne]
  /\ full = [b \in Buyers |-> TRUE]
  /\ owner = [x \in Rows |-> NoOne]
  /\ sharers = [b \in Buyers |-> {}]
  /\ pc = [w \in Workers |-> "idle"]
  /\ job = [w \in Workers |-> NoJob]

-----------------------------------------------------------------------------
(* Row locks.                                                              *)

Ended == {"idle", "session", "done", "rolledback"}
InTransaction(w) == pc[w] \notin Ended

Lock(w, row) == owner' = [owner EXCEPT ![row] = w]
Goto(w, step) == pc' = [pc EXCEPT ![w] = step]
Note(w, j) == job' = [job EXCEPT ![w] = j]

(* Variant: the balance is read without locking the user row.              *)
UserRowUnread(w, b) == TRUE

(* SELECT ... FOR UPDATE of the user row waits for every other transaction *)
(* that holds any lock on it.                                              *)
UserRowFree(w, b) == owner[b] = NoOne /\ sharers[b] \subseteq {w}

(* The end of a transaction drops all its locks and its local variables.   *)
End(w, how) ==
  /\ owner' = [x \in Rows |-> IF owner[x] = w THEN NoOne ELSE owner[x]]
  /\ sharers' = [b \in Buyers |-> sharers[b] \ {w}]
  /\ job' = [job EXCEPT ![w] = NoJob]
  /\ pc' = [pc EXCEPT ![w] = how]

Rollback(w) == End(w, "rolledback") /\ UNCHANGED committed

Free(i) == stock[i].status = "available" /\ owner[i] = NoOne

-----------------------------------------------------------------------------
(* A checkout.                                                             *)

(* The session read, before the transaction, that the handler passes down  *)
(* as user.walletBalance.                                                  *)
ReadSession(r) ==
  /\ pc[r] = "idle"
  /\ Note(r, Started(r, NoOne, balance[BuyerOf[r]]))
  /\ Goto(r, "session")
  /\ UNCHANGED <<committed, locks>>

(* Variant: the cart is read without locking it.                           *)
ReadCart(r) ==
  /\ pc[r] = "session" /\ r \in FromCart
  /\ full[BuyerOf[r]]
  /\ Goto(r, "quote")
  /\ UNCHANGED <<committed, locks, job>>

(* lockCartForCheckout, then the cart is read.                             *)
LockCart(r) ==
  LET cart == Cart(BuyerOf[r]) IN
    /\ pc[r] = "session" /\ r \in FromCart
    /\ owner[cart] = NoOne
    /\ full[BuyerOf[r]]
    /\ Lock(r, cart)
    /\ Goto(r, "quote")
    /\ UNCHANGED <<committed, sharers, job>>

CartIsEmpty(r) ==
  /\ pc[r] = "session" /\ r \in FromCart
  /\ ~full[BuyerOf[r]]
  /\ Rollback(r)

BeginDirect(r) ==
  /\ pc[r] = "session" /\ r \notin FromCart
  /\ Goto(r, "quote")
  /\ UNCHANGED <<committed, locks, job>>

(* The credit the order will spend: the balance the session saw when the   *)
(* wallet pays for all of it, what the buyer asked otherwise; never more   *)
(* than the order costs.                                                   *)
Spend(r) ==
  Min2(IF r \in ByWallet THEN job[r].seen ELSE Asked[r], Total(r))

MayQuote(r) ==
  /\ r \in WithVoucher => redeemed[BuyerOf[r]] = NoOne
  /\ Spend(r) <= job[r].seen

Quote(r) ==
  /\ pc[r] = "quote" /\ MayQuote(r)
  /\ Note(r, [job[r] EXCEPT !.spend = Spend(r)])
  /\ Goto(r, "insert")
  /\ UNCHANGED <<committed, locks>>

QuoteRefused(r) ==
  /\ pc[r] = "quote" /\ ~MayQuote(r)
  /\ Rollback(r)

(* The INSERT of the order: its foreign key takes KEY SHARE on the buyer.  *)
InsertOrder(r) ==
  LET b == BuyerOf[r] IN
    /\ pc[r] = "insert"
    /\ owner[b] = NoOne
    /\ sharers' = [sharers EXCEPT ![b] = @ \cup {r}]
    /\ Goto(r, "reserve")
    /\ UNCHANGED <<committed, owner, job>>

(* The cart path debits the wallet first, the direct path redeems first.   *)
Redeems(r) == r \in WithVoucher
AfterDebit(r) == IF Redeems(r) /\ r \in FromCart THEN "redeem" ELSE "commit"
AfterRedeem(r) ==
  IF job[r].spend > 0 /\ r \notin FromCart THEN "debit" ELSE "commit"
AfterReserve(r) ==
  IF r \in FromCart
  THEN IF job[r].spend > 0 THEN "debit" ELSE AfterDebit(r)
  ELSE IF Redeems(r) THEN "redeem" ELSE AfterRedeem(r)

(* allocateOneAvailableStock: FOR UPDATE SKIP LOCKED, then AVAILABLE to    *)
(* RESERVED.                                                               *)
Reserve(r) ==
  /\ pc[r] = "reserve"
  /\ \E i \in Items :
       /\ Free(i)
       /\ Lock(r, i)
       /\ Note(r, [job[r] EXCEPT !.item = i])
  /\ Goto(r, AfterReserve(r))
  /\ UNCHANGED <<committed, sharers>>

(* Variant: a checkout that finds no stock waits for some.                 *)
OutOfStockWaits(w) ==
  /\ pc[w] = "substitute"
  /\ ~\E i \in Items : Free(i)
  /\ Rollback(w)

OutOfStock(w) ==
  /\ pc[w] \in {"reserve", "substitute"}
  /\ ~\E i \in Items : Free(i)
  /\ Rollback(w)

(* adjustWallet: lock the user row, read the balance, check for overdraw.  *)
LockWallet(w, b, step) ==
  /\ UserRowFree(w, b)
  /\ Lock(w, b)
  /\ Note(w, [job[w] EXCEPT !.balance = balance[b]])
  /\ Goto(w, step)
  /\ UNCHANGED <<committed, sharers>>

(* Variant: the debit trusts the balance the session saw.                  *)
DebitUnchecked(r) ==
  /\ pc[r] = "debit"
  /\ LockWallet(r, BuyerOf[r], AfterDebit(r))

Debit(r) ==
  /\ pc[r] = "debit"
  /\ job[r].spend <= balance[BuyerOf[r]]
  /\ LockWallet(r, BuyerOf[r], AfterDebit(r))

Overdraws(r) ==
  /\ pc[r] = "debit"
  /\ UserRowFree(r, BuyerOf[r])
  /\ job[r].spend > balance[BuyerOf[r]]
  /\ Rollback(r)

(* Variant: the counter is bumped without looking at the limit.            *)
MayRedeemAlways(r) == redeemed[BuyerOf[r]] = NoOne

(* bumpVoucherUsage and the redemption row, unique per voucher and buyer.  *)
MayRedeem(r) == used < Limit /\ redeemed[BuyerOf[r]] = NoOne

Redeem(r) ==
  /\ pc[r] = "redeem"
  /\ owner[Voucher] = NoOne
  /\ MayRedeem(r)
  /\ Lock(r, Voucher)
  /\ Goto(r, AfterRedeem(r))
  /\ UNCHANGED <<committed, sharers, job>>

RedeemRefused(r) ==
  /\ pc[r] = "redeem"
  /\ owner[Voucher] = NoOne
  /\ ~MayRedeem(r)
  /\ Rollback(r)

(* An order the wallet was to pay for in full, and did not.                *)
Owing(r) == r \in ByWallet /\ job[r].spend < Total(r)

StillOwing(r) == pc[r] = "commit" /\ Owing(r) /\ Rollback(r)

(* The two writes of adjustWallet, from the balance it read: the movement, *)
(* then the column.                                                        *)
MoveWallet(b, o, reason, delta, read) ==
  /\ journal' = [journal EXCEPT ![b] = Append(@,
       [order |-> o, reason |-> reason, delta |-> delta,
        after |-> read + delta])]
  /\ balance' = [balance EXCEPT ![b] = read + delta]

(* The commit: the order, its reservation, the debit, the redemption and   *)
(* the emptied cart appear together.  An order with nothing left to        *)
(* collect was settled on the way: its unit is sold.                       *)
CommitOrder(r) ==
  LET b == BuyerOf[r]
      j == job[r]
      paid == j.spend = Total(r)
  IN
    /\ pc[r] = "commit" /\ ~Owing(r)
    /\ order' = [order EXCEPT ![r] =
         [status |-> IF paid THEN "delivered" ELSE "pending",
          item |-> j.item, spent |-> j.spend]]
    /\ stock' = [stock EXCEPT ![j.item] =
         [status |-> IF paid THEN "sold" ELSE "reserved", holder |-> r]]
    /\ IF j.spend > 0
       THEN MoveWallet(b, r, "order_payment", -j.spend, j.balance)
       ELSE UNCHANGED <<balance, journal>>
    /\ IF Redeems(r)
       THEN used' = used + 1 /\ redeemed' = [redeemed EXCEPT ![b] = r]
       ELSE UNCHANGED <<used, redeemed>>
    /\ full' = [full EXCEPT ![b] = @ /\ r \notin FromCart]
    /\ End(r, "done")

-----------------------------------------------------------------------------
(* The delivery of a paid order.                                           *)

Rewrite(o, status, item) ==
  order' = [order EXCEPT ![o] =
    [status |-> status, item |-> item, spent |-> order[o].spent]]

(* The order row is claimed by a conditional update; approveOrder then     *)
(* walks the line it read.                                                 *)
ClaimOrder(p, o) ==
  /\ pc[p] = "idle"
  /\ Open(o) /\ owner[o] = NoOne
  /\ Lock(p, o)
  /\ Note(p, Started(o, order[o].item, 0))
  /\ Goto(p, "sell")
  /\ UNCHANGED <<committed, sharers>>

HeldFor(i, o) == stock[i].status = "reserved" /\ stock[i].holder = o

(* Variant: the row is sold as the snapshot showed it.                     *)
SellSnapshot(p) ==
  /\ pc[p] = "sell"
  /\ owner[job[p].item] = NoOne
  /\ Lock(p, job[p].item)
  /\ Goto(p, "commit")
  /\ UNCHANGED <<committed, sharers, job>>

(* sellIfStillHeld: the update waits for the row, then looks again.        *)
SellHeld(p) ==
  /\ pc[p] = "sell"
  /\ owner[job[p].item] = NoOne
  /\ HeldFor(job[p].item, job[p].order)
  /\ Lock(p, job[p].item)
  /\ Goto(p, "commit")
  /\ UNCHANGED <<committed, sharers, job>>

LostIt(p) ==
  /\ pc[p] = "sell"
  /\ owner[job[p].item] = NoOne
  /\ ~HeldFor(job[p].item, job[p].order)
  /\ Goto(p, "substitute")
  /\ UNCHANGED <<committed, locks, job>>

Substitute(p) ==
  /\ pc[p] = "substitute"
  /\ \E i \in Items :
       /\ Free(i)
       /\ Lock(p, i)
       /\ Note(p, [job[p] EXCEPT !.item = i])
  /\ Goto(p, "commit")
  /\ UNCHANGED <<committed, sharers>>

CommitDelivery(p) ==
  LET o == job[p].order
      i == job[p].item
  IN
    /\ pc[p] = "commit"
    /\ Rewrite(o, "delivered", i)
    /\ stock' = [stock EXCEPT ![i] = [status |-> "sold", holder |-> o]]
    /\ End(p, "done")
    /\ UNCHANGED <<balance, journal, used, redeemed, full>>

-----------------------------------------------------------------------------
(* The cancellation of an unpaid order: cancelOrder and releaseOrderHolds. *)

LockOrder(c, o) ==
  /\ pc[c] = "idle"
  /\ Open(o) /\ owner[o] = NoOne
  /\ Lock(c, o)
  /\ Note(c, Started(o, order[o].item, 0))
  /\ Goto(c, "release")
  /\ UNCHANGED <<committed, sharers>>

AfterRefund(c) == IF job[c].order \in WithVoucher THEN "giveback" ELSE "commit"
AfterRelease(c) ==
  IF order[job[c].order].spent > 0 THEN "refund" ELSE AfterRefund(c)

(* Variant: the reservation is left behind, only the line's pointer goes.  *)
ReleasePointer(c) ==
  /\ pc[c] = "release"
  /\ Note(c, [job[c] EXCEPT !.item = NoOne])
  /\ Goto(c, AfterRelease(c))
  /\ UNCHANGED <<committed, locks>>

ReleaseItem(c) ==
  /\ pc[c] = "release"
  /\ owner[job[c].item] = NoOne
  /\ IF HeldFor(job[c].item, job[c].order)
     THEN Lock(c, job[c].item) /\ UNCHANGED job
     ELSE /\ Note(c, [job[c] EXCEPT !.item = NoOne])
          /\ UNCHANGED owner
  /\ Goto(c, AfterRelease(c))
  /\ UNCHANGED <<committed, sharers>>

Refund(c) ==
  /\ pc[c] = "refund"
  /\ LockWallet(c, BuyerOf[job[c].order], AfterRefund(c))

GiveBackUse(c) ==
  /\ pc[c] = "giveback"
  /\ owner[Voucher] = NoOne
  /\ Lock(c, Voucher)
  /\ Goto(c, "commit")
  /\ UNCHANGED <<committed, sharers, job>>

CommitCancel(c) ==
  LET o == job[c].order
      b == BuyerOf[o]
      i == job[c].item
      spent == order[o].spent
  IN
    /\ pc[c] = "commit"
    /\ Rewrite(o, "cancelled", NoOne)
    /\ stock' = IF i = NoOne THEN stock ELSE
         [stock EXCEPT ![i] = [status |-> "available", holder |-> NoOne]]
    /\ IF spent > 0
       THEN MoveWallet(b, o, "order_refund", spent, job[c].balance)
       ELSE UNCHANGED <<balance, journal>>
    /\ IF o \in WithVoucher
       THEN /\ used' = IF used > 0 THEN used - 1 ELSE used
            /\ redeemed' = [redeemed EXCEPT ![b] = NoOne]
       ELSE UNCHANGED <<used, redeemed>>
    /\ End(c, "done")
    /\ UNCHANGED full

-----------------------------------------------------------------------------
(* The admin's single-row transactions.                                    *)

Withdrawn == {i \in Items : stock[i].status \in {"dead", "deleted"}}
MayWithdraw(i) == owner[i] = NoOne /\ Cardinality(Withdrawn) < MaxWithdrawn

Withdraw(i, status) ==
  /\ stock' = [stock EXCEPT ![i] =
       [status |-> status, holder |-> stock[i].holder]]
  /\ UNCHANGED <<order, balance, journal, used, redeemed, full>>
  /\ UNCHANGED <<locks, pc, job>>

MarkDead(i) ==
  /\ MayWithdraw(i)
  /\ stock[i].status \in {"available", "reserved"}
  /\ Withdraw(i, "dead")

PointedAt(i) == \E o \in Requests : order[o].item = i

SoftDelete(i) ==
  /\ MayWithdraw(i)
  /\ stock[i].status \notin {"sold", "deleted"} /\ ~PointedAt(i)
  /\ Withdraw(i, "deleted")

-----------------------------------------------------------------------------
(* Waiting.                                                                *)

WaitsForRow(w) ==
  CASE pc[w] = "session" /\ w \in FromCart -> {owner[Cart(BuyerOf[w])]}
    [] pc[w] = "insert" -> {owner[BuyerOf[w]]}
    [] pc[w] = "debit" -> {owner[BuyerOf[w]]} \cup sharers[BuyerOf[w]]
    [] pc[w] = "refund" -> LET b == BuyerOf[job[w].order]
                           IN {owner[b]} \cup sharers[b]
    [] pc[w] \in {"redeem", "giveback"} -> {owner[Voucher]}
    [] pc[w] \in {"sell", "release"} -> {owner[job[w].item]}
    [] OTHER -> {}

WaitsFor(w) == WaitsForRow(w) \ {w, NoOne}

(* A circle of transactions, each waiting for another of them.             *)
InDeadlock(w) ==
  \E S \in SUBSET {x \in Workers : WaitsFor(x) # {}} :
    /\ w \in S
    /\ \A x \in S : WaitsFor(x) \cap S # {}
    /\ \A T \in SUBSET S \ {{}, S} :
         \E x \in T : WaitsFor(x) \cap (S \ T) # {}

(* PostgreSQL finds the circle and aborts one of them.                     *)
DeadlockVictim(w) == InDeadlock(w) /\ Rollback(w)

(* The process dies, the connection drops, or the transaction outlives the *)
(* client's 10 s: the database rolls it back.                              *)
Abort(w) == InTransaction(w) /\ Rollback(w)

-----------------------------------------------------------------------------
RequestStep(r) ==
  \/ ReadSession(r) \/ LockCart(r) \/ CartIsEmpty(r) \/ BeginDirect(r)
  \/ Quote(r) \/ QuoteRefused(r) \/ InsertOrder(r)
  \/ Reserve(r) \/ OutOfStock(r)
  \/ Debit(r) \/ Overdraws(r) \/ Redeem(r) \/ RedeemRefused(r)
  \/ StillOwing(r) \/ CommitOrder(r) \/ DeadlockVictim(r)

PaymentStep(p) ==
  \/ SellHeld(p) \/ LostIt(p) \/ Substitute(p) \/ OutOfStock(p)
  \/ CommitDelivery(p)

CancelStep(c) ==
  \/ ReleaseItem(c) \/ Refund(c) \/ GiveBackUse(c) \/ CommitCancel(c)

Next ==
  \/ \E r \in Requests : RequestStep(r)
  \/ \E p \in Payments : PaymentStep(p) \/ \E o \in Requests : ClaimOrder(p, o)
  \/ \E c \in Cancels : CancelStep(c) \/ \E o \in Requests : LockOrder(c, o)
  \/ \E w \in Workers : Abort(w)
  \/ \E i \in Items : MarkDead(i) \/ SoftDelete(i)

Spec == Init /\ [][Next]_vars

(* The process runs a transaction it began; the database wakes a waiter    *)
(* whose row is free and breaks a deadlock.                                *)
Fairness ==
  /\ \A r \in Requests : WF_vars(pc[r] # "idle" /\ RequestStep(r))
  /\ \A p \in Payments : WF_vars(PaymentStep(p))
  /\ \A c \in Cancels : WF_vars(CancelStep(c))

FairSpec == Spec /\ Fairness

-----------------------------------------------------------------------------
(* Properties.                                                             *)

Steps == {"idle", "session", "quote", "insert", "reserve", "debit", "redeem",
          "sell", "substitute", "release", "refund", "giveback", "commit",
          "done", "rolledback"}

OrderType == [status : {"none", "pending", "delivered", "cancelled"},
              item : Items \cup {NoOne}, spent : Nat]
StockType == [status : {"available", "reserved", "sold", "dead", "deleted"},
              holder : Requests \cup {NoOne}]
JobType == [order : Requests \cup {NoOne}, item : Items \cup {NoOne},
            seen : Nat, spend : Nat, balance : Nat]
MovementType == [order : Requests,
                 reason : {"order_payment", "order_refund"},
                 delta : Int, after : Nat]

(* Every variable keeps its type; in particular no balance and no use      *)
(* count ever goes below zero, whatever was read before the row was        *)
(* locked: the overdraw check of adjustWallet, the guarded decrement of    *)
(* releaseVoucherUse.                                                      *)
TypeOK ==
  /\ order \in [Requests -> OrderType]
  /\ stock \in [Items -> StockType]
  /\ balance \in [Buyers -> Nat]
  /\ journal \in [Buyers -> Seq(MovementType)]
  /\ used \in Nat
  /\ redeemed \in [Buyers -> Requests \cup {NoOne}]
  /\ full \in [Buyers -> BOOLEAN]
  /\ owner \in [Rows -> Workers \cup {NoOne}]
  /\ sharers \in [Buyers -> SUBSET Workers]
  /\ pc \in [Workers -> Steps]
  /\ job \in [Workers -> JobType]

(* Stock and orders agree: an item is reserved exactly for the open order  *)
(* whose line points at it, sold exactly to the delivered order whose line *)
(* points at it; an open order's item is still held for it unless an admin *)
(* declared it dead.  So no two orders hold or get the same item, and no   *)
(* reservation outlives its order (allocateOneAvailableStock,              *)
(* releaseOrderHolds, approveOrder).                                       *)
ItemsMatchOrders ==
  /\ \A i \in Items : LET o == stock[i].holder IN
       /\ stock[i].status = "reserved" =>
            o \in Requests /\ Open(o) /\ order[o].item = i
       /\ stock[i].status = "sold" =>
            /\ o \in Requests /\ order[o].status = "delivered"
            /\ order[o].item = i
  /\ \A o \in Requests : LET i == order[o].item IN
       /\ Open(o) => /\ i \in Items /\ stock[i].holder = o
                     /\ stock[i].status \in {"reserved", "dead"}
       /\ order[o].status = "delivered" =>
            i \in Items /\ stock[i].holder = o /\ stock[i].status = "sold"

(* The journal rebuilds every wallet: each row continues from the balance  *)
(* the row before it left, and the last one left the balance the wallet    *)
(* has.  So no movement was overwritten by one that read the balance       *)
(* before it (adjustWallet's lock), and the deltas sum to the balance.     *)
WalletIsItsJournal ==
  \A b \in Buyers :
    LET rows == journal[b]
        Left(k) == IF k = 0 THEN Credit ELSE rows[k].after
    IN /\ \A k \in 1..Len(rows) : rows[k].after = Left(k - 1) + rows[k].delta
       /\ balance[b] = Left(Len(rows))

(* The voucher's counter is the number of buyers whose use stands, within  *)
(* its limit, and each of them has an order that is still open or was      *)
(* delivered (bumpVoucherUsage, releaseVoucherUse).                        *)
UsesAreCounted ==
  /\ used = Cardinality({b \in Buyers : redeemed[b] # NoOne})
  /\ used <= Limit
  /\ \A b \in Buyers : redeemed[b] # NoOne =>
       /\ BuyerOf[redeemed[b]] = b
       /\ order[redeemed[b]].status \in {"pending", "delivered"}
  /\ \A o \in WithVoucher : order[o].status \in {"pending", "delivered"} =>
       redeemed[BuyerOf[o]] = o

(* One cart becomes at most one order, however often its checkout is       *)
(* submitted (lockCartForCheckout).                                        *)
OneOrderPerCart ==
  \A r, s \in FromCart :
    r # s /\ BuyerOf[r] = BuyerOf[s] => ~(Exists(r) /\ Exists(s))

(* The transactions are serialisable: whatever they read before they had   *)
(* the row, and however they interleave, wait, abort or deadlock, what is  *)
(* committed changes as in a shop that does one operation at a time.       *)
Shop == INSTANCE AtomicShop
ShopKept == Shop!Spec

(* Every checkout is answered: none that began stays waiting for a row     *)
(* for ever.                                                               *)
EveryCheckoutEnds ==
  <>[](\A r \in Requests : pc[r] \in {"idle", "done", "rolledback"})
=============================================================================
