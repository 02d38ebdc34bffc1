----------------------------- MODULE AtomicShop -----------------------------
(***************************************************************************)
(* What checkout promises: orders, stock, wallets, the voucher and carts   *)
(* change as if every operation ran alone, in one step that looks only at  *)
(* what is committed at that moment.  There are no locks, no sessions and  *)
(* nothing read earlier; an operation that is refused, aborted or chosen   *)
(* as a deadlock's victim is a step that did not happen.                   *)
(***************************************************************************)
EXTENDS Integers, Sequences

CONSTANTS
  Requests, Buyers, Items, BuyerOf, FromCart, ByWallet, WithVoucher,
  Asked, Price, Discount, Credit, Limit, NoOne

VARIABLES order, stock, balance, journal, used, redeemed, full

shop == <<order, stock, balance, journal, used, redeemed, full>>

Init ==
  /\ order = [r \in Requests |-> [status |-> "none", item |-> NoOne, spent |-> 0]]
  /\ stock = [i \in Items |-> [status |-> "available", holder |-> NoOne]]
  /\ balance = [b \in Buyers |-> Credit]
  /\ journal = [b \in Buyers |-> <<>>]
  /\ used = 0
  /\ redeemed = [b \in Buyers |-> NoOne]
  /\ full = [b \in Buyers |-> TRUE]

Cost(r) == IF r \in WithVoucher THEN Price - Discount ELSE Price

(* The credit the buyer is asked for: all of it, or what was asked for up  *)
(* to the cost.                                                            *)
Due(r) == IF r \in ByWallet \/ Asked[r] >= Cost(r) THEN Cost(r) ELSE Asked[r]

(* A wallet moves with its journal row, and never below zero.              *)
Move(b, o, reason, delta) ==
  IF delta = 0 THEN UNCHANGED <<balance, journal>>
  ELSE /\ balance[b] + delta >= 0
       /\ balance' = [balance EXCEPT ![b] = @ + delta]
       /\ journal' = [journal EXCEPT ![b] = Append(@,
            [order |-> o, reason |-> reason, delta |-> delta,
             after |-> balance[b] + delta])]

Becomes(o, status, item, spent) ==
  order' = [order EXCEPT ![o] = [status |-> status, item |-> item, spent |-> spent]]
Put(i, status, holder) ==
  stock' = [stock EXCEPT ![i] = [status |-> status, holder |-> holder]]

(* A checkout: an order that does not exist yet, for a cart that is full,  *)
(* with a use of the voucher that is left to its buyer, takes a unit that  *)
(* is available; one with nothing to collect is delivered at once.         *)
Place(r) ==
  LET b == BuyerOf[r]
      paid == Due(r) = Cost(r)
  IN
    /\ order[r].status = "none"
    /\ r \in FromCart => full[b]
    /\ r \in WithVoucher => used < Limit /\ redeemed[b] = NoOne
    /\ \E i \in Items :
         /\ stock[i].status = "available"
         /\ Becomes(r, IF paid THEN "delivered" ELSE "pending", i, Due(r))
         /\ Put(i, IF paid THEN "sold" ELSE "reserved", r)
    /\ Move(b, r, "order_payment", -Due(r))
    /\ used' = IF r \in WithVoucher THEN used + 1 ELSE used
    /\ redeemed' = IF r \in WithVoucher THEN [redeemed EXCEPT ![b] = r] ELSE redeemed
    /\ full' = IF r \in FromCart THEN [full EXCEPT ![b] = FALSE] ELSE full

(* A paid order gets the unit reserved for it, or, only if that one died,  *)
(* another that is available.                                              *)
Deliver(o) ==
  /\ order[o].status = "pending"
  /\ \E i \in Items :
       /\ \/ i = order[o].item /\ stock[i] = [status |-> "reserved", holder |-> o]
          \/ stock[i].status = "available" /\ stock[order[o].item].status = "dead"
       /\ Becomes(o, "delivered", i, order[o].spent)
       /\ Put(i, "sold", o)
  /\ UNCHANGED <<balance, journal, used, redeemed, full>>

(* A cancelled order gives back its unit, unless it died, the credit it    *)
(* spent and its use of the voucher.                                       *)
Cancel(o) ==
  LET b == BuyerOf[o]
      i == order[o].item
  IN
    /\ order[o].status = "pending"
    /\ Becomes(o, "cancelled", NoOne, order[o].spent)
    /\ IF stock[i].status = "dead" THEN UNCHANGED stock ELSE Put(i, "available", NoOne)
    /\ Move(b, o, "order_refund", order[o].spent)
    /\ used' = IF o \in WithVoucher THEN used - 1 ELSE used
    /\ redeemed' = IF o \in WithVoucher THEN [redeemed EXCEPT ![b] = NoOne] ELSE redeemed
    /\ UNCHANGED full

(* An admin takes a unit away: never a sold one, and for good only one no  *)
(* order names.                                                            *)
TakeAway(i) ==
  /\ \/ /\ stock[i].status \in {"available", "reserved"}
        /\ Put(i, "dead", stock[i].holder)
     \/ /\ stock[i].status \notin {"sold", "deleted"}
        /\ \A o \in Requests : order[o].item # i
        /\ Put(i, "deleted", stock[i].holder)
  /\ UNCHANGED <<order, balance, journal, used, redeemed, full>>

Next ==
  \/ \E o \in Requests : Place(o) \/ Deliver(o) \/ Cancel(o)
  \/ \E i \in Items : TakeAway(i)

Spec == Init /\ [][Next]_shop
=============================================================================
