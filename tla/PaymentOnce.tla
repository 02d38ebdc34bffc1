----------------------------- MODULE PaymentOnce -----------------------------
(***************************************************************************)
(* What settlement promises a buyer and the shop: a product is handed over *)
(* against money that covers it and was never spent, or against the short  *)
(* payment the shop accepted for it; it is handed over or given back, once *)
(* and never both; and no money is spent on two orders.  There is no       *)
(* ledger, no claim, no worker and no crash here: whatever those do must   *)
(* look like one of these steps, or like nothing.                          *)
(***************************************************************************)
EXTENDS Naturals

CONSTANTS Orders, Products, HandMade, Price, Trxs, Own, Amount

VARIABLES
    state,       \* of each product: open, queued, delivered, returned, cancelled
    paidOut,     \* how often each product, or its price, was handed out
    spent        \* <<t, o>>: money of payment t went into order o

promise == <<state, paidOut, spent>>

Init ==
    /\ state = [o \in Products |-> "open"]
    /\ paidOut = [o \in Products |-> 0]
    /\ spent = {}

(* The money of S goes into o: none of it went into another order.         *)
Spend(S, o) ==
    /\ \A t \in S, p \in Orders : <<t, p>> \in spent => p = o
    /\ spent' = spent \cup (S \X {o})

Becomes(o, s) ==
    /\ state' = [state EXCEPT ![o] = s]
    /\ paidOut' = IF s \in {"delivered", "returned"}
                  THEN [paidOut EXCEPT ![o] = @ + 1] ELSE paidOut

HandOver(o) == Becomes(o, IF o \in HandMade THEN "queued" ELSE "delivered")

(* A payment that covers the price, not spent on anything so far.          *)
Settle(o) ==
    /\ state[o] = "open"
    /\ \E t \in Trxs :
          /\ Amount[t] >= Price[o]
          /\ \A p \in Orders : <<t, p>> \notin spent
          /\ Spend({t}, o)
    /\ HandOver(o)

(* The shop takes what arrived short for this order for the price.         *)
Absorb(o) ==
    /\ state[o] = "open"
    /\ \E S \in SUBSET {t \in Trxs : Own[t] = o /\ Amount[t] < Price[o]} :
          S # {} /\ Spend(S, o)
    /\ HandOver(o)

Complete(o) ==
    /\ state[o] = "queued"
    /\ Becomes(o, "delivered")
    /\ UNCHANGED spent

(* The money goes to the buyer's wallet.  After a cancellation only money  *)
(* that arrived can go back.                                               *)
Return(o) ==
    /\ state[o] \in {"open", "queued", "cancelled"}
    /\ \E S \in SUBSET Trxs : (state[o] = "cancelled" => S # {}) /\ Spend(S, o)
    /\ Becomes(o, "returned")

(* An order is called off only before it was settled.                      *)
Cancel(o) ==
    /\ state[o] = "open"
    /\ Becomes(o, "cancelled")
    /\ UNCHANGED spent

(* Money goes into a wallet through a top-up order.                        *)
TopUp(o) ==
    /\ \E S \in SUBSET Trxs : Spend(S, o)
    /\ UNCHANGED <<state, paidOut>>

Next ==
    \/ \E o \in Products : Settle(o) \/ Absorb(o) \/ Complete(o) \/ Return(o) \/ Cancel(o)
    \/ \E o \in Orders \ Products : TopUp(o)

Spec == Init /\ [][Next]_promise
=============================================================================
