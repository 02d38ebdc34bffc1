----------------------------- MODULE MC_Checkout -----------------------------
(* One buyer, b1, submits the cart twice, once to pay from the wallet, and *)
(* buys directly with the voucher; another buyer, b2, wants the voucher's  *)
(* last use and pays for the rest by gateway.                              *)
EXTENDS Checkout, TLC

CONSTANTS cart1, cart2, direct1, direct2, p1, c1, b1, b2, i1, i2, v

McBuyerOf ==
  cart1 :> b1 @@ cart2 :> b1 @@ direct1 :> b1 @@ direct2 :> b2
McAsked ==
  cart1 :> 0 @@ cart2 :> 0 @@ direct1 :> 1 @@ direct2 :> 0
==============================================================================
