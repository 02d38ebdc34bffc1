------------------------ MODULE MC_PaymentSettlement ------------------------
(***************************************************************************)
(* Instances of PaymentSettlement for TLC.  The amounts are chosen so that *)
(* a payment can also cover an order it was not made for: t1 pays the dear *)
(* order o1 in full and would overpay o2 and o3; where t2 is short for o2  *)
(* it still covers o3.  t3 is a second, short payment of o1, for which two *)
(* invoices were made.                                                     *)
(***************************************************************************)
EXTENDS PaymentSettlement, TLC

CONSTANTS o1, o2, o3, t1, t2, t3

PriceOf == [o \in Orders |-> IF o = o1 THEN 3 ELSE IF o = o2 THEN 2 ELSE 1]
OwnOf   == [t \in Trxs |-> IF t = t2 THEN o2 ELSE o1]
InFull  == [t \in Trxs |-> PriceOf[OwnOf[t]]]
Mixed   == [t \in Trxs |-> IF t = t1 THEN PriceOf[o1] ELSE 1]
Short   == [t \in Trxs |-> 1]
=============================================================================
