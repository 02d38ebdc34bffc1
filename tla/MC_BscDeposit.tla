--------------------------- MODULE MC_BscDeposit ---------------------------
(***************************************************************************)
(* Instances of BscDeposit for TLC.  d1 pays o1 in full; it would also     *)
(* cover o2 within the overpayment cap, so it fits o2 once o1 no longer    *)
(* waits.  d2 pays o2, and is short of o1 but at least half of it.         *)
(***************************************************************************)
EXTENDS BscDeposit, TLC

CONSTANTS o1, o2, d1, d2

(* The deposits in work are alike (no liveness is checked). *)
Cycles == Permutations(Pollers)

TotalOf  == [o \in Orders |-> IF o = o1 THEN 3 ELSE 2]
CapOf    == [o \in Orders |-> 1]
AmountOf == [d \in Deposits |-> IF d = d1 THEN 3 ELSE 2]
=============================================================================
