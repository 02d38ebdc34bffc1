-------------------------- MODULE GatewaySlotProofs --------------------------
(***************************************************************************)
(* Proofs about GatewaySlot for any number of page loads and checkouts,    *)
(* any TTL and, where TimelyCalls is assumed, any call limit below it.     *)
(*                                                                         *)
(* SingleCaller is not inductive: that a swap cannot displace a live       *)
(* caller rests on the age of the claim it read.  IInv adds the three      *)
(* facts the argument needs: who holds the slot is who stamped it, a live  *)
(* claim is young, and a claim being swapped out was old when it was read. *)
(***************************************************************************)
EXTENDS GatewaySlot, TLAPS

HolderOwnsSlot ==
    \A c \in Callers : phase[c] \in Holding => paymentRef = Claim(stamp[c])

LiveClaimIsYoung ==
    \A c \in Callers :
        phase[c] \in {"claiming", "rereading", "swapping"} \cup Holding
            => clock - stamp[c] <= CallLimit

SwapTargetIsStale ==
    \A c \in Callers : phase[c] = "swapping" => clock - seen[c] >= TTL

IInv ==
    /\ TypeOK
    /\ SingleCaller
    /\ HolderOwnsSlot
    /\ LiveClaimIsYoung
    /\ SwapTargetIsStale

-----------------------------------------------------------------------------
(* Every step keeps the types: the slot holds null, a sentinel with a       *)
(* natural time stamp or an invoice, whatever the callers do.               *)
LEMMA TypeStep == TypeOK /\ [Next]_vars => TypeOK'
<1> SUFFICES ASSUME TypeOK, [Next]_vars PROVE TypeOK'
  OBVIOUS
<1> USE SlotAssumption DEF TypeOK, Phases, Null, Claim, Invoice, Goto
<1>1. ASSUME NEW c \in Callers, Begin(c) PROVE TypeOK'
  BY <1>1 DEF Begin
<1>2. ASSUME NEW c \in Callers, ClaimNull(c) PROVE TypeOK'
  BY <1>2 DEF ClaimNull
<1>3. ASSUME NEW c \in Callers, Reread(c) PROVE TypeOK'
  BY <1>3 DEF Reread
<1>4. ASSUME NEW c \in Callers, SwapStale(c) PROVE TypeOK'
  BY <1>4 DEF SwapStale
<1>5. ASSUME NEW c \in Callers, CallSucceeds(c) PROVE TypeOK'
  BY <1>5 DEF CallSucceeds
<1>6. ASSUME NEW c \in Callers, CallFails(c) PROVE TypeOK'
  BY <1>6 DEF CallFails
<1>7. ASSUME NEW c \in Callers, CommitResult(c) PROVE TypeOK'
  BY <1>7 DEF CommitResult
<1>8. ASSUME NEW c \in Callers, Release(c) PROVE TypeOK'
  BY <1>8 DEF Release
<1>9. ASSUME NEW c \in Callers, Crash(c) PROVE TypeOK'
  BY <1>9 DEF Crash
<1>10. ASSUME NEW c \in Checkouts, CancelShell(c) PROVE TypeOK'
  BY <1>10 DEF CancelShell
<1>11. ASSUME Tick PROVE TypeOK'
  BY <1>11 DEF Tick
<1>12. ASSUME UNCHANGED vars PROVE TypeOK'
  BY <1>12 DEF vars
<1>13. QED
  BY <1>1, <1>2, <1>3, <1>4, <1>5, <1>6, <1>7, <1>8, <1>9, <1>10, <1>11,
     <1>12 DEF Next, CallerStep

(* The type invariant of the slot and its callers. *)
THEOREM TypeCorrect == Spec => []TypeOK
<1>1. Init => TypeOK
  BY DEF Init, TypeOK, Null, Phases
<1>2. QED
  BY <1>1, TypeStep, PTL DEF Spec

-----------------------------------------------------------------------------
LEMMA InitIInv == Init => IInv
  BY SlotAssumption
     DEF Init, IInv, TypeOK, SingleCaller, HolderOwnsSlot, LiveClaimIsYoung,
         SwapTargetIsStale, Phases, Holding, Null, Callers

(* The heart of the argument: when a caller takes the slot, from null or    *)
(* from a stale sentinel, no live caller holds it.                          *)
LEMMA NullSlotHasNoHolder ==
    ASSUME IInv, paymentRef = Null
    PROVE  \A d \in Callers : phase[d] \notin Holding
  BY DEF IInv, HolderOwnsSlot, Null, Claim

LEMMA StaleSlotHasNoHolder ==
    ASSUME TimelyCalls, IInv, NEW c \in Callers, phase[c] = "swapping",
           paymentRef = Claim(seen[c])
    PROVE  \A d \in Callers : phase[d] \notin Holding
<1> SUFFICES ASSUME NEW d \in Callers, phase[d] \in Holding PROVE FALSE
  OBVIOUS
<1>1. stamp[d] = seen[c]
  BY DEF IInv, HolderOwnsSlot, Claim
<1>2. clock - stamp[d] <= CallLimit /\ clock - seen[c] >= TTL
  BY DEF IInv, LiveClaimIsYoung, SwapTargetIsStale
<1>3. clock \in Nat /\ stamp[d] \in Nat
  BY DEF IInv, TypeOK
<1>4. QED
  BY <1>1, <1>2, <1>3, SlotAssumption DEF SlotAssumption, TimelyCalls

LEMMA IInvStep == TimelyCalls /\ IInv /\ [Next]_vars => IInv'
<1> SUFFICES ASSUME TimelyCalls, IInv, [Next]_vars PROVE IInv'
  OBVIOUS
<1>0. TypeOK'
  BY TypeStep DEF IInv
<1>1. ASSUME NEW c \in Callers, Begin(c) PROVE IInv'
  BY <1>0, <1>1, SlotAssumption
     DEF Begin, Goto, IInv, TypeOK, SingleCaller, HolderOwnsSlot,
         LiveClaimIsYoung, SwapTargetIsStale, Holding
<1>2. ASSUME NEW c \in Callers, ClaimNull(c) PROVE IInv'
  <2>1. CASE paymentRef = Null
    BY <1>0, <1>2, <2>1, NullSlotHasNoHolder
       DEF ClaimNull, Goto, IInv, TypeOK, SingleCaller, HolderOwnsSlot,
           LiveClaimIsYoung, SwapTargetIsStale, Holding
  <2>2. CASE paymentRef # Null
    BY <1>0, <1>2, <2>2
       DEF ClaimNull, Goto, IInv, TypeOK, SingleCaller, HolderOwnsSlot,
           LiveClaimIsYoung, SwapTargetIsStale, Holding
  <2>3. QED
    BY <2>1, <2>2
<1>3. ASSUME NEW c \in Callers, Reread(c) PROVE IInv'
  BY <1>0, <1>3
     DEF Reread, Goto, IInv, TypeOK, SingleCaller, HolderOwnsSlot,
         LiveClaimIsYoung, SwapTargetIsStale, Holding
<1>4. ASSUME NEW c \in Callers, SwapStale(c) PROVE IInv'
  <2>1. CASE paymentRef = Claim(seen[c])
    <3>1. \A d \in Callers : phase[d] \notin Holding
      BY <1>4, <2>1, StaleSlotHasNoHolder DEF SwapStale
    <3>2. QED
      BY <1>0, <1>4, <2>1, <3>1
         DEF SwapStale, Goto, IInv, TypeOK, SingleCaller, HolderOwnsSlot,
             LiveClaimIsYoung, SwapTargetIsStale, Holding
  <2>2. CASE paymentRef # Claim(seen[c])
    BY <1>0, <1>4, <2>2
       DEF SwapStale, Goto, IInv, TypeOK, SingleCaller, HolderOwnsSlot,
           LiveClaimIsYoung, SwapTargetIsStale, Holding
  <2>3. QED
    BY <2>1, <2>2
<1>5. ASSUME NEW c \in Callers, CallSucceeds(c) PROVE IInv'
  BY <1>0, <1>5
     DEF CallSucceeds, Goto, IInv, TypeOK, SingleCaller, HolderOwnsSlot,
         LiveClaimIsYoung, SwapTargetIsStale, Holding
<1>6. ASSUME NEW c \in Callers, CallFails(c) PROVE IInv'
  BY <1>0, <1>6
     DEF CallFails, Goto, IInv, TypeOK, SingleCaller, HolderOwnsSlot,
         LiveClaimIsYoung, SwapTargetIsStale, Holding
<1>7. ASSUME NEW c \in Callers, CommitResult(c) PROVE IInv'
  BY <1>0, <1>7
     DEF CommitResult, Goto, IInv, TypeOK, SingleCaller, HolderOwnsSlot,
         LiveClaimIsYoung, SwapTargetIsStale, Holding
<1>8. ASSUME NEW c \in Callers, Release(c) PROVE IInv'
  BY <1>0, <1>8
     DEF Release, Goto, IInv, TypeOK, SingleCaller, HolderOwnsSlot,
         LiveClaimIsYoung, SwapTargetIsStale, Holding
<1>9. ASSUME NEW c \in Callers, Crash(c) PROVE IInv'
  BY <1>0, <1>9
     DEF Crash, Goto, IInv, TypeOK, SingleCaller, HolderOwnsSlot,
         LiveClaimIsYoung, SwapTargetIsStale, Holding
<1>10. ASSUME NEW c \in Checkouts, CancelShell(c) PROVE IInv'
  BY <1>0, <1>10
     DEF CancelShell, Goto, IInv, TypeOK, SingleCaller, HolderOwnsSlot,
         LiveClaimIsYoung, SwapTargetIsStale, Holding
<1>11. ASSUME Tick PROVE IInv'
  BY <1>0, <1>11, SlotAssumption
     DEF Tick, IInv, TypeOK, SingleCaller, HolderOwnsSlot,
         LiveClaimIsYoung, SwapTargetIsStale, Holding
<1>12. ASSUME UNCHANGED vars PROVE IInv'
  BY <1>12
     DEF vars, IInv, TypeOK, SingleCaller, HolderOwnsSlot, LiveClaimIsYoung,
         SwapTargetIsStale
<1>13. QED
  BY <1>1, <1>2, <1>3, <1>4, <1>5, <1>6, <1>7, <1>8, <1>9, <1>10, <1>11,
     <1>12 DEF Next, CallerStep

LEMMA Inductive == ASSUME TimelyCalls PROVE Spec => []IInv
<1>1. IInv /\ [Next]_vars => IInv'
  BY IInvStep
<1>2. QED
  BY InitIInv, <1>1, PTL DEF Spec

(* However many requests race for one order's invoice, and whichever of     *)
(* them die, at most one live caller is in the gateway call at a time.      *)
THEOREM OneCallerAtATime ==
    ASSUME TimelyCalls PROVE Spec => []SingleCaller
<1>1. IInv => SingleCaller
  BY DEF IInv
<1>2. Spec => []IInv
  BY Inductive
<1>3. QED
  BY <1>1, <1>2, PTL

(* A live caller that is about to store its invoice still owns the slot, so *)
(* commitGatewayResult never loses the invoice a buyer was shown.           *)
THEOREM LiveCallerKeepsSlot ==
    ASSUME TimelyCalls PROVE Spec => []ShownInvoiceIsStored
<1>1. IInv => ShownInvoiceIsStored
  BY DEF IInv, HolderOwnsSlot, ShownInvoiceIsStored, Holding
<1>2. Spec => []IInv
  BY Inductive
<1>3. QED
  BY <1>1, <1>2, PTL

(* A stored invoice is never replaced: every write to the slot compares it  *)
(* with null or with a sentinel first.                                      *)
THEOREM InvoiceIsFinal == Spec => StoredInvoiceIsKept
<1>1. \A t : Claim(t) # Invoice /\ Null # Invoice
  BY DEF Claim, Invoice, Null
<1>2. [Next]_vars => (paymentRef = Invoice => paymentRef' = Invoice)
  BY <1>1
     DEF Next, CallerStep, Begin, ClaimNull, Reread, SwapStale, CallSucceeds,
         CallFails, CommitResult, Release, Crash, CancelShell, Tick, vars
<1>3. QED
  BY <1>2, PTL DEF Spec, StoredInvoiceIsKept
=============================================================================
