----------------------------- MODULE GatewaySlot -----------------------------
(***************************************************************************)
(* The lazy invoice slot of one order: Order.paymentRef is claimed with a  *)
(* time-stamped sentinel before a payment gateway is asked for an invoice, *)
(* and replaced by the invoice when the gateway answers.                   *)
(*                                                                         *)
(* packages/db/src/crud/orders.ts: claimGatewaySlot, commitGatewayResult,  *)
(* releaseGatewaySlot.  Their callers are the storefront's pay page (any   *)
(* number of page loads) and the bot's checkout of the same order, which   *)
(* also cancels the order shell when the gateway fails.                    *)
(*                                                                         *)
(* Each database statement is a step of its own: none of these functions   *)
(* runs in a transaction.  A caller's HTTP call is a step of its own too.  *)
(***************************************************************************)
EXTENDS Integers

CONSTANTS
    PageLoads,     \* storefront payView calls for the order
    Checkouts,     \* bot checkouts (buyNow*) of the order
    TTL,           \* GATEWAY_CLAIM_TTL_MS, in ticks
    CallLimit,     \* longest life of a claim whose caller is alive, in ticks
    MaxClock       \* bound on the clock, for model checking

Callers == PageLoads \cup Checkouts

ASSUME SlotAssumption ==
    /\ PageLoads \cap Checkouts = {}
    /\ TTL \in Nat
    /\ CallLimit \in Nat
    /\ MaxClock \in Nat

(* HTTP_TIMEOUT_MS.gatewayWrite is 15 s and the TTL 30 s: a caller that is  *)
(* still alive has committed or released before its claim can look stale.  *)
(* With a larger CallLimit a stalled caller comes back after a reclaim.     *)
TimelyCalls == CallLimit < TTL

VARIABLES
    paymentRef,    \* [kind |-> "null" | "claim" | "invoice", at |-> time stamp]
    status,        \* Order.status, as far as these callers move it
    clock,         \* wall clock
    phase,         \* where each caller is
    stamp,         \* the time stamp in the sentinel each caller wrote or will write
    seen,          \* the stale sentinel's stamp each caller read
    shown          \* callers that hold an invoice the gateway created for them

vars == <<paymentRef, status, clock, phase, stamp, seen, shown>>

Null      == [kind |-> "null", at |-> 0]
Claim(t)  == [kind |-> "claim", at |-> t]
Invoice   == [kind |-> "invoice", at |-> 0]

Phases == {"idle", "claiming", "rereading", "swapping", "calling",
           "committing", "releasing", "cancelling", "done", "dead"}

(* Phases in which a caller acts on a claim it believes to hold. *)
Holding == {"calling", "committing", "releasing"}

TypeOK ==
    /\ paymentRef \in [kind : {"null", "claim", "invoice"}, at : Nat]
    /\ status \in {"PENDING_PAYMENT", "CANCELLED"}
    /\ clock \in Nat
    /\ phase \in [Callers -> Phases]
    /\ stamp \in [Callers -> Nat]
    /\ seen \in [Callers -> Nat]
    /\ shown \in SUBSET Callers

Init ==
    /\ paymentRef = Null
    /\ status = "PENDING_PAYMENT"
    /\ clock = 0
    /\ phase = [c \in Callers |-> "idle"]
    /\ stamp = [c \in Callers |-> 0]
    /\ seen = [c \in Callers |-> 0]
    /\ shown = {}

Goto(c, p) == phase' = [phase EXCEPT ![c] = p]

(* Variant of Begin: the sentinel carries no usable time stamp. *)
BeginUnstamped(c) ==
    /\ phase[c] = "idle"
    /\ status = "PENDING_PAYMENT"
    /\ paymentRef.kind # "invoice"
    /\ stamp' = [stamp EXCEPT ![c] = -1]
    /\ Goto(c, "claiming")
    /\ UNCHANGED <<paymentRef, status, clock, seen, shown>>

(* The caller has read an order that awaits payment and has no cached       *)
(* invoice; claimGatewaySlot starts by stamping its sentinel.               *)
Begin(c) ==
    /\ phase[c] = "idle"
    /\ status = "PENDING_PAYMENT"
    /\ paymentRef.kind # "invoice"
    /\ stamp' = [stamp EXCEPT ![c] = clock]
    /\ Goto(c, "claiming")
    /\ UNCHANGED <<paymentRef, status, clock, seen, shown>>

(* First updateMany: WHERE paymentRef IS NULL. *)
ClaimNull(c) ==
    /\ phase[c] = "claiming"
    /\ IF paymentRef = Null
         THEN paymentRef' = Claim(stamp[c]) /\ Goto(c, "calling")
         ELSE paymentRef' = paymentRef /\ Goto(c, "rereading")
    /\ UNCHANGED <<status, clock, stamp, seen, shown>>

(* Variant of Reread: any sentinel counts as stale, however young. *)
RereadNoTtl(c) ==
    /\ phase[c] = "rereading"
    /\ IF paymentRef.kind = "claim"
         THEN seen' = [seen EXCEPT ![c] = paymentRef.at] /\ Goto(c, "swapping")
         ELSE seen' = seen /\ Goto(c, "done")
    /\ UNCHANGED <<paymentRef, status, clock, stamp, shown>>

(* Lost: read the current value; a sentinel younger than the TTL, or no     *)
(* sentinel at all, ends the attempt.                                       *)
Reread(c) ==
    /\ phase[c] = "rereading"
    /\ IF paymentRef.kind = "claim" /\ clock - paymentRef.at >= TTL
         THEN seen' = [seen EXCEPT ![c] = paymentRef.at] /\ Goto(c, "swapping")
         ELSE seen' = seen /\ Goto(c, "done")
    /\ UNCHANGED <<paymentRef, status, clock, stamp, shown>>

(* Variant of SwapStale: the stale sentinel is replaced without comparing it. *)
SwapWithoutCompare(c) ==
    /\ phase[c] = "swapping"
    /\ paymentRef' = Claim(stamp[c])
    /\ Goto(c, "calling")
    /\ UNCHANGED <<status, clock, stamp, seen, shown>>

(* Compare-and-swap on the exact stale string just read. *)
SwapStale(c) ==
    /\ phase[c] = "swapping"
    /\ IF paymentRef = Claim(seen[c])
         THEN paymentRef' = Claim(stamp[c]) /\ Goto(c, "calling")
         ELSE paymentRef' = paymentRef /\ Goto(c, "done")
    /\ UNCHANGED <<status, clock, stamp, seen, shown>>

(* The gateway created an invoice and answered. *)
CallSucceeds(c) ==
    /\ phase[c] = "calling"
    /\ shown' = shown \cup {c}
    /\ Goto(c, "committing")
    /\ UNCHANGED <<paymentRef, status, clock, stamp, seen>>

(* The call failed or timed out. *)
CallFails(c) ==
    /\ phase[c] = "calling"
    /\ Goto(c, "releasing")
    /\ UNCHANGED <<paymentRef, status, clock, stamp, seen, shown>>

(* commitGatewayResult: only over the caller's own sentinel string. *)
CommitResult(c) ==
    /\ phase[c] = "committing"
    /\ paymentRef' = IF paymentRef = Claim(stamp[c]) THEN Invoice ELSE paymentRef
    /\ Goto(c, "done")
    /\ UNCHANGED <<status, clock, stamp, seen, shown>>

(* releaseGatewaySlot; a bot checkout then goes on to cancel the shell. *)
Release(c) ==
    /\ phase[c] = "releasing"
    /\ paymentRef' = IF paymentRef = Claim(stamp[c]) THEN Null ELSE paymentRef
    /\ Goto(c, IF c \in Checkouts THEN "cancelling" ELSE "done")
    /\ UNCHANGED <<status, clock, stamp, seen, shown>>

(* cancelOrder(..., "gateway_create_failed"), a transaction of its own. *)
CancelShell(c) ==
    /\ phase[c] = "cancelling"
    /\ status' = "CANCELLED"
    /\ Goto(c, "done")
    /\ UNCHANGED <<paymentRef, clock, stamp, seen, shown>>

(* The process serving the caller dies between two of its statements. *)
Crash(c) ==
    /\ phase[c] \notin {"idle", "done", "dead"}
    /\ Goto(c, "dead")
    /\ UNCHANGED <<paymentRef, status, clock, stamp, seen, shown>>

(* Time passes, but never past the point where a live caller's HTTP timeout *)
(* would have ended its call.                                               *)
Tick ==
    /\ clock < MaxClock
    /\ \A c \in Callers :
          phase[c] \in {"claiming", "rereading", "swapping"} \cup Holding
            => clock - stamp[c] < CallLimit
    /\ clock' = clock + 1
    /\ UNCHANGED <<paymentRef, status, phase, stamp, seen, shown>>

CallerStep(c) ==
    \/ Begin(c) \/ ClaimNull(c) \/ Reread(c) \/ SwapStale(c)
    \/ CallSucceeds(c) \/ CallFails(c)
    \/ CommitResult(c) \/ Release(c)

Next ==
    \/ \E c \in Callers : CallerStep(c) \/ Crash(c)
    \/ \E c \in Checkouts : CancelShell(c)
    \/ Tick

Spec == Init /\ [][Next]_vars

-----------------------------------------------------------------------------
(* "A second concurrent request for the SAME order can't create a second    *)
(* gateway invoice": of the callers that are alive, at most one is between  *)
(* winning the claim and giving it up.                                      *)
SingleCaller ==
    \A c, d \in Callers : phase[c] \in Holding /\ phase[d] \in Holding => c = d

(* A caller that is alive and about to store its invoice still owns the     *)
(* slot: no reclaim of a stale sentinel ever takes it from a live request,  *)
(* so the invoice the buyer was shown is the one the order remembers.       *)
ShownInvoiceIsStored ==
    \A c \in Callers : phase[c] = "committing" => paymentRef = Claim(stamp[c])

(* Once an invoice is stored no claim, reclaim or release replaces it, not  *)
(* even one of a caller that stalled for longer than the TTL.               *)
StoredInvoiceIsKept == [][paymentRef = Invoice => paymentRef' = Invoice]_vars

(* What the bot's failure branch says of the shell it cancels: it "has no   *)
(* payment instructions", so no buyer holds an invoice for it.              *)
CancelledShellHasNoInvoice ==
    status = "CANCELLED" => shown = {} /\ paymentRef # Invoice
=============================================================================
