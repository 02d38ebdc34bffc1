-------------------------- MODULE DigiflazzDispatch --------------------------
(***************************************************************************)
(* The life of one paid order that the supplier Digiflazz delivers.        *)
(*                                                                         *)
(* Several processes ask the supplier about the order: the five-second     *)
(* cron, the instant dispatch after payment, the supplier's callback and   *)
(* an admin's "check now".  All of them send the same request with the     *)
(* same ref id, outside any transaction, between a conditional UPDATE that *)
(* claims the order and a second one that records the answer.  A process   *)
(* may die, a request or its answer may be lost or late, and admins edit,  *)
(* override, credit and hand-deliver meanwhile.  Orders share nothing      *)
(* here, so the module follows one.                                        *)
(*                                                                         *)
(* Code: packages/db/src/crud/{digiflazz, digiflazzBackoff, orders}.ts and *)
(* the callback route of apps/storefront/src/routes/checkout.ts.           *)
(***************************************************************************)
EXTENDS Naturals, FiniteSets

CONSTANTS
    Crons,        \* runs of the cron, the recovery path
    Directs,      \* instant dispatches
    Hooks,        \* supplier callbacks handled at once
    Checkers,     \* admin requests to check now
    Unsure,       \* dispatchers whose process may lack the credentials
    Targets,      \* player accounts the buyer may enter
    Window,       \* attempts that fit in the 24 hours of fast rechecks
    NoWorker, NoTarget,
    MaxFaults,    \* bound on deaths and failed writes, for model checking
    MaxCallbacks, \* bound on callbacks and admin checks, for model checking
    MaxEdits      \* bound on the buyer's edits, for model checking

Dispatchers == Crons \cup Directs
Askers == Hooks \cup Checkers      \* they check, and never dispatch
Workers == Dispatchers \cup Askers

ASSUME DispatchAssumption ==
    /\ Dispatchers \cap Askers = {} /\ Hooks \cap Checkers = {}
    /\ Unsure \subseteq Dispatchers
    /\ NoWorker \notin Workers /\ NoTarget \notin Targets
    /\ Window \in Nat \ {0}
    /\ MaxFaults \in Nat /\ MaxCallbacks \in Nat /\ MaxEdits \in Nat

VARIABLES
    order,     \* the order's row
    trx,       \* the supplier's transaction for the order's ref id
    wire,      \* targets of requests given up on that may still arrive
    sent,      \* targets of all requests made (history)
    weekOver,  \* seven days have passed since the first dispatch
    alerted,   \* admins were told that the order needs them
    unasked,   \* the order was failed for want of credentials (history)
    pc, job,   \* what each worker is doing, and what it read
    faults, callbacks, edits

vars == <<order, trx, wire, sent, weekOver, alerted, unasked, pc, job,
          faults, callbacks, edits>>

(* digiflazzNextRecheckAt: null, passed, within a lease's length of now, or *)
(* further off; "by" is the worker whose lease the stored time is.          *)
Due == [at : {"null", "now", "soon", "later"}, by : Workers \cup {NoWorker}]
(* DIGIFLAZZ_CHECKABLE_STATUSES *)
Checkable == {"pending_at_supplier", "unresolved_at_supplier"}
OrderRec ==
    [status     : {"PROCESSING", "DELIVERED", "CANCELLED"},
     digiflazz  : Checkable \cup {"null", "failed"},   \* digiflazzStatus
     dispatched : BOOLEAN,                             \* digiflazzDispatchedAt
     attempts   : 0 .. Window,
     due        : Due,
     target     : Targets,
     byHand     : BOOLEAN]                             \* delivered by an admin
TrxStates == {"none", "Pending", "Sukses", "Gagal"}
Steps == {"idle", "read", "claimed", "asking", "recording"}
Answers == {"none", "Pending", "Sukses", "Gagal", "refused", "error"}
Job == [fresh : BOOLEAN, keyed : BOOLEAN, unresolved : BOOLEAN,
        attempts : 0 .. Window, target : Targets \cup {NoTarget},
        scheduled : Due, answer : Answers]

TypeOK ==
    /\ order \in OrderRec
    /\ trx \in TrxStates
    /\ wire \in SUBSET Targets /\ sent \in SUBSET Targets
    /\ weekOver \in BOOLEAN /\ alerted \in BOOLEAN /\ unasked \in BOOLEAN
    /\ pc \in [Workers -> Steps]
    /\ job \in [Workers -> Job]
    /\ faults \in Nat /\ callbacks \in Nat /\ edits \in Nat

Never == [at |-> "null", by |-> NoWorker]
Later == [at |-> "later", by |-> NoWorker]
Lease(w) == [at |-> "soon", by |-> w]

NoJob == [fresh |-> FALSE, keyed |-> FALSE, unresolved |-> FALSE,
          attempts |-> 0, target |-> NoTarget, scheduled |-> Never,
          answer |-> "none"]

(* settlePaidOrder has just committed: PROCESSING, nothing dispatched.     *)
Init ==
    /\ \E x \in Targets :
          order = [status |-> "PROCESSING", digiflazz |-> "null",
                   dispatched |-> FALSE, attempts |-> 0, due |-> Never,
                   target |-> x, byHand |-> FALSE]
    /\ job = [w \in Workers |-> NoJob]
    /\ trx = "none" /\ wire = {} /\ sent = {}
    /\ weekOver = FALSE /\ alerted = FALSE /\ unasked = FALSE
    /\ pc = [w \in Workers |-> "idle"]
    /\ faults = 0 /\ callbacks = 0 /\ edits = 0

Goto(w, s) == pc' = [pc EXCEPT ![w] = s]
Finish(w) == Goto(w, "idle") /\ job' = [job EXCEPT ![w] = NoJob]
Replacing(j, d) == [j EXCEPT !.scheduled = d]
Asking(j, x) == [j EXCEPT !.target = x]
Answered(j, a) == [j EXCEPT !.answer = a, !.target = NoTarget]
Heard(w, a) == job' = [job EXCEPT ![w] = Answered(job[w], a)]
Processing == order.status = "PROCESSING"
IsUnresolved == order.digiflazz = "unresolved_at_supplier"

(* What the conditional UPDATEs write into the row.                        *)
Dispatched(r, w) == [r EXCEPT !.dispatched = TRUE, !.due = Lease(w),
                              !.digiflazz = "pending_at_supplier"]
Leased(r, w) == [r EXCEPT !.due = Lease(w)]
DueAt(r, d) == [r EXCEPT !.due = d]
(* Variant: the status is written in a spelling no reader knows. *)
FailedMisspelt(r) == [r EXCEPT !.digiflazz = "FAILED", !.due = Never]
Failed(r) == [r EXCEPT !.digiflazz = "failed", !.due = Never]
Delivered(r) == [r EXCEPT !.status = "DELIVERED", !.digiflazz = "null",
                            !.due = Never]
Pending(r, n) == [r EXCEPT !.digiflazz = "pending_at_supplier",
                            !.attempts = n, !.due = Later]
Unresolved(r, n) == [r EXCEPT !.digiflazz = "unresolved_at_supplier",
                              !.attempts = n, !.due = Later]
HandDelivered(r) == [r EXCEPT !.status = "DELIVERED", !.byHand = TRUE]
Cancelled(r) == [r EXCEPT !.status = "CANCELLED"]
Retargeted(r, x) == [r EXCEPT !.target = x]

-----------------------------------------------------------------------------
(* Reading and claiming.                                                   *)

(* Variant: only orders with a recorded answer are checked again. *)
CandidateRecorded ==
    /\ Processing
    /\ \/ ~order.dispatched /\ order.digiflazz # "failed"
       \/ order.digiflazz \in Checkable /\ order.due.at = "now" /\ order.attempts > 0
(* digiflazzCandidateWhere *)
Candidate ==
    /\ Processing
    /\ \/ ~order.dispatched /\ order.digiflazz # "failed"
       \/ order.digiflazz \in Checkable /\ order.due.at = "now"

(* dispatchPendingDigiflazzOrders and dispatchOneDigiflazzOrder: the row    *)
(* and the credentials (cached for 30 seconds per process) are read once;   *)
(* every later step uses that snapshot.                                     *)
ReadCandidate(w) ==
    /\ pc[w] = "idle" /\ w \in Dispatchers
    /\ Candidate
    /\ \E k \in IF w \in Unsure THEN BOOLEAN ELSE {TRUE} :
          job' = [job EXCEPT ![w] =
                    [NoJob EXCEPT !.fresh = ~order.dispatched, !.keyed = k,
                                  !.unresolved = IsUnresolved,
                                  !.attempts = order.attempts]]
    /\ Goto(w, "read")
    /\ UNCHANGED <<order, trx, wire, sent, weekOver, alerted, unasked,
                   faults, callbacks, edits>>

Expired(w) == job[w].unresolved /\ ~job[w].fresh /\ weekOver

(* remindDigiflazzUnresolvedOrder: past the seven days admins are reminded  *)
(* once a day and the supplier is not asked.                                *)
Remind(w) ==
    /\ pc[w] = "read" /\ w \in Dispatchers /\ Expired(w)
    /\ IF Processing /\ IsUnresolved /\ order.due.at = "now"
         THEN order' = DueAt(order, Later) /\ alerted' = TRUE
         ELSE UNCHANGED <<order, alerted>>
    /\ Finish(w)
    /\ UNCHANGED <<trx, wire, sent, weekOver, unasked, faults, callbacks,
                   edits>>

(* The guard of terminalFailDigiflazzOrder's UPDATE: the order was not      *)
(* failed before.                                                           *)
MayFail == Processing /\ order.digiflazz # "failed"

(* terminalFailDigiflazzOrder; the alert commits with the UPDATE.           *)
TerminalFail(w) ==
    /\ IF MayFail
         THEN order' = Failed(order) /\ alerted' = TRUE
         ELSE UNCHANGED <<order, alerted>>
    /\ Finish(w)

(* processDigiflazzOrder with no credentials for an order whose snapshot    *)
(* says that it was never dispatched.                                       *)
FailUnconfigured(w) ==
    /\ pc[w] = "read" /\ w \in Dispatchers
    /\ job[w].fresh /\ ~job[w].keyed
    /\ TerminalFail(w)
    /\ unasked' = (unasked \/ MayFail)
    /\ UNCHANGED <<trx, wire, sent, weekOver, faults, callbacks, edits>>

FreshClaimable == Processing /\ ~order.dispatched /\ order.digiflazz # "failed"
RecheckClaimable ==
    Processing /\ order.digiflazz \in Checkable /\ order.due.at = "now"

(* processDigiflazzOrder's claim: of a first dispatch, or of a due recheck. *)
(* Both take the 45-second lease.                                           *)
ClaimFresh(w) ==
    /\ pc[w] = "read" /\ w \in Dispatchers
    /\ job[w].fresh /\ job[w].keyed
    /\ IF FreshClaimable
         THEN order' = Dispatched(order, w) /\ Goto(w, "claimed") /\ UNCHANGED job
         ELSE UNCHANGED order /\ Finish(w)
    /\ UNCHANGED <<trx, wire, sent, weekOver, alerted, unasked, faults,
                   callbacks, edits>>

ClaimRecheck(w) ==
    /\ pc[w] = "read" /\ w \in Dispatchers
    /\ ~job[w].fresh /\ ~Expired(w)
    /\ IF RecheckClaimable
         THEN /\ order' = Leased(order, w)
              /\ IF job[w].keyed
                   THEN Goto(w, "claimed") /\ UNCHANGED job
                   ELSE Goto(w, "recording") /\ Heard(w, "error")
         ELSE UNCHANGED order /\ Finish(w)
    /\ UNCHANGED <<trx, wire, sent, weekOver, alerted, unasked, faults,
                   callbacks, edits>>

Waiting == Processing /\ order.dispatched /\ order.digiflazz \in Checkable

(* The callback route, and recheckDigiflazzOrderNow for unresolved orders,  *)
(* read the order.  The supplier only reports a ref id it knows; a report   *)
(* may be replayed.                                                         *)
StartCheck(w) ==
    /\ pc[w] = "idle" /\ w \in Askers
    /\ callbacks < MaxCallbacks
    /\ Waiting
    /\ \/ w \in Hooks /\ trx # "none"
       \/ w \in Checkers /\ IsUnresolved
    /\ callbacks' = callbacks + 1
    /\ job' = [job EXCEPT ![w] = [NoJob EXCEPT !.keyed = TRUE,
                                              !.target = order.target]]
    /\ Goto(w, "read")
    /\ UNCHANGED <<order, trx, wire, sent, weekOver, alerted, unasked, faults,
                   edits>>

(* Variant: a check may start whatever is scheduled. *)
NoLeaseNeeded == TRUE
(* No check is in flight or about to run: no time, one that has passed, or  *)
(* one further off than a lease could be.                                   *)
NoLease == order.due.at # "soon"

(* claimDigiflazzWebhookRecheck.  Its UPDATE requires the time it read, so  *)
(* it either takes effect as one step or returns null.                      *)
ClaimCheck(w) ==
    /\ pc[w] = "read" /\ w \in Askers
    /\ IF Waiting /\ NoLease
         THEN /\ job' = [job EXCEPT ![w] = Replacing(job[w], order.due)]
              /\ order' = Leased(order, w)
              /\ Goto(w, "claimed")
         ELSE UNCHANGED order /\ Finish(w)
    /\ UNCHANGED <<trx, wire, sent, weekOver, alerted, unasked, faults,
                   callbacks, edits>>

-----------------------------------------------------------------------------
(* The request and the supplier.                                           *)

(* A claimed order that cannot be asked about (no SKU, more than one unit,  *)
(* unreadable answers): a first dispatch sent nothing and fails the order,  *)
(* a recheck is recorded like a failed request.  The callback route has     *)
(* refused such an order before its claim.                                  *)
Unfit(w) ==
    /\ pc[w] = "claimed" /\ w \notin Hooks
    /\ IF job[w].fresh
         THEN TerminalFail(w)
         ELSE Goto(w, "recording") /\ Heard(w, "error")
              /\ UNCHANGED <<order, alerted>>
    /\ UNCHANGED <<trx, wire, sent, weekOver, unasked, faults, callbacks, edits>>

(* A dispatcher reads the buyer's answers again after its claim; a check    *)
(* uses those it read before.                                               *)
Submitted(w) == IF w \in Dispatchers THEN order.target ELSE job[w].target

Send(w) ==
    /\ pc[w] = "claimed"
    /\ Goto(w, "asking")
    /\ job' = [job EXCEPT ![w] = Asking(job[w], Submitted(w))]
    /\ sent' = sent \cup {Submitted(w)}
    /\ UNCHANGED <<order, trx, wire, weekOver, alerted, unasked, faults,
                   callbacks, edits>>

(* The supplier makes one transaction per ref id and reports that one to    *)
(* every later request; the answer may be lost.                             *)
Serve(w) ==
    /\ pc[w] = "asking"
    /\ trx' \in IF trx = "none" THEN TrxStates \ {"none"} ELSE {trx}
    /\ \E a \in {trx', "error"} : Heard(w, a)
    /\ Goto(w, "recording")
    /\ UNCHANGED <<order, wire, sent, weekOver, alerted, unasked, faults,
                   callbacks, edits>>

(* A permanent refusal (an HTTP 4xx other than 408 and 429) made no         *)
(* transaction.  Only a first dispatch takes it for an answer.              *)
Refuse(w) ==
    /\ pc[w] = "asking"
    /\ Heard(w, IF job[w].fresh THEN "refused" ELSE "error")
    /\ Goto(w, "recording")
    /\ UNCHANGED <<order, trx, wire, sent, weekOver, alerted, unasked, faults,
                   callbacks, edits>>

(* The request times out, but may still reach the supplier.                 *)
TimeOut(w) ==
    /\ pc[w] = "asking"
    /\ Heard(w, "error")
    /\ wire' = wire \cup {job[w].target}
    /\ Goto(w, "recording")
    /\ UNCHANGED <<order, trx, sent, weekOver, alerted, unasked, faults,
                   callbacks, edits>>

LateArrival ==
    /\ \E x \in wire : wire' = wire \ {x}
    /\ trx' = IF trx = "none" THEN "Pending" ELSE trx
    /\ UNCHANGED <<order, sent, weekOver, alerted, unasked, pc, job, faults,
                   callbacks, edits>>

SupplierDecides ==
    /\ trx = "Pending"
    /\ trx' \in {"Sukses", "Gagal"}
    /\ UNCHANGED <<order, wire, sent, weekOver, alerted, unasked, pc, job,
                   faults, callbacks, edits>>

-----------------------------------------------------------------------------
(* Recording the answer.                                                   *)

(* Sukses: fulfillDigiflazzOrder's one transaction, whose claim asks only   *)
(* for PROCESSING.  A dispatcher or an admin's check that loses alerts the  *)
(* admins.                                                                  *)
Fulfil(w) ==
    /\ pc[w] = "recording" /\ job[w].answer = "Sukses"
    /\ IF Processing
         THEN order' = Delivered(order) /\ UNCHANGED alerted
         ELSE /\ alerted' = (alerted \/ w \notin Hooks)
              /\ UNCHANGED order
    /\ Finish(w)
    /\ UNCHANGED <<trx, wire, sent, weekOver, unasked, faults, callbacks,
                   edits>>

(* That transaction fails: nothing is written and the lease runs out.       *)
FulfilFails(w) ==
    /\ pc[w] = "recording" /\ job[w].answer = "Sukses"
    /\ faults < MaxFaults
    /\ faults' = faults + 1
    /\ alerted' = (alerted \/ w \notin Hooks)
    /\ Finish(w)
    /\ UNCHANGED <<order, trx, wire, sent, weekOver, unasked, callbacks,
                   edits>>

Terminal(w) == job[w].answer \in {"Gagal", "refused"}
Unsettled(w) == job[w].answer \in {"Pending", "error"}

RecordFailure(w) ==
    /\ pc[w] = "recording" /\ Terminal(w)
    /\ TerminalFail(w)
    /\ UNCHANGED <<trx, wire, sent, weekOver, unasked, faults, callbacks,
                   edits>>

(* Variant: an answer is recorded in whatever state the order is. *)
MayPendAlways == Processing
(* recordDigiflazzOutcome for a dispatcher: one attempt more, counted from  *)
(* the snapshot.  The schedule ends at attempt Window, which is             *)
(* nextDigiflazzRecheckAt = null; larger counts do not differ.              *)
Attempt(w) == IF job[w].attempts < Window THEN job[w].attempts + 1 ELSE Window
MayPend == Processing /\ order.digiflazz \in {"null", "pending_at_supplier"}

RecordPending(w) ==
    /\ pc[w] = "recording" /\ w \in Dispatchers /\ Unsettled(w)
    /\ Attempt(w) < Window
    /\ order' = IF MayPend THEN Pending(order, Attempt(w)) ELSE order
    /\ Finish(w)
    /\ UNCHANGED <<trx, wire, sent, weekOver, alerted, unasked, faults,
                   callbacks, edits>>

(* recordUnresolvedAtSupplier: enters the state and alerts, or stays in it  *)
(* (and reminds when this was the last slow check), or finds it left.       *)
RecordUnresolved(w) ==
    /\ pc[w] = "recording" /\ w \in Dispatchers /\ Unsettled(w)
    /\ Attempt(w) = Window
    /\ IF Processing /\ order.digiflazz \in Checkable
         THEN /\ order' = Unresolved(order, Attempt(w))
              /\ alerted' = (alerted \/ ~IsUnresolved \/ weekOver)
         ELSE UNCHANGED <<order, alerted>>
    /\ Finish(w)
    /\ UNCHANGED <<trx, wire, sent, weekOver, unasked, faults, callbacks,
                   edits>>

(* recordWebhookNonTerminalOutcome: puts the replaced time back, while the  *)
(* lease is still its own.                                                  *)
StillMine(w) ==
    Processing /\ order.digiflazz \in Checkable /\ order.due.by = w
Restored(d) == IF d.at = "null" THEN Later ELSE d

RecordCheck(w) ==
    /\ pc[w] = "recording" /\ w \in Askers /\ Unsettled(w)
    /\ order' = IF StillMine(w) THEN DueAt(order, Restored(job[w].scheduled))
                                ELSE order
    /\ Finish(w)
    /\ UNCHANGED <<trx, wire, sent, weekOver, alerted, unasked, faults,
                   callbacks, edits>>

-----------------------------------------------------------------------------
(* Admins and the buyer.                                                   *)

(* adminOverrideLeaseFree, and the state the two overrides are offered in.  *)
Overridable == Processing /\ IsUnresolved /\ NoLease

(* markDigiflazzOrderFailedByAdmin, by an admin who has seen at the         *)
(* supplier that nothing went through and nothing is under way.             *)
MarkFailed ==
    /\ Overridable
    /\ trx = "Gagal" \/ (trx = "none" /\ wire = {})
    /\ order' = Failed(order)
    /\ UNCHANGED <<trx, wire, sent, weekOver, alerted, unasked, pc, job, faults,
                   callbacks, edits>>

(* markDigiflazzOrderDeliveredByAdmin *)
MarkDelivered ==
    /\ Overridable
    /\ trx = "Sukses"
    /\ order' = Delivered(order)
    /\ UNCHANGED <<trx, wire, sent, weekOver, alerted, unasked, pc, job, faults,
                   callbacks, edits>>

(* Variant: an unresolved order is not in flight any more. *)
InFlightPending == Processing /\ order.digiflazz \in {"null", "pending_at_supplier"}
(* isDigiflazzInFlight *)
InFlight == Processing /\ order.digiflazz # "failed"

(* creditOrderToBalance, under the order's row lock.                        *)
Credit ==
    /\ Processing /\ ~InFlight
    /\ order' = Cancelled(order)
    /\ UNCHANGED <<trx, wire, sent, weekOver, alerted, unasked, pc, job, faults,
                   callbacks, edits>>

(* fulfillManualOrder, whose claim asks for a failed dispatch.              *)
FulfilByHand ==
    /\ Processing /\ order.digiflazz = "failed"
    /\ order' = HandDelivered(order)
    /\ UNCHANGED <<trx, wire, sent, weekOver, alerted, unasked, pc, job, faults,
                   callbacks, edits>>

(* Variant: the answers may be edited until the order fails. *)
EditableAfterDispatch == Processing /\ order.digiflazz # "failed"
(* updateOrderCustomerData *)
Editable == Processing /\ ~order.dispatched /\ order.digiflazz # "failed"
Edit ==
    /\ edits < MaxEdits
    /\ Editable
    /\ \E x \in Targets \ {order.target} : order' = Retargeted(order, x)
    /\ edits' = edits + 1
    /\ UNCHANGED <<trx, wire, sent, weekOver, alerted, unasked, pc, job, faults,
                   callbacks>>

-----------------------------------------------------------------------------
(* Time and failures.                                                      *)

(* A lease does not run out on a live dispatcher: its request times out     *)
(* after 15 of the 45 seconds and "a live request always finishes (or times *)
(* out and records its outcome) well inside the lease" (digiflazz.ts:356).  *)
(* A check has its answer in time too, but may record it after its lease:   *)
(* recordWebhookNonTerminalOutcome is written for that.                     *)
Protected(w) ==
    \/ w \in Workers /\ pc[w] \in {"claimed", "asking"}
    \/ w \in Dispatchers /\ pc[w] = "recording"

Nearer(d, a) == [d EXCEPT !.at = a]
Tick ==
    /\ \/ /\ order.due.at = "later"
          /\ order' = DueAt(order, Nearer(order.due, "soon"))
       \/ /\ order.due.at = "soon" /\ ~Protected(order.due.by)
          /\ order' = DueAt(order, Nearer(order.due, "now"))
    /\ UNCHANGED <<trx, wire, sent, weekOver, alerted, unasked, pc, job, faults,
                   callbacks, edits>>

WeekEnds ==
    /\ order.dispatched /\ ~weekOver
    /\ weekOver' = TRUE
    /\ UNCHANGED <<order, trx, wire, sent, alerted, unasked, pc, job, faults,
                   callbacks, edits>>

(* A worker dies; its request may still be on the way.                      *)
Crash(w) ==
    /\ faults < MaxFaults
    /\ pc[w] # "idle"
    /\ wire' \in {wire, IF pc[w] = "asking" THEN wire \cup {job[w].target}
                                            ELSE wire}
    /\ Finish(w)
    /\ faults' = faults + 1
    /\ UNCHANGED <<order, trx, sent, weekOver, alerted, unasked, callbacks,
                   edits>>

-----------------------------------------------------------------------------
WorkerStep(w) ==
    \/ ReadCandidate(w) \/ Remind(w) \/ FailUnconfigured(w)
    \/ ClaimFresh(w) \/ ClaimRecheck(w) \/ StartCheck(w) \/ ClaimCheck(w)
    \/ Unfit(w) \/ Send(w) \/ Serve(w) \/ Refuse(w) \/ TimeOut(w)
    \/ Fulfil(w) \/ FulfilFails(w) \/ RecordFailure(w)
    \/ RecordPending(w) \/ RecordUnresolved(w) \/ RecordCheck(w)
    \/ Crash(w)
Outside == LateArrival \/ SupplierDecides \/ MarkFailed \/ MarkDelivered
           \/ Credit \/ FulfilByHand \/ Edit \/ Tick \/ WeekEnds

Next == (\E w \in Workers : WorkerStep(w)) \/ Outside
Spec == Init /\ [][Next]_vars

(* A live worker finishes what it has begun: every request is answered or   *)
(* times out, every answer is recorded.  The cron runs every five seconds   *)
(* and clocks advance.  Instant dispatches and checks need not happen.      *)
Proceeds(w) ==
    \/ Remind(w) \/ FailUnconfigured(w)
    \/ ClaimFresh(w) \/ ClaimRecheck(w) \/ ClaimCheck(w) \/ Send(w)
    \/ Serve(w) \/ Refuse(w) \/ TimeOut(w) \/ Fulfil(w) \/ RecordFailure(w)
    \/ RecordPending(w) \/ RecordUnresolved(w) \/ RecordCheck(w)
Fairness ==
    /\ \A w \in Workers : WF_vars(Proceeds(w))
    /\ \A w \in Crons : WF_vars(ReadCandidate(w))
    /\ WF_vars(Tick)
FairSpec == Spec /\ Fairness

-----------------------------------------------------------------------------
(* Two requests for one ref id never overlap: every claim, of the cron, an  *)
(* instant dispatch, a callback or an admin, respects the others' leases.   *)
OneRequestInFlight ==
    \A v, w \in Workers :
        pc[v] \in {"claimed", "asking"} /\ pc[w] \in {"claimed", "asking"} => v = w

(* The buyer never has both the top-up and the money or an admin's own      *)
(* delivery, now or when a late request or answer arrives: the order fails  *)
(* only on the supplier's word, or on an admin's when nothing is in flight. *)
(* Orders failed for want of credentials are the finding below.             *)
NoDoubleBenefit ==
    (order.status = "CANCELLED" \/ order.byHand) /\ ~unasked =>
        trx = "Gagal" \/ (trx = "none" /\ wire = {})

(* Every request names the player account the order holds: an edit that     *)
(* loses to the first claim is refused, one that wins is what is submitted. *)
TargetIsFrozen == sent \subseteq {order.target}

(* An unresolved order never returns to the fast schedule, and a failed one *)
(* is never asked about again, however late an answer is recorded.          *)
NeverReopened ==
    [][/\ IsUnresolved => order'.digiflazz # "pending_at_supplier"
       /\ order.digiflazz = "failed" => order'.digiflazz \notin Checkable]_vars

(* A paid order is delivered, or ends with the admins: failed or unresolved *)
(* and alerted.  A process that dies between claim and record leaves a      *)
(* lease that runs out, never an order no query finds.                      *)
Settled == \/ ~Processing
           \/ order.digiflazz \in {"failed", "unresolved_at_supplier"} /\ alerted
PaidOrderIsSettled == <>[]Settled

(* "Missing credentials fail only an order that was never submitted"        *)
(* (digiflazz.ts:1532).                                                     *)
OnlyUnsubmittedFailUnasked == unasked => sent = {}
=============================================================================
