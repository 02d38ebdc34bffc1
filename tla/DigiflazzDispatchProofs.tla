----------------------- MODULE DigiflazzDispatchProofs -----------------------
(***************************************************************************)
(* Proofs about DigiflazzDispatch for any number of cron runs, instant     *)
(* dispatches, callbacks and admin checks, any schedule, and any number of *)
(* deaths, failed writes, callbacks and edits.                             *)
(*                                                                         *)
(* The heart of IInv is that a worker with a request under way, and a      *)
(* dispatcher until it has recorded the answer, either holds the lease or  *)
(* works on an order that has been closed meanwhile.                       *)
(***************************************************************************)
EXTENDS DigiflazzDispatch, TLAPS

InFlightWorker(w) == pc[w] \in {"claimed", "asking"}
Closed == ~Processing \/ order.digiflazz = "failed"

(* The lease is with whoever is protected, and there is only one.          *)
HolderHasLease ==
    \A w \in Workers : Protected(w) =>
        order.dispatched /\ (order.due = Lease(w) \/ Closed)
OneHolder ==
    \A v, w \in Workers : Protected(v) /\ Protected(w) => v = w

(* An order that was never dispatched is unknown to the supplier.          *)
NothingBeforeDispatch ==
    ~order.dispatched =>
        trx = "none" /\ wire = {} /\ sent = {} /\ order.digiflazz \notin Checkable

(* Whoever may still send something will send the order's target.          *)
TargetsAgree ==
    /\ sent \subseteq {order.target}
    /\ \A w \in Workers :
          /\ w \in Askers /\ pc[w] \in {"read", "claimed"} =>
                order.dispatched /\ job[w].target = order.target
          /\ pc[w] = "asking" => job[w].target = order.target

(* A first dispatch, until its answer comes or when it was refused, finds  *)
(* the supplier without a transaction for the order.                       *)
FirstIsFirst ==
    \A w \in Workers :
        /\ pc[w] # "idle" /\ job[w].fresh => w \in Dispatchers
        /\ pc[w] = "recording" /\ job[w].answer = "refused" => job[w].fresh
        /\ /\ pc[w] # "idle" /\ job[w].fresh
           /\ \/ InFlightWorker(w)
              \/ pc[w] = "recording" /\ job[w].answer = "refused"
           => trx = "none" /\ wire = {}

GagalIsTrue ==
    \A w \in Workers :
        pc[w] = "recording" /\ job[w].answer = "Gagal" => trx = "Gagal"

(* An order failed with reason will never be delivered by the supplier.    *)
FailedIsSafe ==
    order.digiflazz = "failed" /\ ~unasked =>
        \/ trx = "Gagal"
        \/ trx = "none" /\ wire = {} /\ \A w \in Workers : ~InFlightWorker(w)

(* Money and hand deliveries leave only failed orders.                     *)
ExitsAreFailed ==
    /\ order.status = "CANCELLED" \/ order.byHand => order.digiflazz = "failed"
    /\ order.byHand => ~Processing

IInv == /\ TypeOK /\ HolderHasLease /\ OneHolder /\ NothingBeforeDispatch
        /\ TargetsAgree /\ FirstIsFirst /\ GagalIsTrue /\ FailedIsSafe
        /\ ExitsAreFailed

-----------------------------------------------------------------------------
(* What the updates write: the types ...                                   *)
LEMMA DueTypes ==
    /\ Never \in Due /\ Later \in Due
    /\ \A w \in Workers : Lease(w) \in Due
    /\ \A d \in Due : Nearer(d, "soon") \in Due /\ Nearer(d, "now") \in Due
    /\ \A d \in Due : Restored(d) \in Due
<1>1. Never \in Due /\ Later \in Due
  BY DEF Never, Later, Due
<1>2. \A w \in Workers : Lease(w) \in Due
  BY DEF Lease, Due
<1>3. \A d \in Due : Nearer(d, "soon") \in Due /\ Nearer(d, "now") \in Due
  BY DEF Nearer, Due
<1>4. \A d \in Due : Restored(d) \in Due
  BY <1>1 DEF Restored
<1> QED
  BY <1>1, <1>2, <1>3, <1>4

LEMMA OrderTypes ==
    ASSUME NEW r \in OrderRec
    PROVE  /\ \A w \in Workers : Dispatched(r, w) \in OrderRec
           /\ \A w \in Workers : Leased(r, w) \in OrderRec
           /\ \A d \in Due : DueAt(r, d) \in OrderRec
           /\ Failed(r) \in OrderRec /\ Delivered(r) \in OrderRec
           /\ \A n \in 0 .. Window : Pending(r, n) \in OrderRec
           /\ \A n \in 0 .. Window : Unresolved(r, n) \in OrderRec
           /\ HandDelivered(r) \in OrderRec /\ Cancelled(r) \in OrderRec
           /\ \A x \in Targets : Retargeted(r, x) \in OrderRec
<1> USE DueTypes DEF OrderRec, Checkable
<1>1. \A w \in Workers : Dispatched(r, w) \in OrderRec
  BY DEF Dispatched
<1>2. \A w \in Workers : Leased(r, w) \in OrderRec
  BY DEF Leased
<1>3. \A d \in Due : DueAt(r, d) \in OrderRec
  BY DEF DueAt
<1>4. Failed(r) \in OrderRec /\ Delivered(r) \in OrderRec
  BY DEF Failed, Delivered
<1>5. \A n \in 0 .. Window : Pending(r, n) \in OrderRec
  BY DEF Pending
<1>6. \A n \in 0 .. Window : Unresolved(r, n) \in OrderRec
  BY DEF Unresolved
<1>7. HandDelivered(r) \in OrderRec /\ Cancelled(r) \in OrderRec
  BY DEF HandDelivered, Cancelled
<1>8. \A x \in Targets : Retargeted(r, x) \in OrderRec
  BY DEF Retargeted
<1> QED
  BY <1>1, <1>2, <1>3, <1>4, <1>5, <1>6, <1>7, <1>8

(* ... and the fields.                                                     *)
LEMMA DispatchedFields ==
    ASSUME NEW r \in OrderRec, NEW w
    PROVE  LET q == Dispatched(r, w) IN
           /\ q.status = r.status /\ q.digiflazz = "pending_at_supplier"
           /\ q.dispatched = TRUE /\ q.due = Lease(w)
           /\ q.target = r.target /\ q.byHand = r.byHand
  BY DEF Dispatched, OrderRec

LEMMA LeasedFields ==
    ASSUME NEW r \in OrderRec, NEW w
    PROVE  LET q == Leased(r, w) IN
           /\ q.status = r.status /\ q.digiflazz = r.digiflazz
           /\ q.dispatched = r.dispatched /\ q.due = Lease(w)
           /\ q.target = r.target /\ q.byHand = r.byHand
  BY DEF Leased, OrderRec

LEMMA DueAtFields ==
    ASSUME NEW r \in OrderRec, NEW d
    PROVE  LET q == DueAt(r, d) IN
           /\ q.status = r.status /\ q.digiflazz = r.digiflazz
           /\ q.dispatched = r.dispatched /\ q.due = d
           /\ q.target = r.target /\ q.byHand = r.byHand
  BY DEF DueAt, OrderRec

LEMMA FailedFields ==
    ASSUME NEW r \in OrderRec
    PROVE  LET q == Failed(r) IN
           /\ q.status = r.status /\ q.digiflazz = "failed"
           /\ q.dispatched = r.dispatched /\ q.due = Never
           /\ q.target = r.target /\ q.byHand = r.byHand
  BY DEF Failed, OrderRec

LEMMA DeliveredFields ==
    ASSUME NEW r \in OrderRec
    PROVE  LET q == Delivered(r) IN
           /\ q.status = "DELIVERED" /\ q.digiflazz = "null"
           /\ q.dispatched = r.dispatched /\ q.due = Never
           /\ q.target = r.target /\ q.byHand = r.byHand
  BY DEF Delivered, OrderRec

LEMMA PendingFields ==
    ASSUME NEW r \in OrderRec, NEW n
    PROVE  LET q == Pending(r, n) IN
           /\ q.status = r.status /\ q.digiflazz = "pending_at_supplier"
           /\ q.dispatched = r.dispatched /\ q.due = Later
           /\ q.target = r.target /\ q.byHand = r.byHand
  BY DEF Pending, OrderRec

LEMMA UnresolvedFields ==
    ASSUME NEW r \in OrderRec, NEW n
    PROVE  LET q == Unresolved(r, n) IN
           /\ q.status = r.status /\ q.digiflazz = "unresolved_at_supplier"
           /\ q.dispatched = r.dispatched /\ q.due = Later
           /\ q.target = r.target /\ q.byHand = r.byHand
  BY DEF Unresolved, OrderRec

LEMMA HandDeliveredFields ==
    ASSUME NEW r \in OrderRec
    PROVE  LET q == HandDelivered(r) IN
           /\ q.status = "DELIVERED" /\ q.digiflazz = r.digiflazz
           /\ q.dispatched = r.dispatched /\ q.due = r.due
           /\ q.target = r.target /\ q.byHand = TRUE
  BY DEF HandDelivered, OrderRec

LEMMA CancelledFields ==
    ASSUME NEW r \in OrderRec
    PROVE  LET q == Cancelled(r) IN
           /\ q.status = "CANCELLED" /\ q.digiflazz = r.digiflazz
           /\ q.dispatched = r.dispatched /\ q.due = r.due
           /\ q.target = r.target /\ q.byHand = r.byHand
  BY DEF Cancelled, OrderRec

LEMMA RetargetedFields ==
    ASSUME NEW r \in OrderRec, NEW x
    PROVE  LET q == Retargeted(r, x) IN
           /\ q.status = r.status /\ q.digiflazz = r.digiflazz
           /\ q.dispatched = r.dispatched /\ q.due = r.due
           /\ q.target = x /\ q.byHand = r.byHand
  BY DEF Retargeted, OrderRec

(* The same for what a worker remembers.                                   *)
LEMMA JobTypes ==
    /\ NoJob \in Job
    /\ \A j \in Job : /\ \A d \in Due : Replacing(j, d) \in Job
                      /\ \A x \in Targets : Asking(j, x) \in Job
                      /\ \A a \in Answers : Answered(j, a) \in Job
<1>1. NoJob \in Job
  BY DueTypes, DispatchAssumption DEF NoJob, Job, Answers
<1>2. ASSUME NEW j \in Job, NEW d \in Due PROVE Replacing(j, d) \in Job
  BY DEF Replacing, Job
<1>3. ASSUME NEW j \in Job, NEW x \in Targets PROVE Asking(j, x) \in Job
  BY DEF Asking, Job
<1>4. ASSUME NEW j \in Job, NEW a \in Answers PROVE Answered(j, a) \in Job
  BY DEF Answered, Job
<1> QED
  BY <1>1, <1>2, <1>3, <1>4

LEMMA JobFields ==
    ASSUME NEW j \in Job, NEW d, NEW x, NEW a
    PROVE  /\ ~NoJob.fresh
           /\ Replacing(j, d).fresh = j.fresh
           /\ Replacing(j, d).target = j.target
           /\ Replacing(j, d).answer = j.answer
           /\ Asking(j, x).fresh = j.fresh
           /\ Asking(j, x).target = x
           /\ Asking(j, x).answer = j.answer
           /\ Answered(j, a).fresh = j.fresh
           /\ Answered(j, a).answer = a
<1>1. ~NoJob.fresh
  BY DEF NoJob
<1>2. /\ Replacing(j, d).fresh = j.fresh /\ Replacing(j, d).target = j.target
      /\ Replacing(j, d).answer = j.answer
  BY DEF Replacing, Job
<1>3. /\ Asking(j, x).fresh = j.fresh /\ Asking(j, x).target = x
      /\ Asking(j, x).answer = j.answer
  BY DEF Asking, Job
<1>4. Answered(j, a).fresh = j.fresh /\ Answered(j, a).answer = a
  BY DEF Answered, Job
<1> QED
  BY <1>1, <1>2, <1>3, <1>4

-----------------------------------------------------------------------------
(* One worker moves: what happens to the two functions.                    *)
Others(w) == \A v \in Workers : v # w => pc'[v] = pc[v] /\ job'[v] = job[v]

LEMMA Moves ==
    ASSUME TypeOK, NEW w \in Workers, NEW s \in Steps, Goto(w, s)
    PROVE  /\ pc' \in [Workers -> Steps] /\ pc'[w] = s
           /\ \A v \in Workers : v # w => pc'[v] = pc[v]
  BY DEF TypeOK, Goto

LEMMA Remembers ==
    ASSUME TypeOK, NEW w \in Workers, NEW j \in Job,
           job' = [job EXCEPT ![w] = j]
    PROVE  /\ job' \in [Workers -> Job] /\ job'[w] = j
           /\ \A v \in Workers : v # w => job'[v] = job[v]
  BY DEF TypeOK

LEMMA Finishes ==
    ASSUME TypeOK, NEW w \in Workers, Finish(w)
    PROVE  /\ pc' \in [Workers -> Steps] /\ job' \in [Workers -> Job]
           /\ pc'[w] = "idle" /\ Others(w)
<1>1. pc' \in [Workers -> Steps] /\ pc'[w] = "idle"
      /\ \A v \in Workers : v # w => pc'[v] = pc[v]
  BY Moves DEF Finish, Steps
<1>2. job' \in [Workers -> Job] /\ \A v \in Workers : v # w => job'[v] = job[v]
  BY Remembers, JobTypes DEF Finish
<1> QED
  BY <1>1, <1>2 DEF Others

LEMMA Hears ==
    ASSUME TypeOK, NEW w \in Workers, NEW a \in Answers, Heard(w, a),
           Goto(w, "recording")
    PROVE  /\ pc' \in [Workers -> Steps] /\ job' \in [Workers -> Job]
           /\ pc'[w] = "recording" /\ Others(w)
           /\ job'[w].fresh = job[w].fresh /\ job'[w].answer = a
<1>1. job[w] \in Job
  BY DEF TypeOK
<1>2. pc' \in [Workers -> Steps] /\ pc'[w] = "recording"
      /\ \A v \in Workers : v # w => pc'[v] = pc[v]
  BY Moves DEF Steps
<1>3. Answered(job[w], a) \in Job
  BY <1>1, JobTypes
<1>4. /\ job' \in [Workers -> Job] /\ job'[w] = Answered(job[w], a)
      /\ \A v \in Workers : v # w => job'[v] = job[v]
  BY <1>3, Remembers DEF Heard
<1> QED
  BY <1>1, <1>2, <1>4, JobFields DEF Others

(* Nobody is protected when the order is open and its stored time is not   *)
(* a lease, or when it was never dispatched.                               *)
LEMMA NobodyProtected ==
    ASSUME IInv, ~order.dispatched \/ (~Closed /\ order.due.at # "soon")
    PROVE  \A v \in Workers : ~Protected(v)
<1> SUFFICES ASSUME NEW v \in Workers, Protected(v) PROVE FALSE
  OBVIOUS
<1>1. order.dispatched /\ (order.due = Lease(v) \/ Closed)
  BY DEF IInv, HolderHasLease
<1>2. Lease(v).at = "soon"
  BY DEF Lease
<1> QED
  BY <1>1, <1>2

(* A worker leaves: it lost its claim, or recorded what it came for.       *)
LEMMA Leaving ==
    ASSUME IInv, TypeOK', NEW w \in Workers, Finish(w),
           UNCHANGED <<trx, wire, sent>>,
           order'.dispatched = order.dispatched, order'.target = order.target,
           \A v \in Workers : v # w /\ Protected(v) =>
               Closed' \/ (order'.due = order.due /\ ~Closed),
           unasked => unasked',
           order'.digiflazz = "failed" /\ ~unasked' =>
               \/ order.digiflazz = "failed"
               \/ trx = "Gagal"
               \/ /\ trx = "none" /\ wire = {}
                  /\ \A v \in Workers : v # w => ~InFlightWorker(v),
           order'.digiflazz \in Checkable => order.dispatched,
           ExitsAreFailed'
    PROVE  IInv'
<1>1. pc'[w] = "idle" /\ Others(w)
  BY Finishes DEF IInv
<1>2. \A v \in Workers : Protected(v)' => v # w /\ Protected(v)
  BY <1>1 DEF Protected, Others
<1>3. \A v \in Workers : InFlightWorker(v)' => v # w /\ InFlightWorker(v)
  BY <1>1 DEF InFlightWorker, Others
<1>4. HolderHasLease'
  BY <1>2 DEF IInv, HolderHasLease, Lease
<1>5. OneHolder'
  BY <1>2 DEF IInv, OneHolder
<1>6. NothingBeforeDispatch'
  BY DEF IInv, NothingBeforeDispatch
<1>7. TargetsAgree'
  BY <1>1 DEF IInv, TargetsAgree, Others
<1>8. FirstIsFirst'
  BY <1>1, <1>3 DEF IInv, FirstIsFirst, Others
<1>9. GagalIsTrue'
  BY <1>1 DEF IInv, GagalIsTrue, Others
<1>10. FailedIsSafe'
  BY <1>3 DEF IInv, FailedIsSafe
<1> QED
  BY <1>4, <1>5, <1>6, <1>7, <1>8, <1>9, <1>10 DEF IInv

(* A worker claims an open order nobody is protected on.                   *)
LEMMA Claiming ==
    ASSUME IInv, TypeOK', NEW w \in Workers, Others(w),
           \A v \in Workers : ~Protected(v),
           UNCHANGED <<trx, wire, sent, unasked>>,
           pc[w] = "read", job'[w].fresh = job[w].fresh,
           \/ pc'[w] = "claimed" /\ job'[w].target = job[w].target
           \/ /\ pc'[w] = "recording" /\ w \in Dispatchers
              /\ job'[w].answer = "error",
           Processing, job[w].fresh => ~order.dispatched,
           order'.status = order.status, order'.byHand = order.byHand,
           order'.target = order.target, order'.dispatched = TRUE,
           w \in Askers => order.dispatched,
           order'.due = Lease(w), order'.digiflazz \in Checkable
    PROVE  IInv'
<1>1. \A v \in Workers : Protected(v)' => v = w
  BY DEF Protected, Others
<1>2. \A v \in Workers : InFlightWorker(v)' => v = w
  BY DEF Protected, InFlightWorker, Others
<1>3. HolderHasLease'
  BY <1>1 DEF HolderHasLease, Lease
<1>4. OneHolder'
  BY <1>1 DEF OneHolder
<1>5. NothingBeforeDispatch'
  BY DEF NothingBeforeDispatch
<1>6. TargetsAgree'
  BY DEF IInv, TargetsAgree, Others
<1>7. FirstIsFirst'
  BY <1>2 DEF IInv, FirstIsFirst, NothingBeforeDispatch, Others
<1>8. GagalIsTrue'
  BY DEF IInv, GagalIsTrue, Others
<1>9. FailedIsSafe'
  BY DEF FailedIsSafe, Checkable
<1>10. ExitsAreFailed'
  BY DEF IInv, ExitsAreFailed, Processing
<1> QED
  BY <1>3, <1>4, <1>5, <1>6, <1>7, <1>8, <1>9, <1>10 DEF IInv

(* In particular one that writes nothing to the order.                     *)
LEMMA Unchanging ==
    ASSUME IInv, TypeOK', NEW w \in Workers, Finish(w),
           UNCHANGED <<order, trx, wire, sent, unasked>>
    PROVE  IInv'
<1>1. \A v \in Workers : v # w /\ Protected(v) =>
          Closed' \/ (order'.due = order.due /\ ~Closed)
  BY DEF Closed, Processing
<1>2. order.digiflazz \in Checkable => order.dispatched
  BY DEF IInv, NothingBeforeDispatch
<1>3. ExitsAreFailed'
  BY DEF IInv, ExitsAreFailed, Processing
<1> QED
  BY <1>1, <1>2, <1>3, Leaving

-----------------------------------------------------------------------------
(* The workers' steps.                                                     *)
LEMMA ReadCandidateStep ==
    ASSUME IInv, NEW w \in Workers, ReadCandidate(w) PROVE IInv'
<1> USE DEF IInv
<1>1. PICK k \in BOOLEAN :
        job' = [job EXCEPT ![w] =
                  [NoJob EXCEPT !.fresh = ~order.dispatched, !.keyed = k,
                                !.unresolved = IsUnresolved,
                                !.attempts = order.attempts]]
  BY DEF ReadCandidate
<1> DEFINE j == [NoJob EXCEPT !.fresh = ~order.dispatched, !.keyed = k,
                              !.unresolved = IsUnresolved,
                              !.attempts = order.attempts]
<1>2. j \in Job
  <2>1. order.attempts \in 0 .. Window /\ order.dispatched \in BOOLEAN
    BY DEF TypeOK, OrderRec
  <2>2. IsUnresolved \in BOOLEAN
    BY DEF IsUnresolved
  <2> QED
    BY <2>1, <2>2, JobTypes DEF Job, NoJob
<1>3. job' \in [Workers -> Job] /\ \A v \in Workers : v # w => job'[v] = job[v]
  BY <1>1, <1>2, Remembers
<1>4. job'[w].fresh => ~order.dispatched
  BY <1>1, <1>2, Remembers DEF NoJob
<1>5. /\ pc' \in [Workers -> Steps] /\ pc'[w] = "read"
      /\ \A v \in Workers : v # w => pc'[v] = pc[v]
  BY Moves DEF ReadCandidate, Steps
<1>6. /\ w \in Dispatchers /\ w \notin Askers
      /\ UNCHANGED <<order, trx, wire, sent, weekOver, alerted, unasked,
                     faults, callbacks, edits>>
  BY DispatchAssumption DEF ReadCandidate
<1>7. TypeOK'
  BY <1>3, <1>5, <1>6 DEF TypeOK
<1>8. \A v \in Workers : (Protected(v)' => Protected(v))
                         /\ (InFlightWorker(v)' => InFlightWorker(v))
  BY <1>5 DEF Protected, InFlightWorker
<1>9. HolderHasLease' /\ OneHolder'
  BY <1>6, <1>8 DEF HolderHasLease, OneHolder, Closed, Processing, Lease
<1>10. NothingBeforeDispatch' /\ ExitsAreFailed'
  BY <1>6 DEF NothingBeforeDispatch, ExitsAreFailed, Processing
<1>11. TargetsAgree'
  BY <1>3, <1>5, <1>6 DEF TargetsAgree
<1>12. FirstIsFirst'
  BY <1>3, <1>5, <1>6, <1>8 DEF FirstIsFirst, InFlightWorker
<1>13. GagalIsTrue'
  BY <1>3, <1>5, <1>6 DEF GagalIsTrue
<1>14. FailedIsSafe'
  BY <1>6, <1>8 DEF FailedIsSafe
<1> QED
  BY <1>7, <1>9, <1>10, <1>11, <1>12, <1>13, <1>14

LEMMA StartCheckStep ==
    ASSUME IInv, NEW w \in Workers, StartCheck(w) PROVE IInv'
<1> USE DEF IInv
<1> DEFINE j == [NoJob EXCEPT !.keyed = TRUE, !.target = order.target]
<1>1. job' = [job EXCEPT ![w] = j]
  BY DEF StartCheck
<1>2. j \in Job /\ ~j.fresh /\ j.target = order.target
  <2>1. order.target \in Targets
    BY DEF TypeOK, OrderRec
  <2> QED
    BY <2>1, JobTypes DEF Job, NoJob
<1> HIDE DEF j
<1>3. /\ job' \in [Workers -> Job] /\ job'[w] = j
      /\ \A v \in Workers : v # w => job'[v] = job[v]
  BY <1>1, <1>2, Remembers
<1>4. /\ pc' \in [Workers -> Steps] /\ pc'[w] = "read"
      /\ \A v \in Workers : v # w => pc'[v] = pc[v]
  BY Moves DEF StartCheck, Steps
<1>5. /\ w \in Askers /\ order.dispatched
      /\ UNCHANGED <<order, trx, wire, sent, weekOver, alerted, unasked,
                     faults, edits>>
      /\ callbacks' = callbacks + 1
  BY DEF StartCheck, Waiting
<1>6. TypeOK'
  BY <1>3, <1>4, <1>5 DEF TypeOK
<1>7. \A v \in Workers : (Protected(v)' => Protected(v))
                         /\ (InFlightWorker(v)' => InFlightWorker(v))
  BY <1>4 DEF Protected, InFlightWorker
<1>8. HolderHasLease' /\ OneHolder'
  BY <1>5, <1>7 DEF HolderHasLease, OneHolder, Closed, Processing, Lease
<1>9. NothingBeforeDispatch' /\ ExitsAreFailed'
  BY <1>5 DEF NothingBeforeDispatch, ExitsAreFailed, Processing
<1>10. TargetsAgree'
  BY <1>2, <1>3, <1>4, <1>5 DEF TargetsAgree
<1>11. FirstIsFirst'
  BY <1>2, <1>3, <1>4, <1>5, <1>7 DEF FirstIsFirst, InFlightWorker
<1>12. GagalIsTrue'
  BY <1>3, <1>4, <1>5 DEF GagalIsTrue
<1>13. FailedIsSafe'
  BY <1>5, <1>7 DEF FailedIsSafe
<1> QED
  BY <1>6, <1>8, <1>9, <1>10, <1>11, <1>12, <1>13

LEMMA RemindStep ==
    ASSUME IInv, NEW w \in Workers, Remind(w) PROVE IInv'
<1> USE DEF IInv
<1>1. order \in OrderRec
  BY DEF TypeOK
<1>2. /\ Finish(w) /\ pc' \in [Workers -> Steps] /\ job' \in [Workers -> Job]
  BY Finishes DEF Remind
<1>3. UNCHANGED <<trx, wire, sent, weekOver, unasked, faults, callbacks, edits>>
  BY DEF Remind
<1>4. CASE Processing /\ IsUnresolved /\ order.due.at = "now"
  <2>1. order' = DueAt(order, Later) /\ alerted' = TRUE
    BY <1>4 DEF Remind
  <2>2. order' \in OrderRec
    BY <2>1, <1>1, DueTypes, OrderTypes
  <2>3. /\ order'.status = order.status /\ order'.digiflazz = order.digiflazz
        /\ order'.dispatched = order.dispatched
        /\ order'.target = order.target /\ order'.byHand = order.byHand
    BY <2>1, <1>1, DueAtFields
  <2>4. TypeOK'
    BY <1>2, <1>3, <2>1, <2>2 DEF TypeOK
  <2>5. \A v \in Workers : ~Protected(v)
    BY <1>4, NobodyProtected DEF Closed, IsUnresolved
  <2>6. order.digiflazz \in Checkable => order.dispatched
    BY DEF NothingBeforeDispatch
  <2>7. ExitsAreFailed'
    BY <2>3 DEF ExitsAreFailed, Processing
  <2> QED
    BY <1>2, <1>3, <2>3, <2>4, <2>5, <2>6, <2>7, Leaving
<1>5. CASE ~(Processing /\ IsUnresolved /\ order.due.at = "now")
  <2>1. UNCHANGED <<order, alerted>>
    BY <1>5 DEF Remind
  <2>2. TypeOK' /\ ExitsAreFailed'
    BY <1>2, <1>3, <2>1 DEF TypeOK, ExitsAreFailed, Processing
  <2> QED
    BY <1>2, <1>3, <2>1, <2>2, Unchanging
<1> QED
  BY <1>4, <1>5

(* Failing the order is safe for any worker that has a reason.             *)
LEMMA TerminalFailSafe ==
    ASSUME IInv, NEW w \in Workers, TerminalFail(w),
           UNCHANGED <<trx, wire, sent, weekOver, faults, callbacks, edits>>,
           unasked' \in BOOLEAN, unasked => unasked',
           MayFail /\ ~unasked' =>
               \/ trx = "Gagal"
               \/ /\ trx = "none" /\ wire = {}
                  /\ \A v \in Workers : v # w => ~InFlightWorker(v)
    PROVE  IInv'
<1> USE DEF IInv
<1>1. order \in OrderRec
  BY DEF TypeOK
<1>2. /\ Finish(w) /\ pc' \in [Workers -> Steps] /\ job' \in [Workers -> Job]
  BY Finishes DEF TerminalFail
<1>3. order.digiflazz \in Checkable => order.dispatched
  BY DEF NothingBeforeDispatch
<1>4. CASE MayFail
  <2>1. order' = Failed(order) /\ alerted' = TRUE
    BY <1>4 DEF TerminalFail
  <2>2. order' \in OrderRec
    BY <2>1, <1>1, OrderTypes
  <2>3. /\ order'.status = order.status /\ order'.digiflazz = "failed"
        /\ order'.dispatched = order.dispatched
        /\ order'.target = order.target /\ order'.byHand = order.byHand
    BY <2>1, <1>1, FailedFields
  <2>4. TypeOK'
    BY <1>2, <2>1, <2>2 DEF TypeOK
  <2>5. Closed'
    BY <2>3 DEF Closed
  <2>6. ExitsAreFailed'
    BY <2>3 DEF ExitsAreFailed, Processing
  <2>7. order'.digiflazz \notin Checkable
    BY <2>3 DEF Checkable
  <2> QED
    BY <1>2, <1>3, <1>4, <2>3, <2>4, <2>5, <2>6, <2>7, Leaving
<1>5. CASE ~MayFail
  <2>1. UNCHANGED <<order, alerted>>
    BY <1>5 DEF TerminalFail
  <2>2. TypeOK'
    BY <1>2, <2>1 DEF TypeOK
  <2>3. \A v \in Workers : v # w /\ Protected(v) =>
            Closed' \/ (order'.due = order.due /\ ~Closed)
    BY <2>1 DEF Closed, Processing
  <2>4. ExitsAreFailed'
    BY <2>1 DEF ExitsAreFailed, Processing
  <2> QED
    BY <1>2, <1>3, <2>1, <2>2, <2>3, <2>4, Leaving
<1> QED
  BY <1>4, <1>5

LEMMA FailUnconfiguredStep ==
    ASSUME IInv, NEW w \in Workers, FailUnconfigured(w) PROVE IInv'
<1>1. /\ TerminalFail(w) /\ unasked' = (unasked \/ MayFail)
      /\ UNCHANGED <<trx, wire, sent, weekOver, faults, callbacks, edits>>
  BY DEF FailUnconfigured
<1>2. unasked' \in BOOLEAN /\ (unasked => unasked') /\ (MayFail => unasked')
  BY <1>1
<1> QED
  BY <1>1, <1>2, TerminalFailSafe

LEMMA ClaimFreshStep ==
    ASSUME IInv, NEW w \in Workers, ClaimFresh(w) PROVE IInv'
<1> USE DEF IInv
<1>1. order \in OrderRec
  BY DEF TypeOK
<1>2. /\ UNCHANGED <<trx, wire, sent, weekOver, alerted, unasked, faults,
                     callbacks, edits>>
      /\ pc[w] = "read" /\ w \in Dispatchers /\ w \notin Askers
  BY DispatchAssumption DEF ClaimFresh
<1>3. CASE FreshClaimable
  <2>1. order' = Dispatched(order, w) /\ Goto(w, "claimed") /\ job' = job
    BY <1>3 DEF ClaimFresh
  <2>2. /\ order' \in OrderRec
        /\ order'.status = order.status /\ order'.byHand = order.byHand
        /\ order'.digiflazz = "pending_at_supplier"
        /\ order'.dispatched = TRUE /\ order'.due = Lease(w)
        /\ order'.target = order.target
    BY <2>1, <1>1, OrderTypes, DispatchedFields
  <2>3. /\ pc' \in [Workers -> Steps] /\ pc'[w] = "claimed" /\ Others(w)
    BY <2>1, Moves DEF Others, Steps
  <2>4. TypeOK'
    BY <1>2, <2>1, <2>2, <2>3 DEF TypeOK
  <2>5. \A v \in Workers : ~Protected(v)
    BY <1>3, NobodyProtected DEF FreshClaimable
  <2>6. Processing /\ ~order.dispatched
    BY <1>3 DEF FreshClaimable
  <2>7. order'.digiflazz \in Checkable
    BY <2>2 DEF Checkable
  <2> QED
    BY <1>2, <2>1, <2>2, <2>3, <2>4, <2>5, <2>6, <2>7, Claiming
<1>4. CASE ~FreshClaimable
  <2>1. UNCHANGED order /\ Finish(w)
    BY <1>4 DEF ClaimFresh
  <2>2. TypeOK'
    BY <1>2, <2>1, Finishes DEF TypeOK
  <2> QED
    BY <1>2, <2>1, <2>2, Unchanging
<1> QED
  BY <1>3, <1>4

LEMMA ClaimRecheckStep ==
    ASSUME IInv, NEW w \in Workers, ClaimRecheck(w) PROVE IInv'
<1> USE DEF IInv
<1>1. order \in OrderRec
  BY DEF TypeOK
<1>2. /\ UNCHANGED <<trx, wire, sent, weekOver, alerted, unasked, faults,
                     callbacks, edits>>
      /\ pc[w] = "read" /\ w \in Dispatchers /\ w \notin Askers
      /\ ~job[w].fresh
  BY DispatchAssumption DEF ClaimRecheck
<1>3. CASE RecheckClaimable
  <2>1. order' = Leased(order, w)
    BY <1>3 DEF ClaimRecheck
  <2>2. /\ order' \in OrderRec
        /\ order'.status = order.status /\ order'.byHand = order.byHand
        /\ order'.digiflazz = order.digiflazz
        /\ order'.dispatched = order.dispatched /\ order'.due = Lease(w)
        /\ order'.target = order.target
    BY <2>1, <1>1, OrderTypes, LeasedFields
  <2>3. \A v \in Workers : ~Protected(v)
    BY <1>3, NobodyProtected DEF RecheckClaimable, Closed, Checkable
  <2>4. Processing /\ order.dispatched /\ order.digiflazz \in Checkable
    BY <1>3, <1>1 DEF RecheckClaimable, NothingBeforeDispatch
  <2>5. order.dispatched = TRUE
    BY <1>1, <2>4 DEF OrderRec
  <2>6. CASE job[w].keyed
    <3>1. Goto(w, "claimed") /\ job' = job
      BY <1>3, <2>6 DEF ClaimRecheck
    <3>2. /\ pc' \in [Workers -> Steps] /\ pc'[w] = "claimed" /\ Others(w)
      BY <3>1, Moves DEF Others, Steps
    <3>3. TypeOK'
      BY <1>2, <2>2, <3>1, <3>2 DEF TypeOK
    <3> QED
      BY <1>2, <2>2, <2>3, <2>4, <2>5, <3>1, <3>2, <3>3, Claiming
  <2>7. CASE ~job[w].keyed
    <3>1. Goto(w, "recording") /\ Heard(w, "error")
      BY <1>3, <2>7 DEF ClaimRecheck
    <3>2. /\ pc' \in [Workers -> Steps] /\ job' \in [Workers -> Job]
          /\ pc'[w] = "recording" /\ Others(w)
          /\ job'[w].fresh = job[w].fresh /\ job'[w].answer = "error"
      BY <3>1, Hears DEF Answers
    <3>3. TypeOK'
      BY <1>2, <2>2, <3>2 DEF TypeOK
    <3> QED
      BY <1>2, <2>2, <2>3, <2>4, <2>5, <3>2, <3>3, Claiming
  <2> QED
    BY <2>6, <2>7
<1>4. CASE ~RecheckClaimable
  <2>1. UNCHANGED order /\ Finish(w)
    BY <1>4 DEF ClaimRecheck
  <2>2. TypeOK'
    BY <1>2, <2>1, Finishes DEF TypeOK
  <2> QED
    BY <1>2, <2>1, <2>2, Unchanging
<1> QED
  BY <1>3, <1>4

LEMMA ClaimCheckStep ==
    ASSUME IInv, NEW w \in Workers, ClaimCheck(w) PROVE IInv'
<1> USE DEF IInv
<1>1. order \in OrderRec /\ order.due \in Due /\ job[w] \in Job
  BY DEF TypeOK, OrderRec
<1>2. /\ UNCHANGED <<trx, wire, sent, weekOver, alerted, unasked, faults,
                     callbacks, edits>>
      /\ pc[w] = "read" /\ w \in Askers /\ w \notin Dispatchers
  BY DispatchAssumption DEF ClaimCheck
<1>3. ~job[w].fresh
  BY <1>2 DEF FirstIsFirst
<1>4. CASE Waiting /\ NoLease
  <2>1. /\ job' = [job EXCEPT ![w] = Replacing(job[w], order.due)]
        /\ order' = Leased(order, w) /\ Goto(w, "claimed")
    BY <1>4 DEF ClaimCheck
  <2>2. /\ order' \in OrderRec
        /\ order'.status = order.status /\ order'.byHand = order.byHand
        /\ order'.digiflazz = order.digiflazz
        /\ order'.dispatched = order.dispatched /\ order'.due = Lease(w)
        /\ order'.target = order.target
    BY <2>1, <1>1, OrderTypes, LeasedFields
  <2>3. Replacing(job[w], order.due) \in Job
    BY <1>1, JobTypes
  <2>4. /\ job' \in [Workers -> Job]
        /\ job'[w] = Replacing(job[w], order.due)
        /\ \A v \in Workers : v # w => job'[v] = job[v]
    BY <2>1, <2>3, Remembers
  <2>5. job'[w].fresh = job[w].fresh /\ job'[w].target = job[w].target
    BY <2>4, <1>1, JobFields
  <2>6. /\ pc' \in [Workers -> Steps] /\ pc'[w] = "claimed" /\ Others(w)
    BY <2>1, <2>4, Moves DEF Others, Steps
  <2>7. TypeOK'
    BY <1>2, <2>2, <2>4, <2>6 DEF TypeOK
  <2>8. Processing /\ order.dispatched = TRUE /\ order.digiflazz \in Checkable
    BY <1>1, <1>4 DEF Waiting, OrderRec
  <2>9. \A v \in Workers : ~Protected(v)
    BY <1>4, <2>8, NobodyProtected DEF NoLease, Closed, Checkable
  <2> QED
    BY <1>2, <1>3, <2>2, <2>5, <2>6, <2>7, <2>8, <2>9, Claiming
<1>5. CASE ~(Waiting /\ NoLease)
  <2>1. UNCHANGED order /\ Finish(w)
    BY <1>5 DEF ClaimCheck
  <2>2. TypeOK'
    BY <1>2, <2>1, Finishes DEF TypeOK
  <2> QED
    BY <1>2, <2>1, <2>2, Unchanging
<1> QED
  BY <1>4, <1>5

(* A worker hears, or stops waiting for, the answer to its request.        *)
LEMMA Hearing ==
    ASSUME IInv, TypeOK', NEW w \in Workers, InFlightWorker(w),
           pc'[w] = "recording", Others(w), job'[w].fresh = job[w].fresh,
           UNCHANGED <<order, sent, unasked>>,
           job'[w].answer = "refused" =>
               job[w].fresh /\ UNCHANGED <<trx, wire>>,
           job'[w].answer = "Gagal" => trx' = "Gagal",
           trx = "Gagal" => trx' = "Gagal"
    PROVE  IInv'
<1> USE DEF IInv
<1>1. Protected(w)
  BY DEF Protected, InFlightWorker
<1>2. \A v \in Workers : Protected(v)' => Protected(v)
  BY <1>1 DEF Protected, InFlightWorker, Others
<1>3. \A v \in Workers : v # w => ~Protected(v) /\ ~InFlightWorker(v)
  BY <1>1 DEF OneHolder, Protected, InFlightWorker
<1>4. HolderHasLease' /\ OneHolder'
  BY <1>2 DEF HolderHasLease, OneHolder, Closed, Processing, Lease
<1>5. NothingBeforeDispatch'
  BY <1>1 DEF NothingBeforeDispatch, HolderHasLease
<1>6. TargetsAgree'
  BY DEF TargetsAgree, Others
<1>7. FirstIsFirst'
  <2> SUFFICES ASSUME NEW v \in Workers
               PROVE  /\ pc'[v] # "idle" /\ job'[v].fresh => v \in Dispatchers
                      /\ pc'[v] = "recording" /\ job'[v].answer = "refused"
                             => job'[v].fresh
                      /\ /\ pc'[v] # "idle" /\ job'[v].fresh
                         /\ \/ InFlightWorker(v)'
                            \/ pc'[v] = "recording" /\ job'[v].answer = "refused"
                         => trx' = "none" /\ wire' = {}
    BY DEF FirstIsFirst
  <2>1. CASE v = w
    BY <2>1 DEF FirstIsFirst, InFlightWorker
  <2>2. CASE v # w
    <3>1. pc'[v] = pc[v] /\ job'[v] = job[v]
      BY <2>2 DEF Others
    <3>2. ~InFlightWorker(v) /\ ~Protected(v)
      BY <2>2, <1>3
    <3> QED
      BY <3>1, <3>2 DEF FirstIsFirst, InFlightWorker, Protected
  <2> QED
    BY <2>1, <2>2
<1>8. GagalIsTrue'
  BY DEF GagalIsTrue, Others
<1>9. FailedIsSafe'
  BY DEF FailedIsSafe
<1>10. ExitsAreFailed'
  BY DEF ExitsAreFailed, Processing
<1> QED
  BY <1>4, <1>5, <1>6, <1>7, <1>8, <1>9, <1>10

LEMMA UnfitStep ==
    ASSUME IInv, NEW w \in Workers, Unfit(w) PROVE IInv'
<1> USE DEF IInv
<1>1. InFlightWorker(w) /\ Protected(w)
  BY DEF Unfit, InFlightWorker, Protected
<1>2. UNCHANGED <<trx, wire, sent, weekOver, unasked, faults, callbacks, edits>>
  BY DEF Unfit
<1>3. CASE job[w].fresh
  <2>1. TerminalFail(w)
    BY <1>3 DEF Unfit
  <2>2. trx = "none" /\ wire = {}
    BY <1>1, <1>3 DEF FirstIsFirst, InFlightWorker
  <2>3. \A v \in Workers : v # w => ~InFlightWorker(v)
    BY <1>1 DEF OneHolder, Protected, InFlightWorker
  <2>4. unasked' \in BOOLEAN
    BY <1>2 DEF TypeOK
  <2> QED
    BY <1>2, <2>1, <2>2, <2>3, <2>4, TerminalFailSafe
<1>4. CASE ~job[w].fresh
  <2>1. /\ Goto(w, "recording") /\ Heard(w, "error")
        /\ UNCHANGED <<order, alerted>>
    BY <1>4 DEF Unfit
  <2>2. /\ pc' \in [Workers -> Steps] /\ job' \in [Workers -> Job]
        /\ pc'[w] = "recording" /\ Others(w)
        /\ job'[w].fresh = job[w].fresh /\ job'[w].answer = "error"
    BY <2>1, Hears DEF Answers
  <2>3. TypeOK'
    BY <1>2, <2>1, <2>2 DEF TypeOK
  <2> QED
    BY <1>1, <1>2, <2>1, <2>2, <2>3, Hearing
<1> QED
  BY <1>3, <1>4

LEMMA SendStep ==
    ASSUME IInv, NEW w \in Workers, Send(w) PROVE IInv'
<1> USE DEF IInv
<1>1. order \in OrderRec /\ order.target \in Targets /\ job[w] \in Job
  BY DEF TypeOK, OrderRec
<1>2. /\ pc[w] = "claimed" /\ InFlightWorker(w) /\ Protected(w)
      /\ UNCHANGED <<order, trx, wire, weekOver, alerted, unasked, faults,
                     callbacks, edits>>
  BY DEF Send, InFlightWorker, Protected
<1>3. order.dispatched
  BY <1>2 DEF HolderHasLease
<1>4. Submitted(w) = order.target
  BY <1>2 DEF Submitted, TargetsAgree, Workers
<1>5. sent' = sent \cup {order.target}
  BY <1>4 DEF Send
<1>6. Asking(job[w], order.target) \in Job
  BY <1>1, JobTypes
<1>7. /\ job' \in [Workers -> Job] /\ job'[w] = Asking(job[w], order.target)
      /\ \A v \in Workers : v # w => job'[v] = job[v]
  BY <1>4, <1>6, Remembers DEF Send
<1>8. job'[w].fresh = job[w].fresh /\ job'[w].target = order.target
  BY <1>1, <1>7, JobFields
<1>9. /\ pc' \in [Workers -> Steps] /\ pc'[w] = "asking"
      /\ \A v \in Workers : v # w => pc'[v] = pc[v]
  BY Moves DEF Send, Steps
<1>10. TypeOK'
  BY <1>1, <1>2, <1>5, <1>7, <1>9 DEF TypeOK
<1>11. \A v \in Workers : (Protected(v)' => Protected(v))
                          /\ (InFlightWorker(v)' => InFlightWorker(v))
  BY <1>2, <1>9 DEF Protected, InFlightWorker
<1>12. HolderHasLease' /\ OneHolder'
  BY <1>2, <1>11 DEF HolderHasLease, OneHolder, Closed, Processing, Lease
<1>13. NothingBeforeDispatch' /\ ExitsAreFailed'
  BY <1>2, <1>3 DEF NothingBeforeDispatch, ExitsAreFailed, Processing
<1>14. TargetsAgree'
  BY <1>2, <1>5, <1>7, <1>8, <1>9 DEF TargetsAgree
<1>15. FirstIsFirst'
  BY <1>2, <1>7, <1>8, <1>9, <1>11 DEF FirstIsFirst, InFlightWorker
<1>16. GagalIsTrue'
  BY <1>2, <1>7, <1>9 DEF GagalIsTrue
<1>17. FailedIsSafe'
  BY <1>2, <1>11 DEF FailedIsSafe
<1> QED
  BY <1>10, <1>12, <1>13, <1>14, <1>15, <1>16, <1>17

LEMMA ServeStep ==
    ASSUME IInv, NEW w \in Workers, Serve(w) PROVE IInv'
<1> USE DEF IInv
<1>1. /\ InFlightWorker(w) /\ Goto(w, "recording")
      /\ UNCHANGED <<order, wire, sent, weekOver, alerted, unasked, faults,
                     callbacks, edits>>
  BY DEF Serve, InFlightWorker
<1>2. trx' \in TrxStates \ {"none"} /\ (trx = "Gagal" => trx' = "Gagal")
  BY DEF Serve, TypeOK, TrxStates
<1>3. PICK a \in {trx', "error"} : Heard(w, a)
  BY DEF Serve
<1>4. a \in Answers /\ a # "refused"
  BY <1>2 DEF Answers, TrxStates
<1>5. /\ pc' \in [Workers -> Steps] /\ job' \in [Workers -> Job]
      /\ pc'[w] = "recording" /\ Others(w)
      /\ job'[w].fresh = job[w].fresh /\ job'[w].answer = a
  BY <1>1, <1>3, <1>4, Hears
<1>6. TypeOK'
  BY <1>1, <1>2, <1>5 DEF TypeOK
<1>7. job'[w].answer = "Gagal" => trx' = "Gagal"
  BY <1>5
<1> QED
  BY <1>1, <1>2, <1>4, <1>5, <1>6, <1>7, Hearing

LEMMA RefuseStep ==
    ASSUME IInv, NEW w \in Workers, Refuse(w) PROVE IInv'
<1> USE DEF IInv
<1>1. /\ InFlightWorker(w) /\ Goto(w, "recording")
      /\ UNCHANGED <<order, trx, wire, sent, weekOver, alerted, unasked,
                     faults, callbacks, edits>>
  BY DEF Refuse, InFlightWorker
<1>2. PICK a \in {"refused", "error"} :
          Heard(w, a) /\ (a = "refused" => job[w].fresh)
  BY DEF Refuse
<1>3. a \in Answers /\ a # "Gagal"
  BY DEF Answers
<1>4. /\ pc' \in [Workers -> Steps] /\ job' \in [Workers -> Job]
      /\ pc'[w] = "recording" /\ Others(w)
      /\ job'[w].fresh = job[w].fresh /\ job'[w].answer = a
  BY <1>1, <1>2, <1>3, Hears
<1>5. TypeOK'
  BY <1>1, <1>4 DEF TypeOK
<1> QED
  BY <1>1, <1>2, <1>3, <1>4, <1>5, Hearing

LEMMA TimeOutStep ==
    ASSUME IInv, NEW w \in Workers, TimeOut(w) PROVE IInv'
<1> USE DEF IInv
<1>1. /\ InFlightWorker(w) /\ Goto(w, "recording") /\ Heard(w, "error")
      /\ UNCHANGED <<order, trx, sent, weekOver, alerted, unasked, faults,
                     callbacks, edits>>
  BY DEF TimeOut, InFlightWorker
<1>2. job[w].target = order.target /\ order.target \in Targets
  BY DEF TimeOut, TargetsAgree, TypeOK, OrderRec
<1>3. wire' \in SUBSET Targets
  BY <1>2 DEF TimeOut, TypeOK
<1>4. /\ pc' \in [Workers -> Steps] /\ job' \in [Workers -> Job]
      /\ pc'[w] = "recording" /\ Others(w)
      /\ job'[w].fresh = job[w].fresh /\ job'[w].answer = "error"
  BY <1>1, Hears DEF Answers
<1>5. TypeOK'
  BY <1>1, <1>3, <1>4 DEF TypeOK
<1> QED
  BY <1>1, <1>4, <1>5, Hearing

LEMMA FulfilStep ==
    ASSUME IInv, NEW w \in Workers, Fulfil(w) PROVE IInv'
<1> USE DEF IInv
<1>1. order \in OrderRec
  BY DEF TypeOK
<1>2. /\ Finish(w) /\ pc' \in [Workers -> Steps] /\ job' \in [Workers -> Job]
      /\ UNCHANGED <<trx, wire, sent, weekOver, unasked, faults, callbacks,
                     edits>>
  BY Finishes DEF Fulfil
<1>3. CASE Processing
  <2>1. order' = Delivered(order) /\ UNCHANGED alerted
    BY <1>3 DEF Fulfil
  <2>2. /\ order' \in OrderRec
        /\ order'.status = "DELIVERED" /\ order'.digiflazz = "null"
        /\ order'.dispatched = order.dispatched
        /\ order'.target = order.target /\ order'.byHand = order.byHand
    BY <2>1, <1>1, OrderTypes, DeliveredFields
  <2>3. TypeOK'
    BY <1>2, <2>1, <2>2 DEF TypeOK
  <2>4. Closed' /\ order'.digiflazz \notin Checkable
    BY <2>2 DEF Closed, Processing, Checkable
  <2>5. ExitsAreFailed'
    BY <2>2, <1>3 DEF ExitsAreFailed
  <2> QED
    BY <1>2, <2>2, <2>3, <2>4, <2>5, Leaving
<1>4. CASE ~Processing
  <2>1. UNCHANGED order /\ alerted' = (alerted \/ w \notin Hooks)
    BY <1>4 DEF Fulfil
  <2>2. TypeOK'
    BY <1>2, <2>1 DEF TypeOK
  <2> QED
    BY <1>2, <2>1, <2>2, Unchanging
<1> QED
  BY <1>3, <1>4

LEMMA FulfilFailsStep ==
    ASSUME IInv, NEW w \in Workers, FulfilFails(w) PROVE IInv'
<1> USE DEF IInv
<1>1. /\ Finish(w) /\ pc' \in [Workers -> Steps] /\ job' \in [Workers -> Job]
      /\ alerted' = (alerted \/ w \notin Hooks) /\ faults' = faults + 1
      /\ UNCHANGED <<order, trx, wire, sent, weekOver, unasked, callbacks, edits>>
  BY Finishes DEF FulfilFails
<1>2. TypeOK'
  BY <1>1 DEF TypeOK
<1> QED
  BY <1>1, <1>2, Unchanging

LEMMA RecordFailureStep ==
    ASSUME IInv, NEW w \in Workers, RecordFailure(w) PROVE IInv'
<1> USE DEF IInv
<1>1. /\ pc[w] = "recording" /\ Terminal(w) /\ TerminalFail(w)
      /\ UNCHANGED <<trx, wire, sent, weekOver, unasked, faults, callbacks,
                     edits>>
  BY DEF RecordFailure
<1>2. unasked' \in BOOLEAN /\ unasked' = unasked
  BY <1>1 DEF TypeOK
<1>3. CASE job[w].answer = "Gagal"
  <2>1. trx = "Gagal"
    BY <1>1, <1>3 DEF GagalIsTrue
  <2> QED
    BY <1>1, <1>2, <2>1, TerminalFailSafe
<1>4. CASE job[w].answer = "refused"
  <2>1. trx = "none" /\ wire = {} /\ w \in Dispatchers
    BY <1>1, <1>4 DEF FirstIsFirst
  <2>2. \A v \in Workers : v # w => ~InFlightWorker(v)
    BY <1>1, <2>1 DEF OneHolder, Protected, InFlightWorker
  <2> QED
    BY <1>1, <1>2, <2>1, <2>2, TerminalFailSafe
<1> QED
  BY <1>1, <1>3, <1>4 DEF Terminal

LEMMA RecordPendingStep ==
    ASSUME IInv, NEW w \in Workers, RecordPending(w) PROVE IInv'
<1> USE DEF IInv
<1>1. order \in OrderRec /\ job[w].attempts \in 0 .. Window
  BY DEF TypeOK, Job
<1>2. /\ Finish(w) /\ pc' \in [Workers -> Steps] /\ job' \in [Workers -> Job]
      /\ UNCHANGED <<trx, wire, sent, weekOver, alerted, unasked, faults,
                     callbacks, edits>>
  BY Finishes DEF RecordPending
<1>3. pc[w] = "recording" /\ w \in Dispatchers
  BY DEF RecordPending
<1>4. CASE MayPend
  <2>1. order' = Pending(order, Attempt(w))
    BY <1>4 DEF RecordPending
  <2>2. Attempt(w) \in 0 .. Window
    BY <1>1, DispatchAssumption DEF Attempt
  <2>3. /\ order' \in OrderRec
        /\ order'.status = order.status
        /\ order'.digiflazz = "pending_at_supplier"
        /\ order'.dispatched = order.dispatched
        /\ order'.target = order.target /\ order'.byHand = order.byHand
    BY <2>1, <2>2, <1>1, OrderTypes, PendingFields
  <2>4. TypeOK'
    BY <1>2, <2>3 DEF TypeOK
  <2>5. Protected(w) /\ order.dispatched
    BY <1>3 DEF Protected, HolderHasLease
  <2>6. \A v \in Workers : v # w => ~Protected(v)
    BY <2>5 DEF OneHolder
  <2>7. ExitsAreFailed'
    BY <1>4, <2>3 DEF ExitsAreFailed, MayPend, Processing
  <2> QED
    BY <1>2, <2>3, <2>4, <2>5, <2>6, <2>7, Leaving
<1>5. CASE ~MayPend
  <2>1. UNCHANGED order
    BY <1>5 DEF RecordPending
  <2>2. TypeOK'
    BY <1>2, <2>1 DEF TypeOK
  <2> QED
    BY <1>2, <2>1, <2>2, Unchanging
<1> QED
  BY <1>4, <1>5

LEMMA RecordUnresolvedStep ==
    ASSUME IInv, NEW w \in Workers, RecordUnresolved(w) PROVE IInv'
<1> USE DEF IInv
<1>1. order \in OrderRec /\ Attempt(w) \in 0 .. Window
  BY DispatchAssumption DEF TypeOK, RecordUnresolved
<1>2. /\ Finish(w) /\ pc' \in [Workers -> Steps] /\ job' \in [Workers -> Job]
      /\ UNCHANGED <<trx, wire, sent, weekOver, unasked, faults, callbacks,
                     edits>>
  BY Finishes DEF RecordUnresolved
<1>3. pc[w] = "recording" /\ w \in Dispatchers
  BY DEF RecordUnresolved
<1>4. CASE Processing /\ order.digiflazz \in Checkable
  <2>1. /\ order' = Unresolved(order, Attempt(w))
        /\ alerted' = (alerted \/ ~IsUnresolved \/ weekOver)
    BY <1>4 DEF RecordUnresolved
  <2>2. /\ order' \in OrderRec
        /\ order'.status = order.status
        /\ order'.digiflazz = "unresolved_at_supplier"
        /\ order'.dispatched = order.dispatched
        /\ order'.target = order.target /\ order'.byHand = order.byHand
    BY <2>1, <1>1, OrderTypes, UnresolvedFields
  <2>3. TypeOK'
    BY <1>2, <2>1, <2>2 DEF TypeOK
  <2>4. Protected(w) /\ order.dispatched
    BY <1>3 DEF Protected, HolderHasLease
  <2>5. \A v \in Workers : v # w => ~Protected(v)
    BY <2>4 DEF OneHolder
  <2>6. ExitsAreFailed'
    BY <1>4, <2>2 DEF ExitsAreFailed, Checkable, Processing
  <2> QED
    BY <1>2, <2>2, <2>3, <2>4, <2>5, <2>6, Leaving
<1>5. CASE ~(Processing /\ order.digiflazz \in Checkable)
  <2>1. UNCHANGED <<order, alerted>>
    BY <1>5 DEF RecordUnresolved
  <2>2. TypeOK'
    BY <1>2, <2>1 DEF TypeOK
  <2> QED
    BY <1>2, <2>1, <2>2, Unchanging
<1> QED
  BY <1>4, <1>5

LEMMA RecordCheckStep ==
    ASSUME IInv, NEW w \in Workers, RecordCheck(w) PROVE IInv'
<1> USE DEF IInv
<1>1. order \in OrderRec /\ job[w].scheduled \in Due
  BY DEF TypeOK, Job
<1>2. /\ Finish(w) /\ pc' \in [Workers -> Steps] /\ job' \in [Workers -> Job]
      /\ UNCHANGED <<trx, wire, sent, weekOver, alerted, unasked, faults,
                     callbacks, edits>>
  BY Finishes DEF RecordCheck
<1>3. CASE StillMine(w)
  <2>1. order' = DueAt(order, Restored(job[w].scheduled))
    BY <1>3 DEF RecordCheck
  <2>2. /\ order' \in OrderRec
        /\ order'.status = order.status /\ order'.digiflazz = order.digiflazz
        /\ order'.dispatched = order.dispatched
        /\ order'.target = order.target /\ order'.byHand = order.byHand
    BY <2>1, <1>1, DueTypes, OrderTypes, DueAtFields
  <2>3. TypeOK'
    BY <1>2, <2>2 DEF TypeOK
  <2>4. ~Closed /\ order.due.by = w
    BY <1>3 DEF StillMine, Closed, Checkable
  <2>5. ASSUME NEW v \in Workers, Protected(v) PROVE v = w
    <3>1. order.due = Lease(v)
      BY <2>4, <2>5 DEF HolderHasLease
    <3>2. Lease(v).by = v
      BY DEF Lease
    <3> QED
      BY <2>4, <3>1, <3>2
  <2>6. order.digiflazz \in Checkable => order.dispatched
    BY DEF NothingBeforeDispatch
  <2>7. ExitsAreFailed'
    BY <2>2 DEF ExitsAreFailed, Processing
  <2> QED
    BY <1>2, <2>2, <2>3, <2>5, <2>6, <2>7, Leaving
<1>4. CASE ~StillMine(w)
  <2>1. UNCHANGED order
    BY <1>4 DEF RecordCheck
  <2>2. TypeOK'
    BY <1>2, <2>1 DEF TypeOK
  <2> QED
    BY <1>2, <2>1, <2>2, Unchanging
<1> QED
  BY <1>3, <1>4

LEMMA CrashStep ==
    ASSUME IInv, NEW w \in Workers, Crash(w) PROVE IInv'
<1> USE DEF IInv
<1>1. /\ Finish(w) /\ pc' \in [Workers -> Steps] /\ job' \in [Workers -> Job]
      /\ pc'[w] = "idle" /\ Others(w) /\ faults' = faults + 1
      /\ UNCHANGED <<order, trx, sent, weekOver, alerted, unasked, callbacks,
                     edits>>
  BY Finishes DEF Crash
<1>2. CASE wire' = wire
  <2>1. TypeOK'
    BY <1>1, <1>2 DEF TypeOK
  <2> QED
    BY <1>1, <1>2, <2>1, Unchanging
<1>3. CASE pc[w] = "asking" /\ wire' = wire \cup {job[w].target}
  <2>1. job[w].target = order.target /\ order.target \in Targets
    BY <1>3 DEF TargetsAgree, TypeOK, OrderRec
  <2>2. TypeOK'
    BY <1>1, <1>3, <2>1 DEF TypeOK
  <2>3. Protected(w) /\ InFlightWorker(w) /\ order.dispatched
    BY <1>3 DEF Protected, InFlightWorker, HolderHasLease
  <2>4. \A v \in Workers : ~Protected(v)' /\ ~InFlightWorker(v)'
    BY <1>1, <2>3 DEF OneHolder, Protected, InFlightWorker, Others
  <2>5. HolderHasLease' /\ OneHolder'
    BY <2>4 DEF HolderHasLease, OneHolder
  <2>6. NothingBeforeDispatch' /\ ExitsAreFailed'
    BY <1>1, <2>3 DEF NothingBeforeDispatch, ExitsAreFailed, Processing
  <2>7. TargetsAgree'
    BY <1>1 DEF TargetsAgree, Others
  <2>8. FirstIsFirst'
    <3> SUFFICES ASSUME NEW v \in Workers, pc'[v] # "idle"
                 PROVE  /\ job'[v].fresh => v \in Dispatchers
                        /\ ~(pc'[v] = "recording" /\ job'[v].answer = "refused")
      BY <2>4 DEF FirstIsFirst
    <3>1. v # w /\ pc'[v] = pc[v] /\ job'[v] = job[v]
      BY <1>1 DEF Others
    <3>2. v \in Dispatchers /\ pc[v] = "recording" => Protected(v)'
      BY <3>1 DEF Protected
    <3> QED
      BY <2>4, <3>1, <3>2 DEF FirstIsFirst
  <2>9. GagalIsTrue'
    BY <1>1 DEF GagalIsTrue, Others
  <2>10. FailedIsSafe'
    BY <1>1, <2>3 DEF FailedIsSafe
  <2> QED
    BY <2>2, <2>5, <2>6, <2>7, <2>8, <2>9, <2>10
<1> QED
  BY <1>2, <1>3 DEF Crash

-----------------------------------------------------------------------------
(* Steps outside the workers.                                              *)
LEMMA Staying ==
    ASSUME IInv, TypeOK', UNCHANGED <<trx, wire, sent, unasked, pc, job>>,
           order'.dispatched = order.dispatched, order'.target = order.target,
           \A v \in Workers : Protected(v) =>
               Closed' \/ (order'.due = order.due /\ ~Closed),
           order'.digiflazz = "failed" =>
               \/ order.digiflazz = "failed"
               \/ trx = "Gagal"
               \/ /\ trx = "none" /\ wire = {}
                  /\ \A v \in Workers : ~InFlightWorker(v),
           order'.digiflazz \in Checkable => order.digiflazz \in Checkable,
           ExitsAreFailed'
    PROVE  IInv'
<1> USE DEF IInv
<1>1. \A v \in Workers : (Protected(v)' <=> Protected(v))
                         /\ (InFlightWorker(v)' <=> InFlightWorker(v))
  BY DEF Protected, InFlightWorker
<1>2. HolderHasLease'
  BY <1>1 DEF HolderHasLease, Lease
<1>3. OneHolder'
  BY <1>1 DEF OneHolder
<1>4. NothingBeforeDispatch'
  BY DEF NothingBeforeDispatch
<1>5. TargetsAgree' /\ GagalIsTrue'
  BY DEF TargetsAgree, GagalIsTrue
<1>6. FirstIsFirst'
  BY <1>1 DEF FirstIsFirst
<1>7. FailedIsSafe'
  BY <1>1 DEF FailedIsSafe
<1> QED
  BY <1>2, <1>3, <1>4, <1>5, <1>6, <1>7

LEMMA SupplierStep ==
    ASSUME IInv, LateArrival \/ SupplierDecides PROVE IInv'
<1> USE DEF IInv
<1>1. /\ UNCHANGED <<order, sent, weekOver, alerted, unasked, pc, job, faults,
                     callbacks, edits>>
      /\ wire # {} \/ trx # "none"
      /\ trx' \in TrxStates /\ wire' \in SUBSET Targets
      /\ trx = "Gagal" => trx' = "Gagal"
  BY DEF LateArrival, SupplierDecides, TypeOK, TrxStates
<1>2. TypeOK'
  BY <1>1 DEF TypeOK
<1>3. \A v \in Workers : (Protected(v)' <=> Protected(v))
                         /\ (InFlightWorker(v)' <=> InFlightWorker(v))
  BY <1>1 DEF Protected, InFlightWorker
<1>4. HolderHasLease' /\ OneHolder'
  BY <1>1, <1>3 DEF HolderHasLease, OneHolder, Closed, Processing, Lease
<1>5. NothingBeforeDispatch' /\ ExitsAreFailed'
  BY <1>1 DEF NothingBeforeDispatch, ExitsAreFailed, Processing
<1>6. TargetsAgree' /\ GagalIsTrue'
  BY <1>1 DEF TargetsAgree, GagalIsTrue
<1>7. FirstIsFirst'
  BY <1>1, <1>3 DEF FirstIsFirst
<1>8. FailedIsSafe'
  BY <1>1, <1>3 DEF FailedIsSafe
<1> QED
  BY <1>2, <1>4, <1>5, <1>6, <1>7, <1>8

LEMMA OverrideStep ==
    ASSUME IInv, MarkFailed \/ MarkDelivered PROVE IInv'
<1> USE DEF IInv
<1>1. order \in OrderRec
  BY DEF TypeOK
<1>2. /\ UNCHANGED <<trx, wire, sent, weekOver, alerted, unasked, pc, job,
                     faults, callbacks, edits>>
      /\ Overridable
  BY DEF MarkFailed, MarkDelivered
<1>3. \A v \in Workers : ~Protected(v) /\ ~InFlightWorker(v)
  BY <1>2, NobodyProtected
     DEF Overridable, NoLease, Closed, IsUnresolved, Protected, InFlightWorker
<1>4. /\ order' \in OrderRec
      /\ order'.dispatched = order.dispatched
      /\ order'.target = order.target /\ order'.byHand = order.byHand
      /\ order'.digiflazz \notin Checkable
      /\ order'.digiflazz = "failed" => MarkFailed
      /\ order'.status # "CANCELLED"
  <2>1. CASE MarkFailed
    BY <2>1, <1>1, <1>2, OrderTypes, FailedFields
       DEF MarkFailed, Overridable, Processing, Checkable
  <2>2. CASE MarkDelivered
    BY <2>2, <1>1, OrderTypes, DeliveredFields DEF MarkDelivered, Checkable
  <2> QED
    BY <2>1, <2>2, <1>2 DEF MarkFailed, MarkDelivered
<1>5. TypeOK'
  BY <1>2, <1>4 DEF TypeOK
<1>6. ExitsAreFailed'
  BY <1>2, <1>4 DEF ExitsAreFailed, Overridable, Processing
<1>7. order'.digiflazz = "failed" => trx = "Gagal" \/ (trx = "none" /\ wire = {})
  BY <1>4 DEF MarkFailed
<1> QED
  BY <1>2, <1>3, <1>4, <1>5, <1>6, <1>7, Staying

LEMMA ExitStep ==
    ASSUME IInv, Credit \/ FulfilByHand PROVE IInv'
<1> USE DEF IInv
<1>1. order \in OrderRec
  BY DEF TypeOK
<1>2. /\ UNCHANGED <<trx, wire, sent, weekOver, alerted, unasked, pc, job,
                     faults, callbacks, edits>>
      /\ order.digiflazz = "failed"
  BY DEF Credit, InFlight, FulfilByHand
<1>3. /\ order' \in OrderRec
      /\ order'.dispatched = order.dispatched
      /\ order'.target = order.target /\ order'.digiflazz = "failed"
      /\ order'.status # "PROCESSING"
  <2>1. CASE Credit
    BY <2>1, <1>1, <1>2, OrderTypes, CancelledFields DEF Credit
  <2>2. CASE FulfilByHand
    BY <2>2, <1>1, <1>2, OrderTypes, HandDeliveredFields DEF FulfilByHand
  <2> QED
    BY <2>1, <2>2
<1>4. TypeOK'
  BY <1>2, <1>3 DEF TypeOK
<1>5. ExitsAreFailed' /\ Closed'
  BY <1>3 DEF ExitsAreFailed, Processing, Closed
<1>6. order'.digiflazz \notin Checkable
  BY <1>3 DEF Checkable
<1> QED
  BY <1>2, <1>3, <1>4, <1>5, <1>6, Staying

LEMMA EditStep ==
    ASSUME IInv, Edit PROVE IInv'
<1> USE DEF IInv
<1>1. order \in OrderRec
  BY DEF TypeOK
<1>2. /\ UNCHANGED <<trx, wire, sent, weekOver, alerted, unasked, pc, job,
                     faults, callbacks>>
      /\ edits' = edits + 1 /\ ~order.dispatched
  BY DEF Edit, Editable
<1>3. PICK x \in Targets : order' = Retargeted(order, x)
  BY DEF Edit
<1>4. /\ order' \in OrderRec
      /\ order'.status = order.status /\ order'.digiflazz = order.digiflazz
      /\ order'.dispatched = order.dispatched /\ order'.byHand = order.byHand
  BY <1>1, <1>3, OrderTypes, RetargetedFields
<1>5. \A v \in Workers : ~Protected(v) /\ ~InFlightWorker(v)
  BY <1>2, NobodyProtected DEF Protected, InFlightWorker
<1>6. sent = {}
  BY <1>2 DEF NothingBeforeDispatch
<1>7. TypeOK'
  BY <1>2, <1>4 DEF TypeOK
<1>8. \A v \in Workers : ~Protected(v)' /\ ~InFlightWorker(v)'
  BY <1>2, <1>5 DEF Protected, InFlightWorker
<1>9. HolderHasLease' /\ OneHolder'
  BY <1>8 DEF HolderHasLease, OneHolder
<1>10. NothingBeforeDispatch' /\ ExitsAreFailed'
  BY <1>2, <1>4 DEF NothingBeforeDispatch, ExitsAreFailed, Processing
<1>11. TargetsAgree'
  BY <1>2, <1>6, <1>8 DEF TargetsAgree, InFlightWorker
<1>12. FirstIsFirst' /\ GagalIsTrue'
  BY <1>2, <1>8 DEF FirstIsFirst, GagalIsTrue, InFlightWorker
<1>13. FailedIsSafe'
  BY <1>2, <1>4, <1>8 DEF FailedIsSafe
<1> QED
  BY <1>7, <1>9, <1>10, <1>11, <1>12, <1>13

LEMMA TimeStep ==
    ASSUME IInv, Tick \/ WeekEnds PROVE IInv'
<1> USE DEF IInv
<1>1. order \in OrderRec /\ order.due \in Due
  BY DEF TypeOK, OrderRec
<1>2. UNCHANGED <<trx, wire, sent, alerted, unasked, pc, job, faults,
                  callbacks, edits>>
  BY DEF Tick, WeekEnds
<1>3. CASE Tick
  <2>1. PICK d \in Due : order' = DueAt(order, d)
    BY <1>1, <1>3, DueTypes DEF Tick
  <2>2. /\ order' \in OrderRec
        /\ order'.status = order.status /\ order'.digiflazz = order.digiflazz
        /\ order'.dispatched = order.dispatched
        /\ order'.target = order.target /\ order'.byHand = order.byHand
    BY <1>1, <2>1, OrderTypes, DueAtFields
  <2>3. TypeOK'
    BY <1>2, <1>3, <2>2 DEF TypeOK, Tick
  <2>4. Closed => Closed'
    BY <2>2 DEF Closed, Processing
  <2>5. ASSUME NEW v \in Workers, Protected(v) PROVE Closed
    <3>1. order.due = Lease(v) \/ Closed
      BY <2>5 DEF HolderHasLease
    <3>2. Lease(v).at = "soon" /\ Lease(v).by = v
      BY DEF Lease
    <3> QED
      BY <1>3, <2>5, <3>1, <3>2 DEF Tick
  <2>6. ExitsAreFailed'
    BY <2>2 DEF ExitsAreFailed, Processing
  <2> QED
    BY <1>2, <2>2, <2>3, <2>4, <2>5, <2>6, Staying
<1>4. CASE WeekEnds
  <2>1. UNCHANGED order /\ weekOver' = TRUE
    BY <1>4 DEF WeekEnds
  <2>2. TypeOK'
    BY <1>2, <2>1 DEF TypeOK
  <2>3. Closed' = Closed /\ ExitsAreFailed'
    BY <2>1 DEF Closed, ExitsAreFailed, Processing
  <2> QED
    BY <1>2, <2>1, <2>2, <2>3, Staying
<1> QED
  BY <1>3, <1>4

-----------------------------------------------------------------------------
LEMMA InitIInv == Init => IInv
<1> SUFFICES ASSUME Init PROVE IInv
  OBVIOUS
<1>1. \A w \in Workers : pc[w] = "idle" /\ job[w] = NoJob
  BY DEF Init
<1>2. /\ order \in OrderRec /\ ~order.dispatched
      /\ order.digiflazz = "null" /\ order.status = "PROCESSING"
      /\ order.byHand = FALSE
  BY DueTypes, DispatchAssumption DEF Init, OrderRec, Checkable
<1>3. TypeOK
  BY <1>2, JobTypes DEF Init, TypeOK, TrxStates, Steps
<1>4. HolderHasLease /\ OneHolder
  BY <1>1 DEF HolderHasLease, OneHolder, Protected
<1>5. NothingBeforeDispatch /\ TargetsAgree
  BY <1>1, <1>2 DEF Init, NothingBeforeDispatch, TargetsAgree, Checkable
<1>6. FirstIsFirst /\ GagalIsTrue
  BY <1>1 DEF FirstIsFirst, GagalIsTrue, InFlightWorker
<1>7. FailedIsSafe /\ ExitsAreFailed
  BY <1>2 DEF FailedIsSafe, ExitsAreFailed
<1> QED
  BY <1>3, <1>4, <1>5, <1>6, <1>7 DEF IInv

LEMMA NextIInv == IInv /\ [Next]_vars => IInv'
<1> SUFFICES ASSUME IInv, [Next]_vars PROVE IInv'
  OBVIOUS
<1>1. ASSUME NEW w \in Workers, WorkerStep(w) PROVE IInv'
  BY <1>1, ReadCandidateStep, RemindStep, FailUnconfiguredStep, ClaimFreshStep,
     ClaimRecheckStep, StartCheckStep, ClaimCheckStep, UnfitStep, SendStep,
     ServeStep, RefuseStep, TimeOutStep, FulfilStep, FulfilFailsStep,
     RecordFailureStep, RecordPendingStep, RecordUnresolvedStep,
     RecordCheckStep, CrashStep
     DEF WorkerStep
<1>2. CASE Outside
  BY <1>2, SupplierStep, OverrideStep, ExitStep, EditStep, TimeStep DEF Outside
<1>3. CASE UNCHANGED vars
  <2>1. TypeOK'
    BY <1>3 DEF vars, IInv, TypeOK
  <2>2. ExitsAreFailed' /\ Closed' = Closed
    BY <1>3 DEF vars, IInv, ExitsAreFailed, Closed, Processing
  <2> QED
    BY <1>3, <2>1, <2>2, Staying DEF vars
<1> QED
  BY <1>1, <1>2, <1>3 DEF Next

LEMMA SpecIInv == Spec => []IInv
<1> QED
  BY InitIInv, NextIInv, PTL DEF Spec

(* Type correctness; in particular the attempt counter and the stored      *)
(* times stay within what the schedule knows.                              *)
THEOREM TypeCorrect == Spec => []TypeOK
<1>1. IInv => TypeOK
  BY DEF IInv
<1> QED
  BY <1>1, SpecIInv, PTL

(* Two requests for one order never overlap, whoever sends them.           *)
THEOREM RequestsAreSerial == Spec => []OneRequestInFlight
<1>1. IInv => OneRequestInFlight
  BY DEF IInv, OneHolder, Protected, OneRequestInFlight
<1> QED
  BY <1>1, SpecIInv, PTL

(* Nobody gets money or a hand delivery for an order that the supplier     *)
(* delivers, or may still deliver, unless it failed for want of            *)
(* credentials.                                                            *)
THEOREM NoSecondBenefit == Spec => []NoDoubleBenefit
<1>1. IInv => NoDoubleBenefit
  BY DEF IInv, FailedIsSafe, ExitsAreFailed, NoDoubleBenefit
<1> QED
  BY <1>1, SpecIInv, PTL

(* What the supplier was asked for is what the order says.                 *)
THEOREM SubmittedTargetsAgree == Spec => []TargetIsFrozen
<1>1. IInv => TargetIsFrozen
  BY DEF IInv, TargetsAgree, TargetIsFrozen
<1> QED
  BY <1>1, SpecIInv, PTL

(* A stale worker cannot return an unresolved order to the fast schedule,  *)
(* nor have a failed one asked about again.                                *)
THEOREM NotReopened == Spec => NeverReopened
<1> DEFINE Keeps ==
        /\ IsUnresolved => order'.digiflazz # "pending_at_supplier"
        /\ order.digiflazz = "failed" => order'.digiflazz \notin Checkable
<1>1. ASSUME IInv, [Next]_vars PROVE Keeps
  <2>1. order \in OrderRec
    BY <1>1 DEF IInv, TypeOK
  <2>2. CASE UNCHANGED order
    BY <2>2 DEF IsUnresolved, Checkable
  <2>3. CASE order'.digiflazz \in {"null", "failed", order.digiflazz}
    BY <2>3 DEF IsUnresolved, Checkable
  <2>4. ASSUME NEW w \in Workers, WorkerStep(w) PROVE Keeps
    <3>1. CASE ClaimFresh(w)
      <4>1. CASE FreshClaimable
        BY <1>1, <4>1 DEF FreshClaimable, IInv, NothingBeforeDispatch,
                          IsUnresolved, Checkable
      <4> QED
        BY <3>1, <4>1, <2>2 DEF ClaimFresh
    <3>2. CASE RecordPending(w)
      <4>1. CASE MayPend
        BY <4>1 DEF MayPend, IsUnresolved
      <4> QED
        BY <3>2, <4>1, <2>2 DEF RecordPending
    <3>3. CASE RecordUnresolved(w)
      <4>1. CASE order.digiflazz \in Checkable
        <5>1. order' = Unresolved(order, Attempt(w)) \/ UNCHANGED order
          BY <3>3 DEF RecordUnresolved
        <5>2. Unresolved(order, Attempt(w)).digiflazz = "unresolved_at_supplier"
          BY <2>1, UnresolvedFields
        <5> QED
          BY <4>1, <5>1, <5>2, <2>2 DEF Checkable
      <4> QED
        BY <3>3, <4>1, <2>2 DEF RecordUnresolved
    <3>4. CASE \/ ReadCandidate(w) \/ StartCheck(w) \/ Send(w) \/ Serve(w)
               \/ Refuse(w) \/ TimeOut(w) \/ FulfilFails(w) \/ Crash(w)
      BY <3>4, <2>2 DEF ReadCandidate, StartCheck, Send, Serve, Refuse, TimeOut,
                        FulfilFails, Crash
    <3>5. CASE Remind(w) \/ RecordCheck(w)
      <4>1. (\E d : order' = DueAt(order, d)) \/ UNCHANGED order
        BY <3>5 DEF Remind, RecordCheck
      <4> QED
        BY <4>1, <2>1, <2>2, <2>3, DueAtFields
    <3>6. CASE ClaimRecheck(w) \/ ClaimCheck(w)
      <4>1. order' = Leased(order, w) \/ UNCHANGED order
        BY <3>6 DEF ClaimRecheck, ClaimCheck
      <4> QED
        BY <4>1, <2>1, <2>2, <2>3, LeasedFields
    <3>7. CASE FailUnconfigured(w) \/ Unfit(w) \/ RecordFailure(w)
      <4>1. order' = Failed(order) \/ UNCHANGED order
        BY <3>7 DEF FailUnconfigured, Unfit, RecordFailure, TerminalFail
      <4> QED
        BY <4>1, <2>1, <2>2, <2>3, FailedFields
    <3>8. CASE Fulfil(w)
      <4>1. order' = Delivered(order) \/ UNCHANGED order
        BY <3>8 DEF Fulfil
      <4> QED
        BY <4>1, <2>1, <2>2, <2>3, DeliveredFields
    <3> QED
      BY <2>4, <3>1, <3>2, <3>3, <3>4, <3>5, <3>6, <3>7, <3>8 DEF WorkerStep
  <2>5. CASE Outside
    <3>1. CASE LateArrival \/ SupplierDecides \/ WeekEnds
      BY <3>1, <2>2 DEF LateArrival, SupplierDecides, WeekEnds
    <3>2. CASE MarkFailed \/ MarkDelivered
      BY <3>2, <2>1, <2>3, FailedFields, DeliveredFields
         DEF MarkFailed, MarkDelivered
    <3>3. CASE Credit \/ FulfilByHand
      BY <3>3, <2>1, <2>3, CancelledFields, HandDeliveredFields
         DEF Credit, FulfilByHand
    <3>4. CASE Edit
      BY <3>4, <2>1, <2>3, RetargetedFields DEF Edit
    <3>5. CASE Tick
      BY <3>5, <2>1, <2>3, DueAtFields DEF Tick
    <3> QED
      BY <2>5, <3>1, <3>2, <3>3, <3>4, <3>5 DEF Outside
  <2> QED
    BY <1>1, <2>2, <2>4, <2>5 DEF Next, vars
<1>2. ASSUME IInv, [Next]_vars PROVE [Keeps]_vars
  BY <1>1, <1>2
<1> QED
  BY <1>2, SpecIInv, PTL DEF Spec, NeverReopened

=============================================================================
