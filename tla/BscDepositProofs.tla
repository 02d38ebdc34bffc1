-------------------------- MODULE BscDepositProofs --------------------------
(***************************************************************************)
(* Proofs about BscDeposit for any number of orders, deposits, deposits in *)
(* work and tracked orders, and any schedule.                              *)
(*                                                                         *)
(* Two facts carry the argument.  A poller past its claim holds the row of *)
(* its deposit alone (Sound, Alone), because a claim is taken from a row   *)
(* that is free, failed or abandoned.  And an order that was paid out has  *)
(* left every status a settlement starts from (OrderSound), because the    *)
(* transition compares the status that was read.                           *)
(***************************************************************************)
EXTENDS BscDeposit, TLAPS

Taken == {"matched", "overpaid"}

(* What a deposit in work has established. *)
Sound(w) ==
  /\ pc[w] \notin {"idle", "parking"} =>
       job[w].dep \in Deposits /\ job[w].order \in Orders
  /\ pc[w] = "parking" => job[w].dep \in Deposits
  /\ pc[w] \in Holding =>
       /\ row[job[w].dep].outcome \in Taken
       /\ row[job[w].dep].order = job[w].order
  /\ pc[w] \in {"reading", "settling"} => row[job[w].dep].outcome = "matched"
  /\ pc[w] = "settling" =>
       \/ job[w].read \in PreDelivery
       \/ job[w].read = "CANCELLED" /\ job[w].order \in Topups
  /\ pc[w] \in Flagging => row[job[w].dep].outcome = "underpaid"

(* No two of them hold, or flag, one deposit. *)
Alone(v, w) ==
  v # w /\ job[v].dep = job[w].dep =>
    /\ ~(pc[v] \in Holding /\ pc[w] \in Holding)
    /\ ~(pc[v] \in Flagging /\ pc[w] \in Flagging)

TrackerSound(k) == pc[k] # "idle" => job[k].order \in Orders

OrderSound(o) ==
  \/ order[o].payouts = 0 /\ order[o].paidBy = NoDeposit
  \/ /\ order[o].payouts = 1 /\ order[o].paidBy # NoDeposit
     /\ Status(o) \in {"PROCESSING", "DELIVERED", "FAILED"}

(* Steps that still end in a payout or in a message to the admins. *)
Minding == Holding \cup {"blaming", "alerting"}

(* A claimed deposit is paid out, reported, or somebody is still on it. *)
AnsweredFor(d) ==
  row[d].outcome \in Taken /\ row[d].order \in Products =>
    \/ order[row[d].order].paidBy = d
    \/ d \in alerted
    \/ \E w \in Pollers : job[w].dep = d /\ pc[w] \in Minding

IInv ==
  /\ TypeOK
  /\ \A w \in Pollers : Sound(w)
  /\ \A v, w \in Pollers : Alone(v, w)
  /\ \A k \in Trackers : TrackerSound(k)
  /\ \A o \in Orders : OrderSound(o)
  /\ crashes = 0 => \A d \in Deposits : AnsweredFor(d)

-----------------------------------------------------------------------------
(* What a step does to the worker that takes it, and to no other. *)
Shape(w, s, j) ==
  /\ pc' \in [Workers -> Steps] /\ job' \in [Workers -> Job]
  /\ pc'[w] = s /\ job'[w] = j
  /\ \A v \in Workers : v # w => pc'[v] = pc[v] /\ job'[v] = job[v]

(* What a step does to the orders. *)
OrdersKept ==
  /\ order' \in [Orders -> OrderRec]
  /\ \A o \in Orders : OrderSound(o)'
  /\ \A o \in Orders :
       order[o].paidBy # NoDeposit => order'[o].paidBy = order[o].paidBy

(* Nobody but w holds or flags deposit d. *)
Off(w, d) ==
  \A v \in Pollers : v # w /\ job[v].dep = d =>
    pc[v] \notin Holding \cup Flagging

(* What a step writes to the rows belongs to no other deposit in work. *)
RowsKept(w, d) ==
  /\ row' \in [Deposits -> LedgerRow]
  /\ \A e \in Deposits : e # d => row'[e] = row[e]
  /\ row' = row \/ Off(w, d)

LEMMA WorkShape ==
  ASSUME NEW d \in Deposits \cup {NoDeposit}, NEW o \in Orders \cup {NoOrder}
  PROVE  Work(d, o) \in Job /\ Work(d, o).dep = d /\ Work(d, o).order = o
<1>1. NoRow \in LedgerRow
  BY DEF NoRow, LedgerRow, Outcomes
<1> QED BY <1>1 DEF Work, NoJob, Job, Statuses, PreDelivery

LEMMA ReadShape ==
  ASSUME NEW j \in Job, NEW s \in Statuses, NEW r \in LedgerRow
  PROVE  LET new == [j EXCEPT !.read = s, !.prior = r]
         IN  /\ new \in Job /\ new.dep = j.dep /\ new.order = j.order
             /\ new.read = s
BY DEF Job

LEMMA JobShapes ==
  /\ NoJob \in Job /\ NoRow \in LedgerRow
  /\ \A j \in Job :
       /\ j.dep \in Deposits \cup {NoDeposit}
       /\ j.order \in Orders \cup {NoOrder}
       /\ j.read \in Statuses /\ j.prior \in LedgerRow
  /\ \A j \in Job, r \in LedgerRow :
       LET new == [j EXCEPT !.prior = r]
       IN  new \in Job /\ new.dep = j.dep /\ new.order = j.order
  /\ \A j \in Job, s \in Statuses :
       LET new == [j EXCEPT !.read = s]
       IN  new \in Job /\ new.dep = j.dep /\ new.order = j.order /\ new.read = s
  /\ \A j \in Job, e \in BOOLEAN :
       LET new == [j EXCEPT !.enough = e]
       IN  new \in Job /\ new.dep = j.dep /\ new.order = j.order
<1>1. NoRow \in LedgerRow
  BY DEF NoRow, LedgerRow, Outcomes
<1>2. NoJob \in Job
  BY <1>1 DEF NoJob, Job, Statuses, PreDelivery
<1>4. \A j \in Job :
        /\ j.dep \in Deposits \cup {NoDeposit}
        /\ j.order \in Orders \cup {NoOrder}
        /\ j.read \in Statuses /\ j.prior \in LedgerRow
  BY DEF Job
<1>5. \A j \in Job, r \in LedgerRow :
        LET new == [j EXCEPT !.prior = r]
        IN  new \in Job /\ new.dep = j.dep /\ new.order = j.order
  BY DEF Job
<1>7. \A j \in Job, s \in Statuses :
        LET new == [j EXCEPT !.read = s]
        IN  new \in Job /\ new.dep = j.dep /\ new.order = j.order /\ new.read = s
  BY DEF Job
<1>8. \A j \in Job, e \in BOOLEAN :
        LET new == [j EXCEPT !.enough = e]
        IN  new \in Job /\ new.dep = j.dep /\ new.order = j.order
  BY DEF Job
<1> QED BY <1>1, <1>2, <1>4, <1>5, <1>7, <1>8

LEMMA MovedShape ==
  ASSUME NEW r \in OrderRec, NEW s \in Statuses
  PROVE  /\ Moved(r, s) \in OrderRec /\ Moved(r, s).status = s
         /\ Moved(r, s).payouts = r.payouts /\ Moved(r, s).paidBy = r.paidBy
BY DEF OrderRec, Moved

LEMMA OrderShapes ==
  \A r \in OrderRec, s \in Statuses, d \in Deposits :
    /\ TiedTo(r, d) \in OrderRec /\ TiedTo(r, d).status = r.status
    /\ TiedTo(r, d).payouts = r.payouts /\ TiedTo(r, d).paidBy = r.paidBy
    /\ InReview(r) \in OrderRec /\ InReview(r).status = r.status
    /\ InReview(r).payouts = r.payouts /\ InReview(r).paidBy = r.paidBy
    /\ Shorted(r, d) \in OrderRec /\ Shorted(r, d).status = "UNDERPAID"
    /\ Shorted(r, d).payouts = r.payouts /\ Shorted(r, d).paidBy = r.paidBy
    /\ Settled(r, s, d) \in OrderRec /\ Settled(r, s, d).status = s
    /\ Settled(r, s, d).payouts = r.payouts + 1
    /\ Settled(r, s, d).paidBy = d
<1> SUFFICES ASSUME NEW r \in OrderRec, NEW s \in Statuses, NEW d \in Deposits
             PROVE  /\ TiedTo(r, d) \in OrderRec
                    /\ TiedTo(r, d).status = r.status
                    /\ TiedTo(r, d).payouts = r.payouts
                    /\ TiedTo(r, d).paidBy = r.paidBy
                    /\ InReview(r) \in OrderRec
                    /\ InReview(r).status = r.status
                    /\ InReview(r).payouts = r.payouts
                    /\ InReview(r).paidBy = r.paidBy
                    /\ Shorted(r, d) \in OrderRec
                    /\ Shorted(r, d).status = "UNDERPAID"
                    /\ Shorted(r, d).payouts = r.payouts
                    /\ Shorted(r, d).paidBy = r.paidBy
                    /\ Settled(r, s, d) \in OrderRec
                    /\ Settled(r, s, d).status = s
                    /\ Settled(r, s, d).payouts = r.payouts + 1
                    /\ Settled(r, s, d).paidBy = d
  OBVIOUS
<1>2. /\ TiedTo(r, d) \in OrderRec /\ TiedTo(r, d).status = r.status
      /\ TiedTo(r, d).payouts = r.payouts /\ TiedTo(r, d).paidBy = r.paidBy
  BY DEF OrderRec, TiedTo
<1>3. /\ InReview(r) \in OrderRec /\ InReview(r).status = r.status
      /\ InReview(r).payouts = r.payouts /\ InReview(r).paidBy = r.paidBy
  BY DEF OrderRec, InReview
<1>4. /\ Shorted(r, d) \in OrderRec /\ Shorted(r, d).status = "UNDERPAID"
      /\ Shorted(r, d).payouts = r.payouts /\ Shorted(r, d).paidBy = r.paidBy
  BY DEF OrderRec, Shorted, Statuses
<1>5. /\ Settled(r, s, d) \in OrderRec /\ Settled(r, s, d).status = s
      /\ Settled(r, s, d).payouts = r.payouts + 1
      /\ Settled(r, s, d).paidBy = d
  <2>1. r.payouts + 1 \in Nat /\ r.payouts \in Nat
    BY DEF OrderRec
  <2> QED BY <2>1 DEF OrderRec, Settled
<1> QED BY <1>2, <1>3, <1>4, <1>5

LEMMA RowShapes ==
  /\ \A r \in LedgerRow, x \in Outcomes :
       Tagged(r, x) \in LedgerRow /\ Tagged(r, x).outcome = x
       /\ Tagged(r, x).order = r.order
  /\ \A x \in Outcomes, o \in Orders \cup {NoOrder} :
       Linked(x, o) \in LedgerRow /\ Linked(x, o).outcome = x
       /\ Linked(x, o).order = o
  /\ \A d, o : Outcome(d, o) \in Taken
  /\ \A o : Final(o) \in {"PROCESSING", "DELIVERED"}
  /\ NoRow.outcome = "none" /\ Taken \subseteq Outcomes
<1>1. \A r \in LedgerRow, x \in Outcomes :
        /\ Tagged(r, x) \in LedgerRow
        /\ Tagged(r, x).outcome = x /\ Tagged(r, x).order = r.order
  BY DEF Tagged, LedgerRow
<1>2. \A x \in Outcomes, o \in Orders \cup {NoOrder} :
        /\ Linked(x, o) \in LedgerRow
        /\ Linked(x, o).outcome = x /\ Linked(x, o).order = o
  BY DEF Linked, LedgerRow
<1>3. \A d, o : Outcome(d, o) \in Taken
  BY DEF Outcome, Taken
<1>4. \A o : Final(o) \in {"PROCESSING", "DELIVERED"}
  BY DEF Final
<1>5. NoRow.outcome = "none" /\ Taken \subseteq Outcomes
  BY DEF NoRow, Taken, Outcomes
<1> QED BY <1>1, <1>2, <1>3, <1>4, <1>5

-----------------------------------------------------------------------------
(* From the shape of a step to the invariant. *)

LEMMA WorkersOf ==
  /\ \A w \in Pollers : w \in Workers /\ w \notin Trackers
  /\ \A k \in Trackers : k \in Workers /\ k \notin Pollers
  /\ NoDeposit \notin Deposits /\ NoOrder \notin Orders
BY BscAssumption DEF Workers

LEMMA Typed ==
  ASSUME TypeOK
  PROVE  /\ \A o \in Orders : order[o] \in OrderRec
         /\ \A o \in Orders : order[o].status \in Statuses
         /\ \A o \in Orders : order[o].paidBy \in Deposits \cup {NoDeposit}
         /\ \A d \in Deposits : row[d] \in LedgerRow
         /\ \A d \in Deposits : row[d].order \in Orders \cup {NoOrder}
         /\ \A w \in Workers : job[w] \in Job
<1>1. \A o \in Orders : order[o] \in OrderRec
  BY DEF TypeOK
<1>2. \A d \in Deposits : row[d] \in LedgerRow
  BY DEF TypeOK
<1>3. \A w \in Workers : job[w] \in Job
  BY DEF TypeOK
<1>4. \A r \in OrderRec : r.status \in Statuses
                          /\ r.paidBy \in Deposits \cup {NoDeposit}
  BY DEF OrderRec
<1>5. \A r \in LedgerRow : r.order \in Orders \cup {NoOrder}
  BY DEF LedgerRow
<1> QED BY <1>1, <1>2, <1>3, <1>4, <1>5

LEMMA GotoShape ==
  ASSUME TypeOK, NEW w \in Workers, NEW s \in Steps, NEW j \in Job, Goto(w, s),
         job' = [job EXCEPT ![w] = j]
  PROVE  Shape(w, s, j)
BY DEF TypeOK, Goto, Shape

LEMMA StepShape ==
  ASSUME TypeOK, NEW w \in Workers, NEW s \in Steps, Step(w, s)
  PROVE  Shape(w, s, job[w])
BY DEF TypeOK, Goto, Step, Shape

LEMMA FinishShape ==
  ASSUME TypeOK, NEW w \in Workers, Finish(w)
  PROVE  Shape(w, "idle", NoJob)
BY JobShapes, GotoShape DEF Finish, Steps

LEMMA DropShape ==
  ASSUME TypeOK, NEW w \in Workers, NEW s \in Steps, Drop(w, s)
  PROVE  /\ Shape(w, s, Work(job[w].dep, job[w].order))
         /\ Work(job[w].dep, job[w].order).dep = job[w].dep
         /\ Work(job[w].dep, job[w].order).order = job[w].order
<1>0. job[w] \in Job
  BY Typed
<1>1. /\ job[w].dep \in Deposits \cup {NoDeposit}
      /\ job[w].order \in Orders \cup {NoOrder}
  BY <1>0, JobShapes
<1>2. /\ Work(job[w].dep, job[w].order) \in Job
      /\ Work(job[w].dep, job[w].order).dep = job[w].dep
      /\ Work(job[w].dep, job[w].order).order = job[w].order
  BY <1>1, WorkShape
<1>3. job' = [job EXCEPT ![w] = Work(job[w].dep, job[w].order)]
  BY DEF Drop
<1> QED BY <1>2, <1>3, GotoShape DEF Drop

(* A deposit nobody's step touches stays answered for. *)
LEMMA OthersAnswered ==
  ASSUME IInv, NEW w \in Workers, NEW s, NEW j, Shape(w, s, j), OrdersKept,
         alerted \subseteq alerted',
         NEW d \in Deposits, row'[d] = row[d], AnsweredFor(d),
         w \in Pollers /\ job[w].dep = d => pc[w] \notin Minding
  PROVE  AnsweredFor(d)'
<1> SUFFICES ASSUME row[d].outcome \in Taken, row[d].order \in Products
             PROVE  \/ order'[row[d].order].paidBy = d
                    \/ d \in alerted'
                    \/ \E v \in Pollers : /\ job'[v].dep = d
                                          /\ pc'[v] \in Minding
  BY DEF AnsweredFor
<1>1. CASE order[row[d].order].paidBy = d
  BY <1>1, BscAssumption DEF OrdersKept
<1>2. CASE d \in alerted
  BY <1>2
<1>3. CASE \E v \in Pollers : job[v].dep = d /\ pc[v] \in Minding
  <2>1. PICK v \in Pollers : job[v].dep = d /\ pc[v] \in Minding
    BY <1>3
  <2>2. pc'[v] = pc[v] /\ job'[v] = job[v]
    BY <2>1, WorkersOf DEF Shape
  <2> QED BY <2>1, <2>2
<1> QED BY <1>1, <1>2, <1>3 DEF AnsweredFor

(* The steps of a poller: it writes the row of its own deposit, if it may. *)
LEMMA PollerKeeps ==
  ASSUME IInv, NEW w \in Pollers, NEW s \in Steps, NEW j \in Job, Shape(w, s, j),
         OrdersKept, crashes' = crashes,
         NEW d \in Deposits, job[w].dep = d \/ pc[w] = "idle",
         j.dep = d \/ s = "idle", RowsKept(w, d),
         alerted' \in SUBSET Deposits, alerted \subseteq alerted',
         Sound(w)',
         s \in Holding => pc[w] \in Holding \/
           (\A v \in Pollers : v # w /\ job[v].dep = d => pc[v] \notin Holding),
         s \in Flagging =>
           \A v \in Pollers : v # w /\ job[v].dep = d => pc[v] \notin Flagging,
         crashes = 0 => AnsweredFor(d)'
  PROVE  IInv'
<1>1. TypeOK'
  BY DEF IInv, TypeOK, Shape, OrdersKept, RowsKept
<1>2. ASSUME NEW v \in Pollers
      PROVE  Sound(v)'
  <2>1. CASE v = w
    BY <2>1
  <2>2. CASE v # w
    <3>1. pc'[v] = pc[v] /\ job'[v] = job[v] /\ Sound(v)
      BY <2>2, WorkersOf DEF Shape, IInv
    <3>2. job[v].dep \in Deposits /\ pc[v] \in Holding \cup Flagging =>
            row'[job[v].dep] = row[job[v].dep]
      BY <2>2 DEF RowsKept, Off
    <3>3. pc[v] \in Holding \cup Flagging \cup {"reading", "settling"} =>
            job[v].dep \in Deposits /\ row'[job[v].dep] = row[job[v].dep]
      BY <3>1, <3>2 DEF Sound, Holding, Flagging
    <3> QED BY <3>1, <3>3 DEF Sound, Holding, Flagging
  <2> QED BY <2>1, <2>2
<1>3. ASSUME NEW v \in Pollers, v # w
      PROVE  Alone(v, w)' /\ Alone(w, v)'
  <2>1. pc'[v] = pc[v] /\ job'[v] = job[v] /\ pc'[w] = s /\ job'[w] = j
    BY <1>3, WorkersOf DEF Shape
  <2>2. Alone(v, w) /\ Alone(w, v)
    BY DEF IInv
  <2>3. pc[w] \in Holding => job[w].dep = d
    BY DEF Holding, Flagging
  <2>4. job[v].dep = j.dep => ~(pc[v] \in Holding /\ s \in Holding)
    BY <1>3, <2>2, <2>3 DEF Alone, Holding, Flagging
  <2>5. job[v].dep = j.dep => ~(pc[v] \in Flagging /\ s \in Flagging)
    BY <1>3 DEF Flagging
  <2> QED BY <1>3, <2>1, <2>4, <2>5 DEF Alone
<1>4. \A u, v \in Pollers : Alone(u, v)'
  <2>1. ASSUME NEW u \in Pollers, NEW v \in Pollers, u # w, v # w
        PROVE  Alone(u, v)'
    <3>1. pc'[v] = pc[v] /\ job'[v] = job[v] /\ pc'[u] = pc[u] /\ job'[u] = job[u]
      BY <2>1, WorkersOf DEF Shape
    <3> QED BY <3>1 DEF IInv, Alone
  <2>2. Alone(w, w)'
    BY DEF Alone
  <2> QED BY <1>3, <2>1, <2>2
<1>5. \A k \in Trackers : TrackerSound(k)'
  BY WorkersOf DEF IInv, TrackerSound, Shape
<1>6. crashes = 0 => \A e \in Deposits : AnsweredFor(e)'
  <2>1. ASSUME crashes = 0, NEW e \in Deposits, e # d
        PROVE  AnsweredFor(e)'
    <3>1. AnsweredFor(e) /\ row'[e] = row[e]
      BY <2>1 DEF IInv, RowsKept
    <3>2. job[w].dep = e => pc[w] \notin Minding
      BY <2>1 DEF Minding, Holding, Flagging
    <3> QED BY <3>1, <3>2, WorkersOf, OthersAnswered
  <2> QED BY <2>1
<1> QED BY <1>1, <1>2, <1>4, <1>5, <1>6 DEF IInv, OrdersKept
-----------------------------------------------------------------------------
(* What the writes do to the orders and rows. *)

Paid == {"PROCESSING", "DELIVERED", "FAILED"}

LEMMA OrdersSame ==
  ASSUME IInv, order' = order
  PROVE  OrdersKept
BY DEF IInv, TypeOK, OrdersKept, OrderSound, Status

LEMMA OrderWritten ==
  ASSUME IInv, NEW o \in Orders, NEW r \in OrderRec,
         order' = [order EXCEPT ![o] = r],
         \/ /\ r.payouts = order[o].payouts /\ r.paidBy = order[o].paidBy
            /\ order[o].paidBy # NoDeposit => r.status \in Paid
         \/ /\ order[o].paidBy = NoDeposit /\ r.paidBy \in Deposits
            /\ r.payouts = order[o].payouts + 1 /\ r.status \in Paid
  PROVE  OrdersKept
<1>1. order' \in [Orders -> OrderRec] /\ order'[o] = r
  BY DEF IInv, TypeOK
<1>2. OrderSound(o)
  BY DEF IInv
<1>3. OrderSound(o)'
  BY <1>1, <1>2, BscAssumption DEF OrderSound, Status, Paid
<1>4. \A p \in Orders : p # o => order'[p] = order[p]
  BY DEF IInv, TypeOK
<1>5. \A p \in Orders : OrderSound(p)'
  BY <1>3, <1>4 DEF IInv, OrderSound, Status
<1> QED BY <1>1, <1>4, <1>5 DEF OrdersKept

LEMMA TryMoveKept ==
  ASSUME IInv, NEW o \in Orders, NEW from \in Statuses, NEW to \in Statuses,
         TryMove(o, from, to), from \in Paid => to \in Paid
  PROVE  OrdersKept
<1>1. CASE Status(o) # from
  BY <1>1, OrdersSame DEF TryMove
<1>2. CASE Status(o) = from
  <2>1. order[o] \in OrderRec /\ OrderSound(o)
    BY Typed DEF IInv
  <2>2. /\ Moved(order[o], to) \in OrderRec /\ Moved(order[o], to).status = to
        /\ Moved(order[o], to).payouts = order[o].payouts
        /\ Moved(order[o], to).paidBy = order[o].paidBy
    BY <2>1, MovedShape
  <2>3. order[o].paidBy # NoDeposit => to \in Paid
    BY <1>2, <2>1 DEF OrderSound, Paid
  <2>4. order' = [order EXCEPT ![o] = Moved(order[o], to)]
    BY <1>2 DEF TryMove
  <2> QED BY <2>2, <2>3, <2>4, OrderWritten
<1> QED BY <1>1, <1>2

(* A settlement starts from a status that no paid order has. *)
LEMMA Unpaid ==
  ASSUME IInv, NEW o \in Orders, Status(o) \notin Paid
  PROVE  order[o].payouts = 0 /\ order[o].paidBy = NoDeposit
BY DEF IInv, OrderSound, Paid

LEMMA SettledKept ==
  ASSUME IInv, NEW o \in Orders, NEW d \in Deposits, Status(o) \notin Paid,
         order' = [order EXCEPT ![o] = Settled(order[o], Final(o), d)]
  PROVE  OrdersKept /\ order'[o].paidBy = d
<1>1. order[o] \in OrderRec /\ Final(o) \in Statuses /\ Final(o) \in Paid
  BY Typed, RowShapes DEF IInv, Statuses, Paid
<1>2. /\ Settled(order[o], Final(o), d) \in OrderRec
      /\ Settled(order[o], Final(o), d).status = Final(o)
      /\ Settled(order[o], Final(o), d).payouts = order[o].payouts + 1
      /\ Settled(order[o], Final(o), d).paidBy = d
  BY <1>1, OrderShapes
<1>3. OrdersKept
  BY <1>1, <1>2, Unpaid, OrderWritten
<1> QED BY <1>2, <1>3 DEF IInv, TypeOK

LEMMA TiedKept ==
  ASSUME IInv, NEW o \in Orders, NEW d \in Deposits,
         order' = [order EXCEPT ![o] = TiedTo(order[o], d)]
  PROVE  OrdersKept
<1>1. order[o] \in OrderRec /\ OrderSound(o) /\ "FAILED" \in Statuses
  BY Typed DEF IInv, Statuses
<1>2. PICK r \in OrderRec :
        /\ r = TiedTo(order[o], d) /\ r.status = order[o].status
        /\ r.payouts = order[o].payouts /\ r.paidBy = order[o].paidBy
  BY <1>1, OrderShapes
<1>3. order' = [order EXCEPT ![o] = r]
  BY <1>2
<1>4. order[o].paidBy # NoDeposit => r.status \in Paid
  BY <1>1, <1>2 DEF OrderSound, Status, Paid
<1> QED BY <1>2, <1>3, <1>4, OrderWritten

LEMMA RowSame ==
  ASSUME IInv, NEW w, NEW d, row' = row
  PROVE  RowsKept(w, d)
BY DEF IInv, TypeOK, RowsKept

LEMMA RowWritten ==
  ASSUME IInv, NEW w, NEW d \in Deposits, NEW r \in LedgerRow,
         row' = [row EXCEPT ![d] = r], Off(w, d)
  PROVE  RowsKept(w, d) /\ row'[d] = r
BY DEF IInv, TypeOK, RowsKept

(* Who holds a row keeps the others off it; a row nobody claimed is nobody's. *)
LEMMA OthersOff ==
  ASSUME IInv, NEW w \in Pollers, pc[w] \in Holding \cup Flagging
  PROVE  Off(w, job[w].dep)
<1> SUFFICES ASSUME NEW v \in Pollers, v # w, job[v].dep = job[w].dep
             PROVE  pc[v] \notin Holding \cup Flagging
  BY DEF Off
<1>1. Alone(v, w) /\ Sound(v) /\ Sound(w)
  BY DEF IInv
<1> QED BY <1>1 DEF Alone, Sound, Taken

LEMMA NobodyOn ==
  ASSUME IInv, NEW d \in Deposits,
         row[d].outcome \notin Taken \cup {"underpaid"} \/
           (row[d].outcome \in Taken /\ Abandoned(d))
  PROVE  \A v \in Pollers : job[v].dep = d => pc[v] \notin Holding \cup Flagging
<1> SUFFICES ASSUME NEW v \in Pollers, job[v].dep = d
             PROVE  pc[v] \notin Holding \cup Flagging
  OBVIOUS
<1>1. Sound(v)
  BY DEF IInv
<1> QED BY <1>1 DEF Sound, Taken, Abandoned

-----------------------------------------------------------------------------
(* A step outside a claim that writes no row. *)
LEMMA PlainStep ==
  ASSUME IInv, NEW w \in Pollers, NEW s \in Steps, NEW j \in Job, Shape(w, s, j),
         OrdersKept, row' = row, alerted' = alerted, crashes' = crashes,
         s \notin Holding \cup Flagging,
         pc[w] \notin Minding,
         NEW d \in Deposits, job[w].dep = d \/ pc[w] = "idle",
         j.dep = d \/ s = "idle",
         s \notin {"idle", "parking"} => j.order \in Orders
  PROVE  IInv'
<1>1. RowsKept(w, d)
  BY RowSame
<1>2. crashes = 0 => AnsweredFor(d)'
  BY OthersAnswered, WorkersOf DEF IInv
<1>3. Sound(w)'
  BY WorkersOf DEF Sound, Shape, Holding, Flagging
<1>4. alerted' \in SUBSET Deposits
  BY DEF IInv, TypeOK
<1> QED BY <1>1, <1>2, <1>3, <1>4, PollerKeeps

LEMMA LookKeeps ==
  ASSUME IInv, NEW w \in Pollers, NEW d \in Deposits,
         LookConfirming(w, d) \/ LookCredited(w, d)
  PROVE  IInv'
<1>1. PICK s \in {"detecting", "claiming", "flagging", "parking"},
           o \in Orders \cup {NoOrder} :
        Take(w, s, d, o) /\ (s # "parking" => o \in Orders)
  <2>1. CASE LookConfirming(w, d)
    <3>1. PICK open \in SUBSET Orders : \E o \in Match(d, open) :
            Take(w, "detecting", d, o)
      BY <2>1 DEF LookConfirming
    <3>2. Match(d, open) \subseteq Orders
      BY <3>1 DEF Match, TiedOrders, MatchByAmount, InFlight, PendingOnly
    <3> QED BY <3>1, <3>2
  <2>2. CASE LookCredited(w, d)
    <3>1. PICK open \in SUBSET Orders :
            \/ \E o \in Match(d, open) : Take(w, "claiming", d, o)
            \/ \E o \in MatchUnderpaid(d, open) : Take(w, "flagging", d, o)
            \/ Take(w, "parking", d, NoOrder)
      BY <2>2 DEF LookCredited
    <3>2. Match(d, open) \subseteq Orders /\ MatchUnderpaid(d, open) \subseteq Orders
      BY <3>1 DEF Match, TiedOrders, MatchByAmount, MatchUnderpaid, InFlight,
                  PendingOnly
    <3> QED BY <3>1, <3>2
  <2> QED BY <2>1, <2>2
<1>2. Work(d, o) \in Job /\ Work(d, o).dep = d /\ Work(d, o).order = o
  BY WorkShape
<1>3. s \in Steps /\ s \notin Holding \cup Flagging \cup {"idle"}
  BY DEF Steps, Holding, Flagging
<1>4. Shape(w, s, Work(d, o))
  BY <1>1, <1>2, <1>3, GotoShape, WorkersOf DEF Take, IInv
<1>5. /\ pc[w] = "idle" /\ "idle" \notin Minding
      /\ UNCHANGED <<order, row, alerted, crashes>>
  BY DEF LookConfirming, LookCredited, Minding, Holding, Flagging
<1>6. OrdersKept
  BY <1>5, OrdersSame
<1> QED BY <1>1, <1>2, <1>3, <1>4, <1>5, <1>6, PlainStep

(* recordBybitBscPaymentDetected. *)
LEMMA DetectKeeps ==
  ASSUME IInv, NEW w \in Pollers, DetectRead(w) \/ DetectTie(w) \/ DetectMove(w)
  PROVE  IInv'
<1> DEFINE d == job[w].dep
           o == job[w].order
<1>1. /\ pc[w] \in {"detecting", "tying", "moving"}
      /\ UNCHANGED <<row, alerted, crashes>>
  BY DEF DetectRead, DetectTie, DetectMove
<1>2. /\ d \in Deposits /\ o \in Orders /\ w \in Workers
      /\ pc[w] \notin Minding
      /\ job[w] \in Job /\ NoJob \in Job /\ job[w].dep = d
  BY <1>1, WorkersOf, Typed, JobShapes DEF IInv, Sound, Minding, Holding, Flagging
<1>3. PICK s \in {"idle", "tying", "moving"}, j \in {job[w], NoJob} :
        Shape(w, s, j) /\ (s # "idle" => j = job[w])
  <2>1. CASE Finish(w)
    BY <1>2, <2>1, FinishShape DEF IInv
  <2>2. CASE Step(w, "tying")
    BY <1>2, <2>2, StepShape DEF IInv, Steps
  <2>3. CASE Step(w, "moving")
    BY <1>2, <2>3, StepShape DEF IInv, Steps
  <2> QED BY <2>1, <2>2, <2>3 DEF DetectRead, DetectTie, DetectMove
<1>4. OrdersKept
  <2>1. CASE DetectRead(w)
    BY <2>1, OrdersSame DEF DetectRead
  <2>2. CASE DetectTie(w)
    <3>1. order' = [order EXCEPT ![o] = TiedTo(order[o], d)]
      BY <2>2 DEF DetectTie
    <3> QED BY <1>2, <3>1, TiedKept
  <2>3. CASE DetectMove(w)
    BY <1>2, <2>3, TryMoveKept DEF DetectMove, Statuses, PreDelivery, Paid
  <2> QED BY <2>1, <2>2, <2>3
<1>5. /\ s \in Steps /\ s \notin Holding \cup Flagging /\ j \in Job
      /\ j.dep = d \/ s = "idle"
      /\ s \notin {"idle", "parking"} => j.order \in Orders
  BY <1>2, <1>3 DEF Steps, Holding, Flagging
<1> HIDE DEF d, o
<1> QED BY <1>1, <1>2, <1>3, <1>4, <1>5, PlainStep
-----------------------------------------------------------------------------
(* deliverPaidBybitBscOrder. *)

LEMMA WorkOf ==
  ASSUME IInv, NEW w \in Pollers, pc[w] \notin {"idle", "parking"}
  PROVE  /\ w \in Workers /\ job[w] \in Job
         /\ job[w].dep \in Deposits /\ job[w].order \in Orders
         /\ row[job[w].dep] \in LedgerRow /\ order[job[w].order] \in OrderRec
         /\ alerted' = alerted => alerted' \in SUBSET Deposits
         /\ Sound(w) /\ TypeOK
<1>1. Sound(w) /\ TypeOK /\ w \in Workers
  BY WorkersOf DEF IInv
<1>2. job[w].dep \in Deposits /\ job[w].order \in Orders
  BY <1>1 DEF Sound
<1> QED BY <1>1, <1>2, Typed DEF TypeOK

LEMMA ClaimKeeps ==
  ASSUME IInv, NEW w \in Pollers, Claim(w)
  PROVE  IInv'
<1>d. PICK d \in Deposits, o \in Orders : d = job[w].dep /\ o = job[w].order
  BY WorkOf DEF Claim
<1>0. /\ pc[w] = "claiming" /\ pc[w] \notin Minding
      /\ UNCHANGED <<order, alerted, crashes>>
  BY DEF Claim, Minding, Holding, Flagging
<1>1. /\ w \in Workers /\ job[w] \in Job /\ d \in Deposits /\ o \in Orders
      /\ row[d] \in LedgerRow /\ alerted' \in SUBSET Deposits /\ TypeOK
  BY <1>d, <1>0, WorkOf
<1>2. OrdersKept
  BY <1>0, OrdersSame
<1>3. CASE ~Claimable(d, o)
  <2>1. Finish(w) /\ row' = row
    BY <1>d, <1>3 DEF Claim
  <2>2. Shape(w, "idle", NoJob) /\ NoJob \in Job
    BY <1>1, <2>1, FinishShape, JobShapes
  <2>3. "idle" \in Steps /\ "idle" \notin Holding \cup Flagging
    BY DEF Steps, Holding, Flagging
  <2> QED BY <1>d, <1>0, <1>1, <1>2, <2>1, <2>2, <2>3, PlainStep
<1>4. CASE Claimable(d, o)
  <2> DEFINE j == [job[w] EXCEPT !.prior = row[d]]
  <2>1. /\ row' = [row EXCEPT ![d] = Linked("matched", o)]
        /\ job' = [job EXCEPT ![w] = j]
        /\ Goto(w, "reading")
    BY <1>d, <1>4 DEF Claim
  <2>2. j \in Job /\ j.dep = d /\ j.order = o /\ "reading" \in Steps
    BY <1>d, <1>1, JobShapes DEF Steps
  <2>3. Shape(w, "reading", j)
    BY <1>1, <2>1, <2>2, GotoShape
  <2>4. /\ Linked("matched", o) \in LedgerRow
        /\ Linked("matched", o).outcome = "matched"
        /\ Linked("matched", o).order = o
    BY <1>1, RowShapes DEF Outcomes
  <2>5. \A v \in Pollers : job[v].dep = d => pc[v] \notin Holding \cup Flagging
    BY <1>1, <1>4, <2>4, NobodyOn DEF Claimable, Taken
  <2>o. Off(w, d)
    BY <2>5 DEF Off
  <2>6. RowsKept(w, d) /\ row'[d] = Linked("matched", o)
    BY <1>1, <2>1, <2>4, <2>o, RowWritten
  <2> HIDE DEF j
  <2>7. Sound(w)'
    BY <1>1, <2>2, <2>3, <2>4, <2>6 DEF Sound, Shape, Holding, Flagging, Taken
  <2>8. AnsweredFor(d)'
    BY <2>2, <2>3 DEF AnsweredFor, Shape, Minding, Holding, Flagging
  <2>9. /\ w \in Pollers /\ "reading" \notin Flagging /\ alerted \subseteq alerted'
        /\ job[w].dep = d
    BY <1>d, <1>0 DEF Flagging
  <2> QED
    BY <1>0, <1>1, <1>2, <2>2, <2>3, <2>5, <2>6, <2>7, <2>8, <2>9, PollerKeeps
<1> QED BY <1>3, <1>4

(* A step from one stage of a delivery to another that writes no row. *)
LEMMA HeldStep ==
  ASSUME IInv, NEW w \in Pollers, pc[w] \in Holding,
         NEW s \in Minding \ {"reading"},
         NEW j \in Job, Shape(w, s, j),
         j.dep = job[w].dep, j.order = job[w].order,
         s = "settling" => /\ pc[w] = "reading"
                           /\ \/ j.read \in PreDelivery
                              \/ j.read = "CANCELLED" /\ j.order \in Topups,
         OrdersKept, row' = row, alerted' = alerted, crashes' = crashes
  PROVE  IInv'
<1>d. PICK d \in Deposits : d = job[w].dep
  BY WorkOf DEF Holding, Flagging
<1>1. /\ w \in Workers /\ job[w].order \in Orders
      /\ Sound(w) /\ alerted' \in SUBSET Deposits
  BY WorkOf DEF Holding, Flagging
<1>2. RowsKept(w, d)
  BY RowSame
<1>3. Sound(w)'
  BY <1>d, <1>1 DEF Sound, Shape, Minding, Holding, Flagging
<1>4. AnsweredFor(d)'
  BY <1>d, <1>1 DEF AnsweredFor, Shape
<1>5. s \in Steps /\ s \notin Flagging
  BY DEF Steps, Minding, Holding, Flagging
<1>6. job[w].dep = d /\ j.dep = d
  BY <1>d
<1> QED BY <1>1, <1>2, <1>3, <1>4, <1>5, <1>6, PollerKeeps

LEMMA ReadOrderKeeps ==
  ASSUME IInv, NEW w \in Pollers, ReadOrder(w)
  PROVE  IInv'
<1> DEFINE o == job[w].order
           j == [job[w] EXCEPT !.read = Status(o), !.prior = NoRow]
<1>1. /\ pc[w] = "reading" /\ pc[w] \in Holding
      /\ Payable(o) /\ Goto(w, "settling")
      /\ job' = [job EXCEPT ![w] = j]
      /\ UNCHANGED <<order, row, alerted, crashes>>
  BY DEF ReadOrder, Holding, Flagging
<1>2. /\ w \in Workers /\ job[w] \in Job /\ o \in Orders /\ TypeOK
      /\ order[o] \in OrderRec
  BY <1>1, WorkOf
<1>3. Status(o) \in Statuses /\ NoRow \in LedgerRow
  BY <1>2, Typed, JobShapes DEF Status
<1>4. j \in Job /\ j.dep = job[w].dep /\ j.order = o /\ j.read = Status(o)
  BY <1>2, <1>3, ReadShape
<1>8. "settling" \in Steps /\ "settling" \in Minding \ {"reading"}
  BY DEF Steps, Minding, Holding, Flagging
<1> HIDE DEF j
<1>5. Shape(w, "settling", j)
  BY <1>1, <1>2, <1>4, <1>8, GotoShape
<1>6. j.read \in PreDelivery \/ (j.read = "CANCELLED" /\ j.order \in Topups)
  BY <1>1, <1>4 DEF Payable, LateTopup
<1>7. OrdersKept
  BY <1>1, OrdersSame
<1> QED BY <1>1, <1>4, <1>5, <1>6, <1>7, <1>8, HeldStep

(* Every other step of a delivery drops what was remembered. *)
LEMMA DropHeld ==
  ASSUME IInv, NEW w \in Pollers, pc[w] \in Holding,
         NEW s \in {"preserving", "failing", "alerting"}, Drop(w, s),
         OrdersKept, row' = row, alerted' = alerted, crashes' = crashes
  PROVE  IInv'
<1> DEFINE j == Work(job[w].dep, job[w].order)
<1>1. w \in Workers /\ TypeOK /\ job[w].dep \in Deposits /\ job[w].order \in Orders
  BY WorkOf DEF Holding, Flagging
<1>2. /\ s \in Steps /\ s \in Minding \ {"reading"}
      /\ s # "settling"
  BY DEF Steps, Minding, Holding, Flagging
<1>3. Shape(w, s, j) /\ j.dep = job[w].dep /\ j.order = job[w].order /\ j \in Job
  BY <1>1, <1>2, DropShape, WorkShape
<1> HIDE DEF j
<1> QED BY <1>2, <1>3, HeldStep

LEMMA StaleKeeps ==
  ASSUME IInv, NEW w \in Pollers, Stale(w)
  PROVE  IInv'
<1>d. PICK d \in Deposits : d = job[w].dep
  BY WorkOf DEF Stale
<1> DEFINE j == Work(job[w].dep, job[w].order)
<1>1. /\ pc[w] = "reading" /\ pc[w] \in Holding /\ Drop(w, "alerting")
      /\ UNCHANGED <<order, alerted, crashes>>
      /\ \/ row' = row
         \/ row' = [row EXCEPT ![d] = job[w].prior]
  BY <1>d DEF Stale, Holding, Flagging
<1>2. /\ w \in Workers /\ job[w] \in Job /\ TypeOK
      /\ job[w].order \in Orders /\ alerted' \in SUBSET Deposits
  BY <1>1, WorkOf
<1>3. /\ "alerting" \in Steps /\ "alerting" \notin Holding \cup Flagging
      /\ job[w].prior \in LedgerRow
  BY <1>2, JobShapes DEF Steps, Holding, Flagging
<1>4. Shape(w, "alerting", j) /\ j.dep = d /\ j.order = job[w].order /\ j \in Job
  BY <1>d, <1>1, <1>2, <1>3, DropShape, WorkShape
<1>5. RowsKept(w, d)
  BY <1>d, <1>1, <1>2, <1>3, RowSame, RowWritten, OthersOff
<1>6. OrdersKept
  BY <1>1, OrdersSame
<1> HIDE DEF j
<1>7. Sound(w)'
  BY <1>2, <1>3, <1>4 DEF Sound, Shape, Holding, Flagging
<1>8. AnsweredFor(d)'
  BY <1>4 DEF AnsweredFor, Shape, Minding
<1>9. job[w].dep = d
  BY <1>d
<1> QED BY <1>1, <1>2, <1>3, <1>4, <1>5, <1>6, <1>7, <1>8, <1>9, PollerKeeps
LEMMA SettleKeeps ==
  ASSUME IInv, NEW w \in Pollers, Settle(w)
  PROVE  IInv'
<1>d. PICK d \in Deposits, o \in Orders : d = job[w].dep /\ o = job[w].order
  BY WorkOf DEF Settle
<1>1. /\ pc[w] = "settling" /\ pc[w] \in Holding /\ Settleable(w)
      /\ order' = [order EXCEPT ![o] = Settled(order[o], Final(o), d)]
      /\ row' = [row EXCEPT ![d] = Tagged(row[d], Outcome(d, o))]
      /\ UNCHANGED <<alerted, crashes>>
      /\ Finish(w) \/ Drop(w, AfterError(o))
  BY <1>d DEF Settle, Holding, Flagging
<1>2. /\ w \in Workers /\ job[w] \in Job /\ TypeOK /\ Sound(w)
      /\ row[d] \in LedgerRow /\ alerted' \in SUBSET Deposits
  BY <1>d, <1>1, WorkOf
<1>3. row[d].order = o
  BY <1>d, <1>1, <1>2 DEF Sound
<1>4. /\ Tagged(row[d], Outcome(d, o)) \in LedgerRow
      /\ Tagged(row[d], Outcome(d, o)).outcome \in Taken
      /\ Tagged(row[d], Outcome(d, o)).order = o
  BY <1>2, <1>3, RowShapes
<1>e. Off(w, d)
  BY <1>d, <1>1, OthersOff
<1>5. /\ RowsKept(w, d) /\ row'[d].outcome \in Taken /\ row'[d].order = o
  <2>1. PICK r \in LedgerRow : r = Tagged(row[d], Outcome(d, o))
    BY <1>4
  <2>2. row' = [row EXCEPT ![d] = r]
    BY <1>1, <2>1
  <2>3. RowsKept(w, d) /\ row'[d] = r
    BY <1>e, <2>2, RowWritten
  <2> QED BY <1>4, <2>1, <2>3
<1>6. Status(o) \notin Paid
  BY <1>d, <1>1, <1>2
     DEF Settleable, Payable, LateTopup, Sound, PreDelivery, Paid, Topups
<1>7. OrdersKept /\ order'[o].paidBy = d
  BY <1>1, <1>6, SettledKept
<1>8. AnsweredFor(d)'
  BY <1>5, <1>7 DEF AnsweredFor
<1>9. CASE Finish(w)
  <2>1. Shape(w, "idle", NoJob) /\ NoJob \in Job
    BY <1>2, <1>9, FinishShape, JobShapes
  <2>2. "idle" \in Steps /\ "idle" \notin Holding \cup Flagging \cup {"settling"}
    BY DEF Steps, Holding, Flagging
  <2>3. Sound(w)'
    BY <2>1, <2>2 DEF Sound, Shape, Holding, Flagging
  <2> QED BY <1>d, <1>1, <1>2, <1>5, <1>7, <1>8, <2>1, <2>2, <2>3, PollerKeeps
<1>10. CASE Drop(w, AfterError(o))
  <2>1. PICK s \in {"preserving", "failing"} : s = AfterError(o)
    BY DEF AfterError
  <2>2. PICK j \in Job : /\ Shape(w, s, j) /\ j.dep = d /\ j.order = o
    BY <1>d, <1>2, <1>10, <2>1, DropShape, WorkShape DEF Steps
  <2>3. s \in Steps /\ s \in Holding /\ s \notin Flagging
    BY DEF Steps, Holding, Flagging
  <2>4. Sound(w)'
    BY <1>5, <2>1, <2>2, <2>3 DEF Sound, Shape
  <2> QED BY <1>d, <1>1, <1>2, <1>5, <1>7, <1>8, <2>2, <2>3, <2>4, PollerKeeps
<1> QED BY <1>1, <1>9, <1>10

LEMMA SettledByOtherKeeps ==
  ASSUME IInv, NEW w \in Pollers, SettledByOther(w)
  PROVE  IInv'
<1>d. PICK d \in Deposits : d = job[w].dep
  BY WorkOf DEF SettledByOther
<1>1. /\ pc[w] = "settling" /\ pc[w] \in Holding /\ Finish(w)
      /\ job[w].order \in Topups
      /\ UNCHANGED <<order, row, alerted, crashes>>
  BY DEF SettledByOther, Holding, Flagging
<1>2. w \in Workers /\ TypeOK /\ Sound(w) /\ alerted' \in SUBSET Deposits
  BY <1>1, WorkOf
<1>3. Shape(w, "idle", NoJob) /\ NoJob \in Job
  BY <1>1, <1>2, FinishShape, JobShapes
<1>4. "idle" \in Steps /\ "idle" \notin Holding \cup Flagging \cup {"settling"}
  BY DEF Steps, Holding, Flagging
<1>5. Sound(w)'
  BY <1>3, <1>4 DEF Sound, Shape, Holding, Flagging
<1>6. row[d].order \in Topups
  BY <1>d, <1>1, <1>2 DEF Sound
<1>7. AnsweredFor(d)'
  BY <1>1, <1>6 DEF AnsweredFor, Topups
<1>8. RowsKept(w, d) /\ OrdersKept
  BY <1>1, RowSame, OrdersSame
<1> QED
  BY <1>d, <1>1, <1>2, <1>3, <1>4, <1>5, <1>7, <1>8, PollerKeeps

LEMMA SettleFailsKeeps ==
  ASSUME IInv, NEW w \in Pollers, SettleFails(w)
  PROVE  IInv'
<1>1. /\ pc[w] \in Holding /\ UNCHANGED <<order, row, alerted, crashes>>
      /\ \E s \in {"preserving", "failing", "alerting"} : Drop(w, s)
  BY DEF SettleFails, Holding, Flagging, AfterError
<1> QED BY <1>1, OrdersSame, DropHeld

LEMMA PreserveKeeps ==
  ASSUME IInv, NEW w \in Pollers, Preserve(w)
  PROVE  IInv'
<1> DEFINE o == job[w].order
<1>1. /\ pc[w] = "preserving" /\ pc[w] \in Holding /\ Step(w, "tagging")
      /\ UNCHANGED <<row, alerted, crashes>>
      /\ \/ order' = order
         \/ order' = [order EXCEPT ![o] = InReview(order[o])]
  BY DEF Preserve, Holding, Flagging
<1>2. /\ w \in Workers /\ TypeOK /\ o \in Orders /\ job[w] \in Job
      /\ order[o] \in OrderRec /\ job[w].dep \in Deposits
      /\ "FAILED" \in Statuses
  BY <1>1, WorkOf DEF Statuses
<1>3. /\ "tagging" \in Steps /\ "tagging" # "settling"
      /\ "tagging" \in Minding \ {"reading"}
  BY DEF Steps, Minding, Holding, Flagging
<1>4. Shape(w, "tagging", job[w])
  BY <1>1, <1>2, <1>3, StepShape
<1>5. /\ InReview(order[o]) \in OrderRec
      /\ InReview(order[o]).status = order[o].status
      /\ InReview(order[o]).payouts = order[o].payouts
      /\ InReview(order[o]).paidBy = order[o].paidBy
  BY <1>2, OrderShapes
<1>6. order[o].paidBy # NoDeposit => order[o].status \in Paid
  BY <1>2 DEF IInv, OrderSound, Status, Paid
<1>7. OrdersKept
  BY <1>1, <1>2, <1>5, <1>6, OrdersSame, OrderWritten
<1> QED BY <1>1, <1>2, <1>3, <1>4, <1>7, HeldStep

LEMMA MarkFailedKeeps ==
  ASSUME IInv, NEW w \in Pollers, MarkFailed(w)
  PROVE  IInv'
<1>d. PICK d \in Deposits, o \in Orders : d = job[w].dep /\ o = job[w].order
  BY WorkOf DEF MarkFailed
<1>1. /\ pc[w] \in {"tagging", "failing"} /\ pc[w] \in Holding
      /\ UNCHANGED <<order, alerted, crashes>>
  BY DEF MarkFailed, Holding, Flagging
<1>2. /\ w \in Workers /\ job[w] \in Job /\ TypeOK /\ row[d] \in LedgerRow
      /\ alerted' \in SUBSET Deposits /\ Status(o) \in Statuses
  BY <1>d, <1>1, WorkOf, Typed DEF Status
<1>3. PICK s \in {"alerting", "blaming"}, j \in Job :
        Shape(w, s, j) /\ j.dep = d /\ j.order = o
  <2>1. CASE Step(w, "alerting")
    BY <1>d, <1>2, <2>1, StepShape DEF Steps
  <2>2. CASE /\ Goto(w, "blaming")
             /\ job' = [job EXCEPT ![w] = [job[w] EXCEPT !.read = Status(o)]]
    <3> DEFINE j == [job[w] EXCEPT !.read = Status(o)]
    <3>1. j \in Job /\ j.dep = d /\ j.order = o /\ "blaming" \in Steps
      BY <1>d, <1>2, JobShapes DEF Steps
    <3> QED BY <1>2, <2>2, <3>1, GotoShape
  <2> QED BY <1>d, <2>1, <2>2 DEF MarkFailed
<1>4. /\ s \in Steps /\ s \notin Holding \cup Flagging \cup {"settling", "parking"}
      /\ s \in Minding
  BY DEF Steps, Minding, Holding, Flagging
<1>5. PICK r \in LedgerRow : r = Tagged(row[d], "delivery_failed")
  BY <1>2, RowShapes DEF Outcomes
<1>6. RowsKept(w, d)
  <2>1. row' = row \/ row' = [row EXCEPT ![d] = r]
    BY <1>d, <1>5 DEF MarkFailed
  <2> QED BY <1>d, <1>1, <2>1, OthersOff, RowSame, RowWritten
<1>7. AnsweredFor(d)'
  BY <1>3, <1>4, WorkersOf DEF AnsweredFor, Shape
<1>8. Sound(w)' /\ OrdersKept
  BY <1>1, <1>3, <1>4, OrdersSame DEF Sound, Shape, Holding, Flagging
<1> QED
  BY <1>d, <1>1, <1>2, <1>3, <1>4, <1>6, <1>7, <1>8, PollerKeeps

LEMMA FailOrderKeeps ==
  ASSUME IInv, NEW w \in Pollers, FailOrder(w)
  PROVE  IInv'
<1>d. PICK d \in Deposits, o \in Orders : d = job[w].dep /\ o = job[w].order
  BY WorkOf DEF FailOrder
<1>1. /\ pc[w] = "blaming" /\ Drop(w, "alerting")
      /\ UNCHANGED <<row, alerted, crashes>>
      /\ \/ order' = order
         \/ MayFail(job[w].read) /\ TryMove(o, job[w].read, "FAILED")
  BY <1>d DEF FailOrder
<1>2. /\ w \in Workers /\ job[w] \in Job /\ TypeOK /\ job[w].read \in Statuses
      /\ alerted' \in SUBSET Deposits
  BY <1>1, WorkOf, JobShapes
<1>3. /\ "alerting" \in Steps /\ "alerting" \notin Holding \cup Flagging
      /\ "alerting" \in Minding /\ "FAILED" \in Statuses /\ "FAILED" \in Paid
  BY DEF Steps, Minding, Holding, Flagging, Statuses, Paid
<1>4. PICK j \in Job : Shape(w, "alerting", j) /\ j.dep = d /\ j.order = o
  BY <1>d, <1>1, <1>2, <1>3, DropShape, WorkShape
<1>5. OrdersKept
  BY <1>1, <1>2, <1>3, OrdersSame, TryMoveKept
<1>6. RowsKept(w, d)
  BY <1>1, RowSame
<1>7. AnsweredFor(d)'
  BY <1>3, <1>4, WorkersOf DEF AnsweredFor, Shape
<1>8. Sound(w)'
  BY <1>3, <1>4, WorkersOf DEF Sound, Shape, Holding, Flagging
<1> QED
  BY <1>d, <1>1, <1>2, <1>3, <1>4, <1>5, <1>6, <1>7, <1>8, PollerKeeps

LEMMA AlertKeeps ==
  ASSUME IInv, NEW w \in Pollers, Alert(w)
  PROVE  IInv'
<1>d. PICK d \in Deposits : d = job[w].dep
  BY WorkOf DEF Alert
<1>1. /\ pc[w] = "alerting" /\ Finish(w) /\ alerted' = alerted \cup {d}
      /\ UNCHANGED <<order, row, crashes>>
  BY <1>d DEF Alert
<1>2. w \in Workers /\ TypeOK /\ alerted' \in SUBSET Deposits
  BY <1>1, WorkOf DEF TypeOK
<1>3. Shape(w, "idle", NoJob) /\ NoJob \in Job
  BY <1>1, <1>2, FinishShape, JobShapes
<1>4. "idle" \in Steps /\ "idle" \notin Holding \cup Flagging \cup {"settling"}
  BY DEF Steps, Holding, Flagging
<1>5. Sound(w)'
  BY <1>3, <1>4 DEF Sound, Shape, Holding, Flagging
<1>6. AnsweredFor(d)'
  BY <1>1 DEF AnsweredFor
<1>7. RowsKept(w, d) /\ OrdersKept /\ alerted \subseteq alerted'
  BY <1>1, RowSame, OrdersSame
<1> QED
  BY <1>d, <1>1, <1>2, <1>3, <1>4, <1>5, <1>6, <1>7, PollerKeeps

-----------------------------------------------------------------------------
(* markUnderpaidBybitBsc and recordUnmatchedBybitBscTx. *)

LEMMA FlagClaimKeeps ==
  ASSUME IInv, NEW w \in Pollers, FlagClaim(w)
  PROVE  IInv'
<1>d. PICK d \in Deposits, o \in Orders : d = job[w].dep /\ o = job[w].order
  BY WorkOf DEF FlagClaim
<1>1. /\ pc[w] = "flagging" /\ pc[w] \notin Minding
      /\ UNCHANGED <<order, alerted, crashes>>
  BY DEF FlagClaim, Minding, Holding, Flagging
<1>2. /\ w \in Workers /\ TypeOK /\ job[w] \in Job
      /\ alerted' \in SUBSET Deposits /\ OrdersKept
  BY <1>1, WorkOf, OrdersSame
<1>3. CASE row[d].outcome # "none"
  <2>1. Finish(w) /\ row' = row
    BY <1>d, <1>3 DEF FlagClaim
  <2>2. Shape(w, "idle", NoJob) /\ NoJob \in Job
    BY <1>2, <2>1, FinishShape, JobShapes
  <2>3. "idle" \in Steps /\ "idle" \notin Holding \cup Flagging
    BY DEF Steps, Holding, Flagging
  <2> QED BY <1>d, <1>1, <1>2, <2>1, <2>2, <2>3, PlainStep
<1>4. CASE row[d].outcome = "none"
  <2>1. /\ row' = [row EXCEPT ![d] = Linked("underpaid", o)]
        /\ Step(w, "checking")
    BY <1>d, <1>4 DEF FlagClaim
  <2>2. PICK r \in LedgerRow :
          r = Linked("underpaid", o) /\ r.outcome = "underpaid"
    BY RowShapes DEF Outcomes
  <2>3. \A v \in Pollers : job[v].dep = d => pc[v] \notin Holding \cup Flagging
    BY <1>4, NobodyOn DEF Taken
  <2>o. Off(w, d)
    BY <2>3 DEF Off
  <2>4. RowsKept(w, d) /\ row'[d] = r
    BY <2>1, <2>2, <2>o, RowWritten
  <2>5. /\ "checking" \in Steps
        /\ "checking" \notin Holding \cup {"settling", "idle", "parking"}
    BY DEF Steps, Holding, Flagging
  <2>6. Shape(w, "checking", job[w])
    BY <1>2, <2>1, <2>5, StepShape
  <2>7. Sound(w)'
    BY <1>d, <2>2, <2>4, <2>5, <2>6 DEF Sound, Shape, Holding, Flagging
  <2>8. AnsweredFor(d)'
    BY <2>2, <2>4 DEF AnsweredFor, Taken
  <2>9. \A v \in Pollers : job[v].dep = d => pc[v] \notin Flagging /\ pc[v] \notin Holding
    BY <2>3
  <2>10. alerted \subseteq alerted'
    BY <1>1
  <2> QED
    BY <1>d, <1>1, <1>2, <2>4, <2>5, <2>6, <2>7, <2>8, <2>9, <2>10, PollerKeeps
<1> QED BY <1>3, <1>4

LEMMA FlagReadKeeps ==
  ASSUME IInv, NEW w \in Pollers, FlagRead(w)
  PROVE  IInv'
<1>d. PICK d \in Deposits : d = job[w].dep
  BY WorkOf DEF FlagRead
<1>1. /\ pc[w] = "checking" /\ UNCHANGED <<order, row, alerted, crashes>>
      /\ Step(w, "shorting") \/ Finish(w)
  BY DEF FlagRead
<1>2. /\ w \in Workers /\ TypeOK /\ job[w] \in Job /\ NoJob \in Job
      /\ alerted' \in SUBSET Deposits /\ Sound(w)
  BY <1>1, WorkOf, JobShapes
<1>3. PICK s \in {"idle", "shorting"}, j \in {job[w], NoJob} :
        Shape(w, s, j) /\ (s # "idle" => j = job[w])
  BY <1>1, <1>2, StepShape, FinishShape DEF Steps
<1>4. /\ s \in Steps /\ s \notin Holding \cup {"settling", "parking"}
      /\ pc[w] \in Flagging /\ pc[w] \notin Minding
  BY <1>1 DEF Steps, Holding, Flagging, Minding
<1>5. RowsKept(w, d) /\ OrdersKept
  BY <1>1, RowSame, OrdersSame
<1>6. Sound(w)'
  BY <1>1, <1>2, <1>3, <1>4, WorkersOf DEF Sound, Shape, Holding, Flagging
<1>7. crashes = 0 => AnsweredFor(d)'
  BY <1>1, <1>2, <1>3, <1>4, <1>5, OthersAnswered DEF IInv
<1>8. \A v \in Pollers : v # w /\ job[v].dep = d => pc[v] \notin Flagging
  BY <1>d, <1>4, OthersOff DEF Off
<1> QED
  BY <1>d, <1>1, <1>2, <1>3, <1>4, <1>5, <1>6, <1>7, <1>8, PollerKeeps

LEMMA FlagOrderKeeps ==
  ASSUME IInv, NEW w \in Pollers, FlagOrder(w)
  PROVE  IInv'
<1>d. PICK d \in Deposits, o \in Orders : d = job[w].dep /\ o = job[w].order
  BY WorkOf DEF FlagOrder
<1>1. /\ pc[w] = "shorting" /\ pc[w] \notin Minding
      /\ UNCHANGED <<row, alerted, crashes>>
  BY DEF FlagOrder, Minding, Holding, Flagging
<1>2. /\ w \in Workers /\ TypeOK /\ job[w] \in Job /\ NoJob \in Job
      /\ order[o] \in OrderRec /\ "FAILED" \in Statuses
  BY <1>d, <1>1, WorkOf, JobShapes DEF Statuses
<1>3. PICK s \in {"idle", "alerting"}, j \in Job :
        Shape(w, s, j) /\ (s # "idle" => j.dep = d /\ j.order = o)
  <2>1. CASE Finish(w)
    BY <1>2, <2>1, FinishShape
  <2>2. CASE Step(w, "alerting")
    BY <1>d, <1>2, <2>2, StepShape DEF Steps
  <2> QED BY <2>1, <2>2 DEF FlagOrder
<1>4. OrdersKept
  <2>1. CASE Status(o) # "PENDING_PAYMENT"
    <3>1. order' = [order EXCEPT ![o] = TiedTo(order[o], d)]
      BY <1>d, <2>1 DEF FlagOrder
    <3> QED BY <3>1, TiedKept
  <2>2. CASE Status(o) = "PENDING_PAYMENT"
    <3>0. /\ Shorted(order[o], d) \in OrderRec
          /\ Shorted(order[o], d).payouts = order[o].payouts
          /\ Shorted(order[o], d).paidBy = order[o].paidBy
      BY <1>2, OrderShapes
    <3>1. PICK r \in OrderRec :
            /\ r = Shorted(order[o], d)
            /\ r.payouts = order[o].payouts /\ r.paidBy = order[o].paidBy
      BY <3>0
    <3>2. order' = [order EXCEPT ![o] = r]
      BY <1>d, <2>2, <3>1 DEF FlagOrder
    <3>3. order[o].paidBy = NoDeposit
      BY <2>2, Unpaid DEF Paid
    <3> QED BY <3>1, <3>2, <3>3, OrderWritten
  <2> QED BY <2>1, <2>2
<1>5. s \in Steps /\ s \notin Holding \cup Flagging \cup {"parking"}
  BY DEF Steps, Holding, Flagging
<1> QED BY <1>d, <1>1, <1>3, <1>4, <1>5, PlainStep

LEMMA FlagFailsKeeps ==
  ASSUME IInv, NEW w \in Pollers, FlagFails(w)
  PROVE  IInv'
<1>d. PICK d \in Deposits : d = job[w].dep
  BY WorkOf DEF FlagFails, Flagging
<1>1. /\ pc[w] \in Flagging /\ pc[w] \notin {"idle", "parking"} /\ Finish(w)
      /\ \/ row' = [row EXCEPT ![d] = Tagged(row[d], "underpaid_flag_failed")]
         \/ row' = row
      /\ UNCHANGED <<order, alerted, crashes>>
  BY <1>d DEF FlagFails, Flagging
<1>2. /\ w \in Workers /\ TypeOK /\ row[d] \in LedgerRow
      /\ alerted' \in SUBSET Deposits /\ row[d].outcome = "underpaid"
  BY <1>d, <1>1, WorkOf DEF Sound
<1>3. Shape(w, "idle", NoJob) /\ NoJob \in Job
  BY <1>1, <1>2, FinishShape, JobShapes
<1>4. "idle" \in Steps /\ "idle" \notin Holding \cup Flagging \cup {"settling"}
  BY DEF Steps, Holding, Flagging
<1>5. Sound(w)'
  BY <1>3, <1>4 DEF Sound, Shape, Holding, Flagging
<1>6. PICK r \in LedgerRow : /\ r = Tagged(row[d], "underpaid_flag_failed")
                             /\ r.outcome = "underpaid_flag_failed"
  BY <1>2, RowShapes DEF Outcomes
<1>7. Off(w, d)
  BY <1>d, <1>1, OthersOff
<1>8. RowsKept(w, d) /\ row'[d] \in {r, row[d]}
  <2>1. row' = row \/ row' = [row EXCEPT ![d] = r]
    BY <1>1, <1>6
  <2> QED BY <1>7, <2>1, RowSame, RowWritten
<1>9. AnsweredFor(d)'
  BY <1>2, <1>6, <1>8 DEF AnsweredFor, Taken
<1>10. OrdersKept /\ alerted \subseteq alerted'
  BY <1>1, OrdersSame
<1> QED
  BY <1>d, <1>1, <1>2, <1>3, <1>4, <1>5, <1>8, <1>9, <1>10, PollerKeeps

LEMMA ParkKeeps ==
  ASSUME IInv, NEW w \in Pollers, Park(w)
  PROVE  IInv'
<1>1. /\ pc[w] = "parking" /\ Finish(w) /\ UNCHANGED <<order, alerted, crashes>>
      /\ pc[w] \notin Minding
  BY DEF Park, Minding, Holding, Flagging
<1>2. Sound(w) /\ w \in Workers /\ TypeOK /\ alerted' \in SUBSET Deposits
  BY <1>1, WorkersOf DEF IInv, TypeOK
<1>d. PICK d \in Deposits : d = job[w].dep
  BY <1>1, <1>2 DEF Sound
<1>3. Shape(w, "idle", NoJob) /\ NoJob \in Job
  BY <1>1, <1>2, FinishShape, JobShapes
<1>4. "idle" \in Steps /\ "idle" \notin Holding \cup Flagging \cup {"settling"}
  BY DEF Steps, Holding, Flagging
<1>5. Sound(w)'
  BY <1>3, <1>4 DEF Sound, Shape, Holding, Flagging
<1>6. OrdersKept /\ alerted \subseteq alerted'
  BY <1>1, OrdersSame
<1>7. CASE row' = row
  BY <1>d, <1>1, <1>3, <1>4, <1>6, <1>7, PlainStep
<1>8. CASE /\ row[d].outcome = "none"
           /\ row' = [row EXCEPT ![d] = Linked("unmatched", NoOrder)]
  <2>1. PICK r \in LedgerRow : /\ r = Linked("unmatched", NoOrder)
                               /\ r.outcome = "unmatched"
    BY RowShapes DEF Outcomes
  <2>2. \A v \in Pollers : job[v].dep = d => pc[v] \notin Holding \cup Flagging
    BY <1>8, NobodyOn DEF Taken
  <2>o. Off(w, d)
    BY <2>2 DEF Off
  <2>3. RowsKept(w, d) /\ row'[d] = r
    BY <1>8, <2>1, <2>o, RowWritten
  <2>4. AnsweredFor(d)'
    BY <2>1, <2>3 DEF AnsweredFor, Taken
  <2> QED
    BY <1>d, <1>1, <1>2, <1>3, <1>4, <1>5, <1>6, <2>3, <2>4, PollerKeeps
<1> QED BY <1>d, <1>7, <1>8 DEF Park
-----------------------------------------------------------------------------
(* The confirmation tracker writes nothing but a milestone. *)

LEMMA TrackerKeeps ==
  ASSUME IInv, NEW k \in Trackers, NEW s \in Steps, NEW j \in Job,
         Shape(k, s, j), OrdersKept,
         row' = row, alerted' = alerted, crashes' = crashes,
         s # "idle" => j.order \in Orders
  PROVE  IInv'
<1>0. k \in Workers /\ k \notin Pollers
  BY WorkersOf
<1>1. TypeOK'
  BY DEF IInv, TypeOK, Shape, OrdersKept
<1>2. \A v \in Pollers : pc'[v] = pc[v] /\ job'[v] = job[v]
  BY <1>0, WorkersOf DEF Shape
<1>3. \A v \in Pollers : Sound(v)'
  BY <1>2 DEF IInv, Sound
<1>4. \A u, v \in Pollers : Alone(u, v)'
  BY <1>2 DEF IInv, Alone
<1>5. \A l \in Trackers : TrackerSound(l)'
  BY <1>0, WorkersOf DEF IInv, TrackerSound, Shape
<1>6. crashes = 0 => \A d \in Deposits : AnsweredFor(d)'
  BY <1>0, OthersAnswered DEF IInv
<1> QED BY <1>1, <1>3, <1>4, <1>5, <1>6 DEF IInv, OrdersKept

LEMMA TrackerLookKeeps ==
  ASSUME IInv, NEW k \in Trackers, NEW o \in Orders, TrackerLook(k, o)
  PROVE  IInv'
<1>1. k \in Workers /\ TypeOK /\ "exploring" \in Steps
  BY WorkersOf DEF IInv, Steps
<1>2. PICK j \in Job : j = Work(NoDeposit, o) /\ j.order = o
  BY WorkShape
<1>3. Shape(k, "exploring", j)
  BY <1>1, <1>2, GotoShape DEF TrackerLook, Take
<1>4. OrdersKept /\ UNCHANGED <<row, alerted, crashes>>
  BY OrdersSame DEF TrackerLook
<1> QED BY <1>1, <1>2, <1>3, <1>4, TrackerKeeps

LEMMA TrackerStepKeeps ==
  ASSUME IInv, NEW k \in Trackers, TrackerStep(k)
  PROVE  IInv'
<1>0. pc[k] # "idle" /\ UNCHANGED <<row, alerted, crashes>>
  BY DEF TrackerStep, TrackerRead, TrackerAdvance, TrackerComplete
<1>1. PICK o \in Orders : o = job[k].order
  BY <1>0 DEF IInv, TrackerSound
<1>2. /\ k \in Workers /\ TypeOK /\ job[k] \in Job /\ NoJob \in Job
      /\ job[k].dep \in Deposits \cup {NoDeposit}
  BY WorkersOf, Typed, JobShapes DEF IInv
<1>3. PICK s \in Steps, j \in Job :
        Shape(k, s, j) /\ (s # "idle" => j.order = o)
  <2>1. CASE Finish(k)
    BY <1>2, <2>1, FinishShape DEF Steps
  <2>2. CASE Step(k, "completing")
    BY <1>1, <1>2, <2>2, StepShape DEF Steps
  <2>3. CASE Drop(k, "completing")
    BY <1>1, <1>2, <2>3, DropShape, WorkShape DEF Steps
  <2>4. CASE /\ Goto(k, "advancing")
             /\ \E e \in BOOLEAN : job' = [job EXCEPT ![k].enough = e]
    <3>1. PICK e \in BOOLEAN :
            job' = [job EXCEPT ![k] = [job[k] EXCEPT !.enough = e]]
      BY <2>4
    <3>2. PICK j \in Job : j = [job[k] EXCEPT !.enough = e] /\ j.order = o
      BY <1>1, <1>2, JobShapes
    <3>3. "advancing" \in Steps
      BY DEF Steps
    <3> QED BY <1>2, <2>4, <3>1, <3>2, <3>3, GotoShape
  <2> QED BY <2>1, <2>2, <2>3, <2>4
          DEF TrackerStep, TrackerRead, TrackerAdvance, TrackerComplete
<1>4. OrdersKept
  <2>1. CASE order' = order
    BY <2>1, OrdersSame
  <2>2. CASE \/ TryMove(o, "PAYMENT_DETECTED", "CONFIRMING")
             \/ TryMove(o, "CONFIRMING", "CONFIRMED")
    BY <2>2, TryMoveKept DEF Statuses, PreDelivery, Paid
  <2> QED BY <1>1, <2>1, <2>2
          DEF TrackerStep, TrackerRead, TrackerAdvance, TrackerComplete
<1> QED BY <1>0, <1>3, <1>4, TrackerKeeps

-----------------------------------------------------------------------------
(* The clock, the admins and the end of the process. *)

LEMMA OutsideKeeps ==
  ASSUME IInv, OrdersKept, UNCHANGED <<pc, job, crashes>>,
         row' \in [Deposits -> LedgerRow],
         \A d \in Deposits : row'[d] = row[d] \/ row[d].outcome = "unmatched",
         alerted' \in SUBSET Deposits, alerted \subseteq alerted',
         \A d \in Deposits : row'[d] # row[d] => AnsweredFor(d)'
  PROVE  IInv'
<1>1. TypeOK'
  BY DEF IInv, TypeOK, OrdersKept
<1>2. ASSUME NEW v \in Pollers
      PROVE  Sound(v)'
  <2>1. Sound(v)
    BY DEF IInv
  <2>2. pc[v] \in Holding \cup Flagging => row'[job[v].dep] = row[job[v].dep]
    BY <2>1 DEF Sound, Holding, Flagging, Taken
  <2> QED BY <2>1, <2>2 DEF Sound, Holding, Flagging
<1>3. \A u, v \in Pollers : Alone(u, v)'
  BY DEF IInv, Alone
<1>4. \A k \in Trackers : TrackerSound(k)'
  BY DEF IInv, TrackerSound
<1>5. ASSUME crashes = 0, NEW d \in Deposits, row'[d] = row[d]
      PROVE  AnsweredFor(d)'
  <2>1. AnsweredFor(d)
    BY <1>5 DEF IInv
  <2>2. row[d].order \in Products /\ order[row[d].order].paidBy = d =>
          order'[row[d].order].paidBy = d
    BY BscAssumption DEF OrdersKept
  <2> QED BY <1>5, <2>1, <2>2 DEF AnsweredFor
<1> QED BY <1>1, <1>2, <1>3, <1>4, <1>5 DEF IInv, OrdersKept

LEMMA MovedKept ==
  ASSUME IInv, NEW o \in Orders, NEW to \in Statuses,
         order[o].paidBy = NoDeposit,
         order' = [order EXCEPT ![o] = Moved(order[o], to)]
  PROVE  OrdersKept
<1>1. order[o] \in OrderRec
  BY Typed DEF IInv
<1>2. PICK r \in OrderRec :
        /\ r = Moved(order[o], to)
        /\ r.payouts = order[o].payouts /\ r.paidBy = order[o].paidBy
  BY <1>1, MovedShape
<1>3. order' = [order EXCEPT ![o] = r]
  BY <1>2
<1> QED BY <1>2, <1>3, OrderWritten

LEMMA ExpireKeeps ==
  ASSUME IInv, NEW o \in Orders, ExpireOrder(o)
  PROVE  IInv'
<1>1. order[o].paidBy = NoDeposit /\ "CANCELLED" \in Statuses
  BY Unpaid DEF ExpireOrder, Paid, Statuses
<1>2. OrdersKept
  BY <1>1, MovedKept DEF ExpireOrder
<1> QED BY <1>2, OutsideKeeps DEF ExpireOrder, IInv, TypeOK

LEMMA CancelKeeps ==
  ASSUME IInv, NEW o \in Orders, CancelOrder(o)
  PROVE  IInv'
<1>1. order[o].paidBy = NoDeposit /\ "CANCELLED" \in Statuses
  BY DEF CancelOrder, Statuses
<1>2. OrdersKept
  BY <1>1, MovedKept DEF CancelOrder
<1>3. alerted' \in SUBSET Deposits /\ alerted \subseteq alerted'
  BY DEF CancelOrder, ClaimedFor, IInv, TypeOK
<1> QED BY <1>2, <1>3, OutsideKeeps DEF CancelOrder, IInv, TypeOK

LEMMA DismissKeeps ==
  ASSUME IInv, NEW d \in Deposits, Dismiss(d)
  PROVE  IInv'
<1>1. PICK r \in LedgerRow : r = Tagged(row[d], "dismissed") /\ r.outcome = "dismissed"
  BY Typed, RowShapes DEF Outcomes, IInv
<1>2. row' = [row EXCEPT ![d] = r]
  BY <1>1 DEF Dismiss
<1>3. /\ row' \in [Deposits -> LedgerRow] /\ row'[d] = r
      /\ \A e \in Deposits : e # d => row'[e] = row[e]
  BY <1>2 DEF IInv, TypeOK
<1>4. AnsweredFor(d)'
  BY <1>1, <1>3 DEF AnsweredFor, Taken
<1>5. OrdersKept /\ row[d].outcome = "unmatched"
  BY OrdersSame DEF Dismiss
<1> QED BY <1>3, <1>4, <1>5, OutsideKeeps DEF Dismiss, IInv, TypeOK

LEMMA ManualMatchKeeps ==
  ASSUME IInv, NEW d \in Deposits, NEW o \in Orders, ManualMatch(d, o)
  PROVE  IInv'
<1>1. PICK r \in LedgerRow : r = Linked(Outcome(d, o), o) /\ r.order = o
  BY RowShapes
<1>2. row' = [row EXCEPT ![d] = r]
  BY <1>1 DEF ManualMatch
<1>3. /\ row' \in [Deposits -> LedgerRow] /\ row'[d] = r
      /\ \A e \in Deposits : e # d => row'[e] = row[e]
  BY <1>2 DEF IInv, TypeOK
<1>4. OrdersKept /\ order'[o].paidBy = d
  BY SettledKept DEF ManualMatch, Paid
<1>5. AnsweredFor(d)'
  BY <1>1, <1>3, <1>4 DEF AnsweredFor
<1>6. row[d].outcome = "unmatched"
  BY DEF ManualMatch
<1> QED BY <1>3, <1>4, <1>5, <1>6, OutsideKeeps DEF ManualMatch, IInv, TypeOK

LEMMA CrashKeeps ==
  ASSUME IInv, Crash
  PROVE  IInv'
<1>1. /\ pc' \in [Workers -> Steps] /\ job' \in [Workers -> Job]
      /\ \A w \in Workers : pc'[w] = "idle"
      /\ crashes' \in Nat /\ crashes' # 0
  BY JobShapes DEF Crash, IInv, TypeOK, Steps
<1>2. TypeOK'
  BY <1>1 DEF Crash, IInv, TypeOK
<1>3. \A w \in Pollers : Sound(w)'
  BY <1>1, WorkersOf DEF Sound, Holding, Flagging
<1>4. \A v, w \in Pollers : Alone(v, w)'
  BY <1>1, WorkersOf DEF Alone, Holding, Flagging
<1>5. \A k \in Trackers : TrackerSound(k)'
  BY <1>1, WorkersOf DEF TrackerSound
<1>6. \A o \in Orders : OrderSound(o)'
  BY DEF Crash, IInv, OrderSound, Status
<1> QED BY <1>1, <1>2, <1>3, <1>4, <1>5, <1>6 DEF IInv

-----------------------------------------------------------------------------
(* The invariant holds at the start and every step keeps it.               *)
LEMMA InitInv == Init => IInv
<1> SUFFICES ASSUME Init PROVE IInv
  OBVIOUS
<1>1. NewOrder \in OrderRec /\ NewOrder.payouts = 0 /\ NewOrder.paidBy = NoDeposit
  BY DEF NewOrder, OrderRec, Statuses, PreDelivery
<1>2. TypeOK
  BY <1>1, JobShapes DEF Init, TypeOK, Steps
<1>3. \A w \in Workers : pc[w] = "idle"
  BY DEF Init
<1>4. \A w \in Pollers : Sound(w)
  BY <1>3, WorkersOf DEF Sound, Holding, Flagging
<1>5. \A v, w \in Pollers : Alone(v, w)
  BY <1>3, WorkersOf DEF Alone, Holding, Flagging
<1>6. \A k \in Trackers : TrackerSound(k)
  BY <1>3, WorkersOf DEF TrackerSound
<1>7. \A o \in Orders : OrderSound(o)
  BY <1>1 DEF Init, OrderSound
<1>8. \A d \in Deposits : AnsweredFor(d)
  BY RowShapes DEF Init, AnsweredFor, Taken
<1> QED BY <1>2, <1>4, <1>5, <1>6, <1>7, <1>8 DEF IInv

LEMMA StepInv == IInv /\ [Next]_vars => IInv'
<1> SUFFICES ASSUME IInv, [Next]_vars PROVE IInv'
  OBVIOUS
<1>1. CASE \E d \in Deposits : Dismiss(d)
  BY <1>1, DismissKeeps
<1>2. CASE \E o \in Orders : ExpireOrder(o) \/ CancelOrder(o)
  BY <1>2, ExpireKeeps, CancelKeeps
<1>3. CASE \E d \in Deposits, o \in Orders : ManualMatch(d, o)
  BY <1>3, ManualMatchKeeps
<1>4. CASE \E w \in Pollers, d \in Deposits :
             LookConfirming(w, d) \/ LookCredited(w, d)
  BY <1>4, LookKeeps
<1>5. ASSUME NEW w \in Pollers, PollerStep(w)
      PROVE  IInv'
  BY <1>5, DetectKeeps, ClaimKeeps, ReadOrderKeeps, StaleKeeps, SettleKeeps,
     SettledByOtherKeeps, SettleFailsKeeps, PreserveKeeps, MarkFailedKeeps,
     FailOrderKeeps, AlertKeeps, FlagClaimKeeps, FlagReadKeeps, FlagOrderKeeps,
     FlagFailsKeeps, ParkKeeps DEF PollerStep
<1>6. CASE \E k \in Trackers, o \in Orders : TrackerLook(k, o)
  BY <1>6, TrackerLookKeeps
<1>7. CASE \E k \in Trackers : TrackerStep(k)
  BY <1>7, TrackerStepKeeps
<1>8. CASE Crash
  BY <1>8, CrashKeeps
<1>9. CASE UNCHANGED vars
  BY <1>9 DEF vars, IInv, TypeOK, Sound, Alone, TrackerSound, OrderSound,
              AnsweredFor, Status
<1> QED BY <1>1, <1>2, <1>3, <1>4, <1>5, <1>6, <1>7, <1>8, <1>9 DEF Next

LEMMA Invariance == Spec => []IInv
BY InitInv, StepInv, PTL DEF Spec

(* Every reachable state is well typed. *)
THEOREM TypeSafety == Spec => []TypeOK
<1>1. IInv => TypeOK
  BY DEF IInv
<1> QED BY <1>1, Invariance, PTL

(* No interleaving of cycles, tracker and admins pays an order out twice. *)
THEOREM PaidOnce == Spec => []OrderPaidOnce
<1>1. IInv => OrderPaidOnce
  BY DEF IInv, OrderSound, OrderPaidOnce
<1> QED BY <1>1, Invariance, PTL

(* A delivery in flight is never raced by another cycle's. *)
THEOREM ClaimsAreExclusive == Spec => []ClaimHeldOnce
<1>1. ASSUME IInv
      PROVE  ClaimHeldOnce
  <2>1. ASSUME NEW v \in Pollers, NEW w \in Pollers,
               pc[v] \in Holding, pc[w] \in Holding, job[v].dep = job[w].dep
        PROVE  v = w
    BY <1>1, <2>1 DEF IInv, Alone
  <2>2. ASSUME NEW w \in Pollers, pc[w] \in {"reading", "settling"}
        PROVE  row[job[w].dep] = Linked("matched", job[w].order)
    <3>1. Sound(w) /\ job[w].dep \in Deposits /\ pc[w] \in Holding
      BY <1>1, <2>2 DEF IInv, Sound, Holding, Flagging
    <3>2. /\ row[job[w].dep] \in LedgerRow
          /\ row[job[w].dep].outcome = "matched"
          /\ row[job[w].dep].order = job[w].order
      BY <1>1, <2>2, <3>1, Typed DEF IInv, Sound
    <3> QED BY <3>2 DEF LedgerRow, Linked
  <2> QED BY <2>1, <2>2 DEF ClaimHeldOnce
<1> QED BY <1>1, Invariance, PTL

(* Short of a crash, a deposit claimed for a product order delivers it or  *)
(* reaches the admins.                                                     *)
THEOREM DepositsAreAnswered == Spec => []ClaimedDepositIsAnswered
<1>1. ASSUME IInv
      PROVE  ClaimedDepositIsAnswered
  BY <1>1 DEF IInv, ClaimedDepositIsAnswered, AnsweredFor, Taken
<1> QED BY <1>1, Invariance, PTL
-----------------------------------------------------------------------------
(* What the steps that write an order do to its milestone. *)
Forward(o) ==
  /\ Rank(Status(o)) <= Rank(order'[o].status)
  /\ o \in Products /\ Status(o) \in {"CANCELLED", "FAILED", "UNDERPAID"} =>
       order'[o].payouts = order[o].payouts

LEMMA RankOf ==
  /\ \A s : Rank(s) \in 0..4
  /\ Rank("PENDING_PAYMENT") = 0 /\ Rank("PAYMENT_DETECTED") = 1
  /\ Rank("CONFIRMING") = 2 /\ Rank("CONFIRMED") = 3
  /\ \A s : s \notin PreDelivery => Rank(s) = 4
BY DEF Rank, PreDelivery

LEMMA WrittenForward ==
  ASSUME IInv, NEW o \in Orders, NEW r \in OrderRec,
         order' = [order EXCEPT ![o] = r],
         Rank(Status(o)) <= Rank(r.status),
         \/ r.payouts = order[o].payouts
         \/ o \in Topups \/ Status(o) \in PreDelivery
  PROVE  \A p \in Orders : Forward(p)
<1>1. order'[o] = r /\ \A p \in Orders : p # o => order'[p] = order[p]
  BY DEF IInv, TypeOK
<1>2. Forward(o)
  BY <1>1 DEF Forward, Topups, PreDelivery
<1>3. ASSUME NEW p \in Orders, p # o
      PROVE  Forward(p)
  BY <1>1, <1>3, RankOf DEF Forward, Status
<1> QED BY <1>2, <1>3

LEMMA SameForward ==
  ASSUME order' = order
  PROVE  \A p \in Orders : Forward(p)
BY RankOf DEF Forward, Status

LEMMA TryMoveForward ==
  ASSUME IInv, NEW o \in Orders, NEW from \in Statuses, NEW to \in Statuses,
         TryMove(o, from, to), Rank(from) <= Rank(to)
  PROVE  \A p \in Orders : Forward(p)
<1>1. CASE Status(o) # from
  BY <1>1, SameForward DEF TryMove
<1>2. CASE Status(o) = from
  <2>1. PICK r \in OrderRec : /\ r = Moved(order[o], to)
                              /\ r.status = to /\ r.payouts = order[o].payouts
    BY Typed, MovedShape DEF IInv
  <2>2. order' = [order EXCEPT ![o] = r]
    BY <1>2, <2>1 DEF TryMove
  <2> QED BY <1>2, <2>1, <2>2, WrittenForward
<1> QED BY <1>1, <1>2

LEMMA TiedForward ==
  ASSUME IInv, NEW o \in Orders, NEW d \in Deposits,
         order' = [order EXCEPT ![o] = TiedTo(order[o], d)]
  PROVE  \A p \in Orders : Forward(p)
<1>1. PICK r \in OrderRec :
        /\ r = TiedTo(order[o], d)
        /\ r.status = Status(o) /\ r.payouts = order[o].payouts
  BY Typed, OrderShapes DEF IInv, Status
<1>2. order' = [order EXCEPT ![o] = r]
  BY <1>1
<1>3. Rank(Status(o)) <= Rank(r.status)
  BY <1>1, RankOf
<1> QED BY <1>1, <1>2, <1>3, WrittenForward

LEMMA SettledForward ==
  ASSUME IInv, NEW o \in Orders, NEW d \in Deposits,
         o \in Topups \/ Status(o) \in PreDelivery,
         order' = [order EXCEPT ![o] = Settled(order[o], Final(o), d)]
  PROVE  \A p \in Orders : Forward(p)
<1>1. /\ order[o] \in OrderRec /\ Final(o) \in Statuses
      /\ Final(o) \notin PreDelivery
  BY Typed, RowShapes DEF IInv, Statuses, PreDelivery
<1>2. PICK r \in OrderRec : /\ r = Settled(order[o], Final(o), d)
                            /\ r.status = Final(o)
  BY <1>1, OrderShapes
<1>3. Rank(Status(o)) <= Rank(r.status)
  BY <1>1, <1>2, RankOf
<1>4. order' = [order EXCEPT ![o] = r]
  BY <1>2
<1> QED BY <1>2, <1>3, <1>4, WrittenForward

LEMMA PollerForward ==
  ASSUME IInv, NEW w \in Pollers, PollerStep(w)
  PROVE  \A p \in Orders : Forward(p)
<1>1. CASE order' = order
  BY <1>1, SameForward
<1>w. ASSUME pc[w] \notin {"idle", "parking"}
      PROVE  /\ job[w].dep \in Deposits /\ job[w].order \in Orders
             /\ order[job[w].order] \in OrderRec /\ Sound(w)
             /\ job[w].read \in Statuses /\ "FAILED" \in Statuses
  BY <1>w, WorkOf, JobShapes DEF Statuses
<1>2. CASE DetectTie(w)
  BY <1>2, <1>w, TiedForward DEF DetectTie
<1>3. CASE DetectMove(w)
  <2>1. /\ "PENDING_PAYMENT" \in Statuses /\ "PAYMENT_DETECTED" \in Statuses
        /\ Rank("PENDING_PAYMENT") <= Rank("PAYMENT_DETECTED")
    BY RankOf DEF Statuses, PreDelivery
  <2> QED BY <1>3, <1>w, <2>1, TryMoveForward DEF DetectMove
<1>4. CASE Settle(w)
  <2>1. Settleable(w) /\ pc[w] = "settling"
    BY <1>4 DEF Settle
  <2>2. job[w].order \in Topups \/ Status(job[w].order) \in PreDelivery
    BY <1>w, <2>1 DEF Settleable, Sound, Topups
  <2> QED BY <1>4, <1>w, <2>1, <2>2, SettledForward DEF Settle
<1>5. CASE Preserve(w) /\ order' # order
  <2>1. PICK r \in OrderRec :
          /\ r = InReview(order[job[w].order])
          /\ r.status = Status(job[w].order)
          /\ r.payouts = order[job[w].order].payouts
    BY <1>5, <1>w, OrderShapes DEF Preserve, Status
  <2>2. order' = [order EXCEPT ![job[w].order] = r]
    BY <1>5, <2>1 DEF Preserve
  <2>3. Rank(Status(job[w].order)) <= Rank(r.status)
    BY <2>1, RankOf
  <2> QED BY <1>5, <1>w, <2>1, <2>2, <2>3, WrittenForward DEF Preserve
<1>6. CASE FailOrder(w) /\ order' # order
  <2>1. TryMove(job[w].order, job[w].read, "FAILED")
    BY <1>6 DEF FailOrder
  <2>2. Rank(job[w].read) <= Rank("FAILED")
    BY RankOf DEF PreDelivery
  <2> QED BY <1>6, <1>w, <2>1, <2>2, TryMoveForward DEF FailOrder
<1>7. CASE FlagOrder(w)
  <2>0. pc[w] = "shorting"
    BY <1>7 DEF FlagOrder
  <2>1. CASE Status(job[w].order) # "PENDING_PAYMENT"
    BY <1>7, <1>w, <2>0, <2>1, TiedForward DEF FlagOrder
  <2>2. CASE Status(job[w].order) = "PENDING_PAYMENT"
    <3>1. PICK r \in OrderRec :
            /\ r = Shorted(order[job[w].order], job[w].dep)
            /\ r.status = "UNDERPAID"
            /\ r.payouts = order[job[w].order].payouts
      BY <1>w, <2>0, OrderShapes
    <3>2. order' = [order EXCEPT ![job[w].order] = r]
      BY <1>7, <2>2, <3>1 DEF FlagOrder
    <3>3. Rank(Status(job[w].order)) <= Rank(r.status)
      BY <3>1, RankOf DEF PreDelivery
    <3> QED BY <1>w, <2>0, <3>1, <3>2, <3>3, WrittenForward
  <2> QED BY <2>1, <2>2
<1> QED
  BY <1>1, <1>2, <1>3, <1>4, <1>5, <1>6, <1>7
  DEF PollerStep, DetectRead, Claim, ReadOrder, Stale, SettledByOther,
      SettleFails, MarkFailed, Alert, FlagClaim, FlagRead, FlagFails, Park

LEMMA TrackerForward ==
  ASSUME IInv, NEW k \in Trackers, TrackerStep(k)
  PROVE  \A p \in Orders : Forward(p)
<1>1. job[k].order \in Orders
  BY DEF IInv, TrackerSound, TrackerStep, TrackerRead, TrackerAdvance,
         TrackerComplete
<1>2. /\ "PAYMENT_DETECTED" \in Statuses /\ "CONFIRMING" \in Statuses
      /\ "CONFIRMED" \in Statuses
      /\ Rank("PAYMENT_DETECTED") <= Rank("CONFIRMING")
      /\ Rank("CONFIRMING") <= Rank("CONFIRMED")
  BY RankOf DEF Statuses, PreDelivery
<1>3. CASE TrackerRead(k)
  BY <1>3, SameForward DEF TrackerRead
<1>4. CASE TrackerAdvance(k)
  BY <1>1, <1>2, <1>4, TryMoveForward DEF TrackerAdvance
<1>5. CASE TrackerComplete(k)
  BY <1>1, <1>2, <1>5, TryMoveForward DEF TrackerComplete
<1> QED BY <1>3, <1>4, <1>5 DEF TrackerStep

LEMMA NextForward ==
  ASSUME IInv, Next
  PROVE  \A p \in Orders : Forward(p)
<1>1. CASE order' = order
  BY <1>1, SameForward
<1>2. CASE \E o \in Orders : ExpireOrder(o) \/ CancelOrder(o)
  <2>1. PICK o \in Orders : ExpireOrder(o) \/ CancelOrder(o)
    BY <1>2
  <2>2. PICK r \in OrderRec : /\ r = Moved(order[o], "CANCELLED")
                              /\ r.status = "CANCELLED"
                              /\ r.payouts = order[o].payouts
    BY Typed, MovedShape DEF IInv, Statuses
  <2>3. order' = [order EXCEPT ![o] = r]
    BY <2>1, <2>2 DEF ExpireOrder, CancelOrder
  <2>4. Rank(Status(o)) <= Rank(r.status)
    BY <2>2, RankOf DEF PreDelivery
  <2> QED BY <2>2, <2>3, <2>4, WrittenForward
<1>3. CASE \E d \in Deposits, o \in Orders : ManualMatch(d, o)
  BY <1>3, SettledForward DEF ManualMatch, PreDelivery
<1>4. CASE \E w \in Pollers : PollerStep(w)
  BY <1>4, PollerForward
<1>5. CASE \E k \in Trackers : TrackerStep(k)
  BY <1>5, TrackerForward
<1> QED
  BY <1>1, <1>2, <1>3, <1>4, <1>5
  DEF Next, Dismiss, LookConfirming, LookCredited, TrackerLook, Crash

(* No order returns to a milestone it left, and no late cycle delivers a   *)
(* product order that is over.                                             *)
THEOREM MilestonesMoveForward == Spec => OrderMovesForward
<1>1. IInv /\ [Next]_vars =>
        [\A o \in Orders :
           /\ Rank(Status(o)) <= Rank(order'[o].status)
           /\ o \in Products /\ Status(o) \in {"CANCELLED", "FAILED", "UNDERPAID"}
                => order'[o].payouts = order[o].payouts]_vars
  BY NextForward DEF Forward
<1> QED BY <1>1, Invariance, PTL DEF Spec, OrderMovesForward
=============================================================================
