---------------------------- MODULE OutboxProofs ----------------------------
(***************************************************************************)
(* Proofs about Outbox for any number of rows and dispatchers, any attempt *)
(* limit, and any number of crashes and failed writes.                     *)
(*                                                                         *)
(* IInv says where each dispatcher stands with the row it works on;        *)
(* HoldersAreFresh, which needs sends that end in time (Slow = {}), says   *)
(* that whoever works on a row still holds it.                             *)
(***************************************************************************)
EXTENDS Outbox, TLAPS

Working(d, r) == pc[d] # "idle" /\ at[d] = r

(* A row being sent is due, one being worked on was queued, and no         *)
(* dispatcher works on a row it has parked.                                *)
SentRowsAreDue == \A r \in Rows : row[r].status = "SENDING" => ~row[r].waiting
WorkIsQueued ==
    \A d \in Dispatchers, r \in Rows :
        Working(d, r) => row[r].status # "ABSENT" /\ r \notin parked[d]

(* What is being recorded as sent has been sent.                           *)
RecordedWasReached ==
    \A d \in Dispatchers :
        /\ pc[d] = "recording" => at[d] \in reached
        /\ parked[d] \subseteq reached

(* A send its dispatcher knows of is about to be recorded or is recorded.  *)
KnownIsSettling ==
    \A d \in Dispatchers, r \in Rows : <<d, r>> \in known =>
        \/ Owns(d, r) /\ (r \in parked[d] \/ (pc[d] = "recording" /\ at[d] = r))
        \/ row[r].status = "SENT" /\ ~Working(d, r)

IInv == /\ TypeOK /\ SentRowsAreDue /\ WorkIsQueued
        /\ RecordedWasReached /\ KnownIsSettling

(* Whoever works on a row, not asleep, holds a fresh claim on it.          *)
HoldersAreFresh ==
    \A d \in Dispatchers, r \in Rows : Busy(d, r) => Owns(d, r) /\ ~row[r].stale

-----------------------------------------------------------------------------
(* The record updates of the model keep the type of a row ...              *)
LEMMA RowUpdates ==
    ASSUME NEW x \in OutboxRow
    PROVE  /\ \A s \in Statuses : Unclaimed(x, s) \in OutboxRow
           /\ Requeued(x) \in OutboxRow /\ Retried(x) \in OutboxRow
           /\ \A d \in Dispatchers : ClaimedBy(x, d) \in OutboxRow
           /\ [x EXCEPT !.status = "PENDING"] \in OutboxRow
           /\ [x EXCEPT !.waiting = FALSE] \in OutboxRow
           /\ [x EXCEPT !.stale = TRUE] \in OutboxRow
<1> USE DEF OutboxRow, Statuses
<1>1. ASSUME NEW s \in Statuses PROVE Unclaimed(x, s) \in OutboxRow
  BY DEF Unclaimed
<1>2. Requeued(x) \in OutboxRow
  BY DEF Unclaimed, Requeued
<1>3. Retried(x) \in OutboxRow
  BY DEF Unclaimed, Retried
<1>4. ASSUME NEW d \in Dispatchers PROVE ClaimedBy(x, d) \in OutboxRow
  BY DEF ClaimedBy
<1>5. /\ [x EXCEPT !.status = "PENDING"] \in OutboxRow
      /\ [x EXCEPT !.waiting = FALSE] \in OutboxRow
      /\ [x EXCEPT !.stale = TRUE] \in OutboxRow
  OBVIOUS
<1> QED
  BY <1>1, <1>2, <1>3, <1>4, <1>5

(* ... and these are the fields of the new row.                            *)
LEMMA RowFields ==
    ASSUME NEW x \in OutboxRow
    PROVE  /\ \A s : /\ Unclaimed(x, s).status = s
                     /\ Unclaimed(x, s).waiting = x.waiting
           /\ Requeued(x).status = "PENDING" /\ Retried(x).status = "PENDING"
           /\ \A d : /\ ClaimedBy(x, d).status = "SENDING"
                     /\ ClaimedBy(x, d).claim = d
                     /\ ~ClaimedBy(x, d).stale
                     /\ ClaimedBy(x, d).waiting = x.waiting
           /\ x.attempts \in Nat /\ x.waiting \in BOOLEAN /\ x.stale \in BOOLEAN
<1> USE DEF OutboxRow
<1>1. ASSUME NEW s PROVE Unclaimed(x, s).status = s /\ Unclaimed(x, s).waiting = x.waiting
  BY DEF Unclaimed
<1>2. Requeued(x).status = "PENDING" /\ Retried(x).status = "PENDING"
  BY DEF Unclaimed, Requeued, Retried
<1>3. ASSUME NEW d
      PROVE  /\ ClaimedBy(x, d).status = "SENDING" /\ ClaimedBy(x, d).claim = d
             /\ ~ClaimedBy(x, d).stale /\ ClaimedBy(x, d).waiting = x.waiting
  BY DEF ClaimedBy
<1>4. x.attempts \in Nat /\ x.waiting \in BOOLEAN /\ x.stale \in BOOLEAN
  OBVIOUS
<1> QED
  BY <1>1, <1>2, <1>3, <1>4

LEMMA Bumped == \A n \in Nat : Bump(n) \in Nat
BY OutboxAssumption DEF Bump

LEMMA Moved ==
    ASSUME TypeOK, NEW d \in Dispatchers
    PROVE  /\ \A s \in Steps : Goto(d, s) => pc' \in [Dispatchers -> Steps]
           /\ Finish(d) => /\ pc' \in [Dispatchers -> Steps]
                           /\ at' \in [Dispatchers -> Rows \cup {NoRow}]
                           /\ \A e \in Dispatchers : pc'[e] # "idle" => at'[e] \in Rows
           /\ \A n \in {NoLimit, 1, MaxAttempts} :
                 Fails(d, n) => /\ pc' \in [Dispatchers -> Steps]
                                /\ limit' \in [Dispatchers -> {NoLimit, 1, MaxAttempts}]
BY DEF TypeOK, Goto, Finish, Fails, Steps

LEMMA TypeStep == TypeOK /\ [Next]_vars => TypeOK'
<1> SUFFICES ASSUME TypeOK, [Next]_vars PROVE TypeOK'
  OBVIOUS
<1> USE RowUpdates, Moved, Bumped
<1> DEFINE Cell(r) == row[r] \in OutboxRow
<1>0. \A r \in Rows : Cell(r)
  BY DEF TypeOK
<1>1. ASSUME NEW r \in Rows, Enqueue(r) PROVE TypeOK'
  <2>1. row' = [row EXCEPT ![r] = [row[r] EXCEPT !.status = "PENDING"]]
    BY <1>1 DEF Enqueue
  <2>2. row' \in [Rows -> OutboxRow]
    BY <1>0, <2>1 DEF TypeOK
  <2> QED
    BY <1>1, <2>2 DEF TypeOK, Enqueue
<1>2. ASSUME NEW r \in Rows, AdminRetry(r) PROVE TypeOK'
  <2>1. row' \in [Rows -> OutboxRow] /\ failures' \in [Rows -> Nat]
    BY <1>2, <1>0 DEF TypeOK, AdminRetry
  <2> QED
    BY <1>2, <2>1 DEF TypeOK, AdminRetry
<1>3. ASSUME NEW r \in Rows, BackoffEnds(r) PROVE TypeOK'
  <2>1. row' = [row EXCEPT ![r] = [row[r] EXCEPT !.waiting = FALSE]]
    BY <1>3 DEF BackoffEnds
  <2>2. row' \in [Rows -> OutboxRow]
    BY <1>0, <2>1 DEF TypeOK
  <2> QED
    BY <1>3, <2>2 DEF TypeOK, BackoffEnds
<1>4. ASSUME NEW r \in Rows, ClaimAges(r) PROVE TypeOK'
  <2>1. row' = [row EXCEPT ![r] = [row[r] EXCEPT !.stale = TRUE]]
    BY <1>4 DEF ClaimAges
  <2>2. row' \in [Rows -> OutboxRow]
    BY <1>0, <2>1 DEF TypeOK
  <2> QED
    BY <1>4, <2>2 DEF TypeOK, ClaimAges
<1>5. ASSUME NEW d \in Dispatchers, NEW r \in Rows, Claim(d, r) PROVE TypeOK'
  BY <1>5, <1>0 DEF TypeOK, Claim, Goto, Steps
<1>6. ASSUME NEW d \in Dispatchers, NEW r \in Rows, Flush(d, r) PROVE TypeOK'
  BY <1>6, <1>0 DEF TypeOK, Flush, MarkSent, Statuses
<1>7. ASSUME NEW d \in Dispatchers, Skip(d) PROVE TypeOK'
  BY <1>7, <1>0 DEF TypeOK, Skip, Statuses
<1>8. ASSUME NEW d \in Dispatchers, CheckFails(d) PROVE TypeOK'
  BY <1>8 DEF TypeOK, CheckFails, Fails, Goto
<1>9. ASSUME NEW d \in Dispatchers, PutOff(d) PROVE TypeOK'
  <2>1. pc[d] # "idle" /\ outages' \in Nat /\ Fails(d, NoLimit)
    BY <1>9 DEF TypeOK, PutOff
  <2> QED
    BY <1>9, <2>1 DEF TypeOK, PutOff, Fails, Goto
<1>10. ASSUME NEW d \in Dispatchers, StartSend(d) PROVE TypeOK'
  BY <1>10 DEF TypeOK, StartSend, Goto, Steps
<1>11. ASSUME NEW d \in Dispatchers, SendAccepted(d) PROVE TypeOK'
  <2>1. at[d] \in Rows /\ reached' \in SUBSET Rows /\ known' \in SUBSET (Dispatchers \X Rows)
    BY <1>11 DEF TypeOK, SendAccepted
  <2> QED
    BY <1>11, <2>1 DEF TypeOK, SendAccepted, Goto, Steps
<1>12. ASSUME NEW d \in Dispatchers, SendFails(d) PROVE TypeOK'
  BY <1>12 DEF TypeOK, SendFails, Fails, Goto
<1>13. ASSUME NEW d \in Dispatchers, SendFlooded(d) PROVE TypeOK'
  BY <1>13 DEF TypeOK, SendFlooded, Goto, Steps
<1>14. ASSUME NEW d \in Dispatchers, Release(d) PROVE TypeOK'
  BY <1>14, <1>0 DEF TypeOK, Release, Statuses
<1>15. ASSUME NEW d \in Dispatchers, RecordSent(d) PROVE TypeOK'
  BY <1>15, <1>0 DEF TypeOK, RecordSent, MarkSent, Statuses
<1>16. ASSUME NEW d \in Dispatchers, RecordThrows(d) PROVE TypeOK'
  <2>1. at[d] \in Rows /\ faults' \in Nat
    BY <1>16 DEF TypeOK, RecordThrows
  <2>2. row' \in [Rows -> OutboxRow]
    <3>1. UNCHANGED row \/ MarkSent(d, at[d])
      BY <1>16 DEF RecordThrows
    <3>2. Unclaimed(row[at[d]], "SENT") \in OutboxRow
      BY <1>0, <2>1 DEF Statuses
    <3> QED
      BY <2>1, <3>1, <3>2 DEF TypeOK, MarkSent
  <2>3. parked' \in [Dispatchers -> SUBSET Rows]
    BY <1>16, <2>1 DEF TypeOK, RecordThrows
  <2> QED
    BY <1>16, <2>1, <2>2, <2>3 DEF TypeOK, RecordThrows
<1>17. ASSUME NEW d \in Dispatchers, CountAttempt(d) PROVE TypeOK'
  <2> DEFINE r == at[d]
             n == Bump(row[r].attempts)
  <2>1. r \in Rows /\ n \in Nat /\ Bump(failures[r]) \in Nat
    BY <1>17, <1>0, RowFields DEF TypeOK, CountAttempt
  <2>2. CASE Owns(d, r)
    <3>1. row' = [row EXCEPT ![r].attempts = n] /\ counted' = [counted EXCEPT ![d] = n]
      BY <1>17, <2>2 DEF CountAttempt
    <3>2. row' \in [Rows -> OutboxRow]
      BY <1>0, <2>1, <3>1 DEF TypeOK, OutboxRow
    <3>3. failures' \in [Rows -> Nat]
      BY <1>17, <2>1, <2>2 DEF TypeOK, CountAttempt
    <3> HIDE DEF n
    <3> QED
      BY <1>17, <2>1, <2>2, <3>1, <3>2, <3>3 DEF TypeOK, CountAttempt, Goto, Steps
  <2>3. CASE ~Owns(d, r)
    BY <1>17, <2>3 DEF TypeOK, CountAttempt
  <2> QED
    BY <2>2, <2>3
<1>18. ASSUME NEW d \in Dispatchers, SettleFailure(d) PROVE TypeOK'
  BY <1>18, <1>0 DEF TypeOK, SettleFailure, GivenUp, Statuses
<1>19. ASSUME NEW d \in Dispatchers, WriteThrows(d) PROVE TypeOK'
  BY <1>19 DEF TypeOK, WriteThrows
<1>20. ASSUME NEW d \in Dispatchers, Crash(d) PROVE TypeOK'
  BY <1>20 DEF TypeOK, Crash
<1>21. CASE UNCHANGED vars
  BY <1>21 DEF TypeOK, vars
<1> QED
  BY <1>1, <1>2, <1>3, <1>4, <1>5, <1>6, <1>7, <1>8, <1>9, <1>10, <1>11,
     <1>12, <1>13, <1>14, <1>15, <1>16, <1>17, <1>18, <1>19, <1>20, <1>21
  DEF Next, DispatcherStep, SendEnds, Fault
-----------------------------------------------------------------------------
LEMMA InvStep == IInv /\ TypeOK' /\ [Next]_vars => IInv'
<1> SUFFICES ASSUME IInv, TypeOK', [Next]_vars PROVE IInv'
  OBVIOUS
<1> USE RowFields DEF IInv, TypeOK, SentRowsAreDue, WorkIsQueued, RecordedWasReached,
        KnownIsSettling, Working, Owns
<1>1. ASSUME NEW r \in Rows, Enqueue(r) PROVE IInv'
  BY <1>1 DEF Enqueue
<1>2. ASSUME NEW r \in Rows, AdminRetry(r) PROVE IInv'
  BY <1>2 DEF AdminRetry
<1>3. ASSUME NEW r \in Rows, BackoffEnds(r) PROVE IInv'
  BY <1>3 DEF BackoffEnds
<1>4. ASSUME NEW r \in Rows, ClaimAges(r) PROVE IInv'
  BY <1>4 DEF ClaimAges
<1>5. ASSUME NEW d \in Dispatchers, NEW r \in Rows, Claim(d, r) PROVE IInv'
  <2>1. row[r].status \in {"PENDING", "SENDING"} /\ ~row[r].waiting /\ r \notin parked[d]
    BY <1>5 DEF Claim, Claimable, MayTake
  <2>2. /\ row'[r] = ClaimedBy(row[r], d)
        /\ \A q \in Rows \ {r} : row'[q] = row[q]
        /\ pc' = [pc EXCEPT ![d] = "checking"] /\ at' = [at EXCEPT ![d] = r]
        /\ known' = {p \in known : p[1] = d \/ p[2] # r}
        /\ pc[d] = "idle" /\ UNCHANGED <<parked, reached>>
    BY <1>5 DEF Claim, Goto
  <2>3. SentRowsAreDue' /\ WorkIsQueued' /\ RecordedWasReached'
    <3>1. SentRowsAreDue'
      BY <2>1, <2>2
    <3>2. WorkIsQueued'
      BY <2>1, <2>2
    <3>3. RecordedWasReached'
      BY <2>2
    <3> QED
      BY <3>1, <3>2, <3>3
  <2>4. KnownIsSettling'
    <3> SUFFICES ASSUME NEW e \in Dispatchers, NEW q \in Rows, <<e, q>> \in known'
                 PROVE  \/ Owns(e, q)' /\ (q \in parked[e] \/ (pc'[e] = "recording" /\ at'[e] = q))
                        \/ row'[q].status = "SENT" /\ ~Working(e, q)'
      BY <2>2
    <3>1. <<e, q>> \in known /\ (e = d \/ q # r)
      BY <2>2
    <3>2. CASE q # r
      BY <2>2, <3>1, <3>2
    <3>3. CASE q = r
      BY <1>5, <2>1, <2>2, <3>1, <3>3 DEF Claim
    <3> QED
      BY <3>2, <3>3
  <2> QED
    BY <2>3, <2>4
<1>6. ASSUME NEW d \in Dispatchers, NEW r \in Rows, Flush(d, r) PROVE IInv'
  BY <1>6 DEF Flush, MarkSent
<1>7. ASSUME NEW d \in Dispatchers, Skip(d) PROVE IInv'
  BY <1>7 DEF Skip, Finish, Goto
<1>8. ASSUME NEW d \in Dispatchers, CheckFails(d) PROVE IInv'
  BY <1>8 DEF CheckFails, Fails, Goto
<1>9. ASSUME NEW d \in Dispatchers, PutOff(d) PROVE IInv'
  BY <1>9 DEF PutOff, Fails, Goto
<1>10. ASSUME NEW d \in Dispatchers, StartSend(d) PROVE IInv'
  BY <1>10 DEF StartSend, Goto
<1>11. ASSUME NEW d \in Dispatchers, SendAccepted(d) PROVE IInv'
  BY <1>11 DEF SendAccepted, Goto
<1>12. ASSUME NEW d \in Dispatchers, SendFails(d) PROVE IInv'
  BY <1>12 DEF SendFails, Fails, Goto
<1>13. ASSUME NEW d \in Dispatchers, SendFlooded(d) PROVE IInv'
  BY <1>13 DEF SendFlooded, Goto
<1>14. ASSUME NEW d \in Dispatchers, Release(d) PROVE IInv'
  BY <1>14 DEF Release, Finish, Goto
<1>15. ASSUME NEW d \in Dispatchers, RecordSent(d) PROVE IInv'
  BY <1>15 DEF RecordSent, MarkSent, Finish, Goto
<1>16. ASSUME NEW d \in Dispatchers, RecordThrows(d) PROVE IInv'
  <2>1. /\ pc[d] = "recording" /\ at[d] \in Rows /\ at[d] \in reached
        /\ pc' = [pc EXCEPT ![d] = "idle"] /\ at' = [at EXCEPT ![d] = NoRow]
        /\ parked' = [parked EXCEPT ![d] = @ \cup {at[d]}]
        /\ UNCHANGED <<known, reached>>
    BY <1>16 DEF RecordThrows, Finish, Goto
  <2>2. CASE UNCHANGED row
    BY <2>1, <2>2
  <2>3. CASE MarkSent(d, at[d])
    <3>1. \/ UNCHANGED row
          \/ /\ Owns(d, at[d]) /\ row'[at[d]].status = "SENT"
             /\ \A q \in Rows \ {at[d]} : row'[q] = row[q]
      BY <2>1, <2>3 DEF MarkSent
    <3> QED
      BY <2>1, <2>2, <3>1
  <2> QED
    BY <1>16, <2>2, <2>3 DEF RecordThrows
<1>17. ASSUME NEW d \in Dispatchers, CountAttempt(d) PROVE IInv'
  <2>1. CASE Owns(d, at[d])
    <3>1. /\ pc[d] = "failing" /\ pc' = [pc EXCEPT ![d] = "settling"]
          /\ UNCHANGED <<at, parked, reached, known>>
          /\ row' = [row EXCEPT ![at[d]].attempts = Bump(row[at[d]].attempts)]
      BY <1>17, <2>1 DEF CountAttempt, Goto
    <3>2. \A q \in Rows : /\ row'[q].status = row[q].status
                           /\ row'[q].claim = row[q].claim
                           /\ row'[q].waiting = row[q].waiting
      BY <3>1 DEF OutboxRow
    <3> QED
      BY <3>1, <3>2
  <2>2. CASE ~Owns(d, at[d])
    BY <1>17, <2>2 DEF CountAttempt, Finish, Goto
  <2> QED
    BY <2>1, <2>2
<1>18. ASSUME NEW d \in Dispatchers, SettleFailure(d) PROVE IInv'
  BY <1>18 DEF SettleFailure, GivenUp, Finish, Goto
<1>19. ASSUME NEW d \in Dispatchers, WriteThrows(d) PROVE IInv'
  BY <1>19 DEF WriteThrows, Finish, Goto
<1>20. ASSUME NEW d \in Dispatchers, Crash(d) PROVE IInv'
  BY <1>20 DEF Crash, Finish, Goto
<1>21. CASE UNCHANGED vars
  BY <1>21 DEF vars
<1> QED
  BY <1>1, <1>2, <1>3, <1>4, <1>5, <1>6, <1>7, <1>8, <1>9, <1>10, <1>11,
     <1>12, <1>13, <1>14, <1>15, <1>16, <1>17, <1>18, <1>19, <1>20, <1>21
  DEF Next, DispatcherStep, SendEnds, Fault

LEMMA InvInit == Init => IInv
BY OutboxAssumption DEF Init, IInv, TypeOK, OutboxRow, Statuses, Steps, NoLimit,
   SentRowsAreDue, WorkIsQueued, RecordedWasReached, KnownIsSettling, Working

(* Where each dispatcher stands is an invariant of the outbox.             *)
THEOREM Invariant == Spec => []IInv
<1>1. Init => IInv
  BY InvInit
<1>2. IInv /\ [Next]_vars => IInv'
  BY TypeStep, InvStep DEF IInv
<1> QED
  BY <1>1, <1>2, PTL DEF Spec

(* Every variable keeps its type.                                          *)
THEOREM TypeCorrect == Spec => []TypeOK
BY Invariant, PTL DEF IInv

(* A process never sends again what it has seen accepted, as long as no    *)
(* other process has taken the row over: drainBatch and unrecordedSends,   *)
(* whatever writes fail.                                                   *)
THEOREM NoKnownSendRepeated == Spec => []KnownSendIsNotRepeated
<1>1. IInv => KnownSendIsNotRepeated
  BY DEF IInv, TypeOK, WorkIsQueued, KnownIsSettling, KnownSendIsNotRepeated, Working
<1> QED
  BY <1>1, Invariant, PTL

-----------------------------------------------------------------------------
(* What the claim guard is for.                                            *)

(* While a claim is fresh its holder alone moves the row.                  *)
LEMMA HolderMoves ==
    ASSUME IInv, [Next]_vars, NEW d \in Dispatchers, NEW r \in Rows,
           Owns(d, r), ~row[r].stale, Busy(d, r),
           row'[r] # row[r], ~row'[r].stale
    PROVE  pc'[d] # pc[d]
<1> USE DEF IInv, TypeOK, SentRowsAreDue, Owns, Busy
<1>1. ASSUME NEW q \in Rows, Enqueue(q) PROVE FALSE
  BY <1>1 DEF Enqueue
<1>2. ASSUME NEW q \in Rows, AdminRetry(q) PROVE FALSE
  BY <1>2 DEF AdminRetry
<1>3. ASSUME NEW q \in Rows, BackoffEnds(q) PROVE FALSE
  BY <1>3 DEF BackoffEnds
<1>4. ASSUME NEW q \in Rows, ClaimAges(q) PROVE FALSE
  BY <1>4 DEF ClaimAges, OutboxRow
<1>5. ASSUME NEW e \in Dispatchers, NEW q \in Rows, Claim(e, q) PROVE FALSE
  BY <1>5 DEF Claim, Claimable
<1>6. ASSUME NEW e \in Dispatchers, NEW q \in Rows, Flush(e, q) PROVE FALSE
  BY <1>6 DEF Flush, MarkSent
<1>7. ASSUME NEW e \in Dispatchers, DispatcherStep(e) \/ Fault(e)
      PROVE  pc'[d] # pc[d]
  <2>1. CASE UNCHANGED row
    BY <2>1
  <2>2. CASE Skip(e)
    BY <2>2 DEF Skip, Finish, Goto
  <2>3. CASE Release(e)
    BY <2>3 DEF Release, Finish, Goto
  <2>4. CASE RecordSent(e)
    BY <2>4 DEF RecordSent, MarkSent, Finish, Goto
  <2>5. CASE RecordThrows(e)
    BY <2>5 DEF RecordThrows, MarkSent, Finish, Goto
  <2>6. CASE CountAttempt(e)
    <3>1. CASE Owns(e, at[e])
      BY <2>6, <3>1 DEF CountAttempt, Goto
    <3>2. CASE ~Owns(e, at[e])
      BY <2>6, <3>2 DEF CountAttempt
    <3> QED
      BY <3>1, <3>2
  <2>7. CASE SettleFailure(e)
    BY <2>7 DEF SettleFailure, Finish, Goto
  <2> QED
    BY <1>7, <2>1, <2>2, <2>3, <2>4, <2>5, <2>6, <2>7
    DEF DispatcherStep, Fault, SendEnds, CheckFails, PutOff, StartSend, SendAccepted,
        SendFails, SendFlooded, WriteThrows, Crash
<1>8. CASE UNCHANGED vars
  BY <1>8 DEF vars
<1> QED
  BY <1>1, <1>2, <1>3, <1>4, <1>5, <1>6, <1>7, <1>8 DEF Next
(* However slow the others are, nobody else moves a row under a fresh claim:*)
(* every write that settles a row carries claimGuard.                      *)
THEOREM HolderDecides == Spec => ClaimerRules
<1>1. IInv /\ [Next]_vars =>
        [\A d \in Dispatchers, r \in Rows :
           /\ Owns(d, r) /\ ~row[r].stale /\ Busy(d, r)
           /\ row'[r] # row[r] /\ ~row'[r].stale
           => pc'[d] # pc[d]]_vars
  BY HolderMoves
<1> QED
  BY <1>1, Invariant, PTL DEF Spec, ClaimerRules

-----------------------------------------------------------------------------
(* Where every send ends before its claim is stale, whoever works on a row *)
(* holds it ...                                                            *)
LEMMA FreshStep ==
    ASSUME Slow = {}, IInv, HoldersAreFresh, [Next]_vars
    PROVE  HoldersAreFresh'
<1> USE RowFields DEF IInv, TypeOK, HoldersAreFresh, Owns, Busy
<1>1. ASSUME NEW r \in Rows, Enqueue(r) PROVE HoldersAreFresh'
  BY <1>1 DEF Enqueue
<1>2. ASSUME NEW r \in Rows, AdminRetry(r) PROVE HoldersAreFresh'
  BY <1>2 DEF AdminRetry
<1>3. ASSUME NEW r \in Rows, BackoffEnds(r) PROVE HoldersAreFresh'
  BY <1>3 DEF BackoffEnds
<1>4. ASSUME NEW r \in Rows, ClaimAges(r) PROVE HoldersAreFresh'
  BY <1>4 DEF ClaimAges
<1>5. ASSUME NEW d \in Dispatchers, NEW r \in Rows, Claim(d, r) PROVE HoldersAreFresh'
  BY <1>5 DEF Claim, Goto, Claimable
<1>6. ASSUME NEW d \in Dispatchers, NEW r \in Rows, Flush(d, r) PROVE HoldersAreFresh'
  BY <1>6 DEF Flush, MarkSent
<1>7. ASSUME NEW d \in Dispatchers, Skip(d) PROVE HoldersAreFresh'
  BY <1>7 DEF Skip, Finish, Goto
<1>8. ASSUME NEW d \in Dispatchers, CheckFails(d) PROVE HoldersAreFresh'
  BY <1>8 DEF CheckFails, Fails, Goto
<1>9. ASSUME NEW d \in Dispatchers, PutOff(d) PROVE HoldersAreFresh'
  BY <1>9 DEF PutOff, Fails, Goto
<1>10. ASSUME NEW d \in Dispatchers, StartSend(d) PROVE HoldersAreFresh'
  BY <1>10 DEF StartSend, Goto
<1>11. ASSUME NEW d \in Dispatchers, SendAccepted(d) PROVE HoldersAreFresh'
  BY <1>11 DEF SendAccepted, Goto
<1>12. ASSUME NEW d \in Dispatchers, SendFails(d) PROVE HoldersAreFresh'
  BY <1>12 DEF SendFails, Fails, Goto
<1>13. ASSUME NEW d \in Dispatchers, SendFlooded(d) PROVE HoldersAreFresh'
  BY <1>13 DEF SendFlooded, Goto
<1>14. ASSUME NEW d \in Dispatchers, Release(d) PROVE HoldersAreFresh'
  BY <1>14 DEF Release, Finish, Goto
<1>15. ASSUME NEW d \in Dispatchers, RecordSent(d) PROVE HoldersAreFresh'
  BY <1>15 DEF RecordSent, MarkSent, Finish, Goto
<1>16. ASSUME NEW d \in Dispatchers, RecordThrows(d) PROVE HoldersAreFresh'
  BY <1>16 DEF RecordThrows, MarkSent, Finish, Goto
<1>17. ASSUME NEW d \in Dispatchers, CountAttempt(d) PROVE HoldersAreFresh'
  <2>1. CASE Owns(d, at[d])
    <3>1. /\ pc[d] = "failing" /\ pc' = [pc EXCEPT ![d] = "settling"] /\ UNCHANGED at
          /\ row' = [row EXCEPT ![at[d]].attempts = Bump(row[at[d]].attempts)]
      BY <1>17, <2>1 DEF CountAttempt, Goto
    <3>2. \A q \in Rows : /\ row'[q].status = row[q].status
                           /\ row'[q].claim = row[q].claim
                           /\ row'[q].stale = row[q].stale
      BY <3>1 DEF OutboxRow
    <3> QED
      BY <3>1, <3>2
  <2>2. CASE ~Owns(d, at[d])
    BY <1>17, <2>2 DEF CountAttempt, Finish, Goto
  <2> QED
    BY <2>1, <2>2
<1>18. ASSUME NEW d \in Dispatchers, SettleFailure(d) PROVE HoldersAreFresh'
  BY <1>18 DEF SettleFailure, Finish, Goto
<1>19. ASSUME NEW d \in Dispatchers, WriteThrows(d) PROVE HoldersAreFresh'
  BY <1>19 DEF WriteThrows, Finish, Goto
<1>20. ASSUME NEW d \in Dispatchers, Crash(d) PROVE HoldersAreFresh'
  BY <1>20 DEF Crash, Finish, Goto
<1>21. CASE UNCHANGED vars
  BY <1>21 DEF vars
<1> QED
  BY <1>1, <1>2, <1>3, <1>4, <1>5, <1>6, <1>7, <1>8, <1>9, <1>10, <1>11,
     <1>12, <1>13, <1>14, <1>15, <1>16, <1>17, <1>18, <1>19, <1>20, <1>21
  DEF Next, DispatcherStep, SendEnds, Fault

(* ... so no two dispatchers ever have the same message in flight: the     *)
(* send timeouts against STALE_CLAIM_MS.                                   *)
THEOREM NobodySendsTwice == ASSUME Slow = {} PROVE Spec => []SingleSender
<1>1. Init => HoldersAreFresh
  BY DEF Init, HoldersAreFresh, Busy
<1>2. IInv /\ HoldersAreFresh /\ [Next]_vars => HoldersAreFresh'
  BY FreshStep
<1>3. IInv /\ HoldersAreFresh => SingleSender
  BY DEF IInv, TypeOK, HoldersAreFresh, SingleSender, Busy, Owns
<1> QED
  BY <1>1, <1>2, <1>3, Invariant, PTL DEF Spec

-----------------------------------------------------------------------------
(* The outbox keeps the promise of NotificationDelivery.                   *)
Shop == [r \in Rows |-> StateOf(r)]

LEMMA States ==
    ASSUME TypeOK, NEW r \in Rows
    PROVE  /\ row[r].status = "ABSENT" => StateOf(r) = "absent"
           /\ row[r].status \in {"PENDING", "SENDING"} => StateOf(r) = "queued"
           /\ row[r].status = "SENT" => StateOf(r) = "sent"
           /\ row[r].status = "SKIPPED" => StateOf(r) = "skipped"
           /\ row[r].status \in {"FAILED", "DEAD_LETTER"} => StateOf(r) = "given_up"
           /\ StateOf(r) = "absent" => row[r].status = "ABSENT"
BY DEF TypeOK, OutboxRow, Statuses, StateOf

(* A step that writes the status of one row is a move of the shop ...      *)
LEMMA ShopMoves ==
    ASSUME TypeOK, TypeOK', NEW r \in Rows,
           \A q \in Rows \ {r} : row'[q] = row[q]
    PROVE  Shop' = [Shop EXCEPT ![r] = StateOf(r)']
BY DEF Shop, StateOf

(* ... none at all if the shop sees no difference.                         *)
LEMMA ShopStays ==
    ASSUME \A q \in Rows : StateOf(q)' = StateOf(q)
    PROVE  Shop' = Shop
BY DEF Shop

LEMMA ReportedAsSent ==
    ASSUME IInv, TypeOK', NEW d \in Dispatchers, NEW r \in Rows,
           MarkSent(d, r), r \in reached, UNCHANGED reached
    PROVE  Promise!ReportSent(r) \/ Shop' = Shop
<1> USE RowFields DEF IInv, TypeOK
<1>1. CASE Owns(d, r)
  <2>1. /\ row'[r].status = "SENT" /\ row[r].status = "SENDING"
        /\ \A q \in Rows \ {r} : row'[q] = row[q]
    BY <1>1 DEF MarkSent, Owns
  <2>2. StateOf(r) = "queued" /\ StateOf(r)' = "sent"
    BY <2>1 DEF StateOf
  <2>3. Shop' = [Shop EXCEPT ![r] = "sent"]
    BY <2>1, <2>2, ShopMoves
  <2> QED
    BY <2>2, <2>3 DEF Promise!ReportSent, Promise!Move, Shop
<1>2. CASE ~Owns(d, r)
  BY <1>2, ShopStays DEF MarkSent, StateOf
<1> QED
  BY <1>1, <1>2

LEMMA PromiseStep ==
    ASSUME IInv, IInv', [Next]_vars
    PROVE  [Promise!Next]_<<Shop, reached>>
<1> DEFINE Step == \/ \E r \in Rows :
                        \/ Promise!Enqueue(r) \/ Promise!Reach(r)
                        \/ Promise!ReportSent(r) \/ Promise!Skip(r)
                        \/ Promise!GiveUp(r) \/ Promise!Retry(r)
                   \/ UNCHANGED <<Shop, reached>>
<1> SUFFICES Step
  BY DEF Promise!Next
<1> USE RowFields DEF IInv, TypeOK
<1>1. ASSUME NEW r \in Rows, Enqueue(r) PROVE Step
  <2>1. /\ row[r].status = "ABSENT" /\ row'[r].status = "PENDING"
        /\ \A q \in Rows \ {r} : row'[q] = row[q]
        /\ UNCHANGED reached
    BY <1>1 DEF Enqueue, OutboxRow
  <2>2. StateOf(r) = "absent" /\ StateOf(r)' = "queued"
    BY <2>1 DEF StateOf
  <2>3. Promise!Enqueue(r)
    BY <2>1, <2>2, ShopMoves DEF Promise!Enqueue, Promise!Move, Shop
  <2> QED
    BY <2>3
<1>2. ASSUME NEW r \in Rows, AdminRetry(r) PROVE Step
  <2>1. /\ row[r].status \in {"FAILED", "DEAD_LETTER"} /\ row'[r].status = "PENDING"
        /\ \A q \in Rows \ {r} : row'[q] = row[q]
        /\ UNCHANGED reached
    BY <1>2 DEF AdminRetry
  <2>2. StateOf(r) = "given_up" /\ StateOf(r)' = "queued"
    BY <2>1 DEF StateOf
  <2>3. Promise!Retry(r)
    BY <2>1, <2>2, ShopMoves DEF Promise!Retry, Promise!Move, Shop
  <2> QED
    BY <2>3
<1>3. ASSUME NEW r \in Rows, BackoffEnds(r) \/ ClaimAges(r) PROVE Step
  <2>1. UNCHANGED reached /\ \A q \in Rows : row'[q].status = row[q].status
    BY <1>3 DEF BackoffEnds, ClaimAges, OutboxRow
  <2> QED
    BY <2>1, ShopStays DEF StateOf
<1>4. ASSUME NEW d \in Dispatchers, NEW r \in Rows, Claim(d, r) PROVE Step
  <2>1. /\ row[r].status \in {"PENDING", "SENDING"} /\ row'[r].status = "SENDING"
        /\ \A q \in Rows \ {r} : row'[q] = row[q]
        /\ UNCHANGED reached
    BY <1>4 DEF Claim, Claimable
  <2> QED
    BY <2>1, ShopStays DEF StateOf
<1>5. ASSUME NEW d \in Dispatchers, NEW r \in Rows, Flush(d, r) PROVE Step
  <2>1. MarkSent(d, r) /\ r \in reached /\ UNCHANGED reached
    BY <1>5 DEF Flush, RecordedWasReached
  <2> QED
    BY <2>1, ReportedAsSent
<1>6. ASSUME NEW d \in Dispatchers, Skip(d) PROVE Step
  <2>0. PICK r \in Rows : r = at[d]
    BY <1>6 DEF Skip
  <2>1. UNCHANGED reached
    BY <1>6 DEF Skip
  <2>2. CASE Owns(d, r)
    <3>1. /\ row[r].status = "SENDING" /\ row'[r].status = "SKIPPED"
          /\ \A q \in Rows \ {r} : row'[q] = row[q]
      BY <1>6, <2>0, <2>2 DEF Skip, Owns
    <3>2. StateOf(r) = "queued" /\ StateOf(r)' = "skipped"
      BY <3>1 DEF StateOf
    <3>3. Promise!Skip(r)
      BY <2>1, <3>1, <3>2, ShopMoves DEF Promise!Skip, Promise!Move, Shop
    <3> QED
      BY <2>1, <3>3
  <2>3. CASE ~Owns(d, r)
    BY <1>6, <2>0, <2>1, <2>3, ShopStays DEF Skip, StateOf
  <2> QED
    BY <2>2, <2>3
<1>7. ASSUME NEW d \in Dispatchers, SendAccepted(d) \/ SendFails(d) PROVE Step
  <2>1. at[d] \in Rows /\ row[at[d]].status # "ABSENT"
    BY <1>7 DEF SendAccepted, SendFails, WorkIsQueued, Working
  <2>2. reached' \in {reached, reached \cup {at[d]}} /\ Shop' = Shop
    BY <1>7, ShopStays DEF SendAccepted, SendFails, StateOf
  <2>3. Shop[at[d]] # "absent"
    BY <2>1, States DEF Shop
  <2> QED
    BY <2>1, <2>2, <2>3 DEF Promise!Reach, Shop
<1>8. ASSUME NEW d \in Dispatchers, Release(d) PROVE Step
  <2>1. at[d] \in Rows /\ UNCHANGED reached
    BY <1>8 DEF Release
  <2>2. \A q \in Rows : StateOf(q)' = StateOf(q)
    BY <1>8, <2>1 DEF Release, Owns, StateOf
  <2> QED
    BY <2>1, <2>2, ShopStays
<1>9. ASSUME NEW d \in Dispatchers, RecordSent(d) \/ RecordThrows(d) PROVE Step
  <2>1. at[d] \in Rows /\ at[d] \in reached /\ UNCHANGED reached
    BY <1>9 DEF RecordSent, RecordThrows, RecordedWasReached
  <2>2. CASE UNCHANGED row
    BY <2>1, <2>2, ShopStays DEF StateOf
  <2>3. CASE MarkSent(d, at[d])
    BY <2>1, <2>3, ReportedAsSent
  <2> QED
    BY <1>9, <2>2, <2>3 DEF RecordSent, RecordThrows
<1>10. ASSUME NEW d \in Dispatchers, CountAttempt(d) PROVE Step
  <2>1. UNCHANGED reached /\ \A q \in Rows : row'[q].status = row[q].status
    <3>1. CASE Owns(d, at[d])
      <4>1. /\ row' = [row EXCEPT ![at[d]].attempts = Bump(row[at[d]].attempts)]
            /\ UNCHANGED reached
        BY <1>10, <3>1 DEF CountAttempt
      <4> QED
        BY <4>1 DEF OutboxRow
    <3>2. CASE ~Owns(d, at[d])
      BY <1>10, <3>2 DEF CountAttempt
    <3> QED
      BY <3>1, <3>2
  <2> QED
    BY <2>1, ShopStays DEF StateOf
<1>11. ASSUME NEW d \in Dispatchers, SettleFailure(d) PROVE Step
  <2>0. PICK r \in Rows : r = at[d]
    BY <1>11 DEF SettleFailure
  <2>1. UNCHANGED reached
    BY <1>11 DEF SettleFailure
  <2>2. CASE UNCHANGED row
    BY <2>1, <2>2, ShopStays DEF StateOf
  <2>3. CASE /\ row[r].status = "SENDING"
             /\ \/ row'[r].status \in {"FAILED", "DEAD_LETTER"}
                \/ row'[r].status = "PENDING"
             /\ \A q \in Rows \ {r} : row'[q] = row[q]
    <3>1. CASE row'[r].status \in {"FAILED", "DEAD_LETTER"}
      <4>1. StateOf(r) = "queued" /\ StateOf(r)' = "given_up"
        BY <2>3, <3>1 DEF StateOf
      <4>2. Promise!GiveUp(r)
        BY <2>1, <2>3, <4>1, ShopMoves DEF Promise!GiveUp, Promise!Move, Shop
      <4> QED
        BY <2>1, <4>2
    <3>2. CASE row'[r].status = "PENDING"
      BY <2>1, <2>3, <3>2, ShopStays DEF StateOf
    <3> QED
      BY <2>3, <3>1, <3>2
  <2>4. \/ UNCHANGED row
        \/ /\ row[r].status = "SENDING"
           /\ row'[r].status \in {"FAILED", "DEAD_LETTER", "PENDING"}
           /\ \A q \in Rows \ {r} : row'[q] = row[q]
    BY <1>11, <2>0 DEF SettleFailure, Owns, GivenUp
  <2> QED
    BY <2>2, <2>3, <2>4
<1>12. CASE UNCHANGED <<row, reached>>
  BY <1>12, ShopStays DEF StateOf
<1> QED
  BY <1>1, <1>2, <1>3, <1>4, <1>5, <1>6, <1>7, <1>8, <1>9, <1>10, <1>11, <1>12
  DEF Next, DispatcherStep, SendEnds, Fault, vars, CheckFails, PutOff, StartSend,
      SendFlooded, WriteThrows, Crash

(* Every behaviour of the outbox is one of NotificationDelivery.           *)
THEOREM OutboxImplementsPromise == Spec => PromiseKept
<1>1. Init => Promise!Init
  BY DEF Init, Promise!Init, StateOf
<1>2. IInv /\ IInv' /\ [Next]_vars => [Promise!Next]_<<Shop, reached>>
  BY PromiseStep
<1> QED
  BY <1>1, <1>2, Invariant, PTL DEF Spec, PromiseKept, Promise!Spec, Shop
=============================================================================
