------------------------------- MODULE Outbox -------------------------------
(***************************************************************************)
(* The notification outbox and its dispatchers: the only way a buyer gets  *)
(* credentials and an admin gets an alert.                                 *)
(*                                                                         *)
(* A dispatcher claims a row (PENDING, or SENDING with a claim older than  *)
(* STALE_CLAIM_MS), sends it and writes the outcome in statements of their *)
(* own.  Those writes are guarded by the claim; there is no transaction    *)
(* around a send, and a process may die anywhere.                          *)
(*                                                                         *)
(* Code: packages/db/src/crud/notifications.ts and                         *)
(* packages/outbox-dispatcher/src/dispatcher.ts.                           *)
(***************************************************************************)
EXTENDS Naturals, FiniteSets

CONSTANTS
    Rows,          \* rows of notification_outbox
    Dispatchers,   \* dispatcher processes
    Slow,          \* dispatchers whose sends may outlive STALE_CLAIM_MS
    MaxAttempts,   \* NOTIF_MAX_ATTEMPTS
    Nobody, NoRow,
    CountCap,      \* attempts are counted up to this bound, for model checking
    MaxFaults,     \* bound on crashes and failed database writes
    MaxOutages     \* bound on sends put off for lack of configuration

NoLimit == 0       \* a put-off row is never terminal, however often

ASSUME OutboxAssumption ==
    /\ Slow \subseteq Dispatchers
    /\ MaxAttempts \in Nat /\ MaxAttempts > 1
    /\ Nobody \notin Dispatchers /\ NoRow \notin Rows
    /\ CountCap \in Nat /\ CountCap > MaxAttempts
    /\ MaxFaults \in Nat /\ MaxOutages \in Nat

VARIABLES
    row,        \* the table
    pc, at,     \* the step each dispatcher is in, and on which row
    limit,      \* maxAttempts of the failure it is recording
    counted,    \* the attempt count it has just written
    parked,     \* unrecordedSends: sent, but the SENT write failed
    reached,    \* rows whose message reached the recipient (history)
    known,      \* <<d, r>>: d saw r accepted and still owns its outcome (history)
    failures,   \* failed attempts of a row since it was queued (history)
    faults, outages

vars == <<row, pc, at, limit, counted, parked, reached, known, failures,
          faults, outages>>

Statuses == {"ABSENT", "PENDING", "SENDING", "SENT", "SKIPPED", "FAILED",
             "DEAD_LETTER"}
Steps == {"idle", "checking", "sending", "flooded", "recording", "failing",
          "settling"}
OutboxRow == [status   : Statuses,
              attempts : Nat,
              claim    : Dispatchers \cup {Nobody},   \* whose claimedAt it is
              stale    : BOOLEAN,    \* claimedAt is older than STALE_CLAIM_MS
              waiting  : BOOLEAN]    \* nextRetryAt lies ahead

TypeOK ==
    /\ row \in [Rows -> OutboxRow]
    /\ pc \in [Dispatchers -> Steps]
    /\ at \in [Dispatchers -> Rows \cup {NoRow}]
    /\ \A d \in Dispatchers : pc[d] # "idle" => at[d] \in Rows
    /\ limit \in [Dispatchers -> {NoLimit, 1, MaxAttempts}]
    /\ counted \in [Dispatchers -> Nat]
    /\ parked \in [Dispatchers -> SUBSET Rows]
    /\ reached \in SUBSET Rows
    /\ known \in SUBSET (Dispatchers \X Rows)
    /\ failures \in [Rows -> Nat]
    /\ faults \in Nat /\ outages \in Nat

Init ==
    /\ row = [r \in Rows |-> [status |-> "ABSENT", attempts |-> 0,
                claim |-> Nobody, stale |-> FALSE, waiting |-> FALSE]]
    /\ pc = [d \in Dispatchers |-> "idle"]
    /\ at = [d \in Dispatchers |-> NoRow]
    /\ limit = [d \in Dispatchers |-> NoLimit]
    /\ counted = [d \in Dispatchers |-> 0]
    /\ parked = [d \in Dispatchers |-> {}]
    /\ reached = {} /\ known = {}
    /\ failures = [r \in Rows |-> 0]
    /\ faults = 0 /\ outages = 0

Goto(d, s) == pc' = [pc EXCEPT ![d] = s]
Finish(d)  == Goto(d, "idle") /\ at' = [at EXCEPT ![d] = NoRow]
Bump(n)    == IF n < CountCap THEN n + 1 ELSE n

(* A row that leaves SENDING drops its claim. *)
Unclaimed(x, s) == [x EXCEPT !.status = s, !.claim = Nobody, !.stale = FALSE]
Requeued(x)     == [Unclaimed(x, "PENDING") EXCEPT !.waiting = TRUE]
Retried(x)      == [Unclaimed(x, "PENDING") EXCEPT !.attempts = 0, !.waiting = FALSE]
ClaimedBy(x, d) == [x EXCEPT !.status = "SENDING", !.claim = d, !.stale = FALSE]

-----------------------------------------------------------------------------
(* enqueueNotification. *)
Enqueue(r) ==
    /\ row[r].status = "ABSENT"
    /\ row' = [row EXCEPT ![r].status = "PENDING"]
    /\ UNCHANGED <<pc, at, limit, counted, parked, reached, known, failures,
                   faults, outages>>

(* retryNotification, by an admin: at once, and with a fresh count. *)
AdminRetry(r) ==
    /\ row[r].status \in {"FAILED", "DEAD_LETTER"}
    /\ row' = [row EXCEPT ![r] = Retried(@)]
    /\ failures' = [failures EXCEPT ![r] = 0]
    /\ UNCHANGED <<pc, at, limit, counted, parked, reached, known, faults, outages>>

(* nextRetryAt passes. *)
BackoffEnds(r) ==
    /\ row[r].waiting
    /\ row' = [row EXCEPT ![r].waiting = FALSE]
    /\ UNCHANGED <<pc, at, limit, counted, parked, reached, known, failures,
                   faults, outages>>

(* A claim gets old.  A dispatcher's send times out (60 s, 4 min for a      *)
(* support reply) well before STALE_CLAIM_MS (5 min), unless it is Slow;    *)
(* only its sleep in Telegram's flood control has no bound.                 *)
Busy(d, r) == at[d] = r /\ pc[d] \notin {"idle", "flooded"}
ClaimAges(r) ==
    /\ row[r].status = "SENDING" /\ ~row[r].stale
    /\ \A d \in Dispatchers \ Slow : row[r].claim = d => ~Busy(d, r)
    /\ row' = [row EXCEPT ![r].stale = TRUE]
    /\ UNCHANGED <<pc, at, limit, counted, parked, reached, known, failures,
                   faults, outages>>

-----------------------------------------------------------------------------
(* One dispatcher. *)

(* Variant: a claim is taken over however young it is. *)
ClaimableAtOnce(r) == row[r].status \in {"PENDING", "SENDING"} /\ ~row[r].waiting
(* Variant: an abandoned claim is never taken over. *)
ClaimableOnlyPending(r) == row[r].status = "PENDING" /\ ~row[r].waiting

(* claimableWhere. *)
Claimable(r) ==
    /\ \/ row[r].status = "PENDING"
       \/ row[r].status = "SENDING" /\ row[r].stale
    /\ ~row[r].waiting

(* Variant: the tick does not look at the sends it could not record. *)
MayTakeAnything(d, r) == d \in Dispatchers /\ r \in Rows
(* drainBatch passes over the rows this process already sent. *)
MayTake(d, r) == r \notin parked[d]

(* claimNotification: taken from another process, the row's outcome is ours. *)
Claim(d, r) ==
    /\ pc[d] = "idle"
    /\ MayTake(d, r)
    /\ Claimable(r)
    /\ row' = [row EXCEPT ![r] = ClaimedBy(@, d)]
    /\ known' = {p \in known : p[1] = d \/ p[2] # r}
    /\ Goto(d, "checking")
    /\ at' = [at EXCEPT ![d] = r]
    /\ UNCHANGED <<limit, counted, parked, reached, failures, faults, outages>>

(* Variant: the write that settles a row names only the row. *)
OwnsAny(d, r) == d \in Dispatchers /\ r \in Rows
(* Variant: the guard looks at the status and not at whose claim it is. *)
OwnsSending(d, r) == d \in Dispatchers /\ row[r].status = "SENDING"

(* claimGuard. *)
Owns(d, r) == row[r].status = "SENDING" /\ row[r].claim = d

(* A message not worth sending any more: markNotificationSkipped. *)
Skip(d) ==
    LET r == at[d] IN
    /\ pc[d] = "checking"
    /\ row' = IF Owns(d, r) THEN [row EXCEPT ![r] = Unclaimed(@, "SKIPPED")] ELSE row
    /\ Finish(d)
    /\ UNCHANGED <<limit, counted, parked, reached, known, failures, faults, outages>>

(* A failure to be recorded, terminal after n attempts. *)
Fails(d, n) == Goto(d, "failing") /\ limit' = [limit EXCEPT ![d] = n]

(* A row that cannot be rendered fails at once; one whose order or settings *)
(* could not be read counts an attempt.                                     *)
CheckFails(d) ==
    /\ pc[d] = "checking"
    /\ Fails(d, 1) \/ Fails(d, MaxAttempts)
    /\ UNCHANGED <<row, at, counted, parked, reached, known, failures, faults, outages>>

(* No public channel, no SMTP settings, or a mail server that rejects the  *)
(* shop's login: releaseNotificationClaimWithBackoff.                      *)
PutOff(d) ==
    /\ pc[d] \in {"checking", "sending"} /\ outages < MaxOutages
    /\ outages' = outages + 1
    /\ Fails(d, NoLimit)
    /\ UNCHANGED <<row, at, counted, parked, reached, known, failures, faults>>

StartSend(d) ==
    /\ pc[d] = "checking"
    /\ Goto(d, "sending")
    /\ UNCHANGED <<row, at, limit, counted, parked, reached, known, failures,
                   faults, outages>>

(* Telegram or the mail server accepts the message ... *)
SendAccepted(d) ==
    /\ pc[d] = "sending"
    /\ reached' = reached \cup {at[d]}
    /\ known' = IF Owns(d, at[d]) THEN known \cup {<<d, at[d]>>} ELSE known
    /\ Goto(d, "recording")
    /\ UNCHANGED <<row, at, limit, counted, parked, failures, faults, outages>>

(* ... or forbids it (403) or refuses it; a timed-out call is not cancelled *)
(* and may have got through ...                                             *)
SendFails(d) ==
    /\ pc[d] = "sending"
    /\ \/ Fails(d, 1) /\ UNCHANGED reached
       \/ Fails(d, MaxAttempts) /\ reached' \in {reached, reached \cup {at[d]}}
    /\ UNCHANGED <<row, at, counted, parked, known, failures, faults, outages>>

(* ... or asks for patience (429): trySend sleeps, then releases the claim. *)
SendFlooded(d) ==
    /\ pc[d] = "sending"
    /\ Goto(d, "flooded")
    /\ UNCHANGED <<row, at, limit, counted, parked, reached, known, failures,
                   faults, outages>>

Release(d) ==
    LET r == at[d] IN
    /\ pc[d] = "flooded"
    /\ row' = IF Owns(d, r) THEN [row EXCEPT ![r] = Unclaimed(@, "PENDING")] ELSE row
    /\ Finish(d)
    /\ UNCHANGED <<limit, counted, parked, reached, known, failures, faults, outages>>

(* markNotificationSent, over the claim only. *)
MarkSent(d, r) ==
    row' = IF Owns(d, r) THEN [row EXCEPT ![r] = Unclaimed(@, "SENT")] ELSE row

RecordSent(d) ==
    /\ pc[d] = "recording"
    /\ MarkSent(d, at[d])
    /\ Finish(d)
    /\ UNCHANGED <<limit, counted, parked, reached, known, failures, faults, outages>>

(* The SENT write throws, applied or not: the send is parked. *)
RecordThrows(d) ==
    /\ pc[d] = "recording" /\ faults < MaxFaults
    /\ faults' = faults + 1
    /\ UNCHANGED row \/ MarkSent(d, at[d])
    /\ parked' = [parked EXCEPT ![d] = @ \cup {at[d]}]
    /\ Finish(d)
    /\ UNCHANGED <<limit, counted, reached, known, failures, outages>>

(* flushUnrecordedSends, at the start of a tick. *)
Flush(d, r) ==
    /\ pc[d] = "idle" /\ r \in parked[d]
    /\ MarkSent(d, r)
    /\ parked' = [parked EXCEPT ![d] = @ \ {r}]
    /\ UNCHANGED <<pc, at, limit, counted, reached, known, failures, faults, outages>>

(* countAttempt, the first of the two statements that record a failure; it  *)
(* answers null to a dispatcher that has lost the row.                      *)
CountAttempt(d) ==
    LET r == at[d]
        n == Bump(row[r].attempts)
    IN  /\ pc[d] = "failing"
        /\ \/ /\ Owns(d, r)
              /\ row' = [row EXCEPT ![r].attempts = n]
              /\ counted' = [counted EXCEPT ![d] = n]
              /\ failures' = IF limit[d] = NoLimit THEN failures
                             ELSE [failures EXCEPT ![r] = Bump(@)]
              /\ Goto(d, "settling") /\ UNCHANGED at
           \/ /\ ~Owns(d, r)
              /\ Finish(d)
              /\ UNCHANGED <<row, counted, failures>>
        /\ UNCHANGED <<limit, parked, reached, known, faults, outages>>

(* Variant: the terminal status is spelt as no reader expects it. *)
GivenUpMisspelt(n) == IF n = 1 THEN "FAILED" ELSE "DEADLETTER"
(* A row that never had a second chance is FAILED, not DEAD_LETTER. *)
GivenUp(n) == IF n = 1 THEN "FAILED" ELSE "DEAD_LETTER"

(* The second statement: terminal, or back to PENDING with a backoff.      *)
SettleFailure(d) ==
    LET r == at[d]
        n == limit[d]
    IN  /\ pc[d] = "settling"
        /\ row' = IF Owns(d, r) /\ row[r].attempts = counted[d]
                  THEN [row EXCEPT ![r] =
                          IF n # NoLimit /\ counted[d] >= n
                          THEN Unclaimed(@, GivenUp(n)) ELSE Requeued(@)]
                  ELSE row
        /\ Finish(d)
        /\ UNCHANGED <<limit, counted, parked, reached, known, failures, faults, outages>>

(* A write throws, ending the tick: the row stays SENDING until it is stale. *)
WriteThrows(d) ==
    /\ pc[d] \in {"checking", "flooded", "failing", "settling"}
    /\ faults < MaxFaults
    /\ faults' = faults + 1
    /\ Finish(d)
    /\ UNCHANGED <<row, limit, counted, parked, reached, known, failures, outages>>

(* The process dies and comes back without what it had in memory. *)
Crash(d) ==
    /\ pc[d] # "idle" \/ parked[d] # {}
    /\ faults < MaxFaults
    /\ faults' = faults + 1
    /\ Finish(d)
    /\ parked' = [parked EXCEPT ![d] = {}]
    /\ known' = {p \in known : p[1] # d}
    /\ UNCHANGED <<row, limit, counted, reached, failures, outages>>

-----------------------------------------------------------------------------
SendEnds(d) == SendAccepted(d) \/ SendFails(d)

DispatcherStep(d) ==
    \/ Skip(d) \/ CheckFails(d) \/ PutOff(d) \/ StartSend(d)
    \/ SendEnds(d) \/ SendFlooded(d) \/ Release(d) \/ RecordSent(d)
    \/ CountAttempt(d) \/ SettleFailure(d)

Fault(d) == RecordThrows(d) \/ WriteThrows(d) \/ Crash(d)

Next ==
    \/ \E r \in Rows : Enqueue(r) \/ AdminRetry(r) \/ BackoffEnds(r) \/ ClaimAges(r)
    \/ \E d \in Dispatchers, r \in Rows : Claim(d, r) \/ Flush(d, r)
    \/ \E d \in Dispatchers : DispatcherStep(d) \/ Fault(d)

Spec == Init /\ [][Next]_vars

(* Time passes and the loop ticks.  Every tick begins with a flush and     *)
(* takes the oldest claimable rows first, so each has its turn, and        *)
(* Telegram's flood control is not for ever.                               *)
Fairness ==
    /\ \A r \in Rows : WF_vars(BackoffEnds(r)) /\ WF_vars(ClaimAges(r))
    /\ \A d \in Dispatchers :
          /\ WF_vars(DispatcherStep(d))
          /\ \A r \in Rows :
                /\ SF_vars(Flush(d, r))
                /\ SF_vars(Claim(d, r))
                /\ SF_vars(at[d] = r /\ SendEnds(d))

FairSpec == Spec /\ Fairness
-----------------------------------------------------------------------------
(* Two dispatchers never have the same message in flight: whoever lost a   *)
(* row while it slept or died is not sending it any more.  (No Slow ones.) *)
SingleSender ==
    \A d, e \in Dispatchers :
        pc[d] = "sending" /\ pc[e] = "sending" /\ at[d] = at[e] => d = e

(* "Such a row must never be sent again" (unrecordedSends): a process does *)
(* not send a message it has seen accepted, failed SENT write or not, while *)
(* nobody else has taken the row over.                                     *)
KnownSendIsNotRepeated ==
    \A d \in Dispatchers : pc[d] = "sending" => <<d, at[d]>> \notin known

(* "the slow sender's late SENT/FAILED/release write must not overwrite    *)
(* that new claimer's state": while a claim is fresh its holder alone      *)
(* moves the row.                                                          *)
ClaimerRules ==
    [][\A d \in Dispatchers, r \in Rows :
          /\ Owns(d, r) /\ ~row[r].stale /\ Busy(d, r)
          /\ row'[r] # row[r] /\ ~row'[r].stale
          => pc'[d] # pc[d]]_vars

(* What the shop believes of a row. *)
StateOf(r) ==
    CASE row[r].status = "ABSENT"  -> "absent"
      [] row[r].status \in {"PENDING", "SENDING"} -> "queued"
      [] row[r].status = "SENT"    -> "sent"
      [] row[r].status = "SKIPPED" -> "skipped"
      [] OTHER -> "given_up"

Promise == INSTANCE NotificationDelivery
             WITH state <- [r \in Rows |-> StateOf(r)]

(* The outbox implements NotificationDelivery: SENT only after the message *)
(* arrived, what is settled stays so, whoever is slow, dies or loses writes. *)
PromiseKept == Promise!Spec

Queued(r) == row[r].status \in {"PENDING", "SENDING"}
(* Every queued row is settled in the end, whatever died on the way.       *)
EveryRowIsSettled == \A r \in Rows : Queued(r) ~> ~Queued(r)

(* DEAD_LETTER: "the row went through real exponential-backoff retries and *)
(* still exhausted them all" (markNotificationFailed).                     *)
DeadLetterWasRetried ==
    \A r \in Rows : row[r].status = "DEAD_LETTER" => failures[r] >= MaxAttempts
=============================================================================
