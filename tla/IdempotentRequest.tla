------------------------- MODULE IdempotentRequest -------------------------
(***************************************************************************)
(* One Idempotency-Key of one endpoint: packages/db/src/crud/idempotency.ts*)
(* and the routes that use it.  Several HTTP attempts carry the key (a     *)
(* double tap, a retry after a lost answer).  Each tries to INSERT the     *)
(* row of the key; the one that wins runs the route's mutation and stores  *)
(* the response, the others wait for that response and replay it.  A claim *)
(* whose attempt died is taken over once it is a minute old, and one whose *)
(* attempt answered without storing anything is dropped after the answer.  *)
(*                                                                         *)
(* The routes differ in where they store the response, which is what the   *)
(* mechanism's promises turn on:                                           *)
(*   inside   in the transaction of the mutation (wallet adjustment,       *)
(*            broadcast of the admin panel)                                *)
(*   guarded  after the commit; the order or the cart itself refuses a     *)
(*            second run (cart checkout, deliver or refund an underpaid    *)
(*            order)                                                       *)
(*   direct   after the commit, and nothing refuses a second run           *)
(*            (POST /topup/order with a key)                               *)
(*   keyless  as direct, for a request without a key: only a success is    *)
(*            stored, and replayed for ten seconds only                    *)
(***************************************************************************)
EXTENDS Integers, FiniteSets

CONSTANTS
    Attempts,   \* the requests that carry the key
    Content,    \* [Attempts -> ...]: the digest of what each asks for
    Kinds,      \* the kinds of route to consider
    SlowSets,   \* sets of attempts that may still run when their claim is
                \* a minute old (the code relies on there being none)
    NoOne

Routes == {"inside", "guarded", "direct", "keyless"}

ASSUME IdempotencyAssumption ==
    /\ NoOne \notin Attempts
    /\ DOMAIN Content = Attempts
    /\ Kinds \subseteq Routes
    /\ \A S \in SlowSets : S \subseteq Attempts

VARIABLES
    kind,     \* the route under consideration
    slow,     \* the attempts that may outlive their claim
    row,      \* the idempotency_records row
    phase,    \* where each attempt is
    seen,     \* the claim or completed row an attempt read and wants to take
    answer,   \* what each attempt replied
    effects   \* the attempts whose mutation has committed

vars == <<kind, slow, row, phase, seen, answer, effects>>

Outcomes == {"ok", "refused"}
Answers  == Outcomes \cup {"error", "reused", "busy"}

NoRow == [state |-> "absent"]

PendingRows ==
    [state : {"pending"}, content : {Content[a] : a \in Attempts},
     since : Attempts, born : Attempts, old : BOOLEAN]

DoneRows ==
    [state : {"done"}, content : {Content[a] : a \in Attempts},
     answer : Outcomes, born : Attempts, old : BOOLEAN]

(* Attempts are told apart by their request object, so a claim is known    *)
(* by the attempt that made it: since stands for pendingSince, born for    *)
(* createdAt and the row's id.                                             *)
Claimed(a, born) ==
    [state |-> "pending", content |-> Content[a], since |-> a, born |-> born,
     old |-> FALSE]

(* Variant: a completed claim keeps its pendingSince. *)
CompletedKeepingClaim(a, what, born) ==
    [state |-> "done", content |-> Content[a], answer |-> what,
     since |-> a, born |-> born, old |-> FALSE]

Completed(a, what, born) ==
    [state |-> "done", content |-> Content[a], answer |-> what,
     born |-> born, old |-> FALSE]

Aged == [row EXCEPT !.old = TRUE]

Phases ==
    {"arrived", "collided", "takeover", "reclaim", "run", "saveok",
     "saverefused", "unsettled", "over", "dead"}

Init ==
    /\ kind \in Kinds
    /\ slow \in SlowSets
    /\ row = NoRow
    /\ phase = [a \in Attempts |-> "arrived"]
    /\ seen = [a \in Attempts |-> NoOne]
    /\ answer = [a \in Attempts |-> "none"]
    /\ effects = {}

IsPending(a) == row.state = "pending" /\ row.content = Content[a]
Running(a)   == phase[a] \in {"run", "saveok", "saverefused"}

Goto(a, where) == phase' = [phase EXCEPT ![a] = where]

Reply(a, what, where) ==
    /\ answer' = [answer EXCEPT ![a] = what]
    /\ Goto(a, where)

Waits(a) ==
    \/ Goto(a, "arrived") /\ UNCHANGED answer
    \/ Reply(a, "busy", "over")

-----------------------------------------------------------------------------
(* claimIdempotentRequest *)

Claim(a) ==
    /\ phase[a] = "arrived"
    /\ row = NoRow
    /\ row' = Claimed(a, a)
    /\ Goto(a, "run")
    /\ UNCHANGED <<kind, slow, seen, answer, effects>>

Collide(a) ==
    /\ phase[a] = "arrived"
    /\ row # NoRow
    /\ Goto(a, "collided")
    /\ UNCHANGED <<kind, slow, row, seen, answer, effects>>

LookGone(a) ==
    /\ row = NoRow
    /\ Goto(a, "arrived")
    /\ UNCHANGED <<seen, answer>>

LookOther(a) ==
    /\ row # NoRow
    /\ row.content # Content[a]
    /\ Reply(a, "reused", "over")
    /\ UNCHANGED seen

Replayable == row.state = "done" /\ ~(kind = "keyless" /\ row.old)

LookReplay(a) ==
    /\ row # NoRow
    /\ row.content = Content[a]
    /\ Replayable
    /\ Reply(a, row.answer, "over")
    /\ UNCHANGED seen

LookOutdated(a) ==
    /\ row.state = "done" /\ row.content = Content[a]
    /\ ~Replayable
    /\ seen' = [seen EXCEPT ![a] = row.born]
    /\ Goto(a, "reclaim")
    /\ UNCHANGED answer

LookAbandoned(a) ==
    /\ IsPending(a)
    /\ row.old
    /\ seen' = [seen EXCEPT ![a] = row.since]
    /\ Goto(a, "takeover")
    /\ UNCHANGED answer

LookPending(a) ==
    /\ IsPending(a)
    /\ ~row.old
    /\ Waits(a)
    /\ UNCHANGED seen

Look(a) ==
    /\ phase[a] = "collided"
    /\ \/ LookGone(a)
       \/ LookOther(a)
       \/ LookReplay(a)
       \/ LookOutdated(a)
       \/ LookAbandoned(a)
       \/ LookPending(a)
    /\ UNCHANGED <<kind, slow, row, effects>>

(* Variant: the takeover does not compare pendingSince. *)
StillPending(a) == IsPending(a)

StillSeen(a) == IsPending(a) /\ row.since = seen[a]

TakeOver(a) ==
    /\ phase[a] = "takeover"
    /\ seen' = [seen EXCEPT ![a] = NoOne]
    /\ IF StillSeen(a)
       THEN /\ row' = Claimed(a, row.born)
            /\ Goto(a, "run")
            /\ UNCHANGED answer
       ELSE Waits(a) /\ UNCHANGED row
    /\ UNCHANGED <<kind, slow, effects>>

Reclaim(a) ==
    /\ phase[a] = "reclaim"
    /\ seen' = [seen EXCEPT ![a] = NoOne]
    /\ IF row.state = "done" /\ row.born = seen[a]
       THEN row' = Claimed(a, a) /\ Goto(a, "run")
       ELSE Goto(a, "arrived") /\ UNCHANGED row
    /\ UNCHANGED <<kind, slow, answer, effects>>

-----------------------------------------------------------------------------
(* The mutation and the response *)

(* saveIdempotentResponse: completes the pending claim of the key, whoever *)
(* holds it, else inserts a completed row; both leave a completed one.     *)
Kept(a, what) ==
    CASE IsPending(a)  -> Completed(a, what, row.born)
      [] row = NoRow   -> Completed(a, what, a)
      [] OTHER         -> row

MayStore(a) == row = NoRow \/ IsPending(a)

(* Variant: the response is stored outside the transaction, which fails. *)
CommitUnsaved(a) ==
    /\ kind = "inside"
    /\ row' = Kept(a, "ok")
    /\ UNCHANGED effects
    /\ Reply(a, "error", "unsettled")

(* Variant: the response is stored after the transaction. *)
CommitThenSave(a) ==
    /\ kind = "inside"
    /\ effects' = effects \cup {a}
    /\ Goto(a, "saveok")
    /\ UNCHANGED <<row, answer>>

(* The stored row is part of the transaction.  When it cannot be inserted  *)
(* the error is swallowed, the transaction is rolled back at its COMMIT    *)
(* and the reply still says that the mutation succeeded.                   *)
CommitInside(a) ==
    /\ kind = "inside"
    /\ effects' = IF MayStore(a) THEN effects \cup {a} ELSE effects
    /\ row' = Kept(a, "ok")
    /\ Reply(a, "ok", "unsettled")

CommitOutside(a) ==
    /\ kind # "inside"
    /\ kind = "guarded" => effects = {}
    /\ effects' = effects \cup {a}
    /\ Goto(a, "saveok")
    /\ UNCHANGED <<row, answer>>

Refuse(a) ==
    /\ kind # "keyless"
    /\ Goto(a, "saverefused")
    /\ UNCHANGED <<row, answer, effects>>

RefuseUnsaved(a) ==
    /\ Reply(a, "refused", "unsettled")
    /\ UNCHANGED <<row, effects>>

Throw(a) ==
    /\ Reply(a, "error", "unsettled")
    /\ UNCHANGED <<row, effects>>

Run(a) ==
    /\ phase[a] = "run"
    /\ \/ CommitInside(a)
       \/ CommitOutside(a)
       \/ Refuse(a)
       \/ RefuseUnsaved(a)
       \/ Throw(a)
    /\ UNCHANGED <<kind, slow, seen>>

ToSave(a) == IF phase[a] = "saveok" THEN "ok" ELSE "refused"

Save(a) ==
    /\ phase[a] \in {"saveok", "saverefused"}
    /\ row' = Kept(a, ToSave(a))
    /\ Reply(a, ToSave(a), "over")
    /\ UNCHANGED <<kind, slow, seen, effects>>

SaveFails(a) ==
    /\ phase[a] \in {"saveok", "saverefused"}
    /\ Reply(a, "error", "unsettled")
    /\ UNCHANGED <<kind, slow, row, seen, effects>>

(* Variant: a release deletes whatever row the key has. *)
ReleaseAny(a) ==
    /\ phase[a] = "unsettled"
    /\ row' = NoRow
    /\ Goto(a, "over")
    /\ UNCHANGED <<kind, slow, seen, answer, effects>>

(* The onResponse hook: releaseUnsettled. *)
Release(a) ==
    /\ phase[a] = "unsettled"
    /\ row' = IF IsPending(a) THEN NoRow ELSE row
    /\ Goto(a, "over")
    /\ UNCHANGED <<kind, slow, seen, answer, effects>>

-----------------------------------------------------------------------------
(* The process of an attempt dies. *)
Crash(a) ==
    /\ phase[a] \notin {"arrived", "over", "dead"}
    /\ Goto(a, "dead")
    /\ UNCHANGED <<kind, slow, row, seen, answer, effects>>

Unfinished(a) == Running(a) \/ phase[a] = "unsettled"

(* A claim turns a minute old, a keyless response ten seconds. *)
Age ==
    /\ row # NoRow
    /\ ~row.old
    /\ row.state = "pending" /\ Unfinished(row.since) => row.since \in slow
    /\ row.state = "done" => kind = "keyless"
    /\ row' = Aged
    /\ UNCHANGED <<kind, slow, phase, seen, answer, effects>>

Step(a) ==
    \/ Claim(a) \/ Collide(a) \/ Look(a) \/ TakeOver(a) \/ Reclaim(a)
    \/ Run(a) \/ Save(a) \/ SaveFails(a) \/ Release(a) \/ Crash(a)

Next == Age \/ \E a \in Attempts : Step(a)

Spec == Init /\ [][Next]_vars

-----------------------------------------------------------------------------
TypeOK ==
    /\ kind \in Kinds
    /\ slow \in SUBSET Attempts
    /\ row \in PendingRows \cup DoneRows \cup {NoRow}
    /\ phase \in [Attempts -> Phases]
    /\ seen \in [Attempts -> Attempts \cup {NoOne}]
    /\ answer \in [Attempts -> Answers \cup {"none"}]
    /\ effects \in SUBSET Attempts

(* However its attempts interleave, fail, die and come back, and even when *)
(* one of them outlives its claim, a key whose response is stored in the   *)
(* mutation's transaction moves a wallet or queues a broadcast at most     *)
(* once.  (A guarded route's second run is refused by the order or the     *)
(* cart it works on, not by the key, so nothing is claimed of it here.)    *)
OneEffect ==
    kind = "inside" => \A a, b \in effects : a = b

(* As long as no attempt outlives its claim, two attempts of one key are   *)
(* never between their claim and their stored response together: not when  *)
(* they race for an abandoned or an outdated row, and not when one of them *)
(* releases while others wait.                                             *)
OneRunner ==
    slow = {} => \A a, b \in Attempts : Running(a) /\ Running(b) => a = b

CommittedFor(content) == \E a \in effects : Content[a] = content

(* As long as no attempt outlives its claim, one that is told the request  *)
(* succeeded, by its own run or by a replay, is told so of a mutation of   *)
(* its own content that committed: never of one that was rolled back, and  *)
(* never of what another request did under the same key.                   *)
TruthfulSuccess ==
    slow = {} =>
        \A a \in Attempts : answer[a] = "ok" => CommittedFor(Content[a])

(* A stored response is the one every later retry gets: no save, takeover  *)
(* or release of another attempt changes or drops it.  Only the keyless    *)
(* window ends one.                                                        *)
KeptAnswerStays ==
    [][row.state = "done" /\ kind # "keyless" => row' = row]_vars

=============================================================================
