---------------------- MODULE IdempotentRequestProofs ----------------------
(***************************************************************************)
(* Proofs about IdempotentRequest for any number of attempts, any content, *)
(* and any set of attempts that may outlive their claims.                  *)
(*                                                                         *)
(* The heart of IInv is that, while nobody outlives a claim, a running     *)
(* attempt holds the pending row (Owner), that a claim once read as        *)
(* abandoned still is when it is taken over (AbandonedStays), and that an  *)
(* effect of an inside route has its completed row (EffectIsKept).         *)
(***************************************************************************)
EXTENDS IdempotentRequest, TLAPS

Holds(a) == row.state = "pending" /\ row.since = a /\ row.content = Content[a]
            /\ row.old = FALSE

Owner ==
    slow = {} => \A a \in Attempts :
        /\ Running(a) => Holds(a)
        /\ phase[a] = "unsettled" =>
              Holds(a) \/ (kind = "inside" /\ row.state = "done")

Began(a) == phase[a] \notin {"arrived", "collided", "takeover", "reclaim"}

AbandonedStays ==
    /\ row.state = "pending" => Began(row.since)
    /\ \A a \in Attempts : phase[a] = "takeover" =>
          /\ seen[a] \in Attempts /\ Began(seen[a])
          /\ row.state = "pending" /\ row.since = seen[a] => row.old = TRUE

OnlyKeylessReclaims ==
    \A a \in Attempts : phase[a] = "reclaim" => kind = "keyless"

EffectIsKept == kind = "inside" /\ effects # {} => row.state = "done"

SuccessIsReal ==
    /\ \A a \in Attempts :
          slow = {} /\ (phase[a] = "saveok" \/ answer[a] = "ok") =>
              CommittedFor(Content[a])
    /\ slow = {} /\ row.state = "done" /\ row.answer = "ok" =>
          CommittedFor(row.content)

IInv == /\ TypeOK /\ Owner /\ AbandonedStays /\ OnlyKeylessReclaims
        /\ EffectIsKept /\ OneEffect /\ SuccessIsReal

Rows == PendingRows \cup DoneRows \cup {NoRow}

-----------------------------------------------------------------------------
(* The shapes of the row and of what is written to it. *)

LEMMA RowShapes ==
    ASSUME TypeOK
    PROVE  /\ row = NoRow <=> row.state = "absent"
           /\ row # NoRow => row.state \in {"pending", "done"}
           /\ row.state = "pending" =>
                row \in PendingRows /\ row.since \in Attempts
           /\ row.state = "done" => row \in DoneRows /\ row.answer \in Outcomes
           /\ row # NoRow => row.born \in Attempts
<1>1. CASE row \in PendingRows
  BY <1>1 DEF PendingRows, NoRow
<1>2. CASE row \in DoneRows
  BY <1>2 DEF DoneRows, NoRow
<1>3. CASE row = NoRow
  BY <1>3 DEF NoRow
<1> QED
  BY <1>1, <1>2, <1>3 DEF TypeOK

LEMMA ClaimedShape ==
    ASSUME NEW a \in Attempts, NEW b \in Attempts
    PROVE  /\ Claimed(a, b) \in Rows
           /\ Claimed(a, b).state = "pending" /\ Claimed(a, b).since = a
           /\ Claimed(a, b).content = Content[a]
           /\ Claimed(a, b).old = FALSE
BY DEF Claimed, Rows, PendingRows

LEMMA CompletedShape ==
    ASSUME NEW a \in Attempts, NEW what \in Outcomes, NEW b \in Attempts
    PROVE  /\ Completed(a, what, b) \in Rows
           /\ Completed(a, what, b).state = "done"
           /\ Completed(a, what, b).answer = what
           /\ Completed(a, what, b).content = Content[a]
BY DEF Completed, Rows, DoneRows

LEMMA KeptShape ==
    ASSUME TypeOK, NEW a \in Attempts, NEW what \in Outcomes
    PROVE  /\ Kept(a, what) \in Rows
           /\ MayStore(a) => /\ Kept(a, what).state = "done"
                             /\ Kept(a, what).answer = what
                             /\ Kept(a, what).content = Content[a]
           /\ ~MayStore(a) => Kept(a, what) = row
           /\ row.state = "done" => ~MayStore(a)
<1>1. CASE IsPending(a)
  <2>1. row.born \in Attempts /\ row.state = "pending" /\ row # NoRow
    BY <1>1, RowShapes DEF IsPending, NoRow
  <2>2. Kept(a, what) = Completed(a, what, row.born)
    BY <1>1, <2>1 DEF Kept
  <2>3. Kept(a, what) \in Rows /\ Kept(a, what).state = "done"
        /\ Kept(a, what).answer = what /\ Kept(a, what).content = Content[a]
    BY <2>1, <2>2, CompletedShape
  <2>4. MayStore(a) /\ row.state # "done"
    BY <1>1, <2>1 DEF MayStore
  <2> QED BY <2>3, <2>4
<1>2. CASE ~IsPending(a) /\ row = NoRow
  <2>1. Kept(a, what) = Completed(a, what, a)
    BY <1>2 DEF Kept
  <2> QED BY <1>2, <2>1, CompletedShape, RowShapes DEF MayStore
<1>3. CASE ~IsPending(a) /\ row # NoRow
  <2>1. Kept(a, what) = row
    BY <1>3 DEF Kept
  <2> QED BY <1>3, <2>1, RowShapes DEF MayStore, TypeOK, Rows
<1> QED BY <1>1, <1>2, <1>3

LEMMA AgedShape ==
    ASSUME TypeOK, row # NoRow
    PROVE  /\ Aged \in Rows /\ Aged.state = row.state
           /\ row.state = "pending" => Aged.since = row.since /\ Aged.old = TRUE
           /\ row.state = "done" =>
                Aged.answer = row.answer /\ Aged.content = row.content
<1>1. CASE row.state = "pending"
  <2>1. row \in PendingRows
    BY <1>1, RowShapes
  <2> QED BY <1>1, <2>1 DEF Aged, Rows, PendingRows
<1>2. CASE row.state = "done"
  <2>1. row \in DoneRows
    BY <1>2, RowShapes
  <2> QED BY <1>2, <2>1 DEF Aged, Rows, DoneRows
<1> QED BY <1>1, <1>2, RowShapes

LEMMA GotoShape ==
    ASSUME TypeOK, NEW a \in Attempts, NEW where \in Phases, Goto(a, where)
    PROVE  /\ phase' \in [Attempts -> Phases]
           /\ phase'[a] = where
           /\ \A b \in Attempts : b # a => phase'[b] = phase[b]
BY DEF TypeOK, Goto

LEMMA ReplyShape ==
    ASSUME TypeOK, NEW a \in Attempts, NEW what \in Answers,
           NEW where \in Phases, Reply(a, what, where)
    PROVE  /\ phase' \in [Attempts -> Phases]
           /\ phase'[a] = where
           /\ \A b \in Attempts : b # a => phase'[b] = phase[b]
           /\ answer' \in [Attempts -> Answers \cup {"none"}]
           /\ answer'[a] = what
           /\ \A b \in Attempts : b # a => answer'[b] = answer[b]
BY GotoShape DEF TypeOK, Reply

(* Waiting and giving up leave an attempt without a claim. *)
LEMMA WaitsShape ==
    ASSUME TypeOK, NEW a \in Attempts, Waits(a)
    PROVE  /\ phase' \in [Attempts -> Phases]
           /\ phase'[a] \in {"arrived", "over"}
           /\ \A b \in Attempts : b # a => phase'[b] = phase[b]
           /\ answer' \in [Attempts -> Answers \cup {"none"}]
           /\ answer'[a] \in {answer[a], "busy"}
           /\ \A b \in Attempts : b # a => answer'[b] = answer[b]
<1>1. CASE Goto(a, "arrived") /\ UNCHANGED answer
  <2>1. "arrived" \in Phases
    BY DEF Phases
  <2> QED BY <1>1, <2>1, GotoShape DEF TypeOK
<1>2. CASE Reply(a, "busy", "over")
  <2>1. "over" \in Phases /\ "busy" \in Answers
    BY DEF Phases, Answers
  <2> QED BY <1>2, <2>1, ReplyShape
<1> QED BY <1>1, <1>2 DEF Waits

-----------------------------------------------------------------------------
(* One lemma for each step. *)

(* A step after which attempt a holds nothing and the row is as before:    *)
(* an attempt that waits, gives up, replays or dies.                       *)
LEMMA LeavesRow ==
    ASSUME IInv, NEW a \in Attempts,
           UNCHANGED <<kind, slow, row, effects>>,
           phase' \in [Attempts -> Phases],
           \A b \in Attempts : b # a => phase'[b] = phase[b],
           phase'[a] \in {"arrived", "collided", "over", "dead"},
           phase'[a] \in {"arrived", "collided"} => ~Began(a),
           seen' \in [Attempts -> Attempts \cup {NoOne}],
           \A b \in Attempts : b # a => seen'[b] = seen[b],
           answer' \in [Attempts -> Answers \cup {"none"}],
           \A b \in Attempts : b # a => answer'[b] = answer[b],
           answer'[a] = "ok" =>
              answer[a] = "ok" \/ (row.state = "done" /\ row.answer = "ok"
                                    /\ row.content = Content[a])
    PROVE  IInv'
<1>1. TypeOK'
  BY DEF IInv, TypeOK
<1>2. Owner'
  BY DEF IInv, Owner, Running, Holds
<1>3. AbandonedStays'
  BY RowShapes DEF IInv, AbandonedStays, Began
<1>4. OnlyKeylessReclaims'
  BY DEF IInv, OnlyKeylessReclaims
<1>5. EffectIsKept' /\ OneEffect'
  BY DEF IInv, EffectIsKept, OneEffect
<1>6. SuccessIsReal'
  <2>1. row' = row /\ effects' = effects /\ slow' = slow
    OBVIOUS
  <2>2. ASSUME NEW b \in Attempts, slow = {},
               phase'[b] = "saveok" \/ answer'[b] = "ok"
        PROVE  CommittedFor(Content[b])
    <3>1. CASE b = a
      BY <2>2, <3>1 DEF IInv, SuccessIsReal
    <3>2. CASE b # a
      BY <2>2, <3>2 DEF IInv, SuccessIsReal
    <3> QED BY <3>1, <3>2
  <2>3. slow = {} /\ row.state = "done" /\ row.answer = "ok" =>
            CommittedFor(row.content)
    BY DEF IInv, SuccessIsReal
  <2> QED BY <2>1, <2>2, <2>3 DEF SuccessIsReal, CommittedFor
<1> QED BY <1>1, <1>2, <1>3, <1>4, <1>5, <1>6 DEF IInv

(* A step by which attempt a takes the row while nobody else holds it. *)
LEMMA Takes ==
    ASSUME IInv, NEW a \in Attempts,
           UNCHANGED <<kind, slow, answer, effects>>,
           ~Began(a), Goto(a, "run"),
           row' \in Rows, row'.state = "pending", row'.since = a,
           row'.content = Content[a], row'.old = FALSE,
           slow = {} => \A b \in Attempts :
                            ~Running(b) /\ phase[b] # "unsettled",
           kind = "inside" => effects = {},
           seen' \in [Attempts -> Attempts \cup {NoOne}],
           \A b \in Attempts : b # a => seen'[b] = seen[b]
    PROVE  IInv'
<1>0. TypeOK /\ "run" \in Phases
  BY DEF IInv, Phases
<1>1. /\ phase' \in [Attempts -> Phases] /\ phase'[a] = "run"
      /\ \A b \in Attempts : b # a => phase'[b] = phase[b]
  BY <1>0, GotoShape
<1>2. TypeOK'
  BY <1>1 DEF IInv, TypeOK, Rows
<1>3. Owner'
  <2>1. ASSUME slow = {}, NEW b \in Attempts, b # a
        PROVE  ~Running(b)' /\ phase'[b] # "unsettled"
    BY <1>1, <2>1 DEF Running
  <2>2. Holds(a)' /\ phase'[a] # "unsettled"
    BY <1>1 DEF Holds
  <2> QED BY <2>1, <2>2 DEF Owner
<1>4. AbandonedStays'
  <2>1. \A b \in Attempts : Began(b) => Began(b)'
    BY <1>1 DEF Began
  <2>2. ASSUME NEW b \in Attempts, phase'[b] = "takeover"
        PROVE  /\ seen'[b] \in Attempts /\ Began(seen[b])'
               /\ seen'[b] # a
    <3>1. b # a /\ phase[b] = "takeover" /\ seen'[b] = seen[b] /\ ~Began(a)
      BY <1>1, <2>2 DEF Began
    <3> QED BY <2>1, <3>1 DEF IInv, AbandonedStays
  <2>3. Began(a)'
    BY <1>1 DEF Began
  <2> QED BY <2>2, <2>3 DEF AbandonedStays, Began
<1>5. OnlyKeylessReclaims'
  BY <1>1 DEF IInv, OnlyKeylessReclaims
<1>6. EffectIsKept' /\ OneEffect'
  BY DEF IInv, EffectIsKept, OneEffect
<1>7. SuccessIsReal'
  BY <1>1 DEF IInv, SuccessIsReal, CommittedFor
<1> QED BY <1>2, <1>3, <1>4, <1>5, <1>6, <1>7 DEF IInv

LEMMA ClaimKeeps ==
    ASSUME IInv, NEW a \in Attempts, Claim(a) PROVE IInv'
<1>1. /\ row' \in Rows /\ row'.state = "pending" /\ row'.since = a
      /\ row'.content = Content[a] /\ row'.old = FALSE
  BY ClaimedShape DEF Claim
<1>2. TypeOK /\ row.state = "absent" /\ ~Began(a)
  BY RowShapes DEF Claim, Began, IInv
<1>3. slow = {} => \A b \in Attempts : ~Running(b) /\ phase[b] # "unsettled"
  BY <1>2 DEF IInv, Owner, Holds
<1>4. kind = "inside" => effects = {}
  BY <1>2 DEF IInv, EffectIsKept
<1> QED BY <1>1, <1>2, <1>3, <1>4, Takes DEF Claim, TypeOK

LEMMA CollideKeeps ==
    ASSUME IInv, NEW a \in Attempts, Collide(a) PROVE IInv'
<1>1. TypeOK /\ "collided" \in Phases /\ ~Began(a)
  BY DEF IInv, Phases, Began, Collide
<1>2. /\ phase' \in [Attempts -> Phases] /\ phase'[a] = "collided"
      /\ \A b \in Attempts : b # a => phase'[b] = phase[b]
  BY <1>1, GotoShape DEF Collide
<1> QED BY <1>1, <1>2, LeavesRow DEF Collide, TypeOK

(* Reading the row: an attempt waits, gives up or replays ... *)
LEMMA LookAway ==
    ASSUME IInv, NEW a \in Attempts, phase[a] = "collided",
           UNCHANGED <<kind, slow, row, effects>>,
           LookGone(a) \/ LookOther(a) \/ LookReplay(a) \/ LookPending(a)
    PROVE  IInv'
<1>1. TypeOK /\ ~Began(a)
  BY DEF IInv, Began
<1>2. CASE LookGone(a)
  <2>1. "arrived" \in Phases
    BY DEF Phases
  <2>2. /\ phase' \in [Attempts -> Phases] /\ phase'[a] = "arrived"
        /\ \A b \in Attempts : b # a => phase'[b] = phase[b]
    BY <1>1, <1>2, <2>1, GotoShape DEF LookGone
  <2> QED BY <1>1, <1>2, <2>2, LeavesRow DEF LookGone, TypeOK
<1>3. CASE LookOther(a)
  <2>1. "over" \in Phases /\ "reused" \in Answers
    BY DEF Phases, Answers
  <2>2. /\ phase' \in [Attempts -> Phases] /\ phase'[a] = "over"
        /\ \A b \in Attempts : b # a => phase'[b] = phase[b]
        /\ answer' \in [Attempts -> Answers \cup {"none"}]
        /\ answer'[a] = "reused"
        /\ \A b \in Attempts : b # a => answer'[b] = answer[b]
    BY <1>1, <1>3, <2>1, ReplyShape DEF LookOther
  <2> QED BY <1>1, <1>3, <2>2, LeavesRow DEF LookOther, TypeOK
<1>4. CASE LookReplay(a)
  <2>1. "over" \in Phases /\ row.answer \in Answers /\ row.state = "done"
    BY <1>1, <1>4, RowShapes DEF Phases, Answers, LookReplay, Replayable
  <2>2. /\ phase' \in [Attempts -> Phases] /\ phase'[a] = "over"
        /\ \A b \in Attempts : b # a => phase'[b] = phase[b]
        /\ answer' \in [Attempts -> Answers \cup {"none"}]
        /\ answer'[a] = row.answer
        /\ \A b \in Attempts : b # a => answer'[b] = answer[b]
    BY <1>1, <1>4, <2>1, ReplyShape DEF LookReplay
  <2> QED BY <1>1, <1>4, <2>1, <2>2, LeavesRow DEF LookReplay, TypeOK
<1>5. CASE LookPending(a)
  BY <1>1, <1>5, WaitsShape, LeavesRow DEF LookPending, TypeOK
<1> QED BY <1>2, <1>3, <1>4, <1>5

(* ... or sets out to take it. *)
LEMMA LookToTake ==
    ASSUME IInv, NEW a \in Attempts, phase[a] = "collided",
           UNCHANGED <<kind, slow, row, effects>>,
           LookOutdated(a) \/ LookAbandoned(a)
    PROVE  IInv'
<1>0. /\ TypeOK /\ {"reclaim", "takeover"} \subseteq Phases
      /\ row # NoRow /\ row.born \in Attempts
      /\ UNCHANGED answer
  <2>1. row.state \in {"done", "pending"}
    BY DEF LookOutdated, LookAbandoned, IsPending
  <2>2. TypeOK
    BY DEF IInv
  <2>3. row # NoRow
    BY <2>1, <2>2, RowShapes
  <2> QED BY <2>2, <2>3, RowShapes DEF Phases, LookOutdated, LookAbandoned
<1>1. /\ phase' \in [Attempts -> Phases]
      /\ phase'[a] \in {"reclaim", "takeover"}
      /\ \A b \in Attempts : b # a => phase'[b] = phase[b]
  BY <1>0, GotoShape DEF LookOutdated, LookAbandoned
<1>2. /\ phase'[a] = "reclaim" => kind = "keyless"
      /\ phase'[a] = "takeover" =>
            row.state = "pending" /\ row.old = TRUE /\ seen'[a] = row.since
  <2>1. CASE LookOutdated(a)
    <3>1. phase'[a] = "reclaim"
      BY <1>0, <2>1, GotoShape DEF LookOutdated
    <3> QED BY <2>1, <3>1 DEF LookOutdated, Replayable
  <2>2. CASE LookAbandoned(a)
    <3>1. phase'[a] = "takeover"
      BY <1>0, <2>2, GotoShape DEF LookAbandoned
    <3>2. row \in PendingRows
      BY <1>0, <2>2, RowShapes DEF LookAbandoned, IsPending
    <3>3. row.old = TRUE
      BY <2>2, <3>2 DEF LookAbandoned, PendingRows
    <3>4. seen'[a] = row.since
      BY <1>0, <2>2 DEF LookAbandoned, TypeOK
    <3> QED BY <2>2, <3>1, <3>3, <3>4 DEF LookAbandoned, IsPending
  <2> QED BY <2>1, <2>2
<1>3. /\ seen' \in [Attempts -> Attempts \cup {NoOne}]
      /\ \A b \in Attempts : b # a => seen'[b] = seen[b]
  BY <1>0, RowShapes
     DEF LookOutdated, LookAbandoned, IsPending, TypeOK
<1>4. TypeOK'
  BY <1>0, <1>1, <1>3 DEF TypeOK
<1>5. Owner'
  BY <1>1 DEF IInv, Owner, Running, Holds
<1>6. AbandonedStays'
  <2>1. \A b \in Attempts : Began(b) <=> Began(b)'
    BY <1>1 DEF Began
  <2>2. row.state = "pending" => row.since \in Attempts /\ Began(row.since)
    BY <1>0, RowShapes DEF IInv, AbandonedStays
  <2>3. ASSUME NEW b \in Attempts, phase'[b] = "takeover"
        PROVE  /\ seen'[b] \in Attempts /\ Began(seen[b])'
               /\ row.state = "pending" /\ row.since = seen'[b] =>
                     row.old = TRUE
    <3>1. CASE b = a
      BY <1>2, <2>1, <2>2, <2>3, <3>1
    <3>2. CASE b # a
      BY <1>1, <1>3, <2>1, <2>3, <3>2 DEF IInv, AbandonedStays
    <3> QED BY <3>1, <3>2
  <2> QED BY <2>1, <2>2, <2>3 DEF AbandonedStays, Began
<1>7. OnlyKeylessReclaims'
  BY <1>1, <1>2 DEF IInv, OnlyKeylessReclaims
<1>8. EffectIsKept' /\ OneEffect'
  BY DEF IInv, EffectIsKept, OneEffect
<1>9. SuccessIsReal'
  BY <1>0, <1>1 DEF IInv, SuccessIsReal, CommittedFor
<1> QED BY <1>4, <1>5, <1>6, <1>7, <1>8, <1>9 DEF IInv

LEMMA TakeOverKeeps ==
    ASSUME IInv, NEW a \in Attempts, TakeOver(a) PROVE IInv'
<1>0. TypeOK /\ ~Began(a) /\ phase[a] = "takeover"
  BY DEF IInv, Began, TakeOver
<1>1. /\ seen' \in [Attempts -> Attempts \cup {NoOne}]
      /\ \A b \in Attempts : b # a => seen'[b] = seen[b]
  BY <1>0 DEF TakeOver, TypeOK
<1>2. CASE StillSeen(a)
  <2>1. row' = Claimed(a, row.born) /\ Goto(a, "run")
        /\ UNCHANGED <<kind, slow, answer, effects>>
    BY <1>2 DEF TakeOver
  <2>2. row.state = "pending" /\ row.since = seen[a] /\ row # NoRow
        /\ row.born \in Attempts
    BY <1>0, <1>2, RowShapes DEF StillSeen, IsPending
  <2>3. row.old = TRUE
    BY <1>0, <2>2 DEF IInv, AbandonedStays
  <2>4. slow = {} =>
            \A b \in Attempts : ~Running(b) /\ phase[b] # "unsettled"
    BY <2>2, <2>3 DEF IInv, Owner, Holds
  <2>5. kind = "inside" => effects = {}
    BY <2>2 DEF IInv, EffectIsKept
  <2>6. /\ row' \in Rows /\ row'.state = "pending" /\ row'.since = a
        /\ row'.content = Content[a] /\ row'.old = FALSE
    BY <2>1, <2>2, ClaimedShape
  <2> QED BY <1>0, <1>1, <2>1, <2>4, <2>5, <2>6, Takes
<1>3. CASE ~StillSeen(a)
  <2>1. Waits(a) /\ UNCHANGED <<kind, slow, row, effects>>
    BY <1>3 DEF TakeOver
  <2> QED BY <1>0, <1>1, <2>1, WaitsShape, LeavesRow
<1> QED BY <1>2, <1>3

LEMMA ReclaimKeeps ==
    ASSUME IInv, NEW a \in Attempts, Reclaim(a) PROVE IInv'
<1>0. TypeOK /\ ~Began(a) /\ phase[a] = "reclaim" /\ kind = "keyless"
  BY DEF IInv, Began, Reclaim, OnlyKeylessReclaims
<1>1. /\ seen' \in [Attempts -> Attempts \cup {NoOne}]
      /\ \A b \in Attempts : b # a => seen'[b] = seen[b]
  BY <1>0 DEF Reclaim, TypeOK
<1>2. CASE row.state = "done" /\ row.born = seen[a]
  <2>1. row' = Claimed(a, a) /\ Goto(a, "run")
        /\ UNCHANGED <<kind, slow, answer, effects>>
    BY <1>2 DEF Reclaim
  <2>4. slow = {} =>
            \A b \in Attempts : ~Running(b) /\ phase[b] # "unsettled"
    BY <1>0, <1>2 DEF IInv, Owner, Holds
  <2>6. /\ row' \in Rows /\ row'.state = "pending" /\ row'.since = a
        /\ row'.content = Content[a] /\ row'.old = FALSE
    BY <2>1, ClaimedShape
  <2> QED BY <1>0, <1>1, <2>1, <2>4, <2>6, Takes
<1>3. CASE ~(row.state = "done" /\ row.born = seen[a])
  <2>1. Goto(a, "arrived") /\ UNCHANGED <<kind, slow, row, answer, effects>>
    BY <1>3 DEF Reclaim
  <2>2. "arrived" \in Phases
    BY DEF Phases
  <2>3. /\ phase' \in [Attempts -> Phases] /\ phase'[a] = "arrived"
        /\ \A b \in Attempts : b # a => phase'[b] = phase[b]
    BY <1>0, <2>1, <2>2, GotoShape
  <2> QED BY <1>0, <1>1, <2>1, <2>3, LeavesRow DEF TypeOK
<1> QED BY <1>2, <1>3

-----------------------------------------------------------------------------
(* Steps of an attempt that holds the claim. *)

(* Until its response is stored: the row stays as it is. *)
LEMMA Proceeds ==
    ASSUME IInv, NEW a \in Attempts, Running(a),
           UNCHANGED <<kind, slow, row, seen>>,
           effects' \in SUBSET Attempts, effects \subseteq effects',
           kind = "inside" => effects' = effects,
           OneEffect',
           phase' \in [Attempts -> Phases],
           phase'[a] \in {"saveok", "saverefused", "unsettled"},
           phase'[a] = "saveok" => a \in effects',
           \A b \in Attempts : b # a => phase'[b] = phase[b],
           answer' \in [Attempts -> Answers \cup {"none"}],
           answer'[a] = "ok" => answer[a] = "ok",
           \A b \in Attempts : b # a => answer'[b] = answer[b]
    PROVE  IInv'
<1>1. TypeOK'
  BY DEF IInv, TypeOK
<1>2. Owner'
  BY DEF IInv, Owner, Running, Holds
<1>3. AbandonedStays'
  <2>1. \A b \in Attempts : Began(b) => Began(b)'
    BY DEF Began
  <2>2. \A b \in Attempts : phase'[b] = "takeover" => phase[b] = "takeover"
    OBVIOUS
  <2>3. row.state = "pending" => row.since \in Attempts
    BY RowShapes DEF IInv
  <2> QED BY <2>1, <2>2, <2>3 DEF IInv, AbandonedStays, Began
<1>4. OnlyKeylessReclaims'
  BY DEF IInv, OnlyKeylessReclaims
<1>5. EffectIsKept'
  BY DEF IInv, EffectIsKept
<1>6. SuccessIsReal'
  <2>1. \A c : CommittedFor(c) => CommittedFor(c)'
    BY DEF CommittedFor
  <2>2. ASSUME NEW b \in Attempts, slow = {},
               phase'[b] = "saveok" \/ answer'[b] = "ok"
        PROVE  CommittedFor(Content[b])'
    <3>1. CASE b = a /\ phase'[b] = "saveok"
      BY <3>1 DEF CommittedFor
    <3>2. CASE b = a /\ answer'[b] = "ok"
      BY <2>1, <2>2, <3>2 DEF IInv, SuccessIsReal
    <3>3. CASE b # a
      BY <2>1, <2>2, <3>3 DEF IInv, SuccessIsReal
    <3> QED BY <2>2, <3>1, <3>2, <3>3
  <2>3. slow = {} /\ row.state = "done" /\ row.answer = "ok" =>
            CommittedFor(row.content)'
    BY <2>1 DEF IInv, SuccessIsReal
  <2> QED BY <2>2, <2>3 DEF SuccessIsReal, CommittedFor
<1> QED BY <1>1, <1>2, <1>3, <1>4, <1>5, <1>6 DEF IInv

(* Storing the response, in or after the transaction. *)
LEMMA Stores ==
    ASSUME IInv, NEW a \in Attempts, Running(a), NEW what \in Outcomes,
           row' = Kept(a, what), UNCHANGED <<kind, slow, seen>>,
           effects' \in SUBSET Attempts, effects \subseteq effects',
           kind = "inside" /\ effects' # effects => MayStore(a),
           OneEffect',
           phase' \in [Attempts -> Phases],
           phase'[a] \in {"over", "unsettled"},
           phase'[a] = "unsettled" => kind = "inside",
           \A b \in Attempts : b # a => phase'[b] = phase[b],
           answer' \in [Attempts -> Answers \cup {"none"}],
           answer'[a] = what,
           \A b \in Attempts : b # a => answer'[b] = answer[b],
           slow = {} /\ what = "ok" => CommittedFor(Content[a])'
    PROVE  IInv'
<1>0. TypeOK
  BY DEF IInv
<1>1. TypeOK'
  BY <1>0, KeptShape DEF TypeOK, Rows
<1>2. slow = {} => /\ row'.state = "done" /\ row'.answer = what
                   /\ row'.content = Content[a]
  <2>1. slow = {} => MayStore(a)
    BY DEF IInv, Owner, Holds, MayStore, IsPending
  <2> QED BY <1>0, <2>1, KeptShape
<1>3. Owner'
  <2>1. ASSUME slow = {}, NEW b \in Attempts, b # a
        PROVE  ~Running(b)' /\ phase'[b] # "unsettled"
    <3>1. Holds(a)
      BY <2>1 DEF IInv, Owner
    <3>2. ~Running(b) /\ phase[b] # "unsettled"
      BY <2>1, <3>1 DEF IInv, Owner, Holds
    <3> QED BY <2>1, <3>2 DEF Running
  <2>2. ~Running(a)'
    BY DEF Running
  <2> QED BY <1>2, <2>1, <2>2 DEF Owner
<1>4. \/ row' = row
      \/ row'.state = "done" /\ row'.answer = what
  BY <1>0, KeptShape
<1>5. AbandonedStays'
  <2>1. \A b \in Attempts : Began(b) => Began(b)'
    BY DEF Began
  <2>2. \A b \in Attempts : phase'[b] = "takeover" => phase[b] = "takeover"
    OBVIOUS
  <2>3. row.state = "pending" => row.since \in Attempts
    BY <1>0, RowShapes
  <2>4. row'.state = "pending" => row' = row
    BY <1>4
  <2> QED BY <2>1, <2>2, <2>3, <2>4 DEF IInv, AbandonedStays, Began
<1>6. OnlyKeylessReclaims'
  BY DEF IInv, OnlyKeylessReclaims
<1>7. EffectIsKept'
  BY <1>0, <1>4, KeptShape DEF IInv, EffectIsKept
<1>8. SuccessIsReal'
  <2>1. \A c : CommittedFor(c) => CommittedFor(c)'
    BY DEF CommittedFor
  <2>2. ASSUME NEW b \in Attempts, slow = {},
               phase'[b] = "saveok" \/ answer'[b] = "ok"
        PROVE  CommittedFor(Content[b])'
    <3>1. CASE b = a
      BY <2>2, <3>1
    <3>2. CASE b # a
      BY <2>1, <2>2, <3>2 DEF IInv, SuccessIsReal
    <3> QED BY <3>1, <3>2
  <2>3. slow = {} /\ row'.state = "done" /\ row'.answer = "ok" =>
            CommittedFor(Content[a])' /\ row'.content = Content[a]
    BY <1>2
  <2> QED BY <2>2, <2>3 DEF SuccessIsReal, CommittedFor
<1> QED BY <1>1, <1>3, <1>5, <1>6, <1>7, <1>8 DEF IInv

LEMMA RunKeeps ==
    ASSUME IInv, NEW a \in Attempts, Run(a) PROVE IInv'
<1>0. /\ TypeOK /\ Running(a) /\ OneEffect
      /\ {"saveok", "saverefused", "unsettled"} \subseteq Phases
      /\ {"ok", "refused", "error"} \subseteq Answers /\ "ok" \in Outcomes
  BY DEF IInv, Running, Run, Phases, Answers, Outcomes
<1>1. CASE CommitInside(a)
  <2>1. /\ phase' \in [Attempts -> Phases] /\ phase'[a] = "unsettled"
        /\ \A b \in Attempts : b # a => phase'[b] = phase[b]
        /\ answer' \in [Attempts -> Answers \cup {"none"}]
        /\ answer'[a] = "ok"
        /\ \A b \in Attempts : b # a => answer'[b] = answer[b]
    BY <1>0, <1>1, ReplyShape DEF CommitInside
  <2>2. /\ effects' \in SUBSET Attempts /\ effects \subseteq effects'
        /\ effects' # effects => MayStore(a)
    BY <1>0, <1>1 DEF CommitInside, TypeOK
  <2>3. OneEffect'
    <3>1. CASE MayStore(a)
      <4>1. effects = {}
        BY <1>0, <1>1, <3>1, KeptShape
           DEF IInv, EffectIsKept, CommitInside
      <4>2. effects' = {a}
        BY <1>1, <3>1, <4>1 DEF CommitInside
      <4> QED BY <4>2 DEF OneEffect
    <3>2. CASE ~MayStore(a)
      BY <1>0, <1>1, <3>2 DEF CommitInside, OneEffect, Run
    <3> QED BY <3>1, <3>2
  <2>4. slow = {} => CommittedFor(Content[a])'
    <3>1. slow = {} => MayStore(a)
      BY <1>0 DEF IInv, Owner, Holds, MayStore, IsPending
    <3> QED BY <1>1, <3>1 DEF CommitInside, CommittedFor
  <2> QED BY <1>0, <1>1, <2>1, <2>2, <2>3, <2>4, Stores DEF CommitInside, Run
<1>2. CASE CommitOutside(a)
  <2>1. /\ phase' \in [Attempts -> Phases] /\ phase'[a] = "saveok"
        /\ \A b \in Attempts : b # a => phase'[b] = phase[b]
    BY <1>0, <1>2, GotoShape DEF CommitOutside
  <2>2. /\ effects' \in SUBSET Attempts /\ effects \subseteq effects'
        /\ a \in effects' /\ kind # "inside"
    BY <1>0, <1>2 DEF CommitOutside, TypeOK
  <2>3. OneEffect'
    BY <1>2 DEF CommitOutside, OneEffect, Run
  <2> QED BY <1>0, <1>2, <2>1, <2>2, <2>3, Proceeds
          DEF CommitOutside, Run, TypeOK
<1>3. CASE Refuse(a)
  <2>1. /\ phase' \in [Attempts -> Phases] /\ phase'[a] = "saverefused"
        /\ \A b \in Attempts : b # a => phase'[b] = phase[b]
    BY <1>0, <1>3, GotoShape DEF Refuse
  <2> QED BY <1>0, <1>3, <2>1, Proceeds
          DEF Refuse, Run, TypeOK, OneEffect
<1>4. CASE RefuseUnsaved(a) \/ Throw(a)
  <2>1. /\ phase' \in [Attempts -> Phases] /\ phase'[a] = "unsettled"
        /\ \A b \in Attempts : b # a => phase'[b] = phase[b]
        /\ answer' \in [Attempts -> Answers \cup {"none"}]
        /\ answer'[a] \in {"refused", "error"}
        /\ \A b \in Attempts : b # a => answer'[b] = answer[b]
    BY <1>0, <1>4, ReplyShape DEF RefuseUnsaved, Throw
  <2> QED BY <1>0, <1>4, <2>1, Proceeds
          DEF RefuseUnsaved, Throw, Run, TypeOK, OneEffect
<1> QED BY <1>1, <1>2, <1>3, <1>4 DEF Run

LEMMA SaveKeeps ==
    ASSUME IInv, NEW a \in Attempts, Save(a) PROVE IInv'
<1>0. /\ TypeOK /\ Running(a) /\ "over" \in Phases
      /\ ToSave(a) \in Outcomes /\ ToSave(a) \in Answers
  BY DEF IInv, Running, Save, Phases, ToSave, Outcomes, Answers
<1>1. /\ phase' \in [Attempts -> Phases] /\ phase'[a] = "over"
      /\ \A b \in Attempts : b # a => phase'[b] = phase[b]
      /\ answer' \in [Attempts -> Answers \cup {"none"}]
      /\ answer'[a] = ToSave(a)
      /\ \A b \in Attempts : b # a => answer'[b] = answer[b]
  BY <1>0, ReplyShape DEF Save
<1>2. slow = {} /\ ToSave(a) = "ok" => CommittedFor(Content[a])'
  BY <1>0 DEF IInv, SuccessIsReal, ToSave, Save, CommittedFor
<1>3. OneEffect' /\ effects' \in SUBSET Attempts
  BY DEF IInv, OneEffect, Save, TypeOK
<1> QED BY <1>0, <1>1, <1>2, <1>3, Stores DEF Save

LEMMA SaveFailsKeeps ==
    ASSUME IInv, NEW a \in Attempts, SaveFails(a) PROVE IInv'
<1>0. TypeOK /\ Running(a) /\ "unsettled" \in Phases /\ "error" \in Answers
  BY DEF IInv, Running, SaveFails, Phases, Answers
<1>1. /\ phase' \in [Attempts -> Phases] /\ phase'[a] = "unsettled"
      /\ \A b \in Attempts : b # a => phase'[b] = phase[b]
      /\ answer' \in [Attempts -> Answers \cup {"none"}]
      /\ answer'[a] = "error"
      /\ \A b \in Attempts : b # a => answer'[b] = answer[b]
  BY <1>0, ReplyShape DEF SaveFails
<1>2. OneEffect' /\ effects' \in SUBSET Attempts
  BY DEF IInv, OneEffect, SaveFails, TypeOK
<1> QED BY <1>0, <1>1, <1>2, Proceeds DEF SaveFails

LEMMA ReleaseKeeps ==
    ASSUME IInv, NEW a \in Attempts, Release(a) PROVE IInv'
<1>0. TypeOK /\ "over" \in Phases
  BY DEF IInv, Phases
<1>1. /\ phase' \in [Attempts -> Phases] /\ phase'[a] = "over"
      /\ \A b \in Attempts : b # a => phase'[b] = phase[b]
  BY <1>0, GotoShape DEF Release
<1>2. CASE ~IsPending(a)
  <2>1. row' = row
    BY <1>2 DEF Release
  <2> QED BY <1>0, <1>1, <2>1, LeavesRow DEF Release, TypeOK
<1>3. CASE IsPending(a)
  <2>1. row' = NoRow /\ row.state = "pending" /\ row'.state = "absent"
    BY <1>3 DEF Release, IsPending, NoRow
  <2>2. TypeOK'
    BY <1>0, <1>1, <2>1 DEF Release, TypeOK
  <2>3. Owner'
    <3>1. ASSUME slow = {}, NEW b \in Attempts, b # a
          PROVE  ~Running(b)' /\ phase'[b] # "unsettled"
      <4>1. Holds(a)
        BY <2>1, <3>1 DEF IInv, Owner, Release
      <4>2. ~Running(b) /\ phase[b] # "unsettled"
        BY <2>1, <3>1, <4>1 DEF IInv, Owner, Holds
      <4> QED BY <1>1, <3>1, <4>2 DEF Running
    <3>2. ~Running(a)' /\ phase'[a] # "unsettled" /\ slow' = slow
      BY <1>1 DEF Running, Release
    <3> QED BY <3>1, <3>2 DEF Owner
  <2>4. AbandonedStays'
    <3>1. \A b \in Attempts : Began(b) => Began(b)'
      BY <1>1 DEF Began
    <3>2. \A b \in Attempts : phase'[b] = "takeover" => phase[b] = "takeover"
      BY <1>1
    <3> QED BY <2>1, <3>1, <3>2 DEF IInv, AbandonedStays, Began, Release
  <2>5. OnlyKeylessReclaims'
    BY <1>1 DEF IInv, OnlyKeylessReclaims, Release
  <2>6. EffectIsKept' /\ OneEffect'
    BY <2>1 DEF IInv, EffectIsKept, OneEffect, Release
  <2>7. SuccessIsReal'
    BY <1>1, <2>1 DEF IInv, SuccessIsReal, Release, CommittedFor
  <2> QED BY <2>2, <2>3, <2>4, <2>5, <2>6, <2>7 DEF IInv
<1> QED BY <1>2, <1>3

LEMMA CrashKeeps ==
    ASSUME IInv, NEW a \in Attempts, Crash(a) PROVE IInv'
<1>0. TypeOK /\ "dead" \in Phases
  BY DEF IInv, Phases
<1>1. /\ phase' \in [Attempts -> Phases] /\ phase'[a] = "dead"
      /\ \A b \in Attempts : b # a => phase'[b] = phase[b]
  BY <1>0, GotoShape DEF Crash
<1> QED BY <1>0, <1>1, LeavesRow DEF Crash, TypeOK

LEMMA AgeKeeps == ASSUME IInv, Age PROVE IInv'
<1>0. TypeOK /\ row # NoRow /\ row' = Aged
  BY DEF IInv, Age
<1>1. TypeOK'
  BY <1>0, AgedShape DEF Age, TypeOK, Rows
<1>2. Owner'
  <2>1. CASE row.state = "pending"
    <3>1. ASSUME slow = {}, NEW b \in Attempts
          PROVE  ~Running(b) /\ phase[b] # "unsettled"
      <4>1. ~Unfinished(row.since)
        BY <2>1, <3>1 DEF Age
      <4> QED BY <2>1, <3>1, <4>1 DEF IInv, Owner, Holds, Unfinished, Running
    <3> QED BY <3>1 DEF Age, Owner, Running
  <2>2. CASE row.state = "done"
    <3>1. kind = "keyless"
      BY <2>2 DEF Age
    <3>2. ASSUME slow = {}, NEW b \in Attempts
          PROVE  ~Running(b) /\ phase[b] # "unsettled"
      BY <2>2, <3>1, <3>2 DEF IInv, Owner, Holds
    <3> QED BY <3>2 DEF Age, Owner, Running
  <2> QED BY <1>0, <2>1, <2>2, RowShapes
<1>3. AbandonedStays'
  BY <1>0, AgedShape DEF IInv, AbandonedStays, Age, Began
<1>4. OnlyKeylessReclaims' /\ EffectIsKept' /\ OneEffect'
  BY <1>0, AgedShape
     DEF IInv, OnlyKeylessReclaims, EffectIsKept, OneEffect, Age
<1>5. SuccessIsReal'
  BY <1>0, AgedShape DEF IInv, SuccessIsReal, Age, CommittedFor
<1> QED BY <1>1, <1>2, <1>3, <1>4, <1>5 DEF IInv

-----------------------------------------------------------------------------
(* The invariant, and what follows from it. *)

LEMMA InitHolds == Init => IInv
<1> SUFFICES ASSUME Init PROVE IInv
  OBVIOUS
<1>1. TypeOK
  BY IdempotencyAssumption DEF Init, TypeOK, Phases
<1>2. row.state = "absent" /\ effects = {}
      /\ \A a \in Attempts : phase[a] = "arrived" /\ answer[a] = "none"
  BY DEF Init, NoRow
<1> QED BY <1>1, <1>2
        DEF IInv, Owner, Running, AbandonedStays, OnlyKeylessReclaims,
            EffectIsKept, OneEffect, SuccessIsReal

LEMMA NextKeeps == IInv /\ [Next]_vars => IInv'
<1> SUFFICES ASSUME IInv, [Next]_vars PROVE IInv'
  OBVIOUS
<1>1. CASE Age
  BY <1>1, AgeKeeps
<1>2. ASSUME NEW a \in Attempts, Step(a) PROVE IInv'
  <2>1. CASE Look(a)
    BY <2>1, LookAway, LookToTake DEF Look
  <2> QED BY <1>2, <2>1, ClaimKeeps, CollideKeeps, TakeOverKeeps,
             ReclaimKeeps, RunKeeps, SaveKeeps, SaveFailsKeeps,
             ReleaseKeeps, CrashKeeps DEF Step
<1>3. CASE UNCHANGED vars
  <2>1. TypeOK'
    BY <1>3 DEF IInv, TypeOK, vars
  <2> QED BY <1>3, <2>1
          DEF IInv, vars, Owner, Holds, Running, AbandonedStays, Began,
              OnlyKeylessReclaims, EffectIsKept, OneEffect, SuccessIsReal,
              CommittedFor
<1> QED BY <1>1, <1>2, <1>3 DEF Next

LEMMA Invariant == Spec => []IInv
BY InitHolds, NextKeeps, PTL DEF Spec

(* The row, the claims and the answers keep their types. *)
THEOREM TypeCorrect == Spec => []TypeOK
<1>1. IInv => TypeOK
  BY DEF IInv
<1> QED BY <1>1, Invariant, PTL

(* A wallet adjustment or a broadcast whose response is stored in its own  *)
(* transaction is made at most once under a key, for any number of         *)
(* attempts, deaths and failures, and even by attempts that outlive their  *)
(* claims.                                                                 *)
THEOREM AtMostOnce == Spec => []OneEffect
<1>1. IInv => OneEffect
  BY DEF IInv
<1> QED BY <1>1, Invariant, PTL

(* While nobody outlives a claim, one attempt of a key runs at a time. *)
THEOREM RunsAreExclusive == Spec => []OneRunner
<1>1. IInv => OneRunner
  BY DEF IInv, OneRunner, Owner, Holds
<1> QED BY <1>1, Invariant, PTL

(* While nobody outlives a claim, success is only ever reported of a       *)
(* mutation of the same content that committed.                            *)
THEOREM SuccessIsTrue == Spec => []TruthfulSuccess
<1>1. IInv => TruthfulSuccess
  BY DEF IInv, TruthfulSuccess, SuccessIsReal
<1> QED BY <1>1, Invariant, PTL

(* A stored response is never changed or dropped outside the keyless       *)
(* window.                                                                 *)
THEOREM ResponsesStay == Spec => KeptAnswerStays
<1>1. IInv /\ [Next]_vars =>
          [row.state = "done" /\ kind # "keyless" => row' = row]_vars
  <2> SUFFICES ASSUME IInv, Next, row.state = "done", kind # "keyless"
               PROVE  row' = row
    BY DEF vars
  <2>1. TypeOK /\ row # NoRow
    BY RowShapes DEF IInv, NoRow
  <2>2. CASE Age
    BY <2>2 DEF Age
  <2>3. ASSUME NEW a \in Attempts, Step(a) PROVE row' = row
    <3>1. ~IsPending(a) /\ ~MayStore(a)
      BY <2>1 DEF IsPending, MayStore
    <3>2. Kept(a, "ok") = row /\ Kept(a, "refused") = row
      BY <2>1, <3>1, KeptShape DEF Outcomes
    <3>3. CASE Claim(a) \/ Collide(a) \/ Look(a)
      BY <2>1, <3>3 DEF Claim, Collide, Look
    <3>4. CASE TakeOver(a)
      BY <3>1, <3>4 DEF TakeOver, StillSeen
    <3>5. CASE Reclaim(a)
      BY <3>5 DEF Reclaim, IInv, OnlyKeylessReclaims
    <3>6. CASE Run(a)
      BY <3>2, <3>6 DEF Run, CommitInside, CommitOutside, Refuse,
                        RefuseUnsaved, Throw
    <3>7. CASE Save(a)
      BY <3>2, <3>7 DEF Save, ToSave
    <3>8. CASE SaveFails(a) \/ Release(a) \/ Crash(a)
      BY <3>1, <3>8 DEF SaveFails, Release, Crash
    <3> QED BY <2>3, <3>3, <3>4, <3>5, <3>6, <3>7, <3>8 DEF Step
  <2> QED BY <2>2, <2>3 DEF Next
<1> QED BY <1>1, Invariant, PTL DEF Spec, KeptAnswerStays

=============================================================================
