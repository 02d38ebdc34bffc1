--------------------------- MODULE CheckoutProofs ---------------------------
(***************************************************************************)
(* Proofs about Checkout for any number of checkouts, deliveries,          *)
(* cancellations, buyers and stock items, and any schedule.                *)
(*                                                                         *)
(* The argument is the one behind row locks.  Sound(w) says what a         *)
(* transaction in progress has established: which rows it holds, and that  *)
(* what it read from them is still so.  Other transactions keep it,        *)
(* because they write only rows they hold (Elsewhere); so the writes at    *)
(* the commit fit the committed data of that moment, and each commit is an *)
(* operation of AtomicShop run alone (OrderIsPlaced, OrderIsDelivered,     *)
(* OrderIsCancelled, UnitIsTakenAway).                                     *)
(***************************************************************************)
EXTENDS Checkout, SequenceTheorems, FiniteSetTheorems, TLAPS

Working == {"quote", "insert", "reserve", "debit", "redeem", "commit"}

Placing == {"debit", "redeem", "commit"}

(* A checkout that has reserved its unit; its order is not there yet.      *)
SoundRequest(r) ==
  /\ pc[r] \in Working \cup Ended
  /\ pc[r] # "done" => order[r].status = "none" /\ order[r].item = NoOne
  /\ r \in FromCart /\ pc[r] \in Working =>
       owner[Cart(BuyerOf[r])] = r /\ full[BuyerOf[r]] = TRUE
  /\ pc[r] \in Placing =>
       /\ job[r].item \in Items
       /\ owner[job[r].item] = r
       /\ stock[job[r].item].status = "available"
  (* ... has debited the wallet *)
  /\ /\ job[r].spend > 0
     /\ pc[r] = "commit" \/ (pc[r] = "redeem" /\ r \in FromCart)
     => /\ owner[BuyerOf[r]] = r
        /\ job[r].balance = balance[BuyerOf[r]]
        /\ job[r].spend <= job[r].balance
  (* ... has redeemed the voucher *)
  /\ /\ r \in WithVoucher
     /\ pc[r] = "commit" \/ (pc[r] = "debit" /\ r \notin FromCart)
     => /\ owner[Voucher] = r
        /\ used < Limit
        /\ redeemed[BuyerOf[r]] = NoOne

HoldsOrder(w) ==
  /\ job[w].order \in Requests
  /\ owner[job[w].order] = w
  /\ Open(job[w].order)

(* The unit of an order, when its holder finds it gone, is dead.           *)
LineIsDead(o) ==
  order[o].item \in Items /\ stock[order[o].item].status = "dead"

SoundPayment(p) ==
  /\ pc[p] \in {"sell", "substitute", "commit"} \cup (Ended \ {"session"})
  /\ pc[p] \in {"sell", "substitute", "commit"} => HoldsOrder(p)
  /\ pc[p] = "sell" => job[p].item = order[job[p].order].item
  /\ pc[p] = "substitute" => LineIsDead(job[p].order)
  /\ pc[p] = "commit" =>
       /\ job[p].item \in Items
       /\ owner[job[p].item] = p
       /\ \/ /\ job[p].item = order[job[p].order].item
             /\ HeldFor(job[p].item, job[p].order)
          \/ /\ stock[job[p].item].status = "available"
             /\ LineIsDead(job[p].order)

Undoing == {"release", "refund", "giveback", "commit"}

SoundCancel(c) ==
  /\ pc[c] \in Undoing \cup (Ended \ {"session"})
  /\ pc[c] \in Undoing => HoldsOrder(c)
  /\ pc[c] = "release" => job[c].item = order[job[c].order].item
  /\ pc[c] \in Undoing \ {"release"} =>
       \/ /\ job[c].item = order[job[c].order].item
          /\ job[c].item \in Items
          /\ owner[job[c].item] = c
          /\ HeldFor(job[c].item, job[c].order)
       \/ job[c].item = NoOne /\ LineIsDead(job[c].order)
  (* ... has credited the refund *)
  /\ pc[c] \in {"giveback", "commit"} /\ order[job[c].order].spent > 0 =>
       /\ owner[BuyerOf[job[c].order]] = c
       /\ job[c].balance = balance[BuyerOf[job[c].order]]
  (* ... has given the voucher's use back *)
  /\ pc[c] = "commit" /\ job[c].order \in WithVoucher => owner[Voucher] = c

AllSound ==
  /\ \A r \in Requests : SoundRequest(r)
  /\ \A p \in Payments : SoundPayment(p)
  /\ \A c \in Cancels : SoundCancel(c)

(* A cart that was bought is empty. *)
BoughtCartsAreEmpty ==
  /\ \A r \in FromCart : Exists(r) => full[BuyerOf[r]] = FALSE
  /\ OneOrderPerCart

(* Only an order that carried the voucher is its buyer's redemption.       *)
RedeemersCarryIt ==
  \A b \in Buyers : redeemed[b] # NoOne => redeemed[b] \in WithVoucher

IInv == /\ TypeOK /\ AllSound /\ ItemsMatchOrders /\ WalletIsItsJournal
        /\ UsesAreCounted /\ BoughtCartsAreEmpty /\ RedeemersCarryIt

(* What a step of w leaves alone: what the others know and hold, and every *)
(* row that another transaction holds.  The admin's steps are those of     *)
(* NoOne.                                                                  *)
Elsewhere(w) ==
  /\ \A v \in Workers : v # w => pc'[v] = pc[v] /\ job'[v] = job[v]
  /\ \A x \in Rows, v \in Workers : v # w /\ owner[x] = v => owner'[x] = v
  /\ \A i \in Items : stock'[i] = stock[i] \/ owner[i] \in {w, NoOne}
  /\ \A i \in Items, o \in Requests :
       stock[i].status = "dead" /\ order[o].item = i =>
         stock'[i].status = "dead"
  /\ \A o \in Requests :
       \/ order'[o] = order[o]
       \/ o = w /\ ~Exists(o)
       \/ owner[o] = w /\ Open(o)
  /\ \A b \in Buyers : balance'[b] = balance[b] \/ owner[b] = w
  /\ (used' = used /\ redeemed' = redeemed) \/ owner[Voucher] = w
  /\ \A b \in Buyers : full'[b] = full[b] \/ owner[Cart(b)] = w

LocalTypes ==
  /\ owner \in [Rows -> Workers \cup {NoOne}]
  /\ sharers \in [Buyers -> SUBSET Workers]
  /\ pc \in [Workers -> Steps]
  /\ job \in [Workers -> JobType]

-----------------------------------------------------------------------------
(* Facts about the constants and the rows. *)

LEMMA RowsOf ==
  /\ \A r \in Requests : r \in Workers /\ r \in Rows /\ BuyerOf[r] \in Buyers
  /\ \A p \in Payments : p \in Workers /\ p \notin Requests
  /\ \A c \in Cancels : c \in Workers /\ c \notin Requests /\ c \notin Payments
  /\ \A i \in Items : i \in Rows /\ i # NoOne
  /\ \A b \in Buyers : b \in Rows /\ Cart(b) \in Rows
  /\ Voucher \in Rows
  /\ NoOne \notin Workers
BY CheckoutAssumption DEF Workers, Rows

LEMMA Types ==
  ASSUME TypeOK
  PROVE  /\ \A o \in Requests : order[o] \in OrderType
         /\ \A o \in Requests : order[o].item \in Items \cup {NoOne}
         /\ \A o \in Requests : order[o].spent \in Nat
         /\ \A i \in Items : stock[i] \in StockType
         /\ \A i \in Items : stock[i].holder \in Requests \cup {NoOne}
         /\ \A b \in Buyers : balance[b] \in Nat
         /\ \A w \in Workers : job[w] \in JobType
         /\ \A w \in Workers : /\ job[w].order \in Requests \cup {NoOne}
                               /\ job[w].item \in Items \cup {NoOne}
                               /\ job[w].seen \in Nat
                               /\ job[w].spend \in Nat
                               /\ job[w].balance \in Nat
<1>1. \A o \in Requests : order[o] \in OrderType
  BY DEF TypeOK
<1>2. \A i \in Items : stock[i] \in StockType
  BY DEF TypeOK
<1>3. \A w \in Workers : job[w] \in JobType
  BY DEF TypeOK
<1>4. \A j \in JobType : /\ j.order \in Requests \cup {NoOne}
                         /\ j.item \in Items \cup {NoOne}
                         /\ j.seen \in Nat /\ j.spend \in Nat
                         /\ j.balance \in Nat
  BY DEF JobType
<1>5. \A o \in OrderType : o.item \in Items \cup {NoOne} /\ o.spent \in Nat
  BY DEF OrderType
<1>6. \A s \in StockType : s.holder \in Requests \cup {NoOne}
  BY DEF StockType
<1>7. \A b \in Buyers : balance[b] \in Nat
  BY DEF TypeOK
<1> QED BY <1>1, <1>2, <1>3, <1>4, <1>5, <1>6, <1>7

-----------------------------------------------------------------------------
(* What a transaction has established is kept by everybody else's steps.   *)

LEMMA OtherRequests ==
  ASSUME IInv, NEW w, Elsewhere(w), NEW r \in Requests, r # w
  PROVE  SoundRequest(r)'
<1>0. /\ r \in Workers /\ BuyerOf[r] \in Buyers
      /\ TypeOK /\ SoundRequest(r)
  BY RowsOf DEF IInv, AllSound
<1>1. pc'[r] = pc[r] /\ job'[r] = job[r]
  BY <1>0 DEF Elsewhere
<1>2. pc[r] # "done" => order'[r] = order[r]
  BY <1>0 DEF Elsewhere, SoundRequest, Open
<1>3. r \in FromCart /\ pc[r] \in Working =>
        owner'[Cart(BuyerOf[r])] = r /\ full'[BuyerOf[r]] = TRUE
  BY <1>0, RowsOf DEF Elsewhere, SoundRequest
<1>4. pc[r] \in Placing =>
        /\ job[r].item \in Items
        /\ owner'[job[r].item] = r
        /\ stock'[job[r].item].status = "available"
  BY <1>0, RowsOf DEF Elsewhere, SoundRequest
<1>5. owner[BuyerOf[r]] = r =>
        /\ owner'[BuyerOf[r]] = r
        /\ balance'[BuyerOf[r]] = balance[BuyerOf[r]]
  BY <1>0, RowsOf DEF Elsewhere
<1>6. owner[Voucher] = r =>
        owner'[Voucher] = r /\ used' = used /\ redeemed' = redeemed
  BY <1>0, RowsOf DEF Elsewhere
<1> QED BY <1>0, <1>1, <1>2, <1>3, <1>4, <1>5, <1>6 DEF SoundRequest

LEMMA OtherOrders ==
  ASSUME IInv, NEW w, Elsewhere(w), NEW v \in Workers, v # w,
         v \notin Requests, HoldsOrder(v)
  PROVE  /\ job[v].order \in Requests
         /\ job'[v] = job[v]
         /\ HoldsOrder(v)'
         /\ order'[job[v].order] = order[job[v].order]
         /\ LineIsDead(job[v].order) => LineIsDead(job[v].order)'
         /\ job[v].item \in Items /\ owner[job[v].item] = v =>
              /\ stock'[job[v].item] = stock[job[v].item]
              /\ owner'[job[v].item] = v
<1> DEFINE o == job[v].order
<1>1. o \in Requests /\ owner[o] = v /\ Open(o) /\ v # NoOne
  BY RowsOf DEF HoldsOrder
<1>2. job'[v] = job[v]
  BY DEF Elsewhere
<1>3. order'[o] = order[o]
  BY <1>1 DEF Elsewhere, Open, Exists
<1>4. owner'[o] = v
  BY <1>1, RowsOf DEF Elsewhere
<1>5. HoldsOrder(v)'
  BY <1>1, <1>2, <1>3, <1>4 DEF HoldsOrder, Open
<1>6. LineIsDead(o) => LineIsDead(o)'
  BY <1>1, <1>3 DEF LineIsDead, Elsewhere
<1>7. job[v].item \in Items /\ owner[job[v].item] = v =>
        stock'[job[v].item] = stock[job[v].item] /\ owner'[job[v].item] = v
  BY <1>1, RowsOf DEF Elsewhere
<1> QED BY <1>1, <1>2, <1>3, <1>5, <1>6, <1>7

LEMMA OtherPayments ==
  ASSUME IInv, NEW w, Elsewhere(w), NEW p \in Payments, p # w
  PROVE  SoundPayment(p)'
<1>0. p \in Workers /\ p \notin Requests /\ SoundPayment(p)
  BY RowsOf DEF IInv, AllSound
<1>1. pc'[p] = pc[p] /\ job'[p] = job[p]
  BY <1>0 DEF Elsewhere
<1>2. CASE pc[p] \notin {"sell", "substitute", "commit"}
  BY <1>0, <1>1, <1>2 DEF SoundPayment, Ended
<1>3. CASE pc[p] \in {"sell", "substitute", "commit"}
  <2>1. HoldsOrder(p)
    BY <1>0, <1>3 DEF SoundPayment
  <2>2. /\ HoldsOrder(p)'
        /\ order'[job[p].order] = order[job[p].order]
        /\ LineIsDead(job[p].order) => LineIsDead(job[p].order)'
        /\ job[p].item \in Items /\ owner[job[p].item] = p =>
             /\ stock'[job[p].item] = stock[job[p].item]
             /\ owner'[job[p].item] = p
    BY <1>0, <2>1, OtherOrders
  <2>3. pc[p] = "commit" => job[p].item \in Items /\ owner[job[p].item] = p
    BY <1>0 DEF SoundPayment
  <2>4. HeldFor(job[p].item, job[p].order) /\ pc[p] = "commit" =>
          HeldFor(job[p].item, job[p].order)'
    BY <1>1, <2>2, <2>3 DEF HeldFor
  <2>6. pc[p] = "substitute" => LineIsDead(job[p].order)'
    BY <1>0, <2>2 DEF SoundPayment
  <2>7. pc[p] = "commit" =>
          \/ /\ job[p].item = order'[job[p].order].item
             /\ HeldFor(job[p].item, job[p].order)'
          \/ /\ stock'[job[p].item].status = "available"
             /\ LineIsDead(job[p].order)'
    BY <1>0, <2>2, <2>3, <2>4 DEF SoundPayment
  <2>8. pc[p] = "sell" => job'[p].item = order'[job'[p].order].item
    BY <1>0, <1>1, <2>2 DEF SoundPayment
  <2> QED
    BY <1>1, <1>3, <2>2, <2>3, <2>6, <2>7, <2>8 DEF SoundPayment
<1> QED BY <1>2, <1>3

LEMMA OtherCancels ==
  ASSUME IInv, NEW w, Elsewhere(w), NEW c \in Cancels, c # w
  PROVE  SoundCancel(c)'
<1>0. c \in Workers /\ c \notin Requests /\ SoundCancel(c)
  BY RowsOf DEF IInv, AllSound
<1>1. pc'[c] = pc[c] /\ job'[c] = job[c]
  BY <1>0 DEF Elsewhere
<1>2. CASE pc[c] \notin Undoing
  BY <1>0, <1>1, <1>2 DEF SoundCancel, Ended, Undoing
<1>3. CASE pc[c] \in Undoing
  <2>1. HoldsOrder(c)
    BY <1>0, <1>3 DEF SoundCancel
  <2>2. /\ HoldsOrder(c)'
        /\ job[c].order \in Requests
        /\ order'[job[c].order] = order[job[c].order]
        /\ LineIsDead(job[c].order) => LineIsDead(job[c].order)'
        /\ job[c].item \in Items /\ owner[job[c].item] = c =>
             /\ stock'[job[c].item] = stock[job[c].item]
             /\ owner'[job[c].item] = c
    BY <1>0, <2>1, OtherOrders
  <2>3. pc[c] \in Undoing \ {"release"} =>
          \/ /\ job[c].item = order'[job[c].order].item
             /\ job[c].item \in Items
             /\ owner'[job[c].item] = c
             /\ HeldFor(job[c].item, job[c].order)'
          \/ job[c].item = NoOne /\ LineIsDead(job[c].order)'
    BY <1>0, <1>1, <2>2 DEF SoundCancel, HeldFor
  <2>4. BuyerOf[job[c].order] \in Buyers
    BY <2>2, RowsOf
  <2>5. owner[BuyerOf[job[c].order]] = c =>
          /\ owner'[BuyerOf[job[c].order]] = c
          /\ balance'[BuyerOf[job[c].order]] = balance[BuyerOf[job[c].order]]
    BY <1>0, <2>4, RowsOf DEF Elsewhere
  <2>6. owner[Voucher] = c => owner'[Voucher] = c
    BY <1>0, RowsOf DEF Elsewhere
  <2> QED
    BY <1>0, <1>1, <1>3, <2>2, <2>3, <2>5, <2>6
       DEF SoundCancel, HeldFor, LineIsDead
<1> QED BY <1>2, <1>3

(* A step of w before its commit changes nothing that is committed, so it  *)
(* only has to leave w sound.                                              *)
LEMMA Progress ==
  ASSUME IInv, NEW w \in Workers, Elsewhere(w), LocalTypes',
         UNCHANGED committed,
         w \in Requests => SoundRequest(w)',
         w \in Payments => SoundPayment(w)',
         w \in Cancels => SoundCancel(w)'
  PROVE  IInv'
<1>1. TypeOK'
  BY DEF IInv, TypeOK, LocalTypes, committed
<1>2. AllSound'
  BY OtherRequests, OtherPayments, OtherCancels DEF AllSound
<1>3. ItemsMatchOrders' /\ UsesAreCounted' /\ RedeemersCarryIt'
  BY DEF IInv, ItemsMatchOrders, UsesAreCounted, RedeemersCarryIt, committed,
         Open
<1>4. WalletIsItsJournal'
  BY DEF IInv, WalletIsItsJournal, committed
<1>5. BoughtCartsAreEmpty'
  BY DEF IInv, BoughtCartsAreEmpty, OneOrderPerCart, Exists, committed
<1> QED BY <1>1, <1>2, <1>3, <1>4, <1>5 DEF IInv

LEMMA EndShape ==
  ASSUME TypeOK, NEW w \in Workers, NEW how \in Steps, End(w, how)
  PROVE  /\ LocalTypes'
         /\ pc'[w] = how /\ job'[w] = NoJob
         /\ \A v \in Workers : v # w => pc'[v] = pc[v] /\ job'[v] = job[v]
         /\ \A x \in Rows, v \in Workers : v # w /\ owner[x] = v =>
              owner'[x] = v
<1>1. NoJob \in JobType
  BY DEF NoJob, Started, JobType
<1>2. owner' \in [Rows -> Workers \cup {NoOne}]
  BY DEF TypeOK, End
<1>3. sharers' \in [Buyers -> SUBSET Workers]
  BY DEF TypeOK, End
<1>4. pc' \in [Workers -> Steps] /\ job' \in [Workers -> JobType]
  BY <1>1 DEF TypeOK, End
<1> QED BY <1>2, <1>3, <1>4 DEF TypeOK, LocalTypes, End

LEMMA RollbackKeeps ==
  ASSUME IInv, NEW w \in Workers, Rollback(w), pc[w] \notin {"done", "idle"}
  PROVE  IInv'
<1>1. /\ LocalTypes'
      /\ pc'[w] = "rolledback"
      /\ \A v \in Workers : v # w => pc'[v] = pc[v] /\ job'[v] = job[v]
      /\ \A x \in Rows, v \in Workers : v # w /\ owner[x] = v =>
           owner'[x] = v
  BY EndShape DEF IInv, Rollback, Steps
<1>2. Elsewhere(w)
  BY <1>1 DEF Elsewhere, Rollback, committed
<1>3. w \in Requests => SoundRequest(w)'
  BY <1>1 DEF IInv, AllSound, SoundRequest, Rollback, committed, Ended,
              Working, Placing
<1>4. w \in Payments => SoundPayment(w)'
  BY <1>1 DEF SoundPayment, Ended
<1>5. w \in Cancels => SoundCancel(w)'
  BY <1>1 DEF SoundCancel, Ended, Undoing
<1> QED BY <1>1, <1>2, <1>3, <1>4, <1>5, Progress DEF Rollback

-----------------------------------------------------------------------------
(* Steps before the commit. *)

LEMMA JobUpdates ==
  /\ \A o \in Requests, i \in Items \cup {NoOne}, n \in Nat :
       /\ Started(o, i, n) \in JobType
       /\ Started(o, i, n).order = o /\ Started(o, i, n).item = i
       /\ Started(o, i, n).seen = n
  /\ \A j \in JobType, i \in Items \cup {NoOne} :
       LET new == [j EXCEPT !.item = i]
       IN  /\ new \in JobType /\ new.item = i /\ new.order = j.order
           /\ new.spend = j.spend /\ new.balance = j.balance
  /\ \A j \in JobType, n \in Nat :
       LET new == [j EXCEPT !.spend = n]
       IN  /\ new \in JobType /\ new.spend = n /\ new.order = j.order
           /\ new.item = j.item /\ new.balance = j.balance
  /\ \A j \in JobType, n \in Nat :
       LET new == [j EXCEPT !.balance = n]
       IN  /\ new \in JobType /\ new.balance = n /\ new.order = j.order
           /\ new.item = j.item /\ new.spend = j.spend
<1>1. \A o \in Requests, i \in Items \cup {NoOne}, n \in Nat :
        /\ Started(o, i, n) \in JobType
        /\ Started(o, i, n).order = o /\ Started(o, i, n).item = i
        /\ Started(o, i, n).seen = n
  BY DEF Started, JobType
<1>2. \A j \in JobType, i \in Items \cup {NoOne} :
        LET new == [j EXCEPT !.item = i]
        IN  /\ new \in JobType /\ new.item = i /\ new.order = j.order
            /\ new.spend = j.spend /\ new.balance = j.balance
  BY DEF JobType
<1>3. \A j \in JobType, n \in Nat :
        LET new == [j EXCEPT !.spend = n]
        IN  /\ new \in JobType /\ new.spend = n /\ new.order = j.order
            /\ new.item = j.item /\ new.balance = j.balance
  BY DEF JobType
<1>4. \A j \in JobType, n \in Nat :
        LET new == [j EXCEPT !.balance = n]
        IN  /\ new \in JobType /\ new.balance = n /\ new.order = j.order
            /\ new.item = j.item /\ new.spend = j.spend
  BY DEF JobType
<1> QED BY <1>1, <1>2, <1>3, <1>4

LEMMA LocalStep ==
  ASSUME IInv, NEW w \in Workers, NEW step \in Steps, Goto(w, step),
         NEW j \in JobType, Note(w, j) \/ (job' = job /\ j = job[w]),
         \/ owner' = owner
         \/ \E x \in Rows : owner[x] = NoOne /\ Lock(w, x),
         sharers' \in [Buyers -> SUBSET Workers],
         UNCHANGED committed
  PROVE  /\ Elsewhere(w) /\ LocalTypes'
         /\ pc'[w] = step /\ job'[w] = j
         /\ \A x \in Rows : owner[x] = w => owner'[x] = w
<1>1. /\ pc' \in [Workers -> Steps] /\ pc'[w] = step
      /\ \A v \in Workers : v # w => pc'[v] = pc[v]
  BY DEF IInv, TypeOK, Goto
<1>2. /\ job' \in [Workers -> JobType] /\ job'[w] = j
      /\ \A v \in Workers : v # w => job'[v] = job[v]
  BY DEF IInv, TypeOK, Note
<1>3. /\ owner' \in [Rows -> Workers \cup {NoOne}]
      /\ \A x \in Rows : owner[x] # NoOne => owner'[x] = owner[x]
  BY DEF IInv, TypeOK, Lock
<1>4. LocalTypes'
  BY <1>1, <1>2, <1>3 DEF LocalTypes
<1>5. Elsewhere(w)
  BY <1>1, <1>2, <1>3, RowsOf DEF Elsewhere, committed
<1> QED BY <1>1, <1>2, <1>3, <1>4, <1>5, RowsOf

LEMMA LockTakes ==
  ASSUME TypeOK, NEW w, NEW x \in Rows, Lock(w, x)
  PROVE  owner'[x] = w
BY DEF TypeOK, Lock

LEMMA ReadSessionKeeps ==
  ASSUME IInv, NEW r \in Requests, ReadSession(r) PROVE IInv'
<1> DEFINE j == Started(r, NoOne, balance[BuyerOf[r]])
<1>0. r \in Workers /\ r \notin Payments /\ r \notin Cancels
      /\ SoundRequest(r) /\ TypeOK /\ "session" \in Steps
  BY RowsOf DEF IInv, AllSound, Steps
<1>1. j \in JobType
  BY <1>0, RowsOf, Types, JobUpdates
<1>2. /\ Elsewhere(r) /\ LocalTypes' /\ UNCHANGED committed
      /\ pc'[r] = "session"
  BY <1>0, <1>1, LocalStep DEF ReadSession, locks, TypeOK
<1>3. SoundRequest(r)'
  BY <1>0, <1>2
     DEF SoundRequest, Ended, Working, Placing, committed, ReadSession
<1> QED BY <1>0, <1>2, <1>3, Progress

LEMMA LockCartKeeps ==
  ASSUME IInv, NEW r \in Requests, LockCart(r) PROVE IInv'
<1> DEFINE x == Cart(BuyerOf[r])
<1>0. /\ r \in Workers /\ r \notin Payments /\ r \notin Cancels
      /\ SoundRequest(r) /\ TypeOK /\ "quote" \in Steps
      /\ x \in Rows /\ job[r] \in JobType
  BY RowsOf, Types DEF IInv, AllSound, Steps
<1>1. /\ owner[x] = NoOne /\ Lock(r, x) /\ full[BuyerOf[r]]
      /\ Goto(r, "quote") /\ UNCHANGED <<committed, sharers, job>>
  BY DEF LockCart
<1>2. /\ Elsewhere(r) /\ LocalTypes' /\ UNCHANGED committed
      /\ pc'[r] = "quote"
  BY <1>0, <1>1, LocalStep DEF TypeOK
<1>3. owner'[x] = r
  BY <1>0, <1>1, LockTakes
<1>4. full'[BuyerOf[r]] = TRUE
  BY <1>0, <1>1, RowsOf DEF committed, TypeOK
<1>5. SoundRequest(r)'
  BY <1>0, <1>2, <1>3, <1>4
     DEF SoundRequest, Working, Placing, committed, LockCart
<1> QED BY <1>0, <1>2, <1>5, Progress

LEMMA BeginDirectKeeps ==
  ASSUME IInv, NEW r \in Requests, BeginDirect(r) PROVE IInv'
<1>0. /\ r \in Workers /\ r \notin Payments /\ r \notin Cancels
      /\ SoundRequest(r) /\ TypeOK /\ "quote" \in Steps
      /\ job[r] \in JobType
  BY RowsOf, Types DEF IInv, AllSound, Steps
<1>2. /\ Elsewhere(r) /\ LocalTypes' /\ UNCHANGED committed
      /\ pc'[r] = "quote"
  BY <1>0, LocalStep DEF BeginDirect, TypeOK, locks
<1>3. SoundRequest(r)'
  BY <1>0, <1>2
     DEF SoundRequest, Working, Placing, committed, BeginDirect
<1> QED BY <1>0, <1>2, <1>3, Progress

LEMMA QuoteKeeps ==
  ASSUME IInv, NEW r \in Requests, Quote(r) PROVE IInv'
<1> DEFINE j == [job[r] EXCEPT !.spend = Spend(r)]
<1>0. /\ r \in Workers /\ r \notin Payments /\ r \notin Cancels
      /\ SoundRequest(r) /\ TypeOK /\ "insert" \in Steps
      /\ job[r] \in JobType
  BY RowsOf, Types DEF IInv, AllSound, Steps
<1>1. Spend(r) \in Nat
  BY <1>0, Types, CheckoutAssumption DEF Spend, Min2, Total
<1>2. j \in JobType
  BY <1>0, <1>1, JobUpdates
<1>3. /\ Elsewhere(r) /\ LocalTypes' /\ UNCHANGED committed
      /\ pc'[r] = "insert" /\ owner' = owner
  BY <1>0, <1>2, LocalStep DEF Quote, TypeOK, locks
<1>4. SoundRequest(r)'
  BY <1>0, <1>3 DEF SoundRequest, Working, Placing, committed, Quote
<1> QED BY <1>0, <1>3, <1>4, Progress

LEMMA InsertOrderKeeps ==
  ASSUME IInv, NEW r \in Requests, InsertOrder(r) PROVE IInv'
<1>0. /\ r \in Workers /\ r \notin Payments /\ r \notin Cancels
      /\ SoundRequest(r) /\ TypeOK /\ "reserve" \in Steps
      /\ job[r] \in JobType
  BY RowsOf, Types DEF IInv, AllSound, Steps
<1>1. sharers' \in [Buyers -> SUBSET Workers]
  BY <1>0, RowsOf DEF InsertOrder, TypeOK
<1>2. /\ Elsewhere(r) /\ LocalTypes' /\ UNCHANGED committed
      /\ pc'[r] = "reserve" /\ owner' = owner
  BY <1>0, <1>1, LocalStep DEF InsertOrder
<1>3. SoundRequest(r)'
  BY <1>0, <1>2 DEF SoundRequest, Working, Placing, committed, InsertOrder
<1> QED BY <1>0, <1>2, <1>3, Progress

LEMMA ReserveKeeps ==
  ASSUME IInv, NEW r \in Requests, Reserve(r) PROVE IInv'
<1>0. /\ r \in Workers /\ r \notin Payments /\ r \notin Cancels
      /\ SoundRequest(r) /\ TypeOK /\ pc[r] = "reserve"
      /\ job[r] \in JobType /\ job[r].spend \in Nat
  BY RowsOf, Types DEF IInv, AllSound, Reserve
<1>1. PICK i \in Items :
        Free(i) /\ Lock(r, i) /\ Note(r, [job[r] EXCEPT !.item = i])
  BY DEF Reserve
<1> DEFINE j == [job[r] EXCEPT !.item = i]
<1>2. j \in JobType /\ j.item = i /\ j.spend = job[r].spend
  BY <1>0, JobUpdates
<1>3. AfterReserve(r) \in Steps /\ AfterReserve(r) \in Placing
  BY DEF AfterReserve, AfterDebit, AfterRedeem, Steps, Placing
<1>4. i \in Rows /\ owner[i] = NoOne /\ stock[i].status = "available"
  BY <1>1, RowsOf DEF Free
<1>5. /\ Goto(r, AfterReserve(r)) /\ UNCHANGED committed
      /\ sharers' \in [Buyers -> SUBSET Workers]
  BY <1>0 DEF Reserve, TypeOK
<1>6. /\ Elsewhere(r) /\ LocalTypes'
      /\ pc'[r] = AfterReserve(r) /\ job'[r] = j
      /\ \A x \in Rows : owner[x] = r => owner'[x] = r
  BY <1>0, <1>1, <1>2, <1>3, <1>4, <1>5, LocalStep
<1>7. owner'[i] = r
  BY <1>0, <1>1, <1>4, LockTakes
<1>8. /\ pc'[r] = "commit" =>
           ~(job[r].spend > 0) /\ ~(r \in WithVoucher)
      /\ pc'[r] = "redeem" =>
           r \in WithVoucher /\ (r \in FromCart => ~(job[r].spend > 0))
      /\ pc'[r] = "debit" =>
           (r \notin FromCart => r \notin WithVoucher)
  BY <1>6 DEF AfterReserve, AfterDebit, AfterRedeem, Redeems
<1>9. r \in FromCart =>
        owner'[Cart(BuyerOf[r])] = r /\ full'[BuyerOf[r]] = TRUE
  BY <1>0, <1>5, <1>6, RowsOf DEF SoundRequest, Working, committed
<1>10. SoundRequest(r)'
  <2>1. pc'[r] \in Placing /\ pc'[r] \in Working /\ pc'[r] # "done"
    BY <1>3, <1>6 DEF Placing, Working
  <2>2. order'[r].status = "none" /\ order'[r].item = NoOne
    BY <1>0, <1>5 DEF SoundRequest, committed
  <2>3. /\ job'[r].item \in Items /\ owner'[job'[r].item] = r
        /\ stock'[job'[r].item].status = "available"
    BY <1>2, <1>4, <1>5, <1>6, <1>7 DEF committed
  <2> QED BY <1>2, <1>6, <1>8, <1>9, <2>1, <2>2, <2>3 DEF SoundRequest
<1> QED BY <1>0, <1>5, <1>6, <1>10, Progress

LEMMA DebitKeeps ==
  ASSUME IInv, NEW r \in Requests, Debit(r) PROVE IInv'
<1> DEFINE b == BuyerOf[r]
           j == [job[r] EXCEPT !.balance = balance[b]]
<1>0. /\ r \in Workers /\ r \notin Payments /\ r \notin Cancels
      /\ SoundRequest(r) /\ TypeOK /\ pc[r] = "debit"
      /\ job[r] \in JobType /\ balance[b] \in Nat /\ b \in Rows
  BY RowsOf, Types DEF IInv, AllSound, Debit
<1>1. /\ owner[b] = NoOne /\ Lock(r, b) /\ Note(r, j)
      /\ Goto(r, AfterDebit(r)) /\ UNCHANGED committed
      /\ sharers' \in [Buyers -> SUBSET Workers]
      /\ job[r].spend <= balance[b]
  BY <1>0 DEF Debit, LockWallet, UserRowFree, TypeOK
<1>2. /\ j \in JobType /\ j.item = job[r].item /\ j.spend = job[r].spend
      /\ j.balance = balance[b]
  BY <1>0, JobUpdates
<1>3. AfterDebit(r) \in Steps /\ AfterDebit(r) \in {"redeem", "commit"}
  BY DEF AfterDebit, Steps
<1>4. /\ Elsewhere(r) /\ LocalTypes'
      /\ pc'[r] = AfterDebit(r) /\ job'[r] = j
      /\ \A x \in Rows : owner[x] = r => owner'[x] = r
  BY <1>0, <1>1, <1>2, <1>3, LocalStep
<1>5. owner'[b] = r
  BY <1>0, <1>1, LockTakes
<1>6. pc'[r] = "commit" => ~(r \in WithVoucher /\ r \in FromCart)
  BY <1>4 DEF AfterDebit, Redeems
<1>7. SoundRequest(r)'
  <2>1. pc'[r] \in Placing /\ pc'[r] \in Working /\ pc'[r] # "done"
    BY <1>3, <1>4 DEF Placing, Working
  <2>2. order'[r].status = "none" /\ order'[r].item = NoOne
    BY <1>0, <1>1 DEF SoundRequest, committed
  <2>3. r \in FromCart =>
          owner'[Cart(b)] = r /\ full'[b] = TRUE
    BY <1>0, <1>1, <1>4, RowsOf DEF SoundRequest, Working, committed
  <2>4. /\ job'[r].item \in Items /\ owner'[job'[r].item] = r
        /\ stock'[job'[r].item].status = "available"
    BY <1>0, <1>1, <1>2, <1>4, RowsOf DEF SoundRequest, Placing, committed
  <2>5. /\ job'[r].balance = balance'[b]
        /\ job'[r].spend <= job'[r].balance
    BY <1>1, <1>2, <1>4 DEF committed
  <2>6. r \in WithVoucher /\ pc'[r] = "commit" =>
          owner'[Voucher] = r /\ used' < Limit /\ redeemed'[b] = NoOne
    BY <1>0, <1>1, <1>4, <1>6, RowsOf DEF SoundRequest, committed
  <2> QED BY <1>3, <1>4, <1>5, <2>1, <2>2, <2>3, <2>4, <2>5, <2>6
          DEF SoundRequest
<1> QED BY <1>0, <1>1, <1>4, <1>7, Progress

LEMMA RedeemKeeps ==
  ASSUME IInv, NEW r \in Requests, Redeem(r) PROVE IInv'
<1> DEFINE b == BuyerOf[r]
<1>0. /\ r \in Workers /\ r \notin Payments /\ r \notin Cancels
      /\ SoundRequest(r) /\ TypeOK /\ pc[r] = "redeem"
      /\ job[r] \in JobType /\ Voucher \in Rows
  BY RowsOf, Types DEF IInv, AllSound, Redeem
<1>1. /\ owner[Voucher] = NoOne /\ Lock(r, Voucher)
      /\ Goto(r, AfterRedeem(r)) /\ UNCHANGED committed
      /\ job' = job /\ sharers' \in [Buyers -> SUBSET Workers]
      /\ used < Limit /\ redeemed[b] = NoOne
  BY <1>0 DEF Redeem, MayRedeem, TypeOK
<1>2. AfterRedeem(r) \in Steps /\ AfterRedeem(r) \in {"debit", "commit"}
  BY DEF AfterRedeem, Steps
<1>3. /\ Elsewhere(r) /\ LocalTypes'
      /\ pc'[r] = AfterRedeem(r) /\ job'[r] = job[r]
      /\ \A x \in Rows : owner[x] = r => owner'[x] = r
  BY <1>0, <1>1, <1>2, LocalStep
<1>4. owner'[Voucher] = r
  BY <1>0, <1>1, LockTakes
<1>5. pc'[r] = "commit" => ~(job[r].spend > 0) \/ r \in FromCart
  BY <1>3 DEF AfterRedeem
<1>6. SoundRequest(r)'
  <2>1. pc'[r] \in Placing /\ pc'[r] \in Working /\ pc'[r] # "done"
        /\ pc'[r] # "redeem"
    BY <1>2, <1>3 DEF Placing, Working
  <2>2. order'[r].status = "none" /\ order'[r].item = NoOne
    BY <1>0, <1>1 DEF SoundRequest, committed
  <2>3. r \in FromCart =>
          owner'[Cart(b)] = r /\ full'[b] = TRUE
    BY <1>0, <1>1, <1>3, RowsOf DEF SoundRequest, Working, committed
  <2>4. /\ job'[r].item \in Items /\ owner'[job'[r].item] = r
        /\ stock'[job'[r].item].status = "available"
    BY <1>0, <1>1, <1>3, RowsOf DEF SoundRequest, Placing, committed
  <2>5. job'[r].spend > 0 /\ pc'[r] = "commit" =>
          /\ owner'[b] = r
          /\ job'[r].balance = balance'[b]
          /\ job'[r].spend <= job'[r].balance
    BY <1>0, <1>1, <1>3, <1>5, RowsOf DEF SoundRequest, committed
  <2>6. used' < Limit /\ redeemed'[b] = NoOne
    BY <1>1 DEF committed
  <2> QED BY <1>4, <2>1, <2>2, <2>3, <2>4, <2>5, <2>6 DEF SoundRequest
<1> QED BY <1>0, <1>1, <1>3, <1>6, Progress

LEMMA OpenOrders ==
  ASSUME IInv, NEW o \in Requests, Open(o)
  PROVE  /\ order[o].item \in Items
         /\ stock[order[o].item].holder = o
         /\ stock[order[o].item].status \in {"reserved", "dead"}
BY DEF IInv, ItemsMatchOrders

LEMMA ClaimOrderKeeps ==
  ASSUME IInv, NEW p \in Payments, NEW o \in Requests, ClaimOrder(p, o)
  PROVE  IInv'
<1> DEFINE j == Started(o, order[o].item, 0)
<1>0. /\ p \in Workers /\ p \notin Requests /\ p \notin Cancels
      /\ TypeOK /\ "sell" \in Steps /\ o \in Rows
  BY RowsOf DEF IInv, Steps
<1>1. j \in JobType /\ j.order = o /\ j.item = order[o].item
  BY <1>0, Types, JobUpdates
<1>2. /\ owner[o] = NoOne /\ Open(o) /\ Lock(p, o) /\ Note(p, j)
      /\ Goto(p, "sell") /\ UNCHANGED committed
      /\ sharers' \in [Buyers -> SUBSET Workers]
  BY <1>0 DEF ClaimOrder, TypeOK
<1>3. /\ Elsewhere(p) /\ LocalTypes' /\ pc'[p] = "sell" /\ job'[p] = j
  BY <1>0, <1>1, <1>2, LocalStep
<1>4. owner'[o] = p
  BY <1>0, <1>2, LockTakes
<1>5. HoldsOrder(p)'
  BY <1>1, <1>2, <1>3, <1>4 DEF HoldsOrder, Open, committed
<1>6. SoundPayment(p)'
  BY <1>1, <1>2, <1>3, <1>5 DEF SoundPayment, committed
<1> QED BY <1>0, <1>2, <1>3, <1>6, Progress

LEMMA SellHeldKeeps ==
  ASSUME IInv, NEW p \in Payments, SellHeld(p) PROVE IInv'
<1> DEFINE i == job[p].item
           o == job[p].order
<1>0. /\ p \in Workers /\ p \notin Requests /\ p \notin Cancels
      /\ TypeOK /\ "commit" \in Steps /\ job[p] \in JobType
      /\ HoldsOrder(p) /\ i = order[o].item
  BY RowsOf, Types DEF IInv, AllSound, SoundPayment, SellHeld, Steps
<1>1. i \in Items /\ o \in Requests
  BY <1>0, OpenOrders DEF HoldsOrder
<1>2. /\ owner[i] = NoOne /\ Lock(p, i) /\ Goto(p, "commit")
      /\ UNCHANGED committed /\ job' = job /\ HeldFor(i, o)
      /\ sharers' \in [Buyers -> SUBSET Workers]
  BY <1>0 DEF SellHeld, TypeOK
<1>3. /\ Elsewhere(p) /\ LocalTypes' /\ pc'[p] = "commit"
      /\ \A x \in Rows : owner[x] = p => owner'[x] = p
  BY <1>0, <1>1, <1>2, RowsOf, LocalStep
<1>4. owner'[i] = p
  BY <1>0, <1>1, <1>2, RowsOf, LockTakes
<1>5. HoldsOrder(p)'
  BY <1>0, <1>1, <1>2, <1>3, RowsOf DEF HoldsOrder, Open, committed
<1>6. SoundPayment(p)'
  BY <1>0, <1>1, <1>2, <1>3, <1>4, <1>5
     DEF SoundPayment, HeldFor, committed
<1> QED BY <1>0, <1>2, <1>3, <1>6, Progress

LEMMA LostItKeeps ==
  ASSUME IInv, NEW p \in Payments, LostIt(p) PROVE IInv'
<1> DEFINE i == job[p].item
           o == job[p].order
<1>0. /\ p \in Workers /\ p \notin Requests /\ p \notin Cancels
      /\ TypeOK /\ "substitute" \in Steps /\ job[p] \in JobType
      /\ HoldsOrder(p) /\ i = order[o].item
  BY RowsOf, Types DEF IInv, AllSound, SoundPayment, LostIt, Steps
<1>1. LineIsDead(o)
  BY <1>0, OpenOrders DEF HoldsOrder, LineIsDead, LostIt, HeldFor
<1>2. /\ Elsewhere(p) /\ LocalTypes' /\ pc'[p] = "substitute"
      /\ owner' = owner /\ job' = job /\ UNCHANGED committed
  BY <1>0, LocalStep DEF LostIt, locks, TypeOK
<1>3. HoldsOrder(p)'
  BY <1>0, <1>2 DEF HoldsOrder, Open, committed
<1>4. SoundPayment(p)'
  BY <1>1, <1>2, <1>3 DEF SoundPayment, LineIsDead, committed
<1> QED BY <1>0, <1>2, <1>4, Progress

LEMMA SubstituteKeeps ==
  ASSUME IInv, NEW p \in Payments, Substitute(p) PROVE IInv'
<1> DEFINE o == job[p].order
<1>0. /\ p \in Workers /\ p \notin Requests /\ p \notin Cancels
      /\ TypeOK /\ "commit" \in Steps /\ job[p] \in JobType
      /\ HoldsOrder(p) /\ LineIsDead(o) /\ o \in Rows
  BY RowsOf, Types
     DEF IInv, AllSound, SoundPayment, Substitute, Steps, HoldsOrder
<1>1. PICK i \in Items :
        Free(i) /\ Lock(p, i) /\ Note(p, [job[p] EXCEPT !.item = i])
  BY DEF Substitute
<1> DEFINE j == [job[p] EXCEPT !.item = i]
<1>2. j \in JobType /\ j.item = i /\ j.order = o
  BY <1>0, JobUpdates
<1>3. i \in Rows /\ owner[i] = NoOne /\ stock[i].status = "available"
  BY <1>1, RowsOf DEF Free
<1>4. /\ Goto(p, "commit") /\ UNCHANGED committed
      /\ sharers' \in [Buyers -> SUBSET Workers]
  BY <1>0 DEF Substitute, TypeOK
<1>5. /\ Elsewhere(p) /\ LocalTypes' /\ pc'[p] = "commit" /\ job'[p] = j
      /\ \A x \in Rows : owner[x] = p => owner'[x] = p
  BY <1>0, <1>1, <1>2, <1>3, <1>4, LocalStep
<1>6. owner'[i] = p
  BY <1>0, <1>1, <1>3, LockTakes
<1>7. HoldsOrder(p)'
  BY <1>0, <1>2, <1>4, <1>5 DEF HoldsOrder, Open, committed
<1>9. SoundPayment(p)'
  <2>1. LineIsDead(job[p].order)'
    BY <1>0, <1>2, <1>4, <1>5 DEF LineIsDead, committed
  <2>2. stock'[job'[p].item].status = "available" /\ job'[p].item \in Items
        /\ owner'[job'[p].item] = p
    BY <1>2, <1>3, <1>4, <1>5, <1>6 DEF committed
  <2> QED BY <1>5, <1>7, <2>1, <2>2 DEF SoundPayment
<1> QED BY <1>0, <1>4, <1>5, <1>9, Progress

LEMMA LockOrderKeeps ==
  ASSUME IInv, NEW c \in Cancels, NEW o \in Requests, LockOrder(c, o)
  PROVE  IInv'
<1> DEFINE j == Started(o, order[o].item, 0)
<1>0. /\ c \in Workers /\ c \notin Requests /\ c \notin Payments
      /\ TypeOK /\ "release" \in Steps /\ o \in Rows
  BY RowsOf DEF IInv, Steps
<1>1. j \in JobType /\ j.order = o /\ j.item = order[o].item
  BY <1>0, Types, JobUpdates
<1>2. /\ owner[o] = NoOne /\ Open(o) /\ Lock(c, o) /\ Note(c, j)
      /\ Goto(c, "release") /\ UNCHANGED committed
      /\ sharers' \in [Buyers -> SUBSET Workers]
  BY <1>0 DEF LockOrder, TypeOK
<1>3. /\ Elsewhere(c) /\ LocalTypes' /\ pc'[c] = "release" /\ job'[c] = j
  BY <1>0, <1>1, <1>2, LocalStep
<1>4. owner'[o] = c
  BY <1>0, <1>2, LockTakes
<1>5. HoldsOrder(c)'
  BY <1>1, <1>2, <1>3, <1>4 DEF HoldsOrder, Open, committed
<1>6. SoundCancel(c)'
  BY <1>1, <1>2, <1>3, <1>5 DEF SoundCancel, Undoing, committed
<1> QED BY <1>0, <1>2, <1>3, <1>6, Progress

LEMMA AfterReleaseIs ==
  ASSUME NEW c
  PROVE  /\ AfterRelease(c) \in Steps
         /\ AfterRelease(c) \in {"refund", "giveback", "commit"}
         /\ AfterRelease(c) \in {"giveback", "commit"} =>
              ~(order[job[c].order].spent > 0)
         /\ AfterRelease(c) = "commit" => job[c].order \notin WithVoucher
BY DEF AfterRelease, AfterRefund, Steps

LEMMA ReleaseItemKeeps ==
  ASSUME IInv, NEW c \in Cancels, ReleaseItem(c) PROVE IInv'
<1> DEFINE i == job[c].item
           o == job[c].order
<1>0. /\ c \in Workers /\ c \notin Requests /\ c \notin Payments
      /\ TypeOK /\ job[c] \in JobType
      /\ HoldsOrder(c) /\ i = order[o].item
  BY RowsOf, Types
     DEF IInv, AllSound, SoundCancel, ReleaseItem, Undoing
<1>1. /\ i \in Items /\ o \in Requests /\ i \in Rows /\ o \in Rows
      /\ ~HeldFor(i, o) => LineIsDead(o)
  BY <1>0, OpenOrders, RowsOf DEF HoldsOrder, HeldFor, LineIsDead
<1>2. /\ Goto(c, AfterRelease(c)) /\ UNCHANGED committed
      /\ sharers' \in [Buyers -> SUBSET Workers]
      /\ owner[i] = NoOne
  BY <1>0 DEF ReleaseItem, TypeOK
<1>3. CASE HeldFor(i, o)
  <2>1. Lock(c, i) /\ job' = job
    BY <1>3 DEF ReleaseItem
  <2>2. /\ Elsewhere(c) /\ LocalTypes' /\ pc'[c] = AfterRelease(c)
        /\ \A x \in Rows : owner[x] = c => owner'[x] = c
    BY <1>0, <1>1, <1>2, <2>1, LocalStep, AfterReleaseIs
  <2>3. owner'[i] = c
    BY <1>0, <1>1, <2>1, LockTakes
  <2>4. HoldsOrder(c)'
    BY <1>0, <1>1, <1>2, <2>1, <2>2 DEF HoldsOrder, Open, committed
  <2>5. /\ job'[c].item = order'[job'[c].order].item
        /\ job'[c].item \in Items
        /\ owner'[job'[c].item] = c
        /\ HeldFor(job[c].item, job[c].order)'
    BY <1>0, <1>1, <1>2, <1>3, <2>1, <2>3 DEF HeldFor, committed
  <2>6. SoundCancel(c)'
    BY <1>2, <2>1, <2>2, <2>4, <2>5, AfterReleaseIs
       DEF SoundCancel, Undoing, committed
  <2> QED BY <1>0, <1>2, <2>2, <2>6, Progress
<1>4. CASE ~HeldFor(i, o)
  <2> DEFINE j == [job[c] EXCEPT !.item = NoOne]
  <2>1. Note(c, j) /\ owner' = owner
    BY <1>4 DEF ReleaseItem
  <2>2. j \in JobType /\ j.item = NoOne /\ j.order = o
    BY <1>0, JobUpdates
  <2>3. /\ Elsewhere(c) /\ LocalTypes' /\ pc'[c] = AfterRelease(c)
        /\ job'[c] = j
    BY <1>0, <1>2, <2>1, <2>2, LocalStep, AfterReleaseIs
  <2>4. HoldsOrder(c)'
    BY <1>0, <1>2, <2>1, <2>2, <2>3 DEF HoldsOrder, Open, committed
  <2>5. job'[c].item = NoOne /\ LineIsDead(job[c].order)'
    BY <1>1, <1>2, <1>4, <2>2, <2>3 DEF LineIsDead, committed
  <2>6. /\ pc'[c] \in {"giveback", "commit"} =>
             ~(order'[job'[c].order].spent > 0)
        /\ pc'[c] = "commit" => job'[c].order \notin WithVoucher
    BY <1>2, <2>2, <2>3, AfterReleaseIs DEF committed
  <2>7. pc'[c] \in {"refund", "giveback", "commit"}
    BY <2>3, AfterReleaseIs
  <2>8. SoundCancel(c)'
    BY <2>4, <2>5, <2>6, <2>7 DEF SoundCancel, Undoing
  <2> QED BY <1>0, <1>2, <2>3, <2>8, Progress
<1> QED BY <1>3, <1>4

(* What a cancellation knows of its order's unit survives a further lock.  *)
LEMMA UnitStillKnown ==
  ASSUME IInv, NEW c \in Cancels, SoundCancel(c),
         pc[c] \in Undoing \ {"release"},
         UNCHANGED committed,
         job'[c].order = job[c].order, job'[c].item = job[c].item,
         \A x \in Rows : owner[x] = c => owner'[x] = c
  PROVE  /\ HoldsOrder(c)'
         /\ \/ /\ job'[c].item = order'[job'[c].order].item
               /\ job'[c].item \in Items
               /\ owner'[job'[c].item] = c
               /\ HeldFor(job[c].item, job[c].order)'
            \/ job'[c].item = NoOne /\ LineIsDead(job[c].order)'
<1>1. HoldsOrder(c) /\ job[c].order \in Rows
  BY RowsOf DEF SoundCancel, HoldsOrder
<1>2. HoldsOrder(c)'
  BY <1>1 DEF HoldsOrder, Open, committed
<1>3. CASE job[c].item = NoOne /\ LineIsDead(job[c].order)
  BY <1>2, <1>3 DEF LineIsDead, committed
<1>4. CASE /\ job[c].item = order[job[c].order].item
           /\ job[c].item \in Items
           /\ owner[job[c].item] = c
           /\ HeldFor(job[c].item, job[c].order)
  BY <1>2, <1>4, RowsOf DEF HeldFor, committed
<1> QED BY <1>3, <1>4 DEF SoundCancel

LEMMA RefundKeeps ==
  ASSUME IInv, NEW c \in Cancels, Refund(c) PROVE IInv'
<1> DEFINE o == job[c].order
           b == BuyerOf[o]
           j == [job[c] EXCEPT !.balance = balance[b]]
<1>0. /\ c \in Workers /\ c \notin Requests /\ c \notin Payments
      /\ TypeOK /\ job[c] \in JobType /\ SoundCancel(c)
      /\ pc[c] = "refund" /\ o \in Requests
  BY RowsOf, Types
     DEF IInv, AllSound, SoundCancel, Refund, Undoing, HoldsOrder
<1>1. b \in Rows /\ balance[b] \in Nat
  BY <1>0, RowsOf, Types
<1>2. /\ owner[b] = NoOne /\ Lock(c, b) /\ Note(c, j)
      /\ Goto(c, AfterRefund(c)) /\ UNCHANGED committed
      /\ sharers' \in [Buyers -> SUBSET Workers]
  BY <1>0 DEF Refund, LockWallet, UserRowFree, TypeOK
<1>3. /\ j \in JobType /\ j.item = job[c].item /\ j.order = o
      /\ j.balance = balance[b]
  BY <1>0, <1>1, JobUpdates
<1>4. /\ AfterRefund(c) \in Steps
      /\ AfterRefund(c) \in {"giveback", "commit"}
      /\ AfterRefund(c) = "commit" => o \notin WithVoucher
  BY DEF AfterRefund, Steps
<1>5. /\ Elsewhere(c) /\ LocalTypes' /\ pc'[c] = AfterRefund(c)
      /\ job'[c] = j
      /\ \A x \in Rows : owner[x] = c => owner'[x] = c
  BY <1>0, <1>1, <1>2, <1>3, <1>4, LocalStep
<1>6. owner'[b] = c
  BY <1>0, <1>1, <1>2, LockTakes
<1>7. job'[c].order = o /\ job'[c].item = job[c].item
  BY <1>3, <1>5
<1>8. SoundCancel(c)'
  <2>1. /\ HoldsOrder(c)'
        /\ \/ /\ job'[c].item = order'[job'[c].order].item
              /\ job'[c].item \in Items
              /\ owner'[job'[c].item] = c
              /\ HeldFor(job[c].item, job[c].order)'
           \/ job'[c].item = NoOne /\ LineIsDead(job[c].order)'
    BY <1>0, <1>2, <1>5, <1>7, UnitStillKnown DEF Undoing
  <2>2. owner'[BuyerOf[job'[c].order]] = c
        /\ job'[c].balance = balance'[BuyerOf[job'[c].order]]
    BY <1>2, <1>3, <1>5, <1>6, <1>7 DEF committed
  <2>3. pc'[c] \in {"giveback", "commit"}
        /\ (pc'[c] = "commit" => job'[c].order \notin WithVoucher)
    BY <1>4, <1>5, <1>7
  <2> QED BY <2>1, <2>2, <2>3 DEF SoundCancel, Undoing
<1> QED BY <1>0, <1>2, <1>5, <1>8, Progress

LEMMA GiveBackUseKeeps ==
  ASSUME IInv, NEW c \in Cancels, GiveBackUse(c) PROVE IInv'
<1> DEFINE o == job[c].order
<1>0. /\ c \in Workers /\ c \notin Requests /\ c \notin Payments
      /\ TypeOK /\ job[c] \in JobType /\ SoundCancel(c)
      /\ pc[c] = "giveback" /\ o \in Requests /\ Voucher \in Rows
      /\ BuyerOf[o] \in Rows /\ "commit" \in Steps
  BY RowsOf, Types
     DEF IInv, AllSound, SoundCancel, GiveBackUse, Undoing, HoldsOrder, Steps
<1>1. /\ owner[Voucher] = NoOne /\ Lock(c, Voucher)
      /\ Goto(c, "commit") /\ UNCHANGED committed /\ job' = job
      /\ sharers' \in [Buyers -> SUBSET Workers]
  BY <1>0 DEF GiveBackUse, TypeOK
<1>2. /\ Elsewhere(c) /\ LocalTypes' /\ pc'[c] = "commit"
      /\ \A x \in Rows : owner[x] = c => owner'[x] = c
  BY <1>0, <1>1, LocalStep
<1>3. owner'[Voucher] = c
  BY <1>0, <1>1, LockTakes
<1>4. SoundCancel(c)'
  <2>1. /\ HoldsOrder(c)'
        /\ \/ /\ job'[c].item = order'[job'[c].order].item
              /\ job'[c].item \in Items
              /\ owner'[job'[c].item] = c
              /\ HeldFor(job[c].item, job[c].order)'
           \/ job'[c].item = NoOne /\ LineIsDead(job[c].order)'
    BY <1>0, <1>1, <1>2, UnitStillKnown DEF Undoing
  <2>2. order'[job'[c].order].spent > 0 =>
          /\ owner'[BuyerOf[job'[c].order]] = c
          /\ job'[c].balance = balance'[BuyerOf[job'[c].order]]
    BY <1>0, <1>1, <1>2 DEF SoundCancel, committed
  <2> QED BY <1>2, <1>3, <2>1, <2>2 DEF SoundCancel, Undoing
<1> QED BY <1>0, <1>1, <1>2, <1>4, Progress

-----------------------------------------------------------------------------
(* What the commits write. *)

(* A movement written from the balance it read keeps the journal's sums.   *)
LEMMA MoveWalletKeeps ==
  ASSUME TypeOK, WalletIsItsJournal, NEW b \in Buyers, NEW o \in Requests,
         NEW reason \in {"order_payment", "order_refund"}, NEW delta \in Int,
         balance[b] + delta \in Nat,
         MoveWallet(b, o, reason, delta, balance[b])
  PROVE  /\ WalletIsItsJournal'
         /\ balance' \in [Buyers -> Nat]
         /\ journal' \in [Buyers -> Seq(MovementType)]
         /\ \A c \in Buyers : c # b => balance'[c] = balance[c]
<1> DEFINE m == [order |-> o, reason |-> reason, delta |-> delta,
                 after |-> balance[b] + delta]
<1>1. m \in MovementType /\ m.delta = delta /\ m.after = balance[b] + delta
  BY DEF MovementType
<1>2. journal \in [Buyers -> Seq(MovementType)] /\ balance \in [Buyers -> Nat]
  BY DEF TypeOK
<1>3. journal[b] \in Seq(MovementType)
  BY <1>2
<1> DEFINE new == Append(journal[b], m)
           n == Len(journal[b])
<1>4. /\ new \in Seq(MovementType)
      /\ Len(new) = n + 1 /\ n \in Nat
      /\ \A k \in 1..n : new[k] = journal[b][k]
      /\ new[n + 1] = m
  <2>1. n \in Nat
    BY <1>3
  <2> HIDE DEF m
  <2> QED BY <1>1, <1>3, <2>1, AppendProperties
<1> HIDE DEF m, new
<1>5. /\ journal' = [journal EXCEPT ![b] = new]
      /\ balance' = [balance EXCEPT ![b] = balance[b] + delta]
  BY DEF MoveWallet, new, m
<1>6. /\ journal' \in [Buyers -> Seq(MovementType)] /\ journal'[b] = new
      /\ \A c \in Buyers : c # b => journal'[c] = journal[c]
  BY <1>2, <1>4, <1>5
<1>7. /\ balance' \in [Buyers -> Nat] /\ balance'[b] = balance[b] + delta
      /\ \A c \in Buyers : c # b => balance'[c] = balance[c]
  BY <1>2, <1>5
<1>8. /\ \A k \in 1..n :
           journal[b][k].after =
             (IF k - 1 = 0 THEN Credit ELSE journal[b][k - 1].after)
               + journal[b][k].delta
      /\ balance[b] = IF n = 0 THEN Credit ELSE journal[b][n].after
  BY DEF WalletIsItsJournal
<1>9. /\ \A k \in 1..(n + 1) :
           new[k].after =
             (IF k - 1 = 0 THEN Credit ELSE new[k - 1].after) + new[k].delta
      /\ balance[b] + delta = new[n + 1].after
  <2>1. ASSUME NEW k \in 1..n
        PROVE  new[k].after =
             (IF k - 1 = 0 THEN Credit ELSE new[k - 1].after) + new[k].delta
    <3>1. new[k] = journal[b][k] /\ (k - 1 # 0 => k - 1 \in 1..n)
      BY <1>4
    <3>2. k - 1 # 0 => new[k - 1] = journal[b][k - 1]
      BY <1>4, <3>1
    <3> QED BY <1>8, <3>1, <3>2
  <2>2. new[n + 1].after =
          (IF n = 0 THEN Credit ELSE new[n].after) + new[n + 1].delta
    <3>1. n # 0 => n \in 1..n
      BY <1>4
    <3>2. n # 0 => new[n] = journal[b][n]
      BY <1>4, <3>1
    <3> QED BY <1>1, <1>4, <1>8, <3>2
  <2>3. (n + 1) - 1 = n /\ \A k \in 1..(n + 1) : k \in 1..n \/ k = n + 1
    BY <1>4
  <2> QED BY <1>1, <1>4, <2>1, <2>2, <2>3
<1>10. WalletIsItsJournal'
  <2>1. ASSUME NEW c \in Buyers
        PROVE  /\ \A k \in 1..Len(journal'[c]) :
                    journal'[c][k].after =
                      (IF k - 1 = 0 THEN Credit ELSE journal'[c][k - 1].after)
                        + journal'[c][k].delta
               /\ balance'[c] = IF Len(journal'[c]) = 0 THEN Credit
                                ELSE journal'[c][Len(journal'[c])].after
    <3>1. CASE c = b
      <4>1. n + 1 # 0
        BY <1>4
      <4> QED BY <1>4, <1>6, <1>7, <1>9, <3>1, <4>1
    <3>2. CASE c # b
      BY <1>6, <1>7, <3>2 DEF WalletIsItsJournal
    <3> QED BY <3>1, <3>2
  <2> QED BY <2>1 DEF WalletIsItsJournal
<1> QED BY <1>6, <1>7, <1>10

(* The writers of stock and orders, one unit and one order at a time.      *)
LEMMA WritesOne ==
  ASSUME ItemsMatchOrders, TypeOK, NEW o \in Requests, NEW i \in Items,
         NEW oldItem,
         \* the order is new or its line points at oldItem
         order[o].item = oldItem,
         order[o].status \in {"none", "pending"},
         \* the unit is free or held for the order
         stock[i].status = "available" \/ (HeldFor(i, o) /\ i = oldItem),
         oldItem # i /\ oldItem \in Items => stock[oldItem].status = "dead",
         \A s \in Requests : s # o => order'[s] = order[s],
         \A x \in Items : x # i => stock'[x] = stock[x],
         \/ /\ order'[o].item = i /\ stock'[i].holder = o
            /\ \/ order'[o].status = "pending" /\ stock'[i].status = "reserved"
               \/ order'[o].status = "delivered" /\ stock'[i].status = "sold"
         \/ order'[o].status = "cancelled" /\ stock'[i].status = "available"
  PROVE  ItemsMatchOrders'
<1>1. ASSUME NEW x \in Items
      PROVE  /\ stock'[x].status = "reserved" =>
                  /\ stock'[x].holder \in Requests
                  /\ order'[stock'[x].holder].status = "pending"
                  /\ order'[stock'[x].holder].item = x
             /\ stock'[x].status = "sold" =>
                  /\ stock'[x].holder \in Requests
                  /\ order'[stock'[x].holder].status = "delivered"
                  /\ order'[stock'[x].holder].item = x
  <2>1. CASE x = i
    BY <2>1
  <2>2. CASE x # i
    <3>1. stock'[x] = stock[x]
      BY <2>2
    <3>2. /\ stock[x].status = "reserved" =>
                  /\ stock[x].holder \in Requests
                  /\ order[stock[x].holder].status = "pending"
                  /\ order[stock[x].holder].item = x
          /\ stock[x].status = "sold" =>
                  /\ stock[x].holder \in Requests
                  /\ order[stock[x].holder].status = "delivered"
                  /\ order[stock[x].holder].item = x
      BY DEF ItemsMatchOrders, Open
    <3>3. stock[x].status \in {"reserved", "sold"} => stock[x].holder # o
      BY <2>2, <3>2
    <3> QED BY <3>1, <3>2, <3>3
  <2> QED BY <2>1, <2>2
<1>2. ASSUME NEW s \in Requests
      PROVE  /\ order'[s].status = "pending" =>
                  /\ order'[s].item \in Items
                  /\ stock'[order'[s].item].holder = s
                  /\ stock'[order'[s].item].status \in {"reserved", "dead"}
             /\ order'[s].status = "delivered" =>
                  /\ order'[s].item \in Items
                  /\ stock'[order'[s].item].holder = s
                  /\ stock'[order'[s].item].status = "sold"
  <2>1. CASE s = o
    BY <2>1
  <2>2. CASE s # o
    <3>1. order'[s] = order[s]
      BY <2>2
    <3>2. /\ order[s].status = "pending" =>
                  /\ order[s].item \in Items
                  /\ stock[order[s].item].holder = s
                  /\ stock[order[s].item].status \in {"reserved", "dead"}
          /\ order[s].status = "delivered" =>
                  /\ order[s].item \in Items
                  /\ stock[order[s].item].holder = s
                  /\ stock[order[s].item].status = "sold"
      BY DEF ItemsMatchOrders, Open
    <3>3. order[s].status \in {"pending", "delivered"} => order[s].item # i
      BY <2>2, <3>2 DEF HeldFor
    <3> QED BY <3>1, <3>2, <3>3
  <2> QED BY <2>1, <2>2
<1> QED BY <1>1, <1>2 DEF ItemsMatchOrders, Open

(* The voucher's counter and its redemption rows. *)
LEMMA UseTaken ==
  ASSUME TypeOK, UsesAreCounted, RedeemersCarryIt,
         NEW r \in Requests, r \in WithVoucher, ~Exists(r),
         used < Limit, redeemed[BuyerOf[r]] = NoOne,
         used' = used + 1,
         redeemed' = [redeemed EXCEPT ![BuyerOf[r]] = r],
         order'[r].status \in {"pending", "delivered"},
         \A s \in Requests : s # r => order'[s] = order[s]
  PROVE  UsesAreCounted' /\ RedeemersCarryIt'
<1> DEFINE b == BuyerOf[r]
           S == {c \in Buyers : redeemed[c] # NoOne}
           T == {c \in Buyers : redeemed'[c] # NoOne}
<1>1. b \in Buyers /\ r # NoOne /\ used \in Nat /\ Limit \in Nat
  BY RowsOf, CheckoutAssumption DEF TypeOK
<1>2. redeemed'[b] = r /\ \A c \in Buyers : c # b => redeemed'[c] = redeemed[c]
  BY <1>1 DEF TypeOK
<1>3. T = S \cup {b} /\ b \notin S
  BY <1>1, <1>2
<1>4. IsFiniteSet(S)
  BY FS_Subset, CheckoutAssumption
<1>5. Cardinality(T) = Cardinality(S) + 1
  BY <1>3, <1>4, FS_AddElement
<1>6. used' = Cardinality(T) /\ used' <= Limit
  BY <1>1, <1>5 DEF UsesAreCounted
<1>7. ASSUME NEW c \in Buyers, redeemed'[c] # NoOne
      PROVE  /\ BuyerOf[redeemed'[c]] = c
             /\ order'[redeemed'[c]].status \in {"pending", "delivered"}
             /\ redeemed'[c] \in WithVoucher
  <2>1. CASE c = b
    BY <1>2, <2>1
  <2>2. CASE c # b
    <3>1. redeemed'[c] = redeemed[c] /\ redeemed[c] \in Requests
      BY <1>2, <1>7, <2>2 DEF TypeOK
    <3>2. redeemed[c] # r
      BY <1>7, <3>1 DEF UsesAreCounted, Exists
    <3> QED BY <1>7, <3>1, <3>2 DEF UsesAreCounted, RedeemersCarryIt
  <2> QED BY <2>1, <2>2
<1>8. ASSUME NEW o \in WithVoucher,
             order'[o].status \in {"pending", "delivered"}
      PROVE  redeemed'[BuyerOf[o]] = o
  <2>1. o \in Requests
    BY CheckoutAssumption
  <2>2. CASE o = r
    BY <1>2, <2>2
  <2>3. CASE o # r
    <3>1. redeemed[BuyerOf[o]] = o /\ BuyerOf[o] \in Buyers /\ o # NoOne
      BY <1>8, <2>1, <2>3, RowsOf DEF UsesAreCounted
    <3> QED BY <1>2, <3>1
  <2> QED BY <2>2, <2>3
<1> QED BY <1>6, <1>7, <1>8 DEF UsesAreCounted, RedeemersCarryIt

LEMMA UseReturned ==
  ASSUME TypeOK, UsesAreCounted, RedeemersCarryIt,
         NEW o \in Requests, o \in WithVoucher, Open(o),
         used' = IF used > 0 THEN used - 1 ELSE used,
         redeemed' = [redeemed EXCEPT ![BuyerOf[o]] = NoOne],
         order'[o].status = "cancelled",
         \A s \in Requests : s # o => order'[s] = order[s]
  PROVE  UsesAreCounted' /\ RedeemersCarryIt'
<1> DEFINE b == BuyerOf[o]
           S == {c \in Buyers : redeemed[c] # NoOne}
           T == {c \in Buyers : redeemed'[c] # NoOne}
<1>1. /\ b \in Buyers /\ o # NoOne /\ used \in Nat /\ Limit \in Nat
      /\ redeemed[b] = o
  BY RowsOf, CheckoutAssumption DEF TypeOK, UsesAreCounted, Open
<1>2. redeemed'[b] = NoOne
      /\ \A c \in Buyers : c # b => redeemed'[c] = redeemed[c]
  BY <1>1 DEF TypeOK
<1>3. T = S \ {b} /\ b \in S
  BY <1>1, <1>2
<1>4. IsFiniteSet(S)
  BY FS_Subset, CheckoutAssumption
<1>5. Cardinality(T) = Cardinality(S) - 1 /\ S # {}
  BY <1>3, <1>4, FS_RemoveElement
<1>6. used = Cardinality(S) /\ used # 0
  BY <1>4, <1>5, FS_EmptySet DEF UsesAreCounted
<1>7. used' = Cardinality(T) /\ used' <= Limit
  BY <1>1, <1>5, <1>6 DEF UsesAreCounted
<1>8. ASSUME NEW c \in Buyers, redeemed'[c] # NoOne
      PROVE  /\ BuyerOf[redeemed'[c]] = c
             /\ order'[redeemed'[c]].status \in {"pending", "delivered"}
             /\ redeemed'[c] \in WithVoucher
  <2>1. c # b /\ redeemed'[c] = redeemed[c] /\ redeemed[c] \in Requests
    BY <1>2, <1>8 DEF TypeOK
  <2>2. redeemed[c] # o
    BY <1>8, <2>1 DEF UsesAreCounted
  <2> QED BY <1>8, <2>1, <2>2 DEF UsesAreCounted, RedeemersCarryIt
<1>9. ASSUME NEW s \in WithVoucher,
             order'[s].status \in {"pending", "delivered"}
      PROVE  redeemed'[BuyerOf[s]] = s
  <2>1. s \in Requests /\ s # o
    BY <1>9, CheckoutAssumption
  <2>2. redeemed[BuyerOf[s]] = s /\ BuyerOf[s] \in Buyers
    BY <1>9, <2>1, RowsOf DEF UsesAreCounted
  <2> QED BY <1>1, <1>2, <2>1, <2>2
<1> QED BY <1>7, <1>8, <1>9 DEF UsesAreCounted, RedeemersCarryIt

LEMMA UsesUntouched ==
  ASSUME TypeOK, UsesAreCounted, RedeemersCarryIt, NEW o \in Requests,
         used' = used, redeemed' = redeemed,
         \/ o \notin WithVoucher
         \/ Open(o) /\ order'[o].status \in {"pending", "delivered"},
         \A s \in Requests : s # o => order'[s] = order[s]
  PROVE  UsesAreCounted' /\ RedeemersCarryIt'
<1>1. ASSUME NEW c \in Buyers, redeemed[c] # NoOne
      PROVE  order'[redeemed[c]].status \in {"pending", "delivered"}
  <2>1. redeemed[c] \in Requests /\ redeemed[c] \in WithVoucher
        /\ order[redeemed[c]].status \in {"pending", "delivered"}
    BY <1>1 DEF TypeOK, RedeemersCarryIt, UsesAreCounted
  <2> QED BY <2>1
<1>2. ASSUME NEW s \in WithVoucher,
             order'[s].status \in {"pending", "delivered"}
      PROVE  redeemed[BuyerOf[s]] = s
  <2>1. s \in Requests /\ order[s].status \in {"pending", "delivered"}
    BY <1>2, CheckoutAssumption DEF Open
  <2> QED BY <2>1 DEF UsesAreCounted
<1> QED BY <1>1, <1>2 DEF UsesAreCounted, RedeemersCarryIt

-----------------------------------------------------------------------------
(* The commits. *)

LEMMA CommitOrderKeeps ==
  ASSUME IInv, NEW r \in Requests, CommitOrder(r) PROVE IInv'
<1> DEFINE b == BuyerOf[r]
           i == job[r].item
           spend == job[r].spend
           paid == spend = Total(r)
           made == [status |-> IF paid THEN "delivered" ELSE "pending",
                    item |-> i, spent |-> spend]
           unit == [status |-> IF paid THEN "sold" ELSE "reserved",
                    holder |-> r]
<1>0. /\ r \in Workers /\ r \notin Payments /\ r \notin Cancels
      /\ SoundRequest(r) /\ TypeOK /\ pc[r] = "commit"
      /\ b \in Buyers /\ spend \in Nat /\ "done" \in Steps
  BY RowsOf, Types DEF IInv, AllSound, CommitOrder, Steps
<1>1. /\ i \in Items /\ owner[i] = r /\ stock[i].status = "available"
      /\ order[r].status = "none" /\ order[r].item = NoOne
      /\ r \in FromCart => owner[Cart(b)] = r /\ full[b] = TRUE
      /\ spend > 0 => /\ owner[b] = r /\ job[r].balance = balance[b]
                      /\ spend <= balance[b]
      /\ r \in WithVoucher => /\ owner[Voucher] = r /\ used < Limit
                              /\ redeemed[b] = NoOne
  BY <1>0 DEF SoundRequest, Placing, Working
<1>2. /\ order' = [order EXCEPT ![r] = made]
      /\ stock' = [stock EXCEPT ![i] = unit]
      /\ IF spend > 0
         THEN MoveWallet(b, r, "order_payment", -spend, job[r].balance)
         ELSE UNCHANGED <<balance, journal>>
      /\ IF Redeems(r)
         THEN used' = used + 1 /\ redeemed' = [redeemed EXCEPT ![b] = r]
         ELSE UNCHANGED <<used, redeemed>>
      /\ full' = [full EXCEPT ![b] = full[b] /\ r \notin FromCart]
      /\ End(r, "done")
  BY DEF CommitOrder
<1>3. made \in OrderType /\ unit \in StockType /\ made.item = i
      /\ made.status = (IF paid THEN "delivered" ELSE "pending")
      /\ unit.holder = r
      /\ unit.status = (IF paid THEN "sold" ELSE "reserved")
  BY <1>0, <1>1 DEF OrderType, StockType
<1> HIDE DEF made, unit, paid
<1>4. /\ order' \in [Requests -> OrderType] /\ order'[r] = made
      /\ \A s \in Requests : s # r => order'[s] = order[s]
  BY <1>0, <1>2, <1>3 DEF TypeOK
<1>5. /\ stock' \in [Items -> StockType] /\ stock'[i] = unit
      /\ \A x \in Items : x # i => stock'[x] = stock[x]
  BY <1>0, <1>1, <1>2, <1>3 DEF TypeOK
<1>6. /\ WalletIsItsJournal'
      /\ balance' \in [Buyers -> Nat]
      /\ journal' \in [Buyers -> Seq(MovementType)]
      /\ \A c \in Buyers : balance'[c] = balance[c] \/ owner[c] = r
  <2>1. CASE spend > 0
    <3>1. balance[b] \in Nat
      BY <1>0, Types
    <3>2. -spend \in Int /\ balance[b] + (-spend) \in Nat
      BY <1>0, <1>1, <2>1, <3>1
    <3>3. MoveWallet(b, r, "order_payment", -spend, balance[b])
      BY <1>1, <1>2, <2>1
    <3>4. WalletIsItsJournal
      BY DEF IInv
    <3> QED BY <1>0, <1>1, <2>1, <3>2, <3>3, <3>4, MoveWalletKeeps
  <2>2. CASE ~(spend > 0)
    BY <1>0, <1>2, <2>2 DEF IInv, WalletIsItsJournal, TypeOK
  <2> QED BY <2>1, <2>2
<1>7. /\ UsesAreCounted' /\ RedeemersCarryIt'
      /\ used' \in Nat /\ redeemed' \in [Buyers -> Requests \cup {NoOne}]
      /\ (used' = used /\ redeemed' = redeemed) \/ owner[Voucher] = r
  <2>0. UsesAreCounted /\ RedeemersCarryIt
    BY DEF IInv
  <2>1. CASE r \in WithVoucher
    <3>1. used' = used + 1 /\ redeemed' = [redeemed EXCEPT ![b] = r]
      BY <1>2, <2>1 DEF Redeems
    <3>2. order'[r].status \in {"pending", "delivered"}
      BY <1>3, <1>4
    <3>3. UsesAreCounted' /\ RedeemersCarryIt'
      BY <1>0, <1>1, <1>4, <2>0, <2>1, <3>1, <3>2, UseTaken DEF Exists
    <3> QED BY <1>0, <1>1, <2>1, <3>1, <3>3 DEF TypeOK
  <2>2. CASE r \notin WithVoucher
    <3>1. used' = used /\ redeemed' = redeemed
      BY <1>2, <2>2 DEF Redeems
    <3>2. UsesAreCounted' /\ RedeemersCarryIt'
      BY <1>0, <1>4, <2>0, <2>2, <3>1, UsesUntouched
    <3> QED BY <1>0, <3>1, <3>2 DEF TypeOK
  <2> QED BY <2>1, <2>2
<1>8. /\ full' \in [Buyers -> BOOLEAN]
      /\ r \in FromCart => full'[b] = FALSE
      /\ \A c \in Buyers : c # b => full'[c] = full[c]
      /\ r \notin FromCart => full'[b] = full[b]
  BY <1>0, <1>2 DEF TypeOK
<1>9. /\ LocalTypes'
      /\ pc'[r] = "done"
      /\ \A v \in Workers : v # r => pc'[v] = pc[v] /\ job'[v] = job[v]
      /\ \A x \in Rows, v \in Workers : v # r /\ owner[x] = v =>
           owner'[x] = v
  BY <1>0, <1>2, EndShape
<1>10. Elsewhere(r)
  <2>1. \A x \in Items : stock'[x] = stock[x] \/ owner[x] \in {r, NoOne}
    BY <1>1, <1>5
  <2>2. \A x \in Items, o \in Requests :
          stock[x].status = "dead" /\ order[o].item = x =>
            stock'[x].status = "dead"
    BY <1>1, <1>5
  <2>3. \A o \in Requests :
          \/ order'[o] = order[o]
          \/ o = r /\ ~Exists(o)
          \/ owner[o] = r /\ Open(o)
    BY <1>1, <1>4 DEF Exists
  <2>4. \A c \in Buyers : full'[c] = full[c] \/ owner[Cart(c)] = r
    BY <1>1, <1>8
  <2> QED BY <1>6, <1>7, <1>9, <2>1, <2>2, <2>3, <2>4 DEF Elsewhere
<1>11. SoundRequest(r)'
  BY <1>9 DEF SoundRequest, Ended, Working, Placing
<1>12. AllSound'
  BY <1>0, <1>10, <1>11, OtherRequests, OtherPayments, OtherCancels
     DEF AllSound
<1>13. TypeOK'
  BY <1>4, <1>5, <1>6, <1>7, <1>8, <1>9 DEF TypeOK, LocalTypes
<1>14. ItemsMatchOrders'
  <2>1. ItemsMatchOrders /\ i # NoOne
    BY <1>1, RowsOf DEF IInv
  <2>2. NoOne \notin Items
    BY RowsOf
  <2>3. \/ order'[r].status = "pending" /\ stock'[i].status = "reserved"
        \/ order'[r].status = "delivered" /\ stock'[i].status = "sold"
    BY <1>3, <1>4, <1>5
  <2>4. order'[r].item = i /\ stock'[i].holder = r
    BY <1>3, <1>4, <1>5
  <2> QED
    BY <1>0, <1>1, <1>4, <1>5, <2>1, <2>2, <2>3, <2>4, WritesOne
<1>15. BoughtCartsAreEmpty'
  <2>1. ASSUME NEW s \in FromCart, Exists(s)'
        PROVE  full'[BuyerOf[s]] = FALSE
    <3>1. s \in Requests /\ BuyerOf[s] \in Buyers
      BY RowsOf, CheckoutAssumption
    <3>2. CASE s = r
      BY <1>8, <3>2
    <3>3. CASE s # r
      <4>1. full[BuyerOf[s]] = FALSE
        BY <1>4, <2>1, <3>1, <3>3 DEF IInv, BoughtCartsAreEmpty, Exists
      <4>2. BuyerOf[s] = b => r \notin FromCart
        BY <1>1, <4>1
      <4> QED BY <1>8, <3>1, <4>1, <4>2
    <3> QED BY <3>2, <3>3
  <2>2. ASSUME NEW s \in FromCart, NEW t \in FromCart, s # t,
               BuyerOf[s] = BuyerOf[t], Exists(s)', Exists(t)'
        PROVE  FALSE
    <3>1. s \in Requests /\ t \in Requests
      BY CheckoutAssumption
    <3>2. CASE s # r /\ t # r
      BY <1>4, <2>2, <3>1, <3>2
         DEF IInv, BoughtCartsAreEmpty, OneOrderPerCart, Exists
    <3>3. CASE s = r
      <4>1. Exists(t)
        BY <1>4, <2>2, <3>1, <3>3 DEF Exists
      <4> QED BY <1>1, <2>2, <3>3, <4>1 DEF IInv, BoughtCartsAreEmpty
    <3>4. CASE t = r
      <4>1. Exists(s)
        BY <1>4, <2>2, <3>1, <3>4 DEF Exists
      <4> QED BY <1>1, <2>2, <3>4, <4>1 DEF IInv, BoughtCartsAreEmpty
    <3> QED BY <3>2, <3>3, <3>4
  <2> QED BY <2>1, <2>2 DEF BoughtCartsAreEmpty, OneOrderPerCart
<1> QED BY <1>6, <1>7, <1>12, <1>13, <1>14, <1>15 DEF IInv

(* Closing an order concerns no cart. *)
LEMMA CartsStay ==
  ASSUME IInv, NEW o \in Requests, Open(o), full' = full,
         \A s \in Requests : s # o => order'[s] = order[s]
  PROVE  BoughtCartsAreEmpty'
<1>1. \A s \in FromCart : Exists(s)' => Exists(s)
  BY CheckoutAssumption DEF Exists, Open
<1> QED BY <1>1 DEF IInv, BoughtCartsAreEmpty, OneOrderPerCart

LEMMA RewriteShape ==
  ASSUME TypeOK, NEW o \in Requests, NEW i \in Items \cup {NoOne},
         NEW status \in {"delivered", "cancelled"}, Rewrite(o, status, i)
  PROVE  /\ order' \in [Requests -> OrderType]
         /\ order'[o].status = status /\ order'[o].item = i
         /\ \A s \in Requests : s # o => order'[s] = order[s]
<1> DEFINE new == [status |-> status, item |-> i, spent |-> order[o].spent]
<1>1. order[o].spent \in Nat
  BY Types
<1>2. new \in OrderType /\ new.status = status /\ new.item = i
  BY <1>1 DEF OrderType
<1>3. order' = [order EXCEPT ![o] = new]
  BY DEF Rewrite
<1> HIDE DEF new
<1> QED BY <1>2, <1>3 DEF TypeOK

LEMMA CommitDeliveryKeeps ==
  ASSUME IInv, NEW p \in Payments, CommitDelivery(p) PROVE IInv'
<1> DEFINE o == job[p].order
           i == job[p].item
           unit == [status |-> "sold", holder |-> o]
<1>0. /\ p \in Workers /\ p \notin Requests /\ p \notin Cancels
      /\ SoundPayment(p) /\ TypeOK /\ pc[p] = "commit" /\ "done" \in Steps
  BY RowsOf DEF IInv, AllSound, CommitDelivery, Steps
<1>1. /\ o \in Requests /\ owner[o] = p /\ Open(o)
      /\ i \in Items /\ owner[i] = p
      /\ \/ i = order[o].item /\ HeldFor(i, o)
         \/ stock[i].status = "available" /\ LineIsDead(o)
  BY <1>0 DEF SoundPayment, HoldsOrder
<1>2. /\ Rewrite(o, "delivered", i)
      /\ stock' = [stock EXCEPT ![i] = unit]
      /\ End(p, "done")
      /\ UNCHANGED <<balance, journal, used, redeemed, full>>
  BY DEF CommitDelivery
<1>3. unit \in StockType /\ unit.status = "sold" /\ unit.holder = o
  BY <1>1 DEF StockType
<1> HIDE DEF unit
<1>4. /\ order' \in [Requests -> OrderType]
      /\ order'[o].status = "delivered" /\ order'[o].item = i
      /\ \A s \in Requests : s # o => order'[s] = order[s]
  BY <1>0, <1>1, <1>2, RewriteShape
<1>5. /\ stock' \in [Items -> StockType] /\ stock'[i] = unit
      /\ \A x \in Items : x # i => stock'[x] = stock[x]
  BY <1>0, <1>1, <1>2, <1>3 DEF TypeOK
<1>6. /\ LocalTypes'
      /\ pc'[p] = "done"
      /\ \A v \in Workers : v # p => pc'[v] = pc[v] /\ job'[v] = job[v]
      /\ \A x \in Rows, v \in Workers : v # p /\ owner[x] = v =>
           owner'[x] = v
  BY <1>0, <1>2, EndShape
<1>7. Elsewhere(p)
  <2>1. \A x \in Items : stock'[x] = stock[x] \/ owner[x] \in {p, NoOne}
    BY <1>1, <1>5
  <2>2. stock[i].status # "dead"
    BY <1>1 DEF HeldFor
  <2>3. \A s \in Requests : order'[s] = order[s] \/ (owner[s] = p /\ Open(s))
    BY <1>1, <1>4
  <2> QED BY <1>2, <1>5, <1>6, <2>1, <2>2, <2>3 DEF Elsewhere
<1>8. SoundPayment(p)'
  BY <1>6 DEF SoundPayment, Ended
<1>9. AllSound'
  BY <1>0, <1>7, <1>8, OtherRequests, OtherPayments, OtherCancels
     DEF AllSound
<1>10. TypeOK'
  BY <1>0, <1>2, <1>4, <1>5, <1>6 DEF TypeOK, LocalTypes
<1>11. ItemsMatchOrders'
  <2>1. ItemsMatchOrders /\ order[o].status = "pending"
    BY <1>1 DEF IInv, Open
  <2>2. order[o].item # i => stock[order[o].item].status = "dead"
    BY <1>1 DEF LineIsDead
  <2>3. stock[i].status = "available" \/ (HeldFor(i, o) /\ i = order[o].item)
    BY <1>1
  <2>4. stock'[i].status = "sold" /\ stock'[i].holder = o
    BY <1>3, <1>5
  <2> QED BY <1>0, <1>1, <1>4, <1>5, <2>1, <2>2, <2>3, <2>4, WritesOne
<1>12. UsesAreCounted' /\ RedeemersCarryIt'
  BY <1>0, <1>1, <1>2, <1>4, UsesUntouched DEF IInv
<1>13. WalletIsItsJournal'
  BY <1>2 DEF IInv, WalletIsItsJournal
<1>14. BoughtCartsAreEmpty'
  BY <1>1, <1>2, <1>4, CartsStay
<1> QED BY <1>9, <1>10, <1>11, <1>12, <1>13, <1>14 DEF IInv

LEMMA CommitCancelKeeps ==
  ASSUME IInv, NEW c \in Cancels, CommitCancel(c) PROVE IInv'
<1> DEFINE o == job[c].order
           b == BuyerOf[o]
           i == job[c].item
           spent == order[o].spent
           unit == [status |-> "available", holder |-> NoOne]
<1>0. /\ c \in Workers /\ c \notin Requests /\ c \notin Payments
      /\ SoundCancel(c) /\ TypeOK /\ pc[c] = "commit" /\ "done" \in Steps
  BY RowsOf DEF IInv, AllSound, CommitCancel, Steps
<1>1. /\ o \in Requests /\ owner[o] = c /\ Open(o) /\ b \in Buyers
      /\ \/ i = order[o].item /\ i \in Items /\ owner[i] = c /\ HeldFor(i, o)
         \/ i = NoOne /\ LineIsDead(o)
      /\ spent > 0 => owner[b] = c /\ job[c].balance = balance[b]
      /\ o \in WithVoucher => owner[Voucher] = c
      /\ spent \in Nat
  BY <1>0, RowsOf, Types DEF SoundCancel, HoldsOrder, Undoing
<1>2. /\ Rewrite(o, "cancelled", NoOne)
      /\ stock' = IF i = NoOne THEN stock ELSE [stock EXCEPT ![i] = unit]
      /\ IF spent > 0
         THEN MoveWallet(b, o, "order_refund", spent, job[c].balance)
         ELSE UNCHANGED <<balance, journal>>
      /\ IF o \in WithVoucher
         THEN /\ used' = IF used > 0 THEN used - 1 ELSE used
              /\ redeemed' = [redeemed EXCEPT ![b] = NoOne]
         ELSE UNCHANGED <<used, redeemed>>
      /\ End(c, "done")
      /\ UNCHANGED full
  BY DEF CommitCancel
<1>3. unit \in StockType /\ unit.status = "available"
  BY DEF StockType
<1> HIDE DEF unit
<1>4. /\ order' \in [Requests -> OrderType]
      /\ order'[o].status = "cancelled"
      /\ \A s \in Requests : s # o => order'[s] = order[s]
  BY <1>0, <1>1, <1>2, RewriteShape
<1>5. /\ stock' \in [Items -> StockType]
      /\ i \in Items => stock'[i] = unit
      /\ \A x \in Items : x # i => stock'[x] = stock[x]
  BY <1>0, <1>1, <1>2, <1>3, RowsOf DEF TypeOK
<1>6. /\ WalletIsItsJournal'
      /\ balance' \in [Buyers -> Nat]
      /\ journal' \in [Buyers -> Seq(MovementType)]
      /\ \A d \in Buyers : balance'[d] = balance[d] \/ owner[d] = c
  <2>1. CASE spent > 0
    <3>1. balance[b] \in Nat
      BY <1>0, <1>1, Types
    <3>2. spent \in Int /\ balance[b] + spent \in Nat
      BY <1>1, <3>1
    <3>3. MoveWallet(b, o, "order_refund", spent, balance[b])
      BY <1>1, <1>2, <2>1
    <3>4. WalletIsItsJournal
      BY DEF IInv
    <3> QED BY <1>0, <1>1, <2>1, <3>2, <3>3, <3>4, MoveWalletKeeps
  <2>2. CASE ~(spent > 0)
    BY <1>0, <1>2, <2>2 DEF IInv, WalletIsItsJournal, TypeOK
  <2> QED BY <2>1, <2>2
<1>7. /\ UsesAreCounted' /\ RedeemersCarryIt'
      /\ used' \in Nat /\ redeemed' \in [Buyers -> Requests \cup {NoOne}]
      /\ (used' = used /\ redeemed' = redeemed) \/ owner[Voucher] = c
  <2>0. UsesAreCounted /\ RedeemersCarryIt
    BY DEF IInv
  <2>1. CASE o \in WithVoucher
    <3>1. /\ used' = IF used > 0 THEN used - 1 ELSE used
          /\ redeemed' = [redeemed EXCEPT ![b] = NoOne]
      BY <1>2, <2>1
    <3>2. UsesAreCounted' /\ RedeemersCarryIt'
      BY <1>0, <1>1, <1>4, <2>0, <2>1, <3>1, UseReturned
    <3> QED BY <1>0, <1>1, <2>1, <3>1, <3>2 DEF TypeOK
  <2>2. CASE o \notin WithVoucher
    <3>1. used' = used /\ redeemed' = redeemed
      BY <1>2, <2>2
    <3>2. UsesAreCounted' /\ RedeemersCarryIt'
      BY <1>0, <1>1, <1>4, <2>0, <2>2, <3>1, UsesUntouched
    <3> QED BY <1>0, <3>1, <3>2 DEF TypeOK
  <2> QED BY <2>1, <2>2
<1>8. /\ LocalTypes'
      /\ pc'[c] = "done"
      /\ \A v \in Workers : v # c => pc'[v] = pc[v] /\ job'[v] = job[v]
      /\ \A x \in Rows, v \in Workers : v # c /\ owner[x] = v =>
           owner'[x] = v
  BY <1>0, <1>2, EndShape
<1>9. Elsewhere(c)
  <2>0. ASSUME NEW x \in Items, stock'[x] # stock[x]
        PROVE  owner[x] = c /\ stock[x].status = "reserved"
    <3>1. x = i
      BY <1>5, <2>0
    <3>2. i # NoOne
      BY <3>1, RowsOf
    <3>3. owner[i] = c /\ HeldFor(i, o)
      BY <1>1, <3>2
    <3> QED BY <3>1, <3>3 DEF HeldFor
  <2>1. \A x \in Items : stock'[x] = stock[x] \/ owner[x] \in {c, NoOne}
    BY <2>0
  <2>2. \A x \in Items : stock[x].status = "dead" => stock'[x] = stock[x]
    BY <2>0
  <2>3. \A s \in Requests : order'[s] = order[s] \/ (owner[s] = c /\ Open(s))
    BY <1>1, <1>4
  <2> QED BY <1>2, <1>6, <1>7, <1>8, <2>1, <2>2, <2>3 DEF Elsewhere
<1>10. SoundCancel(c)'
  BY <1>8 DEF SoundCancel, Ended, Undoing
<1>11. AllSound'
  BY <1>0, <1>9, <1>10, OtherRequests, OtherPayments, OtherCancels
     DEF AllSound
<1>12. TypeOK'
  BY <1>0, <1>2, <1>4, <1>5, <1>6, <1>7, <1>8 DEF TypeOK, LocalTypes
<1>13. ItemsMatchOrders'
  <2>1. ItemsMatchOrders /\ order[o].status = "pending"
    BY <1>1 DEF IInv, Open
  <2>2. CASE i \in Items
    <3>1. HeldFor(i, o) /\ i = order[o].item
      BY <1>1, <2>2, RowsOf
    <3>2. stock'[i].status = "available"
      BY <1>3, <1>5, <2>2
    <3> QED BY <1>0, <1>1, <1>4, <1>5, <2>1, <2>2, <3>1, <3>2, WritesOne
  <2>3. CASE i = NoOne /\ LineIsDead(o)
    <3>1. stock' = stock
      BY <1>2, <2>3
    <3>2. ASSUME NEW x \in Items, stock[x].status \in {"reserved", "sold"}
          PROVE  stock[x].holder # o
      BY <2>1, <2>3, <3>2 DEF ItemsMatchOrders, LineIsDead, Open
    <3>3. \A x \in Items :
            /\ stock'[x].status = "reserved" =>
                  /\ stock'[x].holder \in Requests
                  /\ order'[stock'[x].holder].status = "pending"
                  /\ order'[stock'[x].holder].item = x
            /\ stock'[x].status = "sold" =>
                  /\ stock'[x].holder \in Requests
                  /\ order'[stock'[x].holder].status = "delivered"
                  /\ order'[stock'[x].holder].item = x
      BY <1>4, <2>1, <3>1, <3>2 DEF ItemsMatchOrders, Open
    <3>4. \A s \in Requests :
            /\ order'[s].status = "pending" =>
                  /\ order'[s].item \in Items
                  /\ stock'[order'[s].item].holder = s
                  /\ stock'[order'[s].item].status \in {"reserved", "dead"}
            /\ order'[s].status = "delivered" =>
                  /\ order'[s].item \in Items
                  /\ stock'[order'[s].item].holder = s
                  /\ stock'[order'[s].item].status = "sold"
      BY <1>4, <2>1, <3>1 DEF ItemsMatchOrders, Open
    <3> QED BY <3>3, <3>4 DEF ItemsMatchOrders, Open
  <2> QED BY <1>1, <2>2, <2>3
<1>14. BoughtCartsAreEmpty'
  BY <1>1, <1>2, <1>4, CartsStay
<1> QED BY <1>6, <1>7, <1>11, <1>12, <1>13, <1>14 DEF IInv

-----------------------------------------------------------------------------
(* The admin's steps, which are nobody's. *)

(* What is enough of a step outside every transaction that writes only     *)
(* stock[i], which nobody has locked.                                      *)
LEMMA WithdrawKeeps ==
  ASSUME IInv, NEW i \in Items, NEW status, Withdraw(i, status),
         owner[i] = NoOne,
         \/ status = "dead" /\ stock[i].status \in {"available", "reserved"}
         \/ /\ status = "deleted" /\ ~PointedAt(i)
            /\ stock[i].status # "sold"
  PROVE  IInv'
<1> DEFINE unit == [status |-> status, holder |-> stock[i].holder]
<1>0. TypeOK /\ ItemsMatchOrders /\ NoOne \notin Workers
  BY RowsOf DEF IInv
<1>1. unit \in StockType /\ unit.status = status
      /\ unit.holder = stock[i].holder
  BY <1>0, Types DEF StockType
<1>2. /\ stock' = [stock EXCEPT ![i] = unit]
      /\ UNCHANGED <<order, balance, journal, used, redeemed, full>>
      /\ UNCHANGED <<owner, sharers, pc, job>>
  BY DEF Withdraw, locks
<1> HIDE DEF unit
<1>3. /\ stock' \in [Items -> StockType] /\ stock'[i] = unit
      /\ \A x \in Items : x # i => stock'[x] = stock[x]
  BY <1>0, <1>1, <1>2 DEF TypeOK
<1>4. Elsewhere(NoOne)
  <2>1. \A x \in Items : stock'[x] = stock[x] \/ owner[x] \in {NoOne, NoOne}
    BY <1>3
  <2>2. ASSUME NEW x \in Items, NEW o \in Requests,
               stock[x].status = "dead", order[o].item = x
        PROVE  stock'[x].status = "dead"
    BY <1>1, <1>3, <2>2 DEF PointedAt
  <2> QED BY <1>2, <2>1, <2>2 DEF Elsewhere
<1>5. AllSound'
  BY <1>0, <1>4, RowsOf, OtherRequests, OtherPayments, OtherCancels
     DEF AllSound
<1>6. TypeOK'
  BY <1>0, <1>2, <1>3 DEF TypeOK
<1>7. ItemsMatchOrders'
  <2>1. ASSUME NEW x \in Items, stock'[x].status \in {"reserved", "sold"}
        PROVE  stock'[x] = stock[x]
    BY <1>1, <1>3, <2>1
  <2>2. ASSUME NEW o \in Requests, order[o].status = "pending"
        PROVE  /\ order[o].item \in Items
               /\ stock'[order[o].item].holder = o
               /\ stock'[order[o].item].status \in {"reserved", "dead"}
    <3>1. /\ order[o].item \in Items
          /\ stock[order[o].item].holder = o
          /\ stock[order[o].item].status \in {"reserved", "dead"}
      BY <1>0, <2>2 DEF ItemsMatchOrders, Open
    <3>2. order[o].item = i => status = "dead"
      BY DEF PointedAt
    <3> QED BY <1>1, <1>3, <3>1, <3>2
  <2>3. ASSUME NEW o \in Requests, order[o].status = "delivered"
        PROVE  /\ order[o].item \in Items
               /\ stock'[order[o].item].holder = o
               /\ stock'[order[o].item].status = "sold"
    <3>1. /\ order[o].item \in Items
          /\ stock[order[o].item].holder = o
          /\ stock[order[o].item].status = "sold"
      BY <1>0, <2>3 DEF ItemsMatchOrders
    <3>2. order[o].item # i
      BY <3>1
    <3> QED BY <1>3, <3>1, <3>2
  <2>4. order' = order
    BY <1>2
  <2>5. ASSUME NEW x \in Items
        PROVE  /\ stock'[x].status = "reserved" =>
                    /\ stock'[x].holder \in Requests
                    /\ order[stock'[x].holder].status = "pending"
                    /\ order[stock'[x].holder].item = x
               /\ stock'[x].status = "sold" =>
                    /\ stock'[x].holder \in Requests
                    /\ order[stock'[x].holder].status = "delivered"
                    /\ order[stock'[x].holder].item = x
    BY <1>0, <2>1 DEF ItemsMatchOrders, Open
  <2> QED BY <2>2, <2>3, <2>4, <2>5 DEF ItemsMatchOrders, Open
<1>8. WalletIsItsJournal' /\ UsesAreCounted' /\ RedeemersCarryIt'
  BY <1>2 DEF IInv, WalletIsItsJournal, UsesAreCounted, RedeemersCarryIt
<1>9. BoughtCartsAreEmpty'
  BY <1>2 DEF IInv, BoughtCartsAreEmpty, OneOrderPerCart, Exists
<1> QED BY <1>5, <1>6, <1>7, <1>8, <1>9 DEF IInv

LEMMA MarkDeadKeeps ==
  ASSUME IInv, NEW i \in Items, MarkDead(i) PROVE IInv'
BY WithdrawKeeps DEF MarkDead, MayWithdraw

LEMMA SoftDeleteKeeps ==
  ASSUME IInv, NEW i \in Items, SoftDelete(i) PROVE IInv'
BY WithdrawKeeps DEF SoftDelete, MayWithdraw

-----------------------------------------------------------------------------
(* The invariant. *)

LEMMA InitHolds == Init => IInv
<1> SUFFICES ASSUME Init PROVE IInv
  OBVIOUS
<1>0. \A r \in Requests : order[r].status = "none" /\ order[r].item = NoOne
  BY DEF Init, NoOrder
<1>1. TypeOK
  <2>1. NoOrder \in OrderType
    BY DEF NoOrder, OrderType
  <2>2. [status |-> "available", holder |-> NoOne] \in StockType
    BY DEF StockType
  <2>3. NoJob \in JobType
    BY DEF NoJob, Started, JobType
  <2>4. /\ order \in [Requests -> OrderType]
        /\ stock \in [Items -> StockType]
        /\ job \in [Workers -> JobType]
    BY <2>1, <2>2, <2>3 DEF Init
  <2>5. /\ balance \in [Buyers -> Nat]
        /\ journal \in [Buyers -> Seq(MovementType)]
        /\ used \in Nat
        /\ redeemed \in [Buyers -> Requests \cup {NoOne}]
        /\ full \in [Buyers -> BOOLEAN]
    BY CheckoutAssumption DEF Init
  <2>6. /\ owner \in [Rows -> Workers \cup {NoOne}]
        /\ sharers \in [Buyers -> SUBSET Workers]
        /\ pc \in [Workers -> Steps]
    BY DEF Init, Steps
  <2> QED BY <2>4, <2>5, <2>6 DEF TypeOK
<1>2. AllSound
  <2>1. \A w \in Workers : pc[w] = "idle"
    BY DEF Init
  <2> QED BY <1>0, <2>1, RowsOf
       DEF AllSound, SoundRequest, SoundPayment, SoundCancel, Working,
           Placing, Undoing, Ended
<1>3. ItemsMatchOrders
  <2>1. \A i \in Items : stock[i].status = "available"
    BY DEF Init
  <2> QED BY <1>0, <2>1 DEF ItemsMatchOrders, Open
<1>4. WalletIsItsJournal
  <2>1. \A b \in Buyers : journal[b] = <<>> /\ balance[b] = Credit
    BY DEF Init
  <2> QED BY <2>1 DEF WalletIsItsJournal
<1>5. UsesAreCounted /\ RedeemersCarryIt
  <2>1. \A b \in Buyers : redeemed[b] = NoOne
    BY DEF Init
  <2>2. {b \in Buyers : redeemed[b] # NoOne} = {}
    BY <2>1
  <2>3. used = Cardinality({b \in Buyers : redeemed[b] # NoOne})
    BY <2>2, FS_EmptySet DEF Init
  <2>4. used <= Limit
    BY CheckoutAssumption DEF Init
  <2> QED BY <1>0, <2>1, <2>3, <2>4, CheckoutAssumption
       DEF UsesAreCounted, RedeemersCarryIt
<1>6. BoughtCartsAreEmpty
  BY <1>0, CheckoutAssumption
     DEF BoughtCartsAreEmpty, OneOrderPerCart, Exists
<1> QED BY <1>1, <1>2, <1>3, <1>4, <1>5, <1>6 DEF IInv

(* Everybody in a circle waits for a row, in the middle of a transaction   *)
(* or on the way into one.                                                 *)
LEMMA WaitersRun ==
  ASSUME NEW w \in Workers, InDeadlock(w)
  PROVE  pc[w] \notin {"idle", "done"}
<1>1. WaitsFor(w) # {}
  BY DEF InDeadlock
<1>2. WaitsForRow(w) # {}
  BY <1>1 DEF WaitsFor
<1> QED BY <1>2 DEF WaitsForRow

LEMMA RequestStepKeeps ==
  ASSUME IInv, NEW r \in Requests, RequestStep(r) PROVE IInv'
<1>0. r \in Workers
  BY RowsOf
<1>1. CASE ReadSession(r)
  BY <1>1, ReadSessionKeeps
<1>2. CASE LockCart(r)
  BY <1>2, LockCartKeeps
<1>3. CASE CartIsEmpty(r)
  BY <1>0, <1>3, RollbackKeeps DEF CartIsEmpty
<1>4. CASE BeginDirect(r)
  BY <1>4, BeginDirectKeeps
<1>5. CASE Quote(r)
  BY <1>5, QuoteKeeps
<1>6. CASE QuoteRefused(r)
  BY <1>0, <1>6, RollbackKeeps DEF QuoteRefused
<1>7. CASE InsertOrder(r)
  BY <1>7, InsertOrderKeeps
<1>8. CASE Reserve(r)
  BY <1>8, ReserveKeeps
<1>9. CASE OutOfStock(r)
  BY <1>0, <1>9, RollbackKeeps DEF OutOfStock
<1>10. CASE Debit(r)
  BY <1>10, DebitKeeps
<1>11. CASE Overdraws(r)
  BY <1>0, <1>11, RollbackKeeps DEF Overdraws
<1>12. CASE Redeem(r)
  BY <1>12, RedeemKeeps
<1>13. CASE RedeemRefused(r)
  BY <1>0, <1>13, RollbackKeeps DEF RedeemRefused
<1>14. CASE StillOwing(r)
  BY <1>0, <1>14, RollbackKeeps DEF StillOwing
<1>15. CASE CommitOrder(r)
  BY <1>15, CommitOrderKeeps
<1>16. CASE DeadlockVictim(r)
  BY <1>0, <1>16, WaitersRun, RollbackKeeps DEF DeadlockVictim
<1> QED
  BY <1>1, <1>2, <1>3, <1>4, <1>5, <1>6, <1>7, <1>8, <1>9, <1>10, <1>11,
     <1>12, <1>13, <1>14, <1>15, <1>16 DEF RequestStep

LEMMA PaymentStepKeeps ==
  ASSUME IInv, NEW p \in Payments,
         PaymentStep(p) \/ \E o \in Requests : ClaimOrder(p, o)
  PROVE  IInv'
<1>0. p \in Workers
  BY RowsOf
<1>1. CASE \E o \in Requests : ClaimOrder(p, o)
  BY <1>1, ClaimOrderKeeps
<1>2. CASE SellHeld(p)
  BY <1>2, SellHeldKeeps
<1>3. CASE LostIt(p)
  BY <1>3, LostItKeeps
<1>4. CASE Substitute(p)
  BY <1>4, SubstituteKeeps
<1>5. CASE OutOfStock(p)
  BY <1>0, <1>5, RollbackKeeps DEF OutOfStock
<1>6. CASE CommitDelivery(p)
  BY <1>6, CommitDeliveryKeeps
<1> QED BY <1>1, <1>2, <1>3, <1>4, <1>5, <1>6 DEF PaymentStep

LEMMA CancelStepKeeps ==
  ASSUME IInv, NEW c \in Cancels,
         CancelStep(c) \/ \E o \in Requests : LockOrder(c, o)
  PROVE  IInv'
<1>1. CASE \E o \in Requests : LockOrder(c, o)
  BY <1>1, LockOrderKeeps
<1>2. CASE ReleaseItem(c)
  BY <1>2, ReleaseItemKeeps
<1>3. CASE Refund(c)
  BY <1>3, RefundKeeps
<1>4. CASE GiveBackUse(c)
  BY <1>4, GiveBackUseKeeps
<1>5. CASE CommitCancel(c)
  BY <1>5, CommitCancelKeeps
<1> QED BY <1>1, <1>2, <1>3, <1>4, <1>5 DEF CancelStep

LEMMA NextKeeps == IInv /\ [Next]_vars => IInv'
<1> SUFFICES ASSUME IInv, [Next]_vars PROVE IInv'
  OBVIOUS
<1>1. ASSUME NEW w \in Workers, Abort(w) PROVE IInv'
  BY <1>1, RollbackKeeps DEF Abort, InTransaction, Ended
<1>2. CASE UNCHANGED vars
  <2>1. UNCHANGED <<order, stock, balance, journal, used, redeemed, full,
                    owner, sharers, pc, job>>
    BY <1>2 DEF vars, committed, locks
  <2>2. TypeOK' /\ AllSound'
    BY <2>1 DEF IInv, TypeOK, AllSound, SoundRequest, SoundPayment,
       SoundCancel, HoldsOrder, LineIsDead, HeldFor, Open
  <2>3. ItemsMatchOrders' /\ UsesAreCounted' /\ RedeemersCarryIt'
    BY <2>1 DEF IInv, ItemsMatchOrders, UsesAreCounted, RedeemersCarryIt,
       Open
  <2>4. WalletIsItsJournal' /\ BoughtCartsAreEmpty'
    BY <2>1 DEF IInv, WalletIsItsJournal, BoughtCartsAreEmpty,
       OneOrderPerCart, Exists
  <2> QED BY <2>2, <2>3, <2>4 DEF IInv
<1> QED
  BY <1>1, <1>2, RequestStepKeeps, PaymentStepKeeps, CancelStepKeeps,
     MarkDeadKeeps, SoftDeleteKeeps DEF Next

LEMMA Invariant == Spec => []IInv
<1> QED BY InitHolds, NextKeeps, PTL DEF Spec

(* What is committed is written at the commits and by the admin only. *)
LEMMA OnlyCommitsWrite ==
  ASSUME [Next]_vars, ~UNCHANGED committed
  PROVE  \/ \E r \in Requests : CommitOrder(r)
         \/ \E p \in Payments : CommitDelivery(p)
         \/ \E c \in Cancels : CommitCancel(c)
         \/ \E i \in Items : MarkDead(i) \/ SoftDelete(i)
<1>1. ~UNCHANGED vars
  BY DEF vars
<1>2. ASSUME NEW r \in Requests, RequestStep(r) PROVE CommitOrder(r)
  BY <1>2 DEF RequestStep, ReadSession, LockCart, CartIsEmpty, BeginDirect,
     Quote, QuoteRefused, InsertOrder, Reserve, OutOfStock, Debit, LockWallet,
     Overdraws, Redeem, RedeemRefused, StillOwing, DeadlockVictim, Rollback
<1>3. ASSUME NEW p \in Payments,
             PaymentStep(p) \/ \E o \in Requests : ClaimOrder(p, o)
      PROVE  CommitDelivery(p)
  BY <1>3 DEF PaymentStep, ClaimOrder, SellHeld, LostIt, Substitute,
     OutOfStock, Rollback
<1>4. ASSUME NEW c \in Cancels,
             CancelStep(c) \/ \E o \in Requests : LockOrder(c, o)
      PROVE  CommitCancel(c)
  BY <1>4 DEF CancelStep, LockOrder, ReleaseItem, Refund, LockWallet,
     GiveBackUse
<1>5. ASSUME NEW w \in Workers PROVE ~Abort(w)
  BY DEF Abort, Rollback
<1> QED BY <1>1, <1>2, <1>3, <1>4, <1>5 DEF Next

(* What an admin took away, and what was sold, never comes back: neither a *)
(* delivery nor a cancellation that read the item earlier overwrites it    *)
(* (sellIfStillHeld, the conditional update of releaseOrderHolds).         *)
FinalStockStays ==
  [][\A i \in Items :
       /\ stock[i].status = "sold" => stock'[i] = stock[i]
       /\ stock[i].status \in {"dead", "deleted"} =>
            stock'[i].status \in {"dead", "deleted"}]_vars

Stays(i) ==
  /\ stock[i].status = "sold" => stock'[i] = stock[i]
  /\ stock[i].status \in {"dead", "deleted"} =>
       stock'[i].status \in {"dead", "deleted"}

LEMMA FinalStock ==
  ASSUME IInv, [Next]_vars, NEW i \in Items PROVE Stays(i)
<1>0. TypeOK /\ AllSound
  BY DEF IInv
<1>1. CASE stock' = stock
  BY <1>1 DEF Stays
<1>2. ASSUME NEW r \in Requests, CommitOrder(r) PROVE Stays(i)
  <2> DEFINE x == job[r].item
  <2>1. stock[x].status = "available"
    BY <1>0, <1>2 DEF AllSound, SoundRequest, CommitOrder, Placing
  <2>2. i # x => stock'[i] = stock[i]
    BY <1>0, <1>2 DEF CommitOrder, TypeOK
  <2> QED BY <2>1, <2>2 DEF Stays
<1>3. ASSUME NEW p \in Payments, CommitDelivery(p) PROVE Stays(i)
  <2> DEFINE x == job[p].item
  <2>1. stock[x].status \in {"available", "reserved"}
    BY <1>0, <1>3 DEF AllSound, SoundPayment, CommitDelivery, HeldFor
  <2>2. i # x => stock'[i] = stock[i]
    BY <1>0, <1>3 DEF CommitDelivery, TypeOK
  <2> QED BY <2>1, <2>2 DEF Stays
<1>4. ASSUME NEW c \in Cancels, CommitCancel(c) PROVE Stays(i)
  <2> DEFINE x == job[c].item
  <2>1. x # NoOne => stock[x].status = "reserved"
    BY <1>0, <1>4 DEF AllSound, SoundCancel, CommitCancel, HeldFor, Undoing
  <2>2. i # x \/ x = NoOne => stock'[i] = stock[i]
    BY <1>0, <1>4 DEF CommitCancel, TypeOK
  <2> QED BY <2>1, <2>2 DEF Stays
<1>5. ASSUME NEW x \in Items, MarkDead(x) \/ SoftDelete(x) PROVE Stays(i)
  <2> PICK status :
         /\ Withdraw(x, status)
         /\ status \in {"dead", "deleted"}
         /\ stock[x].status # "sold"
    BY <1>5 DEF MarkDead, SoftDelete
  <2> DEFINE unit == [status |-> status, holder |-> stock[x].holder]
  <2>1. unit.status = status
    OBVIOUS
  <2>2. stock' = [stock EXCEPT ![x] = unit]
    BY DEF Withdraw
  <2> HIDE DEF unit
  <2>3. stock'[x] = unit /\ (i # x => stock'[i] = stock[i])
    BY <1>0, <2>2 DEF TypeOK
  <2> QED BY <2>1, <2>3 DEF Stays
<1>6. stock' # stock => ~UNCHANGED committed
  BY DEF committed
<1> QED BY <1>1, <1>2, <1>3, <1>4, <1>5, <1>6, OnlyCommitsWrite

-----------------------------------------------------------------------------
(* Every commit is an operation of AtomicShop.                             *)

Quoted == {"insert", "reserve"} \cup Placing

(* The credit a checkout was quoted: what the buyer asked for, up to what  *)
(* the order costs; for one the wallet pays for, at most what it costs.    *)
QuoteStands ==
  \A r \in Requests : pc[r] \in Quoted =>
    /\ job[r].spend <= Total(r)
    /\ r \notin ByWallet => job[r].spend = Min2(Asked[r], Total(r))

(* Only the quote writes the credit to spend. *)
LEMMA QuoteIsKept ==
  ASSUME TypeOK, Next, NEW r \in Requests, pc'[r] \in Quoted
  PROVE  \/ Quote(r)
         \/ pc[r] \in Quoted /\ job'[r].spend = job[r].spend
<1> DEFINE Kept == pc[r] \in Quoted /\ job'[r].spend = job[r].spend
<1>0. r \in Workers /\ job[r] \in JobType /\ TypeOK
      /\ balance[BuyerOf[r]] \in Nat
  BY RowsOf, Types
<1>1. ASSUME NEW w \in Workers, w # r, NEW step, Goto(w, step),
             job' = job \/ \E j : Note(w, j)
      PROVE  Kept
  BY <1>0, <1>1 DEF TypeOK, Goto, Note
<1>2. ASSUME NEW w \in Workers, w # r, NEW how, End(w, how) PROVE Kept
  BY <1>0, <1>2 DEF TypeOK, End
<1>3. ASSUME NEW how \in {"done", "rolledback"}, End(r, how) PROVE FALSE
  BY <1>0, <1>3 DEF TypeOK, End, Quoted, Placing
<1>4. ASSUME NEW q \in Requests, q # r, RequestStep(q) PROVE Kept
  BY <1>1, <1>2, <1>4, RowsOf
     DEF RequestStep, ReadSession, LockCart, CartIsEmpty, BeginDirect, Quote,
         QuoteRefused, InsertOrder, Reserve, OutOfStock, Debit, LockWallet,
         Overdraws, Redeem, RedeemRefused, StillOwing, CommitOrder,
         DeadlockVictim, Rollback
<1>5. ASSUME NEW p \in Payments,
             PaymentStep(p) \/ \E o \in Requests : ClaimOrder(p, o)
      PROVE  Kept
  BY <1>1, <1>2, <1>5, RowsOf
     DEF PaymentStep, ClaimOrder, SellHeld, LostIt, Substitute, OutOfStock,
         CommitDelivery, Rollback
<1>6. ASSUME NEW c \in Cancels,
             CancelStep(c) \/ \E o \in Requests : LockOrder(c, o)
      PROVE  Kept
  BY <1>1, <1>2, <1>6, RowsOf
     DEF CancelStep, LockOrder, ReleaseItem, Refund, LockWallet, GiveBackUse,
         CommitCancel
<1>7. ASSUME NEW w \in Workers, Abort(w) PROVE Kept
  BY <1>2, <1>3, <1>7 DEF Abort, Rollback
<1>8. ASSUME NEW i \in Items, MarkDead(i) \/ SoftDelete(i) PROVE Kept
  BY <1>8 DEF MarkDead, SoftDelete, Withdraw
<1>9. ASSUME RequestStep(r) PROVE Quote(r) \/ Kept
  <2>1. ASSUME NEW step \in {"session", "quote"}, Goto(r, step) PROVE FALSE
    BY <1>0, <2>1 DEF TypeOK, Goto, Quoted, Placing
  <2>2. CASE \/ ReadSession(r) \/ LockCart(r) \/ BeginDirect(r)
    BY <2>1, <2>2 DEF ReadSession, LockCart, BeginDirect
  <2>3. CASE \/ CartIsEmpty(r) \/ QuoteRefused(r) \/ OutOfStock(r)
             \/ Overdraws(r) \/ RedeemRefused(r) \/ StillOwing(r)
             \/ CommitOrder(r) \/ DeadlockVictim(r)
    BY <1>3, <2>3 DEF CartIsEmpty, QuoteRefused, OutOfStock, Overdraws,
       RedeemRefused, StillOwing, CommitOrder, DeadlockVictim, Rollback
  <2>4. CASE InsertOrder(r) \/ Redeem(r)
    BY <2>4 DEF InsertOrder, Redeem, Quoted, Placing
  <2>5. CASE Reserve(r)
    <3>1. PICK i \in Items : Note(r, [job[r] EXCEPT !.item = i])
      BY <2>5 DEF Reserve
    <3>2. job'[r] = [job[r] EXCEPT !.item = i]
      BY <1>0, <3>1 DEF TypeOK, Note
    <3>3. job'[r].spend = job[r].spend
      BY <1>0, <3>2, JobUpdates
    <3> QED BY <2>5, <3>3 DEF Reserve, Quoted
  <2>6. CASE Debit(r)
    <3>1. Note(r, [job[r] EXCEPT !.balance = balance[BuyerOf[r]]])
      BY <2>6 DEF Debit, LockWallet
    <3>2. job'[r] = [job[r] EXCEPT !.balance = balance[BuyerOf[r]]]
      BY <1>0, <3>1 DEF TypeOK, Note
    <3>3. job'[r].spend = job[r].spend
      BY <1>0, <3>2, JobUpdates
    <3> QED BY <2>6, <3>3 DEF Debit, Quoted, Placing
  <2> QED BY <1>9, <2>2, <2>3, <2>4, <2>5, <2>6 DEF RequestStep
<1> QED BY <1>4, <1>5, <1>6, <1>7, <1>8, <1>9 DEF Next

LEMMA QuoteStep ==
  ASSUME TypeOK, QuoteStands, [Next]_vars PROVE QuoteStands'
<1>1. CASE UNCHANGED vars
  BY <1>1 DEF vars, QuoteStands
<1>2. CASE Next
  <2>1. ASSUME NEW r \in Requests, pc'[r] \in Quoted
        PROVE  /\ job'[r].spend <= Total(r)
               /\ r \notin ByWallet => job'[r].spend = Min2(Asked[r], Total(r))
    <3>1. CASE Quote(r)
      <4>1. /\ r \in Workers /\ job[r] \in JobType /\ job[r].seen \in Nat
            /\ Asked[r] \in Nat /\ Total(r) \in Nat
        BY RowsOf, Types, CheckoutAssumption DEF Total
      <4>2. /\ Spend(r) \in Nat /\ Spend(r) <= Total(r)
            /\ r \notin ByWallet => Spend(r) = Min2(Asked[r], Total(r))
        BY <4>1 DEF Spend, Min2
      <4>3. job'[r] = [job[r] EXCEPT !.spend = Spend(r)]
        BY <3>1, <4>1 DEF Quote, Note, TypeOK
      <4>4. job'[r].spend = Spend(r)
        BY <4>1, <4>2, <4>3, JobUpdates
      <4> QED BY <4>2, <4>4
    <3>2. CASE pc[r] \in Quoted /\ job'[r].spend = job[r].spend
      BY <3>2 DEF QuoteStands
    <3> QED BY <1>2, <2>1, <3>1, <3>2, QuoteIsKept
  <2> QED BY <2>1 DEF QuoteStands
<1> QED BY <1>1, <1>2

LEMMA QuoteInvariant == Spec => [](IInv /\ QuoteStands)
<1>1. Init => IInv /\ QuoteStands
  BY InitHolds, RowsOf DEF Init, QuoteStands, Quoted, Placing
<1>2. IInv /\ QuoteStands /\ [Next]_vars => (IInv /\ QuoteStands)'
  BY NextKeeps, QuoteStep DEF IInv
<1> QED BY <1>1, <1>2, PTL DEF Spec

(* The movement at a commit starts from the balance of that moment. *)
LEMMA MovesAtOnce ==
  ASSUME NEW b, NEW o, NEW reason, NEW delta \in Int, delta # 0,
         balance[b] + delta >= 0,
         MoveWallet(b, o, reason, delta, balance[b])
  PROVE  Shop!Move(b, o, reason, delta)
BY DEF MoveWallet, Shop!Move

LEMMA OrderIsPlaced ==
  ASSUME IInv, QuoteStands, NEW r \in Requests, CommitOrder(r)
  PROVE  Shop!Place(r)
<1> DEFINE b == BuyerOf[r]
           i == job[r].item
           spend == job[r].spend
<1>0. /\ r \in Workers /\ b \in Buyers /\ spend \in Nat /\ Total(r) \in Nat
      /\ SoundRequest(r) /\ TypeOK /\ pc[r] = "commit"
      /\ Asked[r] \in Nat /\ balance[b] \in Nat
  BY RowsOf, Types, CheckoutAssumption DEF IInv, AllSound, CommitOrder, Total
<1>1. /\ i \in Items /\ stock[i].status = "available"
      /\ order[r].status = "none"
      /\ r \in FromCart => full[b]
      /\ spend > 0 => job[r].balance = balance[b] /\ spend <= balance[b]
      /\ r \in WithVoucher => used < Limit /\ redeemed[b] = NoOne
  BY <1>0 DEF SoundRequest, Placing, Working
<1>2. Shop!Cost(r) = Total(r)
  BY DEF Shop!Cost, Total
<1>3. Shop!Due(r) = spend
  <2>1. spend <= Total(r)
        /\ (r \notin ByWallet => spend = Min2(Asked[r], Total(r)))
    BY <1>0 DEF QuoteStands, Quoted, Placing
  <2>2. r \in ByWallet => spend = Total(r)
    BY <1>0, <2>1 DEF CommitOrder, Owing
  <2> QED BY <1>0, <1>2, <2>1, <2>2 DEF Shop!Due, Min2
<1>4. /\ Shop!Becomes(r, IF spend = Total(r) THEN "delivered" ELSE "pending",
                       i, spend)
      /\ Shop!Put(i, IF spend = Total(r) THEN "sold" ELSE "reserved", r)
  BY DEF CommitOrder, Shop!Becomes, Shop!Put
<1>5. Shop!Move(b, r, "order_payment", -spend)
  <2>1. CASE spend > 0
    <3>1. MoveWallet(b, r, "order_payment", -spend, balance[b])
      BY <1>1, <2>1 DEF CommitOrder
    <3>2. -spend \in Int /\ -spend # 0 /\ balance[b] + (-spend) >= 0
      BY <1>0, <1>1, <2>1
    <3> QED BY <3>1, <3>2, MovesAtOnce
  <2>2. CASE ~(spend > 0)
    <3>1. -spend = 0
      BY <1>0, <2>2
    <3>2. UNCHANGED <<balance, journal>>
      BY <2>2 DEF CommitOrder
    <3> QED BY <3>1, <3>2 DEF Shop!Move
  <2> QED BY <2>1, <2>2
<1>6. /\ used' = IF r \in WithVoucher THEN used + 1 ELSE used
      /\ redeemed' = IF r \in WithVoucher THEN [redeemed EXCEPT ![b] = r]
                     ELSE redeemed
  BY DEF CommitOrder, Redeems
<1>7. full' = IF r \in FromCart THEN [full EXCEPT ![b] = FALSE] ELSE full
  <2>1. full' = [full EXCEPT ![b] = full[b] /\ r \notin FromCart]
    BY DEF CommitOrder
  <2>2. CASE r \in FromCart
    <3>1. (full[b] /\ r \notin FromCart) = FALSE
      BY <2>2
    <3> QED BY <2>1, <2>2, <3>1
  <2>3. CASE r \notin FromCart
    <3>1. (full[b] /\ r \notin FromCart) = full[b]
      BY <1>0, <2>3 DEF TypeOK
    <3>2. full' = [full EXCEPT ![b] = full[b]]
      BY <2>1, <3>1
    <3> QED BY <1>0, <2>3, <3>2 DEF TypeOK
  <2> QED BY <2>2, <2>3
<1> QED BY <1>1, <1>2, <1>3, <1>4, <1>5, <1>6, <1>7 DEF Shop!Place

LEMMA OrderIsDelivered ==
  ASSUME IInv, NEW p \in Payments, CommitDelivery(p)
  PROVE  \E o \in Requests : Shop!Deliver(o)
<1> DEFINE o == job[p].order
           i == job[p].item
<1>1. /\ o \in Requests /\ Open(o) /\ i \in Items
      /\ \/ i = order[o].item /\ HeldFor(i, o)
         \/ stock[i].status = "available" /\ LineIsDead(o)
  BY DEF IInv, AllSound, CommitDelivery, SoundPayment, HoldsOrder
<1>2. /\ Shop!Becomes(o, "delivered", i, order[o].spent)
      /\ Shop!Put(i, "sold", o)
      /\ UNCHANGED <<balance, journal, used, redeemed, full>>
  BY DEF CommitDelivery, Rewrite, Shop!Becomes, Shop!Put
<1>3. stock[i] = [status |-> "reserved", holder |-> o]
      \/ stock[i].status = "available"
  BY <1>1, Types DEF IInv, HeldFor, StockType
<1> QED BY <1>1, <1>2, <1>3 DEF Shop!Deliver, Open, LineIsDead, HeldFor

LEMMA OrderIsCancelled ==
  ASSUME IInv, NEW c \in Cancels, CommitCancel(c)
  PROVE  \E o \in Requests : Shop!Cancel(o)
<1> DEFINE o == job[c].order
           b == BuyerOf[o]
           i == job[c].item
           spent == order[o].spent
<1>1. /\ o \in Requests /\ Open(o) /\ b \in Buyers
      /\ \/ i = order[o].item /\ i \in Items /\ HeldFor(i, o)
         \/ i = NoOne /\ LineIsDead(o)
      /\ spent > 0 => job[c].balance = balance[b]
      /\ spent \in Nat /\ balance[b] \in Nat
  BY RowsOf, Types
     DEF IInv, AllSound, CommitCancel, SoundCancel, HoldsOrder, Undoing
<1>2. Shop!Becomes(o, "cancelled", NoOne, spent)
  BY DEF CommitCancel, Rewrite, Shop!Becomes
<1>3. IF stock[order[o].item].status = "dead" THEN UNCHANGED stock
      ELSE Shop!Put(order[o].item, "available", NoOne)
  <2>1. stock' = IF i = NoOne THEN stock ELSE
          [stock EXCEPT ![i] = [status |-> "available", holder |-> NoOne]]
    BY DEF CommitCancel
  <2>2. CASE i \in Items /\ i = order[o].item /\ HeldFor(i, o)
    <3>1. i # NoOne
      BY <2>2, RowsOf
    <3> QED BY <2>1, <2>2, <3>1 DEF HeldFor, Shop!Put
  <2>3. CASE i = NoOne /\ LineIsDead(o)
    BY <2>1, <2>3 DEF LineIsDead
  <2> QED BY <1>1, <2>2, <2>3
<1>4. Shop!Move(b, o, "order_refund", spent)
  <2>1. CASE spent > 0
    <3>1. MoveWallet(b, o, "order_refund", spent, balance[b])
      BY <1>1, <2>1 DEF CommitCancel
    <3>2. spent \in Int /\ spent # 0 /\ balance[b] + spent >= 0
      BY <1>1, <2>1
    <3> QED BY <3>1, <3>2, MovesAtOnce
  <2>2. CASE ~(spent > 0)
    <3>1. spent = 0
      BY <1>1, <2>2
    <3>2. UNCHANGED <<balance, journal>>
      BY <2>2 DEF CommitCancel
    <3> QED BY <3>1, <3>2 DEF Shop!Move
  <2> QED BY <2>1, <2>2
<1>5. o \in WithVoucher => used > 0
  <2> SUFFICES ASSUME o \in WithVoucher PROVE used > 0
    OBVIOUS
  <2> DEFINE S == {d \in Buyers : redeemed[d] # NoOne}
  <2>1. redeemed[b] = o /\ o # NoOne
    BY <1>1, RowsOf DEF IInv, UsesAreCounted, Open
  <2>2. b \in S /\ IsFiniteSet(S)
    BY <1>1, <2>1, FS_Subset, CheckoutAssumption
  <2>3. Cardinality(S) # 0
    BY <2>2, FS_EmptySet
  <2>4. used = Cardinality(S) /\ used \in Nat
    BY DEF IInv, UsesAreCounted, TypeOK
  <2> QED BY <2>3, <2>4
<1>6. /\ used' = IF o \in WithVoucher THEN used - 1 ELSE used
      /\ redeemed' = IF o \in WithVoucher
                     THEN [redeemed EXCEPT ![b] = NoOne] ELSE redeemed
      /\ UNCHANGED full
  BY <1>5 DEF CommitCancel
<1> QED BY <1>1, <1>2, <1>3, <1>4, <1>6 DEF Shop!Cancel, Open

LEMMA UnitIsTakenAway ==
  ASSUME NEW i \in Items, MarkDead(i) \/ SoftDelete(i)
  PROVE  Shop!TakeAway(i)
BY DEF MarkDead, SoftDelete, Withdraw, PointedAt, Shop!TakeAway, Shop!Put

LEMMA CommittedIsShop == (UNCHANGED committed) => UNCHANGED Shop!shop
BY DEF committed, Shop!shop

LEMMA ShopStep ==
  ASSUME IInv, QuoteStands, [Next]_vars PROVE [Shop!Next]_(Shop!shop)
<1>1. CASE UNCHANGED committed
  BY <1>1, CommittedIsShop
<1>2. CASE ~UNCHANGED committed
  BY <1>2, OnlyCommitsWrite, OrderIsPlaced, OrderIsDelivered,
     OrderIsCancelled, UnitIsTakenAway DEF Shop!Next
<1> QED BY <1>1, <1>2

-----------------------------------------------------------------------------
(* What follows, for every number of checkouts, deliveries, cancellations, *)
(* buyers and items.                                                       *)

(* Every variable keeps its type: no balance and no use count goes below   *)
(* zero (adjustWallet, releaseVoucherUse).                                 *)
THEOREM TypeCorrect == Spec => []TypeOK
<1>1. IInv => TypeOK
  BY DEF IInv
<1> QED BY <1>1, Invariant, PTL

(* No two orders hold or are delivered the same stock item, no reservation *)
(* outlives its order, and an open order keeps its item unless an admin    *)
(* declared it dead (allocateOneAvailableStock, releaseOrderHolds).        *)
THEOREM ItemsAgree == Spec => []ItemsMatchOrders
<1>1. IInv => ItemsMatchOrders
  BY DEF IInv
<1> QED BY <1>1, Invariant, PTL

(* No movement of a wallet is lost to another that read the balance before *)
(* it (adjustWallet).                                                      *)
THEOREM WalletsAddUp == Spec => []WalletIsItsJournal
<1>1. IInv => WalletIsItsJournal
  BY DEF IInv
<1> QED BY <1>1, Invariant, PTL

(* The voucher's counter is exact and within its limit (bumpVoucherUsage,  *)
(* releaseVoucherUse).                                                     *)
THEOREM UsesStayCounted == Spec => []UsesAreCounted
<1>1. IInv => UsesAreCounted
  BY DEF IInv
<1> QED BY <1>1, Invariant, PTL

(* One cart becomes at most one order (lockCartForCheckout).               *)
THEOREM CartsSellOnce == Spec => []OneOrderPerCart
<1>1. IInv => OneOrderPerCart
  BY DEF IInv, BoughtCartsAreEmpty
<1> QED BY <1>1, Invariant, PTL

(* A sold item stays sold to its order, and a dead or deleted one is never *)
(* put back on sale by a transaction that read it earlier                  *)
(* (sellIfStillHeld, releaseOrderHolds).                                   *)
THEOREM FinalStockNeverReturns == Spec => FinalStockStays
<1>1. IInv /\ [Next]_vars => [\A i \in Items :
         /\ stock[i].status = "sold" => stock'[i] = stock[i]
         /\ stock[i].status \in {"dead", "deleted"} =>
              stock'[i].status \in {"dead", "deleted"}]_vars
  BY FinalStock DEF Stays
<1> QED BY <1>1, Invariant, PTL DEF Spec, FinalStockStays

(* What is committed changes as if checkouts, deliveries, cancellations    *)
(* and the admin's steps ran one at a time, each on what is committed at   *)
(* that moment: the row locks of completeCartOrderWithWalletCredit,        *)
(* approveOrder, cancelOrder, adjustWallet and bumpVoucherUsage make every *)
(* interleaving, abort and deadlock equal to some serial order.            *)
THEOREM CheckoutIsSerialisable == Spec => ShopKept
<1>1. Init => Shop!Init
  BY DEF Init, NoOrder, Shop!Init
<1>2. IInv /\ QuoteStands /\ [Next]_vars => [Shop!Next]_(Shop!shop)
  BY ShopStep
<1> QED BY <1>1, <1>2, QuoteInvariant, PTL DEF Spec, ShopKept, Shop!Spec

=============================================================================
