------------------------ MODULE NotificationDelivery ------------------------
(***************************************************************************)
(* What the notification outbox promises to those who enqueue: a row is    *)
(* reported as sent only after its message reached the recipient, what was *)
(* sent or deliberately skipped is settled for ever, and what was given up *)
(* comes back only when an admin says so.                                  *)
(*                                                                         *)
(* It promises neither that a message arrives once nor that it stays away  *)
(* after the row was settled otherwise: Telegram and SMTP take part in no  *)
(* transaction, and a slow send may land late.                             *)
(***************************************************************************)
CONSTANT Rows

VARIABLES
    state,     \* what the shop believes of each row
    reached    \* rows whose message the recipient has got

States == {"absent", "queued", "sent", "skipped", "given_up"}

Move(r, s) == state' = [state EXCEPT ![r] = s] /\ UNCHANGED reached

Init == state = [r \in Rows |-> "absent"] /\ reached = {}

Enqueue(r) == state[r] = "absent" /\ Move(r, "queued")

Reach(r) ==
    /\ state[r] # "absent"
    /\ reached' = reached \cup {r}
    /\ UNCHANGED state

ReportSent(r) == state[r] = "queued" /\ r \in reached /\ Move(r, "sent")
Skip(r)       == state[r] = "queued" /\ Move(r, "skipped")
GiveUp(r)     == state[r] = "queued" /\ Move(r, "given_up")
Retry(r)      == state[r] = "given_up" /\ Move(r, "queued")

Next == \E r \in Rows :
    Enqueue(r) \/ Reach(r) \/ ReportSent(r) \/ Skip(r) \/ GiveUp(r) \/ Retry(r)

Spec == Init /\ [][Next]_<<state, reached>>
=============================================================================
