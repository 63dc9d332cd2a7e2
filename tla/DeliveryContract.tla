-------------------------- MODULE DeliveryContract --------------------------
(***************************************************************************)
(* What the notification module promises about one job, whatever its       *)
(* internal statuses: a job is tried at most `budget' times, only while it *)
(* is pending; it ends delivered, abandoned (budget used up) or handed     *)
(* over to fallback jobs; delivered and abandoned are final; a handed-over *)
(* job may be reopened by hand while budget is left.                       *)
(*                                                                         *)
(* NotificationQueue implements this contract when a single drain runs at  *)
(* a time.                                                                 *)
(***************************************************************************)
EXTENDS Naturals, Sequences

CONSTANT Budgets   \* the values maxAttempts may take

VARIABLE ledger    \* one entry per job, in creation order

Entry(b) == [budget |-> b, tried |-> 0, outcome |-> "pending"]

Pending(j) == ledger[j].outcome = "pending"

Init == ledger = << >>

Submit == \E b \in Budgets : ledger' = Append(ledger, Entry(b))

Try(j) ==
  /\ Pending(j)
  /\ ledger[j].tried < ledger[j].budget
  /\ ledger' = [ledger EXCEPT ![j].tried = @ + 1]

Deliver(j) ==
  /\ Pending(j)
  /\ ledger[j].tried > 0
  /\ ledger' = [ledger EXCEPT ![j].outcome = "delivered"]

Abandon(j) ==
  /\ Pending(j)
  /\ ledger[j].tried = ledger[j].budget
  /\ ledger' = [ledger EXCEPT ![j].outcome = "abandoned"]

(* One job or two, one per fallback channel, take over with the same budget. *)
HandOver(j) ==
  LET closed    == [ledger EXCEPT ![j].outcome = "handed_over"]
      successor == Entry(ledger[j].budget)
  IN  /\ Pending(j)
      /\ ledger[j].tried > 0
      /\ \/ ledger' = closed \o <<successor>>
         \/ ledger' = closed \o <<successor, successor>>

Reopen(j) ==
  /\ ledger[j].outcome = "handed_over"
  /\ ledger[j].tried < ledger[j].budget
  /\ ledger' = [ledger EXCEPT ![j].outcome = "pending"]

Next ==
  \/ Submit
  \/ \E j \in DOMAIN ledger :
       Try(j) \/ Deliver(j) \/ Abandon(j) \/ HandOver(j) \/ Reopen(j)

Spec == Init /\ [][Next]_ledger
=============================================================================
