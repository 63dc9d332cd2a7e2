--------------------------- MODULE AccrualContract --------------------------
(***************************************************************************)
(* What the reward ledger promises about credits, told by what a user may  *)
(* still earn and not by a history: every user has a credit of each token  *)
(* that midnight clears, a rule pays into it up to its daily cap and is    *)
(* then closed to the user for its cooldown, and no idempotency key and no *)
(* once-only source is paid for twice, ever.                               *)
(*                                                                         *)
(* RewardLedger implements this contract without any of these counters: it *)
(* reads them off the entries.                                             *)
(***************************************************************************)
EXTENDS Integers

CONSTANTS
  Users, Sources, Keys, None, Rules, Tokens, DayLength,
  Bonuses   \* positive amounts given by hand

VARIABLES
  time,     \* the instant of the latest step
  credit,   \* what a user was credited of a token on the day of that instant
  keys,     \* the idempotency keys each user has used
  sources,  \* the once-only sources each user was paid for, by rule
  opens     \* when a rule is open to a user again

vars == <<time, credit, keys, sources, opens>>

Nothing == [p \in Users \X Tokens |-> 0]

(* The credits as the clock shows the instant at. *)
CreditAt(at) == IF at \div DayLength = time \div DayLength THEN credit ELSE Nothing

Later == time' \in Nat /\ time <= time'

Credited(user, token, amount) ==
  [p \in Users \X Tokens |-> CreditAt(time')[p] + (IF p = <<user, token>> THEN amount ELSE 0)]

Init ==
  /\ time = 0 /\ credit = Nothing
  /\ keys = {} /\ sources = {}
  /\ opens = [p \in Users \X DOMAIN Rules |-> 0]

(* A rule pays, all its limits taken at the instant of the credit. *)
Earn(user, rule, quantity, source, key) ==
  LET r      == Rules[rule]
      amount == r.amount * quantity
  IN  /\ Later
      /\ opens[user, rule] <= time'
      /\ <<user, key>> \notin keys
      /\ <<user, rule, source>> \notin sources
      /\ r.requireSource => source # None
      /\ opens' = [opens EXCEPT ![<<user, rule>>] = time' + r.cooldown]
      /\ keys' = IF key # None THEN keys \cup {<<user, key>>} ELSE keys
      /\ sources' = IF r.uniquePerSource /\ source # None
                    THEN sources \cup {<<user, rule, source>>} ELSE sources
      /\ CreditAt(time')[user, r.token] + amount <= r.dailyCap
      /\ credit' = Credited(user, r.token, amount)

(* A bonus is under no limit. *)
Bonus(user, token, amount) ==
  /\ Later
  /\ UNCHANGED <<keys, sources, opens>>
  /\ credit' = Credited(user, token, amount)

Pass ==
  /\ Later
  /\ credit' = CreditAt(time')
  /\ UNCHANGED <<keys, sources, opens>>

Next ==
  \/ Pass
  \/ \E user \in Users, rule \in DOMAIN Rules, source \in Sources \cup {None},
        key \in Keys \cup {None} :
       \E quantity \in 1..Rules[rule].maxQuantity : Earn(user, rule, quantity, source, key)
  \/ \E user \in Users, token \in Tokens, amount \in Bonuses : Bonus(user, token, amount)

Spec == Init /\ [][Next]_vars
=============================================================================
