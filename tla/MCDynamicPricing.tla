-------------------------- MODULE MCDynamicPricing --------------------------
(* Instances of DynamicPricing for model checking. *)
EXTENDS DynamicPricing

(* Prices that do not divide, stock above, at and below a threshold of     *)
(* two, an end at instant 50; one item disabled, one reserved beyond what  *)
(* there is, by one unit and by two.                                       *)
MCItems ==
  LET Item(price, onHand, reserved, ends) ==
        [price |-> price, onHand |-> onHand, reserved |-> reserved, threshold |-> ends[1],
         expiresAt |-> ends[2], active |-> TRUE]
  IN  {Item(price, 3, reserved, ends) : price \in {998, 1000}, reserved \in 0..2,
                                        ends \in {<<None, None>>, <<None, 50>>, <<2, 50>>}}
        \cup {Item(1000, 3, reserved, <<2, 50>>) : reserved \in 4..5}
        \cup {[Item(1000, 3, 0, <<None, None>>) EXCEPT !.active = FALSE]}

Plain(type) ==
  [type |-> type, percent |-> None, amount |-> None, fixed |-> None, minQuantity |-> None,
   from |-> None, to |-> None, max |-> None, used |-> 0, priority |-> 100, active |-> TRUE]

(* A fractional percentage, one above 100 for a time, an amount above the  *)
(* price for three units, a price used up, a rule without its field, and   *)
(* clearances with and without fields.                                     *)
MCRuleRecords ==
  {[Plain("PERCENT_OFF") EXCEPT !.percent = 3490],
   [Plain("PERCENT_OFF") EXCEPT !.percent = 12000, !.from = 2, !.to = 26, !.max = 5, !.used = 4],
   [Plain("AMOUNT_OFF") EXCEPT !.amount = 1500, !.minQuantity = 3],
   [Plain("AMOUNT_OFF") EXCEPT !.percent = 1000],
   [Plain("FIXED_PRICE") EXCEPT !.fixed = 700, !.max = 1, !.used = 1],
   Plain("BOGO"),
   [Plain("CLEARANCE") EXCEPT !.priority = 1],
   [Plain("CLEARANCE") EXCEPT !.fixed = 650, !.percent = 9000]}

(* An offer for a time, one with its last unit left, one without a price,  *)
(* and one that is not live.                                               *)
MCOfferRecords ==
  {[status |-> "LIVE", price |-> 650, from |-> 26, to |-> 38, total |-> None, claimed |-> 0],
   [status |-> "LIVE", price |-> 780, from |-> None, to |-> None, total |-> 2, claimed |-> 1],
   [status |-> "LIVE", price |-> 1, from |-> None, to |-> None, total |-> 2, claimed |-> 2],
   [status |-> "LIVE", price |-> None, from |-> None, to |-> None, total |-> None, claimed |-> 0],
   [status |-> "PAUSED", price |-> 10, from |-> None, to |-> None, total |-> None, claimed |-> 0]}

MCStatuses == {"ACTIVE", "PAUSED"}
MCInstants == {1, 2, 26, 38, 45, 50}
MCOverrides == {None, 0, 1200}
MCLostCents == {<<1000, 3490>>}
=============================================================================
