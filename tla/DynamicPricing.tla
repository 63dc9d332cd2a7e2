--------------------------- MODULE DynamicPricing ---------------------------
(***************************************************************************)
(* Price quotes: modules/business-ops/dynamic-pricing.ts and the handlers  *)
(* of business-ops.service.ts that write what a quote reads.               *)
(*                                                                         *)
(* One item of one business, with the rules and offers that the filter of  *)
(* quoteDynamicPrice leaves for it (BusinessOps has the filter).  The      *)
(* handlers check each field by itself: an item may reserve more than it   *)
(* has, an amount off may exceed the price, a window may end before it     *)
(* starts.  A quote only reads; a client asks for any quantity, any        *)
(* instant and with or without an override.                                *)
(*                                                                         *)
(* Prices are in cents, instants in hours, percentages in hundredths of a  *)
(* percent.  The code computes a percentage in double precision: where the *)
(* exact result is a whole number of cents and the percentage is not a     *)
(* whole one, it may come out one cent low (1000 cents less 34.9 percent   *)
(* are 650); LostCents are the pairs for which it does.                    *)
(***************************************************************************)
EXTENDS Integers

CONSTANTS
  Items, RuleRecords, OfferRecords,  \* what requests write
  RuleIds, OfferIds,                 \* what createId may return, in the order of localeCompare
  Statuses,                          \* of the business
  Quantities, Instants, Overrides,   \* what clients ask for
  LostCents,                         \* pairs of a price and a percentage
  None                               \* an absent field

Optional(S) == S \cup {None}

ItemType ==
  [price : Nat, onHand : Nat, reserved : Nat, threshold : Optional(Nat),
   expiresAt : Optional(Int), active : BOOLEAN]

RuleTypes == {"PERCENT_OFF", "AMOUNT_OFF", "FIXED_PRICE", "BOGO", "CLEARANCE"}

RuleType ==
  [type : RuleTypes, percent : Optional(Nat), amount : Optional(Nat), fixed : Optional(Nat),
   minQuantity : Optional(Nat), from : Optional(Int), to : Optional(Int),
   max : Optional(Nat), used : Nat, priority : Nat, active : BOOLEAN]

OfferType ==
  [status : {"DRAFT", "LIVE", "PAUSED", "EXPIRED", "ARCHIVED"}, price : Optional(Nat),
   from : Optional(Int), to : Optional(Int), total : Optional(Nat), claimed : Nat]

BlockedReasons ==
  {"BUSINESS_INACTIVE", "INVENTORY_DISABLED", "EXPIRED", "OUT_OF_STOCK", "INSUFFICIENT_STOCK"}

(* The pairs of which double precision may lose a cent. *)
MayLoseACent(base, bounded) ==
  /\ base > 0 /\ bounded < 10000 /\ bounded % 100 # 0
  /\ (base * (10000 - bounded)) % 10000 = 0

ASSUME ConstantsAssumption ==
  /\ None \notin Int \cup BlockedReasons
  /\ Items \subseteq ItemType /\ RuleRecords \subseteq RuleType /\ OfferRecords \subseteq OfferType
  /\ Statuses \subseteq {"DRAFT", "ACTIVE", "PAUSED", "ARCHIVED"}
  /\ RuleIds \subseteq Nat \ {0} /\ OfferIds \subseteq Nat \ {0}
  /\ Quantities \subseteq Nat \ {0} /\ Instants \subseteq Int /\ Overrides \subseteq Optional(Nat)
  /\ LostCents \subseteq Nat \X Nat
  /\ \A l \in LostCents : MayLoseACent(l[1], l[2])

VARIABLES
  status,  \* of the business
  item,    \* the item asked for
  rules,   \* the pricing rules that concern it, by id
  offers   \* the offers that concern it, by id

vars == <<status, item, rules, offers>>

-----------------------------------------------------------------------------
(* Prices. *)

NormalizeCents(value) == IF value > 0 THEN value ELSE 0

MutantApplyPercentOff(base, percent) ==
  LET bounded == IF percent > 10000 THEN 10000 ELSE percent
  IN  (base * (10000 - bounded) + 5000) \div 10000
ApplyPercentOff(base, percent) ==
  LET bounded == IF percent > 10000 THEN 10000 ELSE percent
      lost == IF <<base, bounded>> \in LostCents THEN 1 ELSE 0
  IN  NormalizeCents((base * (10000 - bounded)) \div 10000 - lost)

(* Every second unit is free; the cents that do not divide are not charged. *)
HalfFree(base, quantity) == (((quantity + 1) \div 2) * base) \div quantity

PercentPrice(base, rule) ==
  IF rule.percent = None THEN None ELSE ApplyPercentOff(base, rule.percent)

AmountPrice(base, rule) ==
  IF rule.amount = None THEN None ELSE NormalizeCents(base - rule.amount)

(* A clearance uses the first of the fields that is there, or takes 20     *)
(* percent off.                                                            *)
ClearancePrice(base, rule) ==
  IF rule.fixed # None THEN rule.fixed
  ELSE IF rule.percent # None THEN PercentPrice(base, rule)
  ELSE IF rule.amount # None THEN AmountPrice(base, rule)
  ELSE ApplyPercentOff(base, 2000)

(* None: the rule lacks the field of its type, or needs two units.         *)
RulePrice(base, quantity, rule) ==
  CASE rule.type = "PERCENT_OFF" -> PercentPrice(base, rule)
    [] rule.type = "AMOUNT_OFF" -> AmountPrice(base, rule)
    [] rule.type = "FIXED_PRICE" -> rule.fixed
    [] rule.type = "BOGO" -> IF quantity >= 2 THEN HalfFree(base, quantity) ELSE None
    [] rule.type = "CLEARANCE" -> ClearancePrice(base, rule)

-----------------------------------------------------------------------------
(* What applies. *)

WithinWindow(at, r) == (r.from # None => at >= r.from) /\ (r.to # None => at <= r.to)

Live(offer, at) ==
  /\ offer.status = "LIVE" /\ offer.price # None
  /\ WithinWindow(at, offer)
  /\ offer.total # None => offer.claimed < offer.total

Applies(rule, quantity, at) ==
  /\ rule.active
  /\ WithinWindow(at, rule)
  /\ rule.minQuantity # None => quantity >= rule.minQuantity
  /\ rule.max # None => rule.used < rule.max
  /\ RulePrice(item.price, quantity, rule) # None

Available == NormalizeCents(item.onHand - item.reserved)

(* Why an item cannot be bought, the first reason that holds; or None.     *)
BlockedReason(quantity, at) ==
  IF status # "ACTIVE" THEN "BUSINESS_INACTIVE"
  ELSE IF ~item.active THEN "INVENTORY_DISABLED"
  ELSE IF item.expiresAt # None /\ at >= item.expiresAt THEN "EXPIRED"
  ELSE IF Available = 0 THEN "OUT_OF_STOCK"
  ELSE IF quantity > Available THEN "INSUFFICIENT_STOCK"
  ELSE None

Purchasable(quantity, at) == BlockedReason(quantity, at) = None

ExpiryClearanceTiers ==
  <<[hours |-> 12, percent |-> 3500], [hours |-> 24, percent |-> 2500],
    [hours |-> 48, percent |-> 1500]>>

(* The tiers an item is in that long before it expires.                    *)
MutantFittingTiers(at) ==
  {n \in DOMAIN ExpiryClearanceTiers :
     item.expiresAt # None /\ item.expiresAt > at
       /\ item.expiresAt - at >= ExpiryClearanceTiers[n].hours}
FittingTiers(at) ==
  {n \in DOMAIN ExpiryClearanceTiers :
     item.expiresAt # None /\ item.expiresAt > at
       /\ item.expiresAt - at <= ExpiryClearanceTiers[n].hours}

-----------------------------------------------------------------------------
(* The quote. *)

SourcePrecedence ==
  [MANUAL_OVERRIDE |-> 0, OFFER |-> 1, PRICING_RULE |-> 2, EXPIRY_CLEARANCE |-> 3,
   STOCK_THRESHOLD |-> 4, BASE |-> 5]

(* What decides between candidates of the same price and precedence: the   *)
(* priority and then the id of a rule, the id of an offer.                 *)
Candidate(source, price, priority, id) ==
  [source |-> source, price |-> price, priority |-> priority, id |-> id]

Base == {Candidate("BASE", item.price, 0, 0)}

OfferCandidates(at) ==
  {Candidate("OFFER", offers[o].price, 0, o) : o \in {o \in DOMAIN offers : Live(offers[o], at)}}

PricingRuleCandidates(quantity, at) ==
  {Candidate("PRICING_RULE", RulePrice(item.price, quantity, rules[r]), rules[r].priority, r) :
     r \in {r \in DOMAIN rules : Applies(rules[r], quantity, at)}}

MutantStockThreshold ==
  IF item.threshold # None /\ Available >= item.threshold
  THEN {Candidate("STOCK_THRESHOLD", ApplyPercentOff(item.price, 1000), 0, 0)}
  ELSE {}
StockThreshold ==
  IF item.threshold # None /\ Available <= item.threshold
  THEN {Candidate("STOCK_THRESHOLD", ApplyPercentOff(item.price, 1000), 0, 0)}
  ELSE {}

(* The first tier of the list that fits.                                   *)
ExpiryClearance(at) ==
  {Candidate("EXPIRY_CLEARANCE", ApplyPercentOff(item.price, ExpiryClearanceTiers[n].percent), 0, 0) :
     n \in {n \in FittingTiers(at) : \A m \in FittingTiers(at) : n <= m}}

Candidates(quantity, at) ==
  Base \cup OfferCandidates(at) \cup PricingRuleCandidates(quantity, at)
    \cup StockThreshold \cup ExpiryClearance(at)

MutantBefore(a, b) ==
  \/ SourcePrecedence[a.source] < SourcePrecedence[b.source]
  \/ /\ SourcePrecedence[a.source] = SourcePrecedence[b.source]
     /\ a.price < b.price \/ (a.price = b.price /\ a.id < b.id)
Before(a, b) ==
  \/ a.price < b.price
  \/ /\ a.price = b.price
     /\ \/ SourcePrecedence[a.source] < SourcePrecedence[b.source]
        \/ /\ a.source = b.source
           /\ a.priority < b.priority \/ (a.priority = b.priority /\ a.id < b.id)

Cheapest(candidates) == CHOOSE c \in candidates : \A d \in candidates \ {c} : Before(c, d)

(* The quote of an item that can be bought: the price, and all that was    *)
(* compared, with a mark on what was selected.                             *)
Quote(quantity, at, override) ==
  LET given == IF override = None THEN {} ELSE {Candidate("MANUAL_OVERRIDE", override, 0, 0)}
      candidates == Candidates(quantity, at) \cup given
      selected == Cheapest(IF override = None THEN candidates ELSE given)
  IN  [price |-> selected.price, total |-> selected.price * quantity,
       source |-> selected.source, id |-> selected.id,
       adjustments |->
         {[source |-> c.source, id |-> c.id, price |-> c.price,
           selected |-> c.source = selected.source /\ c.id = selected.id] : c \in candidates}]

-----------------------------------------------------------------------------
(* Operations. *)

UpdateBusiness == status' \in Statuses /\ UNCHANGED <<item, rules, offers>>

UpdateInventoryItem == item' \in Items /\ UNCHANGED <<status, rules, offers>>

With(f, id, r) == [i \in DOMAIN f \cup {id} |-> IF i = id THEN r ELSE f[i]]
Without(f, id) == [i \in DOMAIN f \ {id} |-> f[i]]

(* A new rule gets an id of its own, a patch may change every field.       *)
CreatePricingRule ==
  /\ \E i \in RuleIds \ DOMAIN rules, r \in RuleRecords : rules' = With(rules, i, r)
  /\ UNCHANGED <<status, item, offers>>

UpdatePricingRule ==
  /\ \E i \in DOMAIN rules, r \in RuleRecords : rules' = With(rules, i, r)
  /\ UNCHANGED <<status, item, offers>>

DeletePricingRule ==
  /\ \E i \in DOMAIN rules : rules' = Without(rules, i)
  /\ UNCHANGED <<status, item, offers>>

CreateOffer ==
  /\ \E i \in OfferIds \ DOMAIN offers, o \in OfferRecords : offers' = With(offers, i, o)
  /\ UNCHANGED <<status, item, rules>>

UpdateOffer ==
  /\ \E i \in DOMAIN offers, o \in OfferRecords : offers' = With(offers, i, o)
  /\ UNCHANGED <<status, item, rules>>

DeleteOffer ==
  /\ \E i \in DOMAIN offers : offers' = Without(offers, i)
  /\ UNCHANGED <<status, item, rules>>

Init ==
  /\ status \in Statuses /\ item \in Items
  /\ rules = [i \in {} |-> None] /\ offers = [i \in {} |-> None]

Next ==
  \/ UpdateBusiness \/ UpdateInventoryItem
  \/ CreatePricingRule \/ UpdatePricingRule \/ DeletePricingRule
  \/ CreateOffer \/ UpdateOffer \/ DeleteOffer

Spec == Init /\ [][Next]_vars

-----------------------------------------------------------------------------
(* Properties. *)

(* A quote names what it selected, once, among what it compared, the base  *)
(* price always being one of them; but for an override nothing it compared *)
(* is cheaper, whatever the order of rules, offers and their priorities.   *)
QuoteExplainsItself ==
  \A quantity \in Quantities, at \in Instants, override \in Overrides :
    Purchasable(quantity, at) =>
      LET quote == Quote(quantity, at, override)
      IN  /\ \E a \in quote.adjustments :
               /\ {b \in quote.adjustments : b.selected} = {a}
               /\ <<a.source, a.id, a.price>> = <<quote.source, quote.id, quote.price>>
          /\ \E a \in quote.adjustments : a.source = "BASE" /\ a.price = item.price
          /\ override = None => \A a \in quote.adjustments : quote.price <= a.price

(* The price of an item falls, or stays, as its end draws nearer, as long  *)
(* as the rules and offers that applied still do.                          *)
ClearanceDeepens ==
  \A quantity \in Quantities, t, u \in Instants :
    LET Chosen(at) == OfferCandidates(at) \cup PricingRuleCandidates(quantity, at)
    IN  /\ t <= u /\ Purchasable(quantity, t) /\ Purchasable(quantity, u)
        /\ Chosen(t) \subseteq Chosen(u)
        => Quote(quantity, u, None).price <= Quote(quantity, t, None).price

(* What a rule promises, as a fraction of a cent.                          *)
Promised(base, quantity, rule) ==
  IF rule.type = "BOGO" THEN <<((quantity + 1) \div 2) * base, quantity>>
  ELSE <<base * (IF rule.percent > 10000 THEN 0 ELSE 10000 - rule.percent), 10000>>

(* A percentage or a free second unit never costs more than promised, and  *)
(* the customer is given at most one cent for each unit.                   *)
RoundingGivesAtMostACent ==
  \A r \in DOMAIN rules, quantity \in Quantities, at \in Instants :
    LET promised == Promised(item.price, quantity, rules[r])
        charged == RulePrice(item.price, quantity, rules[r]) * promised[2]
    IN  rules[r].type \in {"PERCENT_OFF", "BOGO"} /\ Applies(rules[r], quantity, at)
        => charged <= promised[1] /\ promised[1] - charged <= promised[2]

(* When units are sold or reserved, also beyond what there is, what can    *)
(* still be bought was for sale before and has not become dearer.          *)
Scarcer ==
  /\ UNCHANGED <<status, rules, offers>>
  /\ item' = [item EXCEPT !.onHand = item'.onHand, !.reserved = item'.reserved]
  /\ item'.onHand - item'.reserved < item.onHand - item.reserved

ScarcityNeverRaisesPrice ==
  [][Scarcer =>
       \A quantity \in Quantities, at \in Instants :
         Purchasable(quantity, at)' =>
           /\ Purchasable(quantity, at)
           /\ Quote(quantity, at, None)'.price <= Quote(quantity, at, None).price]_vars

-----------------------------------------------------------------------------
(* Types. *)

TypeOK ==
  /\ status \in Statuses /\ item \in Items
  /\ DOMAIN rules \subseteq RuleIds /\ rules \in [DOMAIN rules -> RuleRecords]
  /\ DOMAIN offers \subseteq OfferIds /\ offers \in [DOMAIN offers -> OfferRecords]
=============================================================================
