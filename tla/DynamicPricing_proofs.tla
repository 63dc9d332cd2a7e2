------------------------ MODULE DynamicPricing_proofs -----------------------
(* What holds of DynamicPricing for all items, rules and offers.           *)
(*                                                                         *)
(* Candidates are well typed and told apart by source and id, so that one  *)
(* of them comes before all others; this is the one a quote selects, and   *)
(* its price is the least of all.                                          *)
EXTENDS DynamicPricing, WellFoundedInduction, TLAPS

CandidateType ==
  [source : DOMAIN SourcePrecedence, price : Nat, priority : Nat, id : Nat]

(* Source and id tell the candidates apart.                                *)
ToldApart(candidates) ==
  \A c, d \in candidates : c.source = d.source /\ c.id = d.id => c = d

-----------------------------------------------------------------------------
(* Selection. *)

LEMMA LeastOfNumbers ==
  ASSUME NEW S, S \subseteq Nat, S # {}
  PROVE  \E n \in S : \A m \in S : n <= m
<1> DEFINE Less == {ss \in Nat \X Nat : ss[1] < ss[2]}
<1>1. IsWellFoundedOn(Less, Nat)
  BY NatLessThanWellFounded DEF OpToRel
<1>2. \E n \in S : \A m \in S : ~ (<<m, n>> \in Less)
  <2> HIDE DEF Less
  <2> QED
    BY <1>1, WFMin
<1>3. \A m, n \in Nat : m < n => <<m, n>> \in Less
  BY DEF Less
<1> HIDE DEF Less
<1>4. PICK n \in S : \A m \in S : ~ (<<m, n>> \in Less)
  BY <1>2
<1>5. ASSUME NEW m \in S PROVE n <= m
  <2>1. m \in Nat /\ n \in Nat
    OBVIOUS
  <2>2. ~ (m < n)
    BY <1>3, <1>4, <2>1
  <2> QED
    BY <2>1, <2>2
<1> QED
  BY <1>5

LEMMA CandidateFields ==
  ASSUME NEW source \in DOMAIN SourcePrecedence, NEW price \in Nat, NEW priority \in Nat, NEW id \in Nat
  PROVE  /\ Candidate(source, price, priority, id) \in CandidateType
         /\ Candidate(source, price, priority, id).source = source
         /\ Candidate(source, price, priority, id).price = price
         /\ Candidate(source, price, priority, id).priority = priority
         /\ Candidate(source, price, priority, id).id = id
BY DEF Candidate, CandidateType

(* Sources of the same precedence are the same.                            *)
LEMMA PrecedenceTellsSources ==
  ASSUME NEW s \in DOMAIN SourcePrecedence, NEW t \in DOMAIN SourcePrecedence
  PROVE  /\ SourcePrecedence[s] \in Nat
         /\ SourcePrecedence[s] = SourcePrecedence[t] => s = t
BY DEF SourcePrecedence

(* One candidate comes before all others, and it is the cheapest.          *)
LEMMA CheapestIsFirst ==
  ASSUME NEW S, S \subseteq CandidateType, S # {}, ToldApart(S)
  PROVE  /\ Cheapest(S) \in S
         /\ \A d \in S : Cheapest(S).price <= d.price
<1>1. \A c \in S : /\ c.price \in Nat /\ c.priority \in Nat /\ c.id \in Nat
                   /\ c.source \in DOMAIN SourcePrecedence /\ SourcePrecedence[c.source] \in Nat
  BY PrecedenceTellsSources DEF CandidateType
<1>2. PICK c1 \in S : \A d \in S : c1.price <= d.price
  <2> DEFINE prices == {c.price : c \in S}
  <2>1. prices \subseteq Nat /\ prices # {}
    BY <1>1
  <2>2. \E n \in prices : \A m \in prices : n <= m
    BY <2>1, LeastOfNumbers
  <2> QED
    BY <2>2
<1> DEFINE S1 == {c \in S : c.price = c1.price}
<1>3. PICK c2 \in S1 : \A d \in S1 : SourcePrecedence[c2.source] <= SourcePrecedence[d.source]
  <2> DEFINE ranks == {SourcePrecedence[c.source] : c \in S1}
  <2>1. ranks \subseteq Nat /\ ranks # {}
    BY <1>1
  <2>2. \E n \in ranks : \A m \in ranks : n <= m
    BY <2>1, LeastOfNumbers
  <2> QED
    BY <2>2
<1> DEFINE S2 == {c \in S1 : c.source = c2.source}
<1>4. PICK c3 \in S2 : \A d \in S2 : c3.priority <= d.priority
  <2> DEFINE priorities == {c.priority : c \in S2}
  <2>1. priorities \subseteq Nat /\ priorities # {}
    BY <1>1
  <2>2. \E n \in priorities : \A m \in priorities : n <= m
    BY <2>1, LeastOfNumbers
  <2> QED
    BY <2>2
<1> DEFINE S3 == {c \in S2 : c.priority = c3.priority}
<1>5. PICK c4 \in S3 : \A d \in S3 : c4.id <= d.id
  <2> DEFINE ids == {c.id : c \in S3}
  <2>1. ids \subseteq Nat /\ ids # {}
    BY <1>1
  <2>2. \E n \in ids : \A m \in ids : n <= m
    BY <2>1, LeastOfNumbers
  <2> QED
    BY <2>2
<1>6. ASSUME NEW d \in S \ {c4} PROVE Before(c4, d)
  <2>1. CASE d.price # c1.price
    BY <1>1, <1>2, <2>1 DEF Before
  <2>2. CASE d.price = c1.price /\ d.source # c2.source
    <3>1. SourcePrecedence[c2.source] # SourcePrecedence[d.source]
      BY <1>1, <2>2, PrecedenceTellsSources
    <3> QED
      BY <1>1, <1>3, <2>2, <3>1 DEF Before
  <2>3. CASE d.price = c1.price /\ d.source = c2.source /\ d.priority # c3.priority
    BY <1>1, <1>4, <2>3 DEF Before
  <2>4. CASE d.price = c1.price /\ d.source = c2.source /\ d.priority = c3.priority
    <3>1. d.id # c4.id
      BY <1>6, <2>4 DEF ToldApart
    <3> QED
      BY <1>1, <1>5, <2>4, <3>1 DEF Before
  <2> QED
    BY <2>1, <2>2, <2>3, <2>4
<1>7. c4 \in S
  OBVIOUS
<1>8. Cheapest(S) \in S /\ \A d \in S \ {Cheapest(S)} : Before(Cheapest(S), d)
  BY <1>6, <1>7 DEF Cheapest
<1>9. ASSUME NEW d \in S PROVE Cheapest(S).price <= d.price
  BY <1>1, <1>8 DEF Before
<1> QED
  BY <1>8, <1>9

-----------------------------------------------------------------------------
(* Rounding. *)

Bounded(percent) == IF percent > 10000 THEN 10000 ELSE percent

(* Dividing rounds down by less than one.                                  *)
LEMMA Quotients ==
  ASSUME NEW a \in Nat, NEW d \in Nat \ {0}
  PROVE  /\ a \div d \in Nat
         /\ (a \div d) * d <= a
         /\ a - (a \div d) * d < d
OBVIOUS

LEMMA WholeQuotients ==
  ASSUME NEW a \in Nat, a > 0, a % 10000 = 0
  PROVE  a \div 10000 > 0 /\ a = (a \div 10000) * 10000
OBVIOUS

LEMMA Products ==
  ASSUME NEW a \in Nat, NEW b \in Nat
  PROVE  a * b \in Nat /\ (a > 0 /\ b > 0 => a * b > 0)
OBVIOUS

(* The cent that double precision may lose is there to be lost.            *)
LEMMA LostCentsArePaid ==
  ASSUME NEW base \in Nat, NEW bounded \in Nat, MayLoseACent(base, bounded)
  PROVE  LET exact == base * (10000 - bounded)
         IN  exact \div 10000 > 0 /\ exact = (exact \div 10000) * 10000
<1> DEFINE rest == 10000 - bounded
           exact == base * rest
<1>1. rest \in Nat /\ rest > 0 /\ base > 0 /\ exact % 10000 = 0
  BY DEF MayLoseACent
<1> HIDE DEF rest
<1>2. exact \in Nat /\ exact > 0 /\ exact % 10000 = 0
  BY <1>1, Products
<1> HIDE DEF exact
<1>3. exact \div 10000 > 0 /\ exact = (exact \div 10000) * 10000
  BY <1>2, WholeQuotients
<1> QED
  BY <1>3 DEF exact, rest

LEMMA LostCent ==
  ASSUME NEW base, NEW bounded, <<base, bounded>> \in LostCents
  PROVE  base \in Nat /\ bounded \in Nat /\ MayLoseACent(base, bounded)
<1>1. LostCents \subseteq Nat \X Nat /\ \A l \in LostCents : MayLoseACent(l[1], l[2])
  BY ConstantsAssumption
<1> QED
  BY <1>1

(* A percentage off is rounded down, by a cent at the most.                *)
LEMMA PercentOffRounding ==
  ASSUME NEW base \in Nat, NEW percent \in Nat
  PROVE  /\ ApplyPercentOff(base, percent) \in Nat
         /\ ApplyPercentOff(base, percent) * 10000 <= base * (10000 - Bounded(percent))
         /\ base * (10000 - Bounded(percent)) - ApplyPercentOff(base, percent) * 10000 <= 10000
<1> DEFINE exact == base * (10000 - Bounded(percent))
           whole == exact \div 10000
           lost == IF <<base, Bounded(percent)>> \in LostCents THEN 1 ELSE 0
<1>1. Bounded(percent) \in 0..10000 /\ 10000 - Bounded(percent) \in Nat
  BY DEF Bounded
<1>2. exact \in Nat
  BY <1>1, Products
<1>3. lost = 0 \/ (lost = 1 /\ whole > 0 /\ exact = whole * 10000)
  <2>1. CASE <<base, Bounded(percent)>> \in LostCents
    <3> DEFINE bounded == Bounded(percent)
    <3>1. exact = base * (10000 - bounded) /\ <<base, bounded>> \in LostCents
      BY <2>1
    <3>2. lost = 1
      BY <2>1
    <3> HIDE DEF bounded, exact, lost
    <3>3. bounded \in Nat /\ MayLoseACent(base, bounded)
      BY <3>1, LostCent
    <3>4. exact \div 10000 > 0 /\ exact = (exact \div 10000) * 10000
      BY <3>1, <3>3, LostCentsArePaid
    <3> HIDE DEF whole
    <3> QED
      BY <3>2, <3>4 DEF whole
  <2>2. CASE <<base, Bounded(percent)>> \notin LostCents
    BY <2>2
  <2> QED
    BY <2>1, <2>2
<1>4. ApplyPercentOff(base, percent) = NormalizeCents(whole - lost)
  BY DEF ApplyPercentOff, Bounded
<1> HIDE DEF exact, lost
<1>5. whole \in Nat /\ whole * 10000 <= exact /\ exact - whole * 10000 < 10000
  BY <1>2, Quotients
<1> HIDE DEF whole
<1>6. ApplyPercentOff(base, percent) = whole - lost
  BY <1>3, <1>4, <1>5 DEF NormalizeCents
<1>7. /\ ApplyPercentOff(base, percent) \in Nat
      /\ ApplyPercentOff(base, percent) * 10000 <= exact
      /\ exact - ApplyPercentOff(base, percent) * 10000 <= 10000
  <2>1. CASE lost = 0
    BY <1>2, <1>5, <1>6, <2>1
  <2>2. CASE lost = 1 /\ whole > 0 /\ exact = whole * 10000
    BY <1>2, <1>5, <1>6, <2>2
  <2> QED
    BY <1>3, <2>1, <2>2
<1> QED
  BY <1>7 DEF exact

LEMMA PercentOffTyped ==
  ASSUME NEW base \in Nat, NEW percent \in Nat
  PROVE  ApplyPercentOff(base, percent) \in Nat
BY PercentOffRounding

LEMMA HalfFreeRounding ==
  ASSUME NEW base \in Nat, NEW quantity \in Nat \ {0}
  PROVE  /\ HalfFree(base, quantity) \in Nat
         /\ HalfFree(base, quantity) * quantity <= ((quantity + 1) \div 2) * base
         /\ ((quantity + 1) \div 2) * base - HalfFree(base, quantity) * quantity <= quantity
<1> DEFINE payable == (quantity + 1) \div 2
           total == payable * base
<1>1. payable \in Nat
  OBVIOUS
<1> HIDE DEF payable
<1>2. total \in Nat
  BY <1>1, Products
<1>3. HalfFree(base, quantity) = total \div quantity
  BY DEF HalfFree, payable
<1> HIDE DEF total
<1>4. /\ total \div quantity \in Nat
      /\ (total \div quantity) * quantity <= total
      /\ total - (total \div quantity) * quantity <= quantity
  BY <1>2, Quotients
<1> QED
  BY <1>3, <1>4 DEF total, payable

-----------------------------------------------------------------------------
(* Candidates. *)

LEMMA RulePriceTyped ==
  ASSUME NEW base \in Nat, NEW quantity \in Nat \ {0}, NEW rule \in RuleType
  PROVE  RulePrice(base, quantity, rule) \in Optional(Nat)
<1>1. /\ rule.type \in RuleTypes /\ rule.percent \in Optional(Nat)
      /\ rule.amount \in Optional(Nat) /\ rule.fixed \in Optional(Nat)
  BY DEF RuleType
<1>2. PercentPrice(base, rule) \in Optional(Nat)
  <2>1. CASE rule.percent = None
    BY <2>1 DEF PercentPrice, Optional
  <2>2. CASE rule.percent \in Nat
    <3>1. ApplyPercentOff(base, rule.percent) \in Nat
      BY <2>2, PercentOffTyped
    <3> QED
      BY <3>1 DEF PercentPrice, Optional
  <2> QED
    BY <1>1, <2>1, <2>2 DEF Optional
<1>3. AmountPrice(base, rule) \in Optional(Nat)
  <2>1. CASE rule.amount = None
    BY <2>1 DEF AmountPrice, Optional
  <2>2. CASE rule.amount \in Nat
    <3>1. NormalizeCents(base - rule.amount) \in Nat
      BY <2>2 DEF NormalizeCents
    <3> QED
      BY <3>1 DEF AmountPrice, Optional
  <2> QED
    BY <1>1, <2>1, <2>2 DEF Optional
<1>4. ClearancePrice(base, rule) \in Optional(Nat)
  BY <1>1, <1>2, <1>3, PercentOffTyped DEF ClearancePrice, Optional
<1>5. (IF quantity >= 2 THEN HalfFree(base, quantity) ELSE None) \in Optional(Nat)
  BY HalfFreeRounding DEF Optional
<1>6. CASE rule.type = "PERCENT_OFF"
  BY <1>2, <1>6 DEF RulePrice
<1>7. CASE rule.type = "AMOUNT_OFF"
  BY <1>3, <1>7 DEF RulePrice
<1>8. CASE rule.type = "FIXED_PRICE"
  BY <1>1, <1>8 DEF RulePrice
<1>9. CASE rule.type = "BOGO"
  BY <1>5, <1>9 DEF RulePrice
<1>10. CASE rule.type = "CLEARANCE"
  BY <1>4, <1>10 DEF RulePrice
<1> QED
  BY <1>1, <1>6, <1>7, <1>8, <1>9, <1>10 DEF RuleTypes

LEMMA ItemTyped ==
  ASSUME TypeOK
  PROVE  /\ item \in ItemType /\ item.price \in Nat /\ item.onHand \in Nat /\ item.reserved \in Nat
         /\ item.threshold \in Optional(Nat) /\ item.expiresAt \in Optional(Int)
         /\ Available \in Nat
<1>1. item \in ItemType
  BY ConstantsAssumption DEF TypeOK
<1>2. item.price \in Nat /\ item.onHand \in Nat /\ item.reserved \in Nat
      /\ item.threshold \in Optional(Nat) /\ item.expiresAt \in Optional(Int)
  BY <1>1 DEF ItemType
<1> QED
  BY <1>1, <1>2 DEF Available, NormalizeCents

(* Of a source there is one candidate, or one for each id.                 *)
LEMMA OffersTyped ==
  ASSUME TypeOK, NEW at \in Int
  PROVE  \A c \in OfferCandidates(at) :
           /\ c \in CandidateType /\ c.source = "OFFER"
           /\ \A d \in OfferCandidates(at) : c.id = d.id => c = d
<1> DEFINE Of(o) == Candidate("OFFER", offers[o].price, 0, o)
<1>1. ASSUME NEW o \in DOMAIN offers, Live(offers[o], at)
      PROVE  o \in Nat /\ offers[o].price \in Nat
  <2>1. offers[o] \in OfferType /\ o \in Nat
    BY ConstantsAssumption DEF TypeOK
  <2> QED
    BY <1>1, <2>1 DEF OfferType, Optional, Live
<1>2. ASSUME NEW c \in OfferCandidates(at)
      PROVE  \E o \in DOMAIN offers : /\ c = Of(o)
                                      /\ c \in CandidateType /\ c.source = "OFFER" /\ c.id = o
  <2>1. PICK o \in DOMAIN offers : Live(offers[o], at) /\ c = Of(o)
    BY DEF OfferCandidates
  <2>2. "OFFER" \in DOMAIN SourcePrecedence
    BY DEF SourcePrecedence
  <2>3. o \in Nat /\ offers[o].price \in Nat
    BY <1>1, <2>1
  <2>4. Of(o) \in CandidateType /\ Of(o).source = "OFFER" /\ Of(o).id = o
    BY <2>2, <2>3, CandidateFields
  <2> HIDE DEF Of
  <2> QED
    BY <2>1, <2>4
<1> QED
  BY <1>2

LEMMA RulesTyped ==
  ASSUME TypeOK, NEW quantity \in Nat \ {0}, NEW at \in Int
  PROVE  \A c \in PricingRuleCandidates(quantity, at) :
           /\ c \in CandidateType /\ c.source = "PRICING_RULE"
           /\ \A d \in PricingRuleCandidates(quantity, at) : c.id = d.id => c = d
<1> DEFINE Of(r) ==
      Candidate("PRICING_RULE", RulePrice(item.price, quantity, rules[r]), rules[r].priority, r)
<1>1. ASSUME NEW r \in DOMAIN rules, Applies(rules[r], quantity, at)
      PROVE  /\ r \in Nat /\ rules[r].priority \in Nat
             /\ RulePrice(item.price, quantity, rules[r]) \in Nat
  <2>1. rules[r] \in RuleType /\ r \in Nat
    BY ConstantsAssumption DEF TypeOK
  <2>2. RulePrice(item.price, quantity, rules[r]) \in Optional(Nat)
    BY <2>1, ItemTyped, RulePriceTyped
  <2> QED
    BY <1>1, <2>1, <2>2 DEF RuleType, Optional, Applies
<1>2. ASSUME NEW c \in PricingRuleCandidates(quantity, at)
      PROVE  \E r \in DOMAIN rules : /\ c = Of(r)
                                     /\ c \in CandidateType /\ c.source = "PRICING_RULE" /\ c.id = r
  <2>1. PICK r \in DOMAIN rules : Applies(rules[r], quantity, at) /\ c = Of(r)
    BY DEF PricingRuleCandidates
  <2>2. "PRICING_RULE" \in DOMAIN SourcePrecedence
    BY DEF SourcePrecedence
  <2>3. /\ r \in Nat /\ rules[r].priority \in Nat
        /\ RulePrice(item.price, quantity, rules[r]) \in Nat
    BY <1>1, <2>1
  <2>4. Of(r) \in CandidateType /\ Of(r).source = "PRICING_RULE" /\ Of(r).id = r
    BY <2>2, <2>3, CandidateFields
  <2> HIDE DEF Of
  <2> QED
    BY <2>1, <2>4
<1> QED
  BY <1>2

(* Candidates(quantity, at) is never empty, for the base price is there.   *)
LEMMA CandidatesTyped ==
  ASSUME TypeOK, NEW quantity \in Nat \ {0}, NEW at \in Int
  PROVE  /\ Candidates(quantity, at) \subseteq CandidateType
         /\ ToldApart(Candidates(quantity, at))
         /\ Candidate("BASE", item.price, 0, 0) \in Candidates(quantity, at)
         /\ \A c \in Candidates(quantity, at) : c.source # "MANUAL_OVERRIDE"
<1>1. \A c \in Base : c \in CandidateType /\ c.source = "BASE"
  <2>1. "BASE" \in DOMAIN SourcePrecedence
    BY DEF SourcePrecedence
  <2> QED
    BY <2>1, ItemTyped, CandidateFields DEF Base
<1>2. \A c \in StockThreshold : c \in CandidateType /\ c.source = "STOCK_THRESHOLD"
  <2>1. "STOCK_THRESHOLD" \in DOMAIN SourcePrecedence
    BY DEF SourcePrecedence
  <2>2. ApplyPercentOff(item.price, 1000) \in Nat
    <3>1. PICK tenth \in Nat : tenth = 1000
      OBVIOUS
    <3>2. ApplyPercentOff(item.price, tenth) \in Nat
      BY ItemTyped, PercentOffTyped
    <3> QED
      BY <3>1, <3>2
  <2> QED
    BY <2>1, <2>2, CandidateFields DEF StockThreshold
<1>3. \A c \in ExpiryClearance(at) : c \in CandidateType /\ c.source = "EXPIRY_CLEARANCE"
  <2>1. "EXPIRY_CLEARANCE" \in DOMAIN SourcePrecedence
    BY DEF SourcePrecedence
  <2>2. \A n \in FittingTiers(at) : n \in DOMAIN ExpiryClearanceTiers
    BY DEF FittingTiers
  <2>3. \A n \in DOMAIN ExpiryClearanceTiers : ExpiryClearanceTiers[n].percent \in Nat
    BY DEF ExpiryClearanceTiers
  <2>4. \A n \in FittingTiers(at) : ApplyPercentOff(item.price, ExpiryClearanceTiers[n].percent) \in Nat
    BY <2>2, <2>3, ItemTyped, PercentOffTyped
  <2> QED
    BY <2>1, <2>4, CandidateFields DEF ExpiryClearance
<1>4. \A c, d \in StockThreshold : c = d
  BY DEF StockThreshold
<1>5. \A c, d \in ExpiryClearance(at) : c = d
  <2>1. FittingTiers(at) \subseteq Nat
    BY DEF FittingTiers, ExpiryClearanceTiers
  <2>2. \A m, n \in FittingTiers(at) : m <= n /\ n <= m => m = n
    BY <2>1
  <2> QED
    BY <2>2 DEF ExpiryClearance
<1>6. \A c, d \in Base : c = d
  BY DEF Base
<1> DEFINE all == Candidates(quantity, at)
<1>7. \A c \in all : \/ c \in Base \/ c \in OfferCandidates(at)
                      \/ c \in PricingRuleCandidates(quantity, at)
                      \/ c \in StockThreshold \/ c \in ExpiryClearance(at)
  BY DEF Candidates
<1>8. all \subseteq CandidateType /\ \A c \in all : c.source # "MANUAL_OVERRIDE"
  BY <1>1, <1>2, <1>3, <1>7, OffersTyped, RulesTyped
<1>9. ToldApart(all)
  BY <1>1, <1>2, <1>3, <1>4, <1>5, <1>6, <1>7, OffersTyped, RulesTyped DEF ToldApart
<1>10. Candidate("BASE", item.price, 0, 0) \in all
  BY DEF Base, Candidates
<1> QED
  BY <1>8, <1>9, <1>10

(* The price of a quote without override is the least of all candidates.   *)
LEMMA QuotedPrice ==
  ASSUME TypeOK, NEW quantity \in Nat \ {0}, NEW at \in Int
  PROVE  /\ \E c \in Candidates(quantity, at) : Quote(quantity, at, None).price = c.price
         /\ \A c \in Candidates(quantity, at) : Quote(quantity, at, None).price <= c.price
         /\ \A c \in Candidates(quantity, at) : c.price \in Nat
<1> DEFINE all == Candidates(quantity, at)
<1>1. all \subseteq CandidateType /\ all # {} /\ ToldApart(all)
  BY CandidatesTyped
<1>2. Cheapest(all) \in all /\ \A d \in all : Cheapest(all).price <= d.price
  BY <1>1, CheapestIsFirst
<1>3. Quote(quantity, at, None).price = Cheapest(all).price
  BY DEF Quote
<1> QED
  BY <1>1, <1>2, <1>3 DEF CandidateType

-----------------------------------------------------------------------------
(* The theorems. *)

LEMMA WithoutTyped ==
  ASSUME NEW R, NEW f, f \in [DOMAIN f -> R], NEW i
  PROVE  DOMAIN Without(f, i) \subseteq DOMAIN f /\ Without(f, i) \in [DOMAIN Without(f, i) -> R]
BY DEF Without

(* The catalogue holds what requests may write, under ids of its own.      *)
THEOREM PricingTypeCorrect == Spec => []TypeOK
<1>1. Init => TypeOK
  BY DEF Init, TypeOK
<1>2. TypeOK /\ [Next]_vars => TypeOK'
  <2> SUFFICES ASSUME TypeOK, [Next]_vars PROVE TypeOK'
    OBVIOUS
  <2>1. CASE UpdateBusiness
    BY <2>1 DEF UpdateBusiness, TypeOK
  <2>2. CASE UpdateInventoryItem
    BY <2>2 DEF UpdateInventoryItem, TypeOK
  <2>3. CASE CreatePricingRule
    <3>1. PICK i \in RuleIds \ DOMAIN rules, r \in RuleRecords : rules' = With(rules, i, r)
      BY <2>3 DEF CreatePricingRule
    <3>2. i \in RuleIds /\ rules \in [DOMAIN rules -> RuleRecords] /\ DOMAIN rules \subseteq RuleIds
      BY DEF TypeOK
    <3>3. DOMAIN rules' \subseteq RuleIds /\ rules' \in [DOMAIN rules' -> RuleRecords]
      BY <3>1, <3>2 DEF With
    <3> QED
      BY <2>3, <3>3 DEF CreatePricingRule, TypeOK
  <2>4. CASE UpdatePricingRule
    <3>1. PICK i \in DOMAIN rules, r \in RuleRecords : rules' = With(rules, i, r)
      BY <2>4 DEF UpdatePricingRule
    <3>2. i \in RuleIds /\ rules \in [DOMAIN rules -> RuleRecords] /\ DOMAIN rules \subseteq RuleIds
      BY DEF TypeOK
    <3>3. DOMAIN rules' \subseteq RuleIds /\ rules' \in [DOMAIN rules' -> RuleRecords]
      BY <3>1, <3>2 DEF With
    <3> QED
      BY <2>4, <3>3 DEF UpdatePricingRule, TypeOK
  <2>5. CASE DeletePricingRule
    BY <2>5, WithoutTyped, SMTT(60) DEF DeletePricingRule, TypeOK
  <2>6. CASE CreateOffer
    <3>1. PICK i \in OfferIds \ DOMAIN offers, r \in OfferRecords : offers' = With(offers, i, r)
      BY <2>6 DEF CreateOffer
    <3>2. i \in OfferIds /\ offers \in [DOMAIN offers -> OfferRecords] /\ DOMAIN offers \subseteq OfferIds
      BY DEF TypeOK
    <3>3. DOMAIN offers' \subseteq OfferIds /\ offers' \in [DOMAIN offers' -> OfferRecords]
      BY <3>1, <3>2 DEF With
    <3> QED
      BY <2>6, <3>3 DEF CreateOffer, TypeOK
  <2>7. CASE UpdateOffer
    <3>1. PICK i \in DOMAIN offers, r \in OfferRecords : offers' = With(offers, i, r)
      BY <2>7 DEF UpdateOffer
    <3>2. i \in OfferIds /\ offers \in [DOMAIN offers -> OfferRecords] /\ DOMAIN offers \subseteq OfferIds
      BY DEF TypeOK
    <3>3. DOMAIN offers' \subseteq OfferIds /\ offers' \in [DOMAIN offers' -> OfferRecords]
      BY <3>1, <3>2 DEF With
    <3> QED
      BY <2>7, <3>3 DEF UpdateOffer, TypeOK
  <2>8. CASE DeleteOffer
    BY <2>8, WithoutTyped, SMTT(60) DEF DeleteOffer, TypeOK
  <2>9. CASE UNCHANGED vars
    BY <2>9 DEF vars, TypeOK
  <2> QED
    BY <2>1, <2>2, <2>3, <2>4, <2>5, <2>6, <2>7, <2>8, <2>9 DEF Next
<1> QED
  BY <1>1, <1>2, PTL DEF Spec

(* For all items, rules and offers a quote names what it selected among    *)
(* what it compared, and without an override nothing is cheaper.           *)
THEOREM QuotesExplainThemselves == Spec => []QuoteExplainsItself
<1>1. ASSUME TypeOK, NEW quantity \in Quantities, NEW at \in Instants, NEW override \in Overrides
      PROVE  LET quote == Quote(quantity, at, override)
             IN  /\ \E a \in quote.adjustments :
                      /\ {b \in quote.adjustments : b.selected} = {a}
                      /\ <<a.source, a.id, a.price>> = <<quote.source, quote.id, quote.price>>
                 /\ \E a \in quote.adjustments : a.source = "BASE" /\ a.price = item.price
                 /\ override = None => \A a \in quote.adjustments : quote.price <= a.price
  <2> DEFINE manual == Candidate("MANUAL_OVERRIDE", override, 0, 0)
             given == IF override = None THEN {} ELSE {manual}
             candidates == Candidates(quantity, at) \cup given
             selected == Cheapest(IF override = None THEN candidates ELSE given)
             Marked(c) == [source |-> c.source, id |-> c.id, price |-> c.price,
                           selected |-> c.source = selected.source /\ c.id = selected.id]
             quote == Quote(quantity, at, override)
  <2>1. quantity \in Nat \ {0} /\ at \in Int /\ override \in Optional(Nat)
    BY ConstantsAssumption
  <2>2. /\ quote.price = selected.price /\ quote.source = selected.source /\ quote.id = selected.id
        /\ quote.adjustments = {Marked(c) : c \in candidates}
    BY DEF Quote
  <2>3. override # None => manual \in CandidateType /\ manual.source = "MANUAL_OVERRIDE"
    <3>1. "MANUAL_OVERRIDE" \in DOMAIN SourcePrecedence
      BY DEF SourcePrecedence
    <3> QED
      BY <2>1, <3>1, CandidateFields DEF Optional
  <2>4. candidates \subseteq CandidateType /\ ToldApart(candidates)
    BY <1>1, <2>1, <2>3, CandidatesTyped DEF ToldApart
  <2>5. selected \in candidates /\ (override = None => \A c \in candidates : selected.price <= c.price)
    <3>1. CASE override = None
      <4>1. candidates # {} /\ candidates = Candidates(quantity, at)
        BY <1>1, <2>1, <3>1, CandidatesTyped
      <4> QED
        BY <2>4, <3>1, <4>1, CheapestIsFirst
    <3>2. CASE override # None
      BY <3>2 DEF Cheapest
    <3> QED
      BY <3>1, <3>2
  <2>6. Candidate("BASE", item.price, 0, 0) \in candidates
        /\ Candidate("BASE", item.price, 0, 0).source = "BASE"
        /\ Candidate("BASE", item.price, 0, 0).price = item.price
    BY <1>1, <2>1, CandidatesTyped DEF Candidate
  <2> HIDE DEF selected, candidates, quote
  <2>7. \A c \in candidates : (c.source = selected.source /\ c.id = selected.id) <=> c = selected
    BY <2>4, <2>5 DEF ToldApart
  <2>8. Marked(selected) \in quote.adjustments
        /\ {b \in quote.adjustments : b.selected} = {Marked(selected)}
    <3>1. Marked(selected) \in quote.adjustments
      BY <2>2, <2>5
    <3>2. \A c \in candidates : Marked(c).selected <=> c = selected
      BY <2>7
    <3>3. \A b \in quote.adjustments : \E c \in candidates : b = Marked(c)
      BY <2>2
    <3> HIDE DEF Marked
    <3> QED
      BY <2>5, <3>1, <3>2, <3>3
  <2>9. \E a \in quote.adjustments : a.source = "BASE" /\ a.price = item.price
    <3>1. PICK c \in candidates : c.source = "BASE" /\ c.price = item.price
      BY <2>6
    <3>2. Marked(c) \in quote.adjustments
      BY <2>2
    <3>3. Marked(c).source = "BASE" /\ Marked(c).price = item.price
      BY <3>1
    <3> QED
      BY <3>2, <3>3
  <2>10. override = None => \A a \in quote.adjustments : quote.price <= a.price
    BY <2>2, <2>5
  <2> QED
    BY <2>2, <2>8, <2>9, <2>10 DEF quote
<1>2. TypeOK => QuoteExplainsItself
  BY <1>1 DEF QuoteExplainsItself
<1> QED
  BY <1>2, PricingTypeCorrect, PTL

(* For every price, percentage and quantity the customer is given at most  *)
(* one cent for each unit, and never asked for more than was promised.     *)
THEOREM RoundingStaysWithinACent == Spec => []RoundingGivesAtMostACent
<1>1. ASSUME TypeOK, NEW r \in DOMAIN rules, NEW quantity \in Quantities, NEW at \in Instants,
             rules[r].type \in {"PERCENT_OFF", "BOGO"}, Applies(rules[r], quantity, at)
      PROVE  LET promised == Promised(item.price, quantity, rules[r])
                 charged == RulePrice(item.price, quantity, rules[r]) * promised[2]
             IN  charged <= promised[1] /\ promised[1] - charged <= promised[2]
  <2> DEFINE rule == rules[r]
             price == RulePrice(item.price, quantity, rule)
             promised == Promised(item.price, quantity, rule)
  <2>1. rule \in RuleType /\ quantity \in Nat \ {0} /\ item.price \in Nat /\ price # None
    BY <1>1, ConstantsAssumption, ItemTyped DEF TypeOK, Applies
  <2>2. rule.percent \in Optional(Nat) /\ rule.type \in {"PERCENT_OFF", "BOGO"}
    BY <1>1, <2>1 DEF RuleType
  <2>3. CASE rule.type = "PERCENT_OFF"
    <3>1. price = PercentPrice(item.price, rule)
      BY <2>3 DEF RulePrice
    <3>2. rule.percent \in Nat /\ price = ApplyPercentOff(item.price, rule.percent)
      BY <2>1, <2>2, <3>1 DEF PercentPrice, Optional
    <3>3. promised = <<item.price * (10000 - Bounded(rule.percent)), 10000>>
      <4>1. item.price * 0 = 0 /\ 10000 - 10000 = 0
        BY <2>1
      <4> QED
        BY <2>3, <4>1 DEF Promised, Bounded
    <3>4. /\ price * 10000 <= item.price * (10000 - Bounded(rule.percent))
          /\ item.price * (10000 - Bounded(rule.percent)) - price * 10000 <= 10000
      <4>1. PICK base \in Nat, percent \in Nat : base = item.price /\ percent = rule.percent
        BY <2>1, <3>2
      <4>2. /\ ApplyPercentOff(base, percent) * 10000 <= base * (10000 - Bounded(percent))
            /\ base * (10000 - Bounded(percent)) - ApplyPercentOff(base, percent) * 10000 <= 10000
        BY PercentOffRounding
      <4>3. price = ApplyPercentOff(base, percent)
        BY <3>2, <4>1
      <4> HIDE DEF price, rule
      <4> QED
        BY <4>1, <4>2, <4>3
    <3> QED
      BY <3>3, <3>4
  <2>4. CASE rule.type = "BOGO"
    <3>1. price = HalfFree(item.price, quantity)
      BY <2>1, <2>4 DEF RulePrice
    <3>2. promised = <<((quantity + 1) \div 2) * item.price, quantity>>
      BY <2>4 DEF Promised
    <3>3. /\ price * quantity <= ((quantity + 1) \div 2) * item.price
          /\ ((quantity + 1) \div 2) * item.price - price * quantity <= quantity
      <4>1. PICK base \in Nat, units \in Nat \ {0} : base = item.price /\ units = quantity
        BY <2>1
      <4>2. /\ HalfFree(base, units) * units <= ((units + 1) \div 2) * base
            /\ ((units + 1) \div 2) * base - HalfFree(base, units) * units <= units
        BY HalfFreeRounding
      <4>3. price = HalfFree(base, units)
        BY <3>1, <4>1
      <4> HIDE DEF price, rule
      <4> QED
        BY <4>1, <4>2, <4>3
    <3> QED
      BY <3>2, <3>3
  <2> QED
    BY <2>2, <2>3, <2>4
<1>2. TypeOK => RoundingGivesAtMostACent
  BY <1>1 DEF RoundingGivesAtMostACent
<1> QED
  BY <1>2, PricingTypeCorrect, PTL

(* Fewer units leave every candidate in place and can only add one.        *)
LEMMA ScarcityKeepsCandidates ==
  ASSUME TypeOK, TypeOK', Scarcer, NEW quantity \in Nat \ {0}, NEW at \in Int
  PROVE  /\ Candidates(quantity, at) \subseteq Candidates(quantity, at)'
         /\ Purchasable(quantity, at)' => Purchasable(quantity, at)
<1>1. /\ item'.price = item.price /\ item'.threshold = item.threshold
      /\ item'.expiresAt = item.expiresAt /\ item'.active = item.active
  BY ItemTyped DEF ItemType, Scarcer
<1>2. Base' = Base
  BY <1>1 DEF Base
<1>3. OfferCandidates(at)' = OfferCandidates(at)
  BY DEF OfferCandidates, Scarcer
<1>4. PricingRuleCandidates(quantity, at)' = PricingRuleCandidates(quantity, at)
  BY <1>1 DEF PricingRuleCandidates, Applies, Scarcer
<1>5. ExpiryClearance(at)' = ExpiryClearance(at)
  BY <1>1 DEF ExpiryClearance, FittingTiers
<1>6. /\ Available \in Nat /\ Available' \in Nat /\ Available' <= Available
      /\ item.threshold \in Optional(Nat)
  <2>1. item' \in ItemType
    BY ConstantsAssumption DEF TypeOK
  <2>2. item'.onHand \in Nat /\ item'.reserved \in Nat
    BY <2>1 DEF ItemType
  <2> QED
    BY <2>2, ItemTyped DEF Available, NormalizeCents, ItemType, Scarcer
<1>7. StockThreshold \subseteq StockThreshold'
  <2>1. item.threshold # None /\ Available <= item.threshold
        => item'.threshold # None /\ Available' <= item'.threshold
    <3>1. CASE item.threshold \in Nat
      BY <1>1, <1>6, <3>1
    <3>2. CASE item.threshold = None
      BY <3>2
    <3> QED
      BY <1>6, <3>1, <3>2 DEF Optional
  <2> QED
    BY <1>1, <2>1 DEF StockThreshold
<1>8. Candidates(quantity, at) \subseteq Candidates(quantity, at)'
  BY <1>2, <1>3, <1>4, <1>5, <1>7 DEF Candidates
<1>9. ASSUME Purchasable(quantity, at)' PROVE Purchasable(quantity, at)
  <2>1. \A reason \in BlockedReasons : reason # None
    BY ConstantsAssumption
  <2> QED
    BY <1>1, <1>6, <1>9, <2>1 DEF Purchasable, BlockedReason, BlockedReasons, Scarcer
<1> QED
  BY <1>8, <1>9

LeastQuotes ==
  \A quantity \in Nat \ {0}, at \in Int : \A c \in Candidates(quantity, at) :
    Quote(quantity, at, None).price <= c.price

LEMMA QuotesAreLeast == TypeOK => LeastQuotes
BY QuotedPrice DEF LeastQuotes

(* When units are sold or reserved, also beyond what there is, what can    *)
(* still be bought was for sale before and has not become dearer, whatever *)
(* rules and offers there are.                                             *)
THEOREM ScarcityIsNeverDearer == Spec => ScarcityNeverRaisesPrice
<1>1. ASSUME TypeOK, TypeOK', Scarcer, NEW quantity \in Quantities, NEW at \in Instants,
             Purchasable(quantity, at)'
      PROVE  /\ Purchasable(quantity, at)
             /\ Quote(quantity, at, None)'.price <= Quote(quantity, at, None).price
  <2>1. quantity \in Nat \ {0} /\ at \in Int
    BY ConstantsAssumption
  <2>2. /\ Candidates(quantity, at) \subseteq Candidates(quantity, at)'
        /\ Purchasable(quantity, at)
    BY <1>1, <2>1, ScarcityKeepsCandidates
  <2>3. \E c \in Candidates(quantity, at) : Quote(quantity, at, None).price = c.price
    BY <1>1, <2>1, QuotedPrice
  <2>4. TypeOK' => LeastQuotes'
    BY QuotesAreLeast, PTL
  <2> QED
    BY <1>1, <2>1, <2>2, <2>3, <2>4 DEF LeastQuotes
<1>2. TypeOK /\ TypeOK' =>
        [Scarcer => \A quantity \in Quantities, at \in Instants :
                      Purchasable(quantity, at)' =>
                        /\ Purchasable(quantity, at)
                        /\ Quote(quantity, at, None)'.price <= Quote(quantity, at, None).price]_vars
  BY <1>1
<1> QED
  BY <1>2, PricingTypeCorrect, PTL DEF ScarcityNeverRaisesPrice

-----------------------------------------------------------------------------
(* Towards the end of an item. *)

LEMMA QuotientsGrow ==
  ASSUME NEW a \in Nat, NEW b \in Nat, a <= b
  PROVE  a \div 10000 <= b \div 10000
OBVIOUS

(* The tiers are whole percentages, of which no cent is lost.              *)
LEMMA TierPrice ==
  ASSUME NEW base \in Nat, NEW n \in DOMAIN ExpiryClearanceTiers
  PROVE  ApplyPercentOff(base, ExpiryClearanceTiers[n].percent)
           = (base * (10000 - ExpiryClearanceTiers[n].percent)) \div 10000
<1> DEFINE percent == ExpiryClearanceTiers[n].percent
           whole == (base * (10000 - percent)) \div 10000
<1>1. percent \in {3500, 2500, 1500}
  BY DEF ExpiryClearanceTiers
<1>2. percent % 100 = 0 /\ percent <= 10000 /\ percent \in Nat /\ 10000 - percent \in Nat
  BY <1>1
<1> HIDE DEF percent
<1>3. <<base, percent>> \notin LostCents
  <2>1. SUFFICES ASSUME <<base, percent>> \in LostCents PROVE FALSE
    OBVIOUS
  <2>2. MayLoseACent(base, percent)
    BY <2>1, LostCent
  <2> QED
    BY <1>2, <2>2 DEF MayLoseACent
<1>4. whole \in Nat
  <2>1. base * (10000 - percent) \in Nat
    BY <1>2, Products
  <2> DEFINE exact == base * (10000 - percent)
  <2> HIDE DEF exact
  <2>2. exact \div 10000 \in Nat
    BY <2>1, Quotients DEF exact
  <2> QED
    BY <2>2 DEF exact
<1>5. ApplyPercentOff(base, percent) = NormalizeCents(whole - 0)
  <2>1. ~ (percent > 10000)
    BY <1>2
  <2> QED
    BY <1>3, <2>1 DEF ApplyPercentOff
<1> HIDE DEF whole
<1>6. ApplyPercentOff(base, percent) = whole
  BY <1>4, <1>5 DEF NormalizeCents
<1> QED
  BY <1>6 DEF percent, whole

(* The earlier a tier stands in the list, the less is left of the price.   *)
LEMMA TiersAreOrdered ==
  ASSUME NEW base \in Nat, NEW m \in DOMAIN ExpiryClearanceTiers,
         NEW n \in DOMAIN ExpiryClearanceTiers, m <= n
  PROVE  ApplyPercentOff(base, ExpiryClearanceTiers[m].percent)
           <= ApplyPercentOff(base, ExpiryClearanceTiers[n].percent)
<1> DEFINE a == base * (10000 - ExpiryClearanceTiers[m].percent)
           b == base * (10000 - ExpiryClearanceTiers[n].percent)
<1>1. a \in Nat /\ b \in Nat /\ a <= b
  BY DEF ExpiryClearanceTiers
<1> HIDE DEF a, b
<1>2. a \div 10000 <= b \div 10000
  BY <1>1, QuotientsGrow
<1> QED
  BY <1>2, TierPrice DEF a, b

(* A tier that an item is in it does not leave before it expires, but for  *)
(* one that stands earlier in the list.                                    *)
LEMMA ClearanceDeepensLater ==
  ASSUME TypeOK, NEW t \in Int, NEW u \in Int, t <= u, NEW quantity \in Nat \ {0},
         Purchasable(quantity, u), NEW c \in ExpiryClearance(t)
  PROVE  \E d \in ExpiryClearance(u) : d.price <= c.price
<1>1. PICK n \in FittingTiers(t) :
        c = Candidate("EXPIRY_CLEARANCE", ApplyPercentOff(item.price, ExpiryClearanceTiers[n].percent), 0, 0)
  BY DEF ExpiryClearance
<1>2. n \in FittingTiers(u)
  <2>1. item.expiresAt \in Int
    BY <1>1, ItemTyped DEF FittingTiers, Optional
  <2>2. u < item.expiresAt
    <3>1. \A reason \in BlockedReasons : reason # None
      BY ConstantsAssumption
    <3>2. item.expiresAt # None
      BY <2>1, ConstantsAssumption
    <3>3. ~ (u >= item.expiresAt)
      BY <3>1, <3>2 DEF Purchasable, BlockedReason, BlockedReasons
    <3> QED
      BY <2>1, <3>3
  <2>3. ExpiryClearanceTiers[n].hours \in Int
    BY <1>1 DEF FittingTiers, ExpiryClearanceTiers
  <2> QED
    BY <1>1, <2>1, <2>2, <2>3 DEF FittingTiers
<1>3. PICK m \in FittingTiers(u) : \A k \in FittingTiers(u) : m <= k
  <2>1. FittingTiers(u) \subseteq Nat
    BY DEF FittingTiers, ExpiryClearanceTiers
  <2> QED
    BY <1>2, <2>1, LeastOfNumbers
<1> DEFINE d == Candidate("EXPIRY_CLEARANCE",
                          ApplyPercentOff(item.price, ExpiryClearanceTiers[m].percent), 0, 0)
<1>4. d \in ExpiryClearance(u)
  BY <1>3 DEF ExpiryClearance
<1>5. ApplyPercentOff(item.price, ExpiryClearanceTiers[m].percent)
        <= ApplyPercentOff(item.price, ExpiryClearanceTiers[n].percent)
  <2>1. m <= n
    BY <1>2, <1>3
  <2>2. m \in DOMAIN ExpiryClearanceTiers /\ n \in DOMAIN ExpiryClearanceTiers
    BY <1>1, <1>3 DEF FittingTiers
  <2> QED
    BY <2>1, <2>2, ItemTyped, TiersAreOrdered
<1>6. d.price <= c.price
  BY <1>1, <1>5 DEF Candidate
<1> QED
  BY <1>4, <1>6

(* The price of an item only falls as its end draws nearer, as long as the *)
(* rules and offers that applied still do.                                 *)
THEOREM ClearanceOnlyDeepens == Spec => []ClearanceDeepens
<1>1. ASSUME TypeOK, NEW quantity \in Quantities, NEW t \in Instants, NEW u \in Instants, t <= u,
             Purchasable(quantity, u),
             OfferCandidates(t) \cup PricingRuleCandidates(quantity, t)
               \subseteq OfferCandidates(u) \cup PricingRuleCandidates(quantity, u)
      PROVE  Quote(quantity, u, None).price <= Quote(quantity, t, None).price
  <2>1. quantity \in Nat \ {0} /\ t \in Int /\ u \in Int
    BY ConstantsAssumption
  <2>2. PICK c \in Candidates(quantity, t) : Quote(quantity, t, None).price = c.price
    BY <1>1, <2>1, QuotedPrice
  <2>3. \E d \in Candidates(quantity, u) : d.price <= c.price
    <3>1. c.price \in Nat
      BY <1>1, <2>1, QuotedPrice
    <3>2. CASE c \in ExpiryClearance(t)
      BY <1>1, <2>1, <3>2, ClearanceDeepensLater DEF Candidates
    <3>3. CASE c \notin ExpiryClearance(t)
      <4>1. c \in Candidates(quantity, u)
        BY <1>1, <3>3 DEF Candidates
      <4> QED
        BY <3>1, <4>1
    <3> QED
      BY <3>2, <3>3
  <2>4. \A d \in Candidates(quantity, u) : Quote(quantity, u, None).price <= d.price /\ d.price \in Nat
    BY <1>1, <2>1, QuotedPrice
  <2>5. Quote(quantity, u, None).price \in Nat /\ c.price \in Nat
    BY <1>1, <2>1, QuotedPrice
  <2> QED
    BY <2>2, <2>3, <2>4, <2>5
<1>2. TypeOK => ClearanceDeepens
  BY <1>1 DEF ClearanceDeepens
<1> QED
  BY <1>2, PricingTypeCorrect, PTL
=============================================================================
