----------------------------- MODULE BusinessOps ----------------------------
(***************************************************************************)
(* The records of the businesses: modules/business-ops.                    *)
(*                                                                         *)
(* Ten collections are created, patched and deleted through the same kinds *)
(* of checks: the business exists, what a record refers to exists and      *)
(* belongs to the same business, and its keys are free.  Every handler runs *)
(* to its end without an await and is one step.                            *)
(*                                                                         *)
(* Of a record are kept the business it belongs to, its references as      *)
(* pairs of a collection and an id, and its keys as pairs of a name and a  *)
(* value; amounts, texts, states and dates are left out (DynamicPricing    *)
(* has those that make a price).  A patch that names neither business nor  *)
(* references nor keys checks the ones the record has.                     *)
(*                                                                         *)
(* A definition called Mutant... is a faulty variant of the one after it;  *)
(* no specification uses it, the mutation checks put it in its place.      *)
(***************************************************************************)
EXTENDS Integers, FiniteSets

CONSTANTS
  KeyValues,   \* values of slugs, skus, coupon codes, emails, phones, external references
  None,        \* no business, and the value of the only key of a store profile
  MaxRecords   \* bound: records ever created

ASSUME ConstantsAssumption == None \notin Nat /\ None \notin KeyValues /\ MaxRecords \in Nat

VARIABLES
  records,  \* store.businessOps, all collections in one, by id
  created   \* the number of ids createId has given out

vars == <<records, created>>

(* What the records of a collection may refer to, one of each.             *)
References ==
  [businesses |-> {}, storeProfiles |-> {}, inventoryItems |-> {}, campaigns |-> {},
   notificationRecipients |-> {},
   pricingRules |-> {"inventoryItems"},
   offers |-> {"inventoryItems", "pricingRules", "campaigns"},
   deliveryLeads |-> {"inventoryItems", "offers", "notificationRecipients"},
   affiliateClicks |-> {"campaigns"},
   rewardLedger |-> {"campaigns"}]

Collections == DOMAIN References

(* The keys of a collection; a business has one store profile, as if its   *)
(* profiles all had the same key.                                          *)
KeyNames ==
  [businesses |-> {"slug"}, storeProfiles |-> {"profile"}, inventoryItems |-> {"sku"},
   offers |-> {"couponCode"}, notificationRecipients |-> {"email", "phone"},
   rewardLedger |-> {"externalRef"},
   pricingRules |-> {}, campaigns |-> {}, deliveryLeads |-> {}, affiliateClicks |-> {}]

MayStandAlone == {"affiliateClicks", "rewardLedger"}
GlobalKeys == {"businesses", "rewardLedger"}

Of(collection) == {i \in DOMAIN records : records[i].collection = collection}

-----------------------------------------------------------------------------
(* The checks of a record to be written. *)

BusinessFits(r) ==
  \/ r.collection # "businesses" /\ r.business \in Of("businesses")
  \/ r.collection \in MayStandAlone \cup {"businesses"} /\ r.business = None

(* A record without business may refer to those of any.                    *)
RefFits(r, t) ==
  /\ t[1] \in References[r.collection] /\ t[2] \in Of(t[1])
  /\ r.business \in {None, records[t[2]].business}

RefsFit(r) ==
  /\ \A t \in r.refs : RefFits(r, t)
  /\ \A t, u \in r.refs : t[1] = u[1] => t = u

KeysFit(r) ==
  /\ \A k, l \in r.keys : k[1] = l[1] => k = l
  /\ r.collection \in {"businesses", "storeProfiles"} => r.keys # {}

SameScope(r, s) ==
  /\ r.collection = s.collection
  /\ r.collection \in GlobalKeys \/ r.business = s.business

MutantTaken(r, id) ==
  \E i \in DOMAIN records \ {id} :
    /\ SameScope(IF id \in DOMAIN records THEN records[id] ELSE r, records[i])
    /\ r.keys \cap records[i].keys # {}
MutantTakenBySelf(r, id) ==
  \E i \in DOMAIN records : SameScope(r, records[i]) /\ r.keys \cap records[i].keys # {}
Taken(r, id) ==
  \E i \in DOMAIN records \ {id} :
    SameScope(r, records[i]) /\ r.keys \cap records[i].keys # {}

Accepted(r, id) == BusinessFits(r) /\ RefsFit(r) /\ KeysFit(r) /\ ~Taken(r, id)

(* What requests ask for.                                                  *)
Keys(collection) ==
  KeyNames[collection] \X (IF collection = "storeProfiles" THEN {None} ELSE KeyValues)

Requests(collection) ==
  [collection : {collection}, business : Of("businesses") \cup {None},
   refs : SUBSET UNION {{c} \X Of(c) : c \in References[collection]},
   keys : SUBSET Keys(collection)]

-----------------------------------------------------------------------------
(* Operations. *)

Create(collection) ==
  /\ created < MaxRecords
  /\ created' = created + 1
  /\ \E r \in Requests(collection) :
       /\ Accepted(r, created + 1)
       /\ records' = [i \in DOMAIN records \cup {created + 1} |->
                        IF i = created + 1 THEN r ELSE records[i]]

(* References the patch does not name stay, even ones to what is gone: then *)
(* the patch is refused.                                                   *)
Update(collection) ==
  /\ \E i \in Of(collection), r \in Requests(collection) :
       /\ Accepted(r, i)
       /\ records' = [records EXCEPT ![i] = r]
  /\ UNCHANGED created

Without(gone) == [i \in DOMAIN records \ gone |-> records[i]]

Delete(collection) ==
  /\ \E i \in Of(collection) : records' = Without({i})
  /\ UNCHANGED created

Keep(collection) == Create(collection) \/ Update(collection) \/ Delete(collection)

(* Deleting a business deletes what belongs to it, in all collections, but *)
(* not what refers to those records.                                       *)
MutantBelonging(b) ==
  {i \in DOMAIN records : records[i].business = b /\ records[i].collection # "rewardLedger"}
Belonging(b) == {i \in DOMAIN records : records[i].business = b}

DeleteBusiness ==
  /\ \E b \in Of("businesses") : records' = Without({b} \cup Belonging(b))
  /\ UNCHANGED created

Businesses == Create("businesses") \/ Update("businesses")
StoreProfiles == Keep("storeProfiles")
InventoryItems == Keep("inventoryItems")
PricingRules == Keep("pricingRules")
Offers == Keep("offers")
Campaigns == Keep("campaigns")
NotificationRecipients == Keep("notificationRecipients")
DeliveryLeads == Keep("deliveryLeads")
AffiliateClicks == Keep("affiliateClicks")
RewardLedger == Keep("rewardLedger")

(* The rules or offers that quoteDynamicPrice counts for an item, which    *)
(* must be one of the business: those that name the item or none.          *)
Quotable(business, item) ==
  business \in Of("businesses") /\ item \in Of("inventoryItems")
    /\ records[item].business = business

MutantCounted(collection, business, item) ==
  {i \in Of(collection) : \A t \in records[i].refs : t[1] = "inventoryItems" => t[2] = item}
Counted(collection, business, item) ==
  {i \in Of(collection) :
     /\ records[i].business = business
     /\ \A t \in records[i].refs : t[1] = "inventoryItems" => t[2] = item}

Init == records = [i \in {} |-> None] /\ created = 0

Next ==
  \/ Businesses \/ DeleteBusiness
  \/ StoreProfiles \/ InventoryItems \/ PricingRules \/ Offers \/ Campaigns
  \/ NotificationRecipients \/ DeliveryLeads \/ AffiliateClicks \/ RewardLedger

Spec == Init /\ [][Next]_vars

-----------------------------------------------------------------------------
(* Properties. *)

(* Every record belongs to a business that exists, but for the two kinds   *)
(* that may stand alone: deleting a business leaves nothing of it behind.  *)
BusinessesOwnTheirRecords ==
  \A i \in DOMAIN records : BusinessFits(records[i])

(* No two records of a collection share a key in its scope, however records *)
(* move between businesses.                                                *)
KeysAreUnique ==
  \A i, j \in DOMAIN records :
    i # j /\ SameScope(records[i], records[j]) => records[i].keys \cap records[j].keys = {}

(* A record one of whose references was deleted or has moved to another    *)
(* business is refused every patch that leaves the reference as it is, but *)
(* never one that clears it: no record is out of reach for good.           *)
BrokenReferencesCanBeCleared ==
  \A i \in DOMAIN records :
    LET mended == [records[i] EXCEPT !.refs = {t \in @ : RefFits(records[i], t)}]
    IN  Accepted(mended, i)

(* A rule or offer that names an item is counted in a quote as long as the *)
(* item is there and belongs to the same business: once the item or the    *)
(* rule has moved, it neither lowers a price of its old business nor one   *)
(* of its new one.                                                         *)
RulesPriceTheirOwnItem ==
  \A c \in {"pricingRules", "offers"} : \A i \in Of(c) : \A t \in records[i].refs :
    t[1] = "inventoryItems" =>
      (RefFits(records[i], t) <=>
         \E b, n \in DOMAIN records : Quotable(b, n) /\ i \in Counted(c, b, n))

-----------------------------------------------------------------------------
(* Types. *)

AllKeys == UNION {Keys(collection) : collection \in Collections}

RecordType ==
  [collection : Collections, business : (1..created) \cup {None}, refs : SUBSET (Collections \X (1..created)),
   keys : SUBSET AllKeys]

(* Records are well formed, and every id in them was given out.            *)
TypeOK ==
  /\ created \in Nat
  /\ DOMAIN records \subseteq 1..created
  /\ records \in [DOMAIN records -> RecordType]
=============================================================================
