------------------------- MODULE BusinessOps_proofs -------------------------
(* What holds of BusinessOps for all keys and any number of records.       *)
(*                                                                         *)
(* A step writes one record that was accepted, or removes records with all *)
(* that belongs to the businesses among them.  The invariant below is kept *)
(* by both, which StepKeepsIInv puts together for the ten collections.     *)
EXTENDS BusinessOps, TLAPS

OneOfEach(r) ==
  \A t, u \in r.refs : t[1] = u[1] => t = u

(* Besides the properties: the keys of a record fit its collection, and it *)
(* names one record of a collection at most, there or not.                 *)
IInv ==
  /\ TypeOK
  /\ BusinessesOwnTheirRecords
  /\ KeysAreUnique
  /\ \A i \in DOMAIN records : KeysFit(records[i]) /\ OneOfEach(records[i])

-----------------------------------------------------------------------------
(* The two ways in which records change. *)

(* Record r is written under the new or old id i.                          *)
Writes(i, r) ==
  /\ i \in DOMAIN records => records[i].collection = r.collection
  /\ i \notin DOMAIN records => i = created + 1
  /\ Accepted(r, i)
  /\ DOMAIN records' = DOMAIN records \cup {i}
  /\ records'[i] = r
  /\ \A j \in DOMAIN records \ {i} : records'[j] = records[j]
  /\ records' \in [DOMAIN records' -> RecordType]
  /\ created' \in {created, created + 1}
  /\ i <= created'

(* The records in gone are removed, and all that belongs to them.          *)
Removes(gone) ==
  /\ DOMAIN records' = DOMAIN records \ gone
  /\ records' \in [DOMAIN records' -> RecordType]
  /\ \A j \in DOMAIN records \ gone :
       records'[j] = records[j] /\ (records[j].business = None \/ records[j].business \notin gone)
  /\ created' = created

LEMMA RequestTyped ==
  ASSUME TypeOK, NEW c \in Collections, NEW r \in Requests(c)
  PROVE  r \in RecordType /\ r.collection = c
<1>1. /\ r.collection = c
      /\ r.business \in Of("businesses") \cup {None}
      /\ r.refs \subseteq UNION {{k} \X Of(k) : k \in References[c]}
      /\ r.keys \subseteq Keys(c)
      /\ r = [collection |-> r.collection, business |-> r.business, refs |-> r.refs, keys |-> r.keys]
  BY DEF Requests
<1>2. r.business \in (1..created) \cup {None} /\ r.refs \subseteq Collections \X (1..created)
  <2>1. \A k \in References[c] : k \in Collections /\ Of(k) \subseteq 1..created
    BY DEF References, Collections, Of, TypeOK
  <2>2. ASSUME NEW t \in r.refs PROVE t \in Collections \X (1..created)
    <3>1. PICK k \in References[c] : t \in {k} \X Of(k)
      BY <1>1
    <3> QED
      BY <2>1, <3>1
  <2> QED
    BY <1>1, <2>2 DEF TypeOK, Of
<1>3. r.keys \subseteq AllKeys
  BY <1>1 DEF AllKeys
<1> QED
  BY <1>1, <1>2, <1>3 DEF RecordType

(* Create writes an accepted request under a new id.                       *)
LEMMA CreateWrites ==
  ASSUME TypeOK, NEW c \in Collections, Create(c)
  PROVE  \E r \in RecordType : Writes(created + 1, r)
<1>1. PICK r \in Requests(c) :
        /\ Accepted(r, created + 1)
        /\ records' = [i \in DOMAIN records \cup {created + 1} |->
                         IF i = created + 1 THEN r ELSE records[i]]
  BY DEF Create
<1>2. r \in RecordType
  BY RequestTyped
<1>3. created' = created + 1 /\ created \in Nat
  BY DEF Create, TypeOK
<1>4. records' \in [DOMAIN records' -> RecordType]
  BY <1>1, <1>2 DEF TypeOK
<1>5. created + 1 \notin DOMAIN records
  BY <1>3 DEF TypeOK
<1>6. /\ DOMAIN records' = DOMAIN records \cup {created + 1}
      /\ records'[created + 1] = r
      /\ \A j \in DOMAIN records \ {created + 1} : records'[j] = records[j]
  BY <1>1, <1>5
<1>7. Writes(created + 1, r)
  BY <1>1, <1>3, <1>4, <1>5, <1>6 DEF Writes
<1> QED
  BY <1>2, <1>7

(* Update writes an accepted request of the same collection.               *)
LEMMA UpdateWrites ==
  ASSUME TypeOK, NEW c \in Collections, Update(c)
  PROVE  \E r \in RecordType, i \in DOMAIN records : Writes(i, r)
<1>1. PICK i \in Of(c), r \in Requests(c) : Accepted(r, i) /\ records' = [records EXCEPT ![i] = r]
  BY DEF Update
<1>2. r \in RecordType /\ r.collection = c
  BY RequestTyped
<1>3. i \in DOMAIN records /\ records[i].collection = c
  BY DEF Of
<1>4. created' = created /\ i <= created /\ created \in Nat
  BY <1>3 DEF Update, TypeOK
<1>5. records' \in [DOMAIN records' -> RecordType]
  BY <1>1, <1>2, <1>3 DEF TypeOK
<1>6. Writes(i, r)
  BY <1>1, <1>2, <1>3, <1>4, <1>5 DEF Writes, TypeOK
<1> QED
  BY <1>2, <1>3, <1>6
-----------------------------------------------------------------------------
(* Writing keeps the invariant. *)

LEMMA RecordTypeGrows ==
  ASSUME TypeOK, created' \in {created, created + 1}
  PROVE  RecordType \subseteq RecordType'
<1>1. 1..created \subseteq 1..created'
  BY DEF TypeOK
<1> QED
  BY <1>1 DEF RecordType

LEMMA WritesKeepType ==
  ASSUME TypeOK, NEW i, NEW r \in RecordType, Writes(i, r)
  PROVE  TypeOK'
<1>1. created' \in Nat /\ DOMAIN records' \subseteq 1..created'
  BY DEF TypeOK, Writes
<1>2. records' \in [DOMAIN records' -> RecordType']
  BY RecordTypeGrows DEF Writes
<1> QED
  BY <1>1, <1>2 DEF TypeOK

LEMMA WritesKeepOwners ==
  ASSUME BusinessesOwnTheirRecords, NEW i, NEW r \in RecordType, Writes(i, r)
  PROVE  BusinessesOwnTheirRecords'
<1>1. Of("businesses") \subseteq Of("businesses")'
  BY DEF Writes, Of
<1>2. BusinessFits(r) /\ \A j \in DOMAIN records : BusinessFits(records[j])
  BY DEF Writes, Accepted, BusinessesOwnTheirRecords
<1>3. \A j \in DOMAIN records' : records'[j] = r \/ \E k \in DOMAIN records : records'[j] = records[k]
  BY DEF Writes
<1> QED
  BY <1>1, <1>2, <1>3 DEF BusinessesOwnTheirRecords, BusinessFits

LEMMA WritesKeepKeys ==
  ASSUME KeysAreUnique, NEW i, NEW r \in RecordType, Writes(i, r)
  PROVE  KeysAreUnique'
<1> SUFFICES ASSUME NEW j \in DOMAIN records', NEW k \in DOMAIN records', j # k,
                    SameScope(records'[j], records'[k])
             PROVE  records'[j].keys \cap records'[k].keys = {}
  BY DEF KeysAreUnique, SameScope
<1>1. \A l \in DOMAIN records \ {i} : SameScope(r, records[l]) => r.keys \cap records[l].keys = {}
  BY DEF Writes, Accepted, Taken
<1>2. CASE j = i
  BY <1>1, <1>2 DEF Writes
<1>3. CASE k = i
  BY <1>1, <1>3 DEF Writes, SameScope
<1>4. CASE j # i /\ k # i
  BY <1>4 DEF Writes, KeysAreUnique
<1> QED
  BY <1>2, <1>3, <1>4

LEMMA WritesKeepShape ==
  ASSUME IInv, NEW i, NEW r \in RecordType, Writes(i, r)
  PROVE  \A j \in DOMAIN records' : (KeysFit(records[j]) /\ OneOfEach(records[j]))'
<1>1. KeysFit(r) /\ OneOfEach(r)
  BY DEF Writes, Accepted, RefsFit, OneOfEach
<1>2. \A j \in DOMAIN records' : records'[j] = r \/ \E k \in DOMAIN records : records'[j] = records[k]
  BY DEF Writes
<1>3. \A j \in DOMAIN records' : KeysFit(records'[j]) /\ OneOfEach(records'[j])
  BY <1>1, <1>2 DEF IInv
<1> QED
  BY <1>3 DEF KeysFit, OneOfEach

LEMMA WritesKeepIInv ==
  ASSUME IInv, NEW i, NEW r \in RecordType, Writes(i, r)
  PROVE  IInv'
BY WritesKeepType, WritesKeepOwners, WritesKeepKeys, WritesKeepShape DEF IInv

-----------------------------------------------------------------------------
(* Removing keeps the invariant. *)

LEMMA RemovesKeepIInv ==
  ASSUME IInv, NEW gone, Removes(gone)
  PROVE  IInv'
<1>1. DOMAIN records' \subseteq DOMAIN records /\ \A j \in DOMAIN records' : records'[j] = records[j]
  BY DEF Removes
<1>2. RecordType' = RecordType
  BY DEF Removes, RecordType
<1>3. TypeOK'
  <2>1. records' \in [DOMAIN records' -> RecordType]
    BY DEF Removes
  <2> QED
    BY <1>1, <1>2, <2>1 DEF IInv, TypeOK, Removes
<1>4. BusinessesOwnTheirRecords'
  <2>1. Of("businesses") \ gone \subseteq Of("businesses")'
    BY DEF Of, Removes
  <2>2. \A j \in DOMAIN records \ gone : records[j].business = None \/ records[j].business \notin gone
    BY DEF Removes
  <2>3. \A j \in DOMAIN records : BusinessFits(records[j])
    BY DEF IInv, BusinessesOwnTheirRecords
  <2>4. ASSUME NEW j \in DOMAIN records' PROVE BusinessFits(records[j])'
    <3>1. j \in DOMAIN records \ gone /\ records'[j] = records[j]
      BY DEF Removes
    <3>2. CASE records[j].collection # "businesses" /\ records[j].business \in Of("businesses")
      <4>1. records[j].business # None => records[j].business \in Of("businesses")'
        BY <2>1, <2>2, <3>1, <3>2
      <4>2. None \notin Of("businesses")
        BY ConstantsAssumption DEF Of, IInv, TypeOK
      <4> QED
        BY <3>1, <3>2, <4>1, <4>2 DEF BusinessFits
    <3>3. CASE records[j].collection \in MayStandAlone \cup {"businesses"} /\ records[j].business = None
      BY <3>1, <3>3 DEF BusinessFits
    <3> QED
      BY <2>3, <3>1, <3>2, <3>3 DEF BusinessFits
  <2> QED
    BY <2>4 DEF BusinessesOwnTheirRecords
<1>5. KeysAreUnique'
  BY <1>1 DEF IInv, KeysAreUnique, SameScope
<1>6. \A j \in DOMAIN records' : (KeysFit(records[j]) /\ OneOfEach(records[j]))'
  BY <1>1 DEF IInv, KeysFit, OneOfEach
<1> QED
  BY <1>3, <1>4, <1>5, <1>6 DEF IInv
(* What Without leaves is a part of the records as they were.              *)
LEMMA WithoutRemoves ==
  ASSUME TypeOK, NEW gone, records' = Without(gone), created' = created,
         \A j \in DOMAIN records \ gone : records[j].business = None \/ records[j].business \notin gone
  PROVE  Removes(gone)
<1>1. /\ DOMAIN records' = DOMAIN records \ gone
      /\ \A j \in DOMAIN records \ gone : records'[j] = records[j]
  BY DEF Without
<1>2. records' \in [DOMAIN records' -> RecordType]
  BY DEF Without, TypeOK
<1> QED
  BY <1>1, <1>2 DEF Removes

(* A record that is no business is removed alone: nothing belongs to it.   *)
LEMMA DeleteRemoves ==
  ASSUME IInv, NEW c \in Collections, c # "businesses", Delete(c)
  PROVE  \E gone : Removes(gone)
<1>1. PICK i \in Of(c) : records' = Without({i})
  BY DEF Delete
<1>2. \A j \in DOMAIN records : records[j].business = None \/ records[j].business \in Of("businesses")
  BY DEF IInv, BusinessesOwnTheirRecords, BusinessFits
<1>3. i \notin Of("businesses")
  BY DEF Of
<1>4. Removes({i})
  BY <1>1, <1>2, <1>3, WithoutRemoves DEF Delete, IInv
<1> QED
  BY <1>4

(* A business is removed with what belongs to it; to that belongs nothing, *)
(* for a business belongs to none.                                         *)
LEMMA DeleteBusinessRemoves ==
  ASSUME IInv, DeleteBusiness
  PROVE  \E gone : Removes(gone)
<1>1. PICK b \in Of("businesses") : records' = Without({b} \cup Belonging(b))
  BY DEF DeleteBusiness
<1>2. b # None
  BY ConstantsAssumption DEF Of, IInv, TypeOK
<1>3. ASSUME NEW j \in DOMAIN records \ ({b} \cup Belonging(b))
      PROVE  records[j].business = None \/ records[j].business \notin {b} \cup Belonging(b)
  <2>1. records[j].business # b
    BY <1>3 DEF Belonging
  <2>2. records[j].business = None \/ records[j].business \in Of("businesses")
    BY <1>3 DEF IInv, BusinessesOwnTheirRecords, BusinessFits
  <2>3. \A k \in Of("businesses") : records[k].business = None
    BY DEF IInv, BusinessesOwnTheirRecords, BusinessFits, Of, MayStandAlone
  <2> QED
    BY <1>2, <2>1, <2>2, <2>3 DEF Belonging
<1>4. Removes({b} \cup Belonging(b))
  BY <1>1, <1>3, WithoutRemoves DEF DeleteBusiness, IInv
<1> QED
  BY <1>4

-----------------------------------------------------------------------------
(* The theorems. *)

LEMMA KeepKeepsIInv ==
  ASSUME IInv, NEW c \in Collections, Create(c) \/ Update(c) \/ (c # "businesses" /\ Delete(c))
  PROVE  IInv'
<1>1. CASE Create(c)
  BY <1>1, CreateWrites, WritesKeepIInv DEF IInv
<1>2. CASE Update(c)
  BY <1>2, UpdateWrites, WritesKeepIInv DEF IInv
<1>3. CASE c # "businesses" /\ Delete(c)
  BY <1>3, DeleteRemoves, RemovesKeepIInv
<1> QED
  BY <1>1, <1>2, <1>3

LEMMA StepKeepsIInv == IInv /\ [Next]_vars => IInv'
<1> SUFFICES ASSUME IInv, [Next]_vars PROVE IInv'
  OBVIOUS
<1>1. CASE \E c \in Collections : Create(c) \/ Update(c) \/ (c # "businesses" /\ Delete(c))
  BY <1>1, KeepKeepsIInv
<1>2. CASE DeleteBusiness
  BY <1>2, DeleteBusinessRemoves, RemovesKeepIInv
<1>3. CASE UNCHANGED vars
  BY <1>3 DEF vars, IInv, TypeOK, RecordType, BusinessesOwnTheirRecords, BusinessFits, Of,
              KeysAreUnique, SameScope, KeysFit, OneOfEach
<1>4. Next => DeleteBusiness \/ \E c \in Collections :
                Create(c) \/ Update(c) \/ (c # "businesses" /\ Delete(c))
  BY DEF Next, Keep, Businesses, StoreProfiles, InventoryItems, PricingRules, Offers, Campaigns,
         NotificationRecipients, DeliveryLeads, AffiliateClicks, RewardLedger, Collections, References
<1> QED
  BY <1>1, <1>2, <1>3, <1>4

LEMMA AlwaysIInv == Spec => []IInv
<1>1. Init => IInv
  BY DEF Init, IInv, TypeOK, BusinessesOwnTheirRecords, KeysAreUnique
<1> QED
  BY <1>1, StepKeepsIInv, PTL DEF Spec

(* Records are well formed in every reachable state.                       *)
THEOREM RecordsTypeCorrect == Spec => []TypeOK
<1>1. IInv => TypeOK
  BY DEF IInv
<1> QED
  BY <1>1, AlwaysIInv, PTL

(* No record is ever left without the business it belongs to.              *)
THEOREM RecordsHaveTheirBusiness == Spec => []BusinessesOwnTheirRecords
<1>1. IInv => BusinessesOwnTheirRecords
  BY DEF IInv
<1> QED
  BY <1>1, AlwaysIInv, PTL

(* No two records of a collection ever share a key in its scope.           *)
THEOREM KeysStayUnique == Spec => []KeysAreUnique
<1>1. IInv => KeysAreUnique
  BY DEF IInv
<1> QED
  BY <1>1, AlwaysIInv, PTL

(* However references break, every record can be written back without the  *)
(* broken ones: its business, its keys and the references left are fine.   *)
THEOREM RecordsCanBeMended == Spec => []BrokenReferencesCanBeCleared
<1>1. ASSUME IInv, NEW i \in DOMAIN records
      PROVE  Accepted([records[i] EXCEPT !.refs = {t \in @ : RefFits(records[i], t)}], i)
  <2> DEFINE left == {t \in records[i].refs : RefFits(records[i], t)}
             mended == [records[i] EXCEPT !.refs = left]
  <2>1. records[i] \in RecordType
    BY <1>1 DEF IInv, TypeOK
  <2>2. /\ mended.collection = records[i].collection /\ mended.business = records[i].business
        /\ mended.keys = records[i].keys /\ mended.refs = left
    BY <2>1 DEF RecordType
  <2> HIDE DEF mended
  <2>3. BusinessFits(mended)
    BY <1>1, <2>2 DEF IInv, BusinessesOwnTheirRecords, BusinessFits
  <2>4. RefsFit(mended)
    BY <1>1, <2>2 DEF IInv, OneOfEach, RefsFit, RefFits
  <2>5. KeysFit(mended)
    BY <1>1, <2>2 DEF IInv, KeysFit
  <2>6. ~Taken(mended, i)
    BY <1>1, <2>2 DEF IInv, KeysAreUnique, Taken, SameScope
  <2> QED
    BY <2>3, <2>4, <2>5, <2>6 DEF Accepted, mended
<1>2. IInv => BrokenReferencesCanBeCleared
  BY <1>1 DEF BrokenReferencesCanBeCleared
<1> QED
  BY <1>2, AlwaysIInv, PTL

(* A rule or offer that names an item prices this item as long as both     *)
(* belong to the same business, and no other.                              *)
THEOREM RulesPriceOnlyTheirItem == Spec => []RulesPriceTheirOwnItem
<1>1. ASSUME IInv, NEW c \in {"pricingRules", "offers"}, NEW i \in Of(c), NEW t \in records[i].refs,
             t[1] = "inventoryItems"
      PROVE  RefFits(records[i], t) <=>
               \E b, n \in DOMAIN records : Quotable(b, n) /\ i \in Counted(c, b, n)
  <2> DEFINE own == records[i].business
  <2>1. i \in DOMAIN records /\ records[i].collection = c /\ "inventoryItems" \in References[c]
    BY <1>1 DEF Of, References
  <2>2. own \in Of("businesses") /\ own # None /\ own \in DOMAIN records
    <3>1. own \in Of("businesses")
      BY <1>1, <2>1 DEF IInv, BusinessesOwnTheirRecords, BusinessFits, MayStandAlone
    <3> QED
      BY <1>1, <3>1, ConstantsAssumption DEF Of, IInv, TypeOK
  <2>3. ASSUME RefFits(records[i], t)
        PROVE  \E b, n \in DOMAIN records : Quotable(b, n) /\ i \in Counted(c, b, n)
    <3>1. t[2] \in Of("inventoryItems") /\ records[t[2]].business = own
      BY <1>1, <2>2, <2>3 DEF RefFits
    <3>2. t[2] \in DOMAIN records /\ Quotable(own, t[2])
      BY <2>2, <3>1 DEF Quotable, Of
    <3>3. i \in Counted(c, own, t[2])
      BY <1>1 DEF Counted, IInv, OneOfEach, Of
    <3> QED
      BY <2>2, <3>2, <3>3
  <2>4. ASSUME NEW b \in DOMAIN records, NEW n \in DOMAIN records, Quotable(b, n), i \in Counted(c, b, n)
        PROVE  RefFits(records[i], t)
    <3>1. own = b /\ t[2] = n
      BY <1>1, <2>4 DEF Counted
    <3>2. n \in Of("inventoryItems") /\ records[n].business = b
      BY <2>4 DEF Quotable
    <3> QED
      BY <1>1, <2>1, <3>1, <3>2 DEF RefFits
  <2> QED
    BY <2>3, <2>4
<1>2. IInv => RulesPriceTheirOwnItem
  BY <1>1 DEF RulesPriceTheirOwnItem
<1> QED
  BY <1>2, AlwaysIInv, PTL
=============================================================================
