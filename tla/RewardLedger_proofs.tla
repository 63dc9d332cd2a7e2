------------------------- MODULE RewardLedger_proofs ------------------------
(***************************************************************************)
(* Theorems about RewardLedger, for any users, rules, batches and bounds.  *)
(***************************************************************************)
EXTENDS DurableLedger, FiniteSums

-----------------------------------------------------------------------------
(* The type of the ledger. *)

(* Creating an entry dated now or earlier leaves a well-formed ledger.     *)
LEMMA CreateEntryTypeOK ==
  ASSUME TypeOK, NEW e \in EntryType, CreateEntry(e),
         clock' \in Nat, clock <= clock', e.createdAt <= clock'
  PROVE  TypeOK'
  <1> DEFINE n == created + 1
  <1>1. /\ created' = n /\ n \in Nat
        /\ ledger' = [i \in DOMAIN ledger \cup {n} |-> IF i = n THEN e ELSE ledger[i]]
    BY DEF CreateEntry, TypeOK
  <1>2. \A i \in DOMAIN ledger : i \in 1..created
    BY DEF TypeOK
  <1>3. DOMAIN ledger' = DOMAIN ledger \cup {n}
    BY <1>1
  <1>4. DOMAIN ledger' \subseteq 1..created'
    BY <1>1, <1>2, <1>3 DEF TypeOK
  <1>5. ASSUME NEW i \in DOMAIN ledger'
        PROVE  ledger'[i] \in EntryType /\ ledger'[i].createdAt <= clock'
    <2>1. CASE i = n
      BY <1>1, <2>1
    <2>2. CASE i # n
      <3>1. ledger'[i] = ledger[i] /\ i \in DOMAIN ledger
        BY <1>1, <1>3, <2>2
      <3>2. ledger[i] \in EntryType /\ ledger[i].createdAt <= clock /\ clock \in Nat
        BY <3>1 DEF TypeOK
      <3>3. ledger[i].createdAt \in Nat
        BY <3>2 DEF EntryType
      <3>4. QED
        BY <3>1, <3>2, <3>3
    <2>3. QED
      BY <2>1, <2>2
  <1>6. ledger' \in [DOMAIN ledger' -> EntryType]
    <2>1. ledger' = [i \in DOMAIN ledger' |-> ledger'[i]]
      BY <1>1, <1>3
    <2> QED
      BY <1>5, <2>1
  <1> QED
    BY <1>1, <1>4, <1>5, <1>6 DEF TypeOK

(* So does moving entries along the payout.                                *)
LEMMA RewriteTypeOK ==
  ASSUME TypeOK, UNCHANGED <<created, clock>>, DOMAIN ledger' = DOMAIN ledger,
         ledger' = [i \in DOMAIN ledger' |-> ledger'[i]],
         \A i \in DOMAIN ledger :
           ledger'[i] \in EntryType /\ ledger'[i].createdAt = ledger[i].createdAt
  PROVE  TypeOK'
  BY DEF TypeOK

(* What the two payout operations do to an entry.                          *)
LEMMA PayoutSteps ==
  ASSUME TypeOK, NEW ids,
         \/ \E batch \in Batches : MarkExported(ids, batch)
         \/ \E batch \in Batches, hash \in Hashes : SettleExportBatch(ids, batch, hash)
  PROVE  /\ DOMAIN ledger' = DOMAIN ledger /\ ledger' = [i \in DOMAIN ledger' |-> ledger'[i]]
         /\ UNCHANGED <<created, clock>>
         /\ \A i \in DOMAIN ledger :
              \/ ledger'[i] = ledger[i]
              \/ /\ ledger[i].status = "PENDING"
                 /\ \E batch \in Batches :
                      ledger'[i] = [ledger[i] EXCEPT !.status = "EXPORTED", !.batch = batch]
              \/ /\ ledger[i].status = "EXPORTED"
                 /\ \E hash \in Hashes :
                      ledger'[i] = [ledger[i] EXCEPT !.status = "PAID", !.hash = hash]
  <1>1. CASE \E batch \in Batches : MarkExported(ids, batch)
    BY <1>1 DEF MarkExported, Exported, Exportable
  <1>2. CASE \E batch \in Batches, hash \in Hashes : SettleExportBatch(ids, batch, hash)
    BY <1>2 DEF SettleExportBatch, Settled, Settleable
  <1> QED
    BY <1>1, <1>2

(* What identifies an entry and what it is worth, and whether it counts.   *)
SameEntry(e, f) ==
  /\ f.user = e.user /\ f.token = e.token /\ f.amount = e.amount /\ f.rule = e.rule
  /\ f.source = e.source /\ f.key = e.key /\ f.createdAt = e.createdAt
  /\ f.status = "VOID" <=> e.status = "VOID"

(* The two operations keep all of that.                                    *)
LEMMA PayoutKeeps ==
  ASSUME TypeOK, NEW ids,
         \/ \E batch \in Batches : MarkExported(ids, batch)
         \/ \E batch \in Batches, hash \in Hashes : SettleExportBatch(ids, batch, hash)
  PROVE  /\ DOMAIN ledger' = DOMAIN ledger
         /\ \A i \in DOMAIN ledger :
              /\ ledger'[i] \in EntryType
              /\ SameEntry(ledger[i], ledger'[i])
  <1>1. DOMAIN ledger' = DOMAIN ledger
    BY PayoutSteps
  <1>2. ASSUME NEW i \in DOMAIN ledger
        PROVE  /\ ledger'[i] \in EntryType
               /\ SameEntry(ledger[i], ledger'[i])
    <2>1. ledger[i] \in EntryType
      BY DEF TypeOK
    <2>2. CASE ledger'[i] = ledger[i]
      BY <2>1, <2>2 DEF SameEntry
    <2>3. CASE /\ ledger[i].status = "PENDING"
               /\ \E batch \in Batches :
                    ledger'[i] = [ledger[i] EXCEPT !.status = "EXPORTED", !.batch = batch]
      BY <2>1, <2>3 DEF EntryType, Statuses, SameEntry
    <2>4. CASE /\ ledger[i].status = "EXPORTED"
               /\ \E hash \in Hashes :
                    ledger'[i] = [ledger[i] EXCEPT !.status = "PAID", !.hash = hash]
      BY <2>1, <2>4 DEF EntryType, Statuses, SameEntry
    <2> QED
      BY <2>2, <2>3, <2>4, PayoutSteps
  <1> QED
    BY <1>1, <1>2

(* What an accrual has found out and what it appends.                      *)
Accrued(user, rule, source, key, amount) ==
  LET e == Entry(user, Rules[rule].token, amount, rule, source, key, clock', "PENDING")
  IN  /\ ~KeyUsed(user, key) /\ ~SourceUsed(user, rule, source) /\ ~CoolingDown(user, rule)
      /\ SumUserTokenInWindow(user, Rules[rule].token, Day(clock)) + amount <= Rules[rule].dailyCap
      /\ Rules[rule].requireSource => source # None
      /\ \E quantity \in 1..Rules[rule].maxQuantity : amount = Rules[rule].amount * quantity
      /\ clock' \in Nat /\ clock <= clock'
      /\ CreateEntry(e) /\ e \in EntryType

(* Every accrual does that.                                                *)
LEMMA AccrualEntry ==
  ASSUME TypeOK, Accrue
  PROVE  \E user \in Users, rule \in DOMAIN Rules, source \in Sources \cup {None},
            key \in Keys \cup {None}, amount \in Nat \ {0} :
           Accrued(user, rule, source, key, amount)
  <1>1. PICK user \in Users, rule \in DOMAIN Rules, source \in Sources \cup {None},
             key \in Keys \cup {None} :
             \E quantity \in 1..Rules[rule].maxQuantity :
               AccrueByRule(user, rule, quantity, source, key)
    BY DEF Accrue
  <1>2. PICK quantity \in 1..Rules[rule].maxQuantity :
               AccrueByRule(user, rule, quantity, source, key)
    BY <1>1
  <1>3. Rules[rule] \in RuleType
    BY ConstantsAssumption
  <1>4. /\ Rules[rule].token \in Tokens
        /\ Rules[rule].amount \in Nat \ {0} /\ quantity \in Nat \ {0}
    BY <1>3 DEF RuleType
  <1> DEFINE amount == Rules[rule].amount * quantity
  <1>5. amount \in Nat \ {0}
    <2>1. \A a, b \in Nat \ {0} : a * b \in Nat \ {0}
      OBVIOUS
    <2> QED
      BY <1>4, <2>1
  <1> HIDE DEF amount
  <1>6. PICK lag \in Lags :
          /\ clock' = clock + lag
          /\ CreateEntry(Entry(user, Rules[rule].token, amount, rule, source, key,
                               clock + lag, "PENDING"))
    BY <1>2 DEF AccrueByRule, amount
  <1>7. clock' \in Nat /\ clock <= clock'
    BY <1>6, ConstantsAssumption DEF TypeOK
  <1>8. Entry(user, Rules[rule].token, amount, rule, source, key, clock', "PENDING") \in EntryType
    BY <1>4, <1>5, <1>7 DEF Entry, EntryType, Statuses
  <1>9. /\ ~KeyUsed(user, key) /\ ~SourceUsed(user, rule, source) /\ ~CoolingDown(user, rule)
        /\ SumUserTokenInWindow(user, Rules[rule].token, Day(clock)) + amount
             <= Rules[rule].dailyCap
        /\ Rules[rule].requireSource => source # None
        /\ amount = Rules[rule].amount * quantity
    BY <1>2 DEF AccrueByRule, amount
  <1> QED
    <2>1. Accrued(user, rule, source, key, amount)
      BY <1>6, <1>7, <1>8, <1>9 DEF Accrued
    <2> QED
      BY <1>5, <2>1

(* What a manual entry appends.                                            *)
LEMMA GrantEntry ==
  ASSUME TypeOK, Grant
  PROVE  \E user \in Users, token \in Tokens, amount \in ManualAmounts :
           LET e == Entry(user, token, amount, "MANUAL_GRANT", None, None, clock, ManualStatus(amount))
           IN  CreateEntry(e) /\ e \in EntryType /\ clock' = clock
  BY ConstantsAssumption DEF Grant, AddManualEntry, Entry, EntryType, Statuses, ManualStatus, TypeOK

(* Every operation leaves a well-formed ledger.                            *)
LEMMA NextTypeOK == TypeOK /\ [Next]_vars => TypeOK'
  <1> SUFFICES ASSUME TypeOK, [Next]_vars PROVE TypeOK'
    OBVIOUS
  <1>1. CASE Accrue
    <2>0. PICK user \in Users, rule \in DOMAIN Rules, source \in Sources \cup {None},
               key \in Keys \cup {None}, amount \in Nat \ {0} :
            Accrued(user, rule, source, key, amount)
      BY <1>1, AccrualEntry
    <2>1. LET e == Entry(user, Rules[rule].token, amount, rule, source, key, clock', "PENDING")
          IN  clock' \in Nat /\ clock <= clock' /\ CreateEntry(e) /\ e \in EntryType
      BY <2>0 DEF Accrued
    <2> DEFINE e == Entry(user, Rules[rule].token, amount, rule, source, key, clock', "PENDING")
    <2>2. e.createdAt = clock'
      BY DEF Entry
    <2> HIDE DEF e
    <2>3. clock' \in Nat /\ clock <= clock' /\ CreateEntry(e) /\ e \in EntryType
      BY <2>1 DEF e
    <2> QED
      BY <2>2, <2>3, CreateEntryTypeOK
  <1>2. CASE Grant
    <2>1. PICK user \in Users, token \in Tokens, amount \in ManualAmounts :
            LET e == Entry(user, token, amount, "MANUAL_GRANT", None, None, clock,
                           ManualStatus(amount))
            IN  CreateEntry(e) /\ e \in EntryType /\ clock' = clock
      BY <1>2, GrantEntry
    <2> DEFINE e == Entry(user, token, amount, "MANUAL_GRANT", None, None, clock,
                          ManualStatus(amount))
    <2>2. e.createdAt = clock
      BY DEF Entry
    <2> HIDE DEF e
    <2>3. CreateEntry(e) /\ e \in EntryType /\ clock' = clock /\ clock \in Nat
      BY <2>1 DEF e, TypeOK
    <2> QED
      BY <2>2, <2>3, CreateEntryTypeOK
  <1>3. ASSUME NEW ids,
               \/ \E batch \in Batches : MarkExported(ids, batch)
               \/ \E batch \in Batches, hash \in Hashes : SettleExportBatch(ids, batch, hash)
        PROVE  TypeOK'
    BY <1>3, PayoutSteps, PayoutKeeps, RewriteTypeOK DEF SameEntry
  <1>4. CASE Tick
    BY <1>4, ConstantsAssumption DEF Tick, TypeOK, EntryType
  <1>5. CASE UNCHANGED vars
    BY <1>5 DEF vars, TypeOK
  <1> QED
    BY <1>1, <1>2, <1>3, <1>4, <1>5 DEF Next

(* Every reachable ledger is well formed: ids were given out, amounts and  *)
(* timestamps are numbers, nothing is dated in the future.                 *)
THEOREM LedgerTypeCorrect == Spec => []TypeOK
  <1>1. Init => TypeOK
    BY DEF Init, TypeOK
  <1> QED
    BY <1>1, NextTypeOK, PTL DEF Spec

-----------------------------------------------------------------------------
(* Entries are accrued once. *)

(* AccruedOnce as one implication about two entries.                       *)
Distinct(e, f) ==
  e.user = f.user =>
    /\ e.key # None => e.key # f.key
    /\ e.rule = f.rule /\ e.source # None /\ e.rule # "MANUAL_GRANT" /\ Rules[e.rule].uniquePerSource
         => e.source # f.source

(* Rule entries are never void, so that voiding never gives a source free. *)
RuleEntriesCount == \A i \in DOMAIN ledger : ledger[i].status = "VOID" => ledger[i].rule = "MANUAL_GRANT"

OnceInv == RuleEntriesCount /\ \A i, j \in DOMAIN ledger : i # j => Distinct(ledger[i], ledger[j])

(* An entry that differs from all others may join them.                    *)
LEMMA CreateEntryOnce ==
  ASSUME TypeOK, OnceInv, NEW e, CreateEntry(e),
         e.status = "VOID" => e.rule = "MANUAL_GRANT",
         \A i \in DOMAIN ledger : Distinct(e, ledger[i]) /\ Distinct(ledger[i], e)
  PROVE  OnceInv'
  <1>1. /\ created + 1 \notin DOMAIN ledger
        /\ DOMAIN ledger' = DOMAIN ledger \cup {created + 1}
        /\ \A i \in DOMAIN ledger' : ledger'[i] = IF i = created + 1 THEN e ELSE ledger[i]
    BY DEF TypeOK, CreateEntry
  <1>2. RuleEntriesCount'
    BY <1>1 DEF OnceInv, RuleEntriesCount
  <1>3. ASSUME NEW i \in DOMAIN ledger', NEW j \in DOMAIN ledger', i # j
        PROVE  Distinct(ledger'[i], ledger'[j])
    BY <1>1, <1>3 DEF OnceInv
  <1> QED
    BY <1>2, <1>3 DEF OnceInv, Distinct

(* Every operation keeps the entries distinct.                             *)
LEMMA NextOnce == TypeOK /\ OnceInv /\ [Next]_vars => OnceInv'
  <1> SUFFICES ASSUME TypeOK, OnceInv, [Next]_vars PROVE OnceInv'
    OBVIOUS
  <1>1. CASE Accrue
    <2>0. PICK user \in Users, rule \in DOMAIN Rules, source \in Sources \cup {None},
               key \in Keys \cup {None}, amount \in Nat \ {0} :
            Accrued(user, rule, source, key, amount)
      BY <1>1, AccrualEntry
    <2>1. /\ ~KeyUsed(user, key) /\ ~SourceUsed(user, rule, source)
          /\ CreateEntry(Entry(user, Rules[rule].token, amount, rule, source, key, clock', "PENDING"))
      BY <2>0 DEF Accrued
    <2> DEFINE e == Entry(user, Rules[rule].token, amount, rule, source, key, clock', "PENDING")
    <2>2. /\ e.status = "PENDING" /\ e.user = user /\ e.rule = rule
          /\ e.source = source /\ e.key = key
      BY DEF Entry
    <2> HIDE DEF e
    <2>3. ASSUME NEW i \in DOMAIN ledger, ledger[i].user = user
          PROVE  /\ key # None => ledger[i].key # key
                 /\ source # None /\ Rules[rule].uniquePerSource /\ ledger[i].rule = rule
                      => ledger[i].source # source
      <3>1. rule # "MANUAL_GRANT"
        BY ConstantsAssumption
      <3>2. ledger[i].rule = rule => ledger[i].status # "VOID"
        BY <3>1 DEF OnceInv, RuleEntriesCount
      <3> QED
        BY <2>1, <2>3, <3>2 DEF KeyUsed, SourceUsed
    <2>4. \A i \in DOMAIN ledger : Distinct(e, ledger[i]) /\ Distinct(ledger[i], e)
      BY <2>2, <2>3 DEF Distinct
    <2>5. CreateEntry(e)
      BY <2>1 DEF e
    <2> QED
      BY <2>2, <2>4, <2>5, CreateEntryOnce
  <1>2. CASE Grant
    <2>1. PICK user \in Users, token \in Tokens, amount \in ManualAmounts :
            CreateEntry(Entry(user, token, amount, "MANUAL_GRANT", None, None, clock,
                              ManualStatus(amount)))
      BY <1>2, GrantEntry
    <2> DEFINE e == Entry(user, token, amount, "MANUAL_GRANT", None, None, clock,
                          ManualStatus(amount))
    <2>2. e.rule = "MANUAL_GRANT" /\ e.key = None
      BY DEF Entry
    <2> HIDE DEF e
    <2>3. \A i \in DOMAIN ledger : Distinct(e, ledger[i]) /\ Distinct(ledger[i], e)
      BY <2>2 DEF Distinct
    <2>4. CreateEntry(e)
      BY <2>1 DEF e
    <2> QED
      BY <2>2, <2>3, <2>4, CreateEntryOnce
  <1>3. ASSUME NEW ids,
               \/ \E batch \in Batches : MarkExported(ids, batch)
               \/ \E batch \in Batches, hash \in Hashes : SettleExportBatch(ids, batch, hash)
        PROVE  OnceInv'
    <2>1. RuleEntriesCount'
      BY <1>3, PayoutKeeps DEF OnceInv, RuleEntriesCount, SameEntry
    <2>2. ASSUME NEW i \in DOMAIN ledger', NEW j \in DOMAIN ledger', i # j
          PROVE  Distinct(ledger'[i], ledger'[j])
      BY <1>3, <2>2, PayoutKeeps DEF OnceInv, Distinct, SameEntry
    <2> QED
      BY <2>1, <2>2 DEF OnceInv, Distinct
  <1>4. CASE Tick
    BY <1>4 DEF Tick, OnceInv, RuleEntriesCount, Distinct
  <1>5. CASE UNCHANGED vars
    BY <1>5 DEF vars, OnceInv, RuleEntriesCount, Distinct
  <1> QED
    BY <1>1, <1>2, <1>3, <1>4, <1>5 DEF Next

(* No idempotency key and no once-only source is ever paid for twice, for  *)
(* any users, keys, sources and rules.                                     *)
THEOREM AccrualsHappenOnce == Spec => []AccruedOnce
  <1>1. Init => OnceInv
    BY DEF Init, OnceInv, RuleEntriesCount
  <1>2. OnceInv => AccruedOnce
    BY DEF OnceInv, Distinct, AccruedOnce
  <1> QED
    BY <1>1, <1>2, LedgerTypeCorrect, NextOnce, PTL DEF Spec

-----------------------------------------------------------------------------
(* Accruals under one rule keep their distance. *)

(* Every operation keeps the distance of the entries there are and gives   *)
(* the new one its own.                                                    *)
LEMMA NextCooldown == TypeOK /\ CooldownKept /\ [Next]_vars => CooldownKept'
  <1> SUFFICES ASSUME TypeOK, CooldownKept, [Next]_vars PROVE CooldownKept'
    OBVIOUS
  <1>1. CASE Accrue
    <2>0. PICK user \in Users, rule \in DOMAIN Rules, source \in Sources \cup {None},
               key \in Keys \cup {None}, amount \in Nat \ {0} :
            Accrued(user, rule, source, key, amount)
      BY <1>1, AccrualEntry
    <2>1. /\ ~CoolingDown(user, rule) /\ clock' \in Nat /\ clock <= clock'
          /\ CreateEntry(Entry(user, Rules[rule].token, amount, rule, source, key, clock', "PENDING"))
      BY <2>0 DEF Accrued
    <2> DEFINE e == Entry(user, Rules[rule].token, amount, rule, source, key, clock', "PENDING")
    <2>2. e.user = user /\ e.rule = rule /\ e.createdAt = clock'
      BY DEF Entry
    <2> HIDE DEF e
    <2>3. /\ \A i \in DOMAIN ledger : i \in 1..created
          /\ DOMAIN ledger' = DOMAIN ledger \cup {created + 1}
          /\ \A i \in DOMAIN ledger' : ledger'[i] = IF i = created + 1 THEN e ELSE ledger[i]
      BY <2>1 DEF e, CreateEntry, TypeOK
    <2>4. ASSUME NEW i \in DOMAIN ledger, ledger[i].user = user, ledger[i].rule = rule
          PROVE  ledger[i].createdAt + Rules[rule].cooldown <= clock'
      <3>1. ~(ledger[i].createdAt + Rules[rule].cooldown > clock)
        BY <2>1, <2>4 DEF CoolingDown
      <3>2. ledger[i].createdAt \in Nat /\ Rules[rule].cooldown \in Nat /\ clock \in Nat
        BY ConstantsAssumption DEF TypeOK, EntryType, RuleType
      <3> QED
        BY <2>1, <3>1, <3>2
    <2>5. ASSUME NEW i \in DOMAIN ledger', NEW j \in DOMAIN ledger', i < j,
                 ledger'[i].user = ledger'[j].user, ledger'[i].rule = ledger'[j].rule,
                 ledger'[i].rule # "MANUAL_GRANT"
          PROVE  ledger'[i].createdAt + Rules[ledger'[i].rule].cooldown <= ledger'[j].createdAt
      <3>1. i \in DOMAIN ledger /\ ledger'[i] = ledger[i]
        BY <2>3, <2>5 DEF TypeOK
      <3>2. CASE j = created + 1
        BY <2>2, <2>3, <2>4, <2>5, <3>1, <3>2
      <3>3. CASE j \in DOMAIN ledger /\ ledger'[j] = ledger[j]
        BY <2>5, <3>1, <3>3 DEF CooldownKept
      <3> QED
        BY <2>3, <3>2, <3>3
    <2> QED
      BY <2>5 DEF CooldownKept
  <1>2. CASE Grant
    <2>1. PICK user \in Users, token \in Tokens, amount \in ManualAmounts :
            CreateEntry(Entry(user, token, amount, "MANUAL_GRANT", None, None, clock,
                              ManualStatus(amount)))
      BY <1>2, GrantEntry
    <2>2. /\ DOMAIN ledger' = DOMAIN ledger \cup {created + 1}
          /\ \A i \in DOMAIN ledger : ledger'[i] = ledger[i]
          /\ ledger'[created + 1].rule = "MANUAL_GRANT"
      BY <2>1 DEF CreateEntry, Entry, TypeOK
    <2> QED
      BY <2>2 DEF CooldownKept
  <1>3. ASSUME NEW ids,
               \/ \E batch \in Batches : MarkExported(ids, batch)
               \/ \E batch \in Batches, hash \in Hashes : SettleExportBatch(ids, batch, hash)
        PROVE  CooldownKept'
    BY <1>3, PayoutKeeps DEF CooldownKept, SameEntry
  <1>4. CASE Tick
    BY <1>4 DEF Tick, CooldownKept
  <1>5. CASE UNCHANGED vars
    BY <1>5 DEF vars, CooldownKept
  <1> QED
    BY <1>1, <1>2, <1>3, <1>4, <1>5 DEF Next

(* Accruals of a user under a rule are at least its cooldown apart, also   *)
(* when the clock moves between the check and the timestamp.               *)
THEOREM CooldownHolds == Spec => []CooldownKept
  <1>1. Init => CooldownKept
    BY DEF Init, CooldownKept
  <1> QED
    BY <1>1, LedgerTypeCorrect, NextCooldown, PTL DEF Spec

-----------------------------------------------------------------------------
(* Entries only move forward. *)

(* Only corrections have no positive amount, and those are void.           *)
Payable == \A i \in DOMAIN ledger : ledger[i].status # "VOID" => ledger[i].amount > 0

(* Every operation creates payable or void entries only.                   *)
LEMMA NextPayable == TypeOK /\ Payable /\ [Next]_vars => Payable'
  <1> SUFFICES ASSUME TypeOK, Payable, [Next]_vars PROVE Payable'
    OBVIOUS
  <1>1. CASE Accrue
    <2>0. PICK user \in Users, rule \in DOMAIN Rules, source \in Sources \cup {None},
               key \in Keys \cup {None}, amount \in Nat \ {0} :
            Accrued(user, rule, source, key, amount)
      BY <1>1, AccrualEntry
    <2>1. CreateEntry(Entry(user, Rules[rule].token, amount, rule, source, key, clock', "PENDING"))
      BY <2>0 DEF Accrued
    <2> QED
      BY <2>1 DEF CreateEntry, Entry, Payable
  <1>2. CASE Grant
    <2>1. PICK user \in Users, token \in Tokens, amount \in ManualAmounts :
            CreateEntry(Entry(user, token, amount, "MANUAL_GRANT", None, None, clock,
                              ManualStatus(amount)))
      BY <1>2, GrantEntry
    <2> QED
      BY <2>1 DEF CreateEntry, Entry, ManualStatus, Payable
  <1>3. ASSUME NEW ids,
               \/ \E batch \in Batches : MarkExported(ids, batch)
               \/ \E batch \in Batches, hash \in Hashes : SettleExportBatch(ids, batch, hash)
        PROVE  Payable'
    <2>1. ASSUME NEW i \in DOMAIN ledger, ledger'[i].status # "VOID"
          PROVE  ledger'[i].amount > 0
      <3>1. ledger[i] \in EntryType
        BY DEF TypeOK
      <3>2. ledger'[i].amount = ledger[i].amount /\ ledger[i].status # "VOID"
        BY <1>3, <2>1, <3>1, PayoutSteps DEF EntryType
      <3> QED
        BY <3>2 DEF Payable
    <2> QED
      BY <1>3, <2>1, PayoutSteps DEF Payable
  <1>4. CASE Tick
    BY <1>4 DEF Tick, Payable
  <1>5. CASE UNCHANGED vars
    BY <1>5 DEF vars, Payable
  <1> QED
    BY <1>1, <1>2, <1>3, <1>4, <1>5 DEF Next

(* Every operation keeps the entries or advances them.                     *)
LEMMA NextAdvances ==
  ASSUME TypeOK, Payable, [Next]_vars, NEW i \in DOMAIN ledger
  PROVE  i \in DOMAIN ledger' /\ Advance(ledger[i], ledger'[i])
  <1>1. CASE Accrue
    BY <1>1, AccrualEntry DEF Accrued, CreateEntry, TypeOK, Advance
  <1>2. CASE Grant
    BY <1>2, GrantEntry DEF CreateEntry, TypeOK, Advance
  <1>3. ASSUME NEW ids,
               \/ \E batch \in Batches : MarkExported(ids, batch)
               \/ \E batch \in Batches, hash \in Hashes : SettleExportBatch(ids, batch, hash)
        PROVE  i \in DOMAIN ledger' /\ Advance(ledger[i], ledger'[i])
    <2>1. ledger[i] \in EntryType
      BY DEF TypeOK
    <2>2. i \in DOMAIN ledger'
      BY <1>3, PayoutSteps
    <2>3. CASE ledger'[i] = ledger[i]
      BY <2>2, <2>3 DEF Advance
    <2>4. ASSUME ledger[i].status = "PENDING", NEW batch \in Batches,
                 ledger'[i] = [ledger[i] EXCEPT !.status = "EXPORTED", !.batch = batch]
          PROVE  Advance(ledger[i], ledger'[i])
      <3>1. ledger[i].amount > 0
        BY <2>4 DEF Payable
      <3>2. ledger'[i].batch = batch /\ batch # None
        BY <2>1, <2>4, ConstantsAssumption DEF EntryType
      <3> QED
        BY <2>4, <3>1, <3>2 DEF Advance
    <2>5. ASSUME ledger[i].status = "EXPORTED", NEW hash \in Hashes,
                 ledger'[i] = [ledger[i] EXCEPT !.status = "PAID", !.hash = hash]
          PROVE  Advance(ledger[i], ledger'[i])
      <3>1. ledger'[i].hash = hash /\ hash # None
        BY <2>1, <2>5, ConstantsAssumption DEF EntryType
      <3> QED
        BY <2>5, <3>1 DEF Advance
    <2> QED
      BY <1>3, <2>2, <2>3, <2>4, <2>5, PayoutSteps
  <1>4. CASE Tick \/ UNCHANGED vars
    BY <1>4 DEF Tick, vars, Advance
  <1> QED
    BY <1>1, <1>2, <1>3, <1>4 DEF Next

(* No entry is lost or rewritten: it only goes from pending to exported    *)
(* and, under the batch of its export, to paid.                            *)
THEOREM EntriesOnlyAdvance == Spec => PayoutOnlyAdvances
  <1>1. Init => Payable
    BY DEF Init, Payable
  <1>2. TypeOK /\ Payable /\ [Next]_vars =>
          [\A i \in DOMAIN ledger : i \in DOMAIN ledger' /\ Advance(ledger[i], ledger'[i])]_vars
    BY NextAdvances
  <1> QED
    BY <1>1, <1>2, LedgerTypeCorrect, NextPayable, PTL DEF Spec, PayoutOnlyAdvances

-----------------------------------------------------------------------------
(* Daily caps. *)

(* The ledger is finite, and what counts in it has a natural amount.       *)
LEMMA CountedIsFinite ==
  ASSUME TypeOK, Payable, NEW user, NEW token, NEW day
  PROVE  /\ Counted(user, token, day) \subseteq DOMAIN ledger
         /\ IsFiniteSet(DOMAIN ledger) /\ IsFiniteSet(Counted(user, token, day))
         /\ \A i \in Counted(user, token, day) : Amounts[i] \in Nat
  <1>1. IsFiniteSet(DOMAIN ledger)
    <2>1. IsFiniteSet(1..created)
      BY FS_Interval DEF TypeOK
    <2> QED
      BY <2>1, FS_Subset DEF TypeOK
  <1>2. Counted(user, token, day) \subseteq DOMAIN ledger
    BY DEF Counted
  <1>3. ASSUME NEW i \in Counted(user, token, day)
        PROVE  Amounts[i] \in Nat
    <2>1. i \in DOMAIN ledger /\ ledger[i].status # "VOID"
      BY <1>3 DEF Counted
    <2>2. ledger[i].amount \in Int /\ ledger[i].amount > 0
      BY <2>1 DEF TypeOK, EntryType, Payable
    <2> QED
      BY <2>1, <2>2 DEF Amounts
  <1> QED
    BY <1>1, <1>2, <1>3, FS_Subset

(* The days follow each other as the instants do.                          *)
LEMMA DaysFollow ==
  ASSUME NEW a \in Nat, NEW b \in Nat, a <= b
  PROVE  Day(a) \in Nat /\ Day(b) \in Nat /\ Day(a) <= Day(b)
  <1>1. DayLength \in Nat /\ DayLength > 0
    BY ConstantsAssumption
  <1>2. ASSUME NEW n \in Nat
        PROVE  /\ Day(n) \in Nat
               /\ DayLength * Day(n) <= n /\ n < DayLength * Day(n) + DayLength
    BY <1>1 DEF Day
  <1>3. ASSUME Day(b) < Day(a) PROVE FALSE
    <2>1. Day(a) \in Nat /\ Day(b) \in Nat /\ Day(b) + 1 <= Day(a)
      BY <1>2, <1>3
    <2>2. DayLength * (Day(b) + 1) <= DayLength * Day(a)
      BY <1>1, <2>1
    <2>3. DayLength * (Day(b) + 1) = DayLength * Day(b) + DayLength
      BY <1>1, <2>1
    <2> QED
      BY <1>1, <1>2, <2>1, <2>2, <2>3
  <1> QED
    BY <1>2, <1>3

(* The entries that counted when entry i was new: it and what came before. *)
CountedUpTo(i) ==
  {k \in Counted(ledger[i].user, ledger[i].token, Day(ledger[i].createdAt)) : k <= i}

WithinCap(i) ==
  ledger[i].rule # "MANUAL_GRANT" =>
    SumFunctionOnSet(Amounts, CountedUpTo(i)) <= Rules[ledger[i].rule].dailyCap

(* A step that keeps the entries there are, and adds later ones at most,   *)
(* keeps what each of them counted with.                                   *)
LEMMA CapStays ==
  ASSUME TypeOK, Payable, NEW i \in DOMAIN ledger, WithinCap(i),
         DOMAIN ledger \subseteq DOMAIN ledger',
         \A k \in DOMAIN ledger' : k \in DOMAIN ledger \/ ~(k <= i),
         \A k \in DOMAIN ledger : SameEntry(ledger[k], ledger'[k])
  PROVE  WithinCap(i)'
  <1>1. CountedUpTo(i)' = CountedUpTo(i)
    BY DEF CountedUpTo, Counted, SameEntry
  <1>2. \A k \in CountedUpTo(i) : Amounts'[k] = Amounts[k]
    BY DEF CountedUpTo, Counted, Amounts, SameEntry
  <1>3. IsFiniteSet(CountedUpTo(i))
    BY CountedIsFinite, FS_Subset DEF CountedUpTo
  <1>4. SumFunctionOnSet(Amounts', CountedUpTo(i)) = SumFunctionOnSet(Amounts, CountedUpTo(i))
    BY <1>2, <1>3, SumSame
  <1>5. ledger'[i].rule = ledger[i].rule
    BY DEF SameEntry
  <1> QED
    BY <1>1, <1>4, <1>5 DEF WithinCap

(* Once midnight has passed nothing counts.                                *)
LEMMA NothingLater ==
  ASSUME TypeOK, clock' \in Nat, clock <= clock', Day(clock') # Day(clock), NEW user, NEW token
  PROVE  Counted(user, token, Day(clock')) = {}
  <1>1. ASSUME NEW i \in DOMAIN ledger
        PROVE  Day(ledger[i].createdAt) # Day(clock')
    <2>1. ledger[i].createdAt \in Nat /\ ledger[i].createdAt <= clock /\ clock \in Nat
      BY DEF TypeOK, EntryType
    <2>2. /\ Day(ledger[i].createdAt) \in Nat /\ Day(clock) \in Nat /\ Day(clock') \in Nat
          /\ Day(ledger[i].createdAt) <= Day(clock) /\ Day(clock) <= Day(clock')
      BY <2>1, DaysFollow
    <2> QED
      BY <2>2
  <1> QED
    BY <1>1 DEF Counted

(* What an accrual comes to with the entries of the day it is dated: the   *)
(* sum that was checked, or itself alone if midnight has passed since.     *)
LEMMA AccrualWithinCap ==
  ASSUME TypeOK, Payable, NEW user, NEW token, NEW amount \in Nat, NEW cap \in Nat,
         clock' \in Nat, clock <= clock',
         SumUserTokenInWindow(user, token, Day(clock)) + amount <= cap
  PROVE  SumFunctionOnSet(Amounts, Counted(user, token, Day(clock'))) + amount <= cap
  <1>1. SumUserTokenInWindow(user, token, Day(clock)) \in Nat
    BY CountedIsFinite, SumNat DEF SumUserTokenInWindow
  <1>2. CASE Day(clock') = Day(clock)
    BY <1>2 DEF SumUserTokenInWindow
  <1>3. CASE Day(clock') # Day(clock)
    BY <1>1, <1>3, NothingLater, SumEmpty
  <1> QED
    BY <1>2, <1>3

(* An accrual brings its user to the cap of its rule at most; nothing else *)
(* adds to what an earlier entry counted with.                             *)
LEMMA NextWithinCap == TypeOK /\ Payable /\ DailyCapKept /\ [Next]_vars => DailyCapKept'
  <1> SUFFICES ASSUME TypeOK, Payable, DailyCapKept, [Next]_vars PROVE DailyCapKept'
    OBVIOUS
  <1>0. \A i \in DOMAIN ledger : WithinCap(i)
    BY DEF DailyCapKept, WithinCap, CountedUpTo
  <1>n. PICK n \in Nat : n = created + 1
    BY DEF TypeOK
  <1>1. /\ created \in Nat /\ \A i \in DOMAIN ledger : i \in 1..created
        /\ n \notin DOMAIN ledger /\ \A i \in DOMAIN ledger : i \in Nat /\ ~(n <= i)
    BY <1>n DEF TypeOK
  <1>2. ASSUME NEW e, CreateEntry(e)
        PROVE  /\ DOMAIN ledger' = DOMAIN ledger \cup {n} /\ ledger'[n] = e
               /\ \A i \in DOMAIN ledger : ledger'[i] = ledger[i]
               /\ \A i \in DOMAIN ledger : WithinCap(i)'
    <2>1. /\ DOMAIN ledger' = DOMAIN ledger \cup {n} /\ ledger'[n] = e
          /\ \A i \in DOMAIN ledger : ledger'[i] = ledger[i]
      BY <1>n, <1>1, <1>2 DEF CreateEntry
    <2>2. \A i \in DOMAIN ledger : SameEntry(ledger[i], ledger'[i])
      BY <2>1 DEF SameEntry
    <2>3. ASSUME NEW i \in DOMAIN ledger PROVE WithinCap(i)'
      BY <1>0, <1>1, <2>1, <2>2, CapStays
    <2> QED
      BY <2>1, <2>3
  <1>3. CASE Accrue
    <2>0. PICK user \in Users, rule \in DOMAIN Rules, source \in Sources \cup {None},
               key \in Keys \cup {None}, amount \in Nat \ {0} :
            Accrued(user, rule, source, key, amount)
      BY <1>3, AccrualEntry
    <2>1. /\ SumUserTokenInWindow(user, Rules[rule].token, Day(clock)) + amount
               <= Rules[rule].dailyCap
          /\ clock' \in Nat /\ clock <= clock'
          /\ CreateEntry(Entry(user, Rules[rule].token, amount, rule, source, key, clock', "PENDING"))
      BY <2>0 DEF Accrued
    <2> DEFINE token == Rules[rule].token
               e == Entry(user, token, amount, rule, source, key, clock', "PENDING")
               old == Counted(user, token, Day(clock'))
    <2>2. /\ e.user = user /\ e.token = token /\ e.amount = amount /\ e.rule = rule
          /\ e.createdAt = clock' /\ e.status = "PENDING"
      BY DEF Entry
    <2>3. CreateEntry(e)
      BY <2>1
    <2>4. Rules[rule].dailyCap \in Nat
      BY ConstantsAssumption DEF RuleType
    <2>5. SumFunctionOnSet(Amounts, old) + amount <= Rules[rule].dailyCap
      BY <2>1, <2>4, AccrualWithinCap
    <2> HIDE DEF e, token
    <2>6. CountedUpTo(n)' = old \cup {n}
      BY <1>1, <1>2, <2>2, <2>3 DEF CountedUpTo, Counted
    <2>7. IsFiniteSet(old) /\ old \subseteq DOMAIN ledger /\ \A i \in old : Amounts[i] \in Int
      BY CountedIsFinite
    <2> HIDE DEF old
    <2>8. Amounts'[n] = amount /\ \A i \in old : Amounts'[i] = Amounts[i]
      BY <1>2, <2>2, <2>3, <2>7 DEF Amounts
    <2>9. SumFunctionOnSet(Amounts', old) = SumFunctionOnSet(Amounts, old)
      BY <2>7, <2>8, SumSame
    <2>10. SumFunctionOnSet(Amounts', old \cup {n}) = amount + SumFunctionOnSet(Amounts', old)
      <3>1. n \notin old /\ \A i \in old \cup {n} : Amounts'[i] \in Int
        BY <1>1, <2>7, <2>8
      <3> QED
        BY <2>7, <2>8, <3>1, SumAdd
    <2>11. SumFunctionOnSet(Amounts, old) \in Int
      BY <2>7, SumInt
    <2>12. WithinCap(n)'
      BY <1>2, <2>2, <2>3, <2>5, <2>6, <2>9, <2>10, <2>11 DEF WithinCap
    <2> QED
      BY <1>2, <2>3, <2>12 DEF DailyCapKept, WithinCap, CountedUpTo
  <1>4. CASE Grant
    <2>1. PICK user \in Users, token \in Tokens, amount \in ManualAmounts :
            CreateEntry(Entry(user, token, amount, "MANUAL_GRANT", None, None, clock,
                              ManualStatus(amount)))
      BY <1>4, GrantEntry
    <2> DEFINE e == Entry(user, token, amount, "MANUAL_GRANT", None, None, clock,
                          ManualStatus(amount))
    <2>2. e.rule = "MANUAL_GRANT"
      BY DEF Entry
    <2>3. CreateEntry(e)
      BY <2>1
    <2> HIDE DEF e
    <2>4. WithinCap(n)'
      BY <1>2, <2>2, <2>3 DEF WithinCap
    <2> QED
      BY <1>2, <2>3, <2>4 DEF DailyCapKept, WithinCap, CountedUpTo
  <1>5. ASSUME DOMAIN ledger' = DOMAIN ledger,
               \A i \in DOMAIN ledger : SameEntry(ledger[i], ledger'[i])
        PROVE  DailyCapKept'
    <2>1. \A i \in DOMAIN ledger : WithinCap(i)'
      BY <1>0, <1>5, CapStays
    <2> QED
      BY <1>5, <2>1 DEF DailyCapKept, WithinCap, CountedUpTo
  <1>6. ASSUME NEW ids,
               \/ \E batch \in Batches : MarkExported(ids, batch)
               \/ \E batch \in Batches, hash \in Hashes : SettleExportBatch(ids, batch, hash)
        PROVE  DailyCapKept'
    BY <1>5, <1>6, PayoutKeeps
  <1>7. CASE Tick \/ UNCHANGED vars
    BY <1>5, <1>7 DEF Tick, vars, SameEntry
  <1> QED
    BY <1>3, <1>4, <1>6, <1>7 DEF Next

(* No accrual takes a user over the daily cap of its rule, for any rules,  *)
(* amounts, day length and lag between the check and the timestamp.        *)
THEOREM CapsHold == Spec => []DailyCapKept
  <1>1. Init => Payable /\ DailyCapKept
    BY DEF Init, Payable, DailyCapKept
  <1> QED
    BY <1>1, LedgerTypeCorrect, NextPayable, NextWithinCap, PTL DEF Spec

-----------------------------------------------------------------------------
(* The ledger implements AccrualContract. *)

(* What the contract counts at a later instant is what the ledger counts   *)
(* on the day of that instant.                                             *)
LEMMA CreditByDay ==
  ASSUME TypeOK, Payable, clock' \in Nat, clock <= clock', NEW p \in Users \X Tokens
  PROVE  Contract!CreditAt(clock')[p] =
           SumFunctionOnSet(Amounts, Counted(p[1], p[2], Day(clock')))
  <1>1. CASE Day(clock') = Day(clock)
    <2>1. Contract!CreditAt(clock') = CreditToday
      BY <1>1 DEF Contract!CreditAt, Day
    <2> QED
      BY <1>1, <2>1 DEF CreditToday, SumUserTokenInWindow
  <1>2. CASE Day(clock') # Day(clock)
    <2>1. Contract!CreditAt(clock') = Contract!Nothing
      BY <1>2 DEF Contract!CreditAt, Day
    <2>2. Counted(p[1], p[2], Day(clock')) = {}
      BY <1>2, NothingLater
    <2>3. Contract!Nothing[p] = 0
      BY DEF Contract!Nothing
    <2> QED
      BY <2>1, <2>2, <2>3, SumEmpty
  <1> QED
    BY <1>1, <1>2

(* A step that adds void manual entries at most credits nothing, whatever  *)
(* else it does to the statuses of entries and to the clock.               *)
LEMMA NothingCredited ==
  ASSUME TypeOK, Payable, clock' \in Nat, clock <= clock', DOMAIN ledger \subseteq DOMAIN ledger',
         \A i \in DOMAIN ledger : SameEntry(ledger[i], ledger'[i]),
         \A i \in DOMAIN ledger' \ DOMAIN ledger :
           /\ ledger'[i].status = "VOID" /\ ledger'[i].rule = "MANUAL_GRANT"
           /\ ledger'[i].key = None
  PROVE  Contract!Pass
  <1>1. CreditToday' = Contract!CreditAt(clock')
    <2>1. ASSUME NEW p \in Users \X Tokens
          PROVE  CreditToday'[p] = Contract!CreditAt(clock')[p]
      <3> DEFINE old == Counted(p[1], p[2], Day(clock'))
      <3>1. Counted(p[1], p[2], Day(clock))' = old
        BY DEF Counted, SameEntry
      <3>2. IsFiniteSet(old) /\ old \subseteq DOMAIN ledger
        BY CountedIsFinite
      <3>3. \A i \in old : Amounts'[i] = Amounts[i]
        BY <3>2 DEF Amounts, SameEntry
      <3> HIDE DEF old
      <3>4. SumFunctionOnSet(Amounts', old) = SumFunctionOnSet(Amounts, old)
        BY <3>2, <3>3, SumSame
      <3>5. CreditToday'[p] = SumFunctionOnSet(Amounts', old)
        BY <3>1 DEF CreditToday, SumUserTokenInWindow
      <3> QED
        BY <3>4, <3>5, CreditByDay DEF old
    <2>2. Contract!CreditAt(clock') = [p \in Users \X Tokens |-> Contract!CreditAt(clock')[p]]
      BY DEF Contract!CreditAt, Contract!Nothing, CreditToday
    <2> HIDE DEF Contract!CreditAt
    <2> QED
      BY <2>1, <2>2 DEF CreditToday
  <1>2. KeysUsed' = KeysUsed
    BY DEF KeysUsed, SameEntry
  <1>3. SourcesPaid' = SourcesPaid
    <2>1. OnceOnly' = OnceOnly
      BY DEF OnceOnly, SameEntry
    <2> QED
      BY <2>1 DEF SourcesPaid, OnceOnly, SameEntry
  <1>4. OpensAt' = OpensAt
    <2>1. ASSUME NEW user, NEW rule \in DOMAIN Rules
          PROVE  Cooldowns(user, rule)' = Cooldowns(user, rule)
      BY ConstantsAssumption DEF Cooldowns, SameEntry
    <2> QED
      BY <2>1 DEF OpensAt
  <1> QED
    BY <1>1, <1>2, <1>3, <1>4 DEF Contract!Pass, Contract!Later

(* A new entry that counts is a credit of its amount.                      *)
LEMMA EntryCredits ==
  ASSUME TypeOK, Payable, clock' \in Nat, clock <= clock', NEW e, CreateEntry(e),
         e.user \in Users, e.token \in Tokens, e.amount \in Nat, e.status # "VOID",
         e.createdAt = clock'
  PROVE  CreditToday' = Contract!Credited(e.user, e.token, e.amount)
  <1>1. PICK n \in Nat : n = created + 1
    BY DEF TypeOK
  <1>2. /\ n \notin DOMAIN ledger /\ DOMAIN ledger' = DOMAIN ledger \cup {n} /\ ledger'[n] = e
        /\ \A i \in DOMAIN ledger : ledger'[i] = ledger[i]
    BY <1>1 DEF CreateEntry, TypeOK
  <1>3. ASSUME NEW p \in Users \X Tokens
        PROVE  CreditToday'[p] = Contract!CreditAt(clock')[p] +
                                   (IF p = <<e.user, e.token>> THEN e.amount ELSE 0)
    <2> DEFINE old == Counted(p[1], p[2], Day(clock'))
    <2>1. IsFiniteSet(old) /\ old \subseteq DOMAIN ledger /\ \A i \in old : Amounts[i] \in Nat
      BY CountedIsFinite
    <2>2. CreditToday'[p] = SumFunctionOnSet(Amounts', Counted(p[1], p[2], Day(clock))')
      BY DEF CreditToday, SumUserTokenInWindow
    <2>3. Counted(p[1], p[2], Day(clock))' =
            IF p = <<e.user, e.token>> THEN old \cup {n} ELSE old
      BY <1>2 DEF Counted
    <2>4. Contract!CreditAt(clock')[p] = SumFunctionOnSet(Amounts, old)
      BY CreditByDay
    <2> HIDE DEF old
    <2>5. Amounts'[n] = e.amount /\ \A i \in old : Amounts'[i] = Amounts[i]
      BY <1>2, <2>1 DEF Amounts
    <2>6. SumFunctionOnSet(Amounts', old) = SumFunctionOnSet(Amounts, old)
      BY <2>1, <2>5, SumSame
    <2>7. SumFunctionOnSet(Amounts, old) \in Nat
      BY <2>1, SumNat
    <2>8. SumFunctionOnSet(Amounts', old \cup {n}) = e.amount + SumFunctionOnSet(Amounts', old)
      <3>1. n \notin old /\ \A i \in old \cup {n} : Amounts'[i] \in Int
        BY <1>2, <2>1, <2>5
      <3> HIDE DEF Amounts
      <3>2. SumFunctionOnSet(Amounts', old \cup {n}) = Amounts'[n] + SumFunctionOnSet(Amounts', old)
        BY <2>1, <3>1, SumAdd
      <3> QED
        BY <2>5, <3>2
    <2> HIDE DEF Contract!CreditAt
    <2> QED
      BY <2>2, <2>3, <2>4, <2>6, <2>7, <2>8
  <1> QED
    <2> HIDE DEF Contract!CreditAt
    <2> QED
      BY <1>3 DEF CreditToday, Contract!Credited

(* The ends of the cooldowns of a user under a rule are finitely many.     *)
LEMMA CooldownsAreFinite ==
  ASSUME TypeOK, NEW user, NEW rule \in DOMAIN Rules
  PROVE  /\ {0} \cup Cooldowns(user, rule) \subseteq Nat
         /\ IsFiniteSet({0} \cup Cooldowns(user, rule))
  <1>1. clock \in Nat /\ Rules[rule].cooldown \in Nat
    BY ConstantsAssumption DEF TypeOK, RuleType
  <1>2. ASSUME NEW at \in {0} \cup Cooldowns(user, rule)
        PROVE  at \in Nat /\ at <= clock + Rules[rule].cooldown
    <2>1. CASE at = 0
      BY <1>1, <2>1
    <2>2. CASE \E i \in DOMAIN ledger : at = ledger[i].createdAt + Rules[rule].cooldown
      <3>1. PICK i \in DOMAIN ledger : at = ledger[i].createdAt + Rules[rule].cooldown
        BY <2>2
      <3>2. ledger[i].createdAt \in Nat /\ ledger[i].createdAt <= clock
        BY DEF TypeOK, EntryType
      <3> QED
        BY <1>1, <3>1, <3>2
    <2> QED
      BY <1>2, <2>1, <2>2 DEF Cooldowns
  <1> DEFINE ends == {0} \cup Cooldowns(user, rule)
  <1>3. ends \in SUBSET Nat
    <2> HIDE DEF ends
    <2>1. \A at \in ends : at \in Nat
      BY <1>2 DEF ends
    <2> QED
      BY <2>1
  <1>4. clock + Rules[rule].cooldown \in Nat
    BY <1>1
  <1>5. \A at \in ends : at <= clock + Rules[rule].cooldown
    BY <1>2
  <1> HIDE DEF ends
  <1>6. IsFiniteSet(ends)
    BY <1>3, <1>4, <1>5, FS_BoundedSetOfNaturals
  <1> QED
    BY <1>3, <1>6 DEF ends

(* What a step that creates an entry does to the ends of the cooldowns.    *)
LEMMA EntryCools ==
  ASSUME TypeOK, NEW e, CreateEntry(e), NEW user, NEW rule
  PROVE  Cooldowns(user, rule)' =
           IF e.user = user /\ e.rule = rule
           THEN Cooldowns(user, rule) \cup {e.createdAt + Rules[rule].cooldown}
           ELSE Cooldowns(user, rule)
  <1>1. PICK n \in Nat : n = created + 1
    BY DEF TypeOK
  <1>2. /\ n \notin DOMAIN ledger /\ DOMAIN ledger' = DOMAIN ledger \cup {n} /\ ledger'[n] = e
        /\ \A i \in DOMAIN ledger : ledger'[i] = ledger[i]
    BY <1>1 DEF CreateEntry, TypeOK
  <1> QED
    BY <1>2 DEF Cooldowns

(* An accrual finds its rule open, and closes it for the cooldown.         *)
LEMMA AccrualCools ==
  ASSUME TypeOK, NEW user \in Users, NEW rule \in DOMAIN Rules, ~CoolingDown(user, rule),
         clock' \in Nat, clock <= clock', NEW e, CreateEntry(e),
         e.user = user, e.rule = rule, e.createdAt = clock'
  PROVE  /\ OpensAt[<<user, rule>>] <= clock'
         /\ OpensAt' = [OpensAt EXCEPT ![<<user, rule>>] = clock' + Rules[rule].cooldown]
  <1> DEFINE ends == {0} \cup Cooldowns(user, rule)
             end  == clock' + Rules[rule].cooldown
  <1>1. clock \in Nat /\ Rules[rule].cooldown \in Nat /\ end \in Nat
    BY ConstantsAssumption DEF TypeOK, RuleType
  <1>2. ASSUME NEW at \in ends PROVE at \in Nat /\ at <= clock' /\ at <= end
    <2>1. at \in Nat
      BY CooldownsAreFinite
    <2>2. at <= clock
      <3>1. \A i \in DOMAIN ledger : ledger[i].createdAt \in Nat
        BY DEF TypeOK, EntryType
      <3> QED
        BY <1>1, <2>1, <3>1 DEF Cooldowns, CoolingDown
    <2> QED
      BY <1>1, <2>1, <2>2
  <1>3. OpensAt[<<user, rule>>] <= clock'
    <2>1. OpensAt[<<user, rule>>] = Max(ends)
      BY DEF OpensAt
    <2>2. ends \subseteq Int /\ ends # {} /\ IsFiniteSet(ends)
      BY CooldownsAreFinite
    <2> HIDE DEF ends
    <2> QED
      BY <1>2, <2>1, <2>2, GreatestOfFinite
  <1>4. Max({0} \cup Cooldowns(user, rule)') = end
    <2>1. {0} \cup Cooldowns(user, rule)' = ends \cup {end}
      BY EntryCools
    <2> HIDE DEF ends, end
    <2>2. ends \cup {end} \subseteq Int /\ \A at \in ends \cup {end} : at <= end
      BY <1>1, <1>2
    <2> QED
      BY <2>1, <2>2, GreatestIs
  <1>5. ASSUME NEW p \in Users \X DOMAIN Rules
        PROVE  OpensAt'[p] = IF p = <<user, rule>> THEN end ELSE OpensAt[p]
    <2>1. OpensAt'[p] = Max({0} \cup Cooldowns(p[1], p[2])')
      BY DEF OpensAt
    <2>2. CASE p = <<user, rule>>
      BY <1>4, <2>1, <2>2
    <2>3. CASE p # <<user, rule>>
      <3>1. Cooldowns(p[1], p[2])' = Cooldowns(p[1], p[2])
        BY <2>3, EntryCools
      <3> QED
        BY <2>1, <2>3, <3>1 DEF OpensAt
    <2> QED
      BY <2>2, <2>3
  <1>6. /\ OpensAt = [p \in Users \X DOMAIN Rules |-> OpensAt[p]]
        /\ OpensAt' = [p \in Users \X DOMAIN Rules |-> OpensAt'[p]]
    BY DEF OpensAt
  <1> HIDE DEF end, ends
  <1>7. OpensAt' = [OpensAt EXCEPT ![<<user, rule>>] = end]
    BY <1>5, <1>6
  <1> QED
    BY <1>3, <1>7 DEF end

(* An accrual uses up its key and a once-only source, new ones both.       *)
LEMMA AccrualUsesUp ==
  ASSUME TypeOK, OnceInv, NEW user, NEW rule \in DOMAIN Rules, NEW source, NEW key,
         ~KeyUsed(user, key), ~SourceUsed(user, rule, source), NEW e, CreateEntry(e),
         e.user = user, e.rule = rule, e.source = source, e.key = key
  PROVE  /\ <<user, key>> \notin KeysUsed
         /\ <<user, rule, source>> \notin SourcesPaid
         /\ KeysUsed' = IF key # None THEN KeysUsed \cup {<<user, key>>} ELSE KeysUsed
         /\ SourcesPaid' = IF Rules[rule].uniquePerSource /\ source # None
                           THEN SourcesPaid \cup {<<user, rule, source>>} ELSE SourcesPaid
  <1>1. PICK n \in Nat : n = created + 1
    BY DEF TypeOK
  <1>2. /\ n \notin DOMAIN ledger /\ DOMAIN ledger' = DOMAIN ledger \cup {n} /\ ledger'[n] = e
        /\ \A i \in DOMAIN ledger : ledger'[i] = ledger[i]
    BY <1>1 DEF CreateEntry, TypeOK
  <1>3. rule # "MANUAL_GRANT"
    BY ConstantsAssumption
  <1>4. <<user, key>> \notin KeysUsed
    BY DEF KeysUsed, KeyUsed
  <1>5. <<user, rule, source>> \notin SourcesPaid
    BY <1>3 DEF SourcesPaid, OnceOnly, SourceUsed, OnceInv, RuleEntriesCount
  <1>6. KeysUsed' = IF key # None THEN KeysUsed \cup {<<user, key>>} ELSE KeysUsed
    BY <1>2 DEF KeysUsed
  <1>7. OnceOnly' = IF Rules[rule].uniquePerSource /\ source # None
                    THEN OnceOnly \cup {n} ELSE OnceOnly
    BY <1>2, <1>3 DEF OnceOnly
  <1>8. SourcesPaid' = IF Rules[rule].uniquePerSource /\ source # None
                       THEN SourcesPaid \cup {<<user, rule, source>>} ELSE SourcesPaid
    <2>1. OnceOnly \subseteq DOMAIN ledger
      BY DEF OnceOnly
    <2> QED
      BY <1>2, <1>7, <2>1 DEF SourcesPaid
  <1> QED
    BY <1>4, <1>5, <1>6, <1>8

(* Every step of the ledger is one of the contract.                        *)
LEMMA StepsKeepContract ==
  ASSUME TypeOK, Payable, OnceInv, [Next]_vars
  PROVE  [Contract!Next]_Contract!vars
  <1>1. CASE Accrue
    <2>1. PICK user \in Users, rule \in DOMAIN Rules, source \in Sources \cup {None},
               key \in Keys \cup {None}, amount \in Nat \ {0} :
            Accrued(user, rule, source, key, amount)
      BY <1>1, AccrualEntry
    <2> DEFINE token == Rules[rule].token
               e == Entry(user, token, amount, rule, source, key, clock', "PENDING")
    <2>2. /\ ~KeyUsed(user, key) /\ ~SourceUsed(user, rule, source) /\ ~CoolingDown(user, rule)
          /\ SumUserTokenInWindow(user, token, Day(clock)) + amount <= Rules[rule].dailyCap
          /\ Rules[rule].requireSource => source # None
          /\ clock' \in Nat /\ clock <= clock' /\ CreateEntry(e)
      BY <2>1 DEF Accrued
    <2>3. PICK quantity \in 1..Rules[rule].maxQuantity : amount = Rules[rule].amount * quantity
      BY <2>1 DEF Accrued
    <2>4. /\ e.user = user /\ e.token = token /\ e.amount = amount /\ e.rule = rule
          /\ e.source = source /\ e.key = key /\ e.createdAt = clock' /\ e.status = "PENDING"
      BY DEF Entry
    <2>5. token \in Tokens /\ Rules[rule].dailyCap \in Nat
      BY ConstantsAssumption DEF RuleType
    <2> HIDE DEF e, token
    <2>6. CreditToday' = Contract!Credited(user, token, amount)
      BY <2>2, <2>4, <2>5, EntryCredits
    <2>7. Contract!CreditAt(clock')[<<user, token>>] + amount <= Rules[rule].dailyCap
      <3>1. SumFunctionOnSet(Amounts, Counted(user, token, Day(clock'))) + amount
              <= Rules[rule].dailyCap
        BY <2>2, <2>5, AccrualWithinCap
      <3>2. Contract!CreditAt(clock')[<<user, token>>] =
              SumFunctionOnSet(Amounts, Counted(user, token, Day(clock')))
        BY <2>2, <2>5, CreditByDay
      <3> QED
        BY <3>1, <3>2
    <2>8. /\ OpensAt[<<user, rule>>] <= clock'
          /\ OpensAt' = [OpensAt EXCEPT ![<<user, rule>>] = clock' + Rules[rule].cooldown]
      BY <2>2, <2>4, AccrualCools
    <2>9. /\ <<user, key>> \notin KeysUsed /\ <<user, rule, source>> \notin SourcesPaid
          /\ KeysUsed' = IF key # None THEN KeysUsed \cup {<<user, key>>} ELSE KeysUsed
          /\ SourcesPaid' = IF Rules[rule].uniquePerSource /\ source # None
                            THEN SourcesPaid \cup {<<user, rule, source>>} ELSE SourcesPaid
      BY <2>2, <2>4, AccrualUsesUp
    <2> HIDE DEF Contract!CreditAt, Contract!Credited
    <2>10. Contract!Earn(user, rule, quantity, source, key)
      BY <2>2, <2>3, <2>6, <2>7, <2>8, <2>9 DEF Contract!Earn, Contract!Later, token
    <2> QED
      BY <2>3, <2>10 DEF Contract!Next
  <1>2. CASE Grant
    <2>1. PICK user \in Users, token \in Tokens, amount \in ManualAmounts :
            LET e == Entry(user, token, amount, "MANUAL_GRANT", None, None, clock,
                           ManualStatus(amount))
            IN  CreateEntry(e) /\ e \in EntryType /\ clock' = clock
      BY <1>2, GrantEntry
    <2> DEFINE e == Entry(user, token, amount, "MANUAL_GRANT", None, None, clock,
                          ManualStatus(amount))
    <2>2. /\ e.user = user /\ e.token = token /\ e.amount = amount /\ e.rule = "MANUAL_GRANT"
          /\ e.key = None /\ e.createdAt = clock /\ e.status = ManualStatus(amount)
      BY DEF Entry
    <2> HIDE DEF e
    <2>3. CreateEntry(e) /\ clock' = clock /\ clock \in Nat /\ amount \in Int
      BY <2>1, ConstantsAssumption DEF e, TypeOK
    <2>4. PICK n \in Nat : n = created + 1
      BY DEF TypeOK
    <2>5. /\ n \notin DOMAIN ledger /\ DOMAIN ledger' = DOMAIN ledger \cup {n}
          /\ ledger'[n] = e /\ \A i \in DOMAIN ledger : ledger'[i] = ledger[i]
      BY <2>3, <2>4 DEF CreateEntry, TypeOK
    <2>6. CASE amount > 0
      <3>1. CreditToday' = Contract!Credited(user, token, amount)
        <4>1. e.status # "VOID" /\ amount \in Nat
          BY <2>2, <2>3, <2>6 DEF ManualStatus
        <4> QED
          BY <2>2, <2>3, <4>1, EntryCredits
      <3>2. KeysUsed' = KeysUsed /\ SourcesPaid' = SourcesPaid
        <4>1. OnceOnly' = OnceOnly /\ OnceOnly \subseteq DOMAIN ledger
          BY <2>2, <2>5 DEF OnceOnly
        <4> QED
          BY <2>2, <2>5, <4>1 DEF KeysUsed, SourcesPaid
      <3>3. OpensAt' = OpensAt
        <4>1. ASSUME NEW u, NEW rule \in DOMAIN Rules
              PROVE  Cooldowns(u, rule)' = Cooldowns(u, rule)
          BY <2>2, <2>3, ConstantsAssumption, EntryCools
        <4> QED
          BY <4>1 DEF OpensAt
      <3>4. Contract!Bonus(user, token, amount)
        <4> HIDE DEF Contract!Credited
        <4> QED
          BY <2>3, <3>1, <3>2, <3>3 DEF Contract!Bonus, Contract!Later
      <3> QED
        BY <2>6, <3>4 DEF Contract!Next
    <2>7. CASE ~(amount > 0)
      <3>1. e.status = "VOID"
        BY <2>2, <2>7 DEF ManualStatus
      <3>2. Contract!Pass
        BY <2>2, <2>3, <2>5, <3>1, NothingCredited DEF SameEntry
      <3> QED
        BY <3>2 DEF Contract!Next
    <2> QED
      BY <2>6, <2>7
  <1>3. ASSUME NEW ids,
               \/ \E batch \in Batches : MarkExported(ids, batch)
               \/ \E batch \in Batches, hash \in Hashes : SettleExportBatch(ids, batch, hash)
        PROVE  Contract!Next
    <2>1. /\ DOMAIN ledger' = DOMAIN ledger /\ clock' = clock /\ clock \in Nat
          /\ \A i \in DOMAIN ledger : SameEntry(ledger[i], ledger'[i])
      BY <1>3, PayoutSteps, PayoutKeeps DEF TypeOK
    <2>2. Contract!Pass
      BY <2>1, NothingCredited
    <2> QED
      BY <2>2 DEF Contract!Next
  <1>4. CASE Tick
    <2>1. ledger' = ledger /\ clock \in Nat /\ clock' \in Nat /\ clock <= clock'
      BY <1>4, ConstantsAssumption DEF Tick, TypeOK
    <2>2. Contract!Pass
      BY <2>1, NothingCredited DEF SameEntry
    <2> QED
      BY <2>2 DEF Contract!Next
  <1>5. CASE UNCHANGED vars
    BY <1>5 DEF vars, Contract!vars, CreditToday, SumUserTokenInWindow, Counted, Amounts, KeysUsed,
                SourcesPaid, OnceOnly, OpensAt, Cooldowns
  <1> QED
    BY <1>1, <1>2, <1>3, <1>4, <1>5 DEF Next

(* The ledger starts as the contract does.                                 *)
LEMMA InitKeepsContract == Init => Contract!Init
  <1> SUFFICES ASSUME Init PROVE Contract!Init
    OBVIOUS
  <1>1. DOMAIN ledger = {} /\ clock = 0
    BY DEF Init
  <1>2. CreditToday = Contract!Nothing
    <2>1. \A user, token, day : Counted(user, token, day) = {}
      BY <1>1 DEF Counted
    <2> QED
      BY <2>1, SumEmpty DEF CreditToday, SumUserTokenInWindow, Contract!Nothing
  <1>3. KeysUsed = {} /\ SourcesPaid = {}
    BY <1>1 DEF KeysUsed, SourcesPaid, OnceOnly
  <1>4. OpensAt = [p \in Users \X DOMAIN Rules |-> 0]
    <2>1. \A user, rule : {0} \cup Cooldowns(user, rule) = {0}
      BY <1>1 DEF Cooldowns
    <2>2. Max({0}) = 0
      BY GreatestIs
    <2> QED
      BY <2>1, <2>2 DEF OpensAt
  <1> QED
    BY <1>1, <1>2, <1>3, <1>4 DEF Contract!Init

(* The ledger implements the contract, for any rules, amounts, users, day  *)
(* length and lag: whoever knows a user's counters knows what is refused.  *)
THEOREM LedgerKeepsContract == Spec => CreditsKeepContract
  <1>1. Init => Payable /\ OnceInv
    BY DEF Init, Payable, OnceInv, RuleEntriesCount
  <1> QED
    BY <1>1, LedgerTypeCorrect, NextPayable, NextOnce, InitKeepsContract, StepsKeepContract, PTL
    DEF Spec, CreditsKeepContract, Contract!Spec

-----------------------------------------------------------------------------
(* The ledger over its file, and what the administrators were told. *)

(* What the file holds is an earlier ledger: well formed, of ids that were *)
(* given out, with amounts that nothing has changed since.                 *)
FileOK ==
  /\ DOMAIN disk \subseteq 1..created
  /\ disk \in [DOMAIN disk -> EntryType]
  /\ \A i \in DOMAIN disk :
       /\ disk[i].createdAt <= clock
       /\ disk[i].status # "VOID" => disk[i].amount > 0
       /\ i \in DOMAIN ledger /\ disk[i].amount = ledger[i].amount

(* Ids that were not given out yet are in no answer.                       *)
AnswersOK ==
  /\ created <= MaxEntries /\ restarts \in Nat
  /\ exportedIn \in [1..MaxEntries -> Seq(Batches)]
  /\ settledIn \in [1..MaxEntries -> Seq(Batches)]
  /\ \A i \in 1..MaxEntries : i > created => exportedIn[i] = << >> /\ settledIn[i] = << >>

Announced(file) ==
  \A i \in DOMAIN file :
    file[i].status \in {"EXPORTED", "PAID"} => file[i].batch \in Range(exportedIn[i])

(* What can still be exported or settled was so only before some crash.    *)
CountsInv ==
  \A i \in DOMAIN ledger :
    /\ ledger[i].status = "PENDING" => Len(exportedIn[i]) <= restarts
    /\ ledger[i].status # "PAID" => Len(settledIn[i]) <= restarts

LedgerInv ==
  /\ TypeOK /\ Payable /\ FileOK /\ AnswersOK
  /\ Announced(ledger) /\ Announced(disk)
  /\ CountsInv /\ HandedOutOncePerRun /\ SettlementsFollowExports

(* A sequence that grows by one element keeps its range and adds to it.    *)
LEMMA AppendedRange ==
  ASSUME NEW S, NEW s \in Seq(S), NEW e \in S
  PROVE  /\ Append(s, e) \in Seq(S) /\ Len(Append(s, e)) = Len(s) + 1
         /\ Range(s) \subseteq Range(Append(s, e))
         /\ e \in Range(Append(s, e))
         /\ Range(Append(s, e)) \subseteq Range(s) \cup {e}
  <1>1. Append(s, e) \in Seq(S) /\ Len(Append(s, e)) = Len(s) + 1
    OBVIOUS
  <1>2. /\ DOMAIN s = 1..Len(s) /\ DOMAIN Append(s, e) = 1..(Len(s) + 1) /\ Len(s) \in Nat
        /\ \A i \in 1..Len(s) : Append(s, e)[i] = s[i]
        /\ Append(s, e)[Len(s) + 1] = e
    OBVIOUS
  <1>3. /\ 1..Len(s) \subseteq 1..(Len(s) + 1) /\ Len(s) + 1 \in 1..(Len(s) + 1)
        /\ \A i \in 1..(Len(s) + 1) : i \in 1..Len(s) \/ i = Len(s) + 1
    BY <1>2
  <1> QED
    BY <1>1, <1>2, <1>3 DEF Range

(* Earning appends at most one entry, with the next id, not exported yet.  *)
LEMMA EarnAppends ==
  ASSUME TypeOK, created <= MaxEntries, Earn
  PROVE  /\ [Next]_vars
         /\ created \in Nat /\ created' \in Nat /\ created <= created' /\ created' <= MaxEntries
         /\ clock \in Nat /\ clock' \in Nat /\ clock <= clock'
         /\ UNCHANGED <<disk, restarts, exportedIn, settledIn>>
         /\ \A i \in DOMAIN ledger : i \in DOMAIN ledger' /\ ledger'[i] = ledger[i]
         /\ \A i \in DOMAIN ledger' :
              \/ i \in DOMAIN ledger
              \/ i = created' /\ created < created' /\ ledger'[i].status \in {"PENDING", "VOID"}
  <1>1. [Next]_vars /\ UNCHANGED <<disk, restarts, exportedIn, settledIn>>
    BY DEF Earn, Next
  <1>2. TypeOK'
    BY <1>1, NextTypeOK
  <1>3. created \in Nat /\ clock \in Nat /\ created' \in Nat /\ clock' \in Nat /\ MaxEntries \in Nat
    BY <1>2, ConstantsAssumption DEF TypeOK
  <1>4. ASSUME NEW e, CreateEntry(e), e.status \in {"PENDING", "VOID"}
        PROVE  /\ created <= created' /\ created' <= MaxEntries
               /\ \A i \in DOMAIN ledger : i \in DOMAIN ledger' /\ ledger'[i] = ledger[i]
               /\ \A i \in DOMAIN ledger' :
                    \/ i \in DOMAIN ledger
                    \/ i = created' /\ created < created' /\ ledger'[i].status \in {"PENDING", "VOID"}
    <2>1. /\ created' = created + 1 /\ created < MaxEntries
          /\ DOMAIN ledger' = DOMAIN ledger \cup {created'}
          /\ \A i \in DOMAIN ledger' : ledger'[i] = IF i = created' THEN e ELSE ledger[i]
      BY <1>4 DEF CreateEntry
    <2>2. created' \notin DOMAIN ledger
      BY <1>3, <2>1 DEF TypeOK
    <2> QED
      BY <1>3, <1>4, <2>1, <2>2
  <1>5. CASE Accrue
    <2>0. PICK user \in Users, rule \in DOMAIN Rules, source \in Sources \cup {None},
               key \in Keys \cup {None}, amount \in Nat \ {0} :
            Accrued(user, rule, source, key, amount)
      BY <1>5, AccrualEntry
    <2>1. /\ clock <= clock'
          /\ CreateEntry(Entry(user, Rules[rule].token, amount, rule, source, key, clock', "PENDING"))
      BY <2>0 DEF Accrued
    <2>2. Entry(user, Rules[rule].token, amount, rule, source, key, clock', "PENDING").status = "PENDING"
      BY DEF Entry
    <2> QED
      BY <1>1, <1>3, <1>4, <2>1, <2>2
  <1>6. CASE Grant
    <2>1. PICK user \in Users, token \in Tokens, amount \in ManualAmounts :
            /\ clock' = clock
            /\ CreateEntry(Entry(user, token, amount, "MANUAL_GRANT", None, None, clock,
                                 ManualStatus(amount)))
      BY <1>6, GrantEntry
    <2>2. Entry(user, token, amount, "MANUAL_GRANT", None, None, clock, ManualStatus(amount)).status
            \in {"PENDING", "VOID"}
      BY DEF Entry, ManualStatus
    <2> QED
      BY <1>1, <1>3, <1>4, <2>1, <2>2
  <1>7. CASE Tick
    <2>1. clock < clock' /\ UNCHANGED <<ledger, created>>
      BY <1>3, <1>7, ConstantsAssumption DEF Tick
    <2> QED
      BY <1>1, <1>3, <2>1
  <1> QED
    BY <1>5, <1>6, <1>7 DEF Earn

(* Earning keeps the invariant: the new entry is in no answer yet.         *)
LEMMA EarnInv == LedgerInv /\ Earn => LedgerInv'
  <1> SUFFICES ASSUME LedgerInv, Earn PROVE LedgerInv'
    OBVIOUS
  <1>0. TypeOK /\ Payable /\ created <= MaxEntries
    BY DEF LedgerInv, AnswersOK
  <1>1. /\ [Next]_vars
        /\ created \in Nat /\ created' \in Nat /\ created <= created' /\ created' <= MaxEntries
        /\ clock \in Nat /\ clock' \in Nat /\ clock <= clock'
        /\ UNCHANGED <<disk, restarts, exportedIn, settledIn>>
        /\ \A i \in DOMAIN ledger : i \in DOMAIN ledger' /\ ledger'[i] = ledger[i]
    BY <1>0, EarnAppends
  <1>2. ASSUME NEW i \in DOMAIN ledger', i \notin DOMAIN ledger
        PROVE  /\ i \in 1..MaxEntries /\ i > created
               /\ ledger'[i].status \in {"PENDING", "VOID"}
               /\ exportedIn'[i] = << >> /\ settledIn'[i] = << >>
    <2>1. i = created' /\ created < created' /\ ledger'[i].status \in {"PENDING", "VOID"}
      BY <1>0, <1>2, EarnAppends
    <2>2. i \in 1..MaxEntries /\ i > created
      BY <1>1, <2>1, ConstantsAssumption
    <2> QED
      BY <1>1, <2>1, <2>2 DEF LedgerInv, AnswersOK
  <1>3. TypeOK' /\ Payable'
    BY <1>0, <1>1, NextTypeOK, NextPayable
  <1>4. FileOK'
    <2>1. DOMAIN disk \subseteq 1..created'
      BY <1>1 DEF LedgerInv, FileOK
    <2>2. ASSUME NEW i \in DOMAIN disk
          PROVE  disk[i].createdAt <= clock'
      <3>1. disk[i] \in EntryType /\ disk[i].createdAt <= clock
        BY DEF LedgerInv, FileOK
      <3>2. disk[i].createdAt \in Nat
        BY <3>1 DEF EntryType
      <3> QED
        BY <1>1, <3>1, <3>2
    <2> QED
      BY <1>1, <2>1, <2>2 DEF LedgerInv, FileOK
  <1>5. AnswersOK'
    BY <1>1, ConstantsAssumption DEF LedgerInv, AnswersOK
  <1>6. Announced(ledger)' /\ Announced(disk)'
    BY <1>1, <1>2 DEF LedgerInv, Announced
  <1>7. CountsInv'
    <2>1. ASSUME NEW i \in DOMAIN ledger', i \notin DOMAIN ledger
          PROVE  Len(exportedIn'[i]) <= restarts' /\ Len(settledIn'[i]) <= restarts'
      BY <1>1, <1>2, <2>1 DEF LedgerInv, AnswersOK
    <2> QED
      BY <1>1, <2>1 DEF LedgerInv, CountsInv
  <1>8. HandedOutOncePerRun'
    BY <1>1 DEF LedgerInv, HandedOutOncePerRun
  <1>9. SettlementsFollowExports'
    BY <1>1, <1>2 DEF LedgerInv, SettlementsFollowExports
  <1> QED
    BY <1>3, <1>4, <1>5, <1>6, <1>7, <1>8, <1>9 DEF LedgerInv

(* The file stays what it is when the payout moves entries of the ledger.  *)
LEMMA PayoutKeepsFile ==
  ASSUME TypeOK, FileOK, UNCHANGED disk, NEW ids,
         \/ \E batch \in Batches : MarkExported(ids, batch)
         \/ \E batch \in Batches, hash \in Hashes : SettleExportBatch(ids, batch, hash)
  PROVE  FileOK'
  <1>1. /\ DOMAIN ledger' = DOMAIN ledger /\ UNCHANGED <<created, clock, disk>>
        /\ \A i \in DOMAIN ledger : ledger'[i].amount = ledger[i].amount
    <2>1. DOMAIN ledger' = DOMAIN ledger /\ UNCHANGED <<created, clock, disk>>
      BY PayoutSteps
    <2>2. ASSUME NEW i \in DOMAIN ledger PROVE ledger'[i].amount = ledger[i].amount
      <3>1. ledger[i] \in EntryType
        BY DEF TypeOK
      <3> QED
        BY <3>1, PayoutSteps DEF EntryType
    <2> QED
      BY <2>1, <2>2
  <1> QED
    BY <1>1 DEF FileOK

(* An export keeps the invariant: each entry it announces was pending, so  *)
(* it was announced at most once for every crash before.                   *)
LEMMA ExportInv ==
  ASSUME LedgerInv, NEW ids \in SUBSET DOMAIN ledger, NEW batch \in Batches, Export(ids, batch)
  PROVE  LedgerInv'
  <1> DEFINE told == Exportable(ids)
  <1>1. /\ MarkExported(ids, batch) /\ UNCHANGED <<created, clock, disk, restarts, settledIn>>
        /\ DOMAIN ledger' = DOMAIN ledger
        /\ told \subseteq DOMAIN ledger
        /\ \A i \in told : ledger[i].status = "PENDING"
        /\ \A i \in DOMAIN ledger :
             ledger'[i] = IF i \in told
                          THEN [ledger[i] EXCEPT !.status = "EXPORTED", !.batch = batch]
                          ELSE ledger[i]
        /\ exportedIn' = [i \in 1..MaxEntries |->
                            IF i \in told THEN Append(exportedIn[i], batch) ELSE exportedIn[i]]
    BY DEF Export, MarkExported, Exported, Exportable, Listing
  <1> HIDE DEF told
  <1>2. TypeOK' /\ Payable'
    BY <1>1, NextTypeOK, NextPayable DEF LedgerInv, Next
  <1>3. FileOK'
    BY <1>1, PayoutKeepsFile DEF LedgerInv
  <1>4. DOMAIN ledger \subseteq 1..MaxEntries
    BY ConstantsAssumption DEF LedgerInv, TypeOK, AnswersOK
  <1>5. ASSUME NEW i \in told
        PROVE  /\ i \in DOMAIN ledger /\ i \in 1..MaxEntries /\ ~(i > created)
               /\ ledger[i].amount > 0 /\ Len(exportedIn[i]) <= restarts
               /\ ledger'[i].status = "EXPORTED" /\ ledger'[i].batch = batch
               /\ ledger'[i].amount = ledger[i].amount
    <2>1. i \in DOMAIN ledger /\ i \in 1..MaxEntries /\ ledger[i].status = "PENDING"
      BY <1>1, <1>4
    <2>2. ledger[i] \in EntryType /\ i \in 1..created /\ created \in Nat
      BY <2>1 DEF LedgerInv, TypeOK
    <2>3. ledger'[i].status = "EXPORTED" /\ ledger'[i].batch = batch
          /\ ledger'[i].amount = ledger[i].amount
      BY <1>1, <2>1, <2>2 DEF EntryType
    <2>4. ledger[i].amount > 0 /\ Len(exportedIn[i]) <= restarts
      BY <2>1 DEF LedgerInv, Payable, CountsInv
    <2> QED
      BY <2>1, <2>2, <2>3, <2>4
  <1>6. ASSUME NEW i \in 1..MaxEntries
        PROVE  /\ exportedIn'[i] \in Seq(Batches)
               /\ Range(exportedIn[i]) \subseteq Range(exportedIn'[i])
               /\ i \notin told => exportedIn'[i] = exportedIn[i]
               /\ i \in told => /\ Len(exportedIn'[i]) <= 1 + restarts
                                /\ batch \in Range(exportedIn'[i])
    <2>1. exportedIn[i] \in Seq(Batches) /\ restarts \in Nat
      BY DEF LedgerInv, AnswersOK
    <2>2. CASE i \in told
      <3>1. exportedIn'[i] = Append(exportedIn[i], batch) /\ Len(exportedIn[i]) <= restarts
        BY <1>1, <1>5, <2>2
      <3>2. /\ exportedIn'[i] \in Seq(Batches) /\ Len(exportedIn'[i]) = Len(exportedIn[i]) + 1
            /\ Range(exportedIn[i]) \subseteq Range(exportedIn'[i])
            /\ batch \in Range(exportedIn'[i])
        BY <2>1, <3>1, AppendedRange
      <3>3. Len(exportedIn[i]) \in Nat
        BY <2>1
      <3> QED
        BY <2>1, <2>2, <3>1, <3>2, <3>3
    <2>3. CASE i \notin told
      BY <1>1, <2>1, <2>3
    <2> QED
      BY <2>2, <2>3
  <1>7. AnswersOK'
    <2>1. exportedIn' \in [1..MaxEntries -> Seq(Batches)]
      BY <1>1, <1>6
    <2>2. ASSUME NEW i \in 1..MaxEntries, i > created
          PROVE  exportedIn'[i] = << >> /\ settledIn[i] = << >>
      BY <1>5, <1>6, <2>2 DEF LedgerInv, AnswersOK
    <2> QED
      BY <1>1, <2>1, <2>2 DEF LedgerInv, AnswersOK
  <1>8. Announced(ledger)'
    <2>1. ASSUME NEW i \in DOMAIN ledger, ledger'[i].status \in {"EXPORTED", "PAID"}
          PROVE  ledger'[i].batch \in Range(exportedIn'[i])
      <3>1. CASE i \in told
        BY <1>4, <1>5, <1>6, <3>1
      <3>2. CASE i \notin told
        BY <1>1, <1>4, <1>6, <2>1, <3>2 DEF LedgerInv, Announced
      <3> QED
        BY <3>1, <3>2
    <2> QED
      BY <1>1, <2>1 DEF Announced
  <1>9. Announced(disk)'
    <2>1. DOMAIN disk \subseteq 1..MaxEntries
      BY <1>4 DEF LedgerInv, FileOK
    <2> QED
      BY <1>1, <1>6, <2>1 DEF LedgerInv, Announced
  <1>10. CountsInv'
    <2>1. ASSUME NEW i \in DOMAIN ledger
          PROVE  /\ ledger'[i].status = "PENDING" => Len(exportedIn'[i]) <= restarts
                 /\ ledger'[i].status # "PAID" => Len(settledIn[i]) <= restarts
      <3>1. CASE i \in told
        BY <1>1, <1>5, <3>1 DEF LedgerInv, CountsInv
      <3>2. CASE i \notin told
        BY <1>1, <1>4, <1>6, <3>2 DEF LedgerInv, CountsInv
      <3> QED
        BY <3>1, <3>2
    <2> QED
      BY <1>1, <2>1 DEF CountsInv
  <1>11. HandedOutOncePerRun'
    BY <1>1, <1>6 DEF LedgerInv, HandedOutOncePerRun
  <1>12. SettlementsFollowExports'
    <2>1. ASSUME NEW i \in 1..MaxEntries
          PROVE  Range(settledIn[i]) \subseteq Range(exportedIn'[i])
      BY <1>6 DEF LedgerInv, SettlementsFollowExports
    <2>2. ASSUME NEW i \in DOMAIN ledger, i \in 1..MaxEntries, ledger'[i].amount <= 0
          PROVE  exportedIn'[i] = << >>
      <3>1. ledger[i].amount \in Int
        BY DEF LedgerInv, TypeOK, EntryType
      <3>2. i \notin told
        BY <1>5, <2>2, <3>1
      <3> QED
        BY <1>1, <1>6, <2>2, <3>2 DEF LedgerInv, SettlementsFollowExports
    <2> QED
      BY <1>1, <2>1, <2>2 DEF SettlementsFollowExports
  <1> QED
    BY <1>2, <1>3, <1>7, <1>8, <1>9, <1>10, <1>11, <1>12 DEF LedgerInv

(* So does a settlement: what it pays was announced under its batch, and   *)
(* had not been paid since the last crash.                                 *)
LEMMA SettleInv ==
  ASSUME LedgerInv, NEW ids \in SUBSET DOMAIN ledger, NEW batch \in Batches, NEW hash \in Hashes,
         Settle(ids, batch, hash)
  PROVE  LedgerInv'
  <1> DEFINE told == Settleable(ids, batch)
  <1>1. /\ SettleExportBatch(ids, batch, hash)
        /\ UNCHANGED <<created, clock, disk, restarts, exportedIn>>
        /\ DOMAIN ledger' = DOMAIN ledger
        /\ told \subseteq DOMAIN ledger
        /\ \A i \in told : ledger[i].status = "EXPORTED" /\ ledger[i].batch = batch
        /\ \A i \in DOMAIN ledger :
             ledger'[i] = IF i \in told THEN [ledger[i] EXCEPT !.status = "PAID", !.hash = hash]
                          ELSE ledger[i]
        /\ settledIn' = [i \in 1..MaxEntries |->
                           IF i \in told THEN Append(settledIn[i], batch) ELSE settledIn[i]]
    BY DEF Settle, SettleExportBatch, Settled, Settleable, Listing
  <1> HIDE DEF told
  <1>2. TypeOK' /\ Payable'
    BY <1>1, NextTypeOK, NextPayable DEF LedgerInv, Next
  <1>3. FileOK'
    BY <1>1, PayoutKeepsFile DEF LedgerInv
  <1>4. DOMAIN ledger \subseteq 1..MaxEntries
    BY ConstantsAssumption DEF LedgerInv, TypeOK, AnswersOK
  <1>5. ASSUME NEW i \in told
        PROVE  /\ i \in DOMAIN ledger /\ i \in 1..MaxEntries /\ ~(i > created)
               /\ Len(settledIn[i]) <= restarts /\ batch \in Range(exportedIn[i])
               /\ ledger'[i].status = "PAID" /\ ledger'[i].batch = batch
    <2>1. /\ i \in DOMAIN ledger /\ i \in 1..MaxEntries
          /\ ledger[i].status = "EXPORTED" /\ ledger[i].batch = batch
      BY <1>1, <1>4
    <2>2. ledger[i] \in EntryType /\ i \in 1..created /\ created \in Nat
      BY <2>1 DEF LedgerInv, TypeOK
    <2>3. ledger'[i].status = "PAID" /\ ledger'[i].batch = batch
      BY <1>1, <2>1, <2>2 DEF EntryType
    <2>4. Len(settledIn[i]) <= restarts /\ batch \in Range(exportedIn[i])
      BY <2>1 DEF LedgerInv, CountsInv, Announced
    <2> QED
      BY <2>1, <2>2, <2>3, <2>4
  <1>6. ASSUME NEW i \in 1..MaxEntries
        PROVE  /\ settledIn'[i] \in Seq(Batches)
               /\ i \notin told => settledIn'[i] = settledIn[i]
               /\ i \in told => Len(settledIn'[i]) <= 1 + restarts
               /\ Range(settledIn'[i]) \subseteq Range(exportedIn[i])
    <2>1. /\ settledIn[i] \in Seq(Batches) /\ restarts \in Nat
          /\ Range(settledIn[i]) \subseteq Range(exportedIn[i])
      BY DEF LedgerInv, AnswersOK, SettlementsFollowExports
    <2>2. CASE i \in told
      <3>1. /\ settledIn'[i] = Append(settledIn[i], batch) /\ Len(settledIn[i]) <= restarts
            /\ batch \in Range(exportedIn[i])
        BY <1>1, <1>5, <2>2
      <3>2. /\ settledIn'[i] \in Seq(Batches) /\ Len(settledIn'[i]) = Len(settledIn[i]) + 1
            /\ Range(settledIn'[i]) \subseteq Range(settledIn[i]) \cup {batch}
        BY <2>1, <3>1, AppendedRange
      <3>3. Len(settledIn[i]) \in Nat
        BY <2>1
      <3> QED
        BY <2>1, <2>2, <3>1, <3>2, <3>3
    <2>3. CASE i \notin told
      BY <1>1, <2>1, <2>3
    <2> QED
      BY <2>2, <2>3
  <1>7. AnswersOK'
    <2>1. settledIn' \in [1..MaxEntries -> Seq(Batches)]
      BY <1>1, <1>6
    <2>2. ASSUME NEW i \in 1..MaxEntries, i > created
          PROVE  exportedIn[i] = << >> /\ settledIn'[i] = << >>
      BY <1>5, <1>6, <2>2 DEF LedgerInv, AnswersOK
    <2> QED
      BY <1>1, <2>1, <2>2 DEF LedgerInv, AnswersOK
  <1>8. Announced(ledger)' /\ Announced(disk)'
    BY <1>1, <1>5 DEF LedgerInv, Announced
  <1>9. CountsInv'
    <2>1. ASSUME NEW i \in DOMAIN ledger
          PROVE  /\ ledger'[i].status = "PENDING" => Len(exportedIn[i]) <= restarts
                 /\ ledger'[i].status # "PAID" => Len(settledIn'[i]) <= restarts
      <3>1. CASE i \in told
        BY <1>5, <3>1
      <3>2. CASE i \notin told
        BY <1>1, <1>4, <1>6, <3>2 DEF LedgerInv, CountsInv
      <3> QED
        BY <3>1, <3>2
    <2> QED
      BY <1>1, <2>1 DEF CountsInv
  <1>10. HandedOutOncePerRun'
    BY <1>1, <1>6 DEF LedgerInv, HandedOutOncePerRun
  <1>11. SettlementsFollowExports'
    <2>1. ASSUME NEW i \in DOMAIN ledger, i \in 1..MaxEntries, ledger'[i].amount <= 0
          PROVE  exportedIn[i] = << >>
      <3>1. ledger[i] \in EntryType
        BY DEF LedgerInv, TypeOK
      <3>2. ledger'[i].amount = ledger[i].amount
        BY <1>1, <3>1 DEF EntryType
      <3> QED
        BY <2>1, <3>2 DEF LedgerInv, SettlementsFollowExports
    <2> QED
      BY <1>1, <1>6, <2>1 DEF SettlementsFollowExports
  <1> QED
    BY <1>2, <1>3, <1>7, <1>8, <1>9, <1>10, <1>11 DEF LedgerInv

(* A crash keeps the invariant: it goes back to the file, and what it may  *)
(* have undone is counted by it.                                           *)
LEMMA CrashInv == LedgerInv /\ Crash => LedgerInv'
  <1> SUFFICES ASSUME LedgerInv, Crash PROVE LedgerInv'
    OBVIOUS
  <1>1. /\ ledger' = disk /\ restarts \in Nat /\ restarts' = restarts + 1
        /\ UNCHANGED <<created, clock, disk, exportedIn, settledIn>>
    BY DEF LedgerInv, AnswersOK, Crash, Load
  <1>2. TypeOK' /\ Payable'
    BY <1>1 DEF LedgerInv, FileOK, TypeOK, Payable
  <1>3. FileOK'
    BY <1>1 DEF LedgerInv, FileOK
  <1>4. AnswersOK' /\ Announced(ledger)' /\ Announced(disk)'
    BY <1>1 DEF LedgerInv, AnswersOK, Announced
  <1>5. \A i \in 1..MaxEntries : /\ Len(exportedIn[i]) \in Nat /\ Len(settledIn[i]) \in Nat
                                 /\ Len(exportedIn[i]) <= 1 + restarts
                                 /\ Len(settledIn[i]) <= 1 + restarts
    BY DEF LedgerInv, AnswersOK, HandedOutOncePerRun
  <1>6. HandedOutOncePerRun'
    BY <1>1, <1>5 DEF HandedOutOncePerRun
  <1>7. DOMAIN ledger' \subseteq 1..MaxEntries
    BY <1>1, ConstantsAssumption DEF LedgerInv, FileOK, TypeOK, AnswersOK
  <1>8. CountsInv'
    BY <1>1, <1>5, <1>7 DEF CountsInv
  <1>9. SettlementsFollowExports'
    <2>1. ASSUME NEW i \in DOMAIN disk, i \in 1..MaxEntries, disk[i].amount <= 0
          PROVE  exportedIn[i] = << >>
      BY <2>1 DEF LedgerInv, FileOK, SettlementsFollowExports
    <2> QED
      BY <1>1, <2>1 DEF LedgerInv, SettlementsFollowExports
  <1> QED
    BY <1>2, <1>3, <1>4, <1>6, <1>8, <1>9 DEF LedgerInv

(* Every step of the ledger over its file keeps the invariant.             *)
LEMMA DurableNextInv == LedgerInv /\ [DurableNext]_durableVars => LedgerInv'
  <1> SUFFICES ASSUME LedgerInv, [DurableNext]_durableVars PROVE LedgerInv'
    OBVIOUS
  <1>1. CASE Earn
    BY <1>1, EarnInv
  <1>2. CASE \E ids \in SUBSET DOMAIN ledger, batch \in Batches : Export(ids, batch)
    BY <1>2, ExportInv
  <1>3. CASE \E ids \in SUBSET DOMAIN ledger, batch \in Batches, hash \in Hashes :
               Settle(ids, batch, hash)
    BY <1>3, SettleInv
  <1>4. CASE Flush
    <2>1. disk' = ledger /\ UNCHANGED <<ledger, created, clock, restarts, exportedIn, settledIn>>
      BY <1>4 DEF Flush
    <2> QED
      BY <2>1 DEF LedgerInv, TypeOK, Payable, FileOK, AnswersOK, Announced, CountsInv,
                  HandedOutOncePerRun, SettlementsFollowExports
  <1>5. CASE Crash
    BY <1>5, CrashInv
  <1>6. CASE UNCHANGED durableVars
    BY <1>6 DEF durableVars, LedgerInv, TypeOK, Payable, FileOK, AnswersOK, Announced, CountsInv,
                HandedOutOncePerRun, SettlementsFollowExports
  <1> QED
    BY <1>1, <1>2, <1>3, <1>4, <1>5, <1>6 DEF DurableNext

(* The invariant holds at first, with nothing earned and nothing told.     *)
LEMMA DurableInitInv == DurableInit => LedgerInv
  <1> SUFFICES ASSUME DurableInit PROVE LedgerInv
    OBVIOUS
  <1>1. /\ DOMAIN ledger = {} /\ disk = ledger /\ created = 0 /\ clock = 0 /\ restarts = 0
        /\ ledger = [i \in {} |-> None]
        /\ \A i \in 1..MaxEntries : exportedIn[i] = << >> /\ settledIn[i] = << >>
        /\ exportedIn = [i \in 1..MaxEntries |-> << >>]
        /\ settledIn = [i \in 1..MaxEntries |-> << >>]
    BY DEF DurableInit, Init
  <1>2. TypeOK /\ Payable /\ FileOK
    BY <1>1 DEF TypeOK, Payable, FileOK
  <1>3. AnswersOK
    BY <1>1, ConstantsAssumption DEF AnswersOK
  <1>4. Announced(ledger) /\ Announced(disk) /\ CountsInv
    BY <1>1 DEF Announced, CountsInv
  <1>5. HandedOutOncePerRun
    BY <1>1 DEF HandedOutOncePerRun
  <1>6. SettlementsFollowExports
    <2>1. Range(<< >>) = {}
      BY DEF Range
    <2> QED
      BY <1>1, <2>1 DEF SettlementsFollowExports
  <1> QED
    BY <1>2, <1>3, <1>4, <1>5, <1>6 DEF LedgerInv

(* No entry is announced for payment, or as paid, more than once in a run  *)
(* of the process, however exports, settlements and crashes interleave.    *)
THEOREM PayoutsAreToldOncePerRun == DurableSpec => []HandedOutOncePerRun
  BY DurableInitInv, DurableNextInv, PTL DEF DurableSpec, LedgerInv

(* Nothing is ever announced as paid under a batch it was not announced    *)
(* under for payment, and no correction under any.                         *)
THEOREM SettlementsWereExported == DurableSpec => []SettlementsFollowExports
  BY DurableInitInv, DurableNextInv, PTL DEF DurableSpec, LedgerInv

(* Every batch in the ledger is one the administrators were told of, also  *)
(* after crashes, so that they can settle it.                              *)
THEOREM BatchesAreKnown == DurableSpec => []ExportedBatchIsKnown
  <1>1. LedgerInv => ExportedBatchIsKnown
    BY DEF LedgerInv, Announced, ExportedBatchIsKnown
  <1> QED
    BY <1>1, DurableInitInv, DurableNextInv, PTL DEF DurableSpec
-----------------------------------------------------------------------------
(* The limits survive crashes. *)

(* A file holds part of a ledger if what it holds may differ from the      *)
(* ledger only by the progress of payouts.                                 *)
PartOf(file, whole) ==
  DOMAIN file \subseteq DOMAIN whole /\ \A i \in DOMAIN file : SameEntry(whole[i], file[i])

Limits == RuleEntriesCount /\ AccruedOnce /\ CooldownKept /\ DailyCapKept

LimitsInv == LedgerInv /\ Limits /\ PartOf(disk, ledger)

(* RuleEntriesCount and AccruedOnce are what OnceInv says.                 *)
LEMMA OnceInvIs == OnceInv <=> RuleEntriesCount /\ AccruedOnce
  BY DEF OnceInv, Distinct, AccruedOnce

(* Whoever accrued within the limits did so as well if some entries, and   *)
(* any progress of payouts, are forgotten.                                 *)
LEMMA PartKeepsLimits ==
  ASSUME TypeOK, Payable, Limits, PartOf(ledger', ledger)
  PROVE  Limits'
  <1>1. /\ DOMAIN ledger' \subseteq DOMAIN ledger
        /\ \A i \in DOMAIN ledger' : SameEntry(ledger[i], ledger'[i])
    BY DEF PartOf
  <1>2. RuleEntriesCount'
    BY <1>1 DEF Limits, RuleEntriesCount, SameEntry
  <1>3. AccruedOnce'
    BY <1>1 DEF Limits, AccruedOnce, SameEntry
  <1>4. CooldownKept'
    BY <1>1 DEF Limits, CooldownKept, SameEntry
  <1>5. ASSUME NEW i \in DOMAIN ledger', ledger'[i].rule # "MANUAL_GRANT"
        PROVE  SumFunctionOnSet(Amounts', CountedUpTo(i)') <= Rules[ledger'[i].rule].dailyCap
    <2> DEFINE all == CountedUpTo(i)
               kept == CountedUpTo(i)'
    <2>1. i \in DOMAIN ledger /\ ledger[i].rule = ledger'[i].rule
      BY <1>1 DEF SameEntry
    <2>2. kept \in SUBSET all
      BY <1>1, <2>1 DEF CountedUpTo, Counted, SameEntry
    <2>3. \A k \in kept : Amounts'[k] = Amounts[k]
      BY <1>1 DEF CountedUpTo, Counted, Amounts, SameEntry
    <2>4. IsFiniteSet(all) /\ \A k \in all : Amounts[k] \in Nat
      BY CountedIsFinite, FS_Subset DEF CountedUpTo
    <2>5. SumFunctionOnSet(Amounts, all) <= Rules[ledger[i].rule].dailyCap
      BY <1>5, <2>1 DEF Limits, DailyCapKept, CountedUpTo
    <2>6. Rules[ledger[i].rule].dailyCap \in Nat
      <3>1. ledger[i].rule \in DOMAIN Rules
        BY <1>5, <2>1 DEF TypeOK, EntryType
      <3> QED
        BY <3>1, ConstantsAssumption DEF RuleType
    <2> HIDE DEF all, kept
    <2>7. IsFiniteSet(kept) /\ \A k \in kept : Amounts[k] \in Nat
      BY <2>2, <2>4, FS_Subset
    <2>8. SumFunctionOnSet(Amounts', kept) = SumFunctionOnSet(Amounts, kept)
      BY <2>3, <2>7, SumSame
    <2>9. SumFunctionOnSet(Amounts, kept) <= SumFunctionOnSet(Amounts, all)
      BY <2>2, <2>4, SumSubset
    <2>10. SumFunctionOnSet(Amounts, kept) \in Nat /\ SumFunctionOnSet(Amounts, all) \in Nat
      BY <2>4, <2>7, SumNat
    <2>11. SumFunctionOnSet(Amounts', kept) <= Rules[ledger'[i].rule].dailyCap
      BY <2>1, <2>5, <2>6, <2>8, <2>9, <2>10
    <2> QED
      BY <2>11 DEF kept
  <1>6. DailyCapKept'
    BY <1>5 DEF DailyCapKept, CountedUpTo
  <1> QED
    BY <1>2, <1>3, <1>4, <1>6 DEF Limits

(* A step of the running process keeps the limits.                         *)
LEMMA RunningKeepsLimits ==
  ASSUME TypeOK, Payable, Limits, [Next]_vars
  PROVE  Limits'
  <1>1. RuleEntriesCount' /\ AccruedOnce'
    BY OnceInvIs, NextOnce, PTL DEF Limits
  <1> QED
    BY <1>1, NextCooldown, NextWithinCap DEF Limits

(* It also keeps every entry that an earlier file may hold.                *)
LEMMA RunningKeepsParts ==
  ASSUME TypeOK, NEW file, PartOf(file, ledger), DOMAIN ledger \subseteq DOMAIN ledger',
         \A i \in DOMAIN ledger : SameEntry(ledger[i], ledger'[i])
  PROVE  PartOf(file, ledger')
  BY DEF PartOf, SameEntry

(* Every step of the ledger over its file keeps the limits; a crash does,  *)
(* because what it leaves is part of what was there.                       *)
LEMMA DurableNextLimits == LimitsInv /\ [DurableNext]_durableVars => LimitsInv'
  <1> SUFFICES ASSUME LimitsInv, [DurableNext]_durableVars PROVE LimitsInv'
    OBVIOUS
  <1>0. LedgerInv /\ LedgerInv' /\ TypeOK /\ Payable /\ Limits /\ PartOf(disk, ledger)
    BY DurableNextInv DEF LimitsInv, LedgerInv
  <1>1. CASE Earn
    <2>1. /\ [Next]_vars /\ UNCHANGED disk
          /\ \A i \in DOMAIN ledger : i \in DOMAIN ledger' /\ ledger'[i] = ledger[i]
      BY <1>0, <1>1, EarnAppends DEF LedgerInv, AnswersOK
    <2>2. PartOf(disk, ledger)'
      BY <1>0, <2>1 DEF PartOf
    <2> QED
      BY <1>0, <2>1, <2>2, RunningKeepsLimits DEF LimitsInv
  <1>2. ASSUME NEW ids \in SUBSET DOMAIN ledger, UNCHANGED disk,
               \/ \E batch \in Batches : MarkExported(ids, batch)
               \/ \E batch \in Batches, hash \in Hashes : SettleExportBatch(ids, batch, hash)
        PROVE  LimitsInv'
    <2>1. [Next]_vars
      BY <1>2 DEF Next
    <2>2. /\ DOMAIN ledger \subseteq DOMAIN ledger'
          /\ \A i \in DOMAIN ledger : SameEntry(ledger[i], ledger'[i])
      BY <1>0, <1>2, PayoutKeeps
    <2>3. PartOf(disk, ledger')
      BY <1>0, <2>2, RunningKeepsParts
    <2>4. PartOf(disk, ledger)'
      BY <1>2, <2>3
    <2> QED
      BY <1>0, <2>1, <2>4, RunningKeepsLimits DEF LimitsInv
  <1>3. CASE \E ids \in SUBSET DOMAIN ledger, batch \in Batches : Export(ids, batch)
    BY <1>2, <1>3 DEF Export
  <1>4. CASE \E ids \in SUBSET DOMAIN ledger, batch \in Batches, hash \in Hashes :
               Settle(ids, batch, hash)
    BY <1>2, <1>4 DEF Settle
  <1>5. CASE Flush
    <2>1. disk' = ledger /\ ledger' = ledger /\ [Next]_vars
      BY <1>5 DEF Flush, vars
    <2>2. PartOf(disk, ledger)'
      BY <2>1 DEF PartOf, SameEntry
    <2> QED
      BY <1>0, <2>1, <2>2, RunningKeepsLimits DEF LimitsInv
  <1>6. CASE Crash
    <2>1. ledger' = disk /\ disk' = disk
      BY <1>6 DEF Crash, Load
    <2>2. PartOf(ledger', ledger)
      BY <1>0, <2>1
    <2>3. PartOf(disk, ledger)'
      BY <2>1 DEF PartOf, SameEntry
    <2> QED
      BY <1>0, <2>2, <2>3, PartKeepsLimits DEF LimitsInv
  <1>7. CASE UNCHANGED durableVars
    <2>1. [Next]_vars /\ UNCHANGED <<ledger, disk>>
      BY <1>7 DEF durableVars, vars
    <2>2. PartOf(disk, ledger)'
      BY <1>0, <2>1
    <2> QED
      BY <1>0, <2>1, <2>2, RunningKeepsLimits DEF LimitsInv
  <1> QED
    BY <1>1, <1>3, <1>4, <1>5, <1>6, <1>7 DEF DurableNext

(* However often the process dies, and however old the file is that it     *)
(* comes back with, no key and no once-only source is in the ledger twice, *)
(* and accruals there keep their cooldowns and daily caps.                 *)
THEOREM LimitsSurviveCrashes == DurableSpec => [](AccruedOnce /\ CooldownKept /\ DailyCapKept)
  <1>1. DurableInit => LimitsInv
    <2>1. DurableInit => Limits /\ PartOf(disk, ledger)
      BY DEF DurableInit, Init, Limits, RuleEntriesCount, AccruedOnce, CooldownKept, DailyCapKept,
             PartOf
    <2> QED
      BY <2>1, DurableInitInv DEF LimitsInv
  <1>2. LimitsInv => AccruedOnce /\ CooldownKept /\ DailyCapKept
    BY DEF LimitsInv, Limits
  <1> QED
    BY <1>1, <1>2, DurableNextLimits, PTL DEF DurableSpec
=============================================================================
