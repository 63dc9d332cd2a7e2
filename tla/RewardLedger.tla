---------------------------- MODULE RewardLedger ----------------------------
(***************************************************************************)
(* The reward ledger: modules/rewards.  Every handler is synchronous, so   *)
(* each is one step.  A ledger maps the ids that createId gave out, in     *)
(* order, to entries.                                                      *)
(*                                                                         *)
(* Left out: reasons, metadata, source types and the report, which only    *)
(* reads.  A refused request changes nothing and is a disabled action;     *)
(* whoever may act for another user (owner and admin) adds no step that    *)
(* the user could not cause, so callers are not modelled.  Time is in      *)
(* seconds and does not run backwards.                                     *)
(*                                                                         *)
(* A definition called Mutant... is a faulty variant of the one after it;  *)
(* no specification uses it, the mutation checks put it in its place.      *)
(***************************************************************************)
EXTENDS Integers, FiniteSetsExt, Functions

CONSTANTS
  Users, Sources, Keys,  \* user ids, source ids, idempotency keys
  None,                  \* null
  Rules,                 \* REWARD_RULES without MANUAL_GRANT, see RuleType
  Tokens, Batches, Hashes,
  ManualAmounts,         \* amounts of manual entries, in one unit of the token
  DayLength,             \* seconds of a UTC day
  Lags,                  \* how far the clock may move between two reads in one handler
  Instants,              \* bound: the times the clock passes between two handlers
  MaxEntries             \* bound: entries ever created

RuleType ==
  [token : Tokens, amount : Nat \ {0}, requireSource : BOOLEAN, uniquePerSource : BOOLEAN,
   cooldown : Nat, dailyCap : Nat, maxQuantity : Nat \ {0}]

ASSUME ConstantsAssumption ==
  /\ None \notin Users \cup Sources \cup Keys \cup Batches \cup Hashes
  /\ "MANUAL_GRANT" \notin DOMAIN Rules
  /\ Rules \in [DOMAIN Rules -> RuleType]
  /\ ManualAmounts \subseteq Int \ {0}
  /\ DayLength \in Nat \ {0}
  /\ Lags \subseteq Nat /\ Instants \subseteq Nat
  /\ MaxEntries \in Nat

VARIABLES
  ledger,   \* store.rewardLedger, by id
  created,  \* the number of ids createId has given out
  clock     \* Date.now()

vars == <<ledger, created, clock>>

-----------------------------------------------------------------------------
(* The rules as the source has them; amounts in the unit of the token.     *)

Rule(token, amount, unique, cooldown, cap, quantity) ==
  [token |-> token, amount |-> amount, requireSource |-> TRUE, uniquePerSource |-> unique,
   cooldown |-> cooldown, dailyCap |-> cap, maxQuantity |-> quantity]

RewardRules ==
  [ARTICLE_VIEW_STONE        |-> Rule("STONE",  1, TRUE,  15, 120, 1),
   ARTICLE_REACTION_STONE    |-> Rule("STONE",  2, FALSE, 20, 200, 1),
   ARTICLE_PUBLISH_WHEAT     |-> Rule("WHEAT", 50, TRUE,   0, 250, 1),
   DELIVERY_LEAD_WHEAT       |-> Rule("WHEAT", 10, TRUE,   0, 500, 5),
   NOTIFICATION_OPT_IN_STONE |-> Rule("STONE",  5, TRUE,   0,  25, 1)]

-----------------------------------------------------------------------------
(* Entries. *)

Statuses == {"PENDING", "EXPORTED", "PAID", "VOID"}

EntryType ==
  [user : Users, token : Tokens, amount : Int, rule : DOMAIN Rules \cup {"MANUAL_GRANT"},
   source : Sources \cup {None}, key : Keys \cup {None}, createdAt : Nat,
   status : Statuses, batch : Batches \cup {None}, hash : Hashes \cup {None}]

Entry(user, token, amount, rule, source, key, at, status) ==
  [user |-> user, token |-> token, amount |-> amount, rule |-> rule, source |-> source,
   key |-> key, createdAt |-> at, status |-> status, batch |-> None, hash |-> None]

(* createEntry: the next id, at the end of the list. *)
CreateEntry(entry) ==
  /\ created < MaxEntries
  /\ created' = created + 1
  /\ ledger' = [i \in DOMAIN ledger \cup {created + 1} |->
                  IF i = created + 1 THEN entry ELSE ledger[i]]

MutantKeyUsed(user, key) ==
  \E i \in DOMAIN ledger : ledger[i].key = key /\ ledger[i].status = "PENDING"
KeyUsed(user, key) ==
  key # None /\ \E i \in DOMAIN ledger : ledger[i].user = user /\ ledger[i].key = key

(* findByUserRuleSource: voided entries give their source free. *)
MutantSourceUsed(user, rule, source) ==
  /\ source # None /\ Rules[rule].uniquePerSource
  /\ \E i \in DOMAIN ledger :
       /\ ledger[i].user = user /\ ledger[i].rule = rule /\ ledger[i].source = source
       /\ ledger[i].status = "PENDING"
SourceUsed(user, rule, source) ==
  /\ source # None /\ Rules[rule].uniquePerSource
  /\ \E i \in DOMAIN ledger :
       /\ ledger[i].user = user /\ ledger[i].rule = rule /\ ledger[i].source = source
       /\ ledger[i].status # "VOID"

(* The newest entry of the rule still cools down exactly if some entry does. *)
MutantCoolingDown(user, rule) ==
  \E i \in DOMAIN ledger :
    /\ ledger[i].user = user /\ ledger[i].rule = rule
    /\ ledger[i].status = "PENDING"
    /\ ledger[i].createdAt + Rules[rule].cooldown > clock
CoolingDown(user, rule) ==
  \E i \in DOMAIN ledger :
    /\ ledger[i].user = user /\ ledger[i].rule = rule
    /\ ledger[i].createdAt + Rules[rule].cooldown > clock

Day(at) == at \div DayLength

Amounts == [i \in DOMAIN ledger |-> ledger[i].amount]

(* The ids whose amounts count for a user and a token on one UTC day. *)
Counted(user, token, day) ==
  {i \in DOMAIN ledger : /\ ledger[i].user = user /\ ledger[i].token = token
                         /\ ledger[i].status # "VOID" /\ Day(ledger[i].createdAt) = day}

MutantSumUserTokenInWindow(user, token, day) ==
  SumFunctionOnSet(Amounts, {i \in Counted(user, token, day) : ledger[i].rule # "MANUAL_GRANT"})
SumUserTokenInWindow(user, token, day) ==
  SumFunctionOnSet(Amounts, Counted(user, token, day))

-----------------------------------------------------------------------------
(* Operations. *)

(* accrueByRule, its refusals in the order of the code.  The entry is      *)
(* stamped by a later read of the clock than the one the checks used.      *)
AccrueByRule(user, rule, quantity, source, key) ==
  LET r      == Rules[rule]
      amount == r.amount * quantity
  IN  /\ quantity \in 1..r.maxQuantity
      /\ r.requireSource => source # None
      /\ ~KeyUsed(user, key)
      /\ ~SourceUsed(user, rule, source)
      /\ ~CoolingDown(user, rule)
      /\ SumUserTokenInWindow(user, r.token, Day(clock)) + amount <= r.dailyCap
      /\ \E lag \in Lags :
           /\ clock' = clock + lag
           /\ CreateEntry(Entry(user, r.token, amount, rule, source, key, clock + lag, "PENDING"))

(* addManualEntry: a correction (a negative amount) is never paid out. *)
MutantManualStatus(amount) == "PENDING"
ManualStatus(amount) == IF amount > 0 THEN "PENDING" ELSE "VOID"

AddManualEntry(user, token, amount) ==
  /\ CreateEntry(Entry(user, token, amount, "MANUAL_GRANT", None, None, clock, ManualStatus(amount)))
  /\ UNCHANGED clock

(* markExported takes the ids of the request or, if it names none, those   *)
(* of a filter; either way only pending entries among them are exported.   *)
MutantExportable(ids) == {i \in ids \cap DOMAIN ledger : ledger[i].status \in {"PENDING", "EXPORTED"}}
Exportable(ids) == {i \in ids \cap DOMAIN ledger : ledger[i].status = "PENDING"}

Exported(ids, batch) ==
  [i \in DOMAIN ledger |->
     IF i \in Exportable(ids) THEN [ledger[i] EXCEPT !.status = "EXPORTED", !.batch = batch]
     ELSE ledger[i]]

MarkExported(ids, batch) ==
  /\ ledger' = Exported(ids, batch)
  /\ UNCHANGED <<created, clock>>

(* settleExportBatch pays the entries of the batch, or those among the     *)
(* ids the request names.                                                  *)
MutantSettleable(ids, batch) == {i \in ids \cap DOMAIN ledger : ledger[i].status = "EXPORTED"}
Settleable(ids, batch) ==
  {i \in ids \cap DOMAIN ledger : ledger[i].status = "EXPORTED" /\ ledger[i].batch = batch}

Settled(ids, batch, hash) ==
  [i \in DOMAIN ledger |->
     IF i \in Settleable(ids, batch) THEN [ledger[i] EXCEPT !.status = "PAID", !.hash = hash]
     ELSE ledger[i]]

SettleExportBatch(ids, batch, hash) ==
  /\ ledger' = Settled(ids, batch, hash)
  /\ UNCHANGED <<created, clock>>

Tick ==
  /\ \E instant \in Instants : instant > clock /\ clock' = instant
  /\ UNCHANGED <<ledger, created>>

Init == ledger = [i \in {} |-> None] /\ created = 0 /\ clock = 0

Accrue ==
  \E user \in Users, rule \in DOMAIN Rules, source \in Sources \cup {None}, key \in Keys \cup {None} :
    \E quantity \in 1..Rules[rule].maxQuantity : AccrueByRule(user, rule, quantity, source, key)

Grant ==
  \E user \in Users, token \in Tokens, amount \in ManualAmounts : AddManualEntry(user, token, amount)

Next ==
  \/ Accrue
  \/ Grant
  \/ \E ids \in SUBSET DOMAIN ledger, batch \in Batches : MarkExported(ids, batch)
  \/ \E ids \in SUBSET DOMAIN ledger, batch \in Batches, hash \in Hashes :
       SettleExportBatch(ids, batch, hash)
  \/ Tick

Spec == Init /\ [][Next]_vars

-----------------------------------------------------------------------------
(* Properties. *)

(* Entries are well formed, their ids were given out, and none is dated in *)
(* the future.                                                             *)
TypeOK ==
  /\ clock \in Nat /\ created \in Nat
  /\ DOMAIN ledger \subseteq 1..created
  /\ ledger \in [DOMAIN ledger -> EntryType]
  /\ \A i \in DOMAIN ledger : ledger[i].createdAt <= clock

(* A retried or repeated accrual is paid for once: an idempotency key is   *)
(* on one entry of its user, and so is the source of a rule that counts    *)
(* each source once.                                                       *)
AccruedOnce ==
  \A i, j \in DOMAIN ledger :
    /\ i # j
    /\ ledger[i].user = ledger[j].user
    => /\ ledger[i].key # None => ledger[i].key # ledger[j].key
       /\ ledger[i].rule = ledger[j].rule /\ ledger[i].source # None
            /\ ledger[i].rule # "MANUAL_GRANT" /\ Rules[ledger[i].rule].uniquePerSource
            => ledger[i].source # ledger[j].source

(* Two accruals of one user under one rule are at least the cooldown apart, *)
(* by the timestamps in the ledger.                                         *)
CooldownKept ==
  \A i, j \in DOMAIN ledger :
    /\ i < j
    /\ ledger[i].user = ledger[j].user /\ ledger[i].rule = ledger[j].rule
    /\ ledger[i].rule # "MANUAL_GRANT"
    => ledger[i].createdAt + Rules[ledger[i].rule].cooldown <= ledger[j].createdAt

(* When an entry was accrued, the user's entries of that token on the day  *)
(* of its timestamp stayed within the cap of its rule, also when midnight  *)
(* passes between the check and the timestamp.                             *)
DailyCapKept ==
  \A i \in DOMAIN ledger :
    LET e == ledger[i]
    IN  e.rule # "MANUAL_GRANT" =>
          SumFunctionOnSet(Amounts, {k \in Counted(e.user, e.token, Day(e.createdAt)) : k <= i})
            <= Rules[e.rule].dailyCap

(* What may become of an entry: nothing, an export, or the payment of the  *)
(* batch it was exported with.                                             *)
Advance(old, new) ==
  \/ new = old
  \/ /\ old.status = "PENDING" /\ old.amount > 0
     /\ new = [old EXCEPT !.status = "EXPORTED", !.batch = new.batch] /\ new.batch # None
  \/ /\ old.status = "EXPORTED"
     /\ new = [old EXCEPT !.status = "PAID", !.hash = new.hash] /\ new.hash # None

(* Entries are never lost, changed or moved backwards, and corrections     *)
(* never enter the payout.                                                 *)
PayoutOnlyAdvances ==
  [][\A i \in DOMAIN ledger : i \in DOMAIN ledger' /\ Advance(ledger[i], ledger'[i])]_vars
-----------------------------------------------------------------------------
(* What the ledger promises, see AccrualContract. *)

(* What counts today, by user and token. *)
CreditToday == [p \in Users \X Tokens |-> SumUserTokenInWindow(p[1], p[2], Day(clock))]

KeysUsed == {<<ledger[i].user, ledger[i].key>> : i \in {j \in DOMAIN ledger : ledger[j].key # None}}

(* The entries that pay for a source which their rule counts once. *)
OnceOnly ==
  {i \in DOMAIN ledger : /\ ledger[i].rule # "MANUAL_GRANT" /\ Rules[ledger[i].rule].uniquePerSource
                         /\ ledger[i].source # None}
SourcesPaid == {<<ledger[i].user, ledger[i].rule, ledger[i].source>> : i \in OnceOnly}

(* The end of the last cooldown of a user under a rule, 0 before the first. *)
Cooldowns(user, rule) ==
  {ledger[i].createdAt + Rules[rule].cooldown :
     i \in {j \in DOMAIN ledger : ledger[j].user = user /\ ledger[j].rule = rule}}
OpensAt == [p \in Users \X DOMAIN Rules |-> Max({0} \cup Cooldowns(p[1], p[2]))]

Contract ==
  INSTANCE AccrualContract
    WITH Bonuses <- {amount \in ManualAmounts : amount > 0}, time <- clock, credit <- CreditToday,
         keys <- KeysUsed, sources <- SourcesPaid, opens <- OpensAt

(* Whatever is exported, settled or corrected in between, and whatever the *)
(* clock does between check and timestamp, credits move as the contract    *)
(* says: each is within every limit at the instant it is dated.            *)
CreditsKeepContract == Contract!Spec
=============================================================================
