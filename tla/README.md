# Verification of ws-api

TLA+ models of the `ws-api` back end, the TLC runs that check them on small
instances, and TLAPS proofs of what holds for every instance. Paths are those
of the repository, which holds the program under `src/`.

1. [The system](#1-the-system) · 2. [Plan](#2-plan) · 3. [Modules](#3-modules-and-the-code)
· 4. [Runs](#4-runs) · 5. [Fairness](#5-fairness) · 6. [Proofs](#6-proofs)
· 7. [What the models disagree with](#7-where-code-and-documents-disagree)
· 8. [Limits](#8-what-is-not-modelled)

## 1. The system

`ws-api` is an Express server in one Node process. `src/app.ts` wires, for each
domain, a controller (HTTP), a service (rules) and a repository (persistence).
Node runs one handler at a time; only an `await` that waits for something lets
another request in. Nearly everything lives in one in-memory store, which a
timer writes to a JSON journal; the accounts may live in Postgres instead.

| component | state | operations | interacts with | what is hard |
|---|---|---|---|---|
| notification queue, `modules/notifications` | jobs, audit log | `queueNotification`, `processDueJobs`, `retryJob` | providers (awaited), store | a batch is read once and awaited job by job; nothing keeps two calls apart; budget, backoff, fallback jobs |
| store and process, `infrastructure/memory`, `index.ts` | the store, its file | load, timed flush, flush at a signal, exit | all repositories | what was answered and not yet flushed; jobs caught in flight; requests that outlive the last flush |
| reward ledger, `modules/rewards` | entries | accrue by rule, manual entry, mark exported, settle | store, payments outside | idempotency keys, once-only sources, cooldowns, daily caps around midnight; the payout pipeline over crashes |
| wallet links, `modules/wallet` | links, challenges | challenge, verify and link, unlink | auth, store | single use and expiry of challenges, one user per wallet through re-linking |
| articles, `modules/articles` | articles | create, update, delete | auth (principal) | who may do what in which status, slugs, the date of first publication |
| auth, users, roles: `modules/auth`, `modules/users`, `middleware/authz.ts` | accounts, sessions | register, login, logout, reset, session check, role change | Postgres (awaited) or store | with Postgres every query is a point of interleaving and of failure; resets against logins; restarts |
| start and readiness, `app.ts` | the bootstrap promise | register the first account, `/ready` | auth, Postgres | a registration that fails half-way; a remembered failure |
| business operations, `modules/business-ops` | ten collections | create, patch, delete each; cascade | store | ownership, references and keys while records move between businesses |
| dynamic pricing, `business-ops/dynamic-pricing.ts` | none of its own | quote | reads items, rules, offers of business operations | rounding in double precision, tiers and thresholds at their edges, selection among rules and offers |
| inventory, billing, businesses (older modules) | append-only lists | create, list | — | nothing between two of their states |
| configuration, logging, HTTP helpers, providers, contract | none | — | — | pure input and output |

What makes each of them correct:

- **Queue.** Every attempt has one number and one outcome; a failed push job
  lives on in one job per fallback target; nothing is dispatched early; budgets
  bound the attempts; every job ends sent or failed.
- **Store.** What the file holds is a complete earlier state; a restart goes
  back to a point the program passed, never to a different past; a graceful
  stop loses nothing.
- **Ledger.** A repeated request is credited once; cooldown and daily cap hold by
  the timestamps in the ledger; an entry is handed out for payment once, under a
  batch the administrators know.
- **Wallets.** Links are one to one; each uses up a fresh challenge of its own.
- **Articles.** A slug names one article; dates follow the status; contributors
  never touch what is another's, and of what is public or archived at most
  `updatedAt` of their own.
- **Auth.** One account per email; no session survives the password it was
  opened with; a request is served under a role its user had; readiness is true.
- **Business operations.** No record without its business; keys unique in their
  scope; a broken reference never locks a record; a rule or offer is counted only
  for the item it names.
- **Pricing.** A quote explains itself: one selected adjustment, none cheaper
  without an override; prices never rise towards the end of an item or as it gets
  scarce; rounding costs the seller at most a cent for each unit.

`PROJECT.json` lists under `hazards` what in this code is hard to test, each at
its line with the properties that would catch it.

## 2. Plan

In this order, the most intricate behaviour first:

1. `NotificationQueue` with the abstract `DeliveryContract` it implements. *Done.*
2. `DurableQueue` = queue + journal + process life cycle. *Done.*
3. `RewardLedger` with the abstract `AccrualContract` it implements, then
   `DurableLedger` = ledger + journal + what administrators were told. *Done.*
4. `WalletLinks`, `Articles`. *Done.*
5. `AuthSessions`: accounts in store or Postgres, sessions, roles, bootstrap. *Done.*
6. `BusinessOps`: ten collections. *Done.*
7. `DynamicPricing`: the quote, and the catalogue edits that change it. *Done.*
8. A proof for every safety property the runs check. *Done, with `FiniteSums` for
   the sums over sets that the prover cannot take by induction.*

Each run asks one question of its own. What is left of the code holds no state or
only appends to lists; section 8 says why it has no module.

## 3. Modules and the code

A step of every model is the code between two awaits that wait for something.
A module named `MC...` supplies constants for TLC, one named `..._proofs` holds
theorems. A definition `Mutant...` is a faulty variant of the one that follows
it and belongs to no specification. `PROJECT.json` maps each definition to its
lines.

**DeliveryContract** states what the queue promises about a job: `Try` at most
`budget` times while pending, then `Deliver`, `Abandon` when the budget is used
up, or `HandOver` to one or two successors; `Reopen` by hand while budget is left.
`Seen(j)` is how the queue's job `j` looks to it and `SeenLedger` the refinement
mapping: a job that may still be dispatched is pending, with its attempts as tries.

**NotificationQueue** (`notifications.service.ts`, `.repository.ts`). `jobs` is
the store's list, each job with its audit entries; `drain[d]` is one call of
`processDueJobs`: the batch it read, where in it the call is, and the attempt it
waits for. `StartDrain` reads the batch (`ListDue`) and goes up to the first
await; `MarkSent`, `QueuePushFallback`, `FailFinally` and `ScheduleRetry` are the
continuations of `provider.send`; `NextInBatch` takes the next job of the stale
batch, without looking at status or budget, as the code does. `QueueNotification`
and `RetryJob` come in between any two. Outcomes of a provider are arbitrary.
`now` advances only while some job waits for a later instant; no other tick
changes what the code decides. `StepsLeft` is a measure of what drains may still do
before clients submit something new: for each job its attempts left, and with each
attempt the fallback jobs that its failure may queue, with theirs.

**DurableQueue** composes the queue with the journal (`memory-store.ts`) and the
signal handling of `index.ts`. `disk` is the file, replaced as a whole through a
rename. `Signal` flushes once (or fails to) and stops the timer, while `Work` goes
on until `Exit`. `calls` counts dispatches as the outside sees them, also those
that a crash made the store forget.

**RewardLedger** (`rewards.service.ts`, `.repository.ts`) has the rules of the
source as `RewardRules`. `AccrueByRule` has all refusals in their order and the
two reads of the clock, between which midnight may pass (`Lags`). `AddManualEntry`,
`MarkExported` and `SettleExportBatch` are the rest. Callers are not modelled: who
may act for another adds no step that the user could not cause.

**AccrualContract** states what the ledger promises about credits, in counters that
the code does not have: `credit` of each user and token, cleared by midnight; `opens`,
when a rule is open to a user again; the keys and sources paid for. `Earn` pays a rule
with all limits taken at the instant of the credit, `Bonus` is a grant, `Pass` the
rest. In `RewardLedger` these counters are read off the entries (`CreditToday`,
`OpensAt`, `KeysUsed`, `SourcesPaid`), and the contract's time is the clock at the
latest step. That the code takes its limits at an earlier reading of the clock than
its timestamp is what the mapping has to survive.

**FiniteSums** holds what the proofs need of sums and of least and greatest members of
finite sets, and no part of the system.

**DurableLedger** adds the file, crashes, and the answers of the export and
settlement endpoints (`exportedIn`, `settledIn`), which payments outside are made
from and which no crash takes back.

**WalletLinks** (`wallet.service.ts`, `.repository.ts`). A signature is the wallet
that made it and the message it covers; clients may send any they ever held. A
challenge is used up before its signature is looked at, and asking for a new one
sweeps everybody's expired ones. `tries` is a history variable, not state of the
program: who tried each challenge ever issued, also of those that were swept.

**Articles** (`articles.service.ts`, `.repository.ts`, the principal of
`.controller.ts`). A slug is a base and a number. `UpdateArticle` has the rules of
roles, transitions, slugs and dates; `actor` remembers who did the last change. Every accepted patch sets `updatedAt`, also
one that only names the status which the article has.

**AuthSessions** (`auth.service.ts`, both users repositories, `authz.ts`, the
bootstrap of `app.ts`). `backend` is chosen once. `calls[c]` is what a request is
about to do when its pending query answers. With accounts in the store
`RunsAlone` holds a handler together, because awaits of settled promises resume
before the next request is read; with Postgres each query is a step, and
`QueryFails` ends the request before it. A query that took effect and whose
answer is lost is the step followed by `QueryFails`. `Save` and `Restart` are the
journal, which holds sessions always and accounts only without Postgres.

**BusinessOps** (`business-ops.service.ts`, `.repository.ts`). One map of records
of ten collections. A record keeps its business, its references and its keys as
pairs of name and value, absent ones left out. `References`, `KeyNames`,
`GlobalKeys` and `MayStandAlone` are the tables in which the create, update and
delete methods of the service differ; `Accepted` is the order-free conjunction of their checks. A patch
writes a full record, for the code checks the merged values. `Quotable` and
`Counted` are the filter by which a quote chooses its rules and offers.

**DynamicPricing** (`dynamic-pricing.ts`, and the handlers of
`business-ops.service.ts` that write what it reads). One item of one business with
the rules and offers that the filter leaves for it. The quote is an operator:
`BlockedReason`, then `Candidates` (base price, live offers, rules that apply, stock
threshold, expiry tier, override), then `Before`, the order of the code's sort, and
`Cheapest`. The state is what the handlers edit between two quotes; moving and
deleting the item is in `BusinessOps`. Prices are cents, instants hours and
percentages hundredths of a percent. `LostCents` holds the pairs of price and
percentage for which double precision comes out a cent low (1000 cents less 34.9 %
are 650, not 651).

## 4. Runs

Ordinary runs, each of which finishes with no error:

| run | shows | instance |
|---|---|---|
| `queue_concurrent` | numbering, outcomes, fallback, the bounded overrun and the end of all retries under overlapping calls | two drains, two submissions (a plain job with two attempts, a scheduled push job with one attempt and a fallback), one manual retry |
| `queue_single` | with one call at a time: backoff, nobody stranded, the contract, and that all is settled in the end | one drain, a push job tried twice, a scheduled job, one manual retry |
| `durable_queue` | crash, stop and restart between any two steps: prefix property of the audit log, bounded repeats, frozen orphans | two drains, one submission of two kinds, two retries, two restarts |
| `ledger_accrual` | once-only accrual, cooldown, daily cap, forward-only payout, and that the ledger implements `AccrualContract` | two users, two rules of one token, one source, one key, grants and corrections, up to three entries, instants 0, 16 and 86399 with a lag of a second |
| `durable_ledger` | payouts under crashes | three entries, two batches, two crashes |
| `wallet_links` | one-to-one links and use of challenges | two users, two wallets, four challenges, lifetime 2 of 4 instants |
| `articles` | slugs, dates, limits of contributors | two users in any role, two articles, one base with numbers up to 3, two texts, three instants |
| `auth` | accounts, sessions, roles, readiness | two requests at a time besides the bootstrap, two emails, two passwords, two accounts and one session ever, any number of restarts |
| `business_ops` | ownership, keys, references, which rules price an item | four records in any collections, two values for keys |
| `dynamic_pricing` | selection, tiers, thresholds and rounding of quotes while the catalogue is edited | two rules and one offer at a time out of eight and five, 21 items, quantities 1 to 3, six instants |

Runs that find what a document says violated: `queue_stranded` and
`durable_stop`, see section 7.

Why these bounds are enough for the cases to occur:

- Two drains are the smallest overlap; two submissions let a batch hold a stale
  second job while another drain takes it; `RetryBase = 1` makes a retried job due
  while its old attempt is still awaited elsewhere. The push job and its fallback
  job make up to four jobs in all.
  A push job with two attempts can fail over, be retried by hand and fail over again;
  with two drains that is beyond TLC, so `queue_single` has it (`ImplementsContract`
  follows both hand-overs), and for overlapping drains `FallbacksMatchFailures` proves
  `FallbackPerFailure` for any budget.
- Two restarts let a restart repeat what an earlier one brought back.
- With a lag of one second an accrual at instant 0 is dated 1, and 16 is the very end
  of the cooldown of one rule and within that of the other; at 86399 midnight lies
  between check and timestamp, while the two readings of the clock at 16 and 17 fall
  on one day, like those of an accrual without lag. The grant of 119 is one below the
  daily cap of one rule, so both sides of the cap are met.
- Four challenges cover a link, a competing link, a re-link and a link after
  unlinking. A lifetime of 2 within 4 instants lets challenges overlap and expire.
- Numbers up to 3 for two articles leave gaps below and above the next free slug.
- One session under two requests and a reset is what a stale login needs; the
  second account is the bootstrap account or one that raced with it.
- Two businesses, a record and what it refers to are four records: it can move,
  its target can move or go, and both can conflict with another record's key.
- The instants 1, 2, 26, 38, 45 and 50 of an item that ends at 50 are before every
  tier, at the edges of 48, 24 and 12 hours, within the last tier, and expired.
  Stock is above, at and below its threshold of two, and reserved beyond what there
  is by one unit and by two, so that reservations lead there and further. Two rules and an offer give ties of price within and between sources;
  three units are the least that make a free second unit leave cents that do not
  divide.

Time, ids and restarts are bounded by guards in the actions (`MaxSubmitted`,
`MaxManualRetries`, `MaxRestarts`, `MaxEntries`, `MaxChallenges`, `MaxClock`,
`MaxArticles`, `MaxUsers`, `MaxSessions`, `MaxRecords`, `Instants`); no state
constraint hides states. Symmetry is used only in runs without liveness, over
values that nothing orders or singles out. In the `articles` and `auth` runs one role stands for
several only where the module treats them alike; the proofs have all five.
Deadlock is checked where the process can always move (`auth`); elsewhere clients
owe the system no further request and it may fall silent.

Every property of these runs is shown to depend on the code: `PROJECT.json` names
for each a faulty variant of a mapped definition under which TLC refutes it.

## 5. Fairness

Only `NotificationQueue` has a liveness property. `Fairness` assumes that callers
keep calling the process endpoint (the program has no scheduler of its own; an
external timer calls it, so a drain is started again and again while jobs are due),
that a provider call returns in some way, that the loop over the batch goes on
(`await` resumes) and that time passes. The mail call ends in an answer or an
error; the web push call is made without a timeout, so that for push an answer
comes is an assumption about the other side (see `hazards`). Nothing is assumed of
clients: new jobs and manual retries need not come. Each drain has its own weak
fairness; an outcome is not fair by itself, so a provider may fail for ever and
`EventuallySettled` still has to hold.

## 6. Proofs

Checked by TLAPS for every value of the constants under each module's
`ConstantsAssumption`, which TLC evaluates in the runs.

| module | theorem | argument |
|---|---|---|
| `NotificationQueue_proofs` | `TypeCorrect` | one step per action; lemmas on replacing, growing and logging jobs |
| | `OverrunBounded` | `BudgetInv`: the attempts of a job plus the number of drains whose batch still holds it (`Holders`) stay within `maxAttempts + Cardinality(Drains) - 1`; listing a job needs budget left, which leaves room for all drains, and a dispatch turns a holder into an attempt. The bound itself says nothing of stale batches and is not inductive |
| | `SingleDrainKeepsBudget` | the previous one with one drain |
| | `ProcessingHasItsAttempt` | inductive with the types: a start makes the job processing and the attempt its latest, and every outcome takes it out of processing |
| | `AttemptsAreNumbered` | `NumberedInv`: the started attempts in the log are 1 to `attempts`, in this order |
| | `AttemptsAreAccountedFor` | `AccountInv` adds that a number not yet started has neither flight nor outcome |
| | `FallbacksMatchFailures` | `FallbackInv`: the children of a job for a channel are as many as its logged failures, and parents exist before their children, so that a new job has none |
| | `SingleDrainStrandsNone`, `SingleDrainKeepsContract` | `SingleInv`: budget, `PendingInv` (what is in the batch waits for an attempt, what is in flight is not settled, and what failed without fallback has no budget left) and `AnswersAreCurrent` (an answer is about the latest attempt). Then each action is a step of `DeliveryContract` on `SeenLedger` or leaves it as it is |
| | `SingleDrainKeepsDelays` | `DueInv`: what is left of the batch is still due, because with one drain only that drain could postpone it |
| | `DrainsRunOutOfWork` | `StepsLeft` is a sum over jobs and drains: a dispatch takes more off its job than the flight adds, a failure takes its flight off, which paid for the fallback jobs it queues (`FallbacksWereCounted`); `OverrunBounded` keeps every summand natural |
| | `DurableTypeCorrect` | of `DurableQueue`: over the lemmas of the queue, as a step of the queue leaves the file alone |
| | `AuditOnlyGrows` | stated pointwise: every step extends every log, a restart makes memory and file equal |
| | `OrphansStay` | no handler makes a job an orphan and none touches one |
| | `RestartsCostOneAllowance` | memory (`BudgetInv`) and file (`FileInBudget`) stay within a job's `Allowance`, its budget and one attempt for each further drain, and a dispatch adds to both sides |
| `FiniteSums` | lemmas only | the folds of the community modules are defined by choice and recursion; that a sum grows by a new member, loses a removed one, is monotone and does not depend on the order is shown by taking a least finite set that fails, instead of by induction over data |
| `RewardLedger_proofs` | `LedgerTypeCorrect` | includes that no entry is dated in the future, which the cooldown needs |
| | `AccrualsHappenOnce` | `OnceInv`: `AccruedOnce` pairwise, plus that only manual entries are void — without it a void entry would free its source |
| | `CooldownHolds` | `CooldownKept` is inductive given that timestamps lie in the past |
| | `CapsHold` | the entries of the day of a new entry up to it are the entries counted at the check, or none of them if midnight lay between, and the new one (`FiniteSums`); later steps touch neither set nor amounts |
| | `LedgerKeepsContract` | each operation is a step of `AccrualContract` on the counters read off the entries: an accrual raises the credit by its amount and closes its rule until its cooldown has passed, the greatest of all such instants; `LedgerInv` supplies timestamps in the past and that only manual entries are void |
| | `LimitsSurviveCrashes` | of `DurableLedger`. `LimitsInv`: the file holds the ledger's first entries, perhaps at an earlier status (`PartOf`), and all limits are about pairs of entries and about sums of positive amounts, which a ledger with fewer entries inherits (`SumSubset`) |
| | `EntriesOnlyAdvance` | `Payable`: what is not void has a positive amount |
| | `PayoutsAreToldOncePerRun`, `SettlementsWereExported`, `BatchesAreKnown` | of `DurableLedger`. `LedgerInv`: both memory and file hold only announced batches (`Announced`), and what can still be exported or settled was announced as such at most once for each restart so far (`CountsInv`) |
| `WalletLinks_proofs` | `WalletTypeCorrect`, `WalletsAreOneToOne`, `LinkingNeedsAChallenge`, `ChallengesStayUntilUsed` | inductive as they stand, or a property of each step; `ChallengesStayUntilUsed` needs `TriedAreSpent`: what was ever tried is used or swept, and ids are not given out twice |
| `Articles_proofs` | `ArticlesTypeCorrect`, `SlugsStayUnique`, `DatesAgreeWithStatus`, `FirstDateStays`, `ContributorsReachOnlyDrafts` | the cases of the publication date are a lemma (`DateCases`), the rest by action; the contributor's patch of the same status is the case that `OnlyTouched` names |
| `AuthSessions_proofs` | `AuthTypeCorrect` | `TypeInv` adds the bounds of the ids and the shape of the journal |
| | `EmailsAreUnique` | `EmailInv`: an email that a registration found free is free until it inserts; the same of the saved journal, which a restart brings back |
| | `ResetsLeaveNoSession` | `PasswordInv`: a session out of step with its account belongs to a user whose sessions the reset under way is about to revoke; what a login has read is still true; a journal is written between handlers |
| | `RolesWereHeld` | `RoleInv`: what a request is about to read or has read lies among the roles seen since it came in |
| | `ReadinessHolds` | `ReadyInv`: with the store, a bootstrap that comes to its last lookup will find the account |
| `BusinessOps_proofs` | `RecordsTypeCorrect`, `RecordsHaveTheirBusiness`, `KeysStayUnique`, `RecordsCanBeMended`, `RulesPriceOnlyTheirItem` | `IInv`: types, ownership, unique keys, well-shaped keys, at most one reference per collection; every operation is a write of one accepted record (`Writes`) or a removal (`Removes`), which two lemmas show to keep `IInv` |
| `DynamicPricing_proofs` | `PricingTypeCorrect` | by action |
| | `QuotesExplainThemselves` | for finite sets of ids: source and id tell candidates apart, and of finitely many one comes `Before` all others |
| | `ClearanceOnlyDeepens` | a tier is left only for one that stands earlier in the list, which takes more off |
| | `RoundingStaysWithinACent` | division with remainder; a percentage in `LostCents` divides evenly, which pays for the lost cent |
| | `ScarcityIsNeverDearer` | units decide only about the threshold and about what is blocked |

The type theorems of the queue, the composed queue, the ledger, the wallets, the
articles, the accounts, the records and the catalogue have no property in a run: the
runs check what needs them. `SingleDrainKeepsBudget` has none because with one drain
its formula is that of `OverrunBounded`. `LimitsSurviveCrashes` is a theorem about a
composition whose runs ask about payouts.

Only model-checked is `EventuallySettled`, because liveness under fairness is out of
the prover's reach. Its safety core is proved: by `DrainsRunOutOfWork` drains take at
most `StepsLeft` steps until something new is submitted, whatever the providers
answer, and with one drain `SingleDrainStrandsNone` says that what is not settled is
still taken up. What remains for TLC is that fair scheduling makes those steps happen.
No theorem says what a recursive definition computes for all data; the sums of the
ledger and of `StepsLeft` are the two places where one was needed, and there the least
finite subset that fails stands in for the induction.

## 7. Where code and documents disagree

- `queue_stranded`. Two overlapping drains dispatch a job twice with the last of
  its budget. The later attempt fails it finally, then the late failure of the
  earlier attempt sets it back to retrying; neither `listDue` nor `retryJob` takes
  it up again, and it is never settled.
- `durable_stop`. The last flush is at the signal, but open requests are served
  for up to five seconds more; what they record is answered and lost.

Four further points are noted without a run of their own. A process that dies
while an attempt is in flight and after a flush brings its job back as processing,
which `listDue` passes over and `retryJob` refuses once the budget is used up;
`OrphansAreFrozen` shows that this is the only kind of processing job without an
attempt. With overlapping drains a job that
was sent can be dispatched again, though `notifications.service.ts` line 169
says "Sent jobs cannot be retried" of the manual path; and `docs/api-contract.md`
line 75 names one transition out of `ARCHIVED` where the code has three. And
`articles.service.ts` line 227 says "Contributors can only edit own articles while in
DRAFT or REVIEW", while a contributor's patch that names the status an own published
or archived article already has is accepted: it counts as no transition, changes no
field a client sets, and `articles.repository.ts` line 84 moves `updatedAt`.
`ContributorsStayWithDrafts` shows that nothing else of such an article moves.

## 8. What is not modelled

- **Pricing**: prices beyond 2^53 and the priorities above eight digits that would
  break the string comparison of the sort; labels and notes. A quote reserves
  nothing: whether units are left when it is used is up to the client.
- **Inventory, billing and businesses of the older modules**: append-only lists.
- **Providers**: outside services; the queue takes every outcome of theirs.
- **Configuration, logging, HTTP helpers, release and contract documents**: no
  state, or read once at the start.
- **Validation of fields**: a refused request changes nothing and is a disabled
  action; only refusals that depend on state are guards.
- **The other collections under crashes**: flush and load treat the store as one
  value, so what the durable modules show of it carries over; their own
  properties hold in every state and so also in one that was reloaded — except
  for sessions and accounts, which is why `AuthSessions` has its own restarts.
- **A damaged file, sessions of a lost reset with Postgres, versions of articles**:
  listed under `hazards` with the reason.
