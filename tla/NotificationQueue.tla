-------------------------- MODULE NotificationQueue -------------------------
(***************************************************************************)
(* The outbound notification queue: modules/notifications.                 *)
(*                                                                         *)
(* Node runs one handler at a time, so a step is the code between two      *)
(* awaits.  The only await of the module is provider.send inside           *)
(* processJob, and processDueJobs awaits one processJob after the other    *)
(* over a batch it read before the first of them.  A call of               *)
(* POST /notifications/jobs/process is a "drain"; nothing keeps two drains *)
(* apart, and queueNotification and retryJob run between any two steps.    *)
(*                                                                         *)
(* A job keeps what the module decides by: channel, fallback targets,      *)
(* schedule, budget, status, attempts and nextAttemptAt, and its entries   *)
(* of the audit log.  Texts, provider names, errors and the timestamps     *)
(* nobody reads back are left out.  Time is logical and advances only      *)
(* while some job waits for a later instant: other ticks change no         *)
(* decision the module takes.                                              *)
(*                                                                         *)
(* A definition called Mutant... is a faulty variant of the one after it;  *)
(* no specification uses it, the mutation checks put it in its place.      *)
(***************************************************************************)
EXTENDS Integers, Sequences, FiniteSetsExt

CONSTANTS
  Drains,           \* processDueJobs calls that may run at the same time
  Limit,            \* the limit of one drain
  RetryBase,        \* retryBaseMs
  RetryMax,         \* retryMaxMs
  Requests,         \* the submissions clients make, see RequestType
  MaxSubmitted,     \* bound: submissions by clients
  MaxManualRetries  \* bound: manual retries by clients

RequestType ==
  [channel : {"email", "sms", "push"}, fallback : SUBSET {"email", "sms"},
   maxAttempts : 1..10, delay : Nat]

ASSUME ConstantsAssumption ==
  /\ IsFiniteSet(Drains) /\ Drains # {}
  /\ Limit \in Nat \ {0}
  /\ RetryBase \in Nat /\ RetryMax \in Nat
  /\ Requests \subseteq RequestType
  /\ MaxSubmitted \in Nat /\ MaxManualRetries \in Nat

VARIABLES
  jobs,    \* store.notifications, each job with its entries of the audit log
  drain,   \* the state of each processDueJobs call
  now      \* nowIso()

vars == <<jobs, drain, now>>

-----------------------------------------------------------------------------
(* Jobs and their audit log. *)

Statuses == {"queued", "processing", "retrying", "sent", "failed"}
Starts   == {"attempt_started"}
Outcomes == {"attempt_succeeded", "attempt_failed"}
Events   == Starts \cup Outcomes \cup
  {"queued", "retry_scheduled", "failed_final", "retry_requested", "fallback_queued"}

NotScheduled == -1
NoParent     == 0

LogEntry(e, n) == [event |-> e, attempt |-> n]
LogEntries     == [event : Events, attempt : Nat]

JobType ==
  [channel : {"email", "sms", "push"}, fallback : SUBSET {"email", "sms"},
   scheduledFor : Nat \cup {NotScheduled}, maxAttempts : 1..10, parent : Nat,
   status : Statuses, attempts : Nat, nextAttemptAt : Nat, log : Seq(LogEntries)]

FirstAttemptAt(scheduledFor) == IF scheduledFor > now THEN scheduledFor ELSE now

NewJob(channel, fallback, scheduledFor, maxAttempts, parent) ==
  [channel |-> channel, fallback |-> fallback, scheduledFor |-> scheduledFor,
   maxAttempts |-> maxAttempts, parent |-> parent,
   status |-> "queued", attempts |-> 0, nextAttemptAt |-> FirstAttemptAt(scheduledFor),
   log |-> <<LogEntry("queued", 0)>>]

MutantBudgetLeft(j) == jobs[j].attempts <= jobs[j].maxAttempts
BudgetLeft(j) == jobs[j].attempts < jobs[j].maxAttempts

ManualRetries ==
  UNION {{<<j, p>> : p \in {i \in DOMAIN jobs[j].log : jobs[j].log[i].event = "retry_requested"}}
           : j \in DOMAIN jobs}

-----------------------------------------------------------------------------
(* The batch of a drain: the due jobs, oldest nextAttemptAt first, ties in *)
(* insertion order, cut at Limit.  A batch maps the ids that are still to  *)
(* be dispatched to their positions in the list.                           *)

MutantDue(j) == jobs[j].status \in {"queued", "retrying"} /\ BudgetLeft(j)
Due(j) ==
  /\ jobs[j].status \in {"queued", "retrying"}
  /\ jobs[j].nextAttemptAt <= now
  /\ BudgetLeft(j)

DueJobs == {j \in DOMAIN jobs : Due(j)}

Earlier(i, j) ==
  \/ jobs[i].nextAttemptAt < jobs[j].nextAttemptAt
  \/ jobs[i].nextAttemptAt = jobs[j].nextAttemptAt /\ i < j

Position(j) == Cardinality({i \in DueJobs : Earlier(i, j)})

ListDue == [j \in {i \in DueJobs : Position(i) < Limit} |-> Position(j)]

IsHead(j, batch) == j \in DOMAIN batch /\ \A i \in DOMAIN batch : batch[j] <= batch[i]

Rest(j, batch) == [i \in DOMAIN batch \ {j} |-> batch[i]]

EmptyBatch == [j \in {} |-> 0]
Idle == [phase |-> "idle", batch |-> EmptyBatch, job |-> 0, attempt |-> 0]

-----------------------------------------------------------------------------
(* Clients. *)

(* queueNotification, called by POST /notifications/jobs.  The validation  *)
(* failures change nothing; ConstantsAssumption keeps to valid requests.   *)
QueueNotification(r) ==
  /\ Cardinality({j \in DOMAIN jobs : jobs[j].parent = NoParent}) < MaxSubmitted
  /\ LET scheduledFor == IF r.delay > 0 THEN now + r.delay ELSE NotScheduled
     IN  jobs' = Append(jobs,
                   NewJob(r.channel, r.fallback, scheduledFor, r.maxAttempts, NoParent))
  /\ UNCHANGED <<drain, now>>

MutantRetriable(j) == BudgetLeft(j)
Retriable(j) == jobs[j].status # "sent" /\ BudgetLeft(j)

MutantRetried(j) ==
  [jobs EXCEPT ![j].status = "processing", ![j].nextAttemptAt = now,
               ![j].log = Append(@, LogEntry("retry_requested", jobs[j].attempts))]
Retried(j) ==
  [jobs EXCEPT ![j].status = "retrying", ![j].nextAttemptAt = now,
               ![j].log = Append(@, LogEntry("retry_requested", jobs[j].attempts))]

(* retryJob: nothing asks whether an attempt is in flight. *)
RetryJob(j) ==
  /\ Retriable(j)
  /\ Cardinality(ManualRetries) < MaxManualRetries
  /\ jobs' = Retried(j)
  /\ UNCHANGED <<drain, now>>

-----------------------------------------------------------------------------
(* Drains. *)

NextAttempt(j) == jobs[j].attempts + 1

MutantStarted(j) ==
  [jobs EXCEPT ![j].status = "processing",
               ![j].log = Append(@, LogEntry("attempt_started", NextAttempt(j)))]
Started(j) ==
  [jobs EXCEPT ![j].status = "processing", ![j].attempts = NextAttempt(j),
               ![j].log = Append(@, LogEntry("attempt_started", NextAttempt(j)))]

(* processJob up to the await of provider.send.  The job is read afresh,   *)
(* but neither its status nor its budget is looked at again.               *)
BeginAttempt(d, j, batch) ==
  /\ jobs' = Started(j)
  /\ drain' = [drain EXCEPT ![d] =
       [phase |-> "sending", batch |-> Rest(j, batch), job |-> j,
        attempt |-> NextAttempt(j)]]
  /\ UNCHANGED now

(* processDueJobs up to its first await; with nothing due it just returns. *)
StartDrain(d) ==
  /\ drain[d].phase = "idle"
  /\ \E j \in DueJobs : IsHead(j, ListDue) /\ BeginAttempt(d, j, ListDue)

(* The next round of the loop over the batch. *)
NextInBatch(d) ==
  /\ drain[d].phase = "looping"
  /\ \E j \in DOMAIN drain[d].batch :
       IsHead(j, drain[d].batch) /\ BeginAttempt(d, j, drain[d].batch)

(* The drain goes on with its batch, or answers its caller. *)
Returned(d) ==
  IF DOMAIN drain[d].batch = {} THEN Idle
  ELSE [phase |-> "looping", batch |-> drain[d].batch, job |-> 0, attempt |-> 0]

(* provider.send accepted: markSent. *)
MarkSent(d) ==
  LET j == drain[d].job
  IN  /\ drain[d].phase = "sending"
      /\ jobs' = [jobs EXCEPT ![j].status = "sent", 
                    ![j].log = Append(@, LogEntry("attempt_succeeded", drain[d].attempt))]
      /\ drain' = [drain EXCEPT ![d] = Returned(d)]
      /\ UNCHANGED now

(* provider.send rejected or threw: markAttemptFailure, in three ways. *)

MutantFailureLog(d, event) ==
  LET latest == jobs[drain[d].job].attempts
  IN  <<LogEntry("attempt_failed", latest), LogEntry(event, latest)>>
FailureLog(d, event) ==
  <<LogEntry("attempt_failed", drain[d].attempt), LogEntry(event, drain[d].attempt)>>

MutantFallbackChannels(j) ==
  (IF "email" \in jobs[j].fallback THEN <<"email">> ELSE << >>)
     \o (IF "sms" \in jobs[j].fallback THEN <<"sms">> ELSE << >>)
FallbackChannels(j) ==
  IF jobs[j].channel # "push" THEN << >>
  ELSE (IF "email" \in jobs[j].fallback THEN <<"email">> ELSE << >>)
         \o (IF "sms" \in jobs[j].fallback THEN <<"sms">> ELSE << >>)

(* The fallback jobs keep the schedule but lose the fallback targets. *)
FallbackJobs(j) ==
  LET channels == FallbackChannels(j)
  IN  [k \in DOMAIN channels |->
         NewJob(channels[k], {}, jobs[j].scheduledFor, jobs[j].maxAttempts, j)]

QueuePushFallback(d) ==
  LET j == drain[d].job
  IN  /\ drain[d].phase = "sending"
      /\ FallbackChannels(j) # << >>
      /\ jobs' = [jobs EXCEPT ![j].status = "failed",
                              ![j].log = @ \o FailureLog(d, "fallback_queued")]
                   \o FallbackJobs(j)
      /\ drain' = [drain EXCEPT ![d] = Returned(d)]
      /\ UNCHANGED now

MutantLastAttempt(d) == drain[d].attempt > jobs[drain[d].job].maxAttempts
LastAttempt(d) == drain[d].attempt >= jobs[drain[d].job].maxAttempts

FailFinally(d) ==
  LET j == drain[d].job
  IN  /\ drain[d].phase = "sending"
      /\ FallbackChannels(j) = << >>
      /\ LastAttempt(d)
      /\ jobs' = [jobs EXCEPT ![j].status = "failed",
                              ![j].log = @ \o FailureLog(d, "failed_final")]
      /\ drain' = [drain EXCEPT ![d] = Returned(d)]
      /\ UNCHANGED now

(* computeRetryDelayMs: the smaller of retryMaxMs and the doubled delay. *)
RetryDelay(attempt) ==
  LET candidate == RetryBase * 2^(attempt - 1)
  IN  IF candidate \in 0..RetryMax THEN candidate ELSE RetryMax

ScheduleRetry(d) ==
  LET j == drain[d].job
  IN  /\ drain[d].phase = "sending"
      /\ FallbackChannels(j) = << >>
      /\ ~LastAttempt(d)
      /\ jobs' = [jobs EXCEPT ![j].status = "retrying",
                              ![j].nextAttemptAt = now + RetryDelay(drain[d].attempt),
                              ![j].log = @ \o FailureLog(d, "retry_scheduled")]
      /\ drain' = [drain EXCEPT ![d] = Returned(d)]
      /\ UNCHANGED now

Settle(d) == MarkSent(d) \/ QueuePushFallback(d) \/ FailFinally(d) \/ ScheduleRetry(d)

-----------------------------------------------------------------------------

Tick ==
  /\ \E j \in DOMAIN jobs : jobs[j].nextAttemptAt > now
  /\ now' = now + 1
  /\ UNCHANGED <<jobs, drain>>

Init ==
  /\ jobs = << >>
  /\ drain = [d \in Drains |-> Idle]
  /\ now = 0

Next ==
  \/ \E r \in Requests : QueueNotification(r)
  \/ \E j \in DOMAIN jobs : RetryJob(j)
  \/ \E d \in Drains : StartDrain(d) \/ NextInBatch(d) \/ Settle(d)
  \/ Tick

Spec == Init /\ [][Next]_vars

(* Callers keep calling the endpoint, provider calls return, time passes.  *)
(* Nothing is assumed of clients.                                          *)
Fairness ==
  /\ \A d \in Drains : WF_vars(StartDrain(d)) /\ WF_vars(NextInBatch(d)) /\ WF_vars(Settle(d))
  /\ WF_vars(Tick)

FairSpec == Spec /\ Fairness

-----------------------------------------------------------------------------
(* Properties. *)

InFlight(d, j, n) ==
  drain[d].phase = "sending" /\ drain[d].job = j /\ drain[d].attempt = n

Logged(j, events, n) ==
  {p \in DOMAIN jobs[j].log : jobs[j].log[p].event \in events /\ jobs[j].log[p].attempt = n}

IsBatch(batch, ids) == DOMAIN batch \subseteq ids /\ batch \in [DOMAIN batch -> Nat]

DrainOK(state, ids) ==
  /\ state = [phase |-> state.phase, batch |-> state.batch, job |-> state.job,
              attempt |-> state.attempt]
  /\ state.phase \in {"idle", "looping", "sending"}
  /\ IsBatch(state.batch, ids)
  /\ state.phase = "idle" => DOMAIN state.batch = {}
  /\ state.attempt \in Nat
  /\ state.job \in IF state.phase = "sending" THEN ids ELSE {0}

(* Every job record and every drain is one the code can build; timestamps  *)
(* are never lost, and a drain works on jobs that exist.                   *)
TypeOK ==
  /\ jobs \in Seq(JobType)
  /\ drain = [d \in Drains |-> drain[d]] /\ \A d \in Drains : DrainOK(drain[d], DOMAIN jobs)
  /\ now \in Nat

(* The audit log numbers the attempts of a job 1, 2, 3... in the order     *)
(* they were started, each of them once, whatever drains and manual        *)
(* retries run together (processJob reads and bumps `attempts' in one go). *)
AttemptsNumberedOnce ==
  \A j \in DOMAIN jobs :
    LET log == jobs[j].log
    IN  /\ \A n \in 1..jobs[j].attempts : Logged(j, Starts, n) # {}
        /\ \A p, q \in DOMAIN log :
             log[p].event \in Starts /\ log[q].event \in Starts /\ p < q
               => log[p].attempt < log[q].attempt

(* Every attempt ever started is either in flight in exactly one drain or  *)
(* has exactly one outcome in the audit log: no result is lost, and none   *)
(* is written twice.                                                       *)
EveryAttemptAccountedFor ==
  \A j \in DOMAIN jobs : \A n \in 1..jobs[j].attempts :
    Cardinality({d \in Drains : InFlight(d, j, n)}) + Cardinality(Logged(j, Outcomes, n)) = 1

(* While the process runs, a job shown as processing has its latest        *)
(* attempt in flight, so that some drain will move it on.                  *)
ProcessingIsInFlight ==
  \A j \in DOMAIN jobs :
    jobs[j].status = "processing" => \E d \in Drains : InFlight(d, j, jobs[j].attempts)

(* What a job may be tried at most: its budget, and once more for each     *)
(* drain that overlaps the first.                                          *)
Allowance(j) == jobs[j].maxAttempts + Cardinality(Drains) - 1

(* Stale batches let a job exceed maxAttempts, but only by one attempt for *)
(* every further drain: a drain picks a job only while budget is left and  *)
(* dispatches it once per batch.  With one drain the budget is respected.  *)
BudgetOverrunBounded == \A j \in DOMAIN jobs : jobs[j].attempts <= Allowance(j)

(* Each failed push attempt queues one job per fallback target, and no     *)
(* other job falls back: fallback jobs never start a cascade.              *)
FallbackPerFailure ==
  \A j \in DOMAIN jobs, c \in {"email", "sms"} :
    LET failures == {p \in DOMAIN jobs[j].log : jobs[j].log[p].event = "attempt_failed"}
    IN  Cardinality({k \in DOMAIN jobs : jobs[k].parent = j /\ jobs[k].channel = c})
          = IF jobs[j].channel = "push" /\ c \in jobs[j].fallback
            THEN Cardinality(failures) ELSE 0

(* maxAttempts bounds the attempts of a job. *)
BudgetRespected == \A j \in DOMAIN jobs : jobs[j].attempts <= jobs[j].maxAttempts

(* A job is never dispatched before the instant its schedule or its last   *)
(* retry delay set.                                                        *)
BackoffRespected ==
  [][\A j \in DOMAIN jobs :
       jobs'[j].attempts # jobs[j].attempts => jobs[j].nextAttemptAt <= now]_vars

(* A job that still waits for an attempt has budget for it: no job is left *)
(* where neither a drain nor a manual retry takes it up again.             *)
NoStrandedJob ==
  \A j \in DOMAIN jobs : jobs[j].status \in {"queued", "retrying"} => BudgetLeft(j)

(* Once clients are done, every job ends sent or failed and stays so: the  *)
(* retries a failing provider causes come to an end, and no job is lost on *)
(* the way.                                                                *)
EventuallySettled ==
  <>[](\A j \in DOMAIN jobs : jobs[j].status \in {"sent", "failed"})

(* How many more steps drains can take, if clients submit nothing new: two *)
(* for every attempt that a job may still get, and with each of them those *)
(* of the fallback jobs that its failure may queue.                        *)
StepsOfFallbacks(j) == 2 * Len(FallbackChannels(j)) * Allowance(j)
StepsForJob(j) == (2 + StepsOfFallbacks(j)) * (Allowance(j) - jobs[j].attempts)
StepsInFlight(d) ==
  IF drain[d].phase = "sending" THEN 1 + StepsOfFallbacks(drain[d].job) ELSE 0

StepsLeft ==
  SumFunctionOnSet([j \in DOMAIN jobs |-> StepsForJob(j)], DOMAIN jobs)
    + SumFunctionOnSet([d \in Drains |-> StepsInFlight(d)], Drains)

(* Work runs out: every step of a drain leaves fewer to take, failures and *)
(* fallbacks included, and neither manual retries nor time bring any back. *)
WorkRunsOut ==
  [][/\ StepsLeft' >= 0
     /\ drain' # drain => StepsLeft' < StepsLeft
     /\ drain' = drain /\ DOMAIN jobs' = DOMAIN jobs => StepsLeft' = StepsLeft]_vars

(* The refinement: pending covers the statuses from which a job can still  *)
(* be dispatched; a failed job is abandoned once its budget is used up by  *)
(* a job without fallback, handed over otherwise.                          *)
OutcomeOf(j) ==
  CASE jobs[j].status = "sent" -> "delivered"
    [] jobs[j].status = "failed" /\ FallbackChannels(j) = << >> -> "abandoned"
    [] jobs[j].status = "failed" /\ FallbackChannels(j) # << >> -> "handed_over"
    [] OTHER -> "pending"

Seen(j) == [budget |-> jobs[j].maxAttempts, tried |-> jobs[j].attempts, outcome |-> OutcomeOf(j)]
SeenLedger == [j \in DOMAIN jobs |-> Seen(j)]

Contract == INSTANCE DeliveryContract WITH Budgets <- 1..10, ledger <- SeenLedger

(* With one drain at a time the queue keeps the delivery contract: attempts *)
(* within budget and only while pending, sent and abandoned are final, a    *)
(* failed push job lives on in its fallback jobs.                           *)
ImplementsContract == Contract!Spec
=============================================================================
