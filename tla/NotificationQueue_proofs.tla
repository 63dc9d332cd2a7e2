----------------------- MODULE NotificationQueue_proofs ---------------------
(***************************************************************************)
(* Theorems about NotificationQueue, and after them about DurableQueue,    *)
(* the queue over its journal: for any set of drains, any requests, any    *)
(* retry parameters, any bounds and any number of crashes and stops.       *)
(***************************************************************************)
EXTENDS DurableQueue, FiniteSums, SequenceTheorems

-----------------------------------------------------------------------------
(* Facts about the operators. *)

(* What a job list holds. *)
LEMMA JobFields ==
  ASSUME NEW s \in Seq(JobType), NEW j \in DOMAIN s
  PROVE  /\ s[j] \in JobType /\ s[j].log \in Seq(LogEntries)
         /\ s[j].attempts \in Nat /\ s[j].maxAttempts \in 1..10
  <1>1. s[j] \in JobType
    BY ElementOfSeq, LenProperties
  <1>2. QED
    BY <1>1 DEF JobType

(* A job list stays one when one of its jobs is replaced by another job.   *)
LEMMA ReplaceJob ==
  ASSUME NEW s \in Seq(JobType), NEW j \in DOMAIN s, NEW r \in JobType
  PROVE  /\ [s EXCEPT ![j] = r] \in Seq(JobType)
         /\ DOMAIN [s EXCEPT ![j] = r] = DOMAIN s
  BY ExceptSeq, LenProperties

(* The same when further jobs are added at the end; the ids do not move.   *)
LEMMA ReplaceAndGrow ==
  ASSUME NEW s \in Seq(JobType), NEW j \in DOMAIN s, NEW r \in JobType, NEW more \in Seq(JobType)
  PROVE  LET t == [s EXCEPT ![j] = r] \o more
         IN  /\ t \in Seq(JobType)
             /\ DOMAIN s \subseteq DOMAIN t
             /\ \A i \in DOMAIN s : t[i] = IF i = j THEN r ELSE s[i]
             /\ \A i \in DOMAIN t \ DOMAIN s : \E k \in DOMAIN more : t[i] = more[k]
  <1> DEFINE u == [s EXCEPT ![j] = r]
  <1>1. u \in Seq(JobType) /\ DOMAIN u = DOMAIN s /\ \A i \in DOMAIN s : u[i] = IF i = j THEN r ELSE s[i]
    BY ReplaceJob
  <1> HIDE DEF u
  <1>2. /\ Len(u) \in Nat /\ DOMAIN s = 1..Len(u)
        /\ Len(more) \in Nat /\ DOMAIN more = 1..Len(more)
    BY <1>1, LenProperties
  <1>3. /\ u \o more \in Seq(JobType)
        /\ DOMAIN (u \o more) = 1..(Len(u) + Len(more))
        /\ \A i \in 1..(Len(u) + Len(more)) :
             (u \o more)[i] = IF i <= Len(u) THEN u[i] ELSE more[i - Len(u)]
    BY <1>1, ConcatProperties, LenProperties
  <1>4. ASSUME NEW i \in DOMAIN s
        PROVE  i \in DOMAIN (u \o more) /\ (u \o more)[i] = IF i = j THEN r ELSE s[i]
    BY <1>1, <1>2, <1>3
  <1>5. ASSUME NEW i \in DOMAIN (u \o more) \ DOMAIN s
        PROVE  \E k \in DOMAIN more : (u \o more)[i] = more[k]
    <2>1. i - Len(u) \in DOMAIN more /\ (u \o more)[i] = more[i - Len(u)]
      BY <1>2, <1>3
    <2>2. QED
      BY <2>1
  <1>6. QED
    BY <1>3, <1>4, <1>5 DEF u

(* A log stays one when an entry, or a failure with its consequence, is    *)
(* appended.                                                               *)
LEMMA ExtendLog ==
  ASSUME NEW log \in Seq(LogEntries), NEW e \in Events, NEW f \in Events, NEW n \in Nat
  PROVE  /\ Append(log, LogEntry(e, n)) \in Seq(LogEntries)
         /\ log \o <<LogEntry(e, n), LogEntry(f, n)>> \in Seq(LogEntries)
  <1>1. LogEntry(e, n) \in LogEntries /\ LogEntry(f, n) \in LogEntries
    BY DEF LogEntry, LogEntries
  <1>2. <<LogEntry(e, n), LogEntry(f, n)>> \in Seq(LogEntries)
    BY <1>1
  <1>3. QED
    BY <1>1, <1>2, ConcatProperties, AppendProperties

(* A new job is a job record. *)
LEMMA NewJobType ==
  ASSUME now \in Nat, NEW channel \in {"email", "sms", "push"},
         NEW fallback \in SUBSET {"email", "sms"},
         NEW scheduledFor \in Nat \cup {NotScheduled},
         NEW maxAttempts \in 1..10, NEW parent \in Nat
  PROVE  NewJob(channel, fallback, scheduledFor, maxAttempts, parent) \in JobType
  <1>1. FirstAttemptAt(scheduledFor) \in Nat
    BY DEF FirstAttemptAt, NotScheduled
  <1>2. <<LogEntry("queued", 0)>> \in Seq(LogEntries)
    BY DEF LogEntry, LogEntries, Events, Starts, Outcomes
  <1>3. QED
    BY <1>1, <1>2 DEF NewJob, JobType, Statuses

(* The retry delay is a delay: whatever the attempt, 0..RetryMax.          *)
LEMMA RetryDelayType == \A n : RetryDelay(n) \in Nat
  BY ConstantsAssumption DEF RetryDelay

(* The list of due jobs is a batch of jobs that exist, all within budget.  *)
LEMMA ListDueType ==
  ASSUME TypeOK
  PROVE  /\ IsBatch(ListDue, DOMAIN jobs)
         /\ DOMAIN ListDue \subseteq DueJobs
         /\ DueJobs \subseteq DOMAIN jobs
  <1>1. DOMAIN jobs = 1..Len(jobs) /\ Len(jobs) \in Nat
    BY LenProperties DEF TypeOK
  <1>2. IsFiniteSet(DOMAIN jobs)
    BY <1>1, FS_Interval
  <1>3. DueJobs \subseteq DOMAIN jobs
    BY DEF DueJobs
  <1>4. ASSUME NEW j PROVE Position(j) \in Nat
    <2>1. {i \in DueJobs : Earlier(i, j)} \subseteq DOMAIN jobs
      BY <1>3
    <2>2. QED
      BY <2>1, <1>2, FS_Subset, FS_CardinalityType DEF Position
  <1>5. QED
    BY <1>3, <1>4 DEF ListDue, IsBatch

(* What is left of a batch is a batch.                                    *)
LEMMA RestType ==
  ASSUME NEW j, NEW batch, NEW ids, IsBatch(batch, ids)
  PROVE  IsBatch(Rest(j, batch), ids) /\ DOMAIN Rest(j, batch) = DOMAIN batch \ {j}
  BY DEF Rest, IsBatch

-----------------------------------------------------------------------------
(* The state stays well formed. *)

(* The two halves of the invariance of TypeOK.                             *)
LEMMA InitTypeOK == Init => TypeOK
  <1> SUFFICES ASSUME Init PROVE TypeOK
    OBVIOUS
  <1>1. DrainOK(Idle, {})
    BY DEF DrainOK, IsBatch, Idle, EmptyBatch
  <1>2. QED
    BY <1>1 DEF Init, TypeOK

(* Dispatching a job of a batch keeps the state well formed. *)
LEMMA BeginAttemptTypeOK ==
  ASSUME TypeOK, NEW d \in Drains, NEW batch, IsBatch(batch, DOMAIN jobs), NEW j \in DOMAIN batch,
         BeginAttempt(d, j, batch)
  PROVE  TypeOK' /\ DOMAIN jobs' = DOMAIN jobs
  <1> DEFINE log == Append(jobs[j].log, LogEntry("attempt_started", NextAttempt(j)))
  <1> DEFINE job == [jobs[j] EXCEPT !.status = "processing", !.attempts = NextAttempt(j),
                                    !.log = log]
  <1>1. jobs \in Seq(JobType) /\ j \in DOMAIN jobs /\ jobs[j] \in JobType
    BY ElementOfSeq, LenProperties DEF TypeOK, IsBatch
  <1>2. NextAttempt(j) \in Nat
    BY <1>1 DEF NextAttempt, JobType
  <1>3. log \in Seq(LogEntries)
    BY <1>1, <1>2, ExtendLog DEF JobType, Events, Starts, Outcomes
  <1>4. jobs' = [jobs EXCEPT ![j] = job]
    BY <1>1 DEF BeginAttempt, Started
  <1>5. job \in JobType
    <2> HIDE DEF log
    <2>1. "processing" \in Statuses
      BY DEF Statuses
    <2> QED
      BY <1>1, <1>2, <1>3, <2>1 DEF JobType
  <1>6. jobs' \in Seq(JobType) /\ DOMAIN jobs' = DOMAIN jobs
    <2> HIDE DEF job
    <2> QED
      BY <1>1, <1>4, <1>5, ReplaceJob
  <1>7. DrainOK([phase |-> "sending", batch |-> Rest(j, batch), job |-> j,
                 attempt |-> NextAttempt(j)], DOMAIN jobs)
    BY <1>1, <1>2, RestType DEF DrainOK
  <1>8. QED
    BY <1>6, <1>7 DEF TypeOK, BeginAttempt

(* A step that keeps the list of jobs well formed and returns a drain to   *)
(* its loop keeps the state well formed.                                   *)
LEMMA ReturnTypeOK ==
  ASSUME TypeOK, NEW d \in Drains,
         jobs' \in Seq(JobType), DOMAIN jobs \subseteq DOMAIN jobs',
         drain' = [drain EXCEPT ![d] = Returned(d)], now' = now
  PROVE  TypeOK'
  <1>1. DrainOK(drain[d], DOMAIN jobs)
    BY DEF TypeOK
  <1>3. \A state : DrainOK(state, DOMAIN jobs) => DrainOK(state, DOMAIN jobs')
    BY DEF DrainOK, IsBatch
  <1>4. DrainOK(Returned(d), DOMAIN jobs)
    BY <1>1 DEF DrainOK, IsBatch, Returned, Idle, EmptyBatch
  <1>5. QED
    BY <1>3, <1>4 DEF TypeOK

(* The fallback jobs of a job are job records. *)
LEMMA FallbackJobsType ==
  ASSUME TypeOK, NEW j \in DOMAIN jobs
  PROVE  FallbackJobs(j) \in Seq(JobType)
  <1> DEFINE channels == FallbackChannels(j)
  <1>1. jobs[j] \in JobType /\ j \in Nat /\ now \in Nat
    BY ElementOfSeq, LenProperties DEF TypeOK
  <1>2. channels \in Seq({"email", "sms"})
    <2>1. << >> \in Seq({"email", "sms"}) /\ <<"email">> \in Seq({"email", "sms"})
            /\ <<"sms">> \in Seq({"email", "sms"})
      OBVIOUS
    <2>2. QED
      BY <2>1, ConcatProperties DEF FallbackChannels
  <1>3. Len(channels) \in Nat /\ DOMAIN channels = 1..Len(channels)
    BY <1>2, LenProperties
  <1>4. ASSUME NEW k \in DOMAIN channels
        PROVE  NewJob(channels[k], {}, jobs[j].scheduledFor, jobs[j].maxAttempts, j) \in JobType
    <2>1. channels[k] \in {"email", "sms", "push"}
      BY <1>2, <1>3, <1>4, ElementOfSeq
    <2>2. jobs[j].scheduledFor \in Nat \cup {NotScheduled} /\ jobs[j].maxAttempts \in 1..10
      BY <1>1 DEF JobType
    <2> HIDE DEF channels
    <2>3. QED
      BY <1>1, <2>1, <2>2, NewJobType
  <1>5. FallbackJobs(j) \in [1..Len(channels) -> JobType]
    BY <1>3, <1>4 DEF FallbackJobs
  <1>6. QED
    BY <1>3, <1>5, SeqDef

(* Every action builds job records and drains of the right type.           *)
LEMMA NextTypeOK == TypeOK /\ [Next]_vars => TypeOK'
  <1> SUFFICES ASSUME TypeOK, [Next]_vars PROVE TypeOK'
    OBVIOUS
  <1>1. jobs \in Seq(JobType) /\ now \in Nat
    BY DEF TypeOK
  <1>2. ASSUME NEW j \in DOMAIN jobs
        PROVE  jobs[j] \in JobType /\ jobs[j].log \in Seq(LogEntries) /\ jobs[j].attempts \in Nat
    BY <1>1, JobFields
  <1>3. ASSUME NEW d \in Drains, drain[d].phase = "sending"
        PROVE  drain[d].job \in DOMAIN jobs /\ drain[d].attempt \in Nat
    BY <1>3 DEF TypeOK, DrainOK
  <1>4. ASSUME DOMAIN jobs \subseteq DOMAIN jobs', jobs' \in Seq(JobType),
               drain' = drain, now' \in Nat
        PROVE  TypeOK'
    BY <1>4 DEF TypeOK, DrainOK, IsBatch
  <1>5. ASSUME NEW r \in Requests, QueueNotification(r) PROVE TypeOK'
    <2> DEFINE scheduledFor == IF r.delay > 0 THEN now + r.delay ELSE NotScheduled
               job == NewJob(r.channel, r.fallback, scheduledFor, r.maxAttempts, NoParent)
    <2>1. r.channel \in {"email", "sms", "push"} /\ r.fallback \in SUBSET {"email", "sms"}
            /\ r.maxAttempts \in 1..10 /\ r.delay \in Nat
      BY ConstantsAssumption DEF RequestType
    <2>2. scheduledFor \in Nat \cup {NotScheduled}
      BY <1>1, <2>1
    <2>3. job \in JobType
      <3> HIDE DEF scheduledFor
      <3> QED
        BY <1>1, <2>1, <2>2, NewJobType DEF NoParent
    <2>4. jobs' = Append(jobs, job) /\ drain' = drain /\ now' = now
      BY <1>5 DEF QueueNotification
    <2> HIDE DEF job
    <2>5. jobs' \in Seq(JobType) /\ DOMAIN jobs \subseteq DOMAIN jobs'
      BY <1>1, <2>3, <2>4, AppendProperties, LenProperties
    <2>6. QED
      BY <1>1, <1>4, <2>4, <2>5
  <1>6. ASSUME NEW j \in DOMAIN jobs, RetryJob(j) PROVE TypeOK'
    <2> DEFINE log == Append(jobs[j].log, LogEntry("retry_requested", jobs[j].attempts))
               job == [jobs[j] EXCEPT !.status = "retrying", !.nextAttemptAt = now, !.log = log]
    <2>1. log \in Seq(LogEntries)
      BY <1>2, ExtendLog DEF Events
    <2>2. job \in JobType
      <3> HIDE DEF log
      <3> QED
        BY <1>1, <1>2, <2>1 DEF JobType, Statuses
    <2>3. jobs' = [jobs EXCEPT ![j] = job] /\ drain' = drain /\ now' = now
      BY <1>1, <1>6 DEF RetryJob, Retried
    <2> HIDE DEF job
    <2>4. QED
      BY <1>1, <1>4, <2>2, <2>3, ReplaceJob
  <1>7. ASSUME NEW d \in Drains, StartDrain(d) PROVE TypeOK'
    BY <1>7, ListDueType, BeginAttemptTypeOK DEF StartDrain, IsHead
  <1>8. ASSUME NEW d \in Drains, NextInBatch(d) PROVE TypeOK'
    <2>1. IsBatch(drain[d].batch, DOMAIN jobs)
      BY DEF TypeOK, DrainOK
    <2>2. QED
      BY <1>8, <2>1, BeginAttemptTypeOK DEF NextInBatch
  <1>9. ASSUME NEW d \in Drains, MarkSent(d) PROVE TypeOK'
    <2> DEFINE j == drain[d].job
               log == Append(jobs[j].log, LogEntry("attempt_succeeded", drain[d].attempt))
               job == [jobs[j] EXCEPT !.status = "sent", !.log = log]
    <2>1. j \in DOMAIN jobs /\ log \in Seq(LogEntries)
      BY <1>2, <1>3, <1>9, ExtendLog DEF MarkSent, Events, Outcomes
    <2>2. job \in JobType
      <3> HIDE DEF log, j
      <3> QED
        BY <1>2, <2>1 DEF JobType, Statuses
    <2>3. jobs' = [jobs EXCEPT ![j] = job]
      BY <1>1, <2>1, <1>9 DEF MarkSent
    <2> HIDE DEF job
    <2>4. jobs' \in Seq(JobType) /\ DOMAIN jobs \subseteq DOMAIN jobs'
      BY <1>1, <2>1, <2>2, <2>3, ReplaceJob
    <2>5. QED
      BY <1>9, <2>4, ReturnTypeOK DEF MarkSent
  <1>10. ASSUME NEW d \in Drains, QueuePushFallback(d) PROVE TypeOK'
    <2> DEFINE j == drain[d].job
               log == jobs[j].log \o FailureLog(d, "fallback_queued")
               job == [jobs[j] EXCEPT !.status = "failed", !.log = log]
    <2>1. j \in DOMAIN jobs /\ log \in Seq(LogEntries)
      BY <1>2, <1>3, <1>10, ExtendLog DEF QueuePushFallback, FailureLog, Events, Outcomes
    <2>2. job \in JobType
      <3> HIDE DEF log, j
      <3> QED
        BY <1>2, <2>1 DEF JobType, Statuses
    <2>3. jobs' = [jobs EXCEPT ![j] = job] \o FallbackJobs(j)
      BY <1>1, <2>1, <1>10 DEF QueuePushFallback
    <2>4. FallbackJobs(j) \in Seq(JobType)
      BY <2>1, FallbackJobsType
    <2> HIDE DEF job
    <2>5. jobs' \in Seq(JobType) /\ DOMAIN jobs \subseteq DOMAIN jobs'
      BY <1>1, <2>1, <2>2, <2>3, <2>4, ReplaceAndGrow
    <2>6. QED
      BY <1>10, <2>5, ReturnTypeOK DEF QueuePushFallback
  <1>11. ASSUME NEW d \in Drains, FailFinally(d) PROVE TypeOK'
    <2> DEFINE j == drain[d].job
               log == jobs[j].log \o FailureLog(d, "failed_final")
               job == [jobs[j] EXCEPT !.status = "failed", !.log = log]
    <2>1. j \in DOMAIN jobs /\ log \in Seq(LogEntries)
      BY <1>2, <1>3, <1>11, ExtendLog DEF FailFinally, FailureLog, Events, Outcomes
    <2>2. job \in JobType
      <3> HIDE DEF log, j
      <3> QED
        BY <1>2, <2>1 DEF JobType, Statuses
    <2>3. jobs' = [jobs EXCEPT ![j] = job]
      BY <1>1, <2>1, <1>11 DEF FailFinally
    <2> HIDE DEF job
    <2>4. jobs' \in Seq(JobType) /\ DOMAIN jobs \subseteq DOMAIN jobs'
      BY <1>1, <2>1, <2>2, <2>3, ReplaceJob
    <2>5. QED
      BY <1>11, <2>4, ReturnTypeOK DEF FailFinally
  <1>12. ASSUME NEW d \in Drains, ScheduleRetry(d) PROVE TypeOK'
    <2> DEFINE j == drain[d].job
               log == jobs[j].log \o FailureLog(d, "retry_scheduled")
               at == now + RetryDelay(drain[d].attempt)
               job == [jobs[j] EXCEPT !.status = "retrying", !.nextAttemptAt = at, !.log = log]
    <2>1. j \in DOMAIN jobs /\ log \in Seq(LogEntries)
      BY <1>2, <1>3, <1>12, ExtendLog DEF ScheduleRetry, FailureLog, Events, Outcomes
    <2>2. at \in Nat
      BY <1>1, RetryDelayType
    <2>3. job \in JobType
      <3> HIDE DEF log, j, at
      <3> QED
        BY <1>2, <2>1, <2>2 DEF JobType, Statuses
    <2>4. jobs' = [jobs EXCEPT ![j] = job]
      BY <1>1, <2>1, <1>12 DEF ScheduleRetry
    <2> HIDE DEF job
    <2>5. jobs' \in Seq(JobType) /\ DOMAIN jobs \subseteq DOMAIN jobs'
      BY <1>1, <2>1, <2>3, <2>4, ReplaceJob
    <2>6. QED
      BY <1>12, <2>5, ReturnTypeOK DEF ScheduleRetry
  <1>13. CASE Tick
    BY <1>1, <1>4, <1>13 DEF Tick
  <1>14. CASE UNCHANGED vars
    BY <1>1, <1>4, <1>14 DEF vars
  <1>15. QED
    BY <1>5, <1>6, <1>7, <1>8, <1>9, <1>10, <1>11, <1>12, <1>13, <1>14 DEF Next, Settle

(* Jobs and drains stay well formed, whatever drains and clients do, with  *)
(* any number of drains and for any requests and retry parameters.         *)
THEOREM TypeCorrect == Spec => []TypeOK
  BY InitTypeOK, NextTypeOK, PTL DEF Spec

-----------------------------------------------------------------------------
(* The budget.  BudgetOverrunBounded is not inductive: a drain may dispatch *)
(* a job long after it listed it.  The invariant counts those dispatches    *)
(* in advance: the attempts of a job and the drains that still hold it in   *)
(* their batch.  Listing a job needs budget, which leaves room for all      *)
(* drains; dispatching it turns a holder into an attempt.                   *)

Holders(j) == {d \in Drains : j \in DOMAIN drain[d].batch}

BudgetInv ==
  \A j \in DOMAIN jobs :
    jobs[j].attempts + Cardinality(Holders(j))
      <= jobs[j].maxAttempts + Cardinality(Drains) - 1

(* Counting the holders of a job, before and after a step. *)
LEMMA HoldersCount ==
  ASSUME NEW j
  PROVE  /\ Cardinality(Drains) \in Nat \ {0}
         /\ Cardinality(Holders(j)) \in 0..Cardinality(Drains)
         /\ Cardinality(Holders(j)') \in 0..Cardinality(Drains)
         /\ \A d \in Drains : d \notin Holders(j) =>
              Cardinality(Holders(j)) <= Cardinality(Drains) - 1
         /\ \A d \in Holders(j) :
              Cardinality(Holders(j) \ {d}) = Cardinality(Holders(j)) - 1
  <1>1. IsFiniteSet(Drains) /\ Cardinality(Drains) \in Nat \ {0}
    BY ConstantsAssumption, FS_CardinalityType, FS_EmptySet
  <1>2. /\ IsFiniteSet(Holders(j)) /\ Cardinality(Holders(j)) \in 0..Cardinality(Drains)
        /\ Cardinality(Holders(j)') \in 0..Cardinality(Drains)
    <2>1. Holders(j) \in SUBSET Drains /\ Holders(j)' \in SUBSET Drains
      BY DEF Holders
    <2>2. QED
      BY <1>1, <2>1, FS_Subset, FS_CardinalityType
  <1>3. ASSUME NEW d \in Drains, d \notin Holders(j)
        PROVE  Cardinality(Holders(j)) <= Cardinality(Drains) - 1
    <2>1. Holders(j) \in SUBSET (Drains \ {d})
      BY <1>3 DEF Holders
    <2>2. IsFiniteSet(Drains \ {d}) /\ Cardinality(Drains \ {d}) = Cardinality(Drains) - 1
      BY <1>1, FS_RemoveElement
    <2>3. QED
      BY <2>1, <2>2, FS_Subset
  <1>4. ASSUME NEW d \in Holders(j)
        PROVE  Cardinality(Holders(j) \ {d}) = Cardinality(Holders(j)) - 1
    BY <1>2, FS_RemoveElement
  <1>5. QED
    BY <1>1, <1>2, <1>3, <1>4

(* Steps that dispatch nothing. *)
LEMMA NoDispatchBudget ==
  ASSUME TypeOK, TypeOK', BudgetInv,
         \A i \in DOMAIN jobs : jobs'[i].attempts = jobs[i].attempts
                                  /\ jobs'[i].maxAttempts = jobs[i].maxAttempts,
         \A i \in DOMAIN jobs' \ DOMAIN jobs : jobs'[i].attempts = 0,
         \A d \in Drains : DOMAIN drain'[d].batch = DOMAIN drain[d].batch
  PROVE  BudgetInv'
  <1>1. \A i : Holders(i)' = Holders(i)
    BY DEF Holders
  <1>2. \A i \in DOMAIN jobs' : jobs'[i].maxAttempts \in 1..10
    BY JobFields DEF TypeOK
  <1>3. ASSUME NEW i \in DOMAIN jobs' \ DOMAIN jobs PROVE Holders(i) = {}
    BY <1>3 DEF Holders, TypeOK, DrainOK, IsBatch
  <1>4. ASSUME NEW i \in DOMAIN jobs'
        PROVE  jobs'[i].attempts + Cardinality(Holders(i)')
                 <= jobs'[i].maxAttempts + Cardinality(Drains) - 1
    <2>1. CASE i \in DOMAIN jobs
      BY <1>1, <2>1 DEF BudgetInv
    <2>2. CASE i \notin DOMAIN jobs
      <3>1. Cardinality(Holders(i)') = 0
        BY <1>1, <1>3, <2>2, FS_EmptySet
      <3>2. jobs'[i].attempts = 0 /\ jobs'[i].maxAttempts \in 1..10
              /\ Cardinality(Drains) \in Nat \ {0}
        BY <1>2, <1>4, <2>2, HoldersCount
      <3>3. QED
        BY <3>1, <3>2
    <2>3. QED
      BY <2>1, <2>2
  <1>5. QED
    BY <1>4 DEF BudgetInv

(* Dispatching the head of a batch, just listed or listed earlier. *)
LEMMA BeginAttemptBudget ==
  ASSUME TypeOK, BudgetInv, NEW d \in Drains, NEW batch, IsBatch(batch, DOMAIN jobs),
         NEW j \in DOMAIN batch, BeginAttempt(d, j, batch),
         \/ batch = drain[d].batch
         \/ /\ DOMAIN drain[d].batch = {}
            /\ \A i \in DOMAIN batch : jobs[i].attempts < jobs[i].maxAttempts
  PROVE  BudgetInv'
  <1>1. DOMAIN jobs' = DOMAIN jobs
    BY BeginAttemptTypeOK
  <1>2. \A i \in DOMAIN jobs : jobs[i].attempts \in Nat /\ jobs[i].maxAttempts \in 1..10
    BY JobFields DEF TypeOK
  <1>3. \A i \in DOMAIN jobs :
          /\ jobs'[i].maxAttempts = jobs[i].maxAttempts
          /\ jobs'[i].attempts = IF i = j THEN jobs[i].attempts + 1 ELSE jobs[i].attempts
    <2>1. j \in DOMAIN jobs /\ jobs[j] \in JobType
      BY ElementOfSeq, LenProperties DEF TypeOK, IsBatch
    <2>2. QED
      BY <2>1 DEF BeginAttempt, Started, NextAttempt, JobType
  <1>4. \A e \in Drains : drain'[e].batch = IF e = d THEN Rest(j, batch) ELSE drain[e].batch
    BY DEF BeginAttempt, TypeOK
  <1>5. DOMAIN Rest(j, batch) = DOMAIN batch \ {j}
    BY RestType
  <1>6. ASSUME NEW i \in DOMAIN jobs
        PROVE  jobs'[i].attempts + Cardinality(Holders(i)')
                 <= jobs'[i].maxAttempts + Cardinality(Drains) - 1
    <2>1. jobs[i].attempts + Cardinality(Holders(i))
            <= jobs[i].maxAttempts + Cardinality(Drains) - 1
      BY DEF BudgetInv
    <2>2. CASE batch = drain[d].batch
      <3>1. CASE i = j
        <4>1. Holders(i)' = Holders(i) \ {d} /\ d \in Holders(i)
          BY <1>4, <1>5, <2>2, <3>1 DEF Holders
        <4>2. QED
          BY <1>2, <1>3, <2>1, <3>1, <4>1, HoldersCount
      <3>2. CASE i # j
        <4>1. Holders(i)' = Holders(i)
          BY <1>4, <1>5, <2>2, <3>2 DEF Holders
        <4>2. QED
          BY <1>3, <2>1, <3>2, <4>1
      <3>3. QED
        BY <3>1, <3>2
    <2>3. CASE /\ DOMAIN drain[d].batch = {}
               /\ \A k \in DOMAIN batch : jobs[k].attempts < jobs[k].maxAttempts
      <3>1. CASE i = j
        <4>1. Holders(i)' = Holders(i) /\ d \notin Holders(i)
          BY <1>4, <1>5, <2>3, <3>1 DEF Holders
        <4>2. jobs[i].attempts < jobs[i].maxAttempts
          BY <2>3, <3>1
        <4>3. QED
          BY <1>2, <1>3, <3>1, <4>1, <4>2, HoldersCount
      <3>2. CASE i # j /\ i \in DOMAIN batch
        <4>1. jobs[i].attempts < jobs[i].maxAttempts
          BY <2>3, <3>2
        <4>2. QED
          BY <1>2, <1>3, <3>2, <4>1, HoldersCount
      <3>3. CASE i # j /\ i \notin DOMAIN batch
        <4>1. Holders(i)' = Holders(i)
          BY <1>4, <1>5, <2>3, <3>3 DEF Holders
        <4>2. QED
          BY <1>3, <2>1, <3>3, <4>1
      <3>4. QED
        BY <3>1, <3>2, <3>3
    <2>4. QED
      BY <2>2, <2>3
  <1>7. QED
    BY <1>1, <1>6 DEF BudgetInv

(* Every action keeps the inductive invariant.                             *)
LEMMA NextBudget == TypeOK /\ TypeOK' /\ BudgetInv /\ [Next]_vars => BudgetInv'
  <1> SUFFICES ASSUME TypeOK, TypeOK', BudgetInv, [Next]_vars PROVE BudgetInv'
    OBVIOUS
  <1>1. jobs \in Seq(JobType)
    BY DEF TypeOK
  <1>2. ASSUME NEW d \in Drains, drain[d].phase = "sending"
        PROVE  drain[d].job \in DOMAIN jobs
    BY <1>2 DEF TypeOK, DrainOK
  <1>3. ASSUME NEW r \in Requests, QueueNotification(r) PROVE BudgetInv'
    <2> DEFINE job(s) == NewJob(r.channel, r.fallback, s, r.maxAttempts, NoParent)
    <2>1. PICK s : jobs' = Append(jobs, job(s))
      BY <1>3 DEF QueueNotification
    <2>2. job(s).attempts = 0
      BY DEF NewJob
    <2> HIDE DEF job
    <2>3. Len(jobs) \in Nat /\ DOMAIN jobs = 1..Len(jobs)
            /\ DOMAIN Append(jobs, job(s)) = 1..(Len(jobs) + 1)
            /\ \A i \in 1..Len(jobs) : Append(jobs, job(s))[i] = jobs[i]
            /\ Append(jobs, job(s))[Len(jobs) + 1] = job(s)
      BY <1>1, LenProperties
    <2>4. /\ \A i \in DOMAIN jobs : jobs'[i] = jobs[i]
          /\ \A i \in DOMAIN jobs' \ DOMAIN jobs : jobs'[i].attempts = 0
      BY <2>1, <2>2, <2>3
    <2>5. QED
      BY <1>3, <2>4, NoDispatchBudget DEF QueueNotification
  <1>4. ASSUME NEW j \in DOMAIN jobs, RetryJob(j) PROVE BudgetInv'
    <2> DEFINE log == Append(jobs[j].log, LogEntry("retry_requested", jobs[j].attempts))
               job == [jobs[j] EXCEPT !.status = "retrying", !.nextAttemptAt = now, !.log = log]
    <2>1. jobs' = [jobs EXCEPT ![j] = job]
      BY <1>1, <1>4 DEF RetryJob, Retried
    <2>2. job.attempts = jobs[j].attempts /\ job.maxAttempts = jobs[j].maxAttempts
      <3> HIDE DEF log
      <3> QED
        BY <1>1, JobFields DEF JobType
    <2> HIDE DEF job
    <2>3. /\ DOMAIN jobs' = DOMAIN jobs
          /\ \A i \in DOMAIN jobs : jobs'[i].attempts = jobs[i].attempts
                                      /\ jobs'[i].maxAttempts = jobs[i].maxAttempts
      BY <2>1, <2>2
    <2>4. QED
      BY <1>4, <2>3, NoDispatchBudget DEF RetryJob
  <1>5. ASSUME NEW d \in Drains, StartDrain(d) PROVE BudgetInv'
    <2>1. DOMAIN drain[d].batch = {}
      BY <1>5 DEF StartDrain, TypeOK, DrainOK
    <2>2. \A i \in DOMAIN ListDue : jobs[i].attempts < jobs[i].maxAttempts
      BY ListDueType DEF DueJobs, Due, BudgetLeft
    <2>3. QED
      BY <1>5, <2>1, <2>2, ListDueType, BeginAttemptBudget DEF StartDrain, IsHead
  <1>6. ASSUME NEW d \in Drains, NextInBatch(d) PROVE BudgetInv'
    <2>1. IsBatch(drain[d].batch, DOMAIN jobs)
      BY DEF TypeOK, DrainOK
    <2>2. QED
      BY <1>6, <2>1, BeginAttemptBudget DEF NextInBatch
  <1>7. ASSUME NEW d \in Drains, drain' = [drain EXCEPT ![d] = Returned(d)]
        PROVE  \A e \in Drains : DOMAIN drain'[e].batch = DOMAIN drain[e].batch
    BY <1>7 DEF TypeOK, Returned, Idle, EmptyBatch
  <1>8. ASSUME NEW d \in Drains, MarkSent(d) \/ FailFinally(d) \/ ScheduleRetry(d)
        PROVE  BudgetInv'
    <2>1. drain[d].job \in DOMAIN jobs /\ jobs[drain[d].job] \in JobType
      BY <1>1, <1>2, <1>8, JobFields DEF MarkSent, FailFinally, ScheduleRetry
    <2>2. /\ DOMAIN jobs' = DOMAIN jobs
          /\ \A i \in DOMAIN jobs : jobs'[i].attempts = jobs[i].attempts
                                      /\ jobs'[i].maxAttempts = jobs[i].maxAttempts
      <3>1. CASE MarkSent(d)
        BY <2>1, <3>1 DEF MarkSent, JobType
      <3>2. CASE FailFinally(d)
        BY <2>1, <3>2 DEF FailFinally, JobType
      <3>3. CASE ScheduleRetry(d)
        BY <2>1, <3>3 DEF ScheduleRetry, JobType
      <3>4. QED
        BY <1>8, <3>1, <3>2, <3>3
    <2>3. drain' = [drain EXCEPT ![d] = Returned(d)]
      BY <1>8 DEF MarkSent, FailFinally, ScheduleRetry
    <2>4. QED
      BY <1>7, <2>2, <2>3, NoDispatchBudget
  <1>9. ASSUME NEW d \in Drains, QueuePushFallback(d) PROVE BudgetInv'
    <2> DEFINE j == drain[d].job
               log == jobs[j].log \o FailureLog(d, "fallback_queued")
               job == [jobs[j] EXCEPT !.status = "failed", !.log = log]
    <2>1. j \in DOMAIN jobs /\ jobs[j] \in JobType /\ FallbackJobs(j) \in Seq(JobType)
      BY <1>1, <1>2, <1>9, JobFields, FallbackJobsType DEF QueuePushFallback
    <2>2. log \in Seq(LogEntries)
      BY <1>1, <1>9, <2>1, JobFields, ExtendLog
      DEF QueuePushFallback, FailureLog, Events, Outcomes, TypeOK, DrainOK
    <2>3. jobs' = [jobs EXCEPT ![j] = job] \o FallbackJobs(j)
      BY <1>1, <2>1, <1>9 DEF QueuePushFallback
    <2>4. job \in JobType /\ job.attempts = jobs[j].attempts /\ job.maxAttempts = jobs[j].maxAttempts
      <3> HIDE DEF log, j
      <3> QED
        BY <2>1, <2>2 DEF JobType, Statuses
    <2>5. \A k \in DOMAIN FallbackJobs(j) : FallbackJobs(j)[k].attempts = 0
      BY DEF FallbackJobs, NewJob
    <2> HIDE DEF job, j
    <2>6. /\ \A i \in DOMAIN jobs : jobs'[i] = IF i = j THEN job ELSE jobs[i]
          /\ \A i \in DOMAIN jobs' \ DOMAIN jobs :
               \E k \in DOMAIN FallbackJobs(j) : jobs'[i] = FallbackJobs(j)[k]
      BY <1>1, <2>1, <2>3, <2>4, ReplaceAndGrow
    <2>7. /\ \A i \in DOMAIN jobs : jobs'[i].attempts = jobs[i].attempts
                                      /\ jobs'[i].maxAttempts = jobs[i].maxAttempts
          /\ \A i \in DOMAIN jobs' \ DOMAIN jobs : jobs'[i].attempts = 0
      BY <2>4, <2>5, <2>6
    <2>8. QED
      BY <1>7, <1>9, <2>7, NoDispatchBudget DEF QueuePushFallback
  <1>10. CASE Tick
    BY <1>10, NoDispatchBudget DEF Tick
  <1>11. CASE UNCHANGED vars
    BY <1>11, NoDispatchBudget DEF vars
  <1>12. QED
    BY <1>3, <1>4, <1>5, <1>6, <1>8, <1>9, <1>10, <1>11 DEF Next, Settle

LEMMA HeldJobsAreCounted == TypeOK /\ BudgetInv => BudgetOverrunBounded
  <1> SUFFICES ASSUME TypeOK, BudgetInv, NEW j \in DOMAIN jobs
               PROVE  jobs[j].attempts <= jobs[j].maxAttempts + Cardinality(Drains) - 1
    BY DEF BudgetOverrunBounded, Allowance
  <1>1. jobs[j].attempts \in Nat /\ jobs[j].maxAttempts \in 1..10
    BY JobFields DEF TypeOK
  <1>2. QED
    BY <1>1, HoldersCount DEF BudgetInv

(* A job exceeds maxAttempts by at most one attempt per further drain, for *)
(* any number of drains, batches, jobs and manual retries.                 *)
THEOREM OverrunBounded == Spec => []BudgetOverrunBounded
  <1>1. Init => BudgetInv
    BY DEF Init, BudgetInv
  <1>2. QED
    BY <1>1, HeldJobsAreCounted, TypeCorrect, NextBudget, PTL DEF Spec

(* With one drain at a time no job is tried more than maxAttempts times.   *)
THEOREM SingleDrainKeepsBudget ==
  ASSUME Cardinality(Drains) = 1
  PROVE  Spec => []BudgetRespected
  <1>1. TypeOK /\ BudgetOverrunBounded => BudgetRespected
    <2> SUFFICES ASSUME TypeOK, BudgetOverrunBounded, NEW j \in DOMAIN jobs
                 PROVE  jobs[j].attempts <= jobs[j].maxAttempts
      BY DEF BudgetRespected
    <2>1. jobs[j].attempts \in Nat /\ jobs[j].maxAttempts \in 1..10
      BY JobFields DEF TypeOK
    <2>2. QED
      BY <2>1 DEF BudgetOverrunBounded, Allowance
  <1>2. QED
    BY <1>1, TypeCorrect, OverrunBounded, PTL

-----------------------------------------------------------------------------
(* What a step does to a job.  Its budget stays, its attempts grow by at    *)
(* most one, its audit log is only extended; it is processing after the     *)
(* step because an attempt at it is in flight, or because it was left alone *)
(* together with the attempts at it.  New jobs are queued and unattempted.  *)

Extends(log, longer) ==
  Len(log) <= Len(longer) /\ \A p \in 1..Len(log) : longer[p] = log[p]

Kept(job, after) ==
  /\ after.maxAttempts = job.maxAttempts
  /\ after.attempts \in {job.attempts, job.attempts + 1}
  /\ Extends(job.log, after.log)

LeftAlone(j) ==
  /\ jobs'[j] = jobs[j]
  /\ \A d \in Drains : InFlight(d, j, jobs[j].attempts) => InFlight(d, j, jobs[j].attempts)'

JobsMove ==
  /\ \A j \in DOMAIN jobs :
       /\ j \in DOMAIN jobs' /\ Kept(jobs[j], jobs'[j])
       /\ \/ jobs'[j].status # "processing"
          \/ \E d \in Drains : InFlight(d, j, jobs[j].attempts)'
          \/ LeftAlone(j)
  /\ \A j \in DOMAIN jobs' \ DOMAIN jobs : jobs'[j].attempts = 0 /\ jobs'[j].status = "queued"

(* Appending extends a log. *)
LEMMA LogExtends ==
  ASSUME NEW log \in Seq(LogEntries), NEW more \in Seq(LogEntries), NEW e
  PROVE  Extends(log, log) /\ Extends(log, Append(log, e)) /\ Extends(log, log \o more)
  <1>1. Len(log) \in Nat /\ Len(more) \in Nat
    BY LenProperties
  <1>2. Extends(log, log) /\ Extends(log, Append(log, e))
    BY <1>1 DEF Extends
  <1>3. Extends(log, log \o more)
    BY <1>1, ConcatProperties DEF Extends
  <1>4. QED
    BY <1>2, <1>3

(* A step that replaces one job, adds new ones and disturbs no attempt at  *)
(* another job.                                                            *)
LEMMA OneJobMoves ==
  ASSUME jobs \in Seq(JobType), NEW j \in DOMAIN jobs, NEW r,
         DOMAIN jobs \subseteq DOMAIN jobs',
         \A i \in DOMAIN jobs : jobs'[i] = IF i = j THEN r ELSE jobs[i],
         \A i \in DOMAIN jobs' \ DOMAIN jobs : jobs'[i].attempts = 0 /\ jobs'[i].status = "queued",
         Kept(jobs[j], r),
         \/ r.status # "processing"
         \/ \E d \in Drains : drain'[d].phase = "sending" /\ drain'[d].job = j
                             /\ drain'[d].attempt = r.attempts,
         \A d \in Drains, i \in DOMAIN jobs :
           i # j /\ InFlight(d, i, jobs[i].attempts) => InFlight(d, i, jobs[i].attempts)'
  PROVE  JobsMove
  <1>1. ASSUME NEW i \in DOMAIN jobs, i # j
        PROVE  Kept(jobs[i], jobs'[i]) /\ LeftAlone(i)
    <2>1. jobs'[i] = jobs[i]
      BY <1>1
    <2>2. Kept(jobs[i], jobs[i])
      BY JobFields, LenProperties DEF Kept, Extends
    <2>3. LeftAlone(i)
      BY <1>1, <2>1 DEF LeftAlone
    <2>4. QED
      BY <2>1, <2>2, <2>3
  <1>2. /\ jobs'[j] = r
        /\ r.status # "processing" \/ \E d \in Drains : InFlight(d, j, jobs[j].attempts)'
    BY DEF InFlight
  <1>3. QED
    BY <1>1, <1>2 DEF JobsMove

(* A step that leaves the jobs and the drains alone, or only adds jobs. *)
LEMMA NoJobMoves ==
  ASSUME jobs \in Seq(JobType), DOMAIN jobs \subseteq DOMAIN jobs', drain' = drain,
         \A i \in DOMAIN jobs : jobs'[i] = jobs[i],
         \A i \in DOMAIN jobs' \ DOMAIN jobs : jobs'[i].attempts = 0 /\ jobs'[i].status = "queued"
  PROVE  JobsMove
  <1>1. ASSUME NEW i \in DOMAIN jobs
        PROVE  Kept(jobs[i], jobs'[i]) /\ LeftAlone(i)
    <2>1. Kept(jobs[i], jobs[i])
      BY JobFields, LenProperties DEF Kept, Extends
    <2>2. QED
      BY <2>1 DEF LeftAlone, InFlight
  <1>2. QED
    BY <1>1 DEF JobsMove

(* Dispatching a job: its attempt is in flight afterwards. *)
LEMMA BeginAttemptMoves ==
  ASSUME TypeOK, NEW d \in Drains, drain[d].phase # "sending", NEW batch,
         IsBatch(batch, DOMAIN jobs), NEW j \in DOMAIN batch, BeginAttempt(d, j, batch)
  PROVE  JobsMove
  <1> DEFINE log == Append(jobs[j].log, LogEntry("attempt_started", NextAttempt(j)))
             job == [jobs[j] EXCEPT !.status = "processing", !.attempts = NextAttempt(j),
                                    !.log = log]
  <1>1. jobs \in Seq(JobType) /\ j \in DOMAIN jobs /\ jobs[j] \in JobType
          /\ jobs[j].log \in Seq(LogEntries)
    BY JobFields DEF TypeOK, IsBatch
  <1>2. jobs' = [jobs EXCEPT ![j] = job]
    BY <1>1 DEF BeginAttempt, Started
  <1>3. Extends(jobs[j].log, log)
    BY <1>1, LogExtends
  <1>4. Kept(jobs[j], job) /\ job.attempts = NextAttempt(j)
    <2> HIDE DEF log
    <2> QED
      BY <1>1, <1>3 DEF Kept, NextAttempt, JobType
  <1> HIDE DEF job
  <1>5. drain'[d].phase = "sending" /\ drain'[d].job = j /\ drain'[d].attempt = NextAttempt(j)
          /\ \A e \in Drains : e # d => drain'[e] = drain[e]
    BY DEF BeginAttempt, TypeOK
  <1>6. drain'[d].phase = "sending" /\ drain'[d].job = j /\ drain'[d].attempt = job.attempts
    BY <1>4, <1>5
  <1>7. \A e \in Drains, i \in DOMAIN jobs :
          i # j /\ InFlight(e, i, jobs[i].attempts) => InFlight(e, i, jobs[i].attempts)'
    <2> SUFFICES ASSUME NEW e \in Drains, NEW i \in DOMAIN jobs, i # j,
                        InFlight(e, i, jobs[i].attempts)
                 PROVE  InFlight(e, i, jobs[i].attempts)'
      OBVIOUS
    <2>1. e # d /\ jobs'[i] = jobs[i]
      BY <1>1, <1>2 DEF InFlight
    <2>2. drain'[e] = drain[e]
      BY <1>5, <2>1
    <2>3. QED
      BY <2>1, <2>2 DEF InFlight
  <1>8. QED
    BY <1>1, <1>2, <1>4, <1>6, <1>7, OneJobMoves

(* A drain gets its answer: the job it waits for is not processing, and    *)
(* the other drains wait on.                                               *)
LEMMA SettleMoves ==
  ASSUME jobs \in Seq(JobType), NEW d \in Drains, drain = [e \in Drains |-> drain[e]],
         NEW j \in DOMAIN jobs, j = drain[d].job,
         drain' = [drain EXCEPT ![d] = Returned(d)], NEW r,
         DOMAIN jobs \subseteq DOMAIN jobs',
         \A i \in DOMAIN jobs : jobs'[i] = IF i = j THEN r ELSE jobs[i],
         \A i \in DOMAIN jobs' \ DOMAIN jobs : jobs'[i].attempts = 0 /\ jobs'[i].status = "queued",
         Kept(jobs[j], r), r.status # "processing"
  PROVE  JobsMove
  <1>1. ASSUME NEW e \in Drains, NEW i \in DOMAIN jobs, i # j, InFlight(e, i, jobs[i].attempts)
        PROVE  InFlight(e, i, jobs[i].attempts)'
    <2>1. e # d /\ jobs'[i] = jobs[i]
      BY <1>1 DEF InFlight
    <2>2. drain'[e] = drain[e]
      BY <2>1
    <2>3. QED
      BY <1>1, <2>1, <2>2 DEF InFlight
  <1>2. QED
    BY <1>1, OneJobMoves, ZenonT(60)

LEMMA NextMoves == TypeOK /\ [Next]_vars => JobsMove
  <1> SUFFICES ASSUME TypeOK, [Next]_vars PROVE JobsMove
    OBVIOUS
  <1>1. jobs \in Seq(JobType) /\ drain = [e \in Drains |-> drain[e]]
    BY DEF TypeOK
  <1>2. ASSUME NEW d \in Drains, drain[d].phase = "sending"
        PROVE  drain[d].job \in DOMAIN jobs /\ drain[d].attempt \in Nat
    BY <1>2 DEF TypeOK, DrainOK
  <1>3. ASSUME NEW r \in Requests, QueueNotification(r) PROVE JobsMove
    <2> DEFINE job(s) == NewJob(r.channel, r.fallback, s, r.maxAttempts, NoParent)
    <2>1. PICK s : jobs' = Append(jobs, job(s))
      BY <1>3 DEF QueueNotification
    <2>2. job(s).attempts = 0 /\ job(s).status = "queued"
      BY DEF NewJob
    <2> HIDE DEF job
    <2>3. /\ DOMAIN jobs \subseteq DOMAIN jobs'
          /\ \A i \in DOMAIN jobs : jobs'[i] = jobs[i]
          /\ \A i \in DOMAIN jobs' \ DOMAIN jobs : jobs'[i] = job(s)
      <3>1. Len(jobs) \in Nat /\ DOMAIN jobs = 1..Len(jobs)
              /\ DOMAIN Append(jobs, job(s)) = 1..(Len(jobs) + 1)
              /\ \A i \in 1..Len(jobs) : Append(jobs, job(s))[i] = jobs[i]
              /\ Append(jobs, job(s))[Len(jobs) + 1] = job(s)
        BY <1>1, LenProperties
      <3>2. QED
        BY <2>1, <3>1
    <2>4. QED
      BY <1>1, <1>3, <2>2, <2>3, NoJobMoves DEF QueueNotification
  <1>4. ASSUME NEW j \in DOMAIN jobs, RetryJob(j) PROVE JobsMove
    <2> DEFINE log == Append(jobs[j].log, LogEntry("retry_requested", jobs[j].attempts))
               job == [jobs[j] EXCEPT !.status = "retrying", !.nextAttemptAt = now, !.log = log]
    <2>1. jobs[j] \in JobType /\ Extends(jobs[j].log, log)
      BY <1>1, JobFields, LogExtends
    <2>2. jobs' = [jobs EXCEPT ![j] = job] /\ drain' = drain
      BY <1>1, <1>4 DEF RetryJob, Retried
    <2>3. Kept(jobs[j], job) /\ job.status = "retrying"
      <3> HIDE DEF log
      <3> QED
        BY <2>1 DEF Kept, JobType
    <2> HIDE DEF job
    <2>4. \A d \in Drains, i \in DOMAIN jobs :
            i # j /\ InFlight(d, i, jobs[i].attempts) => InFlight(d, i, jobs[i].attempts)'
      BY <1>1, <2>2 DEF InFlight
    <2>5. QED
      BY <1>1, <2>2, <2>3, <2>4, OneJobMoves
  <1>5. ASSUME NEW d \in Drains, StartDrain(d) PROVE JobsMove
    BY <1>5, ListDueType, BeginAttemptMoves DEF StartDrain, IsHead
  <1>6. ASSUME NEW d \in Drains, NextInBatch(d) PROVE JobsMove
    <2>1. IsBatch(drain[d].batch, DOMAIN jobs)
      BY DEF TypeOK, DrainOK
    <2>2. QED
      BY <1>6, <2>1, BeginAttemptMoves DEF NextInBatch
  <1>7. ASSUME NEW d \in Drains, MarkSent(d) PROVE JobsMove
    <2> DEFINE j == drain[d].job
               log == Append(jobs[j].log, LogEntry("attempt_succeeded", drain[d].attempt))
               job == [jobs[j] EXCEPT !.status = "sent", !.log = log]
    <2>1. j \in DOMAIN jobs /\ jobs[j] \in JobType
      BY <1>1, <1>2, <1>7, JobFields DEF MarkSent
    <2>2. Extends(jobs[j].log, log)
      BY <1>1, <2>1, JobFields, LogExtends
    <2>3. jobs' = [jobs EXCEPT ![j] = job] /\ drain' = [drain EXCEPT ![d] = Returned(d)]
      BY <1>1, <2>1, <1>7 DEF MarkSent
    <2>4. Kept(jobs[j], job) /\ job.status = "sent"
      <3> HIDE DEF log, j
      <3> QED
        BY <2>1, <2>2 DEF Kept, JobType
    <2> HIDE DEF job, j
    <2>5. QED
      BY <1>1, <2>1, <2>3, <2>4, SettleMoves DEF j
  <1>8. ASSUME NEW d \in Drains, QueuePushFallback(d) PROVE JobsMove
    <2> DEFINE j == drain[d].job
               log == jobs[j].log \o FailureLog(d, "fallback_queued")
               job == [jobs[j] EXCEPT !.status = "failed", !.log = log]
    <2>1. j \in DOMAIN jobs /\ jobs[j] \in JobType /\ FallbackJobs(j) \in Seq(JobType)
      BY <1>1, <1>2, <1>8, JobFields, FallbackJobsType DEF QueuePushFallback
    <2>2. log \in Seq(LogEntries) /\ Extends(jobs[j].log, log)
      <3>1. << >> \o FailureLog(d, "fallback_queued") \in Seq(LogEntries)
              /\ FailureLog(d, "fallback_queued") \in Seq(LogEntries)
        <4> DEFINE n == drain[d].attempt
                   failed == LogEntry("attempt_failed", n)
                   queued == LogEntry("fallback_queued", n)
        <4>1. n \in Nat
          BY <1>2, <1>8 DEF QueuePushFallback
        <4>2. "attempt_failed" \in Events /\ "fallback_queued" \in Events
          BY DEF Events, Outcomes
        <4>3. FailureLog(d, "fallback_queued") = <<failed, queued>>
          BY Zenon DEF FailureLog
        <4> HIDE DEF n
        <4>4. failed \in LogEntries /\ queued \in LogEntries
          BY <4>1, <4>2 DEF LogEntry, LogEntries
        <4> HIDE DEF failed, queued
        <4>5. << >> \o <<failed, queued>> = <<failed, queued>>
                /\ <<failed, queued>> \in Seq(LogEntries)
          BY <4>4
        <4> QED
          BY <4>3, <4>5
      <3>2. QED
        BY <1>1, <2>1, <3>1, JobFields, LogExtends, ConcatProperties
    <2>3. jobs' = [jobs EXCEPT ![j] = job] \o FallbackJobs(j)
            /\ drain' = [drain EXCEPT ![d] = Returned(d)]
      BY <1>1, <2>1, <1>8 DEF QueuePushFallback
    <2>4. job \in JobType /\ Kept(jobs[j], job) /\ job.status = "failed"
      <3> HIDE DEF log, j
      <3> QED
        BY <2>1, <2>2 DEF Kept, JobType, Statuses
    <2>5. \A k \in DOMAIN FallbackJobs(j) :
            FallbackJobs(j)[k].attempts = 0 /\ FallbackJobs(j)[k].status = "queued"
      BY DEF FallbackJobs, NewJob
    <2> HIDE DEF job, j
    <2>6. /\ DOMAIN jobs \subseteq DOMAIN jobs'
          /\ \A i \in DOMAIN jobs : jobs'[i] = IF i = j THEN job ELSE jobs[i]
          /\ \A i \in DOMAIN jobs' \ DOMAIN jobs :
               \E k \in DOMAIN FallbackJobs(j) : jobs'[i] = FallbackJobs(j)[k]
      BY <1>1, <2>1, <2>3, <2>4, ReplaceAndGrow
    <2>7. \A i \in DOMAIN jobs' \ DOMAIN jobs : jobs'[i].attempts = 0 /\ jobs'[i].status = "queued"
      BY <2>5, <2>6
    <2>8. QED
      BY <1>1, <2>1, <2>3, <2>4, <2>6, <2>7, SettleMoves DEF j
  <1>9. ASSUME NEW d \in Drains, NEW e \in {"failed_final", "retry_scheduled"},
               drain[d].phase = "sending"
        PROVE  Extends(jobs[drain[d].job].log, jobs[drain[d].job].log \o FailureLog(d, e))
    <2>1. FailureLog(d, e) \in Seq(LogEntries)
      BY <1>2, <1>9 DEF FailureLog, LogEntry, LogEntries, Events, Outcomes
    <2>2. QED
      BY <1>1, <1>2, <1>9, <2>1, JobFields, LogExtends
  <1>10. ASSUME NEW d \in Drains, FailFinally(d) PROVE JobsMove
    <2> DEFINE j == drain[d].job
               log == jobs[j].log \o FailureLog(d, "failed_final")
               job == [jobs[j] EXCEPT !.status = "failed", !.log = log]
    <2>1. j \in DOMAIN jobs /\ jobs[j] \in JobType /\ Extends(jobs[j].log, log)
      BY <1>1, <1>2, <1>9, <1>10, JobFields DEF FailFinally
    <2>2. jobs' = [jobs EXCEPT ![j] = job] /\ drain' = [drain EXCEPT ![d] = Returned(d)]
      BY <1>1, <2>1, <1>10 DEF FailFinally
    <2>3. Kept(jobs[j], job) /\ job.status = "failed"
      <3> HIDE DEF log, j
      <3> QED
        BY <2>1 DEF Kept, JobType
    <2> HIDE DEF job, j
    <2>4. QED
      BY <1>1, <2>1, <2>2, <2>3, SettleMoves DEF j
  <1>11. ASSUME NEW d \in Drains, ScheduleRetry(d) PROVE JobsMove
    <2> DEFINE j == drain[d].job
               log == jobs[j].log \o FailureLog(d, "retry_scheduled")
               at == now + RetryDelay(drain[d].attempt)
               job == [jobs[j] EXCEPT !.status = "retrying", !.nextAttemptAt = at, !.log = log]
    <2>1. j \in DOMAIN jobs /\ jobs[j] \in JobType /\ Extends(jobs[j].log, log)
      BY <1>1, <1>2, <1>9, <1>11, JobFields DEF ScheduleRetry
    <2>2. jobs' = [jobs EXCEPT ![j] = job] /\ drain' = [drain EXCEPT ![d] = Returned(d)]
      BY <1>1, <2>1, <1>11 DEF ScheduleRetry
    <2>3. Kept(jobs[j], job) /\ job.status = "retrying"
      <3> HIDE DEF log, j, at
      <3> QED
        BY <2>1 DEF Kept, JobType
    <2> HIDE DEF job, j
    <2>4. QED
      BY <1>1, <2>1, <2>2, <2>3, SettleMoves DEF j
  <1>12. CASE Tick
    BY <1>1, <1>12, NoJobMoves DEF Tick
  <1>13. CASE UNCHANGED vars
    BY <1>1, <1>13, NoJobMoves DEF vars
  <1>14. QED
    BY <1>3, <1>4, <1>5, <1>6, <1>7, <1>8, <1>10, <1>11, <1>12, <1>13 DEF Next, Settle

(* While the process runs, a job shown as processing has its latest attempt *)
(* in flight, whatever drains and manual retries overlap.                   *)
THEOREM ProcessingHasItsAttempt == Spec => []ProcessingIsInFlight
  <1>1. Init => ProcessingIsInFlight
    BY DEF Init, ProcessingIsInFlight
  <1>2. ProcessingIsInFlight /\ TypeOK /\ [Next]_vars => ProcessingIsInFlight'
    <2> SUFFICES ASSUME ProcessingIsInFlight, TypeOK, [Next]_vars,
                        NEW j \in DOMAIN jobs', jobs'[j].status = "processing"
                 PROVE  \E d \in Drains : InFlight(d, j, jobs[j].attempts)'
      BY DEF ProcessingIsInFlight
    <2>1. JobsMove
      BY NextMoves
    <2>2. j \in DOMAIN jobs
      BY <2>1 DEF JobsMove
    <2>3. CASE LeftAlone(j)
      BY <2>2, <2>3 DEF LeftAlone, ProcessingIsInFlight
    <2>4. QED
      BY <2>1, <2>2, <2>3 DEF JobsMove
  <1>3. QED
    BY <1>1, <1>2, TypeCorrect, PTL DEF Spec

-----------------------------------------------------------------------------
(* Jobs that wait.  With one drain an answer is always about the latest     *)
(* attempt of the job, so that the test for the last attempt in             *)
(* markAttemptFailure is about the budget of the job as it is.              *)

AnswersAreCurrent ==
  \A d \in Drains : drain[d].phase = "sending" => drain[d].attempt = jobs[drain[d].job].attempts

(* A step that replaces one job and adds unattempted ones. *)
LEMMA OneJobWaits ==
  ASSUME TypeOK, TypeOK', NoStrandedJob, NEW j, NEW r,
         \A i \in DOMAIN jobs : jobs'[i] = IF i = j THEN r ELSE jobs[i],
         \A i \in DOMAIN jobs' \ DOMAIN jobs : jobs'[i].attempts = 0,
         r.status \in {"queued", "retrying"} => r.attempts < r.maxAttempts
  PROVE  NoStrandedJob'
  <1> SUFFICES ASSUME NEW i \in DOMAIN jobs', jobs'[i].status \in {"queued", "retrying"}
               PROVE  jobs'[i].attempts < jobs'[i].maxAttempts
    BY DEF NoStrandedJob, BudgetLeft
  <1>1. jobs'[i].maxAttempts \in 1..10
    BY JobFields DEF TypeOK
  <1>2. CASE i \in DOMAIN jobs /\ i # j
    BY <1>2 DEF NoStrandedJob, BudgetLeft
  <1>3. CASE i \in DOMAIN jobs /\ i = j
    BY <1>3
  <1>4. CASE i \notin DOMAIN jobs
    BY <1>1, <1>4
  <1>5. QED
    BY <1>2, <1>3, <1>4

(* Dispatching: the attempt in flight is the latest of its job, and the    *)
(* job no longer waits.                                                    *)
LEMMA BeginAttemptWaits ==
  ASSUME TypeOK, TypeOK', NoStrandedJob, NEW d \in Drains, Drains = {d}, NEW batch,
         IsBatch(batch, DOMAIN jobs), NEW j \in DOMAIN batch, BeginAttempt(d, j, batch)
  PROVE  NoStrandedJob' /\ AnswersAreCurrent'
  <1> DEFINE log == Append(jobs[j].log, LogEntry("attempt_started", NextAttempt(j)))
             job == [jobs[j] EXCEPT !.status = "processing", !.attempts = NextAttempt(j),
                                    !.log = log]
  <1>1. jobs \in Seq(JobType) /\ j \in DOMAIN jobs /\ jobs[j] \in JobType
    BY JobFields DEF TypeOK, IsBatch
  <1>2. jobs' = [jobs EXCEPT ![j] = job]
    BY <1>1 DEF BeginAttempt, Started
  <1>3. job.attempts = NextAttempt(j) /\ job.status = "processing"
    <2> HIDE DEF log
    <2> QED
      BY <1>1 DEF JobType
  <1> HIDE DEF job
  <1>4. drain'[d].job = j /\ drain'[d].attempt = NextAttempt(j)
    BY DEF BeginAttempt, TypeOK
  <1>5. AnswersAreCurrent'
    BY <1>1, <1>2, <1>3, <1>4 DEF AnswersAreCurrent
  <1>6. NoStrandedJob'
    BY <1>1, <1>2, <1>3, OneJobWaits
  <1>7. QED
    BY <1>5, <1>6

LEMMA NextStrandsNone ==
  ASSUME NEW d \in Drains, Drains = {d}
  PROVE  TypeOK /\ TypeOK' /\ NoStrandedJob /\ AnswersAreCurrent /\ [Next]_vars
           => NoStrandedJob' /\ AnswersAreCurrent'
  <1> SUFFICES ASSUME TypeOK, TypeOK', NoStrandedJob, AnswersAreCurrent, [Next]_vars
               PROVE  NoStrandedJob' /\ AnswersAreCurrent'
    OBVIOUS
  <1>1. jobs \in Seq(JobType) /\ drain = [e \in Drains |-> drain[e]]
    BY DEF TypeOK
  <1>2. ASSUME drain[d].phase = "sending"
        PROVE  drain[d].job \in DOMAIN jobs /\ drain[d].attempt = jobs[drain[d].job].attempts
    BY <1>2 DEF TypeOK, DrainOK, AnswersAreCurrent
  <1>3. ASSUME NEW r \in Requests, QueueNotification(r)
        PROVE  NoStrandedJob' /\ AnswersAreCurrent'
    <2> DEFINE job(s) == NewJob(r.channel, r.fallback, s, r.maxAttempts, NoParent)
    <2>1. PICK s : jobs' = Append(jobs, job(s))
      BY <1>3 DEF QueueNotification
    <2>2. job(s).attempts = 0
      BY DEF NewJob
    <2> HIDE DEF job
    <2>3. /\ \A i \in DOMAIN jobs : jobs'[i] = jobs[i]
          /\ \A i \in DOMAIN jobs' \ DOMAIN jobs : jobs'[i].attempts = 0
      <3>1. Len(jobs) \in Nat /\ DOMAIN jobs = 1..Len(jobs)
              /\ DOMAIN Append(jobs, job(s)) = 1..(Len(jobs) + 1)
              /\ \A i \in 1..Len(jobs) : Append(jobs, job(s))[i] = jobs[i]
              /\ Append(jobs, job(s))[Len(jobs) + 1] = job(s)
        BY <1>1, LenProperties
      <3>2. QED
        BY <2>1, <2>2, <3>1
    <2>4. NoStrandedJob'
      <3>1. \A i \in DOMAIN jobs' : jobs'[i].maxAttempts \in 1..10
        BY JobFields DEF TypeOK
      <3>2. QED
        BY <2>3, <3>1 DEF NoStrandedJob, BudgetLeft
    <2>5. AnswersAreCurrent'
      BY <1>2, <1>3, <2>3 DEF QueueNotification, AnswersAreCurrent
    <2>6. QED
      BY <2>4, <2>5
  <1>4. ASSUME NEW j \in DOMAIN jobs, RetryJob(j)
        PROVE  NoStrandedJob' /\ AnswersAreCurrent'
    <2> DEFINE log == Append(jobs[j].log, LogEntry("retry_requested", jobs[j].attempts))
               job == [jobs[j] EXCEPT !.status = "retrying", !.nextAttemptAt = now, !.log = log]
    <2>1. jobs' = [jobs EXCEPT ![j] = job] /\ drain' = drain
      BY <1>1, <1>4 DEF RetryJob, Retried
    <2>2. job.attempts = jobs[j].attempts /\ job.attempts < job.maxAttempts
      <3>1. jobs[j] \in JobType /\ jobs[j].attempts < jobs[j].maxAttempts
        BY <1>1, <1>4, JobFields DEF RetryJob, Retriable, BudgetLeft
      <3> HIDE DEF log
      <3>2. QED
        BY <3>1 DEF JobType
    <2> HIDE DEF job
    <2>3. NoStrandedJob'
      BY <1>1, <2>1, <2>2, OneJobWaits
    <2>4. AnswersAreCurrent'
      BY <1>1, <1>2, <2>1, <2>2 DEF AnswersAreCurrent
    <2>5. QED
      BY <2>3, <2>4
  <1>5. ASSUME StartDrain(d) PROVE NoStrandedJob' /\ AnswersAreCurrent'
    BY <1>5, ListDueType, BeginAttemptWaits DEF StartDrain, IsHead
  <1>6. ASSUME NextInBatch(d) PROVE NoStrandedJob' /\ AnswersAreCurrent'
    <2>1. IsBatch(drain[d].batch, DOMAIN jobs)
      BY DEF TypeOK, DrainOK
    <2>2. QED
      BY <1>6, <2>1, BeginAttemptWaits DEF NextInBatch
  <1>7. ASSUME drain' = [drain EXCEPT ![d] = Returned(d)] PROVE AnswersAreCurrent'
    BY <1>1, <1>7 DEF AnswersAreCurrent, Returned, Idle
  <1>8. ASSUME MarkSent(d) \/ FailFinally(d) PROVE NoStrandedJob' /\ AnswersAreCurrent'
    <2>1. drain[d].job \in DOMAIN jobs /\ jobs[drain[d].job] \in JobType
      BY <1>1, <1>2, <1>8, JobFields DEF MarkSent, FailFinally
    <2>2. /\ \A i \in DOMAIN jobs :
               jobs'[i] = IF i = drain[d].job THEN jobs'[drain[d].job] ELSE jobs[i]
          /\ jobs'[drain[d].job].status \in {"sent", "failed"} /\ DOMAIN jobs' = DOMAIN jobs
      BY <1>8, <2>1 DEF MarkSent, FailFinally, JobType
    <2>3. NoStrandedJob'
      BY <2>2, OneJobWaits
    <2>4. QED
      BY <1>7, <1>8, <2>3 DEF MarkSent, FailFinally
  <1>9. ASSUME QueuePushFallback(d) PROVE NoStrandedJob' /\ AnswersAreCurrent'
    <2> DEFINE j == drain[d].job
               log == jobs[j].log \o FailureLog(d, "fallback_queued")
               job == [jobs[j] EXCEPT !.status = "failed", !.log = log]
    <2>1. j \in DOMAIN jobs /\ jobs[j] \in JobType /\ FallbackJobs(j) \in Seq(JobType)
      BY <1>1, <1>2, <1>9, JobFields, FallbackJobsType DEF QueuePushFallback
    <2>2. log \in Seq(LogEntries)
      BY <1>1, <1>9, <2>1, JobFields, ExtendLog
      DEF QueuePushFallback, FailureLog, Events, Outcomes, TypeOK, DrainOK
    <2>3. jobs' = [jobs EXCEPT ![j] = job] \o FallbackJobs(j)
            /\ drain' = [drain EXCEPT ![d] = Returned(d)]
      BY <1>1, <2>1, <1>9 DEF QueuePushFallback
    <2>4. job \in JobType /\ job.status = "failed"
      <3> HIDE DEF log, j
      <3> QED
        BY <2>1, <2>2 DEF JobType, Statuses
    <2>5. \A k \in DOMAIN FallbackJobs(j) : FallbackJobs(j)[k].attempts = 0
      BY DEF FallbackJobs, NewJob
    <2> HIDE DEF job, j
    <2>6. /\ \A i \in DOMAIN jobs : jobs'[i] = IF i = j THEN job ELSE jobs[i]
          /\ \A i \in DOMAIN jobs' \ DOMAIN jobs :
               \E k \in DOMAIN FallbackJobs(j) : jobs'[i] = FallbackJobs(j)[k]
      BY <1>1, <2>1, <2>3, <2>4, ReplaceAndGrow
    <2>7. \A i \in DOMAIN jobs' \ DOMAIN jobs : jobs'[i].attempts = 0
      BY <2>5, <2>6
    <2>8. NoStrandedJob'
      BY <2>4, <2>6, <2>7, OneJobWaits
    <2>9. QED
      BY <1>7, <2>3, <2>8
  <1>10. ASSUME ScheduleRetry(d) PROVE NoStrandedJob' /\ AnswersAreCurrent'
    <2> DEFINE j == drain[d].job
               log == jobs[j].log \o FailureLog(d, "retry_scheduled")
               at == now + RetryDelay(drain[d].attempt)
               job == [jobs[j] EXCEPT !.status = "retrying", !.nextAttemptAt = at, !.log = log]
    <2>1. j \in DOMAIN jobs /\ jobs[j] \in JobType
      BY <1>1, <1>2, <1>10, JobFields DEF ScheduleRetry
    <2>2. jobs' = [jobs EXCEPT ![j] = job] /\ drain' = [drain EXCEPT ![d] = Returned(d)]
      BY <1>1, <2>1, <1>10 DEF ScheduleRetry
    <2>3. jobs[j].attempts < jobs[j].maxAttempts
      <3>1. jobs[j].attempts \in Nat /\ jobs[j].maxAttempts \in 1..10
        BY <1>1, <2>1, JobFields
      <3>2. drain[d].attempt = jobs[j].attempts
        BY <1>2, <1>10 DEF ScheduleRetry
      <3>3. ~(drain[d].attempt >= jobs[j].maxAttempts)
        BY <1>10 DEF ScheduleRetry, LastAttempt
      <3>4. QED
        BY <3>1, <3>2, <3>3
    <2>4. job.attempts < job.maxAttempts
      <3> HIDE DEF log, j, at
      <3> QED
        BY <2>1, <2>3 DEF JobType
    <2> HIDE DEF job, j
    <2>5. NoStrandedJob'
      BY <1>1, <2>1, <2>2, <2>4, OneJobWaits
    <2>6. QED
      BY <1>7, <2>2, <2>5
  <1>11. CASE Tick
    BY <1>11 DEF Tick, NoStrandedJob, BudgetLeft, AnswersAreCurrent
  <1>12. CASE UNCHANGED vars
    BY <1>12 DEF vars, NoStrandedJob, BudgetLeft, AnswersAreCurrent
  <1>13. QED
    BY <1>3, <1>4, <1>5, <1>6, <1>8, <1>9, <1>10, <1>11, <1>12 DEF Next, Settle

(* With one drain at a time no job waits without budget: whatever fails and *)
(* whoever retries, a job that is queued or retrying can be taken up.       *)
THEOREM SingleDrainStrandsNone ==
  ASSUME Cardinality(Drains) = 1
  PROVE  Spec => []NoStrandedJob
  <1>1. PICK d \in Drains : Drains = {d}
    BY ConstantsAssumption, FS_Singleton
  <1>2. Init => NoStrandedJob /\ AnswersAreCurrent
    BY DEF Init, NoStrandedJob, AnswersAreCurrent, Idle
  <1>3. TypeOK /\ TypeOK' /\ NoStrandedJob /\ AnswersAreCurrent /\ [Next]_vars
          => NoStrandedJob' /\ AnswersAreCurrent'
    BY <1>1, NextStrandsNone
  <1>4. QED
    BY <1>2, <1>3, TypeCorrect, PTL DEF Spec

-----------------------------------------------------------------------------
(* The delivery contract.  With one drain a job that is listed or in flight *)
(* is still pending, since nothing but the drain settles jobs, and a job    *)
(* that failed without fallback has used its budget up.                     *)

HasFallback(j) == FallbackChannels(j) # << >>

PendingInv ==
  /\ \A d \in Drains, j \in DOMAIN jobs :
       /\ j \in DOMAIN drain[d].batch => jobs[j].status \in {"queued", "retrying"}
       /\ drain[d].phase = "sending" /\ drain[d].job = j =>
            /\ jobs[j].status \in {"processing", "retrying"} /\ jobs[j].attempts > 0
            /\ j \notin DOMAIN drain[d].batch
  /\ \A j \in DOMAIN jobs :
       jobs[j].status = "failed" /\ ~HasFallback(j) => jobs[j].attempts = jobs[j].maxAttempts

SingleInv == TypeOK /\ BudgetRespected /\ NoStrandedJob /\ AnswersAreCurrent /\ PendingInv

(* The entries of the ledger the contract sees. *)
EntryType == [budget : 1..10, tried : Nat,
              outcome : {"pending", "delivered", "abandoned", "handed_over"}]

SeenIsLedger ==
  /\ SeenLedger \in Seq(EntryType) /\ Len(SeenLedger) = Len(jobs) /\ Len(jobs) \in Nat
  /\ DOMAIN SeenLedger = 1..Len(jobs) /\ DOMAIN jobs = 1..Len(jobs)
  /\ \A j \in DOMAIN jobs : SeenLedger[j] = Seen(j)

LEMMA SeenLedgerType == TypeOK => SeenIsLedger
  <1> SUFFICES ASSUME TypeOK PROVE SeenIsLedger
    OBVIOUS
  <1>1. Len(jobs) \in Nat /\ DOMAIN jobs = 1..Len(jobs)
    BY LenProperties DEF TypeOK
  <1>2. ASSUME NEW j \in DOMAIN jobs PROVE Seen(j) \in EntryType
    <2>1. jobs[j].attempts \in Nat /\ jobs[j].maxAttempts \in 1..10 /\ jobs[j].status \in Statuses
      BY JobFields DEF TypeOK, JobType
    <2>2. OutcomeOf(j) \in {"pending", "delivered", "abandoned", "handed_over"}
      BY <2>1 DEF OutcomeOf, Statuses
    <2>3. QED
      BY <2>1, <2>2 DEF Seen, EntryType
  <1>3. SeenLedger \in [1..Len(jobs) -> EntryType]
    BY <1>1, <1>2 DEF SeenLedger
  <1>4. SeenLedger \in Seq(EntryType) /\ Len(SeenLedger) = Len(jobs)
    BY <1>1, <1>3, SeqDef, LenProperties
  <1>5. QED
    BY <1>1, <1>3, <1>4 DEF SeenLedger, SeenIsLedger

(* The steps of the contract, in terms of the ledger it sees. *)
LEMMA ContractSubmit ==
  ASSUME NEW b \in 1..10, SeenLedger' = Append(SeenLedger, Contract!Entry(b))
  PROVE  Contract!Next
  BY Zenon DEF Contract!Next, Contract!Submit

LEMMA ContractChange ==
  ASSUME SeenLedger \in Seq(EntryType), NEW j \in DOMAIN SeenLedger, NEW e,
         SeenLedger' = [SeenLedger EXCEPT ![j] = e],
         LET f == SeenLedger[j]
         IN  \/ /\ f.outcome = "pending" /\ f.tried < f.budget
                /\ e = [budget |-> f.budget, tried |-> f.tried + 1, outcome |-> "pending"]
             \/ /\ f.outcome = "pending" /\ f.tried > 0
                /\ e = [budget |-> f.budget, tried |-> f.tried, outcome |-> "delivered"]
             \/ /\ f.outcome = "pending" /\ f.tried = f.budget
                /\ e = [budget |-> f.budget, tried |-> f.tried, outcome |-> "abandoned"]
             \/ /\ f.outcome = "handed_over" /\ f.tried < f.budget
                /\ e = [budget |-> f.budget, tried |-> f.tried, outcome |-> "pending"]
  PROVE  Contract!Next
  <1> DEFINE f == SeenLedger[j]
  <1>1. f \in EntryType
    BY ElementOfSeq, LenProperties
  <1>2. \A n, o : /\ [f EXCEPT !.tried = n] = [budget |-> f.budget, tried |-> n, outcome |-> f.outcome]
                  /\ [f EXCEPT !.outcome = o] = [budget |-> f.budget, tried |-> f.tried, outcome |-> o]
    <2> HIDE DEF f
    <2> QED
      BY <1>1, SMTT(60) DEF EntryType
  <1>3. CASE /\ f.outcome = "pending" /\ f.tried < f.budget
             /\ e = [budget |-> f.budget, tried |-> f.tried + 1, outcome |-> "pending"]
    <2>1. e = [f EXCEPT !.tried = f.tried + 1]
      BY <1>2, <1>3
    <2>2. Contract!Try(j)
      BY <1>3, <2>1, Zenon DEF Contract!Try, Contract!Pending
    <2>3. QED
      BY <2>2, Zenon DEF Contract!Next
  <1>4. CASE /\ f.outcome = "pending" /\ f.tried > 0
             /\ e = [budget |-> f.budget, tried |-> f.tried, outcome |-> "delivered"]
    <2>1. e = [f EXCEPT !.outcome = "delivered"]
      BY <1>2, <1>4
    <2>2. Contract!Deliver(j)
      BY <1>4, <2>1, Zenon DEF Contract!Deliver, Contract!Pending
    <2>3. QED
      BY <2>2, Zenon DEF Contract!Next
  <1>5. CASE /\ f.outcome = "pending" /\ f.tried = f.budget
             /\ e = [budget |-> f.budget, tried |-> f.tried, outcome |-> "abandoned"]
    <2>1. e = [f EXCEPT !.outcome = "abandoned"]
      BY <1>2, <1>5
    <2>2. Contract!Abandon(j)
      BY <1>5, <2>1, Zenon DEF Contract!Abandon, Contract!Pending
    <2>3. QED
      BY <2>2, Zenon DEF Contract!Next
  <1>6. CASE /\ f.outcome = "handed_over" /\ f.tried < f.budget
             /\ e = [budget |-> f.budget, tried |-> f.tried, outcome |-> "pending"]
    <2>1. e = [f EXCEPT !.outcome = "pending"]
      BY <1>2, <1>6
    <2>2. Contract!Reopen(j)
      BY <1>6, <2>1, Zenon DEF Contract!Reopen
    <2>3. QED
      BY <2>2, Zenon DEF Contract!Next
  <1>7. QED
    BY <1>3, <1>4, <1>5, <1>6

LEMMA ContractHandOver ==
  ASSUME SeenLedger \in Seq(EntryType), NEW j \in DOMAIN SeenLedger,
         SeenLedger[j].outcome = "pending", SeenLedger[j].tried > 0,
         NEW e, e = [SeenLedger[j] EXCEPT !.outcome = "handed_over"],
         NEW s, s = [budget |-> SeenLedger[j].budget, tried |-> 0, outcome |-> "pending"],
         \E more \in {<<s>>, <<s, s>>} : SeenLedger' = [SeenLedger EXCEPT ![j] = e] \o more
  PROVE  Contract!Next
  <1>1. s = Contract!Entry(SeenLedger[j].budget)
    BY Zenon DEF Contract!Entry
  <1>2. SeenLedger' = [SeenLedger EXCEPT ![j] = e] \o <<s>>
          \/ SeenLedger' = [SeenLedger EXCEPT ![j] = e] \o <<s, s>>
    OBVIOUS
  <1>3. Contract!HandOver(j)
    BY <1>1, <1>2, Zenon DEF Contract!HandOver, Contract!Pending
  <1>4. QED
    BY <1>3, Zenon DEF Contract!Next

(* A step that gives one job another status and number of attempts. *)
Changed(j, status, attempts) ==
  /\ j \in DOMAIN jobs /\ DOMAIN jobs' = DOMAIN jobs
  /\ \A i \in DOMAIN jobs : i # j => jobs'[i] = jobs[i]
  /\ jobs'[j].status = status /\ jobs'[j].attempts = attempts
  /\ jobs'[j].maxAttempts = jobs[j].maxAttempts
  /\ jobs'[j].channel = jobs[j].channel /\ jobs'[j].fallback = jobs[j].fallback

LEMMA StepsChange ==
  ASSUME TypeOK
  PROVE  /\ \A j \in DOMAIN jobs : RetryJob(j) => Changed(j, "retrying", jobs[j].attempts)
         /\ \A d \in Drains, j \in DOMAIN jobs : \A batch :
              BeginAttempt(d, j, batch) => Changed(j, "processing", jobs[j].attempts + 1)
         /\ \A d \in Drains :
              LET j == drain[d].job
              IN  /\ MarkSent(d) => Changed(j, "sent", jobs[j].attempts)
                  /\ FailFinally(d) => Changed(j, "failed", jobs[j].attempts)
                  /\ ScheduleRetry(d) => Changed(j, "retrying", jobs[j].attempts)
  <1>1. \A j \in DOMAIN jobs : jobs[j] \in JobType
    BY JobFields DEF TypeOK
  <1>2. ASSUME NEW d \in Drains, drain[d].phase = "sending" PROVE drain[d].job \in DOMAIN jobs
    BY <1>2 DEF TypeOK, DrainOK
  <1>3. ASSUME NEW j \in DOMAIN jobs, RetryJob(j) PROVE Changed(j, "retrying", jobs[j].attempts)
    BY <1>1, <1>3 DEF RetryJob, Retried, Changed, JobType
  <1>4. ASSUME NEW d \in Drains, NEW batch, NEW j \in DOMAIN jobs, BeginAttempt(d, j, batch)
        PROVE  Changed(j, "processing", jobs[j].attempts + 1)
    BY <1>1, <1>4 DEF BeginAttempt, Started, NextAttempt, Changed, JobType
  <1>5. ASSUME NEW d \in Drains, MarkSent(d)
        PROVE  Changed(drain[d].job, "sent", jobs[drain[d].job].attempts)
    BY <1>1, <1>2, <1>5 DEF MarkSent, Changed, JobType
  <1>6. ASSUME NEW d \in Drains, FailFinally(d)
        PROVE  Changed(drain[d].job, "failed", jobs[drain[d].job].attempts)
    BY <1>1, <1>2, <1>6, SMTT(60) DEF FailFinally, Changed, JobType
  <1>7. ASSUME NEW d \in Drains, ScheduleRetry(d)
        PROVE  Changed(drain[d].job, "retrying", jobs[drain[d].job].attempts)
    <2> DEFINE j == drain[d].job
               at == now + RetryDelay(drain[d].attempt)
               written == jobs[j].log \o FailureLog(d, "retry_scheduled")
               job == [jobs[j] EXCEPT !.status = "retrying", !.nextAttemptAt = at, !.log = written]
    <2>1. j \in DOMAIN jobs /\ jobs[j] \in JobType
      BY <1>1, <1>2, <1>7 DEF ScheduleRetry
    <2>2. jobs' = [jobs EXCEPT ![j].status = "retrying", ![j].nextAttemptAt = at,
                               ![j].log = @ \o FailureLog(d, "retry_scheduled")]
      BY <1>7, Zenon DEF ScheduleRetry
    <2> HIDE DEF j, at
    <2>3. /\ DOMAIN jobs' = DOMAIN jobs /\ jobs'[j] = job
          /\ \A i \in DOMAIN jobs : i # j => jobs'[i] = jobs[i]
      BY <2>1, <2>2
    <2> HIDE DEF written
    <2>4. /\ job.status = "retrying" /\ job.attempts = jobs[j].attempts
          /\ job.maxAttempts = jobs[j].maxAttempts
          /\ job.channel = jobs[j].channel /\ job.fallback = jobs[j].fallback
      BY <2>1 DEF JobType
    <2> HIDE DEF job
    <2>5. Changed(j, "retrying", jobs[j].attempts)
      BY <2>1, <2>3, <2>4 DEF Changed
    <2> QED
      BY <2>5 DEF j
  <1>8. QED
    BY <1>3, <1>4, <1>5, <1>6, <1>7

(* What the contract sees of such a step. *)
LEMMA SeenChange ==
  ASSUME TypeOK, TypeOK', NEW j, NEW status, NEW attempts, Changed(j, status, attempts)
  PROVE  /\ SeenLedger' = [SeenLedger EXCEPT ![j] = Seen(j)']
         /\ j \in DOMAIN SeenLedger /\ SeenLedger[j] = Seen(j)
         /\ \A i \in DOMAIN jobs : HasFallback(i)' <=> HasFallback(i)
         /\ Seen(j)'.budget = jobs[j].maxAttempts /\ Seen(j)'.tried = attempts
  <1>1. ASSUME NEW i \in DOMAIN jobs
        PROVE  FallbackChannels(i)' = FallbackChannels(i)
    <2>1. jobs'[i].channel = jobs[i].channel /\ jobs'[i].fallback = jobs[i].fallback
      BY DEF Changed
    <2>2. QED
      BY <2>1 DEF FallbackChannels
  <1>2. ASSUME NEW i \in DOMAIN jobs, i # j PROVE Seen(i)' = Seen(i)
    <2>1. jobs'[i] = jobs[i]
      BY <1>2 DEF Changed
    <2>2. OutcomeOf(i)' = OutcomeOf(i)
      BY <1>1, <2>1 DEF OutcomeOf
    <2>3. QED
      BY <2>1, <2>2 DEF Seen
  <1>3. SeenLedger' = [i \in DOMAIN jobs |-> Seen(i)'] /\ j \in DOMAIN jobs
    BY DEF SeenLedger, Changed
  <1>4. SeenLedger' = [SeenLedger EXCEPT ![j] = Seen(j)']
    BY <1>2, <1>3 DEF SeenLedger
  <1>5. QED
    BY <1>1, <1>3, <1>4 DEF HasFallback, Seen, Changed, SeenLedger

(* A job a submission or a fallback adds is pending and unattempted. *)
LEMMA NewJobSeen ==
  ASSUME NEW i, NEW b,
         jobs'[i].status = "queued", jobs'[i].attempts = 0, jobs'[i].maxAttempts = b
  PROVE  Seen(i)' = [budget |-> b, tried |-> 0, outcome |-> "pending"]
  <1>1. OutcomeOf(i)' = "pending"
    BY DEF OutcomeOf
  <1>2. QED
    BY <1>1 DEF Seen

(* A job a step does not touch is seen as before. *)
LEMMA SameJobSeen ==
  ASSUME NEW i, jobs'[i] = jobs[i]
  PROVE  Seen(i)' = Seen(i) /\ (HasFallback(i)' <=> HasFallback(i))
  <1>1. FallbackChannels(i)' = FallbackChannels(i)
    BY DEF FallbackChannels
  <1>2. OutcomeOf(i)' = OutcomeOf(i)
    BY <1>1 DEF OutcomeOf
  <1>3. QED
    BY <1>1, <1>2 DEF Seen, HasFallback

LEMMA QueueIsSubmit ==
  ASSUME TypeOK, TypeOK', NEW r \in Requests, QueueNotification(r)
  PROVE  /\ Contract!Next
         /\ \A i \in DOMAIN jobs : jobs'[i] = jobs[i]
         /\ \A i \in DOMAIN jobs' \ DOMAIN jobs : jobs'[i].status = "queued"
  <1> DEFINE job(s) == NewJob(r.channel, r.fallback, s, r.maxAttempts, NoParent)
             e == [budget |-> r.maxAttempts, tried |-> 0, outcome |-> "pending"]
  <1>1. PICK s : jobs' = Append(jobs, job(s))
    BY DEF QueueNotification
  <1>2. r.maxAttempts \in 1..10
    BY ConstantsAssumption DEF RequestType
  <1>3. job(s).status = "queued" /\ job(s).attempts = 0 /\ job(s).maxAttempts = r.maxAttempts
    BY DEF NewJob
  <1> HIDE DEF job
  <1>4. /\ Len(jobs) \in Nat /\ DOMAIN jobs = 1..Len(jobs)
        /\ DOMAIN jobs' = 1..(Len(jobs) + 1)
        /\ \A i \in DOMAIN jobs : jobs'[i] = jobs[i]
        /\ jobs'[Len(jobs) + 1] = job(s)
    <2>1. jobs \in Seq(JobType)
      BY DEF TypeOK
    <2>2. Len(jobs) \in Nat /\ DOMAIN jobs = 1..Len(jobs)
            /\ DOMAIN Append(jobs, job(s)) = 1..(Len(jobs) + 1)
            /\ \A i \in 1..Len(jobs) : Append(jobs, job(s))[i] = jobs[i]
            /\ Append(jobs, job(s))[Len(jobs) + 1] = job(s)
      BY <2>1, LenProperties
    <2>3. QED
      BY <1>1, <2>2
  <1>5. PICK n \in Nat : n = Len(jobs) + 1 /\ jobs'[n] = job(s)
    BY <1>4
  <1>6. Seen(n)' = e
    BY <1>3, <1>5, NewJobSeen
  <1>7. \A i \in DOMAIN jobs : Seen(i)' = Seen(i)
    BY <1>4, SameJobSeen
  <1>8. /\ SeenLedger \in Seq(EntryType) /\ Len(SeenLedger) = Len(jobs)
        /\ DOMAIN SeenLedger = 1..Len(jobs) /\ \A i \in DOMAIN jobs : SeenLedger[i] = Seen(i)
    BY SeenLedgerType DEF SeenIsLedger
  <1>9. SeenLedger' \in Seq(EntryType) /\ Len(SeenLedger') = n
          /\ \A i \in DOMAIN jobs' : SeenLedger'[i] = Seen(i)'
    <2>1. /\ SeenLedger' \in Seq(EntryType) /\ Len(SeenLedger') = Len(jobs')
          /\ DOMAIN jobs' = 1..Len(jobs') /\ Len(jobs') \in Nat
          /\ \A i \in DOMAIN jobs' : SeenLedger'[i] = Seen(i)'
      <3>1. SeenIsLedger'
        BY SeenLedgerType, PTL
      <3>2. QED
        BY <3>1 DEF SeenIsLedger
    <2>2. QED
      BY <1>4, <1>5, <2>1
  <1>10. SeenLedger' = Append(SeenLedger, e)
    <2>1. e \in EntryType
      BY <1>2 DEF EntryType
    <2> HIDE DEF e
    <2>2. /\ Append(SeenLedger, e) \in Seq(EntryType) /\ Len(Append(SeenLedger, e)) = n
          /\ \A i \in 1..Len(jobs) : Append(SeenLedger, e)[i] = SeenLedger[i]
          /\ Append(SeenLedger, e)[n] = e
      BY <1>4, <1>5, <1>8, <2>1, AppendProperties
    <2>3. \A i \in 1..n : SeenLedger'[i] = Append(SeenLedger, e)[i]
      BY <1>4, <1>5, <1>6, <1>7, <1>8, <1>9, <2>2
    <2>4. QED
      BY <1>9, <2>2, <2>3, SeqEqual
  <1>11. Contract!Next
    <2>1. e = Contract!Entry(r.maxAttempts)
      BY Zenon DEF Contract!Entry
    <2> HIDE DEF e
    <2>2. QED
      BY <1>2, <1>10, <2>1, ContractSubmit
  <1>12. QED
    BY <1>3, <1>4, <1>11

(* One fallback job or two. *)
LEMMA FallbackCount ==
  ASSUME NEW j, FallbackChannels(j) # << >>
  PROVE  Len(FallbackChannels(j)) \in 1..2 /\ DOMAIN FallbackChannels(j) = 1..Len(FallbackChannels(j))
  <1> DEFINE channels == FallbackChannels(j)
             first == IF "email" \in jobs[j].fallback THEN <<"email">> ELSE << >>
             second == IF "sms" \in jobs[j].fallback THEN <<"sms">> ELSE << >>
  <1>1. channels = first \o second /\ channels # << >>
    BY DEF FallbackChannels
  <1>2. /\ << >> \in Seq({"email", "sms"}) /\ Len(<< >>) = 0
        /\ <<"email">> \in Seq({"email", "sms"}) /\ Len(<<"email">>) = 1
        /\ <<"sms">> \in Seq({"email", "sms"}) /\ Len(<<"sms">>) = 1
    OBVIOUS
  <1>3. /\ first \in Seq({"email", "sms"}) /\ Len(first) \in 0..1
        /\ second \in Seq({"email", "sms"}) /\ Len(second) \in 0..1
    <2>1. first \in Seq({"email", "sms"}) /\ Len(first) \in 0..1
      <3>1. CASE "email" \in jobs[j].fallback
        BY <1>2, <3>1
      <3>2. CASE ~("email" \in jobs[j].fallback)
        BY <1>2, <3>2
      <3>3. QED
        BY <3>1, <3>2
    <2>2. second \in Seq({"email", "sms"}) /\ Len(second) \in 0..1
      <3>1. CASE "sms" \in jobs[j].fallback
        BY <1>2, <3>1
      <3>2. CASE ~("sms" \in jobs[j].fallback)
        BY <1>2, <3>2
      <3>3. QED
        BY <3>1, <3>2
    <2>3. QED
      BY <2>1, <2>2
  <1> HIDE DEF first, second, channels
  <1>4. channels \in Seq({"email", "sms"}) /\ Len(channels) = Len(first) + Len(second)
    BY <1>1, <1>3, ConcatProperties
  <1>5. Len(channels) # 0 /\ DOMAIN channels = 1..Len(channels)
    BY <1>1, <1>4, EmptySeq, LenProperties
  <1>6. Len(channels) \in 1..2
    <2>1. PICK n \in 0..1 : n = Len(first)
      BY <1>3
    <2>2. PICK m \in 0..1 : m = Len(second)
      BY <1>3
    <2>3. n + m # 0 /\ Len(channels) = n + m
      BY <1>4, <1>5, <2>1, <2>2
    <2>4. QED
      BY <2>3
  <1>7. QED
    BY <1>5, <1>6 DEF channels

(* A failed push attempt: the job is handed over to one job or two. *)
LEMMA HandOverSeen ==
  ASSUME TypeOK, TypeOK', NEW j \in DOMAIN jobs, NEW job \in JobType,
         jobs' = [jobs EXCEPT ![j] = job] \o FallbackJobs(j), FallbackChannels(j) # << >>,
         OutcomeOf(j) = "pending", jobs[j].attempts > 0,
         job.status = "failed", job.attempts = jobs[j].attempts,
         job.maxAttempts = jobs[j].maxAttempts,
         job.channel = jobs[j].channel, job.fallback = jobs[j].fallback
  PROVE  /\ Contract!Next
         /\ \A i \in DOMAIN jobs : i # j => jobs'[i] = jobs[i]
         /\ \A i \in DOMAIN jobs' \ DOMAIN jobs : jobs'[i].status = "queued"
         /\ jobs'[j].status = "failed" /\ HasFallback(j)'
  <1> DEFINE s == [budget |-> jobs[j].maxAttempts, tried |-> 0, outcome |-> "pending"]
             channels == FallbackChannels(j)
  <1>1. jobs \in Seq(JobType) /\ jobs[j] \in JobType /\ FallbackJobs(j) \in Seq(JobType)
    BY JobFields, FallbackJobsType DEF TypeOK
  <1>5. /\ DOMAIN jobs \subseteq DOMAIN jobs'
        /\ \A i \in DOMAIN jobs : jobs'[i] = IF i = j THEN job ELSE jobs[i]
        /\ \A i \in DOMAIN jobs' \ DOMAIN jobs :
             \E k \in DOMAIN FallbackJobs(j) : jobs'[i] = FallbackJobs(j)[k]
    BY <1>1, ReplaceAndGrow
  <1>7. PICK n \in 1..2 : Len(channels) = n /\ DOMAIN channels = 1..n
    BY FallbackCount
  <1>8. /\ DOMAIN FallbackJobs(j) = 1..n /\ Len(FallbackJobs(j)) = n
        /\ \A k \in 1..n :
             FallbackJobs(j)[k] = NewJob(channels[k], {}, jobs[j].scheduledFor, jobs[j].maxAttempts, j)
    <2>1. DOMAIN FallbackJobs(j) = 1..n
      BY <1>7 DEF FallbackJobs
    <2>2. Len(FallbackJobs(j)) = n
      BY <1>1, <1>7, <2>1, LenProperties
    <2>3. QED
      BY <1>7, <2>1, <2>2 DEF FallbackJobs
  <1> HIDE DEF channels
  <1>9. PICK m \in Nat :
          /\ m = Len(jobs) /\ DOMAIN jobs = 1..m /\ DOMAIN jobs' = 1..(m + n) /\ Len(jobs') = m + n
          /\ \A k \in 1..n : jobs'[m + k] = FallbackJobs(j)[k]
    <2> DEFINE u == [jobs EXCEPT ![j] = job]
    <2>1. u \in Seq(JobType) /\ DOMAIN u = DOMAIN jobs
      BY <1>1, ReplaceJob
    <2>2. Len(jobs) \in Nat /\ DOMAIN jobs = 1..Len(jobs) /\ Len(u) = Len(jobs)
      BY <1>1, <2>1, LenProperties
    <2> HIDE DEF u
    <2>3. jobs' = u \o FallbackJobs(j)
      BY DEF u
    <2>4. /\ jobs' \in Seq(JobType) /\ Len(jobs') = Len(jobs) + n
          /\ \A i \in 1..(Len(jobs) + n) :
               jobs'[i] = IF i <= Len(jobs) THEN u[i] ELSE FallbackJobs(j)[i - Len(jobs)]
      BY <1>1, <1>8, <2>1, <2>2, <2>3, ConcatProperties
    <2>5. DOMAIN jobs' = 1..(Len(jobs) + n)
      BY <2>4, LenProperties
    <2>6. ASSUME NEW k \in 1..n PROVE jobs'[Len(jobs) + k] = FallbackJobs(j)[k]
      <3>1. Len(jobs) + k \in 1..(Len(jobs) + n) /\ ~(Len(jobs) + k <= Len(jobs))
              /\ (Len(jobs) + k) - Len(jobs) = k
        BY <1>7, <2>2
      <3>2. QED
        BY <2>4, <3>1
    <2>7. QED
      BY <2>2, <2>4, <2>5, <2>6
  <1>10. ASSUME NEW i \in (m + 1)..(m + n) PROVE Seen(i)' = s
    <2>1. PICK k \in 1..n : i = m + k
      <3>1. i - m \in 1..n /\ i = m + (i - m)
        OBVIOUS
      <3>2. QED
        BY <3>1
    <2> DEFINE new == NewJob(channels[k], {}, jobs[j].scheduledFor, jobs[j].maxAttempts, j)
    <2>2. new.status = "queued" /\ new.attempts = 0 /\ new.maxAttempts = jobs[j].maxAttempts
      BY DEF NewJob
    <2> HIDE DEF new
    <2>3. jobs'[i] = new
      BY <1>8, <1>9, <2>1 DEF new
    <2>4. QED
      BY <2>2, <2>3, NewJobSeen DEF s
  <1>11. HasFallback(j)' /\ Seen(j)' = [budget |-> jobs[j].maxAttempts, tried |-> jobs[j].attempts,
                                        outcome |-> "handed_over"]
    <2>1. jobs'[j] = job
      BY <1>5
    <2>2. FallbackChannels(j)' = FallbackChannels(j) /\ FallbackChannels(j) # << >>
      BY <2>1 DEF FallbackChannels
    <2>3. OutcomeOf(j)' = "handed_over"
      BY <2>1, <2>2 DEF OutcomeOf
    <2>4. QED
      BY <2>1, <2>2, <2>3 DEF Seen, HasFallback
  <1>12. \A i \in DOMAIN jobs : i # j => Seen(i)' = Seen(i)
    BY <1>5, SameJobSeen
  <1> DEFINE e == [SeenLedger[j] EXCEPT !.outcome = "handed_over"]
             more == [k \in 1..n |-> s]
  <1>14. SeenIsLedger /\ SeenIsLedger'
    BY SeenLedgerType, PTL
  <1>15. /\ e = Seen(j)' /\ e \in EntryType /\ s \in EntryType
         /\ SeenLedger[j].outcome = "pending" /\ SeenLedger[j].tried > 0
         /\ SeenLedger[j].budget = jobs[j].maxAttempts
    <2>1. SeenLedger[j] = Seen(j)
      BY <1>14 DEF SeenIsLedger
    <2>2. Seen(j) = [budget |-> jobs[j].maxAttempts, tried |-> jobs[j].attempts, outcome |-> "pending"]
      BY DEF Seen
    <2>3. jobs[j].maxAttempts \in 1..10 /\ jobs[j].attempts \in Nat
      BY <1>1 DEF JobType
    <2>4. e = [budget |-> jobs[j].maxAttempts, tried |-> jobs[j].attempts, outcome |-> "handed_over"]
      BY <2>1, <2>2
    <2> HIDE DEF e
    <2>5. QED
      BY <1>11, <2>1, <2>2, <2>3, <2>4 DEF EntryType
  <1> HIDE DEF e, s
  <1>16. SeenLedger' = [SeenLedger EXCEPT ![j] = e] \o more
    <2> DEFINE u == [SeenLedger EXCEPT ![j] = e]
    <2>1. u \in Seq(EntryType) /\ Len(u) = m /\ \A i \in 1..m : u[i] = IF i = j THEN e ELSE SeenLedger[i]
      BY <1>9, <1>14, <1>15, ExceptSeq, LenProperties DEF SeenIsLedger
    <2>2. more \in Seq(EntryType) /\ Len(more) = n
      <3>1. more \in [1..n -> EntryType] /\ n \in Nat
        BY <1>15
      <3> HIDE DEF more
      <3>2. more \in Seq(EntryType) /\ DOMAIN more = 1..n
        BY <3>1, SeqDef
      <3>3. QED
        BY <3>1, <3>2, LenProperties
    <2>3. \A k \in 1..n : more[k] = s
      OBVIOUS
    <2> HIDE DEF u, more
    <2>4. /\ u \o more \in Seq(EntryType) /\ Len(u \o more) = m + n
          /\ \A i \in 1..(m + n) : (u \o more)[i] = IF i <= m THEN u[i] ELSE more[i - m]
      BY <2>1, <2>2, ConcatProperties
    <2>5. SeenLedger' \in Seq(EntryType) /\ Len(SeenLedger') = m + n
            /\ \A i \in 1..(m + n) : SeenLedger'[i] = Seen(i)'
      BY <1>9, <1>14 DEF SeenIsLedger
    <2>6. ASSUME NEW i \in 1..(m + n) PROVE SeenLedger'[i] = (u \o more)[i]
      <3>1. CASE i <= m
        <4>1. i \in DOMAIN jobs /\ i \in 1..m
          BY <1>9, <3>1
        <4>2. u[i] = Seen(i)'
          BY <1>12, <1>14, <1>15, <2>1, <4>1 DEF SeenIsLedger
        <4>3. QED
          BY <2>4, <2>5, <3>1, <4>2
      <3>2. CASE ~(i <= m)
        <4>1. i - m \in 1..n /\ i \in (m + 1)..(m + n)
          BY <3>2
        <4>2. Seen(i)' = s
          BY <1>10, <4>1
        <4>3. QED
          BY <2>3, <2>4, <2>5, <3>2, <4>1, <4>2
      <3>3. QED
        BY <3>1, <3>2
    <2>7. SeenLedger' = u \o more
      BY <2>4, <2>5, <2>6, SeqEqual
    <2>8. QED
      BY <2>7 DEF u, more
  <1>17. more \in {<<s>>, <<s, s>>}
    BY <1>7, SMTT(60)
  <1> HIDE DEF more
  <1>18. Contract!Next
    <2>1. SeenLedger \in Seq(EntryType) /\ j \in DOMAIN SeenLedger
      BY <1>14 DEF SeenIsLedger
    <2>2. e = [SeenLedger[j] EXCEPT !.outcome = "handed_over"]
            /\ s = [budget |-> SeenLedger[j].budget, tried |-> 0, outcome |-> "pending"]
      BY <1>15 DEF e, s
    <2> HIDE DEF e, s
    <2>3. \E tail \in {<<s>>, <<s, s>>} : SeenLedger' = [SeenLedger EXCEPT ![j] = e] \o tail
      BY <1>16, <1>17
    <2>4. SeenLedger[j].outcome = "pending" /\ SeenLedger[j].tried > 0
      BY <1>15
    <2>5. QED
      BY <2>1, <2>2, <2>3, <2>4, ContractHandOver
  <1>19. \A i \in DOMAIN jobs' \ DOMAIN jobs : jobs'[i].status = "queued"
    <2>1. \A k \in DOMAIN FallbackJobs(j) : FallbackJobs(j)[k].status = "queued"
      BY DEF FallbackJobs, NewJob
    <2>2. QED
      BY <1>5, <2>1
  <1>20. QED
    BY <1>5, <1>11, <1>18, <1>19

LEMMA FallbackIsHandOver ==
  ASSUME TypeOK, TypeOK', NEW d \in Drains, QueuePushFallback(d),
         NEW j \in DOMAIN jobs, j = drain[d].job,
         jobs[j].status \in {"processing", "retrying"}, jobs[j].attempts > 0
  PROVE  /\ Contract!Next
         /\ \A i \in DOMAIN jobs : i # j => jobs'[i] = jobs[i]
         /\ \A i \in DOMAIN jobs' \ DOMAIN jobs : jobs'[i].status = "queued"
         /\ jobs'[j].status = "failed" /\ HasFallback(j)'
  <1> DEFINE log == jobs[j].log \o FailureLog(d, "fallback_queued")
             job == [jobs[j] EXCEPT !.status = "failed", !.log = log]
  <1>1. jobs[j] \in JobType /\ jobs[j].log \in Seq(LogEntries)
    BY JobFields DEF TypeOK
  <1>2. log \in Seq(LogEntries)
    BY <1>1, ExtendLog DEF QueuePushFallback, FailureLog, Events, Outcomes, TypeOK, DrainOK
  <1>3. jobs' = [jobs EXCEPT ![j] = job] \o FallbackJobs(j)
    BY <1>1 DEF QueuePushFallback
  <1>4. /\ job \in JobType /\ job.status = "failed" /\ job.attempts = jobs[j].attempts
        /\ job.maxAttempts = jobs[j].maxAttempts
        /\ job.channel = jobs[j].channel /\ job.fallback = jobs[j].fallback
    <2> HIDE DEF log
    <2> QED
      BY <1>1, <1>2 DEF JobType, Statuses
  <1>5. OutcomeOf(j) = "pending" /\ FallbackChannels(j) # << >>
    BY DEF OutcomeOf, QueuePushFallback
  <1> HIDE DEF job
  <1>6. QED
    BY <1>3, <1>4, <1>5, HandOverSeen

(* Dispatching keeps what is listed and in flight pending. *)
LEMMA DispatchIsTry ==
  ASSUME TypeOK, TypeOK', PendingInv, NEW d \in Drains, Drains = {d}, NEW batch,
         IsBatch(batch, DOMAIN jobs),
         \A i \in DOMAIN batch : jobs[i].status \in {"queued", "retrying"}
                                   /\ jobs[i].attempts < jobs[i].maxAttempts,
         NEW j \in DOMAIN batch, BeginAttempt(d, j, batch)
  PROVE  PendingInv' /\ Contract!Next
  <1>1. j \in DOMAIN jobs
    BY DEF IsBatch
  <1>2. Changed(j, "processing", jobs[j].attempts + 1)
    BY <1>1, StepsChange
  <1>3. jobs[j].attempts \in Nat /\ jobs[j].maxAttempts \in 1..10
    BY <1>1, JobFields DEF TypeOK
  <1>4. /\ SeenLedger' = [SeenLedger EXCEPT ![j] = Seen(j)']
        /\ j \in DOMAIN SeenLedger /\ SeenLedger[j] = Seen(j)
        /\ \A i \in DOMAIN jobs : HasFallback(i)' <=> HasFallback(i)
    BY <1>2, SeenChange
  <1>5. drain'[d].job = j /\ DOMAIN drain'[d].batch = DOMAIN batch \ {j}
    BY RestType DEF BeginAttempt, TypeOK
  <1>6. PendingInv'
    <2>1. ASSUME NEW i \in DOMAIN jobs'
          PROVE  /\ i \in DOMAIN drain'[d].batch => jobs'[i].status \in {"queued", "retrying"}
                 /\ drain'[d].job = i =>
                      /\ jobs'[i].status \in {"processing", "retrying"} /\ jobs'[i].attempts > 0
                      /\ i \notin DOMAIN drain'[d].batch
      BY <1>2, <1>3, <1>5 DEF Changed
    <2>2. ASSUME NEW i \in DOMAIN jobs', jobs'[i].status = "failed", ~HasFallback(i)'
          PROVE  jobs'[i].attempts = jobs'[i].maxAttempts
      BY <1>2, <1>4, <2>2 DEF Changed, PendingInv
    <2>3. QED
      BY <2>1, <2>2 DEF PendingInv
  <1>7. Contract!Next
    <2>1. OutcomeOf(j) = "pending" /\ jobs[j].attempts < jobs[j].maxAttempts
      BY DEF OutcomeOf
    <2>2. OutcomeOf(j)' = "pending"
      BY <1>2 DEF OutcomeOf, Changed
    <2>3. /\ Seen(j) = [budget |-> jobs[j].maxAttempts, tried |-> jobs[j].attempts, outcome |-> "pending"]
          /\ Seen(j)' = [budget |-> jobs[j].maxAttempts, tried |-> jobs[j].attempts + 1,
                         outcome |-> "pending"]
      BY <1>2, <2>1, <2>2 DEF Seen, Changed
    <2>4. SeenLedger \in Seq(EntryType)
      BY SeenLedgerType DEF SeenIsLedger
    <2>5. PICK e : e = Seen(j)'
      OBVIOUS
    <2>6. /\ SeenLedger[j].outcome = "pending" /\ SeenLedger[j].tried < SeenLedger[j].budget
          /\ e = [budget |-> SeenLedger[j].budget, tried |-> SeenLedger[j].tried + 1,
                  outcome |-> "pending"]
      BY <1>4, <2>1, <2>3, <2>5
    <2>7. QED
      BY <1>4, <2>4, <2>5, <2>6, ContractChange
  <1>8. QED
    BY <1>6, <1>7

(* The answers that end an attempt without fallback: the job is delivered, *)
(* abandoned or waits again.                                               *)
LEMMA AnswerIsOutcome ==
  ASSUME SingleInv, TypeOK', NEW d \in Drains, Drains = {d}, drain[d].phase = "sending",
         drain' = [drain EXCEPT ![d] = Returned(d)],
         NEW j \in DOMAIN jobs, j = drain[d].job,
         \/ Changed(j, "sent", jobs[j].attempts)
         \/ /\ Changed(j, "failed", jobs[j].attempts)
            /\ jobs[j].attempts = jobs[j].maxAttempts /\ ~HasFallback(j)
         \/ Changed(j, "retrying", jobs[j].attempts)
  PROVE  PendingInv' /\ (Contract!Next \/ SeenLedger' = SeenLedger)
  <1>1. /\ TypeOK /\ jobs[j].status \in {"processing", "retrying"} /\ jobs[j].attempts > 0
        /\ j \notin DOMAIN drain[d].batch
    BY DEF SingleInv, PendingInv
  <1>2. PICK status, attempts : Changed(j, status, attempts)
    OBVIOUS
  <1>3. /\ SeenLedger' = [SeenLedger EXCEPT ![j] = Seen(j)']
        /\ j \in DOMAIN SeenLedger /\ SeenLedger[j] = Seen(j)
        /\ \A i \in DOMAIN jobs : HasFallback(i)' <=> HasFallback(i)
    BY <1>1, <1>2, SeenChange
  <1>4. drain'[d].phase # "sending" /\ DOMAIN drain'[d].batch = DOMAIN drain[d].batch
    BY <1>1 DEF TypeOK, Returned, Idle, EmptyBatch
  <1>5. PendingInv'
    <2>1. ASSUME NEW i \in DOMAIN jobs', i \in DOMAIN drain'[d].batch
          PROVE  jobs'[i].status \in {"queued", "retrying"}
      <3>1. i # j /\ jobs'[i] = jobs[i] /\ i \in DOMAIN jobs
        BY <1>1, <1>2, <1>4, <2>1 DEF Changed
      <3>2. QED
        BY <1>4, <2>1, <3>1 DEF SingleInv, PendingInv
    <2>2. ASSUME NEW i \in DOMAIN jobs', jobs'[i].status = "failed", ~HasFallback(i)'
          PROVE  jobs'[i].attempts = jobs'[i].maxAttempts
      <3>1. CASE i = j
        BY <2>2, <3>1 DEF Changed
      <3>2. CASE i # j
        BY <1>2, <1>3, <2>2, <3>2 DEF Changed, SingleInv, PendingInv
      <3>3. QED
        BY <3>1, <3>2
    <2>3. QED
      BY <1>4, <2>1, <2>2 DEF PendingInv
  <1>6. SeenLedger \in Seq(EntryType) /\ \A i \in DOMAIN SeenLedger : SeenLedger[i] = Seen(i)
    BY <1>1, SeenLedgerType DEF SeenIsLedger
  <1>7. Seen(j) = [budget |-> jobs[j].maxAttempts, tried |-> jobs[j].attempts, outcome |-> "pending"]
    <2>1. OutcomeOf(j) = "pending"
      BY <1>1 DEF OutcomeOf
    <2>2. QED
      BY <2>1 DEF Seen
  <1>8. CASE Changed(j, "sent", jobs[j].attempts)
    <2>1. OutcomeOf(j)' = "delivered"
      BY <1>8 DEF Changed, OutcomeOf
    <2>2. Seen(j)' = [budget |-> jobs[j].maxAttempts, tried |-> jobs[j].attempts,
                      outcome |-> "delivered"]
      BY <1>8, <2>1 DEF Changed, Seen
    <2>3. PICK e : e = Seen(j)'
      OBVIOUS
    <2>4. /\ SeenLedger[j].outcome = "pending" /\ SeenLedger[j].tried > 0
          /\ e = [budget |-> SeenLedger[j].budget, tried |-> SeenLedger[j].tried,
                  outcome |-> "delivered"]
      BY <1>1, <1>3, <1>7, <2>2, <2>3
    <2>5. Contract!Next
      BY <1>3, <1>6, <2>3, <2>4, ContractChange
    <2>6. QED
      BY <1>5, <2>5
  <1>9. CASE /\ Changed(j, "failed", jobs[j].attempts)
             /\ jobs[j].attempts = jobs[j].maxAttempts /\ ~HasFallback(j)
    <2>1. OutcomeOf(j)' = "abandoned"
      <3>1. FallbackChannels(j)' = << >>
        BY <1>3, <1>9 DEF HasFallback
      <3>2. QED
        BY <1>9, <3>1 DEF Changed, OutcomeOf
    <2>2. Seen(j)' = [budget |-> jobs[j].maxAttempts, tried |-> jobs[j].attempts,
                      outcome |-> "abandoned"]
      BY <1>9, <2>1 DEF Changed, Seen
    <2>3. PICK e : e = Seen(j)'
      OBVIOUS
    <2>4. /\ SeenLedger[j].outcome = "pending" /\ SeenLedger[j].tried = SeenLedger[j].budget
          /\ e = [budget |-> SeenLedger[j].budget, tried |-> SeenLedger[j].tried,
                  outcome |-> "abandoned"]
      BY <1>3, <1>7, <1>9, <2>2, <2>3
    <2>5. Contract!Next
      BY <1>3, <1>6, <2>3, <2>4, ContractChange
    <2>6. QED
      BY <1>5, <2>5
  <1>10. CASE Changed(j, "retrying", jobs[j].attempts)
    <2>1. OutcomeOf(j)' = "pending"
      BY <1>10 DEF Changed, OutcomeOf
    <2>2. Seen(j)' = Seen(j)
      BY <1>7, <1>10, <2>1 DEF Changed, Seen
    <2>3. SeenLedger' = SeenLedger
      BY <1>3, <1>6, <2>2
    <2>4. QED
      BY <1>5, <2>3
  <1>11. QED
    BY <1>8, <1>9, <1>10

(* A manual retry reopens a job that was handed over, and changes nothing  *)
(* the contract sees of any other job.                                     *)
LEMMA RetryIsReopen ==
  ASSUME SingleInv, TypeOK', NEW d \in Drains, Drains = {d}, NEW j \in DOMAIN jobs, RetryJob(j)
  PROVE  PendingInv' /\ (Contract!Next \/ SeenLedger' = SeenLedger)
  <1>1. TypeOK /\ Changed(j, "retrying", jobs[j].attempts) /\ drain' = drain
    BY StepsChange DEF SingleInv, RetryJob
  <1>2. /\ SeenLedger' = [SeenLedger EXCEPT ![j] = Seen(j)']
        /\ j \in DOMAIN SeenLedger /\ SeenLedger[j] = Seen(j)
        /\ \A i \in DOMAIN jobs : HasFallback(i)' <=> HasFallback(i)
    BY <1>1, SeenChange DEF SingleInv
  <1>3. jobs[j].attempts < jobs[j].maxAttempts /\ jobs[j].status # "sent"
    BY DEF RetryJob, Retriable, BudgetLeft
  <1>4. PendingInv'
    <2>1. ASSUME NEW i \in DOMAIN jobs'
          PROVE  /\ i \in DOMAIN drain'[d].batch => jobs'[i].status \in {"queued", "retrying"}
                 /\ drain'[d].phase = "sending" /\ drain'[d].job = i =>
                      /\ jobs'[i].status \in {"processing", "retrying"} /\ jobs'[i].attempts > 0
                      /\ i \notin DOMAIN drain'[d].batch
      <3>1. CASE i = j
        BY <1>1, <3>1 DEF Changed, SingleInv, PendingInv
      <3>2. CASE i # j
        BY <1>1, <3>2 DEF Changed, SingleInv, PendingInv
      <3>3. QED
        BY <3>1, <3>2
    <2>2. ASSUME NEW i \in DOMAIN jobs', jobs'[i].status = "failed", ~HasFallback(i)'
          PROVE  jobs'[i].attempts = jobs'[i].maxAttempts
      BY <1>1, <1>2, <2>2 DEF Changed, SingleInv, PendingInv
    <2>3. QED
      BY <2>1, <2>2 DEF PendingInv
  <1>5. SeenLedger \in Seq(EntryType)
    BY <1>1, SeenLedgerType DEF SeenIsLedger
  <1>6. Seen(j)' = [budget |-> jobs[j].maxAttempts, tried |-> jobs[j].attempts, outcome |-> "pending"]
    <2>1. OutcomeOf(j)' = "pending"
      BY <1>1 DEF Changed, OutcomeOf
    <2>2. QED
      BY <1>1, <2>1 DEF Changed, Seen
  <1>7. CASE jobs[j].status # "failed"
    <2>1. jobs[j].status \in {"queued", "processing", "retrying"}
      BY <1>1, <1>3, <1>7, JobFields DEF TypeOK, JobType, Statuses
    <2>2. Seen(j) = Seen(j)'
      <3>1. OutcomeOf(j) = "pending"
        BY <2>1 DEF OutcomeOf
      <3>2. QED
        BY <1>6, <3>1 DEF Seen
    <2>3. SeenLedger' = SeenLedger
      BY <1>2, <1>5, <2>2
    <2>4. QED
      BY <1>4, <2>3
  <1>8. CASE jobs[j].status = "failed"
    <2>1. HasFallback(j)
      <3>1. jobs[j].attempts \in Nat /\ jobs[j].maxAttempts \in 1..10
        BY <1>1, JobFields DEF TypeOK
      <3>2. QED
        BY <1>3, <1>8, <3>1 DEF SingleInv, PendingInv
    <2>2. Seen(j) = [budget |-> jobs[j].maxAttempts, tried |-> jobs[j].attempts,
                     outcome |-> "handed_over"]
      <3>1. OutcomeOf(j) = "handed_over"
        BY <1>8, <2>1 DEF HasFallback, OutcomeOf
      <3>2. QED
        BY <3>1 DEF Seen
    <2>3. PICK e : e = Seen(j)'
      OBVIOUS
    <2>4. /\ SeenLedger[j].outcome = "handed_over" /\ SeenLedger[j].tried < SeenLedger[j].budget
          /\ e = [budget |-> SeenLedger[j].budget, tried |-> SeenLedger[j].tried,
                  outcome |-> "pending"]
      BY <1>2, <1>3, <1>6, <2>2, <2>3
    <2>5. Contract!Next
      BY <1>2, <1>5, <2>3, <2>4, ContractChange
    <2>6. QED
      BY <1>4, <2>5
  <1>9. QED
    BY <1>7, <1>8

(* Every step of the queue is a step of the contract or none. *)
LEMMA NextIsContractStep ==
  ASSUME NEW d \in Drains, Drains = {d}
  PROVE  SingleInv /\ TypeOK' /\ [Next]_vars
           => PendingInv' /\ [Contract!Next]_SeenLedger
  <1> SUFFICES ASSUME SingleInv, TypeOK', [Next]_vars
               PROVE  PendingInv' /\ (Contract!Next \/ SeenLedger' = SeenLedger)
    OBVIOUS
  <1>1. TypeOK
    BY DEF SingleInv
  <1>2. ASSUME drain[d].phase = "sending"
        PROVE  drain[d].job \in DOMAIN jobs /\ drain[d].attempt = jobs[drain[d].job].attempts
    BY <1>1, <1>2 DEF TypeOK, DrainOK, SingleInv, AnswersAreCurrent
  <1>3. ASSUME NEW i \in DOMAIN jobs
        PROVE  jobs[i].attempts \in Nat /\ jobs[i].maxAttempts \in 1..10
                 /\ jobs[i].attempts <= jobs[i].maxAttempts
    BY <1>1, JobFields DEF TypeOK, SingleInv, BudgetRespected
  <1>4. ASSUME NEW r \in Requests, QueueNotification(r)
        PROVE  PendingInv' /\ Contract!Next
    <2>1. /\ Contract!Next /\ drain' = drain
          /\ \A i \in DOMAIN jobs : jobs'[i] = jobs[i]
          /\ \A i \in DOMAIN jobs' \ DOMAIN jobs : jobs'[i].status = "queued"
      BY <1>1, <1>4, QueueIsSubmit DEF QueueNotification
    <2>2. \A i \in DOMAIN jobs : HasFallback(i)' <=> HasFallback(i)
      BY <2>1, SameJobSeen
    <2>3. IsBatch(drain[d].batch, DOMAIN jobs)
            /\ (drain[d].phase = "sending" => drain[d].job \in DOMAIN jobs)
      BY <1>1 DEF TypeOK, DrainOK
    <2>4. PendingInv'
      BY <2>1, <2>2, <2>3 DEF PendingInv, SingleInv, IsBatch
    <2>5. QED
      BY <2>1, <2>4
  <1>5. ASSUME StartDrain(d) PROVE PendingInv' /\ Contract!Next
    <2>1. \A i \in DOMAIN ListDue : /\ jobs[i].status \in {"queued", "retrying"}
                                    /\ jobs[i].attempts < jobs[i].maxAttempts
      BY <1>1, ListDueType DEF DueJobs, Due, BudgetLeft
    <2>2. PICK j \in DOMAIN ListDue : BeginAttempt(d, j, ListDue)
      BY <1>5 DEF StartDrain, IsHead
    <2>3. IsBatch(ListDue, DOMAIN jobs)
      BY <1>1, ListDueType
    <2>4. QED
      BY <1>1, <2>1, <2>2, <2>3, DispatchIsTry DEF SingleInv
  <1>6. ASSUME NextInBatch(d) PROVE PendingInv' /\ Contract!Next
    <2>1. IsBatch(drain[d].batch, DOMAIN jobs)
      BY <1>1 DEF TypeOK, DrainOK
    <2>2. \A i \in DOMAIN drain[d].batch : /\ jobs[i].status \in {"queued", "retrying"}
                                           /\ jobs[i].attempts < jobs[i].maxAttempts
      BY <2>1 DEF IsBatch, SingleInv, PendingInv, NoStrandedJob, BudgetLeft
    <2>3. PICK j \in DOMAIN drain[d].batch : BeginAttempt(d, j, drain[d].batch)
      BY <1>6 DEF NextInBatch
    <2>4. QED
      BY <1>1, <2>1, <2>2, <2>3, DispatchIsTry DEF SingleInv
  <1>7. ASSUME MarkSent(d) \/ FailFinally(d) \/ ScheduleRetry(d)
        PROVE  PendingInv' /\ (Contract!Next \/ SeenLedger' = SeenLedger)
    <2>1. drain[d].phase = "sending" /\ drain' = [drain EXCEPT ![d] = Returned(d)]
      BY <1>7 DEF MarkSent, FailFinally, ScheduleRetry
    <2>2. PICK j \in DOMAIN jobs : j = drain[d].job
      BY <1>2, <2>1
    <2>3. \/ Changed(j, "sent", jobs[j].attempts)
          \/ /\ Changed(j, "failed", jobs[j].attempts)
             /\ jobs[j].attempts = jobs[j].maxAttempts /\ ~HasFallback(j)
          \/ Changed(j, "retrying", jobs[j].attempts)
      <3>1. CASE MarkSent(d)
        BY <1>1, <2>2, <3>1, StepsChange
      <3>2. CASE FailFinally(d)
        <4>1. Changed(j, "failed", jobs[j].attempts)
          BY <1>1, <2>2, <3>2, StepsChange
        <4>2. drain[d].attempt >= jobs[j].maxAttempts /\ ~HasFallback(j)
          BY <2>2, <3>2 DEF FailFinally, LastAttempt, HasFallback
        <4>3. jobs[j].attempts >= jobs[j].maxAttempts
          BY <1>2, <2>1, <2>2, <4>2
        <4>4. jobs[j].attempts = jobs[j].maxAttempts
          BY <1>3, <4>3
        <4>5. QED
          BY <4>1, <4>2, <4>4
      <3>3. CASE ScheduleRetry(d)
        BY <1>1, <2>2, <3>3, StepsChange
      <3>4. QED
        BY <1>7, <3>1, <3>2, <3>3
    <2>4. QED
      BY <2>1, <2>2, <2>3, AnswerIsOutcome
  <1>8. ASSUME QueuePushFallback(d) PROVE PendingInv' /\ Contract!Next
    <2>1. drain[d].phase = "sending" /\ drain' = [drain EXCEPT ![d] = Returned(d)]
      BY <1>8 DEF QueuePushFallback
    <2>2. PICK j \in DOMAIN jobs : j = drain[d].job
      BY <1>2, <2>1
    <2>3. jobs[j].status \in {"processing", "retrying"} /\ jobs[j].attempts > 0
            /\ j \notin DOMAIN drain[d].batch
      BY <2>1, <2>2 DEF SingleInv, PendingInv
    <2>4. /\ Contract!Next
          /\ \A i \in DOMAIN jobs : i # j => jobs'[i] = jobs[i]
          /\ \A i \in DOMAIN jobs' \ DOMAIN jobs : jobs'[i].status = "queued"
          /\ jobs'[j].status = "failed" /\ HasFallback(j)'
      BY <1>1, <1>8, <2>2, <2>3, FallbackIsHandOver
    <2>5. \A i \in DOMAIN jobs : i # j => (HasFallback(i)' <=> HasFallback(i))
      BY <2>4, SameJobSeen
    <2>6. /\ drain'[d].phase # "sending" /\ DOMAIN drain'[d].batch = DOMAIN drain[d].batch
          /\ DOMAIN drain[d].batch \subseteq DOMAIN jobs
      BY <1>1, <2>1 DEF TypeOK, DrainOK, IsBatch, Returned, Idle, EmptyBatch
    <2>7. ASSUME NEW i \in DOMAIN jobs', i \in DOMAIN drain'[d].batch
          PROVE  jobs'[i].status \in {"queued", "retrying"}
      <3>1. i \in DOMAIN jobs /\ i # j /\ jobs'[i] = jobs[i]
        BY <2>3, <2>4, <2>6, <2>7
      <3>2. QED
        BY <2>6, <2>7, <3>1 DEF SingleInv, PendingInv
    <2>8. ASSUME NEW i \in DOMAIN jobs', jobs'[i].status = "failed", ~HasFallback(i)'
          PROVE  jobs'[i].attempts = jobs'[i].maxAttempts
      <3>1. i \in DOMAIN jobs /\ i # j /\ jobs'[i] = jobs[i] /\ ~HasFallback(i)
        BY <2>4, <2>5, <2>8
      <3>2. QED
        BY <2>8, <3>1 DEF SingleInv, PendingInv
    <2>9. PendingInv'
      BY <2>6, <2>7, <2>8 DEF PendingInv
    <2>10. QED
      BY <2>4, <2>9
  <1>9. CASE Tick \/ UNCHANGED vars
    <2>1. jobs' = jobs /\ drain' = drain
      BY <1>9 DEF Tick, vars
    <2>2. \A i \in DOMAIN jobs : Seen(i)' = Seen(i) /\ (HasFallback(i)' <=> HasFallback(i))
      BY <2>1, SameJobSeen
    <2>3. SeenLedger' = SeenLedger
      BY <2>1, <2>2 DEF SeenLedger
    <2>4. PendingInv'
      BY <2>1, <2>2 DEF SingleInv, PendingInv
    <2>5. QED
      BY <2>3, <2>4
  <1>10. QED
    BY <1>4, <1>5, <1>6, <1>7, <1>8, <1>9, RetryIsReopen DEF Next, Settle

(* The invariant of the single drain holds throughout. *)
LEMMA SingleDrainInv ==
  ASSUME Cardinality(Drains) = 1
  PROVE  Spec => []SingleInv
  <1>1. PICK d \in Drains : Drains = {d}
    BY ConstantsAssumption, FS_Singleton
  <1>2. Init => NoStrandedJob /\ AnswersAreCurrent /\ PendingInv
    BY DEF Init, NoStrandedJob, AnswersAreCurrent, PendingInv, Idle
  <1>3. TypeOK /\ TypeOK' /\ NoStrandedJob /\ AnswersAreCurrent /\ [Next]_vars
          => NoStrandedJob' /\ AnswersAreCurrent'
    BY <1>1, NextStrandsNone
  <1>4. SingleInv /\ TypeOK' /\ [Next]_vars => PendingInv'
    BY <1>1, NextIsContractStep
  <1>5. SingleInv <=> TypeOK /\ BudgetRespected /\ NoStrandedJob /\ AnswersAreCurrent /\ PendingInv
    BY DEF SingleInv
  <1>6. QED
    BY <1>2, <1>3, <1>4, <1>5, TypeCorrect, SingleDrainKeepsBudget, PTL DEF Spec

(* With one drain at a time the queue implements the delivery contract, for *)
(* any requests, retry parameters and bounds: the refinement mapping takes  *)
(* every step to a step of the contract or to none.                         *)
THEOREM SingleDrainKeepsContract ==
  ASSUME Cardinality(Drains) = 1
  PROVE  Spec => ImplementsContract
  <1>1. PICK d \in Drains : Drains = {d}
    BY ConstantsAssumption, FS_Singleton
  <1>2. Init => Contract!Init
    BY DEF Init, Contract!Init, SeenLedger
  <1>3. SingleInv /\ TypeOK' /\ [Next]_vars => [Contract!Next]_SeenLedger
    BY <1>1, NextIsContractStep
  <1>4. QED
    BY <1>2, <1>3, SingleDrainInv, TypeCorrect, PTL DEF Spec, ImplementsContract, Contract!Spec

-----------------------------------------------------------------------------
(* Delays.  The jobs of the batch were due when they were listed, and with *)
(* one drain nothing delays them before their turn.                        *)

DueInv == \A d \in Drains : \A j \in DOMAIN drain[d].batch : jobs[j].nextAttemptAt <= now

OnlyDueTried ==
  \A j \in DOMAIN jobs : jobs'[j].attempts # jobs[j].attempts => jobs[j].nextAttemptAt <= now

(* Dispatching the head of a batch of due jobs. *)
LEMMA BeginAttemptDue ==
  ASSUME TypeOK, NEW d \in Drains, Drains = {d}, NEW batch, IsBatch(batch, DOMAIN jobs),
         NEW j \in DOMAIN batch, BeginAttempt(d, j, batch),
         \A i \in DOMAIN batch : jobs[i].nextAttemptAt <= now
  PROVE  DueInv' /\ OnlyDueTried
  <1>1. jobs \in Seq(JobType) /\ j \in DOMAIN jobs /\ jobs[j] \in JobType
    BY JobFields DEF TypeOK, IsBatch
  <1>2. /\ \A i \in DOMAIN jobs : i # j => jobs'[i] = jobs[i]
        /\ jobs'[j].nextAttemptAt = jobs[j].nextAttemptAt /\ now' = now
    BY <1>1 DEF BeginAttempt, Started, JobType
  <1>3. drain'[d].batch = Rest(j, batch) /\ DOMAIN Rest(j, batch) \subseteq DOMAIN batch
    BY DEF BeginAttempt, TypeOK, Rest
  <1>4. DOMAIN batch \subseteq DOMAIN jobs
    BY DEF IsBatch
  <1>5. QED
    BY <1>2, <1>3, <1>4 DEF DueInv, OnlyDueTried

LEMMA NextDue ==
  ASSUME NEW d \in Drains, Drains = {d}
  PROVE  SingleInv /\ DueInv /\ [Next]_vars => DueInv' /\ OnlyDueTried
  <1> SUFFICES ASSUME SingleInv, DueInv, [Next]_vars PROVE DueInv' /\ OnlyDueTried
    OBVIOUS
  <1>1. /\ TypeOK /\ jobs \in Seq(JobType) /\ drain = [e \in Drains |-> drain[e]]
        /\ IsBatch(drain[d].batch, DOMAIN jobs) /\ DOMAIN drain[d].batch \subseteq DOMAIN jobs
    BY DEF SingleInv, TypeOK, DrainOK, IsBatch
  <1>2. \A i \in DOMAIN drain[d].batch : jobs[i].nextAttemptAt <= now
    BY DEF DueInv
  <1>3. ASSUME NEW r \in Requests, QueueNotification(r) PROVE DueInv' /\ OnlyDueTried
    <2>1. (\A i \in DOMAIN jobs : jobs'[i] = jobs[i]) /\ drain' = drain /\ now' = now
      BY <1>1, <1>3, QueueIsSubmit DEF QueueNotification
    <2>2. QED
      BY <1>1, <1>2, <2>1 DEF DueInv, OnlyDueTried
  <1>4. ASSUME NEW j \in DOMAIN jobs, RetryJob(j) PROVE DueInv' /\ OnlyDueTried
    <2>1. jobs[j] \in JobType /\ now \in Nat
      BY <1>1, JobFields DEF TypeOK
    <2>2. /\ \A i \in DOMAIN jobs : i # j => jobs'[i] = jobs[i]
          /\ jobs'[j].nextAttemptAt = now /\ jobs'[j].attempts = jobs[j].attempts
          /\ drain' = drain /\ now' = now
      BY <1>1, <1>4, <2>1 DEF RetryJob, Retried, JobType
    <2>3. ASSUME NEW i \in DOMAIN drain'[d].batch PROVE jobs'[i].nextAttemptAt <= now'
      BY <1>1, <1>2, <2>1, <2>2
    <2>4. DueInv'
      BY <2>3 DEF DueInv
    <2>5. QED
      BY <2>2, <2>4 DEF OnlyDueTried
  <1>5. ASSUME StartDrain(d) PROVE DueInv' /\ OnlyDueTried
    <2>1. PICK j \in DOMAIN ListDue : BeginAttempt(d, j, ListDue)
      BY <1>5 DEF StartDrain, IsHead
    <2>2. IsBatch(ListDue, DOMAIN jobs) /\ \A i \in DOMAIN ListDue : jobs[i].nextAttemptAt <= now
      BY <1>1, ListDueType DEF DueJobs, Due
    <2>3. QED
      BY <1>1, <2>1, <2>2, BeginAttemptDue
  <1>6. ASSUME NextInBatch(d) PROVE DueInv' /\ OnlyDueTried
    <2>1. PICK j \in DOMAIN drain[d].batch : BeginAttempt(d, j, drain[d].batch)
      BY <1>6 DEF NextInBatch
    <2>2. QED
      BY <1>1, <1>2, <2>1, BeginAttemptDue
  <1>7. ASSUME drain[d].phase = "sending", drain' = [drain EXCEPT ![d] = Returned(d)], now' = now,
               NEW j \in DOMAIN jobs, j = drain[d].job, jobs'[j].attempts = jobs[j].attempts,
               \A i \in DOMAIN jobs : i # j => jobs'[i] = jobs[i]
        PROVE  DueInv' /\ OnlyDueTried
    <2>1. j \notin DOMAIN drain[d].batch
      BY <1>7 DEF SingleInv, PendingInv
    <2>2. DOMAIN drain'[d].batch = DOMAIN drain[d].batch
      BY <1>1, <1>7 DEF Returned, Idle, EmptyBatch
    <2>3. QED
      BY <1>1, <1>2, <1>7, <2>1, <2>2 DEF DueInv, OnlyDueTried
  <1>8. ASSUME Settle(d) PROVE DueInv' /\ OnlyDueTried
    <2>1. /\ drain[d].phase = "sending" /\ drain' = [drain EXCEPT ![d] = Returned(d)] /\ now' = now
      BY <1>8 DEF Settle, MarkSent, QueuePushFallback, FailFinally, ScheduleRetry
    <2>2. PICK j \in DOMAIN jobs : j = drain[d].job
      BY <1>1, <2>1 DEF TypeOK, DrainOK
    <2>3. jobs[j] \in JobType
      BY <1>1, JobFields
    <2>4. CASE MarkSent(d) \/ FailFinally(d) \/ ScheduleRetry(d)
      <3>1. jobs'[j].attempts = jobs[j].attempts /\ \A i \in DOMAIN jobs : i # j => jobs'[i] = jobs[i]
        BY <1>1, <2>2, <2>3, <2>4, StepsChange DEF Changed
      <3>2. QED
        BY <1>7, <2>1, <2>2, <3>1
    <2>5. CASE QueuePushFallback(d)
      <3>1. jobs[j].status \in {"processing", "retrying"} /\ jobs[j].attempts > 0
        BY <2>1, <2>2 DEF SingleInv, PendingInv
      <3> DEFINE log == jobs[j].log \o FailureLog(d, "fallback_queued")
                 job == [jobs[j] EXCEPT !.status = "failed", !.log = log]
      <3>2. log \in Seq(LogEntries) /\ FallbackJobs(j) \in Seq(JobType)
        BY <1>1, <2>1, <2>2, JobFields, ExtendLog, FallbackJobsType
        DEF FailureLog, Events, Outcomes, TypeOK, DrainOK
      <3>3. jobs' = [jobs EXCEPT ![j] = job] \o FallbackJobs(j)
        BY <1>1, <2>2, <2>5 DEF QueuePushFallback
      <3>4. job \in JobType /\ job.attempts = jobs[j].attempts
        <4> HIDE DEF log
        <4> QED
          BY <2>3, <3>2 DEF JobType, Statuses
      <3> HIDE DEF job, log
      <3>5. \A i \in DOMAIN jobs : jobs'[i] = IF i = j THEN job ELSE jobs[i]
        BY <1>1, <3>2, <3>3, <3>4, ReplaceAndGrow
      <3>6. QED
        BY <1>7, <2>1, <2>2, <3>4, <3>5
    <2>6. QED
      BY <1>8, <2>4, <2>5 DEF Settle
  <1>9. CASE Tick
    <2>1. now \in Nat /\ now' = now + 1 /\ jobs' = jobs /\ drain' = drain
      BY <1>1, <1>9 DEF Tick, TypeOK
    <2>2. \A i \in DOMAIN jobs : jobs[i].nextAttemptAt \in Nat
      BY <1>1, JobFields DEF JobType
    <2>3. QED
      BY <1>1, <1>2, <2>1, <2>2 DEF DueInv, OnlyDueTried
  <1>10. CASE UNCHANGED vars
    BY <1>10 DEF vars, DueInv, OnlyDueTried
  <1>11. QED
    BY <1>3, <1>4, <1>5, <1>6, <1>8, <1>9, <1>10 DEF Next

(* With one drain at a time no job is tried before the instant its schedule *)
(* or its last retry delay set, although the batch was read long before.    *)
THEOREM SingleDrainKeepsDelays ==
  ASSUME Cardinality(Drains) = 1
  PROVE  Spec => BackoffRespected
  <1>1. PICK d \in Drains : Drains = {d}
    BY ConstantsAssumption, FS_Singleton
  <1>2. Init => DueInv
    BY DEF Init, DueInv, Idle, EmptyBatch
  <1>3. SingleInv /\ DueInv /\ [Next]_vars
          => DueInv' /\ [\A j \in DOMAIN jobs : jobs'[j].attempts # jobs[j].attempts
                                                 => jobs[j].nextAttemptAt <= now]_vars
    BY <1>1, NextDue DEF OnlyDueTried
  <1>4. QED
    BY <1>2, <1>3, SingleDrainInv, PTL DEF Spec, BackoffRespected

-----------------------------------------------------------------------------
(* The audit log.  A step adds to the log of at most one job the start of   *)
(* an attempt that goes into flight, the outcome of one that comes back, or *)
(* neither; the attempts in flight are otherwise left alone.                *)

Fresh(job) == job.attempts = 0 /\ job.log = <<LogEntry("queued", 0)>>

Telling == Starts \cup Outcomes

QuietLog(log, longer) ==
  Extends(log, longer) /\ \A p \in (Len(log) + 1)..Len(longer) : longer[p].event \notin Telling

StartLog(log, longer, n) ==
  /\ Extends(log, longer) /\ Len(longer) = Len(log) + 1
  /\ longer[Len(log) + 1] = LogEntry("attempt_started", n)

OutcomeLog(log, longer, n) ==
  /\ Extends(log, longer) /\ Len(longer) > Len(log)
  /\ longer[Len(log) + 1].event \in Outcomes /\ longer[Len(log) + 1].attempt = n
  /\ \A p \in (Len(log) + 2)..Len(longer) : longer[p].event \notin Telling

Quiet ==
  /\ drain' = drain
  /\ \A i \in DOMAIN jobs :
       jobs'[i].attempts = jobs[i].attempts /\ QuietLog(jobs[i].log, jobs'[i].log)

Dispatched(d, j) ==
  /\ drain[d].phase # "sending"
  /\ drain'[d].phase = "sending" /\ drain'[d].job = j /\ drain'[d].attempt = jobs[j].attempts + 1
  /\ \A e \in Drains : e # d => drain'[e] = drain[e]
  /\ jobs'[j].attempts = jobs[j].attempts + 1
  /\ StartLog(jobs[j].log, jobs'[j].log, jobs[j].attempts + 1)
  /\ \A i \in DOMAIN jobs : i # j => jobs'[i] = jobs[i]

Answered(d, j) ==
  /\ drain[d].phase = "sending" /\ drain[d].job = j
  /\ drain'[d].phase # "sending"
  /\ \A e \in Drains : e # d => drain'[e] = drain[e]
  /\ jobs'[j].attempts = jobs[j].attempts
  /\ OutcomeLog(jobs[j].log, jobs'[j].log, drain[d].attempt)
  /\ \A i \in DOMAIN jobs : i # j => jobs'[i] = jobs[i]

LogsMove ==
  /\ DOMAIN jobs \subseteq DOMAIN jobs'
  /\ \A i \in DOMAIN jobs' \ DOMAIN jobs : Fresh(jobs'[i])
  /\ Quiet \/ \E d \in Drains, j \in DOMAIN jobs : Dispatched(d, j) \/ Answered(d, j)

(* What is appended, in these terms. *)
LEMMA LogsGrow ==
  ASSUME NEW log \in Seq(LogEntries), NEW n \in Nat
  PROVE  /\ QuietLog(log, log)
         /\ QuietLog(log, Append(log, LogEntry("retry_requested", n)))
         /\ StartLog(log, Append(log, LogEntry("attempt_started", n)), n)
         /\ OutcomeLog(log, Append(log, LogEntry("attempt_succeeded", n)), n)
         /\ \A f \in {"fallback_queued", "failed_final", "retry_scheduled"} :
              OutcomeLog(log, log \o <<LogEntry("attempt_failed", n), LogEntry(f, n)>>, n)
  <1>1. Len(log) \in Nat
    BY LenProperties
  <1>2. QuietLog(log, log)
    BY <1>1, LogExtends DEF QuietLog, Extends
  <1>3. ASSUME NEW e
        PROVE  /\ Extends(log, Append(log, e)) /\ Len(Append(log, e)) = Len(log) + 1
               /\ Append(log, e)[Len(log) + 1] = e
    BY <1>1 DEF Extends
  <1>4. QuietLog(log, Append(log, LogEntry("retry_requested", n)))
    <2>1. LogEntry("retry_requested", n).event \notin Telling
      BY DEF LogEntry, Telling, Starts, Outcomes
    <2>2. QED
      BY <1>1, <1>3, <2>1 DEF QuietLog
  <1>5. StartLog(log, Append(log, LogEntry("attempt_started", n)), n)
    BY <1>3 DEF StartLog
  <1>6. OutcomeLog(log, Append(log, LogEntry("attempt_succeeded", n)), n)
    <2>1. /\ LogEntry("attempt_succeeded", n).event \in Outcomes
          /\ LogEntry("attempt_succeeded", n).attempt = n
      BY DEF LogEntry, Outcomes
    <2>2. QED
      BY <1>1, <1>3, <2>1 DEF OutcomeLog
  <1>7. ASSUME NEW f \in {"fallback_queued", "failed_final", "retry_scheduled"}
        PROVE  OutcomeLog(log, log \o <<LogEntry("attempt_failed", n), LogEntry(f, n)>>, n)
    <2> DEFINE more == <<LogEntry("attempt_failed", n), LogEntry(f, n)>>
               longer == log \o more
    <2>1. more \in Seq(LogEntries) /\ Len(more) = 2
            /\ more[1] = LogEntry("attempt_failed", n) /\ more[2] = LogEntry(f, n)
      BY DEF LogEntry, LogEntries, Events, Starts, Outcomes
    <2> HIDE DEF more
    <2>2. /\ Extends(log, longer) /\ Len(longer) = Len(log) + 2
          /\ longer[Len(log) + 1] = more[1] /\ longer[Len(log) + 2] = more[2]
      <3>1. /\ Len(longer) = Len(log) + 2
            /\ \A i \in 1..(Len(log) + 2) :
                 longer[i] = IF i <= Len(log) THEN log[i] ELSE more[i - Len(log)]
        <4>1. /\ Len(longer) = Len(log) + Len(more)
              /\ \A i \in 1..(Len(log) + Len(more)) :
                   longer[i] = IF i <= Len(log) THEN log[i] ELSE more[i - Len(log)]
          BY <2>1, ConcatProperties
        <4> HIDE DEF longer
        <4>2. QED
          BY <2>1, <4>1
      <3> HIDE DEF longer
      <3>2. /\ Len(log) + 1 \in 1..(Len(log) + 2) /\ Len(log) + 2 \in 1..(Len(log) + 2)
            /\ ~(Len(log) + 1 <= Len(log)) /\ ~(Len(log) + 2 <= Len(log))
            /\ (Len(log) + 1) - Len(log) = 1 /\ (Len(log) + 2) - Len(log) = 2
            /\ \A i \in 1..Len(log) : i \in 1..(Len(log) + 2) /\ i <= Len(log)
        BY <1>1
      <3>3. QED
        BY <1>1, <3>1, <3>2 DEF Extends
    <2> HIDE DEF longer
    <2>3. /\ LogEntry("attempt_failed", n).event \in Outcomes /\ LogEntry("attempt_failed", n).attempt = n
          /\ LogEntry(f, n).event \notin Telling
      BY DEF LogEntry, Telling, Starts, Outcomes
    <2>4. OutcomeLog(log, longer, n)
      BY <1>1, <2>1, <2>2, <2>3 DEF OutcomeLog
    <2>5. QED
      BY <2>4 DEF longer, more
  <1>8. QED
    BY <1>2, <1>4, <1>5, <1>6, <1>7

(* Dispatching the head of a batch. *)
LEMMA BeginAttemptLogs ==
  ASSUME TypeOK, NEW d \in Drains, drain[d].phase # "sending", NEW batch,
         IsBatch(batch, DOMAIN jobs), NEW j \in DOMAIN batch, BeginAttempt(d, j, batch)
  PROVE  LogsMove
  <1> DEFINE log == Append(jobs[j].log, LogEntry("attempt_started", NextAttempt(j)))
             job == [jobs[j] EXCEPT !.status = "processing", !.attempts = NextAttempt(j),
                                    !.log = log]
  <1>1. /\ jobs \in Seq(JobType) /\ j \in DOMAIN jobs /\ jobs[j] \in JobType
        /\ jobs[j].log \in Seq(LogEntries) /\ NextAttempt(j) \in Nat
    BY JobFields DEF TypeOK, IsBatch, NextAttempt
  <1>2. jobs' = [jobs EXCEPT ![j] = job]
    BY <1>1 DEF BeginAttempt, Started
  <1>3. StartLog(jobs[j].log, log, NextAttempt(j))
    BY <1>1, LogsGrow
  <1>4. job.attempts = NextAttempt(j) /\ job.log = log
    <2> HIDE DEF log
    <2> QED
      BY <1>1 DEF JobType
  <1> HIDE DEF job, log
  <1>5. /\ drain'[d].phase = "sending" /\ drain'[d].job = j /\ drain'[d].attempt = NextAttempt(j)
        /\ \A e \in Drains : e # d => drain'[e] = drain[e]
    BY DEF BeginAttempt, TypeOK
  <1>6. DOMAIN jobs' = DOMAIN jobs /\ jobs'[j] = job /\ \A i \in DOMAIN jobs : i # j => jobs'[i] = jobs[i]
    BY <1>1, <1>2
  <1>7. Dispatched(d, j)
    BY <1>3, <1>4, <1>5, <1>6 DEF Dispatched, NextAttempt
  <1>8. QED
    BY <1>1, <1>6, <1>7 DEF LogsMove

(* A drain gets its answer. *)
LEMMA AnswerLogs ==
  ASSUME TypeOK, NEW d \in Drains, drain[d].phase = "sending", NEW j \in DOMAIN jobs,
         j = drain[d].job, drain' = [drain EXCEPT ![d] = Returned(d)], NEW r,
         DOMAIN jobs \subseteq DOMAIN jobs',
         \A i \in DOMAIN jobs : jobs'[i] = IF i = j THEN r ELSE jobs[i],
         \A i \in DOMAIN jobs' \ DOMAIN jobs : Fresh(jobs'[i]),
         r.attempts = jobs[j].attempts, OutcomeLog(jobs[j].log, r.log, drain[d].attempt)
  PROVE  LogsMove
  <1>1. drain'[d].phase # "sending" /\ \A e \in Drains : e # d => drain'[e] = drain[e]
    BY DEF TypeOK, Returned, Idle
  <1>2. Answered(d, j)
    BY <1>1 DEF Answered
  <1>3. QED
    BY <1>2 DEF LogsMove

LEMMA NextLogs == TypeOK /\ [Next]_vars => LogsMove
  <1> SUFFICES ASSUME TypeOK, [Next]_vars PROVE LogsMove
    OBVIOUS
  <1>1. jobs \in Seq(JobType) /\ drain = [e \in Drains |-> drain[e]]
    BY DEF TypeOK
  <1>2. ASSUME NEW d \in Drains, drain[d].phase = "sending"
        PROVE  drain[d].job \in DOMAIN jobs /\ drain[d].attempt \in Nat
    BY <1>2 DEF TypeOK, DrainOK
  <1>3. \A i \in DOMAIN jobs : QuietLog(jobs[i].log, jobs[i].log)
    BY <1>1, JobFields, LogsGrow
  <1>4. ASSUME NEW r \in Requests, QueueNotification(r) PROVE LogsMove
    <2> DEFINE job(s) == NewJob(r.channel, r.fallback, s, r.maxAttempts, NoParent)
    <2>1. PICK s : jobs' = Append(jobs, job(s))
      BY <1>4 DEF QueueNotification
    <2>2. Fresh(job(s))
      BY DEF NewJob, Fresh
    <2> HIDE DEF job
    <2>3. /\ DOMAIN jobs \subseteq DOMAIN jobs'
          /\ \A i \in DOMAIN jobs : jobs'[i] = jobs[i]
          /\ \A i \in DOMAIN jobs' \ DOMAIN jobs : jobs'[i] = job(s)
      <3>1. Len(jobs) \in Nat /\ DOMAIN jobs = 1..Len(jobs)
              /\ DOMAIN Append(jobs, job(s)) = 1..(Len(jobs) + 1)
              /\ \A i \in 1..Len(jobs) : Append(jobs, job(s))[i] = jobs[i]
              /\ Append(jobs, job(s))[Len(jobs) + 1] = job(s)
        BY <1>1, LenProperties
      <3>2. QED
        BY <2>1, <3>1
    <2>4. QED
      BY <1>3, <1>4, <2>2, <2>3 DEF QueueNotification, LogsMove, Quiet
  <1>5. ASSUME NEW j \in DOMAIN jobs, RetryJob(j) PROVE LogsMove
    <2> DEFINE log == Append(jobs[j].log, LogEntry("retry_requested", jobs[j].attempts))
               job == [jobs[j] EXCEPT !.status = "retrying", !.nextAttemptAt = now, !.log = log]
    <2>1. jobs[j] \in JobType /\ QuietLog(jobs[j].log, log)
      BY <1>1, JobFields, LogsGrow
    <2>2. jobs' = [jobs EXCEPT ![j] = job] /\ drain' = drain
      BY <1>1, <1>5 DEF RetryJob, Retried
    <2>3. job.attempts = jobs[j].attempts /\ job.log = log
      <3> HIDE DEF log
      <3> QED
        BY <2>1 DEF JobType
    <2> HIDE DEF job, log
    <2>4. DOMAIN jobs' = DOMAIN jobs /\ jobs'[j] = job /\ \A i \in DOMAIN jobs : i # j => jobs'[i] = jobs[i]
      BY <1>1, <2>2
    <2>5. QED
      BY <1>3, <2>1, <2>2, <2>3, <2>4 DEF LogsMove, Quiet
  <1>6. ASSUME NEW d \in Drains, StartDrain(d) PROVE LogsMove
    BY <1>6, ListDueType, BeginAttemptLogs DEF StartDrain, IsHead
  <1>7. ASSUME NEW d \in Drains, NextInBatch(d) PROVE LogsMove
    <2>1. IsBatch(drain[d].batch, DOMAIN jobs)
      BY DEF TypeOK, DrainOK
    <2>2. QED
      BY <1>7, <2>1, BeginAttemptLogs DEF NextInBatch
  <1>8. ASSUME NEW d \in Drains, MarkSent(d) PROVE LogsMove
    <2> DEFINE j == drain[d].job
               log == Append(jobs[j].log, LogEntry("attempt_succeeded", drain[d].attempt))
               job == [jobs[j] EXCEPT !.status = "sent", !.log = log]
    <2>1. j \in DOMAIN jobs /\ jobs[j] \in JobType
      BY <1>1, <1>2, <1>8, JobFields DEF MarkSent
    <2>2. OutcomeLog(jobs[j].log, log, drain[d].attempt)
      BY <1>1, <1>2, <1>8, <2>1, JobFields, LogsGrow DEF MarkSent
    <2>3. jobs' = [jobs EXCEPT ![j] = job] /\ drain' = [drain EXCEPT ![d] = Returned(d)]
      BY <1>1, <2>1, <1>8 DEF MarkSent
    <2>4. job.attempts = jobs[j].attempts /\ job.log = log
      <3> HIDE DEF log, j
      <3> QED
        BY <2>1 DEF JobType
    <2> HIDE DEF job, j, log
    <2>5. QED
      BY <1>1, <1>8, <2>1, <2>2, <2>3, <2>4, AnswerLogs DEF j, MarkSent
  <1>9. ASSUME NEW d \in Drains, drain[d].phase = "sending",
               NEW f \in {"fallback_queued", "failed_final", "retry_scheduled"}
        PROVE  OutcomeLog(jobs[drain[d].job].log, jobs[drain[d].job].log \o FailureLog(d, f),
                          drain[d].attempt)
    BY <1>1, <1>2, <1>9, JobFields, LogsGrow DEF FailureLog
  <1>10. ASSUME NEW d \in Drains, QueuePushFallback(d) PROVE LogsMove
    <2> DEFINE j == drain[d].job
               log == jobs[j].log \o FailureLog(d, "fallback_queued")
               job == [jobs[j] EXCEPT !.status = "failed", !.log = log]
    <2>1. j \in DOMAIN jobs /\ jobs[j] \in JobType /\ FallbackJobs(j) \in Seq(JobType)
      BY <1>1, <1>2, <1>10, JobFields, FallbackJobsType DEF QueuePushFallback
    <2>2. log \in Seq(LogEntries) /\ OutcomeLog(jobs[j].log, log, drain[d].attempt)
      BY <1>1, <1>2, <1>9, <1>10, <2>1, JobFields, ExtendLog
      DEF QueuePushFallback, FailureLog, Events, Outcomes
    <2>3. jobs' = [jobs EXCEPT ![j] = job] \o FallbackJobs(j)
            /\ drain' = [drain EXCEPT ![d] = Returned(d)]
      BY <1>1, <2>1, <1>10 DEF QueuePushFallback
    <2>4. job \in JobType /\ job.attempts = jobs[j].attempts /\ job.log = log
      <3> HIDE DEF log, j
      <3> QED
        BY <2>1, <2>2 DEF JobType, Statuses
    <2>5. \A k \in DOMAIN FallbackJobs(j) : Fresh(FallbackJobs(j)[k])
      BY DEF FallbackJobs, NewJob, Fresh
    <2> HIDE DEF job, j, log
    <2>6. /\ DOMAIN jobs \subseteq DOMAIN jobs'
          /\ \A i \in DOMAIN jobs : jobs'[i] = IF i = j THEN job ELSE jobs[i]
          /\ \A i \in DOMAIN jobs' \ DOMAIN jobs :
               \E k \in DOMAIN FallbackJobs(j) : jobs'[i] = FallbackJobs(j)[k]
      BY <1>1, <2>1, <2>3, <2>4, ReplaceAndGrow
    <2>7. \A i \in DOMAIN jobs' \ DOMAIN jobs : Fresh(jobs'[i])
      BY <2>5, <2>6
    <2>8. QED
      BY <1>1, <1>10, <2>1, <2>2, <2>3, <2>4, <2>6, <2>7, AnswerLogs, ZenonT(60) DEF j, QueuePushFallback
  <1>11. ASSUME NEW d \in Drains, FailFinally(d) PROVE LogsMove
    <2> DEFINE j == drain[d].job
               log == jobs[j].log \o FailureLog(d, "failed_final")
               job == [jobs[j] EXCEPT !.status = "failed", !.log = log]
    <2>1. /\ j \in DOMAIN jobs /\ jobs[j] \in JobType
          /\ OutcomeLog(jobs[j].log, log, drain[d].attempt)
      BY <1>1, <1>2, <1>9, <1>11, JobFields DEF FailFinally
    <2>2. jobs' = [jobs EXCEPT ![j] = job] /\ drain' = [drain EXCEPT ![d] = Returned(d)]
      BY <1>1, <2>1, <1>11 DEF FailFinally
    <2>3. job.attempts = jobs[j].attempts /\ job.log = log
      <3> HIDE DEF log, j
      <3> QED
        BY <2>1 DEF JobType
    <2> HIDE DEF job, j, log
    <2>4. QED
      BY <1>1, <1>11, <2>1, <2>2, <2>3, AnswerLogs, SMTT(60) DEF j, FailFinally
  <1>12. ASSUME NEW d \in Drains, ScheduleRetry(d) PROVE LogsMove
    <2> DEFINE j == drain[d].job
               log == jobs[j].log \o FailureLog(d, "retry_scheduled")
               at == now + RetryDelay(drain[d].attempt)
               job == [jobs[j] EXCEPT !.status = "retrying", !.nextAttemptAt = at, !.log = log]
    <2>1. /\ j \in DOMAIN jobs /\ jobs[j] \in JobType
          /\ OutcomeLog(jobs[j].log, log, drain[d].attempt)
      BY <1>1, <1>2, <1>9, <1>12, JobFields DEF ScheduleRetry
    <2>2. jobs' = [jobs EXCEPT ![j] = job] /\ drain' = [drain EXCEPT ![d] = Returned(d)]
      BY <1>1, <2>1, <1>12 DEF ScheduleRetry
    <2>3. job.attempts = jobs[j].attempts /\ job.log = log
      <3> HIDE DEF log, j, at
      <3> QED
        BY <2>1 DEF JobType
    <2> HIDE DEF job, j, log
    <2>4. QED
      BY <1>1, <1>12, <2>1, <2>2, <2>3, AnswerLogs, SMTT(60) DEF j, ScheduleRetry
  <1>13. CASE Tick
    BY <1>3, <1>13 DEF Tick, LogsMove, Quiet
  <1>14. CASE UNCHANGED vars
    BY <1>3, <1>14 DEF vars, LogsMove, Quiet
  <1>15. QED
    BY <1>4, <1>5, <1>6, <1>7, <1>8, <1>10, <1>11, <1>12, <1>13, <1>14 DEF Next, Settle

(* The starts in a log with n attempts: each number up to n is there, and   *)
(* they come in order.                                                      *)
Numbered(log, n) ==
  /\ \A m \in 1..n : \E p \in DOMAIN log : log[p].event \in Starts /\ log[p].attempt = m
  /\ \A p \in DOMAIN log : log[p].event \in Starts => log[p].attempt \in 1..n
  /\ \A p, q \in DOMAIN log :
       log[p].event \in Starts /\ log[q].event \in Starts /\ p < q
         => log[p].attempt < log[q].attempt

NumberedInv == \A j \in DOMAIN jobs : Numbered(jobs[j].log, jobs[j].attempts)

(* A log that gains no start stays numbered. *)
LEMMA NumberedStays ==
  ASSUME NEW log \in Seq(LogEntries), NEW longer \in Seq(LogEntries), NEW n \in Nat,
         Numbered(log, n), Extends(log, longer),
         \A p \in (Len(log) + 1)..Len(longer) : longer[p].event \notin Starts
  PROVE  Numbered(longer, n)
  <1>1. /\ Len(log) \in Nat /\ Len(longer) \in Nat
        /\ DOMAIN log = 1..Len(log) /\ DOMAIN longer = 1..Len(longer)
    BY LenProperties
  <1>2. \A p \in DOMAIN log : p \in DOMAIN longer /\ longer[p] = log[p]
    BY <1>1 DEF Extends
  <1>3. \A p \in DOMAIN longer : longer[p].event \in Starts => p \in DOMAIN log
    BY <1>1
  <1>4. QED
    BY <1>2, <1>3 DEF Numbered

(* The next start gets the next number. *)
LEMMA NumberedStart ==
  ASSUME NEW log \in Seq(LogEntries), NEW longer \in Seq(LogEntries), NEW n \in Nat,
         Numbered(log, n), StartLog(log, longer, n + 1)
  PROVE  Numbered(longer, n + 1)
  <1>1. /\ Len(log) \in Nat /\ Len(longer) = Len(log) + 1
        /\ DOMAIN log = 1..Len(log) /\ DOMAIN longer = 1..(Len(log) + 1)
    BY LenProperties DEF StartLog
  <1>2. \A p \in DOMAIN log : p \in DOMAIN longer /\ longer[p] = log[p]
    BY <1>1 DEF StartLog, Extends
  <1>3. \A p \in DOMAIN longer : p \in DOMAIN log \/ p = Len(log) + 1
    BY <1>1
  <1>4. /\ longer[Len(log) + 1].event \in Starts /\ longer[Len(log) + 1].attempt = n + 1
        /\ Len(log) + 1 \in DOMAIN longer
    BY <1>1 DEF StartLog, LogEntry, Starts
  <1>5. ASSUME NEW m \in 1..(n + 1)
        PROVE  \E p \in DOMAIN longer : longer[p].event \in Starts /\ longer[p].attempt = m
    <2>1. CASE m \in 1..n
      BY <1>2, <2>1 DEF Numbered
    <2>2. CASE m = n + 1
      BY <1>4, <2>2
    <2>3. QED
      BY <2>1, <2>2
  <1>6. ASSUME NEW p \in DOMAIN longer, longer[p].event \in Starts
        PROVE  longer[p].attempt \in 1..(n + 1) /\ (p \in DOMAIN log => longer[p].attempt < n + 1)
    <2>1. CASE p \in DOMAIN log
      <3>1. longer[p].attempt \in 1..n
        BY <1>2, <1>6, <2>1 DEF Numbered
      <3>2. QED
        BY <3>1
    <2>2. CASE p = Len(log) + 1
      BY <1>1, <1>4, <2>2
    <2>3. QED
      BY <1>3, <2>1, <2>2
  <1>7. ASSUME NEW p \in DOMAIN longer, NEW q \in DOMAIN longer, p < q,
               longer[p].event \in Starts, longer[q].event \in Starts
        PROVE  longer[p].attempt < longer[q].attempt
    <2>1. p \in DOMAIN log
      BY <1>1, <1>7
    <2>2. CASE q \in DOMAIN log
      BY <1>2, <1>7, <2>1, <2>2 DEF Numbered
    <2>3. CASE q = Len(log) + 1
      BY <1>4, <1>6, <1>7, <2>1, <2>3
    <2>4. QED
      BY <1>3, <2>2, <2>3
  <1>8. QED
    BY <1>5, <1>6, <1>7 DEF Numbered

(* A new job has no start in its log. *)
LEMMA NumberedFresh ==
  ASSUME NEW job, Fresh(job)
  PROVE  Numbered(job.log, job.attempts)
  <1>1. /\ DOMAIN <<LogEntry("queued", 0)>> = {1} /\ <<LogEntry("queued", 0)>>[1] = LogEntry("queued", 0)
        /\ LogEntry("queued", 0).event \notin Starts
    BY DEF LogEntry, Starts
  <1>2. QED
    BY <1>1 DEF Fresh, Numbered

LEMMA NextNumbered == TypeOK /\ TypeOK' /\ NumberedInv /\ [Next]_vars => NumberedInv'
  <1> SUFFICES ASSUME TypeOK, TypeOK', NumberedInv, [Next]_vars, NEW i \in DOMAIN jobs'
               PROVE  Numbered(jobs'[i].log, jobs'[i].attempts)
    BY DEF NumberedInv
  <1>1. LogsMove
    BY NextLogs
  <1>2. jobs \in Seq(JobType) /\ jobs' \in Seq(JobType)
    BY DEF TypeOK
  <1>3. CASE i \notin DOMAIN jobs
    BY <1>1, <1>3, NumberedFresh DEF LogsMove
  <1>4. CASE i \in DOMAIN jobs
    <2>1. /\ jobs[i].log \in Seq(LogEntries) /\ jobs[i].attempts \in Nat
          /\ jobs'[i].log \in Seq(LogEntries) /\ Numbered(jobs[i].log, jobs[i].attempts)
          /\ Len(jobs[i].log) \in Nat
      BY <1>2, <1>4, JobFields, LenProperties DEF NumberedInv
    <2>2. CASE Quiet
      <3>1. /\ jobs'[i].attempts = jobs[i].attempts /\ Extends(jobs[i].log, jobs'[i].log)
            /\ \A p \in (Len(jobs[i].log) + 1)..Len(jobs'[i].log) : jobs'[i].log[p].event \notin Starts
        BY <1>4, <2>2 DEF Quiet, QuietLog, Telling
      <3>2. QED
        BY <2>1, <3>1, NumberedStays
    <2>3. ASSUME NEW d \in Drains, NEW j \in DOMAIN jobs, Dispatched(d, j)
          PROVE  Numbered(jobs'[i].log, jobs'[i].attempts)
      <3>1. CASE i = j
        BY <2>1, <2>3, <3>1, NumberedStart DEF Dispatched
      <3>2. CASE i # j
        BY <1>4, <2>1, <2>3, <3>2 DEF Dispatched
      <3>3. QED
        BY <3>1, <3>2
    <2>4. ASSUME NEW d \in Drains, NEW j \in DOMAIN jobs, Answered(d, j)
          PROVE  Numbered(jobs'[i].log, jobs'[i].attempts)
      <3>1. CASE i = j
        <4> DEFINE log == jobs[i].log
                   longer == jobs'[i].log
        <4>1. OutcomeLog(log, longer, drain[d].attempt) /\ jobs'[i].attempts = jobs[i].attempts
          BY <2>4, <3>1 DEF Answered
        <4>2. Len(longer) \in Nat
          BY <2>1, LenProperties
        <4> HIDE DEF log, longer
        <4>3. Len(log) \in Nat
          BY <2>1 DEF log
        <4>4. longer[Len(log) + 1].event \notin Starts
          BY <4>1 DEF OutcomeLog, Outcomes, Starts
        <4>5. \A p \in (Len(log) + 1)..Len(longer) : longer[p].event \notin Starts
          <5> SUFFICES ASSUME NEW p \in (Len(log) + 1)..Len(longer)
                       PROVE  longer[p].event \notin Starts
            OBVIOUS
          <5>1. p = Len(log) + 1 \/ p \in (Len(log) + 2)..Len(longer)
            BY <4>2, <4>3
          <5>2. QED
            BY <4>1, <4>4, <5>1 DEF OutcomeLog, Telling
        <4>6. Extends(log, longer)
          BY <4>1 DEF OutcomeLog
        <4>7. QED
          BY <2>1, <4>1, <4>5, <4>6, NumberedStays DEF log, longer
      <3>2. CASE i # j
        BY <1>4, <2>1, <2>4, <3>2 DEF Answered
      <3>3. QED
        BY <3>1, <3>2
    <2>5. QED
      BY <1>1, <2>2, <2>3, <2>4 DEF LogsMove
  <1>5. QED
    BY <1>3, <1>4

(* The audit log numbers the attempts of a job without gap or repetition,  *)
(* for any number of drains that dispatch it from stale batches.           *)
THEOREM AttemptsAreNumbered == Spec => []AttemptsNumberedOnce
  <1>1. Init => NumberedInv
    BY DEF Init, NumberedInv
  <1>2. NumberedInv => AttemptsNumberedOnce
    <2> SUFFICES ASSUME NumberedInv, NEW j \in DOMAIN jobs
                 PROVE  LET log == jobs[j].log
                        IN  /\ \A n \in 1..jobs[j].attempts : Logged(j, Starts, n) # {}
                            /\ \A p, q \in DOMAIN log :
                                 log[p].event \in Starts /\ log[q].event \in Starts /\ p < q
                                   => log[p].attempt < log[q].attempt
      BY DEF AttemptsNumberedOnce
    <2>1. Numbered(jobs[j].log, jobs[j].attempts)
      BY DEF NumberedInv
    <2>2. ASSUME NEW n \in 1..jobs[j].attempts PROVE Logged(j, Starts, n) # {}
      BY <2>1 DEF Numbered, Logged
    <2>3. QED
      BY <2>1, <2>2 DEF Numbered
  <1>3. QED
    BY <1>1, <1>2, TypeCorrect, NextNumbered, PTL DEF Spec

-----------------------------------------------------------------------------
(* Attempts and outcomes.  A started attempt is in flight in one drain or   *)
(* has one outcome in the log; a number that was not started has neither,   *)
(* which is why the next attempt can take it.                               *)

Flights(j, n) == {d \in Drains : InFlight(d, j, n)}

Outs(log, n) == {p \in DOMAIN log : log[p].event \in Outcomes /\ log[p].attempt = n}

AccountInv ==
  \A j \in DOMAIN jobs, n \in Nat :
    Cardinality(Flights(j, n)) + Cardinality(Outs(jobs[j].log, n))
      = IF n \in 1..jobs[j].attempts THEN 1 ELSE 0

(* Both are numbers, and count one more or less with one element. *)
LEMMA FlightsCount ==
  ASSUME NEW j, NEW n
  PROVE  /\ IsFiniteSet(Flights(j, n)) /\ Cardinality(Flights(j, n)) \in Nat
         /\ \A d \in Drains : d \notin Flights(j, n) =>
              Cardinality(Flights(j, n) \cup {d}) = Cardinality(Flights(j, n)) + 1
         /\ \A d \in Flights(j, n) : Cardinality(Flights(j, n) \ {d}) = Cardinality(Flights(j, n)) - 1
  <1>1. IsFiniteSet(Flights(j, n)) /\ Cardinality(Flights(j, n)) \in Nat
    BY ConstantsAssumption, FS_Subset, FS_CardinalityType DEF Flights
  <1>2. QED
    BY <1>1, FS_AddElement, FS_RemoveElement

LEMMA OutsCount ==
  ASSUME NEW log \in Seq(LogEntries), NEW n
  PROVE  /\ Cardinality(Outs(log, n)) \in Nat
         /\ Len(log) + 1 \notin Outs(log, n)
         /\ Cardinality(Outs(log, n) \cup {Len(log) + 1}) = Cardinality(Outs(log, n)) + 1
  <1>1. Len(log) \in Nat /\ DOMAIN log = 1..Len(log) /\ IsFiniteSet(1..Len(log))
    BY LenProperties, FS_Interval
  <1>2. IsFiniteSet(Outs(log, n)) /\ Cardinality(Outs(log, n)) \in Nat
    <2>1. Outs(log, n) \subseteq 1..Len(log)
      BY <1>1 DEF Outs
    <2>2. QED
      BY <1>1, <2>1, FS_Subset, FS_CardinalityType
  <1>3. Len(log) + 1 \notin Outs(log, n)
    BY <1>1 DEF Outs
  <1>4. QED
    BY <1>2, <1>3, FS_AddElement

(* The outcomes in a log that grows. *)
LEMMA OutsStay ==
  ASSUME NEW log \in Seq(LogEntries), NEW longer \in Seq(LogEntries), NEW n, Extends(log, longer),
         \A p \in (Len(log) + 1)..Len(longer) : longer[p].event \notin Outcomes
  PROVE  Outs(longer, n) = Outs(log, n)
  <1>1. /\ Len(log) \in Nat /\ Len(longer) \in Nat
        /\ DOMAIN log = 1..Len(log) /\ DOMAIN longer = 1..Len(longer)
    BY LenProperties
  <1>2. \A p \in DOMAIN log : p \in DOMAIN longer /\ longer[p] = log[p]
    BY <1>1 DEF Extends
  <1>3. \A p \in DOMAIN longer : longer[p].event \in Outcomes => p \in DOMAIN log
    BY <1>1
  <1>4. QED
    BY <1>2, <1>3 DEF Outs

LEMMA OutsGain ==
  ASSUME NEW log \in Seq(LogEntries), NEW longer \in Seq(LogEntries), NEW m, NEW n,
         OutcomeLog(log, longer, m)
  PROVE  Outs(longer, n) = IF n = m THEN Outs(log, n) \cup {Len(log) + 1} ELSE Outs(log, n)
  <1>1. /\ Len(log) \in Nat /\ Len(longer) \in Nat /\ Len(longer) > Len(log)
        /\ DOMAIN log = 1..Len(log) /\ DOMAIN longer = 1..Len(longer)
    BY LenProperties DEF OutcomeLog
  <1>2. \A p \in DOMAIN log : p \in DOMAIN longer /\ longer[p] = log[p]
    BY <1>1 DEF OutcomeLog, Extends
  <1>3. \A p \in DOMAIN longer : longer[p].event \in Outcomes => p \in DOMAIN log \/ p = Len(log) + 1
    <2> SUFFICES ASSUME NEW p \in DOMAIN longer, p \notin DOMAIN log, p # Len(log) + 1
                 PROVE  longer[p].event \notin Outcomes
      OBVIOUS
    <2>1. p \in (Len(log) + 2)..Len(longer)
      BY <1>1
    <2>2. QED
      BY <2>1 DEF OutcomeLog, Telling
  <1>4. /\ Len(log) + 1 \in DOMAIN longer /\ Len(log) + 1 \notin DOMAIN log
        /\ longer[Len(log) + 1].event \in Outcomes /\ longer[Len(log) + 1].attempt = m
    BY <1>1 DEF OutcomeLog
  <1>5. QED
    BY <1>2, <1>3, <1>4 DEF Outs

(* A job that no step touches, or only quietly, keeps its account. *)
LEMMA AccountStays ==
  ASSUME AccountInv, NEW i \in DOMAIN jobs, NEW n \in Nat,
         jobs'[i].attempts = jobs[i].attempts, Flights(i, n)' = Flights(i, n),
         Outs(jobs'[i].log, n) = Outs(jobs[i].log, n)
  PROVE  Cardinality(Flights(i, n)') + Cardinality(Outs(jobs'[i].log, n))
           = IF n \in 1..jobs'[i].attempts THEN 1 ELSE 0
  BY DEF AccountInv

LEMMA NextAccount == TypeOK /\ TypeOK' /\ AccountInv /\ [Next]_vars => AccountInv'
  <1> SUFFICES ASSUME TypeOK, TypeOK', AccountInv, [Next]_vars,
                      NEW i \in DOMAIN jobs', NEW n \in Nat
               PROVE  Cardinality(Flights(i, n)') + Cardinality(Outs(jobs'[i].log, n))
                        = IF n \in 1..jobs'[i].attempts THEN 1 ELSE 0
    BY DEF AccountInv
  <1>1. LogsMove
    BY NextLogs
  <1>2. jobs \in Seq(JobType) /\ jobs' \in Seq(JobType)
    BY DEF TypeOK
  <1>3. \A d \in Drains : drain[d].phase = "sending" =>
          drain[d].job \in DOMAIN jobs /\ drain[d].attempt \in Nat
    BY DEF TypeOK, DrainOK
  <1>4. CASE i \notin DOMAIN jobs
    <2>1. ASSUME NEW d \in Drains PROVE ~InFlight(d, i, n)'
      <3>1. CASE Quiet
        BY <1>3, <1>4, <3>1 DEF Quiet, InFlight
      <3>2. ASSUME NEW e \in Drains, NEW j \in DOMAIN jobs, Dispatched(e, j) \/ Answered(e, j)
            PROVE  ~InFlight(d, i, n)'
        <4>1. CASE d = e
          BY <1>4, <3>2, <4>1 DEF Dispatched, Answered, InFlight
        <4>2. CASE d # e
          BY <1>3, <1>4, <3>2, <4>2 DEF Dispatched, Answered, InFlight
        <4>3. QED
          BY <4>1, <4>2
      <3>3. QED
        BY <1>1, <3>1, <3>2 DEF LogsMove
    <2>2. Flights(i, n)' = {}
      BY <2>1 DEF Flights
    <2>3. Fresh(jobs'[i])
      BY <1>1, <1>4 DEF LogsMove
    <2>4. Outs(jobs'[i].log, n) = {}
      <3>1. /\ DOMAIN <<LogEntry("queued", 0)>> = {1}
            /\ <<LogEntry("queued", 0)>>[1] = LogEntry("queued", 0)
            /\ LogEntry("queued", 0).event \notin Outcomes
        BY DEF LogEntry, Outcomes
      <3>2. QED
        BY <2>3, <3>1 DEF Fresh, Outs
    <2>5. n \notin 1..jobs'[i].attempts
      BY <2>3 DEF Fresh
    <2>6. QED
      BY <2>2, <2>4, <2>5, FS_EmptySet
  <1>5. CASE i \in DOMAIN jobs
    <2> DEFINE log == jobs[i].log
               longer == jobs'[i].log
               a == jobs[i].attempts
    <2>1. /\ log \in Seq(LogEntries) /\ longer \in Seq(LogEntries) /\ a \in Nat
          /\ Len(log) \in Nat /\ Len(longer) \in Nat
      BY <1>2, <1>5, JobFields, LenProperties
    <2>2. Cardinality(Flights(i, n)) + Cardinality(Outs(log, n)) = IF n \in 1..a THEN 1 ELSE 0
      BY <1>5 DEF AccountInv
    <2>3. /\ Cardinality(Flights(i, n)) \in Nat /\ Cardinality(Outs(log, n)) \in Nat
      BY <2>1, FlightsCount, OutsCount
    <2>4. CASE Quiet
      <3>1. Outs(longer, n) = Outs(log, n)
        <4>1. Extends(log, longer) /\ \A p \in (Len(log) + 1)..Len(longer) : longer[p].event \notin Outcomes
          BY <1>5, <2>4 DEF Quiet, QuietLog, Telling
        <4> HIDE DEF log, longer
        <4>2. QED
          BY <2>1, <4>1, OutsStay
      <3>2. Flights(i, n)' = Flights(i, n) /\ jobs'[i].attempts = jobs[i].attempts
        BY <1>5, <2>4 DEF Quiet, Flights, InFlight
      <3>3. QED
        BY <1>5, <3>1, <3>2, AccountStays
    <2>5. ASSUME NEW d \in Drains, NEW j \in DOMAIN jobs, Dispatched(d, j)
          PROVE  Cardinality(Flights(i, n)') + Cardinality(Outs(longer, n))
                   = IF n \in 1..jobs'[i].attempts THEN 1 ELSE 0
      <3>1. CASE i # j
        <4>1. Flights(i, n)' = Flights(i, n)
          BY <2>5, <3>1 DEF Dispatched, Flights, InFlight
        <4>2. jobs'[i] = jobs[i]
          BY <1>5, <2>5, <3>1 DEF Dispatched
        <4>3. QED
          BY <1>5, <4>1, <4>2, AccountStays
      <3>2. CASE i = j
        <4>1. StartLog(log, longer, a + 1) /\ jobs'[i].attempts = a + 1
          BY <2>5, <3>2 DEF Dispatched
        <4>2. Outs(longer, n) = Outs(log, n)
          <5> HIDE DEF log, longer, a
          <5>1. LogEntry("attempt_started", a + 1).event \notin Outcomes
            BY DEF LogEntry, Outcomes
          <5>2. Extends(log, longer)
                  /\ \A p \in (Len(log) + 1)..Len(longer) : longer[p].event \notin Outcomes
            BY <2>1, <4>1, <5>1 DEF StartLog
          <5>3. QED
            BY <2>1, <5>2, OutsStay
        <4>3. d \notin Flights(i, n)
          BY <2>5 DEF Dispatched, Flights, InFlight
        <4>4. Flights(i, n)' = IF n = a + 1 THEN Flights(i, n) \cup {d} ELSE Flights(i, n)
          BY <2>5, <3>2, <4>3 DEF Dispatched, Flights, InFlight
        <4>5. CASE n = a + 1
          <5>1. Cardinality(Flights(i, n)') = Cardinality(Flights(i, n)) + 1
            BY <4>3, <4>4, <4>5, FlightsCount
          <5> HIDE DEF log, longer, a
          <5>2. n \notin 1..a /\ n \in 1..(a + 1)
            BY <2>1, <4>5
          <5>3. QED
            BY <2>2, <2>3, <4>1, <4>2, <5>1, <5>2
        <4>6. CASE n # a + 1
          <5> HIDE DEF log, longer, a
          <5>1. n \in 1..a <=> n \in 1..(a + 1)
            BY <2>1, <4>6
          <5>2. QED
            BY <2>2, <2>3, <4>1, <4>2, <4>4, <4>6, <5>1
        <4>7. QED
          BY <4>5, <4>6
      <3>3. QED
        BY <3>1, <3>2
    <2>6. ASSUME NEW d \in Drains, NEW j \in DOMAIN jobs, Answered(d, j)
          PROVE  Cardinality(Flights(i, n)') + Cardinality(Outs(longer, n))
                   = IF n \in 1..jobs'[i].attempts THEN 1 ELSE 0
      <3>1. CASE i # j
        <4>1. Flights(i, n)' = Flights(i, n)
          BY <2>6, <3>1 DEF Answered, Flights, InFlight
        <4>2. jobs'[i] = jobs[i]
          BY <1>5, <2>6, <3>1 DEF Answered
        <4>3. QED
          BY <1>5, <4>1, <4>2, AccountStays
      <3>2. CASE i = j /\ n # drain[d].attempt
        <4>1. Flights(i, n)' = Flights(i, n)
          BY <2>6, <3>2 DEF Answered, Flights, InFlight
        <4>2. OutcomeLog(log, longer, drain[d].attempt) /\ jobs'[i].attempts = jobs[i].attempts
          BY <2>6, <3>2 DEF Answered
        <4>3. Outs(longer, n) = Outs(log, n)
          <5> HIDE DEF log, longer
          <5>1. QED
            BY <2>1, <3>2, <4>2, OutsGain
        <4>4. QED
          BY <1>5, <4>1, <4>2, <4>3, AccountStays
      <3>3. CASE i = j /\ n = drain[d].attempt
        <4>1. d \in Flights(i, n) /\ Flights(i, n)' = Flights(i, n) \ {d}
          BY <2>6, <3>3 DEF Answered, Flights, InFlight
        <4>2. OutcomeLog(log, longer, drain[d].attempt) /\ jobs'[i].attempts = a
          BY <2>6, <3>3 DEF Answered
        <4>3. Cardinality(Flights(i, n)') = Cardinality(Flights(i, n)) - 1
          BY <4>1, FlightsCount
        <4> HIDE DEF log, longer, a
        <4>4. Cardinality(Outs(longer, n)) = Cardinality(Outs(log, n)) + 1
          <5>1. Outs(longer, n) = Outs(log, n) \cup {Len(log) + 1}
            BY <2>1, <3>3, <4>2, OutsGain
          <5>2. QED
            BY <2>1, <5>1, OutsCount
        <4>5. QED
          BY <2>2, <2>3, <4>2, <4>3, <4>4
      <3>4. QED
        BY <3>1, <3>2, <3>3
    <2>7. QED
      BY <1>1, <2>4, <2>5, <2>6 DEF LogsMove
  <1>6. QED
    BY <1>4, <1>5

(* No outcome of an attempt is lost and none is written twice, for any     *)
(* number of drains and answers in any order.                              *)
THEOREM AttemptsAreAccountedFor == Spec => []EveryAttemptAccountedFor
  <1>1. Init => AccountInv
    BY DEF Init, AccountInv
  <1>2. TypeOK /\ AccountInv => EveryAttemptAccountedFor
    <2> SUFFICES ASSUME TypeOK, AccountInv, NEW j \in DOMAIN jobs, NEW n \in 1..jobs[j].attempts
                 PROVE  Cardinality({d \in Drains : InFlight(d, j, n)})
                          + Cardinality(Logged(j, Outcomes, n)) = 1
      BY DEF EveryAttemptAccountedFor
    <2>1. n \in Nat
      BY JobFields DEF TypeOK
    <2>2. Flights(j, n) = {d \in Drains : InFlight(d, j, n)}
            /\ Outs(jobs[j].log, n) = Logged(j, Outcomes, n)
      BY DEF Flights, Outs, Logged
    <2>3. QED
      BY <2>1, <2>2 DEF AccountInv
  <1>3. QED
    BY <1>1, <1>2, TypeCorrect, NextAccount, PTL DEF Spec

-----------------------------------------------------------------------------
(* Fallback jobs.  A failed push attempt adds one child for every fallback  *)
(* target, and nothing else adds children or counts failures of such jobs;  *)
(* a new job has no children yet, because parents are there before them.    *)

FallsBackTo(j, c) == jobs[j].channel = "push" /\ c \in jobs[j].fallback

Children(j, c) == {k \in DOMAIN jobs : jobs[k].parent = j /\ jobs[k].channel = c}

Failed(log) == {p \in DOMAIN log : log[p].event = "attempt_failed"}

FallbackInv ==
  /\ \A k \in DOMAIN jobs : jobs[k].parent \in DOMAIN jobs \cup {NoParent}
  /\ \A j \in DOMAIN jobs, c \in {"email", "sms"} :
       Cardinality(Children(j, c))
         = IF FallsBackTo(j, c) THEN Cardinality(Failed(jobs[j].log)) ELSE 0

(* The same parent, channel and fallback targets, and a log of which       *)
(* FallbackInv counts the same failures.                                   *)
SameFamily(job, after) ==
  /\ after.parent = job.parent /\ after.channel = job.channel /\ after.fallback = job.fallback
  /\ \/ Failed(after.log) = Failed(job.log)
     \/ \A c \in {"email", "sms"} : ~(job.channel = "push" /\ c \in job.fallback)

(* Each fallback target of a push job is once among its fallback channels. *)
LEMMA ChannelsOnce ==
  ASSUME NEW j, jobs[j] \in JobType, NEW c \in {"email", "sms"}
  PROVE  /\ FallsBackTo(j, c) =>
              \E k \in DOMAIN FallbackChannels(j) :
                \A l \in DOMAIN FallbackChannels(j) : FallbackChannels(j)[l] = c <=> l = k
         /\ ~FallsBackTo(j, c) => \A l \in DOMAIN FallbackChannels(j) : FallbackChannels(j)[l] # c
  <1> DEFINE both == <<"email">> \o <<"sms">>
  <1>1. /\ << >> \o << >> = << >> /\ <<"email">> \o << >> = <<"email">>
        /\ << >> \o <<"sms">> = <<"sms">>
        /\ DOMAIN both = {1, 2} /\ both[1] = "email" /\ both[2] = "sms"
    <2>1. /\ << >> \in Seq({"email", "sms"})
          /\ <<"email">> \in Seq({"email", "sms"}) /\ Len(<<"email">>) = 1
          /\ <<"sms">> \in Seq({"email", "sms"}) /\ Len(<<"sms">>) = 1
      OBVIOUS
    <2>2. /\ both \in Seq({"email", "sms"}) /\ Len(both) = Len(<<"email">>) + Len(<<"sms">>)
          /\ \A i \in 1..(Len(<<"email">>) + Len(<<"sms">>)) :
               both[i] = IF i <= Len(<<"email">>) THEN <<"email">>[i]
                         ELSE <<"sms">>[i - Len(<<"email">>)]
      BY <2>1, ConcatProperties
    <2> HIDE DEF both
    <2>3. /\ both \in Seq({"email", "sms"}) /\ Len(both) = 2
          /\ \A i \in 1..2 : both[i] = IF i <= 1 THEN <<"email">>[i] ELSE <<"sms">>[i - 1]
      BY <2>1, <2>2
    <2>4. DOMAIN both = {1, 2}
      BY <2>3, LenProperties
    <2>5. both[1] = "email" /\ both[2] = "sms"
      BY <2>3
    <2>6. /\ << >> \o << >> = << >> /\ <<"email">> \o << >> = <<"email">>
          /\ << >> \o <<"sms">> = <<"sms">>
      BY <2>1, ConcatEmptySeq
    <2>7. QED
      BY <2>4, <2>5, <2>6
  <1> HIDE DEF both
  <1>2. /\ DOMAIN << >> = {}
        /\ DOMAIN <<"email">> = {1} /\ <<"email">>[1] = "email"
        /\ DOMAIN <<"sms">> = {1} /\ <<"sms">>[1] = "sms"
    OBVIOUS
  <1>3. CASE jobs[j].channel # "push"
    BY <1>2, <1>3 DEF FallbackChannels, FallsBackTo
  <1>4. CASE jobs[j].channel = "push" /\ "email" \in jobs[j].fallback /\ "sms" \in jobs[j].fallback
    <2>1. FallbackChannels(j) = both
      BY <1>4 DEF FallbackChannels, both
    <2>2. QED
      BY <1>1, <1>4, <2>1 DEF FallsBackTo
  <1>5. CASE jobs[j].channel = "push" /\ "email" \in jobs[j].fallback /\ "sms" \notin jobs[j].fallback
    <2>1. FallbackChannels(j) = <<"email">>
      BY <1>1, <1>5 DEF FallbackChannels
    <2>2. QED
      BY <1>2, <1>5, <2>1 DEF FallsBackTo
  <1>6. CASE jobs[j].channel = "push" /\ "email" \notin jobs[j].fallback /\ "sms" \in jobs[j].fallback
    <2>1. FallbackChannels(j) = <<"sms">>
      BY <1>1, <1>6 DEF FallbackChannels
    <2>2. QED
      BY <1>2, <1>6, <2>1 DEF FallsBackTo
  <1>7. CASE jobs[j].channel = "push" /\ "email" \notin jobs[j].fallback /\ "sms" \notin jobs[j].fallback
    <2>1. FallbackChannels(j) = << >>
      BY <1>1, <1>7 DEF FallbackChannels
    <2>2. QED
      BY <1>2, <1>7, <2>1 DEF FallsBackTo
  <1>8. QED
    BY <1>3, <1>4, <1>5, <1>6, <1>7

(* The failures in a log that gains other entries, or one failure.         *)
LEMMA FailuresCount ==
  ASSUME NEW log \in Seq(LogEntries), NEW n \in Nat
  PROVE  /\ \A e : e # "attempt_failed" => Failed(Append(log, LogEntry(e, n))) = Failed(log)
         /\ \A f : f # "attempt_failed" =>
              Failed(log \o <<LogEntry("attempt_failed", n), LogEntry(f, n)>>)
                = Failed(log) \cup {Len(log) + 1}
         /\ Len(log) + 1 \notin Failed(log)
         /\ IsFiniteSet(Failed(log)) /\ Cardinality(Failed(log)) \in Nat
         /\ Cardinality(Failed(log) \cup {Len(log) + 1}) = Cardinality(Failed(log)) + 1
  <1>1. Len(log) \in Nat /\ DOMAIN log = 1..Len(log) /\ IsFiniteSet(1..Len(log))
    BY LenProperties, FS_Interval
  <1>2. ASSUME NEW e, e # "attempt_failed"
        PROVE  Failed(Append(log, LogEntry(e, n))) = Failed(log)
    <2> DEFINE longer == Append(log, LogEntry(e, n))
    <2>1. /\ DOMAIN longer = 1..(Len(log) + 1) /\ longer[Len(log) + 1] = LogEntry(e, n)
          /\ \A p \in 1..Len(log) : longer[p] = log[p]
      BY <1>1
    <2>2. LogEntry(e, n).event = e
      BY DEF LogEntry
    <2> HIDE DEF longer
    <2>3. \A p \in 1..(Len(log) + 1) : p \in 1..Len(log) \/ p = Len(log) + 1
      BY <1>1
    <2>4. \A p \in 1..Len(log) : p \in 1..(Len(log) + 1)
      BY <1>1
    <2>5. Failed(longer) = Failed(log)
      BY <1>1, <1>2, <2>1, <2>2, <2>3, <2>4 DEF Failed
    <2>6. QED
      BY <2>5 DEF longer
  <1>3. ASSUME NEW f, f # "attempt_failed"
        PROVE  Failed(log \o <<LogEntry("attempt_failed", n), LogEntry(f, n)>>)
                 = Failed(log) \cup {Len(log) + 1}
    <2> DEFINE more == <<LogEntry("attempt_failed", n), LogEntry(f, n)>>
               S == LogEntries \cup {LogEntry(f, n), LogEntry("attempt_failed", n)}
               longer == log \o more
    <2>1. more \in Seq(S) /\ log \in Seq(S) /\ Len(more) = 2
            /\ more[1] = LogEntry("attempt_failed", n) /\ more[2] = LogEntry(f, n)
      <3>1. more \in Seq(S) /\ Len(more) = 2
              /\ more[1] = LogEntry("attempt_failed", n) /\ more[2] = LogEntry(f, n)
        OBVIOUS
      <3>2. log \in Seq(S)
        <4> HIDE DEF more
        <4>1. LogEntries \subseteq S
          OBVIOUS
        <4>2. QED
          BY <4>1
      <3>3. QED
        BY <3>1, <3>2
    <2> HIDE DEF more, S
    <2>2. /\ longer \in Seq(S) /\ Len(longer) = Len(log) + Len(more)
          /\ \A p \in 1..(Len(log) + Len(more)) :
               longer[p] = IF p <= Len(log) THEN log[p] ELSE more[p - Len(log)]
      BY <2>1, ConcatProperties
    <2>3. DOMAIN longer = 1..(Len(log) + 2)
      BY <2>1, <2>2, LenProperties
    <2> HIDE DEF longer
    <2>4. /\ \A p \in 1..Len(log) : p \in 1..(Len(log) + 2) /\ p <= Len(log)
          /\ Len(log) + 1 \in 1..(Len(log) + 2) /\ ~(Len(log) + 1 <= Len(log))
          /\ Len(log) + 2 \in 1..(Len(log) + 2) /\ ~(Len(log) + 2 <= Len(log))
          /\ (Len(log) + 1) - Len(log) = 1 /\ (Len(log) + 2) - Len(log) = 2
          /\ \A p \in 1..(Len(log) + 2) : p \in 1..Len(log) \/ p = Len(log) + 1 \/ p = Len(log) + 2
      BY <1>1
    <2>5. /\ \A p \in 1..Len(log) : longer[p] = log[p]
          /\ longer[Len(log) + 1].event = "attempt_failed" /\ longer[Len(log) + 2].event = f
      BY <2>1, <2>2, <2>4 DEF LogEntry
    <2>6. Failed(longer) = Failed(log) \cup {Len(log) + 1}
      BY <1>1, <1>3, <2>3, <2>4, <2>5 DEF Failed
    <2>7. QED
      BY <2>6 DEF longer, more
  <1>4. Len(log) + 1 \notin Failed(log)
    BY <1>1 DEF Failed
  <1>5. IsFiniteSet(Failed(log)) /\ Cardinality(Failed(log)) \in Nat
    <2>1. Failed(log) \subseteq 1..Len(log)
      BY <1>1 DEF Failed
    <2>2. QED
      BY <1>1, <2>1, FS_Subset, FS_CardinalityType
  <1>6. QED
    BY <1>2, <1>3, <1>4, <1>5, FS_AddElement

(* A step after which every job has the family it had and new jobs have    *)
(* no parent.                                                              *)
LEMMA FamiliesStay ==
  ASSUME TypeOK, FallbackInv, DOMAIN jobs \subseteq DOMAIN jobs',
         \A i \in DOMAIN jobs : SameFamily(jobs[i], jobs'[i]),
         \A i \in DOMAIN jobs' \ DOMAIN jobs : Fresh(jobs'[i]) /\ jobs'[i].parent = NoParent,
         0 \notin DOMAIN jobs'
  PROVE  FallbackInv'
  <1>1. \A k \in DOMAIN jobs' : jobs'[k].parent \in DOMAIN jobs \cup {NoParent}
    BY DEF FallbackInv, SameFamily
  <1>2. ASSUME NEW j \in DOMAIN jobs', NEW c \in {"email", "sms"}
        PROVE  Cardinality(Children(j, c)')
                 = IF FallsBackTo(j, c)' THEN Cardinality(Failed(jobs'[j].log)) ELSE 0
    <2>1. CASE j \in DOMAIN jobs
      <3>1. Children(j, c)' = Children(j, c)
        BY <2>1 DEF Children, SameFamily, NoParent
      <3>2. FallsBackTo(j, c)' <=> FallsBackTo(j, c)
        BY <2>1 DEF FallsBackTo, SameFamily
      <3>3. FallsBackTo(j, c) => Failed(jobs'[j].log) = Failed(jobs[j].log)
        BY <2>1 DEF FallsBackTo, SameFamily
      <3>4. Cardinality(Children(j, c))
              = IF FallsBackTo(j, c) THEN Cardinality(Failed(jobs[j].log)) ELSE 0
        BY <2>1 DEF FallbackInv
      <3>5. QED
        BY <3>1, <3>2, <3>3, <3>4
    <2>2. CASE j \notin DOMAIN jobs
      <3>1. Children(j, c)' = {}
        BY <1>1, <2>2 DEF Children, NoParent
      <3>2. Failed(jobs'[j].log) = {}
        <4>1. /\ DOMAIN <<LogEntry("queued", 0)>> = {1}
              /\ <<LogEntry("queued", 0)>>[1].event = "queued"
          BY DEF LogEntry
        <4>2. QED
          BY <2>2, <4>1 DEF Fresh, Failed
      <3>3. QED
        BY <3>1, <3>2, FS_EmptySet
    <2>3. QED
      BY <2>1, <2>2
  <1>3. QED
    BY <1>1, <1>2 DEF FallbackInv

(* The job of a failed push attempt gets its children at the end. *)
LEMMA ChildrenAdded ==
  ASSUME TypeOK, NEW j \in DOMAIN jobs, NEW job \in JobType,
         jobs' = [jobs EXCEPT ![j] = job] \o FallbackJobs(j)
  PROVE  /\ DOMAIN jobs \subseteq DOMAIN jobs'
         /\ \A i \in DOMAIN jobs : jobs'[i] = IF i = j THEN job ELSE jobs[i]
         /\ \A k \in DOMAIN FallbackChannels(j) :
              /\ Len(jobs) + k \in DOMAIN jobs' \ DOMAIN jobs
              /\ jobs'[Len(jobs) + k] = FallbackJobs(j)[k]
         /\ \A i \in DOMAIN jobs' \ DOMAIN jobs :
              \E k \in DOMAIN FallbackChannels(j) : i = Len(jobs) + k
         /\ \A k, l \in DOMAIN FallbackChannels(j) : Len(jobs) + k = Len(jobs) + l => k = l
  <1> DEFINE u == [jobs EXCEPT ![j] = job]
             more == FallbackJobs(j)
  <1>1. /\ jobs \in Seq(JobType) /\ jobs[j] \in JobType /\ more \in Seq(JobType)
        /\ DOMAIN more = DOMAIN FallbackChannels(j)
    BY JobFields, FallbackJobsType DEF TypeOK, FallbackJobs
  <1>2. u \in Seq(JobType) /\ DOMAIN u = DOMAIN jobs /\ \A i \in DOMAIN jobs : u[i] = IF i = j THEN job ELSE jobs[i]
    BY <1>1, ReplaceJob
  <1> HIDE DEF u, more
  <1>3. /\ Len(jobs) \in Nat /\ DOMAIN jobs = 1..Len(jobs) /\ Len(u) = Len(jobs)
        /\ Len(more) \in Nat /\ DOMAIN more = 1..Len(more)
    BY <1>1, <1>2, LenProperties
  <1>4. /\ jobs' \in Seq(JobType) /\ Len(jobs') = Len(jobs) + Len(more)
        /\ \A i \in 1..(Len(jobs) + Len(more)) :
             jobs'[i] = IF i <= Len(jobs) THEN u[i] ELSE more[i - Len(jobs)]
    <2>1. jobs' = u \o more
      BY DEF u, more
    <2>2. /\ u \o more \in Seq(JobType) /\ Len(u \o more) = Len(u) + Len(more)
          /\ \A i \in 1..(Len(u) + Len(more)) :
               (u \o more)[i] = IF i <= Len(u) THEN u[i] ELSE more[i - Len(u)]
      BY <1>1, <1>2, ConcatProperties
    <2>3. QED
      BY <1>3, <2>1, <2>2
  <1>5. DOMAIN jobs' = 1..(Len(jobs) + Len(more))
    BY <1>4, LenProperties
  <1>6. \A i \in DOMAIN jobs : i \in DOMAIN jobs' /\ jobs'[i] = IF i = j THEN job ELSE jobs[i]
    BY <1>2, <1>3, <1>4, <1>5
  <1>7. ASSUME NEW k \in DOMAIN more
        PROVE  Len(jobs) + k \in DOMAIN jobs' \ DOMAIN jobs /\ jobs'[Len(jobs) + k] = more[k]
    <2>1. /\ k \in 1..Len(more) /\ Len(jobs) + k \in 1..(Len(jobs) + Len(more))
          /\ ~(Len(jobs) + k <= Len(jobs)) /\ (Len(jobs) + k) - Len(jobs) = k
      BY <1>3
    <2>2. QED
      BY <1>3, <1>4, <1>5, <2>1
  <1>8. ASSUME NEW i \in DOMAIN jobs' \ DOMAIN jobs PROVE \E k \in DOMAIN more : i = Len(jobs) + k
    <2>1. i - Len(jobs) \in 1..Len(more) /\ i = Len(jobs) + (i - Len(jobs))
      BY <1>3, <1>5
    <2>2. QED
      BY <1>3, <2>1
  <1>9. \A k, l \in DOMAIN more : Len(jobs) + k = Len(jobs) + l => k = l
    BY <1>3
  <1>10. QED
    BY <1>1, <1>6, <1>7, <1>8, <1>9 DEF more

(* One more failure, one more child for every target. *)
LEMMA FamilyGrows ==
  ASSUME TypeOK, FallbackInv, NEW j \in DOMAIN jobs, NEW job \in JobType,
         jobs' = [jobs EXCEPT ![j] = job] \o FallbackJobs(j),
         job.parent = jobs[j].parent, job.channel = jobs[j].channel,
         job.fallback = jobs[j].fallback,
         Failed(job.log) = Failed(jobs[j].log) \cup {Len(jobs[j].log) + 1},
         0 \notin DOMAIN jobs'
  PROVE  FallbackInv'
  <1>1. jobs \in Seq(JobType) /\ jobs[j] \in JobType /\ jobs[j].log \in Seq(LogEntries)
    BY JobFields DEF TypeOK
  <1>2. /\ DOMAIN jobs \subseteq DOMAIN jobs'
        /\ \A i \in DOMAIN jobs : jobs'[i] = IF i = j THEN job ELSE jobs[i]
        /\ \A k \in DOMAIN FallbackChannels(j) :
             /\ Len(jobs) + k \in DOMAIN jobs' \ DOMAIN jobs
             /\ jobs'[Len(jobs) + k] = FallbackJobs(j)[k]
        /\ \A i \in DOMAIN jobs' \ DOMAIN jobs :
             \E k \in DOMAIN FallbackChannels(j) : i = Len(jobs) + k
        /\ \A k, l \in DOMAIN FallbackChannels(j) : Len(jobs) + k = Len(jobs) + l => k = l
    BY ChildrenAdded
  <1>3. \A k \in DOMAIN FallbackChannels(j) :
          /\ FallbackJobs(j)[k].parent = j /\ FallbackJobs(j)[k].channel = FallbackChannels(j)[k]
          /\ Fresh(FallbackJobs(j)[k])
    BY DEF FallbackJobs, NewJob, Fresh
  <1>4. \A i \in DOMAIN jobs :
          /\ jobs'[i].parent = jobs[i].parent /\ jobs'[i].channel = jobs[i].channel
          /\ jobs'[i].fallback = jobs[i].fallback /\ i # j => jobs'[i].log = jobs[i].log
    BY <1>2
  <1>5. \A k \in DOMAIN jobs' : jobs'[k].parent \in DOMAIN jobs \cup {NoParent}
    <2>1. \A k \in DOMAIN jobs' \ DOMAIN jobs : jobs'[k].parent = j
      BY <1>2, <1>3
    <2>2. \A k \in DOMAIN jobs : jobs'[k].parent \in DOMAIN jobs \cup {NoParent}
      BY <1>4 DEF FallbackInv
    <2>3. QED
      BY <2>1, <2>2
  <1>6. ASSUME NEW i \in DOMAIN jobs', NEW c \in {"email", "sms"}
        PROVE  Cardinality(Children(i, c)')
                 = IF FallsBackTo(i, c)' THEN Cardinality(Failed(jobs'[i].log)) ELSE 0
    <2>1. CASE i \in DOMAIN jobs /\ i # j
      <3>1. \A k \in DOMAIN jobs' \ DOMAIN jobs : jobs'[k].parent = j
        BY <1>2, <1>3
      <3>2. Children(i, c)' = Children(i, c)
        BY <1>2, <1>4, <2>1, <3>1 DEF Children
      <3>3. FallsBackTo(i, c)' <=> FallsBackTo(i, c)
        BY <1>4, <2>1 DEF FallsBackTo
      <3>4. QED
        BY <1>4, <2>1, <3>2, <3>3 DEF FallbackInv
    <2>2. CASE i = j
      <3>1. Cardinality(Children(j, c))
              = IF FallsBackTo(j, c) THEN Cardinality(Failed(jobs[j].log)) ELSE 0
        BY DEF FallbackInv
      <3>2. FallsBackTo(j, c)' <=> FallsBackTo(j, c)
        BY <1>4 DEF FallsBackTo
      <3>3. \A k \in DOMAIN FallbackChannels(j) :
              /\ Len(jobs) + k \in DOMAIN jobs' \ DOMAIN jobs
              /\ jobs'[Len(jobs) + k].parent = j
              /\ jobs'[Len(jobs) + k].channel = FallbackChannels(j)[k]
        BY <1>2, <1>3
      <3>4. CASE ~FallsBackTo(j, c)
        <4>1. \A k \in DOMAIN FallbackChannels(j) : FallbackChannels(j)[k] # c
          BY <1>1, <3>4, ChannelsOnce
        <4>2. \A k \in DOMAIN jobs' \ DOMAIN jobs : jobs'[k].channel # c
          BY <1>2, <3>3, <4>1
        <4>3. Children(j, c)' = Children(j, c)
          BY <1>2, <1>4, <4>2 DEF Children
        <4>4. QED
          BY <2>2, <3>1, <3>2, <3>4, <4>3
      <3>5. CASE FallsBackTo(j, c)
        <4>1. PICK k \in DOMAIN FallbackChannels(j) :
                \A l \in DOMAIN FallbackChannels(j) : FallbackChannels(j)[l] = c <=> l = k
          <5>1. \E k \in DOMAIN FallbackChannels(j) :
                  \A l \in DOMAIN FallbackChannels(j) : FallbackChannels(j)[l] = c <=> l = k
            BY <1>1, <3>5, ChannelsOnce, ZenonT(60)
          <5>2. QED
            BY <5>1, Zenon
        <4> DEFINE new == Len(jobs) + k
        <4>2. \A i2 \in DOMAIN jobs' \ DOMAIN jobs : jobs'[i2].channel = c <=> i2 = new
          BY <1>2, <3>3, <4>1
        <4>3. new \in DOMAIN jobs' \ DOMAIN jobs /\ jobs'[new].parent = j /\ jobs'[new].channel = c
          BY <3>3, <4>1
        <4> HIDE DEF new
        <4>4. Children(j, c)' = Children(j, c) \cup {new} /\ new \notin Children(j, c)
          BY <1>2, <1>4, <4>2, <4>3 DEF Children
        <4>5. IsFiniteSet(Children(j, c))
          <5>1. IsFiniteSet(DOMAIN jobs)
            BY <1>1, LenProperties, FS_Interval
          <5>2. QED
            BY <5>1, FS_Subset DEF Children
        <4>6. Cardinality(Children(j, c)') = Cardinality(Children(j, c)) + 1
          BY <4>4, <4>5, FS_AddElement
        <4>7. Cardinality(Failed(jobs'[j].log)) = Cardinality(Failed(jobs[j].log)) + 1
          <5>1. Failed(jobs'[j].log) = Failed(jobs[j].log) \cup {Len(jobs[j].log) + 1}
            BY <1>2
          <5>2. QED
            BY <1>1, <5>1, FailuresCount
        <4>8. QED
          BY <2>2, <3>1, <3>2, <3>5, <4>6, <4>7
      <3>6. QED
        BY <3>4, <3>5
    <2>3. CASE i \notin DOMAIN jobs
      <3>1. Children(i, c)' = {}
        BY <1>5, <2>3 DEF Children, NoParent
      <3>2. Failed(jobs'[i].log) = {}
        <4>1. Fresh(jobs'[i])
          BY <1>2, <1>3, <2>3
        <4>2. /\ DOMAIN <<LogEntry("queued", 0)>> = {1}
              /\ <<LogEntry("queued", 0)>>[1].event = "queued"
          BY DEF LogEntry
        <4>3. QED
          BY <4>1, <4>2 DEF Fresh, Failed
      <3>3. QED
        BY <3>1, <3>2, FS_EmptySet
    <2>4. QED
      BY <2>1, <2>2, <2>3
  <1>7. QED
    BY <1>2, <1>5, <1>6 DEF FallbackInv

(* A step that gives one job another log and keeps its family. *)
LEMMA OneLogGrows ==
  ASSUME TypeOK, FallbackInv, NEW j \in DOMAIN jobs, NEW r, jobs' = [jobs EXCEPT ![j] = r],
         SameFamily(jobs[j], r)
  PROVE  FallbackInv'
  <1>1. jobs \in Seq(JobType) /\ DOMAIN jobs = 1..Len(jobs)
    BY LenProperties DEF TypeOK
  <1>2. DOMAIN jobs' = DOMAIN jobs /\ \A i \in DOMAIN jobs : SameFamily(jobs[i], jobs'[i])
    BY <1>1 DEF SameFamily
  <1>3. 0 \notin DOMAIN jobs'
    BY <1>1, <1>2
  <1>4. QED
    BY <1>2, <1>3, FamiliesStay

LEMMA NextFallback == TypeOK /\ TypeOK' /\ FallbackInv /\ [Next]_vars => FallbackInv'
  <1> SUFFICES ASSUME TypeOK, TypeOK', FallbackInv, [Next]_vars PROVE FallbackInv'
    OBVIOUS
  <1>1. jobs \in Seq(JobType) /\ \A i \in DOMAIN jobs : jobs[i] \in JobType /\ jobs[i].log \in Seq(LogEntries)
    BY JobFields DEF TypeOK
  <1>2. ASSUME NEW d \in Drains, drain[d].phase = "sending"
        PROVE  drain[d].job \in DOMAIN jobs /\ drain[d].attempt \in Nat
    BY <1>2 DEF TypeOK, DrainOK
  <1>3. 0 \notin DOMAIN jobs'
    BY LenProperties DEF TypeOK
  <1>4. ASSUME NEW r \in Requests, QueueNotification(r) PROVE FallbackInv'
    <2> DEFINE job(s) == NewJob(r.channel, r.fallback, s, r.maxAttempts, NoParent)
    <2>1. PICK s : jobs' = Append(jobs, job(s))
      BY <1>4 DEF QueueNotification
    <2>2. Fresh(job(s)) /\ job(s).parent = NoParent
      BY DEF NewJob, Fresh
    <2> HIDE DEF job
    <2>3. /\ DOMAIN jobs \subseteq DOMAIN jobs'
          /\ \A i \in DOMAIN jobs : jobs'[i] = jobs[i]
          /\ \A i \in DOMAIN jobs' \ DOMAIN jobs : jobs'[i] = job(s)
      <3>1. Len(jobs) \in Nat /\ DOMAIN jobs = 1..Len(jobs)
              /\ DOMAIN Append(jobs, job(s)) = 1..(Len(jobs) + 1)
              /\ \A i \in 1..Len(jobs) : Append(jobs, job(s))[i] = jobs[i]
              /\ Append(jobs, job(s))[Len(jobs) + 1] = job(s)
        BY <1>1, LenProperties
      <3>2. QED
        BY <2>1, <3>1
    <2>4. \A i \in DOMAIN jobs : SameFamily(jobs[i], jobs'[i])
      BY <2>3 DEF SameFamily
    <2>5. QED
      BY <1>3, <2>2, <2>3, <2>4, FamiliesStay
  <1>5. ASSUME NEW j \in DOMAIN jobs, RetryJob(j) PROVE FallbackInv'
    <2> DEFINE log == Append(jobs[j].log, LogEntry("retry_requested", jobs[j].attempts))
               job == [jobs[j] EXCEPT !.status = "retrying", !.nextAttemptAt = now, !.log = log]
    <2>1. jobs' = [jobs EXCEPT ![j] = job]
      BY <1>1, <1>5 DEF RetryJob, Retried
    <2>2. Failed(log) = Failed(jobs[j].log)
      BY <1>1, JobFields, FailuresCount
    <2>3. SameFamily(jobs[j], job)
      <3> HIDE DEF log
      <3> QED
        BY <1>1, <2>2 DEF SameFamily, JobType
    <2> HIDE DEF job
    <2>4. QED
      BY <2>1, <2>3, OneLogGrows
  <1>6. ASSUME NEW d \in Drains, NEW batch, IsBatch(batch, DOMAIN jobs), NEW j \in DOMAIN batch,
               BeginAttempt(d, j, batch)
        PROVE  FallbackInv'
    <2> DEFINE log == Append(jobs[j].log, LogEntry("attempt_started", NextAttempt(j)))
               job == [jobs[j] EXCEPT !.status = "processing", !.attempts = NextAttempt(j),
                                      !.log = log]
    <2>1. j \in DOMAIN jobs /\ NextAttempt(j) \in Nat
      BY <1>1, <1>6, JobFields DEF IsBatch, NextAttempt
    <2>2. jobs' = [jobs EXCEPT ![j] = job]
      BY <1>1, <1>6, <2>1 DEF BeginAttempt, Started
    <2>3. Failed(log) = Failed(jobs[j].log)
      BY <1>1, <2>1, FailuresCount
    <2>4. SameFamily(jobs[j], job)
      <3> HIDE DEF log
      <3> QED
        BY <1>1, <2>1, <2>3 DEF SameFamily, JobType
    <2> HIDE DEF job
    <2>5. QED
      BY <2>1, <2>2, <2>4, OneLogGrows
  <1>7. ASSUME NEW d \in Drains, StartDrain(d) PROVE FallbackInv'
    BY <1>6, <1>7, ListDueType DEF StartDrain, IsHead
  <1>8. ASSUME NEW d \in Drains, NextInBatch(d) PROVE FallbackInv'
    BY <1>6, <1>8 DEF NextInBatch, TypeOK, DrainOK
  <1>9. ASSUME NEW d \in Drains, MarkSent(d) PROVE FallbackInv'
    <2> DEFINE j == drain[d].job
               log == Append(jobs[j].log, LogEntry("attempt_succeeded", drain[d].attempt))
               job == [jobs[j] EXCEPT !.status = "sent", !.log = log]
    <2>1. j \in DOMAIN jobs /\ jobs[j] \in JobType
      BY <1>1, <1>2, <1>9 DEF MarkSent
    <2>2. jobs' = [jobs EXCEPT ![j] = job]
      BY <1>1, <1>9, <2>1 DEF MarkSent
    <2>3. Failed(log) = Failed(jobs[j].log)
      BY <1>1, <1>2, <1>9, <2>1, FailuresCount DEF MarkSent
    <2>4. SameFamily(jobs[j], job)
      <3> HIDE DEF log, j
      <3> QED
        BY <2>1, <2>3 DEF SameFamily, JobType
    <2> HIDE DEF job, j, log
    <2>5. QED
      BY <2>1, <2>2, <2>4, OneLogGrows
  <1>10. ASSUME NEW d \in Drains, QueuePushFallback(d) PROVE FallbackInv'
    <2> DEFINE j == drain[d].job
               log == jobs[j].log \o FailureLog(d, "fallback_queued")
               job == [jobs[j] EXCEPT !.status = "failed", !.log = log]
    <2>1. j \in DOMAIN jobs /\ jobs[j] \in JobType
      BY <1>1, <1>2, <1>10 DEF QueuePushFallback
    <2>2. log \in Seq(LogEntries)
      BY <1>1, <1>2, <1>10, <2>1, ExtendLog
      DEF QueuePushFallback, FailureLog, Events, Outcomes
    <2>3. jobs' = [jobs EXCEPT ![j] = job] \o FallbackJobs(j)
      BY <1>1, <2>1, <1>10 DEF QueuePushFallback
    <2>4. Failed(log) = Failed(jobs[j].log) \cup {Len(jobs[j].log) + 1}
      BY <1>1, <1>2, <1>10, <2>1, FailuresCount DEF QueuePushFallback, FailureLog
    <2>5. /\ job \in JobType /\ job.parent = jobs[j].parent /\ job.channel = jobs[j].channel
          /\ job.fallback = jobs[j].fallback /\ job.log = log
      <3> HIDE DEF log, j
      <3> QED
        BY <2>1, <2>2 DEF JobType, Statuses
    <2> HIDE DEF job, j, log
    <2>6. QED
      BY <1>3, <2>1, <2>3, <2>4, <2>5, FamilyGrows
  <1>11. ASSUME NEW j \in DOMAIN jobs, FallbackChannels(j) = << >>, NEW c \in {"email", "sms"}
         PROVE  ~(jobs[j].channel = "push" /\ c \in jobs[j].fallback)
    BY <1>1, <1>11, ChannelsOnce DEF FallsBackTo
  <1>12. ASSUME NEW d \in Drains, FailFinally(d) PROVE FallbackInv'
    <2> DEFINE j == drain[d].job
               log == jobs[j].log \o FailureLog(d, "failed_final")
               job == [jobs[j] EXCEPT !.status = "failed", !.log = log]
    <2>1. j \in DOMAIN jobs /\ jobs[j] \in JobType /\ FallbackChannels(j) = << >>
      BY <1>1, <1>2, <1>12 DEF FailFinally
    <2>2. jobs' = [jobs EXCEPT ![j] = job]
      BY <1>1, <1>12, <2>1 DEF FailFinally
    <2>3. SameFamily(jobs[j], job)
      <3> HIDE DEF log, j
      <3> QED
        BY <1>11, <2>1 DEF SameFamily, JobType
    <2> HIDE DEF job, j
    <2>4. QED
      BY <2>1, <2>2, <2>3, OneLogGrows
  <1>13. ASSUME NEW d \in Drains, ScheduleRetry(d) PROVE FallbackInv'
    <2> DEFINE j == drain[d].job
               log == jobs[j].log \o FailureLog(d, "retry_scheduled")
               at == now + RetryDelay(drain[d].attempt)
               job == [jobs[j] EXCEPT !.status = "retrying", !.nextAttemptAt = at, !.log = log]
    <2>1. j \in DOMAIN jobs /\ jobs[j] \in JobType /\ FallbackChannels(j) = << >>
      BY <1>1, <1>2, <1>13 DEF ScheduleRetry
    <2>2. jobs' = [jobs EXCEPT ![j] = job]
      BY <1>1, <1>13, <2>1 DEF ScheduleRetry
    <2>3. SameFamily(jobs[j], job)
      <3> HIDE DEF log, j, at
      <3> QED
        BY <1>11, <2>1 DEF SameFamily, JobType
    <2> HIDE DEF job, j
    <2>4. QED
      BY <2>1, <2>2, <2>3, OneLogGrows
  <1>14. CASE Tick \/ UNCHANGED vars
    <2>1. jobs' = jobs
      BY <1>14 DEF Tick, vars
    <2>2. QED
      BY <2>1 DEF FallbackInv, Children, FallsBackTo
  <1>15. QED
    BY <1>4, <1>5, <1>7, <1>8, <1>9, <1>10, <1>12, <1>13, <1>14 DEF Next, Settle

(* Fallback jobs match the failed push attempts one by one, for any number *)
(* of drains: none is missing, none is queued twice, none falls back again. *)
THEOREM FallbacksMatchFailures == Spec => []FallbackPerFailure
  <1>1. Init => FallbackInv
    BY DEF Init, FallbackInv
  <1>2. FallbackInv => FallbackPerFailure
    BY DEF FallbackInv, FallbackPerFailure, Children, FallsBackTo, Failed
  <1>3. QED
    BY <1>1, <1>2, TypeCorrect, NextFallback, PTL DEF Spec

-----------------------------------------------------------------------------
(* Work runs out.  StepsLeft is the measure that every step of a drain      *)
(* lowers; that it is never negative rests on BudgetInv, for overlapping    *)
(* drains may take a job beyond maxAttempts.                                *)

JobSteps    == [j \in DOMAIN jobs |-> StepsForJob(j)]
FlightSteps == [d \in Drains |-> StepsInFlight(d)]

(* There are at most two fallback channels. *)
LEMMA ChannelCount ==
  ASSUME NEW j
  PROVE  /\ Len(FallbackChannels(j)) \in 0..2
         /\ DOMAIN FallbackChannels(j) = 1..Len(FallbackChannels(j))
  <1>1. CASE FallbackChannels(j) = << >>
    BY <1>1
  <1>2. CASE FallbackChannels(j) # << >>
    <2>1. PICK n \in 1..2 : n = Len(FallbackChannels(j))
      BY <1>2, FallbackCount
    <2> QED
      BY <1>2, <2>1, FallbackCount
  <1> QED
    BY <1>1, <1>2

(* What a job may still cost is a natural number. *)
LEMMA CostsAreNatural ==
  ASSUME TypeOK, BudgetInv, NEW j \in DOMAIN jobs
  PROVE  /\ Allowance(j) \in Nat /\ StepsOfFallbacks(j) \in Nat
         /\ Allowance(j) - jobs[j].attempts \in Nat
         /\ StepsForJob(j) \in Nat
  <1>1. /\ jobs[j].attempts \in Nat /\ jobs[j].maxAttempts \in 1..10
        /\ Cardinality(Drains) \in Nat \ {0} /\ Cardinality(Holders(j)) \in Nat
        /\ jobs[j].attempts + Cardinality(Holders(j)) <= jobs[j].maxAttempts + Cardinality(Drains) - 1
    BY JobFields, HoldersCount DEF TypeOK, BudgetInv
  <1>2. Allowance(j) \in Nat /\ Allowance(j) - jobs[j].attempts \in Nat
    BY <1>1 DEF Allowance
  <1>3. \A a, b \in Nat : a * b \in Nat
    OBVIOUS
  <1>4. StepsOfFallbacks(j) \in Nat
    <2>1. PICK n \in 0..2 : n = Len(FallbackChannels(j))
      BY ChannelCount
    <2>2. 2 * n \in Nat
      OBVIOUS
    <2>3. StepsOfFallbacks(j) = (2 * n) * Allowance(j)
      BY <2>1 DEF StepsOfFallbacks
    <2> QED
      BY <1>2, <1>3, <2>2, <2>3
  <1>5. 2 + StepsOfFallbacks(j) \in Nat
    BY <1>4
  <1> QED
    BY <1>2, <1>3, <1>4, <1>5 DEF StepsForJob

(* So is what all of them may cost. *)
StepsOK ==
  /\ IsFiniteSet(DOMAIN jobs) /\ IsFiniteSet(Drains)
  /\ \A j \in DOMAIN jobs : JobSteps[j] \in Nat
  /\ \A d \in Drains : FlightSteps[d] \in Nat
  /\ SumFunctionOnSet(JobSteps, DOMAIN jobs) \in Nat
  /\ SumFunctionOnSet(FlightSteps, Drains) \in Nat
  /\ StepsLeft = SumFunctionOnSet(JobSteps, DOMAIN jobs) + SumFunctionOnSet(FlightSteps, Drains)
  /\ StepsLeft \in Nat

LEMMA StepsAreNatural == TypeOK /\ BudgetInv => StepsOK
  <1> SUFFICES ASSUME TypeOK, BudgetInv PROVE StepsOK
    OBVIOUS
  <1>1. IsFiniteSet(DOMAIN jobs) /\ IsFiniteSet(Drains)
    <2>1. DOMAIN jobs = 1..Len(jobs) /\ Len(jobs) \in Nat
      BY LenProperties DEF TypeOK
    <2> QED
      BY <2>1, FS_Interval, ConstantsAssumption
  <1>2. ASSUME NEW j \in DOMAIN jobs PROVE JobSteps[j] \in Nat
    BY CostsAreNatural DEF JobSteps
  <1>3. ASSUME NEW d \in Drains PROVE FlightSteps[d] \in Nat
    <2>1. CASE drain[d].phase = "sending"
      <3>1. StepsOfFallbacks(drain[d].job) \in Nat
        BY <2>1, CostsAreNatural DEF TypeOK, DrainOK
      <3> QED
        BY <2>1, <3>1 DEF FlightSteps, StepsInFlight
    <2>2. CASE drain[d].phase # "sending"
      BY <2>2 DEF FlightSteps, StepsInFlight
    <2> QED
      BY <2>1, <2>2
  <1>4. /\ SumFunctionOnSet(JobSteps, DOMAIN jobs) \in Nat
        /\ SumFunctionOnSet(FlightSteps, Drains) \in Nat
    <2> HIDE DEF JobSteps, FlightSteps
    <2> QED
      BY <1>1, <1>2, <1>3, SumNat
  <1>5. StepsLeft = SumFunctionOnSet(JobSteps, DOMAIN jobs) + SumFunctionOnSet(FlightSteps, Drains)
    BY DEF StepsLeft, JobSteps, FlightSteps
  <1> QED
    BY <1>1, <1>2, <1>3, <1>4, <1>5 DEF StepsOK

(* What decides about the cost of an attempt at a job stays.               *)
SameCosts(job, after) ==
  /\ after.channel = job.channel /\ after.fallback = job.fallback
  /\ after.maxAttempts = job.maxAttempts

LEMMA CostsStay ==
  ASSUME NEW j, SameCosts(jobs[j], jobs'[j])
  PROVE  /\ Allowance(j)' = Allowance(j) /\ StepsOfFallbacks(j)' = StepsOfFallbacks(j)
         /\ jobs'[j].attempts = jobs[j].attempts => StepsForJob(j)' = StepsForJob(j)
  <1>1. Allowance(j)' = Allowance(j) /\ FallbackChannels(j)' = FallbackChannels(j)
    BY DEF SameCosts, Allowance, FallbackChannels
  <1> QED
    BY <1>1 DEF StepsOfFallbacks, StepsForJob

(* What one drain does to the work in flight. *)
LEMMA FlightsChange ==
  ASSUME TypeOK, TypeOK', BudgetInv, BudgetInv', NEW d \in Drains,
         \A i \in DOMAIN jobs : SameCosts(jobs[i], jobs'[i]),
         \A e \in Drains : e # d => drain'[e] = drain[e]
  PROVE  SumFunctionOnSet(FlightSteps', Drains) =
           SumFunctionOnSet(FlightSteps, Drains) + (FlightSteps'[d] - FlightSteps[d])
  <1>1. ASSUME NEW e \in Drains, e # d PROVE FlightSteps'[e] = FlightSteps[e]
    <2>1. CASE drain[e].phase = "sending"
      <3>1. drain[e].job \in DOMAIN jobs
        BY <2>1 DEF TypeOK, DrainOK
      <3>2. StepsOfFallbacks(drain[e].job)' = StepsOfFallbacks(drain[e].job)
        <4>1. PICK j \in DOMAIN jobs : j = drain[e].job
          BY <3>1
        <4>2. j = drain'[e].job
          BY <1>1, <4>1
        <4>3. StepsOfFallbacks(j)' = StepsOfFallbacks(j)
          BY CostsStay
        <4> QED
          BY <4>1, <4>2, <4>3
      <3> QED
        BY <1>1, <2>1, <3>2 DEF FlightSteps, StepsInFlight
    <2>2. CASE drain[e].phase # "sending"
      BY <1>1, <2>2 DEF FlightSteps, StepsInFlight
    <2> QED
      BY <2>1, <2>2
  <1>2. /\ IsFiniteSet(Drains)
        /\ \A e \in Drains : FlightSteps[e] \in Int /\ FlightSteps'[e] \in Int
    <2>1. StepsOK /\ StepsOK'
      BY StepsAreNatural, PTL
    <2> QED
      BY <2>1 DEF StepsOK
  <1> HIDE DEF FlightSteps
  <1> QED
    BY <1>1, <1>2, SumExcept

(* Steps that take no attempt and add no job leave the cost of the jobs.   *)
LEMMA JobStepsStay ==
  ASSUME TypeOK, BudgetInv,
         \A i \in DOMAIN jobs : /\ i \in DOMAIN jobs' /\ SameCosts(jobs[i], jobs'[i])
                                /\ jobs'[i].attempts = jobs[i].attempts
  PROVE  /\ SumFunctionOnSet(JobSteps', DOMAIN jobs) = SumFunctionOnSet(JobSteps, DOMAIN jobs)
  <1>1. \A i \in DOMAIN jobs : JobSteps'[i] = JobSteps[i]
    BY CostsStay DEF JobSteps
  <1>2. IsFiniteSet(DOMAIN jobs)
    BY StepsAreNatural DEF StepsOK
  <1> HIDE DEF JobSteps
  <1> QED
    BY <1>1, <1>2, SumSame

(* A dispatch pays for its attempt. *)
LEMMA DispatchUsesWork ==
  ASSUME TypeOK, TypeOK', BudgetInv, BudgetInv', NEW d \in Drains, drain[d].phase # "sending",
         NEW batch, IsBatch(batch, DOMAIN jobs), NEW j \in DOMAIN batch, BeginAttempt(d, j, batch)
  PROVE  StepsLeft' < StepsLeft
  <1>1. j \in DOMAIN jobs /\ jobs[j] \in JobType /\ DOMAIN jobs' = DOMAIN jobs
    BY JobFields, BeginAttemptTypeOK DEF TypeOK, IsBatch
  <1>2. \A i \in DOMAIN jobs :
          /\ SameCosts(jobs[i], jobs'[i])
          /\ jobs'[i].attempts = IF i = j THEN jobs[j].attempts + 1 ELSE jobs[i].attempts
    BY <1>1 DEF BeginAttempt, Started, NextAttempt, JobType, SameCosts
  <1>3. /\ drain'[d].phase = "sending" /\ drain'[d].job = j
        /\ \A e \in Drains : e # d => drain'[e] = drain[e]
    BY DEF BeginAttempt, TypeOK
  <1>4. PICK c \in Nat, a \in Nat : c = StepsOfFallbacks(j) /\ a = Allowance(j) - jobs[j].attempts
    BY <1>1, CostsAreNatural
  <1>5. StepsOfFallbacks(j)' = c
    BY <1>1, <1>2, <1>4, CostsStay
  <1>6. FlightSteps'[d] = 1 + c /\ FlightSteps[d] = 0
    <2>1. StepsOfFallbacks(drain[d].job)' = c
      BY <1>3, <1>5
    <2> QED
      BY <1>3, <2>1 DEF FlightSteps, StepsInFlight
  <1>7. JobSteps[j] = (2 + c) * a /\ JobSteps'[j] = (2 + c) * (a - 1)
    <2>1. jobs'[j].attempts = jobs[j].attempts + 1 /\ Allowance(j)' = Allowance(j)
      BY <1>1, <1>2, CostsStay
    <2>2. jobs[j].attempts \in Nat /\ Allowance(j) \in Nat
      BY <1>1, CostsAreNatural DEF JobType
    <2>3. Allowance(j)' - jobs'[j].attempts = a - 1
      BY <1>4, <2>1, <2>2
    <2> QED
      BY <1>1, <1>4, <1>5, <2>3 DEF JobSteps, StepsForJob
  <1>8. JobSteps'[j] - JobSteps[j] = -(2 + c)
    <2>1. PICK x \in Nat : x = 2 + c
      BY <1>4
    <2>2. x * a \in Int /\ x * (a - 1) = x * a - x
      BY <1>4
    <2> QED
      BY <1>4, <1>7, <2>1, <2>2
  <1>s. StepsOK /\ StepsOK'
    BY StepsAreNatural, PTL
  <1>9. SumFunctionOnSet(JobSteps', DOMAIN jobs) = SumFunctionOnSet(JobSteps, DOMAIN jobs) - (2 + c)
    <2>1. \A i \in DOMAIN jobs : i # j => JobSteps'[i] = JobSteps[i]
      BY <1>1, <1>2, CostsStay DEF JobSteps
    <2>2. IsFiniteSet(DOMAIN jobs) /\ \A i \in DOMAIN jobs : JobSteps[i] \in Int
      BY <1>s DEF StepsOK
    <2>3. \A i \in DOMAIN jobs : JobSteps'[i] \in Int
      BY <1>1, <1>s DEF StepsOK
    <2> HIDE DEF JobSteps
    <2>4. SumFunctionOnSet(JobSteps', DOMAIN jobs) =
            SumFunctionOnSet(JobSteps, DOMAIN jobs) + (JobSteps'[j] - JobSteps[j])
      BY <1>1, <2>1, <2>2, <2>3, SumExcept
    <2>5. SumFunctionOnSet(JobSteps, DOMAIN jobs) \in Nat
      BY <1>s DEF StepsOK
    <2> QED
      BY <1>4, <1>8, <2>4, <2>5
  <1>10. SumFunctionOnSet(FlightSteps', Drains) = SumFunctionOnSet(FlightSteps, Drains) + (1 + c)
    <2>1. SumFunctionOnSet(FlightSteps', Drains) =
            SumFunctionOnSet(FlightSteps, Drains) + (FlightSteps'[d] - FlightSteps[d])
      BY <1>2, <1>3, FlightsChange
    <2> QED
      BY <1>4, <1>6, <2>1
  <1>11. /\ SumFunctionOnSet(JobSteps, DOMAIN jobs) \in Nat
         /\ SumFunctionOnSet(FlightSteps, Drains) \in Nat
         /\ StepsLeft = SumFunctionOnSet(JobSteps, DOMAIN jobs) + SumFunctionOnSet(FlightSteps, Drains)
         /\ StepsLeft' = SumFunctionOnSet(JobSteps', DOMAIN jobs')
                           + SumFunctionOnSet(FlightSteps', Drains)
    BY <1>s DEF StepsOK
  <1> QED
    BY <1>1, <1>4, <1>9, <1>10, <1>11

(* An answer ends an attempt, and pays for the jobs it adds. *)
LEMMA AnswerUsesWork ==
  ASSUME TypeOK, TypeOK', BudgetInv, BudgetInv', NEW d \in Drains, drain[d].phase = "sending",
         drain' = [drain EXCEPT ![d] = Returned(d)],
         \A i \in DOMAIN jobs : SameCosts(jobs[i], jobs'[i]),
         SumFunctionOnSet(JobSteps', DOMAIN jobs')
           <= SumFunctionOnSet(JobSteps, DOMAIN jobs) + StepsOfFallbacks(drain[d].job)
  PROVE  StepsLeft' < StepsLeft
  <1>1. /\ drain'[d] = Returned(d) /\ \A e \in Drains : e # d => drain'[e] = drain[e]
    BY DEF TypeOK
  <1>2. drain'[d].phase # "sending"
    BY <1>1 DEF Returned, Idle
  <1>3. PICK c \in Nat : c = StepsOfFallbacks(drain[d].job)
    BY CostsAreNatural DEF TypeOK, DrainOK
  <1>4. FlightSteps'[d] = 0 /\ FlightSteps[d] = 1 + c
    BY <1>2, <1>3 DEF FlightSteps, StepsInFlight
  <1>5. SumFunctionOnSet(FlightSteps', Drains) =
          SumFunctionOnSet(FlightSteps, Drains) + (FlightSteps'[d] - FlightSteps[d])
    BY <1>1, FlightsChange
  <1>6. StepsOK /\ StepsOK'
    BY StepsAreNatural, PTL
  <1>7. /\ SumFunctionOnSet(JobSteps, DOMAIN jobs) \in Nat
        /\ SumFunctionOnSet(FlightSteps, Drains) \in Nat
        /\ SumFunctionOnSet(JobSteps', DOMAIN jobs') \in Nat
        /\ StepsLeft = SumFunctionOnSet(JobSteps, DOMAIN jobs) + SumFunctionOnSet(FlightSteps, Drains)
        /\ StepsLeft' = SumFunctionOnSet(JobSteps', DOMAIN jobs')
                          + SumFunctionOnSet(FlightSteps', Drains)
    BY <1>6 DEF StepsOK
  <1> QED
    BY <1>3, <1>4, <1>5, <1>7

(* The fallback jobs of a failed attempt cost what was set aside for them. *)
LEMMA FallbacksWereCounted ==
  ASSUME TypeOK, TypeOK', BudgetInv, BudgetInv', NEW j \in DOMAIN jobs, NEW job \in JobType,
         jobs' = [jobs EXCEPT ![j] = job] \o FallbackJobs(j), FallbackChannels(j) # << >>,
         SameCosts(jobs[j], job), job.attempts = jobs[j].attempts
  PROVE  /\ \A i \in DOMAIN jobs : SameCosts(jobs[i], jobs'[i])
         /\ SumFunctionOnSet(JobSteps', DOMAIN jobs')
              <= SumFunctionOnSet(JobSteps, DOMAIN jobs) + StepsOfFallbacks(j)
  <1>1. PICK n \in 1..2 : n = Len(FallbackChannels(j)) /\ DOMAIN FallbackChannels(j) = 1..n
    BY FallbackCount
  <1>2. PICK l \in Nat : l = Len(jobs) /\ DOMAIN jobs = 1..l
    BY LenProperties DEF TypeOK
  <1>3. PICK a \in Nat : a = Allowance(j)
    BY CostsAreNatural
  <1>4. /\ DOMAIN jobs \subseteq DOMAIN jobs'
        /\ \A i \in DOMAIN jobs : jobs'[i] = IF i = j THEN job ELSE jobs[i]
        /\ \A k \in 1..n : /\ l + k \in DOMAIN jobs' \ DOMAIN jobs
                           /\ jobs'[l + k] = FallbackJobs(j)[k]
        /\ \A i \in DOMAIN jobs' \ DOMAIN jobs : \E k \in 1..n : i = l + k
    <2>1. /\ DOMAIN jobs \subseteq DOMAIN jobs'
          /\ \A i \in DOMAIN jobs : jobs'[i] = IF i = j THEN job ELSE jobs[i]
          /\ \A k \in DOMAIN FallbackChannels(j) :
               /\ Len(jobs) + k \in DOMAIN jobs' \ DOMAIN jobs
               /\ jobs'[Len(jobs) + k] = FallbackJobs(j)[k]
          /\ \A i \in DOMAIN jobs' \ DOMAIN jobs :
               \E k \in DOMAIN FallbackChannels(j) : i = Len(jobs) + k
      BY ChildrenAdded
    <2>2. l = Len(jobs) /\ DOMAIN FallbackChannels(j) = 1..n
      BY <1>1, <1>2
    <2> QED
      BY <2>1, <2>2
  <1>5. \A i \in DOMAIN jobs : /\ i \in DOMAIN jobs' /\ SameCosts(jobs[i], jobs'[i])
                               /\ jobs'[i].attempts = jobs[i].attempts
    BY <1>4 DEF SameCosts
  <1>6. ASSUME NEW k \in 1..n PROVE JobSteps'[l + k] = 2 * a
    <2>1. /\ l + k \in DOMAIN jobs' /\ jobs'[l + k].attempts = 0
          /\ jobs'[l + k].maxAttempts = jobs[j].maxAttempts /\ jobs'[l + k].fallback = {}
      <3>1. /\ FallbackJobs(j)[k].attempts = 0 /\ FallbackJobs(j)[k].fallback = {}
            /\ FallbackJobs(j)[k].maxAttempts = jobs[j].maxAttempts
        BY <1>1 DEF FallbackJobs, NewJob
      <3> QED
        BY <1>4, <3>1
    <2>2. Allowance(l + k)' = a
      BY <1>3, <2>1 DEF Allowance
    <2>3. FallbackChannels(l + k)' = << >>
      BY <2>1 DEF FallbackChannels
    <2>4. StepsOfFallbacks(l + k)' = 0
      BY <1>3, <2>2, <2>3 DEF StepsOfFallbacks
    <2> QED
      BY <1>3, <2>1, <2>2, <2>4 DEF JobSteps, StepsForJob
  <1>7. PICK b \in Nat : b = SumFunctionOnSet(JobSteps, DOMAIN jobs)
    BY StepsAreNatural DEF StepsOK
  <1>8. SumFunctionOnSet(JobSteps', DOMAIN jobs) = b
    BY <1>5, <1>7, JobStepsStay
  <1>9. IsFiniteSet(DOMAIN jobs) /\ \A i \in DOMAIN jobs' : JobSteps'[i] \in Int
    <2>1. StepsOK /\ StepsOK'
      BY StepsAreNatural, PTL
    <2> QED
      BY <2>1 DEF StepsOK
  <1>10. StepsOfFallbacks(j) = 2 * n * a
    BY <1>1, <1>3 DEF StepsOfFallbacks
  <1>11. l + 1 \in DOMAIN jobs' \ DOMAIN jobs /\ JobSteps'[l + 1] = 2 * a
    BY <1>1, <1>4, <1>6
  <1>12. SumFunctionOnSet(JobSteps', DOMAIN jobs \cup {l + 1}) = 2 * a + b
    <2>1. \A i \in DOMAIN jobs \cup {l + 1} : JobSteps'[i] \in Int
      BY <1>4, <1>9, <1>11
    <2> HIDE DEF JobSteps
    <2>2. SumFunctionOnSet(JobSteps', DOMAIN jobs \cup {l + 1}) =
            JobSteps'[l + 1] + SumFunctionOnSet(JobSteps', DOMAIN jobs)
      BY <1>9, <1>11, <2>1, SumAdd
    <2> QED
      BY <1>8, <1>11, <2>2
  <1>13. SumFunctionOnSet(JobSteps', DOMAIN jobs') = b + 2 * n * a
    <2>1. CASE n = 1
      <3>1. DOMAIN jobs' = DOMAIN jobs \cup {l + 1}
        BY <1>4, <2>1
      <3>2. b + 2 * n * a = 2 * a + b
        BY <1>3, <1>7, <2>1
      <3> QED
        BY <1>12, <2>1, <3>1, <3>2
    <2>2. CASE n = 2
      <3>1. /\ l + 2 \in DOMAIN jobs' /\ l + 2 \notin DOMAIN jobs \cup {l + 1}
            /\ JobSteps'[l + 2] = 2 * a
        BY <1>2, <1>4, <1>6, <2>2
      <3>2. DOMAIN jobs' = (DOMAIN jobs \cup {l + 1}) \cup {l + 2}
        BY <1>4, <2>2
      <3>3. IsFiniteSet(DOMAIN jobs \cup {l + 1})
        BY <1>9, FS_AddElement
      <3>4. \A i \in (DOMAIN jobs \cup {l + 1}) \cup {l + 2} : JobSteps'[i] \in Int
        BY <1>9, <3>2
      <3> DEFINE one == DOMAIN jobs \cup {l + 1}
      <3> HIDE DEF JobSteps, one
      <3>5. SumFunctionOnSet(JobSteps', one \cup {l + 2}) =
              JobSteps'[l + 2] + SumFunctionOnSet(JobSteps', one)
        BY <3>1, <3>3, <3>4, SumAdd DEF one
      <3> QED
        <4>1. SumFunctionOnSet(JobSteps', DOMAIN jobs') = 2 * a + (2 * a + b)
          BY <1>12, <3>1, <3>2, <3>5 DEF one
        <4>2. b + 2 * n * a = 2 * a + (2 * a + b)
          BY <1>3, <1>7, <2>2
        <4> QED
          BY <4>1, <4>2
    <2> QED
      BY <2>1, <2>2
  <1> QED
    BY <1>5, <1>7, <1>10, <1>13

(* What a step does to the work that is left. *)
WorkUsed ==
  /\ StepsLeft' >= 0
  /\ drain' # drain => StepsLeft' < StepsLeft
  /\ drain' = drain /\ DOMAIN jobs' = DOMAIN jobs => StepsLeft' = StepsLeft

(* Every action uses work up, leaves it as it is, or submits a job. *)
LEMMA NextUsesWork ==
  ASSUME TypeOK, TypeOK', BudgetInv, BudgetInv', [Next]_vars
  PROVE  WorkUsed
  <1>1. jobs \in Seq(JobType) /\ \A i \in DOMAIN jobs : jobs[i] \in JobType
    BY JobFields DEF TypeOK
  <1>2. StepsOK /\ StepsOK'
    BY StepsAreNatural, PTL
  <1>3. StepsLeft \in Nat /\ StepsLeft' \in Nat
    BY <1>2 DEF StepsOK
  <1>4. StepsLeft' < StepsLeft /\ drain' # drain => WorkUsed
    BY <1>3 DEF WorkUsed
  <1>5. ASSUME NEW r \in Requests, QueueNotification(r) PROVE WorkUsed
    <2>1. PICK job : jobs' = Append(jobs, job)
      BY <1>5 DEF QueueNotification
    <2>2. DOMAIN jobs' # DOMAIN jobs
      BY <1>1, <2>1, LenProperties
    <2> QED
      BY <1>3, <1>5, <2>2 DEF WorkUsed, QueueNotification
  <1>6. ASSUME drain' = drain, DOMAIN jobs' = DOMAIN jobs,
               \A i \in DOMAIN jobs : /\ SameCosts(jobs[i], jobs'[i])
                                      /\ jobs'[i].attempts = jobs[i].attempts
        PROVE  WorkUsed
    <2>1. PICK d \in Drains : TRUE
      BY ConstantsAssumption
    <2>2. SumFunctionOnSet(FlightSteps', Drains) =
            SumFunctionOnSet(FlightSteps, Drains) + (FlightSteps'[d] - FlightSteps[d])
      BY <1>6, FlightsChange
    <2>3. FlightSteps'[d] = FlightSteps[d]
      <3>1. CASE drain[d].phase = "sending"
        <4>1. PICK j \in DOMAIN jobs : j = drain[d].job
          BY <3>1 DEF TypeOK, DrainOK
        <4>2. j = drain'[d].job
          BY <1>6, <4>1
        <4>3. StepsOfFallbacks(j)' = StepsOfFallbacks(j)
          BY <1>6, CostsStay
        <4>4. StepsOfFallbacks(drain[d].job)' = StepsOfFallbacks(drain[d].job)
          BY <4>1, <4>2, <4>3
        <4> QED
          BY <1>6, <3>1, <4>4 DEF FlightSteps, StepsInFlight
      <3>2. CASE drain[d].phase # "sending"
        BY <1>6, <3>2 DEF FlightSteps, StepsInFlight
      <3> QED
        BY <3>1, <3>2
    <2>4. SumFunctionOnSet(JobSteps', DOMAIN jobs) = SumFunctionOnSet(JobSteps, DOMAIN jobs)
      BY <1>6, JobStepsStay
    <2>5. FlightSteps[d] \in Nat /\ SumFunctionOnSet(FlightSteps, Drains) \in Nat
      BY <1>2 DEF StepsOK
    <2>6. SumFunctionOnSet(FlightSteps', Drains) = SumFunctionOnSet(FlightSteps, Drains)
      BY <2>2, <2>3, <2>5
    <2>7. StepsLeft' = StepsLeft
      BY <1>2, <1>6, <2>4, <2>6 DEF StepsOK
    <2> QED
      BY <1>3, <1>6, <2>7 DEF WorkUsed
  <1>7. ASSUME NEW j \in DOMAIN jobs, RetryJob(j) PROVE WorkUsed
    <2>1. /\ DOMAIN jobs' = DOMAIN jobs
          /\ \A i \in DOMAIN jobs : /\ SameCosts(jobs[i], jobs'[i])
                                    /\ jobs'[i].attempts = jobs[i].attempts
      BY <1>1, <1>7 DEF RetryJob, Retried, SameCosts, JobType
    <2> QED
      BY <1>6, <1>7, <2>1 DEF RetryJob
  <1>8. ASSUME NEW d \in Drains, StartDrain(d) PROVE WorkUsed
    <2>1. PICK j \in DOMAIN ListDue : BeginAttempt(d, j, ListDue)
      BY <1>8 DEF StartDrain, IsHead
    <2>2. drain[d].phase = "idle"
      BY <1>8 DEF StartDrain
    <2>3. StepsLeft' < StepsLeft
      BY <2>1, <2>2, ListDueType, DispatchUsesWork
    <2>4. drain' # drain
      BY <2>1, <2>2 DEF BeginAttempt, TypeOK
    <2> QED
      BY <1>4, <2>3, <2>4
  <1>9. ASSUME NEW d \in Drains, NextInBatch(d) PROVE WorkUsed
    <2>1. PICK j \in DOMAIN drain[d].batch : BeginAttempt(d, j, drain[d].batch)
      BY <1>9 DEF NextInBatch
    <2>2. drain[d].phase = "looping" /\ IsBatch(drain[d].batch, DOMAIN jobs)
      BY <1>9 DEF NextInBatch, TypeOK, DrainOK
    <2>3. StepsLeft' < StepsLeft
      BY <2>1, <2>2, DispatchUsesWork
    <2>4. drain' # drain
      BY <2>1, <2>2 DEF BeginAttempt, TypeOK
    <2> QED
      BY <1>4, <2>3, <2>4
  <1>10. ASSUME NEW d \in Drains, drain[d].phase = "sending",
                drain' = [drain EXCEPT ![d] = Returned(d)]
         PROVE  drain' # drain
    <2>1. drain'[d].phase # "sending"
      BY <1>10 DEF TypeOK, Returned, Idle
    <2> QED
      BY <1>10, <2>1
  <1>11. ASSUME NEW d \in Drains, MarkSent(d) \/ FailFinally(d) \/ ScheduleRetry(d) PROVE WorkUsed
    <2>1. drain[d].phase = "sending" /\ drain' = [drain EXCEPT ![d] = Returned(d)]
      BY <1>11 DEF MarkSent, FailFinally, ScheduleRetry
    <2>2. drain[d].job \in DOMAIN jobs /\ jobs[drain[d].job] \in JobType
      BY <1>1, <2>1 DEF TypeOK, DrainOK
    <2>3. /\ DOMAIN jobs' = DOMAIN jobs
          /\ \A i \in DOMAIN jobs : /\ SameCosts(jobs[i], jobs'[i])
                                    /\ jobs'[i].attempts = jobs[i].attempts
      <3>1. CASE MarkSent(d)
        BY <2>2, <3>1 DEF MarkSent, SameCosts, JobType
      <3>2. CASE FailFinally(d)
        BY <2>2, <3>2 DEF FailFinally, SameCosts, JobType
      <3>3. CASE ScheduleRetry(d)
        BY <2>2, <3>3 DEF ScheduleRetry, SameCosts, JobType
      <3> QED
        BY <1>11, <3>1, <3>2, <3>3
    <2>4. SumFunctionOnSet(JobSteps', DOMAIN jobs') = SumFunctionOnSet(JobSteps, DOMAIN jobs)
      BY <2>3, JobStepsStay
    <2>5. PICK c \in Nat : c = StepsOfFallbacks(drain[d].job)
      BY <2>2, CostsAreNatural
    <2>6. PICK b \in Nat : b = SumFunctionOnSet(JobSteps, DOMAIN jobs)
      BY <1>2 DEF StepsOK
    <2>7. SumFunctionOnSet(JobSteps', DOMAIN jobs')
            <= SumFunctionOnSet(JobSteps, DOMAIN jobs) + StepsOfFallbacks(drain[d].job)
      BY <2>4, <2>5, <2>6
    <2>8. StepsLeft' < StepsLeft
      BY <2>1, <2>3, <2>7, AnswerUsesWork
    <2> QED
      BY <1>4, <1>10, <2>1, <2>8
  <1>12. ASSUME NEW d \in Drains, QueuePushFallback(d) PROVE WorkUsed
    <2> DEFINE j == drain[d].job
               log == jobs[j].log \o FailureLog(d, "fallback_queued")
               job == [jobs[j] EXCEPT !.status = "failed", !.log = log]
    <2>1. /\ drain[d].phase = "sending" /\ drain' = [drain EXCEPT ![d] = Returned(d)]
          /\ FallbackChannels(j) # << >>
      BY <1>12 DEF QueuePushFallback
    <2>2. j \in DOMAIN jobs /\ jobs[j] \in JobType /\ drain[d].attempt \in Nat
      BY <1>1, <2>1 DEF TypeOK, DrainOK
    <2>3. log \in Seq(LogEntries)
      BY <1>1, <2>2, JobFields, ExtendLog DEF FailureLog, Events, Outcomes
    <2>4. jobs' = [jobs EXCEPT ![j] = job] \o FallbackJobs(j)
      BY <1>1, <2>2, <1>12 DEF QueuePushFallback
    <2>5. job \in JobType /\ SameCosts(jobs[j], job) /\ job.attempts = jobs[j].attempts
      <3> HIDE DEF log, j
      <3> QED
        BY <2>2, <2>3 DEF JobType, Statuses, SameCosts
    <2> HIDE DEF job, log
    <2>6. /\ \A i \in DOMAIN jobs : SameCosts(jobs[i], jobs'[i])
          /\ SumFunctionOnSet(JobSteps', DOMAIN jobs')
               <= SumFunctionOnSet(JobSteps, DOMAIN jobs) + StepsOfFallbacks(drain[d].job)
      BY <2>1, <2>2, <2>4, <2>5, FallbacksWereCounted
    <2>7. StepsLeft' < StepsLeft
      BY <2>1, <2>6, AnswerUsesWork
    <2> QED
      BY <1>4, <1>10, <2>1, <2>7
  <1>13. CASE Tick \/ UNCHANGED vars
    <2>1. jobs' = jobs /\ drain' = drain
      BY <1>13 DEF Tick, vars
    <2> QED
      BY <1>6, <2>1 DEF SameCosts
  <1> QED
    BY <1>5, <1>7, <1>8, <1>9, <1>11, <1>12, <1>13 DEF Next, Settle

(* However many drains overlap, however often attempts fail and clients     *)
(* retry by hand: StepsLeft bounds the steps that drains can still take.    *)
THEOREM DrainsRunOutOfWork == Spec => WorkRunsOut
  <1>1. Init => BudgetInv
    BY DEF Init, BudgetInv
  <1>2. TypeOK /\ TypeOK' /\ BudgetInv /\ BudgetInv' /\ [Next]_vars =>
          [/\ StepsLeft' >= 0
           /\ drain' # drain => StepsLeft' < StepsLeft
           /\ drain' = drain /\ DOMAIN jobs' = DOMAIN jobs => StepsLeft' = StepsLeft]_vars
    BY NextUsesWork DEF WorkUsed
  <1> QED
    BY <1>1, <1>2, TypeCorrect, NextBudget, PTL DEF Spec, WorkRunsOut

-----------------------------------------------------------------------------
(* The queue over its journal. *)

(* The counts of the outside world follow the list of jobs. *)
LEMMA CallsFollow ==
  ASSUME TypeOK, TypeOK', JobsMove, calls \in Seq(Nat), Len(calls) = Len(jobs),
         calls' = CallsAfter(jobs, jobs', calls)
  PROVE  /\ calls' \in Seq(Nat) /\ Len(calls') = Len(jobs') /\ Len(jobs) <= Len(jobs')
         /\ \A j \in DOMAIN jobs' :
              calls'[j] = IF j \in DOMAIN jobs
                          THEN calls[j] + (jobs'[j].attempts - jobs[j].attempts) ELSE 0
  <1>1. /\ Len(jobs) \in Nat /\ DOMAIN jobs = 1..Len(jobs)
        /\ Len(jobs') \in Nat /\ DOMAIN jobs' = 1..Len(jobs')
        /\ DOMAIN calls = 1..Len(jobs)
    BY LenProperties DEF TypeOK
  <1>2. Len(jobs) <= Len(jobs')
    <2>1. 1..Len(jobs) \subseteq 1..Len(jobs')
      BY <1>1 DEF JobsMove
    <2>2. QED
      BY <1>1, <2>1
  <1>3. ASSUME NEW j \in DOMAIN jobs' PROVE calls'[j] \in Nat
    <2>1. CASE j \in DOMAIN jobs
      <3>1. jobs'[j].attempts - jobs[j].attempts \in {0, 1}
        <4>1. jobs[j].attempts \in Nat /\ jobs'[j].attempts \in {jobs[j].attempts, jobs[j].attempts + 1}
          BY <2>1, JobFields DEF JobsMove, Kept, TypeOK
        <4>2. QED
          BY <4>1
      <3>2. calls[j] \in Nat
        BY <1>1, <2>1, ElementOfSeq
      <3>3. QED
        BY <1>3, <2>1, <3>1, <3>2 DEF CallsAfter
    <2>2. CASE j \notin DOMAIN jobs
      BY <1>3, <2>2 DEF CallsAfter
    <2>3. QED
      BY <2>1, <2>2
  <1>4. calls' \in [1..Len(jobs') -> Nat]
    BY <1>1, <1>3 DEF CallsAfter
  <1>5. calls' \in Seq(Nat) /\ Len(calls') = Len(jobs')
    BY <1>1, <1>4, SeqDef, LenProperties
  <1>6. QED
    BY <1>2, <1>5 DEF CallsAfter

(* A restart takes memory back to the file. *)
LEMMA StartAgainTypeOK ==
  ASSUME DurableTypeOK, StartAgain
  PROVE  /\ DurableTypeOK'
         /\ DOMAIN disk \subseteq DOMAIN jobs /\ DOMAIN disk \subseteq DOMAIN calls
         /\ \A j \in DOMAIN disk : calls'[j] = calls[j]
  <1>1. /\ Len(disk) \in Nat /\ DOMAIN disk = 1..Len(disk)
        /\ Len(jobs) \in Nat /\ DOMAIN jobs = 1..Len(jobs)
        /\ DOMAIN calls = 1..Len(jobs)
        /\ Len(disk) <= Len(jobs)
    BY LenProperties DEF DurableTypeOK, TypeOK
  <1>2. /\ calls' \in Seq(Nat) /\ Len(calls') = Len(disk)
        /\ \A j \in 1..Len(disk) : calls'[j] = calls[j]
    BY <1>1, SubSeqProperties DEF StartAgain, DurableTypeOK
  <1>3. DrainOK(Idle, DOMAIN disk)
    BY DEF DrainOK, IsBatch, Idle, EmptyBatch
  <1>4. TypeOK'
    BY <1>3 DEF StartAgain, Load, DurableTypeOK, TypeOK
  <1>5. DurableTypeOK'
    BY <1>1, <1>2, <1>4, MaxRestartsAssumption DEF StartAgain, Load, DurableTypeOK
  <1>6. QED
    BY <1>1, <1>2, <1>5

LEMMA DurableNextTypeOK ==
  DurableTypeOK /\ [DurableNext]_durableVars => DurableTypeOK'
  <1> SUFFICES ASSUME DurableTypeOK, [DurableNext]_durableVars PROVE DurableTypeOK'
    OBVIOUS
  <1>1. CASE Work
    <2>1. TypeOK' /\ JobsMove
      BY <1>1, NextTypeOK, NextMoves DEF Work, DurableTypeOK
    <2>2. calls' \in Seq(Nat) /\ Len(calls') = Len(jobs') /\ Len(jobs) <= Len(jobs')
      BY <1>1, <2>1, CallsFollow DEF Work, DurableTypeOK
    <2>3. Len(disk) \in Nat /\ Len(jobs) \in Nat /\ Len(jobs') \in Nat
      BY <2>1, LenProperties DEF DurableTypeOK, TypeOK
    <2>4. QED
      BY <1>1, <2>1, <2>2, <2>3 DEF Work, DurableTypeOK
  <1>2. CASE Flush
    <2>1. TypeOK'
      BY <1>2 DEF Flush, DurableTypeOK, TypeOK, DrainOK
    <2>2. disk' \in Seq(JobType) /\ Len(disk') <= Len(jobs')
      BY <1>2, LenProperties DEF Flush, DurableTypeOK, TypeOK
    <2>3. QED
      BY <1>2, <2>1, <2>2 DEF Flush, DurableTypeOK
  <1>3. CASE Signal
    <2>1. TypeOK'
      BY <1>3 DEF Signal, DurableTypeOK, TypeOK, DrainOK
    <2>2. disk' \in Seq(JobType) /\ Len(disk') <= Len(jobs')
      BY <1>3, LenProperties DEF Signal, DurableTypeOK, TypeOK
    <2>3. QED
      BY <1>3, <2>1, <2>2 DEF Signal, DurableTypeOK
  <1>4. CASE Crash \/ Exit
    BY <1>4, StartAgainTypeOK DEF Crash, Exit
  <1>5. CASE UNCHANGED durableVars
    BY <1>5 DEF durableVars, DurableTypeOK, TypeOK, DrainOK
  <1>6. QED
    BY <1>1, <1>2, <1>3, <1>4, <1>5 DEF DurableNext

LEMMA DurableInitTypeOK == DurableInit => DurableTypeOK
  BY InitTypeOK, MaxRestartsAssumption DEF DurableInit, DurableTypeOK, Init

(* The file and the outside view keep describing the same list of jobs as  *)
(* memory, over any number of crashes, stops and failed flushes.           *)
THEOREM DurableTypeCorrect == DurableSpec => []DurableTypeOK
  BY DurableInitTypeOK, DurableNextTypeOK, PTL DEF DurableSpec

-----------------------------------------------------------------------------
(* The audit log. *)

(* Prefixes, entry by entry. *)
LEMMA PrefixIsExtends ==
  ASSUME NEW log \in Seq(LogEntries), NEW longer \in Seq(LogEntries)
  PROVE  IsPrefix(log, longer) <=> Extends(log, longer)
  <1>1. Len(log) \in Nat /\ Len(longer) \in Nat
    BY LenProperties
  <1>2. ASSUME Len(log) <= Len(longer)
        PROVE  /\ SubSeq(log, 1, Len(log)) = [p \in 1..Len(log) |-> log[p]]
               /\ SubSeq(longer, 1, Len(log)) = [p \in 1..Len(log) |-> longer[p]]
    BY <1>1, <1>2
  <1>3. QED
    BY <1>1, <1>2 DEF IsPrefix, Extends

(* Every step extends the audit log of every job in the file, and a        *)
(* restart makes the two equal.                                            *)
THEOREM AuditOnlyGrows == DurableSpec => []AuditIsExtended
  <1> DEFINE Inv == \A j \in DOMAIN disk : j \in DOMAIN jobs /\ Extends(disk[j].log, jobs[j].log)
  <1>1. DurableTypeOK => (Inv <=> AuditIsExtended)
    BY JobFields, PrefixIsExtends DEF DurableTypeOK, TypeOK, AuditIsExtended
  <1>2. ASSUME NEW s \in Seq(JobType), NEW j \in DOMAIN s PROVE Extends(s[j].log, s[j].log)
    BY JobFields, LenProperties DEF Extends
  <1>3. DurableInit => Inv
    BY DEF DurableInit
  <1>4. DurableTypeOK /\ DurableTypeOK' /\ Inv /\ [DurableNext]_durableVars => Inv'
    <2> SUFFICES ASSUME DurableTypeOK, DurableTypeOK', Inv, [DurableNext]_durableVars,
                        NEW j \in DOMAIN disk'
                 PROVE  j \in DOMAIN jobs' /\ Extends(disk'[j].log, jobs'[j].log)
      OBVIOUS
    <2>1. jobs \in Seq(JobType) /\ disk \in Seq(JobType)
      BY DEF DurableTypeOK, TypeOK
    <2>2. CASE Work
      <3>1. JobsMove /\ disk' = disk
        BY <2>2, NextMoves DEF Work, DurableTypeOK
      <3>2. j \in DOMAIN jobs /\ j \in DOMAIN jobs' /\ Extends(disk[j].log, jobs[j].log)
              /\ Extends(jobs[j].log, jobs'[j].log)
        BY <3>1 DEF JobsMove, Kept
      <3>3. Len(disk[j].log) \in Nat /\ Len(jobs[j].log) \in Nat /\ Len(jobs'[j].log) \in Nat
        BY <2>1, <3>1, <3>2, JobFields, LenProperties DEF DurableTypeOK, TypeOK
      <3>4. QED
        BY <3>1, <3>2, <3>3 DEF Extends
    <2>3. CASE Flush \/ Signal
      <3>1. jobs' = jobs /\ (disk' = jobs \/ disk' = disk)
        BY <2>3 DEF Flush, Signal
      <3>2. CASE disk' = jobs
        BY <1>2, <2>1, <3>1, <3>2
      <3>3. CASE disk' = disk
        BY <3>1, <3>3
      <3>4. QED
        BY <3>1, <3>2, <3>3
    <2>4. CASE Crash \/ Exit
      BY <1>2, <2>1, <2>4 DEF Crash, Exit, StartAgain, Load
    <2>5. CASE UNCHANGED durableVars
      BY <2>5 DEF durableVars
    <2>6. QED
      BY <2>2, <2>3, <2>4, <2>5 DEF DurableNext
  <1> HIDE DEF Inv
  <1>5. QED
    BY <1>1, <1>3, <1>4, DurableTypeCorrect, PTL DEF DurableSpec

-----------------------------------------------------------------------------
(* Orphans. *)

(* No handler makes a job processing without an attempt in flight, and none *)
(* touches one that already is: only a restart, which reads it from the     *)
(* file, brings it about, and so the file holds it as it is.                *)
THEOREM OrphansStay == DurableSpec => []OrphansAreFrozen
  <1>1. DurableInit => OrphansAreFrozen
    BY DEF DurableInit, Init, OrphansAreFrozen
  <1>2. DurableTypeOK /\ OrphansAreFrozen /\ [DurableNext]_durableVars => OrphansAreFrozen'
    <2> SUFFICES ASSUME DurableTypeOK, OrphansAreFrozen, [DurableNext]_durableVars,
                        NEW j \in DOMAIN jobs', jobs'[j].status = "processing",
                        \A d \in Drains : ~InFlight(d, j, jobs[j].attempts)'
                 PROVE  j \in DOMAIN disk' /\ disk'[j] = jobs'[j]
      BY DEF OrphansAreFrozen
    <2>1. CASE Work
      <3>1. JobsMove /\ disk' = disk
        BY <2>1, NextMoves DEF Work, DurableTypeOK
      <3>2. j \in DOMAIN jobs
        BY <3>1 DEF JobsMove
      <3>3. LeftAlone(j)
        BY <3>1, <3>2 DEF JobsMove
      <3>4. jobs'[j] = jobs[j] /\ \A d \in Drains : ~InFlight(d, j, jobs[j].attempts)
        BY <3>3 DEF LeftAlone
      <3>5. QED
        BY <3>1, <3>2, <3>4 DEF OrphansAreFrozen
    <2>2. CASE Flush \/ Signal
      <3>1. jobs' = jobs /\ drain' = drain /\ (disk' = jobs \/ disk' = disk)
        BY <2>2 DEF Flush, Signal
      <3>2. \A d \in Drains : ~InFlight(d, j, jobs[j].attempts)
        BY <3>1 DEF InFlight
      <3>3. QED
        BY <3>1, <3>2 DEF OrphansAreFrozen
    <2>3. CASE Crash \/ Exit
      BY <2>3 DEF Crash, Exit, StartAgain, Load
    <2>4. CASE UNCHANGED durableVars
      BY <2>4 DEF durableVars, OrphansAreFrozen, InFlight
    <2>5. QED
      BY <2>1, <2>2, <2>3, <2>4 DEF DurableNext
  <1>3. QED
    BY <1>1, <1>2, DurableTypeCorrect, PTL DEF DurableSpec

-----------------------------------------------------------------------------
(* Dispatches.  A restart forgets the attempts since the last flush; these  *)
(* are at most the allowance of the job, and so are those the file starts   *)
(* from again.                                                              *)

FileInBudget ==
  \A j \in DOMAIN disk :
    /\ j \in DOMAIN jobs
    /\ disk[j].maxAttempts = jobs[j].maxAttempts /\ disk[j].attempts <= Allowance(j)

(* The budget over restarts: the file never holds a job beyond its         *)
(* allowance, so that no restart brings one back.                          *)
LEMMA DurableBudget == DurableSpec => [](BudgetInv /\ FileInBudget)
  <1>1. DurableInit => BudgetInv /\ FileInBudget
    BY DEF DurableInit, Init, BudgetInv, FileInBudget
  <1>2. DurableTypeOK /\ DurableTypeOK' /\ BudgetInv /\ FileInBudget /\ [DurableNext]_durableVars
          => (BudgetInv /\ FileInBudget)'
    <2> SUFFICES ASSUME DurableTypeOK, DurableTypeOK', BudgetInv, FileInBudget,
                        [DurableNext]_durableVars
                 PROVE  BudgetInv' /\ FileInBudget'
      OBVIOUS
    <2>1. TypeOK /\ TypeOK' /\ BudgetOverrunBounded
      BY HeldJobsAreCounted DEF DurableTypeOK
    <2>2. CASE Work
      <3>1. BudgetInv' /\ JobsMove /\ disk' = disk
        BY <2>1, <2>2, NextBudget, NextMoves DEF Work
      <3>2. FileInBudget'
        BY <3>1 DEF FileInBudget, JobsMove, Kept, Allowance
      <3>3. QED
        BY <3>1, <3>2
    <2>3. CASE Flush \/ Signal
      <3>1. jobs' = jobs /\ drain' = drain /\ (disk' = jobs \/ disk' = disk)
        BY <2>3 DEF Flush, Signal
      <3>2. BudgetInv'
        BY <2>1, <3>1, NoDispatchBudget
      <3>3. FileInBudget'
        <4>1. CASE disk' = jobs
          BY <2>1, <3>1, <4>1 DEF FileInBudget, BudgetOverrunBounded, Allowance
        <4>2. CASE disk' = disk
          BY <3>1, <4>2 DEF FileInBudget, Allowance
        <4>3. QED
          BY <3>1, <4>1, <4>2
      <3>4. QED
        BY <3>2, <3>3
    <2>4. CASE Crash \/ Exit
      <3>1. jobs' = disk /\ disk' = disk /\ drain' = [d \in Drains |-> Idle]
        BY <2>4 DEF Crash, Exit, StartAgain, Load
      <3>2. FileInBudget'
        BY <3>1 DEF FileInBudget, Allowance
      <3>3. ASSUME NEW j \in DOMAIN jobs'
            PROVE  jobs'[j].attempts + Cardinality(Holders(j)')
                     <= jobs'[j].maxAttempts + Cardinality(Drains) - 1
        <4>1. Holders(j)' = {}
          BY <3>1 DEF Holders, Idle, EmptyBatch
        <4>2. Cardinality(Holders(j)') = 0
          BY <4>1, FS_EmptySet
        <4>3. jobs'[j].attempts <= jobs'[j].maxAttempts + Cardinality(Drains) - 1
          BY <3>1, <3>3 DEF FileInBudget, Allowance
        <4>4. jobs'[j].attempts \in Nat /\ jobs'[j].maxAttempts \in 1..10
          BY <2>1, <3>3, JobFields DEF TypeOK
        <4>5. QED
          BY <4>2, <4>3, <4>4, HoldersCount
      <3>4. BudgetInv'
        BY <3>3 DEF BudgetInv
      <3>5. QED
        BY <3>2, <3>4
    <2>5. CASE UNCHANGED durableVars
      <3>1. UNCHANGED <<jobs, drain, disk>>
        BY <2>5 DEF durableVars
      <3>2. BudgetInv'
        BY <2>1, <3>1, NoDispatchBudget
      <3>3. QED
        BY <3>1, <3>2 DEF FileInBudget, Allowance
    <2>6. QED
      BY <2>2, <2>3, <2>4, <2>5 DEF DurableNext
  <1>3. QED
    BY <1>1, <1>2, DurableTypeCorrect, PTL DEF DurableSpec

(* Every restart costs at most one further allowance of calls of the       *)
(* provider, whatever the journal had not yet seen and however many drains *)
(* overlap; with one drain at a time that is one further budget.           *)
THEOREM RestartsCostOneAllowance == DurableSpec => []DispatchesBounded
  <1>1. DurableInit => DispatchesBounded
    BY DEF DurableInit, Init, DispatchesBounded
  <1>2. DurableTypeOK /\ DurableTypeOK' /\ BudgetInv /\ FileInBudget
          /\ DispatchesBounded /\ [DurableNext]_durableVars => DispatchesBounded'
    <2> SUFFICES ASSUME DurableTypeOK, DurableTypeOK', BudgetInv, FileInBudget,
                        DispatchesBounded, [DurableNext]_durableVars, NEW j \in DOMAIN jobs'
                 PROVE  calls'[j] <= jobs'[j].attempts + restarts' * Allowance(j)'
      BY DEF DispatchesBounded
    <2>1. TypeOK /\ TypeOK' /\ BudgetOverrunBounded /\ restarts \in Nat
      BY HeldJobsAreCounted DEF DurableTypeOK
    <2>2. /\ jobs'[j].attempts \in Nat /\ Allowance(j)' \in Nat
          /\ \A i \in DOMAIN jobs : jobs[i].attempts \in Nat /\ Allowance(i) \in Nat
                                      /\ calls[i] \in Nat
      <3>1. calls \in Seq(Nat) /\ DOMAIN calls = DOMAIN jobs
        BY LenProperties DEF DurableTypeOK, TypeOK
      <3>2. \A i \in DOMAIN jobs : calls[i] \in Nat
        BY <3>1, ElementOfSeq, LenProperties
      <3>3. /\ jobs'[j].attempts \in Nat /\ jobs'[j].maxAttempts \in 1..10
            /\ \A i \in DOMAIN jobs : jobs[i].attempts \in Nat /\ jobs[i].maxAttempts \in 1..10
        BY <2>1, JobFields DEF TypeOK
      <3>4. Cardinality(Drains) \in Nat \ {0}
        BY HoldersCount
      <3>5. QED
        BY <3>2, <3>3, <3>4 DEF Allowance
    <2>3. CASE Work
      <3>1. JobsMove /\ restarts' = restarts
        BY <2>1, <2>3, NextMoves DEF Work
      <3>2. calls'[j] = IF j \in DOMAIN jobs
                        THEN calls[j] + (jobs'[j].attempts - jobs[j].attempts) ELSE 0
        BY <2>1, <2>3, <3>1, CallsFollow DEF Work, DurableTypeOK
      <3>3. CASE j \in DOMAIN jobs
        <4>1. /\ calls[j] <= jobs[j].attempts + restarts * Allowance(j)
              /\ Allowance(j)' = Allowance(j)
          BY <3>1, <3>3 DEF DispatchesBounded, JobsMove, Kept, Allowance
        <4>2. PICK cost \in Nat : cost = restarts * Allowance(j)
          BY <2>1, <2>2, <3>3
        <4>3. restarts' * Allowance(j)' = cost
          BY <3>1, <4>1, <4>2
        <4>4. calls[j] <= jobs[j].attempts + cost
          BY <4>1, <4>2
        <4>5. calls'[j] <= jobs'[j].attempts + cost
          BY <2>2, <3>2, <3>3, <4>4
        <4>6. QED
          BY <4>3, <4>5
      <3>4. CASE j \notin DOMAIN jobs
        <4>1. PICK cost \in Nat : cost = restarts' * Allowance(j)'
          BY <2>1, <2>2, <3>1
        <4>2. calls'[j] <= jobs'[j].attempts + cost
          BY <2>2, <3>2, <3>4
        <4>3. QED
          BY <4>1, <4>2
      <3>5. QED
        BY <3>3, <3>4
    <2>4. CASE Flush \/ Signal
      BY <2>4 DEF Flush, Signal, DispatchesBounded, Allowance
    <2>5. CASE Crash \/ Exit
      <3>1. StartAgain
        BY <2>5 DEF Crash, Exit
      <3>2. jobs' = disk /\ restarts' = restarts + 1 /\ j \in DOMAIN disk
        BY <3>1 DEF StartAgain, Load
      <3>3. j \in DOMAIN jobs /\ calls'[j] = calls[j]
        BY <3>1, <3>2, StartAgainTypeOK
      <3>4. /\ calls[j] <= jobs[j].attempts + restarts * Allowance(j)
            /\ jobs[j].attempts <= Allowance(j)
            /\ Allowance(j)' = Allowance(j)
        BY <2>1, <3>2, <3>3 DEF DispatchesBounded, BudgetOverrunBounded, FileInBudget, Allowance
      <3>5. PICK budget \in Nat : budget = Allowance(j)
        BY <2>2, <3>3
      <3>6. PICK times \in Nat : times = restarts
        BY <2>1
      <3>7. PICK cost \in Nat : cost = times * budget /\ (times + 1) * budget = cost + budget
        <4>1. \A n, m \in Nat : n * m \in Nat /\ (n + 1) * m = n * m + m
          OBVIOUS
        <4>2. QED
          BY <4>1
      <3>8. calls[j] <= cost + budget
        <4>1. calls[j] <= jobs[j].attempts + cost
          BY <3>4, <3>5, <3>6, <3>7
        <4>2. QED
          BY <2>2, <3>3, <3>4, <3>5, <4>1
      <3>9. calls'[j] <= jobs'[j].attempts + (cost + budget)
        BY <2>2, <3>3, <3>8
      <3>10. restarts' * Allowance(j)' = cost + budget
        BY <3>2, <3>4, <3>5, <3>6, <3>7
      <3>11. QED
        BY <3>9, <3>10
    <2>6. CASE UNCHANGED durableVars
      BY <2>6 DEF durableVars, DispatchesBounded, Allowance
    <2>7. QED
      BY <2>3, <2>4, <2>5, <2>6 DEF DurableNext
  <1>3. QED
    BY <1>1, <1>2, DurableTypeCorrect, DurableBudget, PTL DEF DurableSpec
=============================================================================
