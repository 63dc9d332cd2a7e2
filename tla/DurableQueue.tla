---------------------------- MODULE DurableQueue ----------------------------
(***************************************************************************)
(* The notification queue in a process that can crash or be stopped, with  *)
(* the JSON journal of infrastructure/memory/memory-store.ts under it.     *)
(*                                                                         *)
(* The journal is the whole store, rewritten by a timer through a          *)
(* temporary file and a rename, so it always holds one complete earlier    *)
(* state.  A signal flushes it once more, stops the timer and lets open    *)
(* requests run on (src/index.ts); then the process exits.                 *)
(***************************************************************************)
EXTENDS NotificationQueue, SequencesExt

CONSTANT MaxRestarts   \* bound: crashes and stops

ASSUME MaxRestartsAssumption == MaxRestarts \in Nat

VARIABLES
  disk,      \* the store file
  server,    \* "up", or "closing" after SIGINT or SIGTERM
  restarts,  \* how often the process was started again
  calls      \* the calls of provider.send per job, seen from outside

durableVars == <<jobs, drain, now, disk, server, restarts, calls>>

-----------------------------------------------------------------------------

(* The outside world counts the dispatches of the jobs the store knows.    *)
CallsAfter(old, new, made) ==
  [j \in DOMAIN new |->
     IF j \in DOMAIN old THEN made[j] + (new[j].attempts - old[j].attempts) ELSE 0]

(* A handler, or a later part of one, runs; also while the server closes:  *)
(* close() only keeps new connections out.                                 *)
Work ==
  /\ Next
  /\ calls' = CallsAfter(jobs, jobs', calls)
  /\ UNCHANGED <<disk, server, restarts>>

(* The interval timer.  A failed flush is logged and changes nothing.      *)
Flush ==
  /\ server = "up"
  /\ disk' = jobs
  /\ UNCHANGED <<jobs, drain, now, server, restarts, calls>>

(* The signal handlers: the last flush, which may fail, and no timer.      *)
Signal ==
  /\ server = "up"
  /\ server' = "closing"
  /\ disk' \in {jobs, disk}
  /\ UNCHANGED <<jobs, drain, now, restarts, calls>>

MutantLoadNoAudit(file) == [j \in DOMAIN file |-> [file[j] EXCEPT !.log = << >>]]
Load(file) == file

(* createMemoryStore in the next process: what memory held beyond the file *)
(* is gone, and so are the drains.                                         *)
StartAgain ==
  /\ restarts < MaxRestarts
  /\ restarts' = restarts + 1
  /\ jobs' = Load(disk)
  /\ calls' = SubSeq(calls, 1, Len(disk))
  /\ drain' = [d \in Drains |-> Idle]
  /\ server' = "up"
  /\ UNCHANGED <<disk, now>>

Crash == server = "up" /\ StartAgain

(* server.close calls back once no request is open; after 5 s the process  *)
(* exits anyway, so the exit waits for nothing.                            *)
Exit == server = "closing" /\ StartAgain

DurableInit ==
  /\ Init
  /\ disk = << >> /\ calls = << >>
  /\ server = "up" /\ restarts = 0

DurableNext == Work \/ Flush \/ Signal \/ Crash \/ Exit

DurableSpec == DurableInit /\ [][DurableNext]_durableVars

-----------------------------------------------------------------------------
(* Properties. *)

(* The file and the outside view describe the same list of jobs as memory: *)
(* ids mean the same job on both sides of a restart.                       *)
DurableTypeOK ==
  /\ TypeOK
  /\ disk \in Seq(JobType) /\ Len(disk) <= Len(jobs)
  /\ calls \in Seq(Nat) /\ Len(calls) = Len(jobs)
  /\ server \in {"up", "closing"} /\ restarts \in 0..MaxRestarts

(* The audit log in the file is a prefix of the one in memory, job by job: *)
(* audit entries are only ever appended, and a restart takes a log back to *)
(* a point it passed, never to a different past.                           *)
AuditIsExtended ==
  \A j \in DOMAIN disk : j \in DOMAIN jobs /\ IsPrefix(disk[j].log, jobs[j].log)

(* A restart may make the queue forget attempts and repeat them, but every *)
(* restart costs at most one further allowance: the budget of the job, and *)
(* one call for each drain that overlaps the first.                        *)
DispatchesBounded ==
  \A j \in DOMAIN jobs :
    calls[j] <= jobs[j].attempts + restarts * Allowance(j)

(* A job shown as processing without an attempt in flight was left by a    *)
(* process that died: the file holds it in the very same state, and every  *)
(* later restart brings it back.                                           *)
OrphansAreFrozen ==
  \A j \in DOMAIN jobs :
    jobs[j].status = "processing" /\ (\A d \in Drains : ~InFlight(d, j, jobs[j].attempts))
      => j \in DOMAIN disk /\ disk[j] = jobs[j]

(* What the queue has recorded when the process exits after a signal is in *)
(* the file: a graceful stop loses nothing.                                *)
GracefulStopLosesNothing ==
  [][server = "closing" /\ server' = "up" => disk = jobs]_durableVars
=============================================================================
