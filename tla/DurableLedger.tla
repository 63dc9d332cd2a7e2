---------------------------- MODULE DurableLedger ---------------------------
(***************************************************************************)
(* The reward ledger over the JSON journal, with crashes, and what the     *)
(* administrators were told: the answers of POST /rewards/export/mark and  *)
(* POST /rewards/export/settle are what payments outside are made from.    *)
(* The journal is modelled as in DurableQueue; a graceful stop is a flush  *)
(* followed by a crash, since ledger handlers leave nothing in flight.     *)
(***************************************************************************)
EXTENDS RewardLedger, Sequences, Functions

CONSTANT MaxRestarts   \* bound: crashes

ASSUME MaxRestartsAssumption == MaxRestarts \in Nat

VARIABLES
  disk,       \* the ledger in the store file
  restarts,   \* how often the process was started again
  exportedIn, \* for every id, the batches of the export answers that listed it
  settledIn   \* the same for the settlement answers

durableVars == <<ledger, created, clock, disk, restarts, exportedIn, settledIn>>

-----------------------------------------------------------------------------

Listing(answers, ids, batch) ==
  [i \in 1..MaxEntries |-> IF i \in ids THEN Append(answers[i], batch) ELSE answers[i]]

Export(ids, batch) ==
  /\ MarkExported(ids, batch)
  /\ exportedIn' = Listing(exportedIn, Exportable(ids), batch)
  /\ UNCHANGED <<disk, restarts, settledIn>>

Settle(ids, batch, hash) ==
  /\ SettleExportBatch(ids, batch, hash)
  /\ settledIn' = Listing(settledIn, Settleable(ids, batch), batch)
  /\ UNCHANGED <<disk, restarts, exportedIn>>

Earn ==
  /\ Accrue \/ Grant \/ Tick
  /\ UNCHANGED <<disk, restarts, exportedIn, settledIn>>

Flush ==
  /\ disk' = ledger
  /\ UNCHANGED <<ledger, created, clock, restarts, exportedIn, settledIn>>

MutantLoad(file) ==
  [i \in DOMAIN file |->
     IF file[i].status = "EXPORTED" THEN [file[i] EXCEPT !.batch = None] ELSE file[i]]
Load(file) == file

(* The ids of lost entries are not given out again. *)
Crash ==
  /\ restarts < MaxRestarts
  /\ restarts' = restarts + 1
  /\ ledger' = Load(disk)
  /\ UNCHANGED <<created, clock, disk, exportedIn, settledIn>>

DurableInit ==
  /\ Init
  /\ disk = ledger /\ restarts = 0
  /\ exportedIn = [i \in 1..MaxEntries |-> << >>]
  /\ settledIn = [i \in 1..MaxEntries |-> << >>]

DurableNext ==
  \/ Earn
  \/ \E ids \in SUBSET DOMAIN ledger, batch \in Batches : Export(ids, batch)
  \/ \E ids \in SUBSET DOMAIN ledger, batch \in Batches, hash \in Hashes :
       Settle(ids, batch, hash)
  \/ Flush
  \/ Crash

DurableSpec == DurableInit /\ [][DurableNext]_durableVars

-----------------------------------------------------------------------------
(* Properties. *)

(* An entry is handed out for payment once, and once more for every crash  *)
(* that may have taken its export back; the same holds for settlements.    *)
HandedOutOncePerRun ==
  \A i \in 1..MaxEntries :
    Len(exportedIn[i]) <= 1 + restarts /\ Len(settledIn[i]) <= 1 + restarts

(* What is settled under a batch was exported under that batch, crashes or *)
(* not, and corrections are in neither.                                    *)
SettlementsFollowExports ==
  \A i \in 1..MaxEntries :
    /\ Range(settledIn[i]) \subseteq Range(exportedIn[i])
    /\ i \in DOMAIN ledger /\ ledger[i].amount <= 0 => exportedIn[i] = << >>

(* A batch in the ledger was announced in the answer of an export, so that *)
(* it can be settled under the name the administrators know it by.         *)
ExportedBatchIsKnown ==
  \A i \in DOMAIN ledger :
    ledger[i].status \in {"EXPORTED", "PAID"} => ledger[i].batch \in Range(exportedIn[i])
=============================================================================
