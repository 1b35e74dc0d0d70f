------------------------------ MODULE Recovery ------------------------------
(***************************************************************************)
(* The recovery sweep of src/application/recovery.ts: it reclaims rows     *)
(* that have been delivering for too long, and drives pending rows that    *)
(* are due through the dispatcher's resumeDelivery.                        *)
(*                                                                         *)
(* Its two lists are snapshots: the reclaimed rows are computed from the   *)
(* snapshot and saved later, whatever the row has become.  Over DynamoDB   *)
(* the lists come from an index on the status of a row, which follows the  *)
(* table when it gets round to it: a list may hold an older content.       *)
(***************************************************************************)
EXTENDS Dispatcher

CONSTANTS
    SweepEnabled,  \* RECOVERY_INTERVAL_MS > 0
    BatchLimit,    \* RECOVERY_BATCH_LIMIT
    LaggingIndex   \* the lists read an index that lags: PERSISTENCE = dynamodb

ASSUME RecoveryAssumption ==
    /\ SweepEnabled \in BOOLEAN
    /\ BatchLimit \in Nat \ {0}
    /\ LaggingIndex \in BOOLEAN

VARIABLES
    sweep,     \* where runOnce is; pc # "idle" is its running flag
    index      \* what the status index holds of each row

-----------------------------------------------------------------------------
SweepStates ==
    [pc      : {"idle", "listStuck", "reclaim", "listDue", "resume"},
     reclaim : [Deliveries -> DeliveryRecords \cup {Null}],  \* saves to come
     due     : SUBSET Deliveries]                            \* resumes to come

NoSnapshot == [d \in Deliveries |-> Null]

NoSweep == [pc |-> "idle", reclaim |-> NoSnapshot, due |-> {}]

RecoveryTypeOK ==
    /\ sweep \in SweepStates
    /\ index \in [Deliveries -> DeliveryRecords \cup {Null}]

RecoveryInit == sweep = NoSweep /\ index = [d \in Deliveries |-> Null]

(* Mutant: one row less than the limit: none, with a limit of 1.           *)
Batches_OneLess(candidates) ==
    {batch \in SUBSET candidates :
        \/ batch = candidates /\ Cardinality(candidates) < BatchLimit
        \/ Cardinality(batch) = BatchLimit - 1}

(* What a query with a limit may return.  The repositories order it, the   *)
(* longest overdue first; the model takes any batch of that size.          *)
Batches(candidates) ==
    {batch \in SUBSET candidates :
        \/ batch = candidates /\ Cardinality(candidates) <= BatchLimit
        \/ Cardinality(batch) = BatchLimit}

(* The row that a list finds for a delivery.                               *)
Indexed(d) == IF LaggingIndex THEN index[d] ELSE rows[d]

StuckRows == {d \in Deliveries : Indexed(d) # Null /\ IsStuck(Indexed(d))}

DueRows == {d \in Deliveries : Indexed(d) # Null /\ IsDue(Indexed(d))}

ResumedBySweep == {d \in Deliveries : \E s \in Slots : runs[d][s].by = "recovery"}

-----------------------------------------------------------------------------
(* The index catches up with the table for one delivery.  It may have      *)
(* skipped any contents the row had in between.                            *)
Replicate(d) ==
    /\ LaggingIndex
    /\ index[d] # rows[d]
    /\ index' = [index EXCEPT ![d] = rows[d]]
    /\ UNCHANGED <<dispatcherVars, sweep>>

(* The interval timer calls runOnce; a call during a sweep is a no-op.     *)
SweepStart ==
    /\ SweepEnabled
    /\ sweep.pc = "idle"
    /\ sweep' = [sweep EXCEPT !.pc = "listStuck"]
    /\ UNCHANGED dispatcherVars

(* listStuckDelivering answers: every row of the batch is reclaimed from   *)
(* the snapshot, and the saves are issued.                                 *)
ListStuck ==
    /\ sweep.pc = "listStuck"
    /\ \E batch \in Batches(StuckRows) :
          sweep' = [sweep EXCEPT
              !.pc = "reclaim",
              !.reclaim = [d \in Deliveries |->
                  IF d \in batch THEN reclaimStuck(Indexed(d)) ELSE Null]]
    /\ UNCHANGED dispatcherVars

(* One of those saves takes effect.                                        *)
Reclaim(d) ==
    /\ sweep.pc = "reclaim" /\ sweep.reclaim[d] # Null
    /\ Save(d, sweep.reclaim[d])
    /\ sweep' = [sweep EXCEPT !.reclaim[d] = Null]
    /\ UNCHANGED <<events, dispatch, runs, heard, posts, faults>>

ReclaimFails(d) ==
    /\ sweep.pc = "reclaim" /\ sweep.reclaim[d] # Null
    /\ SaveRejects(d, sweep.reclaim[d])
    /\ sweep' = [sweep EXCEPT !.reclaim[d] = Null]
    /\ UNCHANGED <<events, dispatch, runs, heard, posts>>

(* allSettled: every save of the batch has been answered.                  *)
Reclaimed ==
    /\ sweep.pc = "reclaim" /\ sweep.reclaim = NoSnapshot
    /\ sweep' = [sweep EXCEPT !.pc = "listDue"]
    /\ UNCHANGED dispatcherVars

(* listPendingDue answers.                                                 *)
ListDue ==
    /\ sweep.pc = "listDue"
    /\ \E batch \in Batches(DueRows) :
          sweep' = [sweep EXCEPT !.pc = "resume", !.due = batch]
    /\ UNCHANGED dispatcherVars

(* resumeDelivery(d) is called, and starts by reading the row.             *)
Resume(d) ==
    /\ sweep.pc = "resume" /\ d \in sweep.due
    /\ FreeSlots(d) # {}
    /\ GoTo(d, FreeSlot(d), [NoRun EXCEPT !.pc = "get", !.by = "recovery"])
    /\ sweep' = [sweep EXCEPT !.due = @ \ {d}]
    /\ UNCHANGED <<events, dispatch, rows, heard, posts, faults>>

(* allSettled: every resumed run has ended, or has left a retry timer.     *)
SweepEnd ==
    /\ sweep.pc = "resume" /\ sweep.due = {} /\ ResumedBySweep = {}
    /\ sweep' = NoSweep
    /\ UNCHANGED dispatcherVars

(* Mutant: no finally: the running flag stays set.                         *)
ListFails_StaysRunning ==
    /\ sweep.pc \in {"listStuck", "listDue"}
    /\ Fault
    /\ sweep' = [NoSweep EXCEPT !.pc = "stopped"]
    /\ UNCHANGED <<events, dispatch, rows, runs, heard, posts>>

(* A list rejects: runOnce rejects, and its finally clears the flag.       *)
ListFails ==
    /\ sweep.pc \in {"listStuck", "listDue"}
    /\ Fault
    /\ sweep' = NoSweep
    /\ UNCHANGED <<events, dispatch, rows, runs, heard, posts>>

SweepStep ==
    \/ SweepStart \/ ListStuck \/ Reclaimed \/ ListDue \/ SweepEnd
    \/ \E d \in Deliveries : Reclaim(d) \/ Resume(d)

SweepFault == ListFails \/ \E d \in Deliveries : ReclaimFails(d)
=============================================================================
