----------------------------- MODULE Dispatcher -----------------------------
(***************************************************************************)
(* Event ingestion (src/application/event-service.ts) and the dispatcher   *)
(* (src/application/dispatcher.ts): an accepted event is matched, one      *)
(* pending row per matching subscription is persisted, and each row is     *)
(* driven by attempts that read, write and await between reads and writes. *)
(*                                                                         *)
(* A run is one activation of resumeDelivery or attemptDelivery for a      *)
(* delivery, or the retry timer it leaves behind.  A step of a run is what *)
(* the code does between two awaits; what is awaited may take effect long  *)
(* after the copy of the row it was computed from was read.  Saves replace *)
(* the whole row and are unconditional, as in both repositories.           *)
(***************************************************************************)
EXTENDS Delivery, FiniteSets

CONSTANTS
    Events,          \* events that may be published
    Subs,            \* subscriptions that may match
    Slots,           \* runs one delivery may have at a time (a bound)
    WebhookTimeout,  \* WEBHOOK_TIMEOUT_MS
    StoreTimeout,    \* longest time a save on the attempt path may take
    MaxFaults        \* failed store calls and purged events in a behaviour (a bound)

ASSUME DispatcherAssumption ==
    /\ IsFiniteSet(Slots) /\ Slots # {}
    /\ WebhookTimeout \in Nat
    /\ StoreTimeout \in Nat
    /\ MaxFaults \in Nat

VARIABLES
    events,    \* the event table: "none", "stored" or "purged" per event
    dispatch,  \* per event, where ingest and dispatchEvent are
    rows,      \* the delivery table: the row of a delivery, or Null
    runs,      \* the runs of each delivery
    heard,     \* history: what the world answered for each delivery
    posts,     \* history: the POSTs issued for each delivery
    faults     \* faults so far

dispatcherVars == <<events, dispatch, rows, runs, heard, posts, faults>>

-----------------------------------------------------------------------------
Deliveries == Events \X Subs

DispatchStates ==
    [pc : {"idle", "accept", "rejected", "match", "materialize",
           "done", "failed", "lost"},
     matched : SUBSET Subs,   \* what findSubscriptionsForEvent returned
     unsaved : SUBSET Subs,   \* materializeDelivery still saving
     made    : SUBSET Subs]   \* materializeDelivery fulfilled

NotDispatched == [pc |-> "idle", matched |-> {}, unsaved |-> {}, made |-> {}]

(* The await a run is at:                                                  *)
(*   get       resumeDelivery: deliveries.get                              *)
(*   getEvent  resumeDelivery: events.get                                  *)
(*   giveUp    deliveries.save of an abandoned row                         *)
(*   guard     attemptDelivery: targetUrlGuard.assertAllowed               *)
(*   mark      deliveries.save of the row marked delivering                *)
(*   send      webhookClient.send                                          *)
(*   record    deliveries.save of the result of the attempt                *)
(*   backoff   no await: the retry timer is set                            *)
RunStates ==
    [pc    : {"idle", "get", "getEvent", "giveUp", "guard", "mark", "send",
              "record", "backoff"},
     mine  : DeliveryRecords \cup {Null},  \* the copy the run holds
     left  : Nat,                          \* ticks to its timeout or timer
     delay : 0..RetryMaxDelay,             \* the backoff it chose
     by    : {"dispatcher", "recovery"}]   \* who awaits it

NoRun == [pc |-> "idle", mine |-> Null, left |-> 0, delay |-> 0,
          by |-> "dispatcher"]

Evidence == Classifications \cup {"blocked", "eventGone"}

MaxPosts == MaxAttempts + 1   \* posts are not counted beyond this (a bound)

DispatcherTypeOK ==
    /\ events \in [Events -> {"none", "stored", "purged"}]
    /\ dispatch \in [Events -> DispatchStates]
    /\ rows \in [Deliveries -> DeliveryRecords \cup {Null}]
    /\ runs \in [Deliveries -> [Slots -> RunStates]]
    /\ heard \in [Deliveries -> SUBSET Evidence]
    /\ posts \in [Deliveries -> 0..MaxPosts]
    /\ faults \in 0..MaxFaults

DispatcherInit ==
    /\ events = [e \in Events |-> "none"]
    /\ dispatch = [e \in Events |-> NotDispatched]
    /\ rows = [d \in Deliveries |-> Null]
    /\ runs = [d \in Deliveries |-> [s \in Slots |-> NoRun]]
    /\ heard = [d \in Deliveries |-> {}]
    /\ posts = [d \in Deliveries |-> 0]
    /\ faults = 0

-----------------------------------------------------------------------------
FreeSlots(d) == {s \in Slots : runs[d][s].pc = "idle"}

FreeSlot(d) == CHOOSE s \in Slots : runs[d][s].pc = "idle"

GoTo(d, s, run) == runs' = [runs EXCEPT ![d][s] = run]

(* deliveries.save: insert or replace.                                     *)
Save(d, row) == rows' = [rows EXCEPT ![d] = row]

Fault == faults < MaxFaults /\ faults' = faults + 1

(* A save that rejects: the store may or may not have applied it.          *)
SaveRejects(d, row) == Fault /\ (Save(d, row) \/ UNCHANGED rows)

Learn(d, what) == heard' = [heard EXCEPT ![d] = @ \cup {what}]

-----------------------------------------------------------------------------
(* ingest: the body is parsed and the event is about to be saved.          *)
Submit(e) ==
    /\ dispatch[e].pc = "idle"
    /\ dispatch' = [dispatch EXCEPT ![e].pc = "accept"]
    /\ UNCHANGED <<events, rows, runs, heard, posts, faults>>

(* The event is saved; dispatch(event) is called in the same turn, and the *)
(* request is answered 202.                                                *)
SaveEvent(e) ==
    /\ dispatch[e].pc = "accept"
    /\ events' = [events EXCEPT ![e] = "stored"]
    /\ dispatch' = [dispatch EXCEPT ![e].pc = "match"]
    /\ UNCHANGED <<rows, runs, heard, posts, faults>>

(* The save rejects: ingest rejects, nothing is dispatched.                *)
SaveEventFails(e) ==
    /\ dispatch[e].pc = "accept"
    /\ Fault
    /\ events' \in {events, [events EXCEPT ![e] = "stored"]}
    /\ dispatch' = [dispatch EXCEPT ![e].pc = "rejected"]
    /\ UNCHANGED <<rows, runs, heard, posts>>

(* findSubscriptionsForEvent answers with any set of subscriptions; with   *)
(* none, dispatchEvent returns.                                            *)
Match(e) ==
    /\ dispatch[e].pc = "match"
    /\ \E matched \in SUBSET Subs :
          dispatch' = [dispatch EXCEPT
              ![e] = [pc |-> IF matched = {} THEN "done" ELSE "materialize",
                      matched |-> matched, unsaved |-> matched, made |-> {}]]
    /\ UNCHANGED <<events, rows, runs, heard, posts, faults>>

(* It rejects: dispatch logs dispatch.failed and the event is not driven.  *)
MatchFails(e) ==
    /\ dispatch[e].pc = "match"
    /\ Fault
    /\ dispatch' = [dispatch EXCEPT ![e].pc = "failed"]
    /\ UNCHANGED <<events, rows, runs, heard, posts>>

(* materializeDelivery: the pending row of one subscription is saved.      *)
Materialize(e, sub) ==
    /\ dispatch[e].pc = "materialize" /\ sub \in dispatch[e].unsaved
    /\ Save(<<e, sub>>, CreatedDelivery)
    /\ dispatch' = [dispatch EXCEPT ![e].unsaved = @ \ {sub},
                                    ![e].made = @ \cup {sub}]
    /\ UNCHANGED <<events, runs, heard, posts, faults>>

(* It rejects: the subscription is dropped from this dispatch.             *)
MaterializeFails(e, sub) ==
    /\ dispatch[e].pc = "materialize" /\ sub \in dispatch[e].unsaved
    /\ SaveRejects(<<e, sub>>, CreatedDelivery)
    /\ dispatch' = [dispatch EXCEPT ![e].unsaved = @ \ {sub}]
    /\ UNCHANGED <<events, runs, heard, posts>>

(* Mutant: attempts start with the first row saved.                        *)
StartAttempts_Eager(e) ==
    LET Started == {<<e, sub>> : sub \in dispatch[e].made}
        Attempt == [NoRun EXCEPT !.pc = "guard", !.mine = CreatedDelivery]
    IN  /\ dispatch[e].pc = "materialize" /\ dispatch[e].made # {}
        /\ \A d \in Started : FreeSlots(d) # {}
        /\ runs' = [d \in Deliveries |->
                       IF d \in Started
                       THEN [runs[d] EXCEPT ![FreeSlot(d)] = Attempt]
                       ELSE runs[d]]
        /\ dispatch' = [dispatch EXCEPT ![e].made = {}]
        /\ UNCHANGED <<events, rows, heard, posts, faults>>

(* All saves have settled: attemptDelivery starts for each row that was    *)
(* saved, on the copy that materializeDelivery returned, and awaits the    *)
(* target guard.                                                           *)
StartAttempts(e) ==
    LET Started == {<<e, sub>> : sub \in dispatch[e].made}
        Attempt == [NoRun EXCEPT !.pc = "guard", !.mine = CreatedDelivery]
    IN  /\ dispatch[e].pc = "materialize" /\ dispatch[e].unsaved = {}
        /\ \A d \in Started : FreeSlots(d) # {}
        /\ runs' = [d \in Deliveries |->
                       IF d \in Started
                       THEN [runs[d] EXCEPT ![FreeSlot(d)] = Attempt]
                       ELSE runs[d]]
        /\ dispatch' = [dispatch EXCEPT ![e].pc = "done"]
        /\ UNCHANGED <<events, rows, heard, posts, faults>>

EventStep(e) ==
    \/ SaveEvent(e) \/ Match(e) \/ StartAttempts(e)
    \/ \E sub \in Subs : Materialize(e, sub)

EventFault(e) ==
    \/ SaveEventFails(e) \/ MatchFails(e)
    \/ \E sub \in Subs : MaterializeFails(e, sub)

-----------------------------------------------------------------------------
(* Mutant: a row is resumed whatever its status.                           *)
ReadRow_AnyStatus(d, s) ==
    LET run == runs[d][s]
        row == rows[d]
    IN  /\ run.pc = "get" /\ row # Null
        /\ GoTo(d, s, IF hasAttemptsRemaining(row.attempts)
                      THEN [run EXCEPT !.pc = "getEvent", !.mine = row]
                      ELSE [run EXCEPT !.pc = "giveUp",
                                       !.mine = abandonDelivery(row, "limit")])
        /\ UNCHANGED <<events, dispatch, rows, heard, posts, faults>>

(* resumeDelivery, from the row it reads to its next await.  It is a no-op *)
(* unless the row is pending, and gives up without attempts left.          *)
ReadRow(d, s) ==
    LET run == runs[d][s]
        row == rows[d]
    IN  /\ run.pc = "get"
        /\ \/ /\ row = Null \/ row.status # "pending"
              /\ GoTo(d, s, NoRun)
           \/ /\ row # Null /\ row.status = "pending"
              /\ ~hasAttemptsRemaining(row.attempts)
              /\ GoTo(d, s, [run EXCEPT !.pc = "giveUp",
                                        !.mine = abandonDelivery(row, "limit")])
           \/ /\ row # Null /\ row.status = "pending"
              /\ hasAttemptsRemaining(row.attempts)
              /\ GoTo(d, s, [run EXCEPT !.pc = "getEvent", !.mine = row])
        /\ UNCHANGED <<events, dispatch, rows, heard, posts, faults>>

(* resumeDelivery: without its source event the delivery is given up.      *)
ReadEvent(d, s) ==
    LET run == runs[d][s]
    IN  /\ run.pc = "getEvent"
        /\ \/ /\ events[d[1]] = "stored"
              /\ GoTo(d, s, [run EXCEPT !.pc = "guard"])
              /\ UNCHANGED heard
           \/ /\ events[d[1]] # "stored"
              /\ GoTo(d, s, [run EXCEPT
                     !.pc = "giveUp",
                     !.mine = abandonDelivery(run.mine, "eventGone")])
              /\ Learn(d, "eventGone")
        /\ UNCHANGED <<events, dispatch, rows, posts, faults>>

(* attemptDelivery: the target is allowed; the attempt is marked, its save *)
(* issued.                                                                 *)
GuardAllows(d, s) ==
    LET run == runs[d][s]
    IN  /\ run.pc = "guard"
        /\ GoTo(d, s, [run EXCEPT !.pc = "mark",
                                  !.mine = beginAttempt(run.mine),
                                  !.left = StoreTimeout])
        /\ UNCHANGED <<events, dispatch, rows, heard, posts, faults>>

(* The target is blocked, or its host does not resolve: a permanent        *)
(* failure, and no attempt is spent.                                       *)
GuardBlocks(d, s) ==
    LET run == runs[d][s]
    IN  /\ run.pc = "guard"
        /\ GoTo(d, s, [run EXCEPT !.pc = "giveUp",
                                  !.mine = abandonDelivery(run.mine, "blocked")])
        /\ Learn(d, "blocked")
        /\ UNCHANGED <<events, dispatch, rows, posts, faults>>

(* Mutant: the POST does not wait for the save.                            *)
MarkSaved_NotAwaited(d, s) ==
    LET run == runs[d][s]
    IN  /\ run.pc = "mark"
        /\ posts' = [posts EXCEPT ![d] = IF @ < MaxPosts THEN @ + 1 ELSE @]
        /\ GoTo(d, s, [run EXCEPT !.pc = "send", !.left = WebhookTimeout])
        /\ UNCHANGED <<events, dispatch, rows, heard, faults>>

(* The row says delivering: the POST is issued.                            *)
MarkSaved(d, s) ==
    LET run == runs[d][s]
    IN  /\ run.pc = "mark"
        /\ Save(d, run.mine)
        /\ posts' = [posts EXCEPT ![d] = IF @ < MaxPosts THEN @ + 1 ELSE @]
        /\ GoTo(d, s, [run EXCEPT !.pc = "send", !.left = WebhookTimeout])
        /\ UNCHANGED <<events, dispatch, heard, faults>>

(* Mutant: the attempt under way is counted twice.                         *)
Retries_CountedTwice(attempting, class) ==
    class = "retryable" /\ hasAttemptsRemaining(attempting.attempts + 1)

(* The row an attempt leaves, and the delay of the retry if it has one.    *)
Retries(attempting, class) ==
    class = "retryable" /\ hasAttemptsRemaining(attempting.attempts)

(* Mutants: only retryable answers are looked at; the budget is looked at  *)
(* before the answer.                                                      *)
Result_PermanentDelivered(attempting, class, delay) ==
    IF class # "retryable" THEN completeDelivered(attempting)
    ELSE IF Retries(attempting, class) THEN scheduleRetry(attempting, delay)
    ELSE completeFailed(attempting)

Result_BudgetFirst(attempting, class, delay) ==
    IF ~hasAttemptsRemaining(attempting.attempts) THEN completeFailed(attempting)
    ELSE IF class = "success" THEN completeDelivered(attempting)
    ELSE IF class = "retryable" THEN scheduleRetry(attempting, delay)
    ELSE completeFailed(attempting)

Result(attempting, class, delay) ==
    IF class = "success" THEN completeDelivered(attempting)
    ELSE IF Retries(attempting, class) THEN scheduleRetry(attempting, delay)
    ELSE completeFailed(attempting)

DelaysOf(attempting, class) ==
    IF Retries(attempting, class) THEN BackoffDelays(attempting.attempts) ELSE {0}

(* The POST is answered, or times out; the result is computed from the     *)
(* run's own copy and its save issued.                                     *)
Answer(d, s) ==
    LET run == runs[d][s]
    IN  /\ run.pc = "send"
        /\ \E outcome \in Outcomes :
              LET class == classifyOutcome(outcome)
              IN  /\ Learn(d, class)
                  /\ \E delay \in DelaysOf(run.mine, class) :
                        GoTo(d, s, [run EXCEPT
                            !.pc = "record",
                            !.mine = Result(run.mine, class, delay),
                            !.left = StoreTimeout,
                            !.delay = delay])
        /\ UNCHANGED <<events, dispatch, rows, posts, faults>>

(* Mutant: no timer is set for the retry.                                  *)
RecordSaved_NoTimer(d, s) ==
    LET run == runs[d][s]
    IN  /\ run.pc = "record"
        /\ Save(d, run.mine)
        /\ GoTo(d, s, NoRun)
        /\ UNCHANGED <<events, dispatch, heard, posts, faults>>

(* The result is saved.  A retry sets its timer, which belongs to the      *)
(* dispatcher whoever drove the attempt; otherwise the run ends.           *)
RecordSaved(d, s) ==
    LET run == runs[d][s]
    IN  /\ run.pc = "record"
        /\ Save(d, run.mine)
        /\ GoTo(d, s, IF run.mine.status = "pending"
                      THEN [NoRun EXCEPT !.pc = "backoff", !.left = run.delay]
                      ELSE NoRun)
        /\ UNCHANGED <<events, dispatch, heard, posts, faults>>

GiveUpSaved(d, s) ==
    LET run == runs[d][s]
    IN  /\ run.pc = "giveUp"
        /\ Save(d, run.mine)
        /\ GoTo(d, s, NoRun)
        /\ UNCHANGED <<events, dispatch, heard, posts, faults>>

(* The retry timer fires: resumeDelivery starts by reading the row.        *)
FireTimer(d, s) ==
    LET run == runs[d][s]
    IN  /\ run.pc = "backoff" /\ run.left = 0
        /\ GoTo(d, s, [NoRun EXCEPT !.pc = "get"])
        /\ UNCHANGED <<events, dispatch, rows, heard, posts, faults>>

(* A save of the run rejects: the error is logged and the run ends.        *)
RunSaveFails(d, s) ==
    LET run == runs[d][s]
    IN  /\ run.pc \in {"giveUp", "mark", "record"}
        /\ SaveRejects(d, run.mine)
        /\ GoTo(d, s, NoRun)
        /\ UNCHANGED <<events, dispatch, heard, posts>>

(* A read of the run rejects: the run ends.                                *)
RunReadFails(d, s) ==
    LET run == runs[d][s]
    IN  /\ run.pc \in {"get", "getEvent"}
        /\ Fault
        /\ GoTo(d, s, NoRun)
        /\ UNCHANGED <<events, dispatch, rows, heard, posts>>

RunStep(d, s) ==
    \/ ReadRow(d, s) \/ ReadEvent(d, s)
    \/ GuardAllows(d, s) \/ GuardBlocks(d, s)
    \/ MarkSaved(d, s) \/ Answer(d, s) \/ RecordSaved(d, s)
    \/ GiveUpSaved(d, s) \/ FireTimer(d, s)

RunFault(d, s) == RunSaveFails(d, s) \/ RunReadFails(d, s)

(* Nothing in the code deletes an event; an operator may, and              *)
(* resumeDelivery provides for it.                                         *)
PurgeEvent(e) ==
    /\ events[e] = "stored"
    /\ Fault
    /\ events' = [events EXCEPT ![e] = "purged"]
    /\ UNCHANGED <<dispatch, rows, runs, heard, posts>>

DispatcherNext ==
    \/ \E e \in Events : Submit(e) \/ EventStep(e) \/ EventFault(e) \/ PurgeEvent(e)
    \/ \E d \in Deliveries, s \in Slots : RunStep(d, s) \/ RunFault(d, s)
=============================================================================
