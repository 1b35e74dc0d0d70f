--------------------------- MODULE WebhookService ---------------------------
(***************************************************************************)
(* The service: ingestion, dispatcher and recovery sweep over one durable  *)
(* store, with the passage of time and crashes of the process.  A crash    *)
(* loses every run, timer and sweep and keeps the tables (PERSISTENCE =    *)
(* dynamodb); the process comes back at once.                              *)
(***************************************************************************)
EXTENDS Recovery

CONSTANT MaxCrashes    \* crashes in a behaviour (a bound)

ASSUME CrashAssumption == MaxCrashes \in Nat

VARIABLE crashes

vars == <<events, dispatch, rows, runs, heard, posts, faults, sweep, index,
          crashes>>

-----------------------------------------------------------------------------
Init ==
    /\ DispatcherInit
    /\ RecoveryInit
    /\ crashes = 0

(* Awaits that a timeout bounds.  Time does not pass one: the timeout has  *)
(* been served by then.                                                    *)
TimedAwaits == {"mark", "send", "record"}

AgedCopy(delivery) == IF delivery = Null THEN Null ELSE Aged(delivery)

Tick ==
    /\ \A d \in Deliveries, s \in Slots :
          runs[d][s].pc \in TimedAwaits => runs[d][s].left > 0
    /\ rows' = [d \in Deliveries |-> AgedCopy(rows[d])]
    /\ runs' = [d \in Deliveries |-> [s \in Slots |->
          [runs[d][s] EXCEPT !.mine = AgedCopy(runs[d][s].mine),
                             !.left = IF @ > 0 THEN @ - 1 ELSE 0]]]
    /\ sweep' = [sweep EXCEPT
          !.reclaim = [d \in Deliveries |-> AgedCopy(sweep.reclaim[d])]]
    /\ index' = [d \in Deliveries |-> AgedCopy(index[d])]
    /\ UNCHANGED <<events, dispatch, heard, posts, faults, crashes>>

(* The process dies.  A dispatch it had under way is never taken up again: *)
(* recovery looks at delivery rows, not at events.                         *)
Crash ==
    /\ crashes < MaxCrashes
    /\ crashes' = crashes + 1
    /\ runs' = [d \in Deliveries |-> [s \in Slots |-> NoRun]]
    /\ sweep' = NoSweep
    /\ dispatch' = [e \in Events |->
          IF dispatch[e].pc \in {"accept", "match", "materialize"}
          THEN [dispatch[e] EXCEPT !.pc = "lost"]
          ELSE dispatch[e]]
    /\ UNCHANGED <<events, rows, index, heard, posts, faults>>

DispatcherStep == DispatcherNext /\ UNCHANGED <<sweep, index, crashes>>

RecoveryStep == (SweepStep \/ SweepFault) /\ UNCHANGED <<index, crashes>>

IndexStep == (\E d \in Deliveries : Replicate(d)) /\ UNCHANGED crashes

Next == DispatcherStep \/ RecoveryStep \/ IndexStep \/ Tick \/ Crash

Spec == Init /\ [][Next]_vars

-----------------------------------------------------------------------------
(* The event loop gets round to everything that is ready, promises settle  *)
(* (a store call, a DNS lookup and a timed POST all end), timers and the   *)
(* sweep interval fire, the index catches up.  Nothing forces a            *)
(* publication, a fault or a crash.                                        *)
Fairness ==
    /\ \A e \in Events :
          /\ WF_vars(SaveEvent(e) /\ UNCHANGED <<sweep, index, crashes>>)
          /\ WF_vars(Match(e) /\ UNCHANGED <<sweep, index, crashes>>)
          /\ WF_vars(StartAttempts(e) /\ UNCHANGED <<sweep, index, crashes>>)
          /\ \A sub \in Subs :
                WF_vars(Materialize(e, sub) /\ UNCHANGED <<sweep, index, crashes>>)
    /\ \A d \in Deliveries, s \in Slots :
          WF_vars(RunStep(d, s) /\ UNCHANGED <<sweep, index, crashes>>)
    /\ WF_vars(SweepStart /\ UNCHANGED <<index, crashes>>)
    /\ WF_vars(ListStuck /\ UNCHANGED <<index, crashes>>)
    /\ WF_vars(Reclaimed /\ UNCHANGED <<index, crashes>>)
    /\ WF_vars(ListDue /\ UNCHANGED <<index, crashes>>)
    /\ WF_vars(SweepEnd /\ UNCHANGED <<index, crashes>>)
    /\ \A d \in Deliveries :
          /\ WF_vars(Reclaim(d) /\ UNCHANGED <<index, crashes>>)
          /\ WF_vars(Resume(d) /\ UNCHANGED <<index, crashes>>)
    /\ \A d \in Deliveries : WF_vars(Replicate(d) /\ UNCHANGED crashes)
    /\ WF_vars(Tick)

FairSpec == Spec /\ Fairness

-----------------------------------------------------------------------------
(* Every variable keeps its shape, whatever races, faults and crashes do   *)
(* to rows, copies and snapshots.                                          *)
TypeOK ==
    /\ DispatcherTypeOK
    /\ RecoveryTypeOK
    /\ crashes \in 0..MaxCrashes

Exists(d) == rows[d] # Null

(* hasAttemptsRemaining is checked on a row read before several awaits:    *)
(* even so, no row or copy ever counts more attempts than MaxAttempts.     *)
AttemptsCapped ==
    /\ \A d \in Deliveries : Exists(d) => rows[d].attempts <= MaxAttempts
    /\ \A d \in Deliveries, s \in Slots :
          runs[d][s].mine # Null => runs[d][s].mine.attempts <= MaxAttempts

(* assertTransition never throws: when its await ends, a run still holds a *)
(* copy with the status that its next transition requires, and the budget  *)
(* that beginAttempt does not check for itself.                            *)
NoIllegalTransition ==
    \A d \in Deliveries, s \in Slots :
        LET run == runs[d][s]
        IN  /\ run.pc \in {"getEvent", "guard"} =>
                  /\ run.mine # Null
                  /\ run.mine.status = "pending"
                  /\ hasAttemptsRemaining(run.mine.attempts)
            /\ run.pc = "send" =>
                  /\ run.mine # Null
                  /\ run.mine.status = "delivering"

(* A row that still has work to do can be found by a recovery query: the   *)
(* timestamp the query filters on is never null.  A finished row is not    *)
(* scheduled (the note on nextAttemptAt, delivery.ts:32).                  *)
VisibleToRecovery ==
    \A d \in Deliveries : Exists(d) =>
        /\ rows[d].status = "pending" => rows[d].nextAttemptAt # Null
        /\ rows[d].status = "delivering" => rows[d].lastAttemptAt # Null
        /\ rows[d].status # "pending" => rows[d].nextAttemptAt = Null

(* A row that says delivered was acknowledged by its subscriber with a     *)
(* 2xx, whichever copy was written last.                                   *)
DeliveredWasAcked ==
    \A d \in Deliveries :
        Exists(d) /\ rows[d].status = "delivered" => "success" \in heard[d]

(* A row that says failed has a cause that really occurred, and the one    *)
(* its lastError names: it was refused for good, it was refused on its     *)
(* last attempt, its budget was spent, its target was blocked or its event *)
(* was gone.                                                               *)
FailureIsExplained ==
    \A d \in Deliveries :
        LET row == rows[d]
        IN  Exists(d) /\ row.status = "failed" =>
              \/ /\ row.lastError = "outcome"
                 /\ \/ "permanent" \in heard[d]
                    \/ "retryable" \in heard[d] /\ row.attempts = MaxAttempts
              \/ row.lastError = "limit" /\ row.attempts = MaxAttempts
              \/ row.lastError = "blocked" /\ "blocked" \in heard[d]
              \/ row.lastError = "eventGone" /\ "eventGone" \in heard[d]

(* The sweep takes a row for abandoned only when no attempt on it is still *)
(* under way: the POST sent, its answer or its result outstanding.  This   *)
(* needs a StuckThreshold above WebhookTimeout + 2 * StoreTimeout, and a   *)
(* list that is read from the table itself.                                *)
StuckMeansAbandoned ==
    \A d \in StuckRows :
        \A s \in Slots : runs[d][s].pc \notin {"send", "record"}

-----------------------------------------------------------------------------
(* Without the sweep, the dispatcher alone.                                *)

(* A delivery is driven by one run at a time, and the copy the run acts on *)
(* is the row: its read-modify-write across awaits loses nothing.          *)
OneRunnerNoStaleCopy ==
    \A d \in Deliveries :
        /\ \A s, t \in Slots :
              runs[d][s].pc # "idle" /\ runs[d][t].pc # "idle" => s = t
        /\ \A s \in Slots :
              runs[d][s].pc \in {"getEvent", "guard", "send"} =>
                  rows[d] = runs[d][s].mine

(* The rows then go through the state machine of delivery.ts, one legal    *)
(* transition at a time: the service implements DeliveryLifecycle.         *)
RowStatus == [d \in Deliveries |-> IF Exists(d) THEN rows[d].status ELSE "absent"]

RowAttempts == [d \in Deliveries |-> IF Exists(d) THEN rows[d].attempts ELSE 0]

Lifecycle == INSTANCE DeliveryLifecycle WITH
    status <- RowStatus, attempts <- RowAttempts

ImplementsLifecycle == Lifecycle!Spec

(* Every POST is accounted for in the row's attempts, which are bounded.   *)
PostsAreCounted ==
    \A d \in Deliveries :
        posts[d] <= IF Exists(d) THEN rows[d].attempts ELSE 0

(* A delivery its subscriber accepted is never recorded as failed.         *)
AcceptedNeverFailed ==
    \A d \in Deliveries :
        Exists(d) /\ rows[d].status = "failed" => "success" \notin heard[d]

(* Rows before POSTs (dispatcher.ts:125-127): once any subscriber of an    *)
(* event has been sent a POST, every other matching subscriber has a row   *)
(* that survives a crash, unless saving that row failed.                   *)
RowsBeforePosts ==
    \A e \in Events :
        (\E sub \in Subs : posts[<<e, sub>>] > 0) =>
            \A sub \in dispatch[e].matched :
                \/ Exists(<<e, sub>>)
                \/ sub \notin dispatch[e].unsaved \cup dispatch[e].made

-----------------------------------------------------------------------------
(* What the comments of the code promise of a delivery.                    *)

(* delivered and failed are terminal (delivery.ts:4-17).                   *)
TerminalIsFinal ==
    [][\A d \in Deliveries :
          Exists(d) /\ isTerminal(rows[d].status) =>
              rows'[d].status = rows[d].status]_vars

-----------------------------------------------------------------------------
(* Liveness.                                                               *)

Settled(d) == Exists(d) /\ isTerminal(rows[d].status)

(* Every row is in the end delivered or failed, for good, whatever         *)
(* happened before the last crash and the last fault.                      *)
EveryRowSettles == <>[](\A d \in Deliveries : Exists(d) => Settled(d))

(* A sweep always comes to its end, so its running flag never keeps later  *)
(* sweeps from starting.                                                   *)
SweepEnds == sweep.pc # "idle" ~> sweep.pc = "idle"

Accepted(e) == events[e] = "stored" /\ dispatch[e].pc # "rejected"

(* Unless the process crashes or a store call fails, an accepted event is  *)
(* driven to its end: every subscription it matched has a delivery that is *)
(* delivered or failed.                                                    *)
AcceptedEventIsDelivered ==
    \A e \in Events :
        Accepted(e) ~>
            \/ /\ dispatch[e].pc = "done"
               /\ \A sub \in dispatch[e].matched : Settled(<<e, sub>>)
            \/ faults > 0 \/ crashes > 0
=============================================================================
