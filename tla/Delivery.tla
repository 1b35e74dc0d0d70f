------------------------------ MODULE Delivery ------------------------------
(***************************************************************************)
(* The delivery record and the pure transitions of src/domain/delivery.ts. *)
(*                                                                         *)
(* Timestamps are kept relative to the clock, so that the state space is   *)
(* finite without a bound on time: nextAttemptAt counts the ticks until    *)
(* the attempt is due, lastAttemptAt the ticks since the attempt began.    *)
(* An age is not counted beyond StuckThreshold: the only reader of         *)
(* lastAttemptAt, listStuckDelivering, cannot tell older ages apart.       *)
(* id, eventId, subscriptionId and targetUrl are the index of the record   *)
(* in the store; createdAt, updatedAt, completedAt and lastStatusCode are  *)
(* written and never read by a decision, and are left out; lastError is    *)
(* kept as the reason it records.                                          *)
(***************************************************************************)
EXTENDS RetryPolicy

CONSTANT StuckThreshold    \* STUCK_DELIVERING_THRESHOLD_MS

ASSUME ThresholdAssumption == StuckThreshold \in Nat

-----------------------------------------------------------------------------
DELIVERY_STATUSES == {"pending", "delivering", "delivered", "failed"}

(* outcome: the answer to a POST; blocked: the target guard; limit: "retry *)
(* limit reached"; eventGone: "source event no longer available";          *)
(* reclaimed: "attempt abandoned mid-flight; reclaimed by recovery".       *)
Reasons == {"outcome", "blocked", "limit", "eventGone", "reclaimed"}

DeliveryRecords ==
    [status        : DELIVERY_STATUSES,
     attempts      : Nat,
     nextAttemptAt : (0..RetryMaxDelay) \cup {Null},
     lastAttemptAt : (0..StuckThreshold) \cup {Null},
     lastError     : Reasons \cup {Null}]

ASSUME NullAssumption == Null \notin Int /\ Null \notin DeliveryRecords

isTerminal(status) == status \in {"delivered", "failed"}

-----------------------------------------------------------------------------
CreatedDelivery ==
    [status        |-> "pending",
     attempts      |-> 0,
     nextAttemptAt |-> 0,
     lastAttemptAt |-> Null,
     lastError     |-> Null]

(* Mutants of the transitions below.                                       *)
beginAttempt_KeepsFirstMark(delivery) ==
    [delivery EXCEPT !.status = "delivering",
                     !.attempts = delivery.attempts + 1,
                     !.nextAttemptAt = Null,
                     !.lastAttemptAt = IF @ = Null THEN 0 ELSE @]

beginAttempt_NotCounted(delivery) ==
    [delivery EXCEPT !.status = "delivering",
                     !.nextAttemptAt = Null,
                     !.lastAttemptAt = 0]

scheduleRetry_FreshBudget(delivery, delay) ==
    [delivery EXCEPT !.status = "pending",
                     !.attempts = 0,
                     !.nextAttemptAt = delay,
                     !.lastError = "outcome"]

reclaimStuck_Unscheduled(delivery) ==
    [delivery EXCEPT !.status = "pending", !.lastError = "reclaimed"]

(* assertTransition: the status from which each transition is legal.  The  *)
(* code throws otherwise; NoIllegalTransition of WebhookService says that  *)
(* no caller ever makes it throw.                                          *)
beginAttempt(delivery) ==
    [delivery EXCEPT !.status = "delivering",
                     !.attempts = delivery.attempts + 1,
                     !.nextAttemptAt = Null,
                     !.lastAttemptAt = 0]

completeDelivered(delivery) ==
    [delivery EXCEPT !.status = "delivered",
                     !.nextAttemptAt = Null,
                     !.lastError = Null]

scheduleRetry(delivery, delay) ==
    [delivery EXCEPT !.status = "pending",
                     !.nextAttemptAt = delay,
                     !.lastError = "outcome"]

completeFailed(delivery) ==
    [delivery EXCEPT !.status = "failed",
                     !.nextAttemptAt = Null,
                     !.lastError = "outcome"]

abandonDelivery(delivery, reason) ==
    [delivery EXCEPT !.status = "failed",
                     !.nextAttemptAt = Null,
                     !.lastError = reason]

reclaimStuck(delivery) ==
    [delivery EXCEPT !.status = "pending",
                     !.nextAttemptAt = 0,
                     !.lastError = "reclaimed"]

-----------------------------------------------------------------------------
(* One tick of the clock, as seen by a record or by a copy of it.          *)
CountDown(ticks) == IF ticks \in {Null, 0} THEN ticks ELSE ticks - 1

GrowOlder(age) == IF age \in {Null, StuckThreshold} THEN age ELSE age + 1

Aged(delivery) ==
    [delivery EXCEPT !.nextAttemptAt = CountDown(delivery.nextAttemptAt),
                     !.lastAttemptAt = GrowOlder(delivery.lastAttemptAt)]

(* Mutant: a row has to be older than any row is said to be.               *)
IsStuck_BeyondReach(delivery) ==
    delivery.status = "delivering" /\ delivery.lastAttemptAt > StuckThreshold

(* The two recovery queries' filters.                                      *)
IsDue(delivery) == delivery.status = "pending" /\ delivery.nextAttemptAt = 0

IsStuck(delivery) ==
    delivery.status = "delivering" /\ delivery.lastAttemptAt = StuckThreshold
=============================================================================
