------------------------- MODULE DeliveryLifecycle -------------------------
(***************************************************************************)
(* What the life of a delivery is meant to be: the state machine drawn at  *)
(* the head of src/domain/delivery.ts, with the attempt budget of          *)
(* src/domain/retry-policy.ts, on the row itself.  It knows nothing of     *)
(* runs, copies, awaits, timers or sweeps.                                 *)
(***************************************************************************)
EXTENDS Integers

CONSTANTS Deliveries, MaxAttempts

VARIABLES
    status,   \* of each delivery; "absent" before it is created
    attempts  \* started for each delivery

lifecycleVars == <<status, attempts>>

Init ==
    /\ status = [d \in Deliveries |-> "absent"]
    /\ attempts = [d \in Deliveries |-> 0]

Move(d, from, to) ==
    /\ status[d] = from
    /\ status' = [status EXCEPT ![d] = to]

create(d) == Move(d, "absent", "pending") /\ UNCHANGED attempts

beginAttempt(d) ==
    /\ Move(d, "pending", "delivering")
    /\ attempts[d] < MaxAttempts
    /\ attempts' = [attempts EXCEPT ![d] = @ + 1]

completeDelivered(d) == Move(d, "delivering", "delivered") /\ UNCHANGED attempts

scheduleRetry(d) ==
    /\ Move(d, "delivering", "pending")
    /\ attempts[d] < MaxAttempts
    /\ UNCHANGED attempts

completeFailed(d) == Move(d, "delivering", "failed") /\ UNCHANGED attempts

abandonDelivery(d) == Move(d, "pending", "failed") /\ UNCHANGED attempts

Next ==
    \E d \in Deliveries :
        \/ create(d) \/ beginAttempt(d) \/ completeDelivered(d)
        \/ scheduleRetry(d) \/ completeFailed(d) \/ abandonDelivery(d)

Spec == Init /\ [][Next]_lifecycleVars
=============================================================================
