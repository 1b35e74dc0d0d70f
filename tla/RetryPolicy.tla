---------------------------- MODULE RetryPolicy ----------------------------
(***************************************************************************)
(* The pure functions of src/domain/retry-policy.ts: how the outcome of    *)
(* one webhook POST is classified, whether another attempt is allowed, and *)
(* how long to wait for it.  Durations are in ticks of the model's clock.  *)
(***************************************************************************)
EXTENDS Integers

CONSTANTS
    Null,            \* the code's null / undefined
    MaxAttempts,     \* MAX_DELIVERY_ATTEMPTS
    RetryBaseDelay,  \* RETRY_BASE_DELAY_MS
    RetryMaxDelay,   \* RETRY_MAX_DELAY_MS
    StatusCodes      \* the HTTP status codes a subscriber may answer with

(* The ranges loadConfig accepts (config.ts:171-186, 214-216).             *)
ASSUME PolicyAssumption ==
    /\ MaxAttempts \in 1..20
    /\ RetryBaseDelay \in Nat
    /\ RetryMaxDelay \in Nat
    /\ RetryBaseDelay <= RetryMaxDelay
    /\ StatusCodes \subseteq 100..599

-----------------------------------------------------------------------------
(* What the webhook client makes of the subscriber's answer: it maps every *)
(* answer to an outcome and never throws; a 3xx is not followed.           *)
Outcomes ==
    [kind : {"success"}, statusCode : StatusCodes \cap (200..299)]
        \cup [kind : {"http-error"}, statusCode : StatusCodes \ (200..299)]
        \cup [kind : {"timeout", "network-error"}, statusCode : {Null}]

ExplicitlyRetryable == {408, 425, 429}

Classifications == {"success", "retryable", "permanent"}

classifyOutcome(outcome) ==
    CASE outcome.kind = "success" -> "success"
      [] outcome.kind \in {"timeout", "network-error"} -> "retryable"
      [] OTHER -> IF \/ outcome.statusCode >= 500
                     \/ outcome.statusCode \in ExplicitlyRetryable
                  THEN "retryable" ELSE "permanent"

(* Mutant: the last attempt does not count against the budget.             *)
hasAttemptsRemaining_OffByOne(attemptsMade) == attemptsMade <= MaxAttempts

hasAttemptsRemaining(attemptsMade) == attemptsMade < MaxAttempts

-----------------------------------------------------------------------------
(* Capped exponential backoff with equal jitter.  The random source is a   *)
(* choice: the result is any rounding of half + r * half, half = capped/2, *)
(* 0 <= r < 1, that is any integer between capped/2 and capped.            *)
BackoffWindow(attemptsMade) ==
    LET exponent == IF attemptsMade > 0 THEN attemptsMade - 1 ELSE 0
        uncapped == RetryBaseDelay * 2^exponent
    IN  IF uncapped < RetryMaxDelay THEN uncapped ELSE RetryMaxDelay

(* Mutant: the window is not capped, nor counted from the first failure.   *)
BackoffDelays_Uncapped(attemptsMade) == {RetryBaseDelay * 2^attemptsMade}

BackoffDelays(attemptsMade) ==
    LET capped == BackoffWindow(attemptsMade)
    IN  {delay \in 0..RetryMaxDelay : capped <= 2 * delay /\ delay <= capped}
=============================================================================
