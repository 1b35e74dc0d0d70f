\* The dispatcher against the recovery sweep: two runs of one delivery, a fault, a lagging index.
SPECIFICATION Spec
CONSTANTS
    Null = Null
    Events = {e1}
    Subs = {s1}
    r1 = r1
    r2 = r2
    Slots <- MCSlots
    StatusCodes <- MCStatusCodes
    MaxAttempts = 2
    RetryBaseDelay = 1
    RetryMaxDelay = 1
    StuckThreshold = 1
    WebhookTimeout = 1
    StoreTimeout = 0
    MaxFaults = 1
    SweepEnabled = TRUE
    BatchLimit = 1
    LaggingIndex = TRUE
    MaxCrashes = 0
INVARIANTS TypeOK AttemptsCapped NoIllegalTransition VisibleToRecovery
           DeliveredWasAcked FailureIsExplained
SYMMETRY MCRunsAlike
