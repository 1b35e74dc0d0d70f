\* Recovery after a crash, a failed store call or a purged event; StuckThreshold just above
\* WebhookTimeout + 2 * StoreTimeout.
SPECIFICATION FairSpec
CONSTANTS
    Null = Null
    Events = {e1}
    Subs = {s1}
    r1 = r1
    r2 = r2
    Slots <- MCSlots
    StatusCodes <- MCTwoCodes
    MaxAttempts = 2
    RetryBaseDelay = 1
    RetryMaxDelay = 1
    StuckThreshold = 2
    WebhookTimeout = 1
    StoreTimeout = 0
    MaxFaults = 1
    SweepEnabled = TRUE
    BatchLimit = 1
    LaggingIndex = FALSE
    MaxCrashes = 1
INVARIANTS StuckMeansAbandoned
PROPERTIES EveryRowSettles SweepEnds
