\* The dispatcher alone, RECOVERY_INTERVAL_MS = 0: two subscribers, faults and a crash.
SPECIFICATION FairSpec
CONSTANTS
    Null = Null
    Events = {e1}
    Subs = {s1, s2}
    r1 = r1
    r2 = r2
    Slots <- MCSlots
    StatusCodes <- MCStatusCodes
    MaxAttempts = 2
    RetryBaseDelay = 1
    RetryMaxDelay = 2
    StuckThreshold = 1
    WebhookTimeout = 1
    StoreTimeout = 0
    MaxFaults = 2
    SweepEnabled = FALSE
    BatchLimit = 1
    LaggingIndex = FALSE
    MaxCrashes = 1
INVARIANTS OneRunnerNoStaleCopy PostsAreCounted AcceptedNeverFailed RowsBeforePosts
PROPERTIES ImplementsLifecycle AcceptedEventIsDelivered
