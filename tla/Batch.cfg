\* Two rows, a sweep that takes one, a fault, a crash: every row is reached in the end.
SPECIFICATION FairSpec
CONSTANTS
    Null = Null
    Events = {e1}
    Subs = {s1, s2}
    r1 = r1
    r2 = r2
    Slots = {r1}
    StatusCodes <- MCOneCode
    MaxAttempts = 1
    RetryBaseDelay = 1
    RetryMaxDelay = 1
    StuckThreshold = 1
    WebhookTimeout = 0
    StoreTimeout = 0
    MaxFaults = 1
    SweepEnabled = TRUE
    BatchLimit = 1
    LaggingIndex = FALSE
    MaxCrashes = 1
PROPERTIES EveryRowSettles
