\* A delivered or failed row is overwritten by a run that still holds an older copy.
SPECIFICATION Spec
CONSTANTS
    Null = Null
    Events = {e1}
    Subs = {s1}
    r1 = r1
    r2 = r2
    Slots <- MCSlots
    StatusCodes <- MCStatusCodes
    MaxAttempts = 2
    RetryBaseDelay = 1
    RetryMaxDelay = 1
    StuckThreshold = 2
    WebhookTimeout = 1
    StoreTimeout = 0
    MaxFaults = 0
    SweepEnabled = TRUE
    BatchLimit = 1
    LaggingIndex = FALSE
    MaxCrashes = 0
PROPERTY TerminalIsFinal
SYMMETRY MCRunsAlike
