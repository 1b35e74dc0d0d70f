\* The drain does not await the attempts of the sweep.
SPECIFICATION Spec
CONSTANTS
    Deliveries = {d1}
    SweepEnabled = TRUE
    MaxAttempts = 2
    AttemptTime = 3
    RetryDelays <- MCLong
    DrainTimeout = 2
    Failsafe = 4
INVARIANTS DrainAwaitsEverything
\* The process exits: there is nothing left to do.
CHECK_DEADLOCK FALSE
