\* Any backoff, and the sweep on: what the drain awaits all the same, and that it ends.
SPECIFICATION FairSpec
CONSTANTS
    Deliveries = {d1, d2}
    SweepEnabled = TRUE
    MaxAttempts = 2
    AttemptTime = 3
    RetryDelays <- MCShortAndLong
    DrainTimeout = 2
    Failsafe = 4
INVARIANTS TypeOK DrainAwaitsTheDispatcher CleanExitIsADrain
PROPERTIES ShutdownEnds
\* The process exits: there is nothing left to do.
CHECK_DEADLOCK FALSE
