SPECIFICATION FairSpec
CONSTANTS
    Jobs <- MCJobs
    Workers = {w1, w2}
    MaxAttempts = 3
    BatchSize = 2
    LeaseDuration = 2
    BaseDelay = 1
    MaximumDelay = 2
INVARIANTS
    TypeOK
    VersionIdentifiesDelivery
    SoleFirstDelivery
PROPERTIES
    TriggerNeverRefuses
    ImplementsLeasedDelivery
    EveryJobSettles
\* When every job is settled the workers only poll an empty table.
CHECK_DEADLOCK FALSE
