SPECIFICATION CreateSpec
CONSTANTS
    Jobs <- MCJobs
    Workers = {w1, w2}
    MaxAttempts = 3
    BatchSize = 1
    LeaseDuration = 1
    BaseDelay = 1
    MaximumDelay = 1
INVARIANT SameEffectRetryProceeds
CHECK_DEADLOCK FALSE
