SPECIFICATION CancelFairSpec
CONSTANTS
    Jobs <- MCJobs
    Workers = {w1}
    MaxAttempts = 4
    BatchSize = 1
    LeaseDuration = 1
    BaseDelay = 1
    MaximumDelay = 1
    MaxFaults = 1
PROPERTY CollectibleLinkIsRepaired
CHECK_DEADLOCK FALSE
