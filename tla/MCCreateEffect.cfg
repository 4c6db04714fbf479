SPECIFICATION CreateFairSpec
CONSTANTS
    Jobs <- MCJobs
    Workers = {w1, w2}
    MaxAttempts = 3
    BatchSize = 1
    LeaseDuration = 1
    BaseDelay = 1
    MaximumDelay = 1
INVARIANTS
    CreateTypeOK
    RowsAgree
    RecordedLinkIsReal
PROPERTIES
    NoBlindRepeat
    SettledWorkIsFinal
    CollectionTerminalMonotonic
    ImplementsOutbox
    EveryJobSettles
\* A settled job leaves the workers idle.
CHECK_DEADLOCK FALSE
