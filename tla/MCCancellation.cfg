SPECIFICATION CancelSpec
CONSTANTS
    Jobs <- MCJobs
    Workers = {w1, w2}
    MaxAttempts = 4
    BatchSize = 1
    LeaseDuration = 1
    BaseDelay = 1
    MaximumDelay = 1
    MaxFaults = 1
SYMMETRY MCSymmetry
INVARIANTS
    CancelTypeOK
    WithdrawnLinkIsClosed
PROPERTIES
    InstrumentLifecycle
    SettledCancellationIsFinal
\* A settled job leaves the workers idle.
CHECK_DEADLOCK FALSE
