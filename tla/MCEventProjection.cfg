SPECIFICATION ProjectionSpec
CONSTANTS
    None = None
    p1 = p1
    p2 = p2
    Payments <- MCPayments
    Bodies <- MCBodies
    Ids <- MCIds
    Jobs <- MCJobs
    Wire <- MCWire
    Forged <- MCForged
    Workers = {w1, w2}
    MaxInboxAttempts = 2
    MaxCases = 2
SYMMETRY MCSymmetry
INVARIANTS
    ProjectionTypeOK
    CaptureEndsRecovery
    DoubleCollectionIsReviewed
    PaidOutcomesAreReal
PROPERTY TotalNeverFalls
CHECK_DEADLOCK FALSE
