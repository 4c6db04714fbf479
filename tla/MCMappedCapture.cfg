SPECIFICATION ProjectionSpec
CONSTANTS
    None = None
    p1 = p1
    p2 = p2
    Payments <- TwoPayments
    Bodies <- TwoBodies
    Ids <- TwoIds
    Jobs <- TwoJobs
    Wire <- TwoWire
    Forged = {}
    Workers = {w1}
    MaxInboxAttempts = 2
    MaxCases = 2
PROPERTY MappedCaptureDominates
CHECK_DEADLOCK FALSE
