SPECIFICATION AssessmentSpec
CONSTANTS
    None = None
    Jobs <- MCJobs
    Workers = {w1, w2}
    Operators = {o1}
    MaxVersion = 6
    MaxChanges = 1
    MaxInterruptions = 1
INVARIANTS
    AssessmentTypeOK
    IntentIsAuthorized
    VerdictIsCarriedOut
    PaymentBeatsApproval
PROPERTIES
    ApprovedInTime
    DueCaseIsAssessed
CHECK_DEADLOCK FALSE
