SPECIFICATION FairSpec
CONSTANTS
    NoOne = NoOne
    Writers = {w1, w2}
    Verifiers = {v1}
    MaxEntries = 2
    PageSize = 1
    MaxTime = 2
    MaxChain = 2
INVARIANTS
    AuditTypeOK
    ChainVerifies
    VerifiedIsWritten
PROPERTIES
    TransactionsEnd
CHECK_DEADLOCK FALSE
