SPECIFICATION Spec
CONSTANTS
    Proposals <- MCProposals
    Instruments = {i1}
    None = None
    Incidents = {"SUSPECTED"}
    Window = 2
    MaxTime = 2
    MaxVersion = 8
INVARIANTS
    TypeOK
    PaidClosesCollection
    CollectionWaitsForWindow
    OpenActionIsIdentified
PROPERTIES
    ReviewedBeforeExecution
    ClosedStaysClosed
\* The aggregate rests once its version bound is reached.
CHECK_DEADLOCK FALSE
