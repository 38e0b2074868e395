\* What a request for a history, for insights or for a comparison is told,
\* while a batch of evaluations is written or removed.
CONSTANTS
    Scenarios <- MCScenarios
    BufferRuns = 1
    ChunkSize = 2
    RunLimit = 4
    CaseLimit = 6
    None = None
    Unknown = Unknown
SPECIFICATION Spec
INVARIANTS
    TypeOK
    WholeOrRefused
    CompleteMeansRecorded
    SettledHistoryStays
    AnnotationsAgree
    EvidenceAddsUp
    CardsAgree
    ComparisonIsLatest
CHECK_DEADLOCK FALSE
