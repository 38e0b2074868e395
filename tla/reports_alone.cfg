\* The message that no earlier measured execution exists, made for every run
\* of two-run histories.
CONSTANTS
    Scenarios <- MCShort
    BufferRuns = 1
    ChunkSize = 2
    RunLimit = 4
    CaseLimit = 6
    None = None
    Unknown = Unknown
SPECIFICATION Spec
INVARIANT AloneMeansFirst
CHECK_DEADLOCK FALSE
