CONSTANTS
    Ids <- MCIds
    None = None
    Reports <- AllReports
    algorithm = "unique_id_from_tool_or_hash_code"
    Async = FALSE
    ChunkSize = 1
    MaxUploads = 2
    h1 = h1
    h2 = h2
    u1 = u1
    u2 = u2
    t1 = t1
    t2 = t2

SPECIFICATION Spec
CHECK_DEADLOCK FALSE

INVARIANTS
    PresentNotClosed
    AbsentIsClosed
    DecisionSurvives
    NoTwins
