SPECIFICATION MCSpec
CONSTANTS
    Token = {"t1", "t2"}
    Node = {n1}
    Event <- MCEvent
    Contents <- MCContents
    MaxBlock = 3
    Account = {"a", "b"}
    Exchange = {"x"}
    ChunkSize = 2
    BatchSize = 1
    MaxFailures = 1
    MaxSwallowed = 0
    MaxCopies = 2
    MaxMoves = 1
INVARIANTS
    ValuesUpToDate
    LockHistoryComplete
CHECK_DEADLOCK FALSE
