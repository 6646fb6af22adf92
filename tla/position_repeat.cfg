SPECIFICATION OnlyShareSpec
CONSTANTS
    Token = {"t1", "t2"}
    Node = {n1}
    Event <- MCEvent
    Contents <- LockContents
    MaxBlock = 2
    Account = {"a", "b"}
    Exchange = {"x"}
    ChunkSize = 1
    BatchSize = 2
    MaxFailures = 1
    MaxSwallowed = 0
    MaxCopies = 2
    MaxMoves = 0
INVARIANTS
    LockHistoryUnique
CHECK_DEADLOCK FALSE
