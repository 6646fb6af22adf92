SPECIFICATION MCSpec
CONSTANTS
    Token = {"share", "membership"}
    Node = {"n1", "n2"}
    Event <- MCEvent
    Contents <- MCContents
    MaxBlock = 3
    Account = {"o", "a", "b"}
    Exchange = {"x"}
    TypeOf <- MCTypeOf
    ChunkSize = 2
    MaxJobs = 2
    MaxFailures = 1
    MaxUnrecorded = 1
    MaxChanges = 1
INVARIANTS
    HoldersAtBlock
CHECK_DEADLOCK FALSE
