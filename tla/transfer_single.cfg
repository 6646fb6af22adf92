\* One node: exactly-once indexing over two tokens, chunks of two blocks.
SPECIFICATION Spec
CONSTANTS
    t1 = t1
    t2 = t2
    Token = {t1, t2}
    Node = {n1}
    Event <- MCEvent
    Contents <- MCContents
    MaxBlock = 3
    ChunkSize = 2
    BlockTime <- MCBlockTime
    MaxFailures = 1
    MaxCopies = 2
INVARIANTS
    TypeOK
    ExactlyOnce
PROPERTIES
    ImplementsEventIndex
    CursorNeverRegresses
