\* Two nodes: the stored block number can move backwards.
SPECIFICATION Spec
CONSTANTS
    t1 = t1
    t2 = t2
    Token = {t1}
    Node = {n1, n2}
    Event <- FewEvent
    Contents <- FewContents
    MaxBlock = 2
    ChunkSize = 1
    BlockTime <- MCBlockTime
    MaxFailures = 0
    MaxCopies = 2
INVARIANTS
    NoDuplicateUnlock
