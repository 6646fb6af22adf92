\* Two tokens traded on one exchange.
SPECIFICATION Spec
CONSTANTS
    t1 = t1
    t2 = t2
    x1 = x1
    Token = {t1, t2}
    Node = {n1}
    Exchange = {x1}
    NoExchange = NoExchange
    Application = {1}
    Event <- TwoEvent
    Contents <- TwoContents
    InitialExchange <- TwoExchange
    MaxBlock = 3
    ChunkSize = 2
    MaxExchangeChanges = 0
    MaxFailures = 0
INVARIANTS
    ExchangeHistoryComplete
