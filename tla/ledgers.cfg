SPECIFICATION MCSpec
CONSTANTS
    Node = {n1, n2}
    MaxHeight = 3
    TxCount <- MCTxCount
    MaxFailures = 2
    OnTransfers <- MCTransfers
    OnOwners <- MCOwners
    OnDex <- MCDex
    OnCoupons <- MCCoupons
    OnTokenNotes <- MCTokenNotes
    OnCouponNotes <- MCCouponNotes
    OnMembershipNotes <- MCMembershipNotes
    OnApprovals <- MCApprovals
    OnCouponPositions <- MCCouponPositions
    OnSharePositions <- MCSharePositions
INVARIANTS
    TransferRowsSound
    TablesAreChainPrefix
    OwnersAsRegistered
    DexTablesAsOnChain
    OrderBookAsOnChain
    DexAnswersAgree
    HistoryListed
    ConsumptionsAsOnChain
    NotifiedExactly
    DeletedStaysDeleted
    HistoriesComplete
    HistorySound
    IndexAgreesWithContract
    PagesOfOneList
    PositionAnswersAgree
PROPERTIES
    OwnerNeverOlder
CHECK_DEADLOCK FALSE
