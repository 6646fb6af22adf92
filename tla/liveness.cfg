SPECIFICATION FairSpec
PROPERTIES
    EventuallyIndexed
    EveryAgreementIndexed
    EveryBlockIndexed
    ListImported
    QueueDrained
    EveryRequestAnswered
CHECK_DEADLOCK FALSE
