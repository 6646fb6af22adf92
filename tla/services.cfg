SPECIFICATION ServicesSpec
CONSTANTS
    Endpoint = {"n1", "n2"}
    CalcPeriod = 1
    RemainingThreshold = 0
    SpeedThreshold = 0
    BlocksPerSec = 1
    Interval = 2
    RetryCount = 3
    WaitTime = 2
    PassTime = 1
    StartTime = 2
    Growth = {0}
    MaxTime = 9
    MaxFaults = 4
    Monitored = {"n1"}
    Period = 2
    Speed = 50
    Blocks = {0, 1}
    MonitorTime = 8
    MonitorFaults = 3
    CacheInstance <- MCCacheInstance
    CacheTime = 5
    TTL = 4
    ShortTTL = 1
    MaxDelay = 1
    MaxChanges = 2
    Document <- MCDocument
    MaxPublished = 2
    Message = {"m1", "m2", "m3", "c1"}
    Chat = {"c1"}
    Barred = {"m3"}
    Request = {"r1", "r2", "r3"}
    Raw <- MCRaw
    NoWait = {"r3"}
    ListedToken = "token"
    Executable = {"token", "exchange"}
    MaxSwitches = 1
    NodeFaults = 1
    MaxFailures = 2
INVARIANTS
    NodeStatusRight
    OutageSurvived
    CacheIsFresh
    ToldInOrder
    TableIsOneList
    MessagesSentOnce
    SuspendedSendsNothing
    AnswersAreTrue
CHECK_DEADLOCK FALSE
