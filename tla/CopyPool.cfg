SPECIFICATION FairSpec
CONSTANTS
    Workers = {w1, w2}
    Jobs <- MCJobs
    Files = {"f1", "f2"}
    Providers = {"ms", "tg"}
    Accounts = {"m1", "m2", "t1"}
    FileOf <- MCFileOf
    GoesTo <- MCGoesTo
    Size <- MCSize
    Replicas <- MCReplicas
    Order <- MCOrder
    Total <- MCTotal
    InUse <- MCInUse
    Unquoted = {"tg"}
    BySize = {"tg"}
    MaxInt = 9
    ErrorRoom = 2
    MaxTries = 2
    MaxFaults = 1
    None = None
INVARIANTS
    TypeOK
    WholeCopy
    LogTrue
    Accounted
    PromisedOnce
    NothingDropped
PROPERTIES
    PoolReturns
    Implements
CHECK_DEADLOCK FALSE
