SPECIFICATION MCSpec
CONSTANTS
    Calls = {c1}
    Steps = 3
    Duration = 1
    Cap = 3
    RetriableHTTPStatusCodes <- Codes
    NonRetriableErrors <- Errors
    MaxPages = 2
    Bucket = 1
    MaxDelay = 2
    MaxTime = 3
    Resources = {v1, v2, v3}
    BatchSizes = {0, 1, 2, 5}
    MaxWait = 1
    n1 = n1
    n2 = n2
    Nodes <- MCNodes
    Layouts <- MCLayouts
    LBs = {lb1, lb2}
    MaxChanges = 2
    MaxReconciles = 2
    MaxFaults = 1
    NoLB = NoLB
    Absent = Absent
    NoPool = NoPool
    Caller = {"c1", "c2"}
    Tagger = {"t1", "t2"}
    Account = {"n1", "g1", "g2", "g3"}
    Named = {"n1"}
    StNil = StNil
    MaxStCalls = 3
    StPlans <- MCStPlans
INVARIANTS
    CallsSound
    BatchSound
    PoolFollows
    AccountsAsAnswered
PROPERTIES
    ThrottleRecorded
    PoolStaysDeleted
    ClientsSettle
CHECK_DEADLOCK FALSE
