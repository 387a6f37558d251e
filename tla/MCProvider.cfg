SPECIFICATION MCSpec
CONSTANTS
    FService = {"s1", "s2"}
    UserPip = {"u1"}
    IpTag = {"tag"}
    FNil = FNil
    MaxFEdits = 4
    FPlans <- MCFPlans
    AddrBits = 3
    MaxRanges = 3
    SgService = {"a", "b"}
    SgAddress = {"ip1", "ip2"}
    SgNil = SgNil
    FirstPriority = 5
    LastPriority = 15
    MaxRules = 5
    MaxSgEdits = 3
    SgPlans <- MCSgPlans
    PlService = {"p1", "p2"}
    Group = {"g1"}
    PlNil = PlNil
    MaxPlEdits = 4
    PlPlans <- MCPlPlans
    Ccm = Ccm
    Others = {rp, other}
    NoHolder = NoHolder
    MaxTakes = 4
    MaxFaults = 3
INVARIANTS
    PipsAccounted
    AggregationSound
    GroupSound
    LinkedAsAsked
    MutualExclusion
    FreshCaches
PROPERTIES
    OthersKeepAddress
    EnsuredIsServed
    ExposedAsAsked
    OthersKeepRules
    ProviderSettles
CHECK_DEADLOCK FALSE
