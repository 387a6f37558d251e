SPECIFICATION MCSpec
CONSTANTS
    n1 = n1
    n2 = n2
    Names = {n1, n2}
    Permanent = {n1}
    Workers = {1, 2}
    Cluster <- MCCluster
    ServiceCIDRs <- MCServiceCIDRs
    NodeMask <- MCNodeMask
    MaskOf <- MCMaskOf
    DefaultMask <- MCNodeMask
    Retries = 2
    QueueSize = 2
    Faults = {"rejected", "timeout", "tag"}
    Budgets <- MCBudgets
    MaxPending = 1
    NoNode = NoNode
    NoCIDRs = NoCIDRs
    Nil = Nil
    NmNil = NmNil
    MaxNmEvents = 2
    NmPlans <- MCNmPlans
INVARIANTS
    BitmapsSound
    UntaintedIsReady
PROPERTIES
    PromiseKept
    ServesEveryNode
    NodeFollows
CHECK_DEADLOCK FALSE
