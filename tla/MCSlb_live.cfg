SPECIFICATION FairSpec
CONSTANTS
    n1 = n1
    n2 = n2
    s1 = s1
    s2 = s2
    v1 = v1
    v2 = v2
    v3 = v3
    a = a
    b = b
    N = 2
    Services = {s1, s2}
    Nodes = {n1}
    Labels = {a}
    Kinds = {TRUE, FALSE}
    VMSets = {v1, v2, v3}
    Nil = Nil
    Annotation <- AnyConfig
    ServiceLabelSelector <- NoSelectors
    ServiceNamespaceSelector <- NoSelectors
    NodeSelector <- NoSelectors
    PrimaryVMSet <- FirstPrimary
    VMSetOf <- OneVMSet
    NodeStates = {"ready"}
    Flags <- AllAllowed
    LegacyNICs = FALSE
    MaxEdits = 3
    MaxFaults = 1
    MaxRestarts = 1
PROPERTIES
    Converges
CHECK_DEADLOCK FALSE
