SPECIFICATION Spec
CONSTANTS
    n1 = n1
    n2 = n2
    s1 = s1
    s2 = s2
    v1 = v1
    v2 = v2
    v3 = v3
    a = a
    b = b
    N = 2
    Services = {s1, s2}
    Nodes = {n1}
    Labels = {a, b}
    Kinds = {FALSE}
    VMSets = {v1, v2, v3}
    Nil = Nil
    Annotation <- AnyConfig
    ServiceLabelSelector <- FirstLabel
    ServiceNamespaceSelector <- NoSelectors
    NodeSelector <- NoSelectors
    PrimaryVMSet <- FirstPrimary
    VMSetOf <- OneVMSet
    NodeStates = {"ready"}
    Flags <- AnyFlags
    LegacyNICs = FALSE
    MaxEdits = 4
    MaxFaults = 0
    MaxRestarts = 2
PROPERTIES
    StaysOnEligibleLB
    PlacementRespectsFlag
SYMMETRY Symmetry
CHECK_DEADLOCK FALSE
