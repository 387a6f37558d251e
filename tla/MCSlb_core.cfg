SPECIFICATION Spec
CONSTANTS
    n1 = n1
    n2 = n2
    s1 = s1
    s2 = s2
    v1 = v1
    v2 = v2
    v3 = v3
    a = a
    b = b
    N = 2
    Services = {s1, s2}
    Nodes = {n1}
    Labels = {a, b}
    Kinds = {TRUE, FALSE}
    VMSets = {v1, v2, v3}
    Nil = Nil
    Annotation <- AnyConfig
    ServiceLabelSelector <- FirstLabel
    ServiceNamespaceSelector <- FirstNamespace
    NodeSelector <- SecondNode
    PrimaryVMSet <- OtherPrimary
    VMSetOf <- OneVMSet
    NodeStates = {"ready", "absent", "excluded"}
    Flags <- AnyFlags
    LegacyNICs = TRUE
    MaxEdits = 3
    MaxFaults = 1
    MaxRestarts = 1
INVARIANTS
    OneFrontendPerKind
    NodesServed
CHECK_DEADLOCK FALSE
