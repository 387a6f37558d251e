SPECIFICATION Spec
CONSTANTS
    Callers = {t1, t2}
    Nodes = {n1}
    Unmanaged = {}
    CIDRs = {c1}
    Foreign = {}
    DualStack = FALSE
    ConfTags = {}
    SystemTags = {}
    OtherTags = {}
    NoRoute = NoRoute
    NoTable = NoTable
    NoData = NoData
INVARIANT FailureIsReported
