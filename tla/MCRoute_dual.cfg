SPECIFICATION Spec
CONSTANTS
    Callers = {t1, t2}
    Nodes = {n1, n2}
    Unmanaged = {n2}
    CIDRs = {c1}
    Foreign = {}
    DualStack = TRUE
    ConfTags = {}
    SystemTags = {}
    OtherTags = {}
    NoRoute = NoRoute
    NoTable = NoTable
    NoData = NoData
SYMMETRY RouteSymmetry
INVARIANT BatchApplied
