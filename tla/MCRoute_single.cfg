SPECIFICATION Spec
CONSTANTS
    Callers = {t1, t2}
    Nodes = {n1}
    Unmanaged = {}
    CIDRs = {c1, c2}
    Foreign = {f1}
    DualStack = FALSE
    ConfTags = {}
    SystemTags = {}
    OtherTags = {}
    NoRoute = NoRoute
    NoTable = NoTable
    NoData = NoData
SYMMETRY RouteSymmetry
INVARIANT NotifierNeverBlocks
INVARIANT NoLostOperation
INVARIANT BatchApplied
PROPERTY OnlyNamedRoutesChange
