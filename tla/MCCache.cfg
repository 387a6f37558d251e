SPECIFICATION Spec
CONSTANTS
    Clients = {p1, p2}
    Entries = {e1, e2, e3}
    NoEntry = NoEntry
    NoData = NoData
    NoAnswer = NoAnswer
    Present = {0, 1}
    MaxVersion = 2
PROPERTIES
    KeepsPromise
    ReadsInOrder
SYMMETRY CacheSymmetry
