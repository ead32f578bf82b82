SPECIFICATION Spec
CONSTANTS
    Nodes = {n1, n2}
    Clients = {c1, c2}
    ChanCap = 2
    LruCap = 1
    MaxEvents = 2
    MaxFaults = 2
    MaxStops = 1
    MaxRestarts = 1
SYMMETRY Symmetry
CHECK_DEADLOCK FALSE
INVARIANTS
    DedupWindow
    OriginOrder
    OnlyDuplicatesDiscarded
PROPERTY QuietAfterStop
