SPECIFICATION Spec
CONSTANTS
    Clients = {c1, c2}
    Streams = {s1}
    Closers = {k1, k2}
    NoOne = NoOne
    BufSize = 1
    MaxFilters = 1
    MaxCalls = 2
CHECK_DEADLOCK FALSE
INVARIANTS
    NoPanic
    EveryLossCounted
    ClientOrder
PROPERTIES
    PublishReturns
    StreamsEnd
