SPECIFICATION Spec
CONSTANTS
    Nodes = {n1, n2}
    Clients = {1, 2}
    Filters = {1, 2, 3}
    Path <- SmallPath
    Texts = {{1, 2, 3}, {1}}
    DefaultPageSize = 1
    MaxPageSize = 2
    IntHalf = 8
    Shared = Shared
    None = None
    MaxChanges = 3
SYMMETRY Symmetry
INVARIANTS
    ListedWhereSeen
    NothingMissed
    OnlineWins
    PagesPartition
    TreeAddsUp
    DeletedEverywhere
    NotFoundMeansUntouched
