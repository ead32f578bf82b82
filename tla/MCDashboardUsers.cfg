SPECIFICATION StoreSpec
CONSTANTS
    Names = {admin, bob}
    AdminName = admin
    InitAdmins <- FreshOrInUse
    Procs = {p1, p2}
    NoProc = NoProc
    Torn = Torn
    MaxOps = 4
    MaxFaults = 2
    HashAdmins = {admin}
    RedisOps <- AllOps
    MaxRedisOps = 5
SYMMETRY Symmetry
CHECK_DEADLOCK FALSE
PROPERTIES
    MutateAtomic
    ImplementsAccountStore
