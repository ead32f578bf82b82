SPECIFICATION NodeSpec
CONSTANTS
    Nodes = {n1, n2}
    Absent = Absent
    Short = Short
    InitKeys = {Absent, Short}
    InitEnvs <- NoneOrPreset
    MaxFresh = 2
    MaxFaults = 1
    MaxCrashes = 1
    MaxFlushes = 1
    MaxBoots = 3
    MaxFailures = 1
SYMMETRY Symmetry
CHECK_DEADLOCK FALSE
INVARIANTS
    RedisAgreement
    NeverServedUnseeded
    DeletionSticks
    InitialPasswordPrinted
    StoresOutliveUsers
PROPERTY FileKeyStable
