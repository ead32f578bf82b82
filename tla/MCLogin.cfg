SPECIFICATION Spec
CONSTANTS
    Users = {alice}
    Requests = {r1, r2, r3}
    Threshold = 2
    Window = 2
    Duration = 2
    SessionTTL = 1
    PasswordExpiryDays = 1
    DefaultExpiryDays = 1
    MaxTime = 3
    MaxFaults = 1
    MaxPassword = 2
SYMMETRY Symmetry
CHECK_DEADLOCK FALSE
INVARIANTS
    LateGuessesBounded
    ThresholdLocks
    InitialPasswordOnlyByChoice
PROPERTY LockHolds
