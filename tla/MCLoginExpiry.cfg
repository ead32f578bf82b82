SPECIFICATION Spec
CONSTANTS
    Users = {alice}
    Requests = {r1}
    Threshold = 2
    Window = 2
    Duration = 2
    SessionTTL = 2
    PasswordExpiryDays = 0
    DefaultExpiryDays = 1
    MaxTime = 3
    MaxFaults = 0
    MaxPassword = 2
CHECK_DEADLOCK FALSE
INVARIANT ZeroNeverExpires
