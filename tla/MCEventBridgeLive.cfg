SPECIFICATION Spec
CONSTANTS
    Nodes = {n1, n2}
    Clients = {c1}
    ChanCap = 1
    LruCap = 1
    MaxEvents = 2
    MaxFaults = 0
    MaxStops = 1
    MaxRestarts = 0
CHECK_DEADLOCK FALSE
PROPERTIES
    StopTerminates
    EventuallyMerged
