SPECIFICATION Spec
CONSTANTS
    Names = {admin, bob}
    AdminName = admin
    InitAdmins = {admin, bob}
    Procs = {p1, p2}
    Ops = {"toggle"}
    MaxOps = 2
CHECK_DEADLOCK FALSE
INVARIANT AdminRemains
