SPECIFICATION Spec
CONSTANTS
    Ids = {a, b}
    Procs = {p1, p2, p3}
    Blank = Blank
    NoId = NoId
    Topics <- SomeTopics
    Malformed = Malformed
    Unescape <- Decoding
    HistLen = 2
    RegexProcs = {r1, r2}
    Bodies = {x, y}
    Orders = {1}
    NoRule = NoRule
    Mixes <- OneRow
CHECK_DEADLOCK FALSE
INVARIANT RowUnsubscribed
