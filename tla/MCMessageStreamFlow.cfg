SPECIFICATION Spec
CONSTANTS
    Workers = {w1, w2}
    Timer = timer
    Callers = {w1, w2, timer}
    Role = "client"
    Roles = {"client"}
    ConnectTimeout = TRUE
    Messages = {m1, m2}
    NoMessage = none
    FlowControl = TRUE
    MaxPending = 0
    MaxParts = 2
    MaxReceived = 0
SYMMETRY Symmetry
INVARIANTS SendTokenExclusive ClosedAccounting
PROPERTIES QueueSpec ClosedIsFinal
