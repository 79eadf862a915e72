SPECIFICATION FairSpec
CONSTANTS
    Workers = {w1, w2}
    Timer = timer
    Callers = {timer}
    Role = "server"
    Roles = {"server"}
    ConnectTimeout = FALSE
    Messages = {m1, m2}
    NoMessage = none
    FlowControl = FALSE
    MaxPending = 0
    MaxParts = 1
    MaxReceived = 2
INVARIANTS ReceiveTokenExclusive TokensReturned NoStrandedSend NoStrandedReceive
PROPERTY ReceivingResumes
