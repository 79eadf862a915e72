SPECIFICATION Spec
CONSTANTS
    Streams = {s1, s2}
    MaxRequest = 2
    Quotas <- LimitedOrNot
    StartQuota = 3
    Role = "server"
    MaxSlices = 1
    MaxResets = 1
SYMMETRY Symmetry
INVARIANTS ThroughputBound TokensInOrder
