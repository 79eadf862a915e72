SPECIFICATION FairSpec
CONSTANTS
    Addresses = {a1}
    MaxContexts = 2
    Calls = {c1, c2, c3}
    NoServer = none
    Threads = 2
    Capacity = 1
    RetryCount = 1
INVARIANTS MapsPartition LoadBound
PROPERTY Recovers
CHECK_DEADLOCK FALSE
