SPECIFICATION Spec
CONSTANTS
    Services = {a, b}
    NoService = none
    Workers = {w1, w2}
    NoWorker = nobody
    CacheIndex <- OneBucket
    SlotCount = 4
    Periods = {1, 60}
    Measured = {a}
    MaxSlots = 4
    MaxReports = 2
SYMMETRY Symmetry
INVARIANTS LookupExact StatsExact
CHECK_DEADLOCK FALSE
