SPECIFICATION FairStopSpec
CONSTANTS
    Calls = {c1}
    NoCall = nocall
    Streams = {s1}
    NoStream = nostream
    Workers = {w1, w2, keeper, stopper}
    Timer = timer
    Stopper = stopper
    Keeper = keeper
INVARIANT StopEndsCalls
PROPERTY StopTerminates
CHECK_DEADLOCK FALSE
