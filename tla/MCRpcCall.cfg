SPECIFICATION FairSpec
CONSTANTS
    Calls = {c1, c2}
    NoCall = nocall
    Streams = {s1, s2}
    NoStream = nostream
    Workers = {w1}
    Timer = timer
INVARIANTS OneUsableStream CallsWatched ControllersExact
PROPERTIES PromiseKept EveryCallEnds
