SPECIFICATION FairSpec
CONSTANTS
    Listeners = {l1, l2}
    NoListener = null
    Streams = {s1, s2, s3}
    NoStream = none
    MaxConnections = 2
INVARIANTS ConnectionLimit StreamsTracked StoppedIsQuiet
PROPERTIES ListenResumes StopEnds
CHECK_DEADLOCK FALSE
