SPECIFICATION FairSpec
CONSTANTS
    Streams = {s1, s2}
    MaxRequest = 2
    Quotas <- NoQuotas
    StartQuota = 3
    Role = "server"
    MaxSlices = 0
    MaxResets = 0
PROPERTIES PoolRecovers StreamsTriggered
