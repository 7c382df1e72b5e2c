SPECIFICATION FairSpec
CONSTANTS
    None = None
    MaxTtl = 2
    Conns = {c1, c2}
    Addrs = {a1}
    AddrOf <- MCAddrOf
    Burst = 2
    StaleAfter = 1
    MaxStreams = 1
    RequestTimeout = 3
    ChunkTimeout = 1
    TotalTimeout = 2
    Grace = 1
    DrainTimeout = 2
    Deployments <- MCDeployments
    Requests <- MCRequests
    Bodies <- MCBodies
    MaxFrames = 2
INVARIANTS SlotsExact GovernedIngress AnswersTrue
PROPERTIES BucketSpec ConnectionsEnd
