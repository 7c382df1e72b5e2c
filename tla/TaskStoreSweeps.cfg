CONSTANTS
    w1 = w1
    w2 = w2
    w3 = w3
    t1 = t1
    t2 = t2
    t3 = t3
    alice = alice
    bob = bob
    None = None
    Workers = {w1, w2}
    TaskIds = {t1, t2}
    Principals = {alice}
    Shards = {1}
    ShardOf <- OneShard
    PShards = {1}
    PShardOf <- OnePShard
    Sizes = {1}
    MaxPendingGlobal = 2
    MaxPendingPerPrincipal = 2
    MaxPendingBytes = 2
    Calls = {"create", "InputRequired", "Failed", "Expired", "approved", "rejected", "complete", "fail", "autoApprove",
             "expire", "failAll", "cleanup"}
SPECIFICATION Spec
SYMMETRY Symmetry
CHECK_DEADLOCK FALSE
INVARIANTS IndexSound DecisionRecorded
