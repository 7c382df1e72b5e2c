CONSTANTS
    w1 = w1
    w2 = w2
    w3 = w3
    t1 = t1
    t2 = t2
    t3 = t3
    alice = alice
    bob = bob
    None = None
    Workers = {w1, w2, w3}
    TaskIds = {t1, t2, t3}
    Principals = {alice, bob}
    Shards = {1}
    ShardOf <- OneShard
    PShards = {1, 2}
    PShardOf <- PShardEach
    Sizes = {1, 2}
    MaxPendingGlobal = 3
    MaxPendingPerPrincipal = 2
    MaxPendingBytes = 3
    Calls = {"create", "InputRequired", "cancel"}
SPECIFICATION Spec
SYMMETRY TaskSymmetry
CHECK_DEADLOCK FALSE
INVARIANTS CountersExact LimitsHeld BytesSound
PROPERTIES RegistrySpec
