\* Two bodies in flight, a byte limit one of the pairs exceeds, two permits.
SPECIFICATION FairSpec
CONSTANTS
    r1 = r1  r2 = r2  mine = mine  other = other
    read = read  write = write  tg = tg
    None = None
    SourceId = mine
    LocalTask = tg
    Requests = {r1, r2}
    Bodies <- AllBodies
    Configs <- AllConfigs
    StartPolicy = {read, "resources/subscribe"}
    Policies = {{}}
    MaxBody = 3
    MaxAggregate = 3
    MaxBatch = 2
    MaxConcurrent = 2
    BatchConcurrency = 2
    MaxTransportRetries = 1
    MaxReloads = 1
CHECK_DEADLOCK FALSE
INVARIANTS CapacityHeld DeliveredOnce
PROPERTIES GatesDecide Answered
