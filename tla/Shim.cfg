\* Two lines of the agent, one of the server, one failure or request to shut down.
SPECIFICATION FairSpec
CONSTANTS
    mine = mine  read_ = read_  write_ = write_
    None = None
    SourceId = mine
    Lines <- AllLines
    Ids = {1, 2}
    Configs <- AllConfigs
    Names = {read_, write_}
    StartPolicy = {read_, write_}
    Policies = {{read_}}
    MaxLines = 2
    MaxServerLines = 1
    MaxFaults = 1
    Stubs = {FALSE}
    Filters = {TRUE}
CHECK_DEADLOCK FALSE
INVARIANTS DeliveriesSound AnsweredOnce
PROPERTIES Handled ShutdownReachesServer
