SPECIFICATION Spec
CONSTANTS
    None = None
    Gone = Gone
    Tasks = {1, 2}
    Handlers = {h1, h2}
    Environments <- MCEnvironments
    DefaultPrincipal <- MCDefaultPrincipal
    ForeignId = upstream_id
    Clock = {1, 2}
    Fields <- MCFields
    Results <- MCResults
    PageSize = 1
    Workloads <- MCWorkloads
CHECK_DEADLOCK FALSE
INVARIANTS IsolationExact WalkMissesOnlySwept InitializeExact
PROPERTIES TerminalAnswersFinal
