CONSTANTS
    None = None
    Broken = Broken
    Unreadable = Unreadable
    Blank = Blank
    Hidden = Hidden
    Garbage = Garbage
    src = src
    read = read
    write = write
    admin = admin
    wf = wf
    r1 = r1
    e1 = e1
    Embedded <- PermitAll
    Texts <- SomeTexts
    Reloaders = {r1}
    Evaluators = {e1}
    Requests <- AllRequests
    JsonValues <- AllValues
    MaxJsonDepth = 2
    MaxLong = 50
    MaxChanges = 2
    MaxCalls = 2
    SourceId = src
    Names = {read, write}
    Worlds <- AllWorlds
    ConfigTexts <- Edits
    MaxEdits = 1
SPECIFICATION Spec
CHECK_DEADLOCK FALSE
INVARIANTS ServesAsConfigured PoliciesGenuine EvaluationsSound
