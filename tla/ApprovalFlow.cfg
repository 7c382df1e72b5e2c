\* One task, two callers racing for its result, inspectors that may drift,
\* clients that disconnect, a shutdown.
SPECIFICATION FairSpec
CONSTANTS
    t1 = t1  t2 = t2  c1 = c1  c2 = c2  plain = plain  risky = risky
    None = None
    TaskIds = {t1}
    Callers = {c1, c2}
    MaxConcurrent = 1
    Requests = {plain, risky}
    Inspect <- Masking
    DriftMode = "Permissive"
    MaxCalls = 2
    Faults = {"disconnect", "shutdown"}
CHECK_DEADLOCK FALSE
INVARIANTS ExecutesWhatWasApproved ExecutionExclusive
PROPERTIES CallsEnd UndecidedExpires
