\* One task, two callers: the upstream may be called twice.
SPECIFICATION Spec
CONSTANTS
    t1 = t1  t2 = t2  c1 = c1  c2 = c2  plain = plain  risky = risky
    None = None
    TaskIds = {t1}
    Callers = {c1, c2}
    MaxConcurrent = 1
    Requests = {plain}
    Inspect <- NoInspectors
    DriftMode = "Strict"
    MaxCalls = 2
    Faults = {}
INVARIANT AtMostOnce
CHECK_DEADLOCK FALSE
