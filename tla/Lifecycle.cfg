\* Three connections for one permit, two signals.
SPECIFICATION LifecycleFairSpec
CONSTANTS
    a = a  b = b  c = c
    NoConn = NoConn
    Conns = {a, b, c}
    Signals = {"SIGINT", "SIGTERM"}
    MaxConcurrentStreams = 1
CHECK_DEADLOCK FALSE
INVARIANTS AdmissionExact CleanDrainIsFinal
PROPERTIES ShutdownCompletes
